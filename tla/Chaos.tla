------------------------------- MODULE Chaos -------------------------------
(* The model behind Chaos as the services see it: the hourly allowance every   *)
(* call is counted against, and what is made of an answer before it reaches a  *)
(* conversation, a group, a profile or a title.  The four calls share the      *)
(* transport; whatever goes wrong in it is an error of the call.               *)
EXTENDS Backend, Integers, SequencesExt

CONSTANTS
    PerHour,        \* AI_PER_HOUR_LIMIT
    Window,         \* the hour, in ticks
    RawReply,       \* objects the model may send for a turn,
    RawFacts,       \* for an extraction (sequences of facts),
    RawRefs,        \* for an ask (sequences of citations),
    RawName         \* and for a title (its length, quotes and blanks trimmed)

ASSUME ChaosAssumption ==
    /\ PerHour \in Nat \ {0} /\ Window \in Nat \ {0}
    /\ \A r \in RawReply : /\ r.cards \in Seq(Seq(Int))
                           /\ r.decision # None => r.decision \in [asks : BOOLEAN, options : Nat]
                           /\ r.decided \in Seq(STRING) /\ r.open \in Seq(STRING)
                           /\ r.action \in Nat
    /\ \A facts \in RawFacts :
          facts \in Seq([label : STRING, value : STRING, category : STRING, confidence : Int])
    /\ RawRefs \subseteq Seq(STRING)
    /\ RawName \subseteq Nat

VARIABLES
    used,       \* chaos:quota:<person>; beyond PerHour + 1 nothing differs
    ttl,        \* ticks until Redis drops that key; 0 when there is none
    told        \* the outcome of a call, with what the model sent, until its
                \* caller has it

chaosVars == <<used, ttl, told>>

ChaosInit ==
    /\ used = [p \in Person |-> 0]
    /\ ttl = [p \in Person |-> 0]
    /\ told = [call |-> "none"]

ChaosTypeOK ==
    /\ used \in [Person -> 0..PerHour + 1]
    /\ ttl \in [Person -> 0..Window]
    /\ told.call \in {"none", "refused", "failed", "shown", "reply", "facts", "answer", "name"}

-----------------------------------------------------------------------------
(* The allowance: INCR and EXPIRE NX in one transaction.                      *)
Least(a, b) == IF a < b THEN a ELSE b

\* EXPIRE without NX: every call starts the hour again (AllowanceReturns).
Count_Sliding(p) ==
    /\ used' = [used EXCEPT ![p] = Least(@ + 1, PerHour + 1)]
    /\ ttl' = [ttl EXCEPT ![p] = Window]

Count(p) ==
    /\ used' = [used EXCEPT ![p] = Least(@ + 1, PerHour + 1)]
    /\ ttl' = [ttl EXCEPT ![p] = IF @ = 0 THEN Window ELSE @]

Outcome(o) == told.call = "none" /\ told' = o

Refuse(p) ==
    /\ used[p] >= PerHour
    /\ Count(p)
    /\ Outcome([call |-> "refused"])

\* Lets the call through.  An error of Redis does too, counted or not, whatever
\* the count.
Spend(p) == Count(p) \/ UNCHANGED <<used, ttl>>

Tick ==
    /\ \E p \in Person : ttl[p] > 0
    /\ ttl' = [p \in Person |-> IF ttl[p] = 0 THEN 0 ELSE ttl[p] - 1]
    /\ used' = [p \in Person |-> IF ttl[p] <= 1 THEN 0 ELSE used[p]]
    /\ UNCHANGED told

-----------------------------------------------------------------------------
(* What is made of an answer.  "" is a string with nothing but blanks in it.  *)

\* unfence finds the object through a fence or prose around it.  What does not
\* parse is shown as text if there is any and it does not begin with a brace.
Shape == [around : BOOLEAN, body : {"object", "broken", "prose", "blank"}]

Shown(s) == s.around \/ s.body = "prose"

First(list, n) == SubSeq(list, 1, Least(n, Len(list)))

\* Blanks are dropped after the cut instead of before (AnswersKeepShape).
TrimList_CutFirst(list, max) == SelectSeq(First(list, max), LAMBDA s : s # "")

\* A loop over a list that skips what is no good and breaks off when it has max:
\* the positions it keeps of the first n.
Sift(good, max, n) ==
    LET kept[i \in 0..n] ==
          IF i = 0 THEN <<>>
          ELSE LET before == kept[i - 1] IN
               IF Len(before) = max \/ i \notin good THEN before ELSE Append(before, i)
    IN  kept[n]

At(list, positions) == [k \in DOMAIN positions |-> list[positions[k]]]

NotBlank(list) == {i \in DOMAIN list : list[i] # ""}

TrimList(list, max) == At(list, Sift(NotBlank(list), max, Len(list)))

Clamp(n, lo, hi) == IF n < lo THEN lo ELSE IF n > hi THEN hi ELSE n

CardsOf(cards) ==
    LET kept == First(cards, 3) IN
    IF Len(kept) = 1 THEN <<>>
    ELSE [i \in DOMAIN kept |-> [j \in DOMAIN First(kept[i], 4) |-> Clamp(kept[i][j], 1, 5)]]

DecisionOf(d) ==
    IF d = None \/ ~d.asks \/ Least(d.options, 4) < 2 THEN None
    ELSE [d EXCEPT !.options = Least(@, 4)]

SanitiseReply(r) ==
    [text |-> r.text,
     cards |-> CardsOf(r.cards),
     decision |-> DecisionOf(r.decision),
     decided |-> TrimList(r.decided, 6),
     open |-> TrimList(r.open, 6),
     action |-> IF r.action > 40 THEN 0 ELSE r.action]

Category == {"basics", "taste", "constraints", "money", "food", "style"}

FactOf(f) ==
    [f EXCEPT !.category = IF @ \in Category THEN @ ELSE "basics",
              !.confidence = IF @ <= 0 \/ @ > 100 THEN 70 ELSE @]

Whole(facts) == {i \in DOMAIN facts : facts[i].label # "" /\ facts[i].value # ""}

Filed(facts) == [i \in DOMAIN facts |-> FactOf(facts[i])]

SanitiseFacts(facts) == At(Filed(facts), Sift(Whole(facts), 8, Len(facts)))

\* Three citations are kept, and of those the ones that were handed over.
ReferencesOf(refs, threads) ==
    LET cited == First(refs, 3) IN
    At(cited, Sift({i \in DOMAIN cited : cited[i] \in threads}, 3, Len(cited)))

NameOf(n) == Least(n, 40)

-----------------------------------------------------------------------------
(* The calls.                                                                 *)

\* Azure refuses, times out or sends no completion; a call that is not for text
\* gets something that does not parse; or the object says nothing.
ChaosFails(p) == Spend(p) /\ Outcome([call |-> "failed"])

\* A turn or an ask gets something that does not parse.
Unparsed(p, s) ==
    /\ s.body # "object"
    /\ Spend(p)
    /\ Outcome(IF Shown(s) THEN [call |-> "shown", shape |-> s] ELSE [call |-> "failed"])

ReplyCall(p, r) ==
    /\ Spend(p)
    /\ Outcome(IF r.text = "" THEN [call |-> "failed"]
               ELSE [call |-> "reply", raw |-> r, reply |-> SanitiseReply(r)])

ExtractCall(p, facts) ==
    /\ Spend(p)
    /\ Outcome([call |-> "facts", mined |-> facts, facts |-> SanitiseFacts(facts)])

AskCall(p, refs, threads) ==
    /\ Spend(p)
    /\ Outcome([call |-> "answer", threads |-> threads, cites |-> ReferencesOf(refs, threads)])

\* Naming a conversation is not counted.
NameCall(n) ==
    /\ Outcome(IF n = 0 THEN [call |-> "failed"] ELSE [call |-> "name", title |-> NameOf(n)])
    /\ UNCHANGED <<used, ttl>>

Deliver ==
    /\ told.call # "none"
    /\ told' = [call |-> "none"]
    /\ UNCHANGED <<used, ttl>>

ChaosNext ==
    \/ Tick \/ Deliver
    \/ \E p \in Person :
        \/ Refuse(p)
        \/ ChaosFails(p)
        \/ \E s \in Shape : Unparsed(p, s)
        \/ \E r \in RawReply : ReplyCall(p, r)
        \/ \E facts \in RawFacts : ExtractCall(p, facts)
        \/ \E refs \in RawRefs, threads \in SUBSET {"t1", "t2"} : AskCall(p, refs, threads)
    \/ \E n \in RawName : NameCall(n)

\* Time passes.  Nobody has to call, and nothing stops anybody from calling.
ChaosFair == WF_chaosVars(Tick)

ChaosSpec == ChaosInit /\ [][ChaosNext]_chaosVars /\ ChaosFair

-----------------------------------------------------------------------------
(* What the callers may rely on.                                              *)

\* An allowance that is used up comes back, however often the caller tries again
\* before: the window is fixed by its first call, and no later call extends it.
AllowanceReturns == \A p \in Person : used[p] > PerHour ~> used[p] = 0

\* The members of a list at good positions, in their order, up to max of them.
FirstOf(out, list, good, max) ==
    /\ Len(out) = Least(Cardinality(good), max)
    /\ \A i \in good :
        LET rank == Cardinality({j \in good : j <= i}) IN
        rank <= max => out[rank] = list[i]

\* "the client never has to defend itself" (reply.go): a comparison has two or
\* three cards, the first the model sent, of at most four ratings from 1 to 5; a
\* decision has a question and two to four options; the text says something and a
\* label fits its button;
CardsFit(raw, out) ==
    /\ Len(out) = (IF Len(raw) = 1 THEN 0 ELSE Least(Len(raw), 3))
    /\ \A i \in DOMAIN out :
        /\ Len(out[i]) = Least(Len(raw[i]), 4)
        /\ \A j \in DOMAIN out[i] :
            out[i][j] \in 1..5 /\ (raw[i][j] \in 1..5 => out[i][j] = raw[i][j])

ReplyFits(raw, out) ==
    /\ CardsFit(raw.cards, out.cards)
    /\ out.decision # None => out.decision.asks /\ out.decision.options \in 2..4
    /\ out.text # "" /\ out.action <= 40

\* and the notes are the first six that say something.
ReplyShape(raw, out) ==
    /\ ReplyFits(raw, out)
    /\ FirstOf(out.decided, raw.decided, NotBlank(raw.decided), 6)
    /\ FirstOf(out.open, raw.open, NotBlank(raw.open), 6)

\* Every outcome of a call keeps its promise to the code behind it: a turn has the
\* shape above; the facts are the first eight that have a label and a value, each
\* in a category of the profile with a confidence in (0, 1]; a group's answer
\* cites conversations it was given and no more than three; a title is not empty
\* and fits; and the answer is shown as it came only if it did not begin with a
\* brace (which a broken object behind a fence does not, either).
AnswersKeepShape ==
    /\ told.call = "reply" => ReplyShape(told.raw, told.reply)
    /\ told.call = "facts" =>
        /\ FirstOf(told.facts, Filed(told.mined), Whole(told.mined), 8)
        /\ \A i \in DOMAIN told.facts :
              told.facts[i].category \in Category /\ told.facts[i].confidence \in 1..100
    /\ told.call = "answer" => Len(told.cites) <= 3 /\ ToSet(told.cites) \subseteq told.threads
    /\ told.call = "name" => told.title \in 1..40
    /\ told.call = "shown" => told.shape.around \/ told.shape.body = "prose"
=============================================================================
