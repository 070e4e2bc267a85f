------------------------------ MODULE Learning ------------------------------
(***************************************************************************)
(* What Chaos learns about one person (profile/service and                 *)
(* profile/repository): facts, the note derived from them, the watermark   *)
(* of what was mined, and the hourly allowance of model calls.             *)
(*                                                                         *)
(* A person's requests run in goroutines of their own: several devices,    *)
(* and a refresh the client fires on every profile open.  One statement is *)
(* one step, except that the writes of UpsertFacts are one step with their *)
(* commit: the rows they touch stay locked until then, so nobody can act   *)
(* on them in between.                                                     *)
(*                                                                         *)
(* A batch of facts is a function from labels: the loop of UpsertFacts     *)
(* lets the last fact of a label win.  A note has room for every label     *)
(* (refreshNote takes three), so the order of facts is left out.           *)
(***************************************************************************)
EXTENDS Naturals, FiniteSets

CONSTANTS
    Label,       \* what a fact is about, lower-cased
    Value,       \* what it says
    Call,        \* request goroutines
    Ops,         \* the requests of an instance
    PerHour,     \* model calls a person has per hour
    Transcript,  \* how many lines a transcript has room for
    SpendLimit,  \* nothing is asked of a model beyond this many counts (bound)
    SaidLimit,   \* no more lines than this are said (bound)
    RowLimit,    \* no fact is forgotten once its label had this many rows (bound)
    None

AllOps == {"turn", "add", "learn", "refresh", "edit", "forget", "profile"}

ASSUME LearningAssumption ==
    /\ IsFiniteSet(Label) /\ Cardinality(Label) <= 3
    /\ Ops \subseteq AllOps
    /\ PerHour \in Nat \ {0} /\ Transcript \in Nat \ {0} /\ SpendLimit \in Nat /\ SaidLimit \in Nat /\ RowLimit \in Nat

VARIABLES
    facts,      \* Label -> its row of facts, or None (user_id, lower(label) is unique)
    made,       \* Label -> how many rows it has had: the id of a row is its number
    note,       \* profiles.note, as the set of values in it
    learned,    \* profiles.learned_count
    said,       \* messages of kind user this person has authored
    spent,      \* chaos:quota:<user> in the cache
    pc,         \* Call -> next statement
    call,       \* Call -> what the request carries and has read
    granted,    \* history: calls the allowance let through this hour
    mined,      \* history: the lines some transcript contained, by their number
    disturbed   \* history: whether requests overlapped, or a note was left unwritten

vars == <<facts, made, note, learned, said, spent, pc, call, granted, mined, disturbed>>

profile == <<note, learned>>

budget == <<spent, granted>>

-----------------------------------------------------------------------------
(* Facts *)

\* Confidence: below 0.7, below 1, and 1.
Sure == {"guess", "fair", "certain"}

Fact == [id : Nat, value : Value, sure : Sure, confirmed : BOOLEAN]

ASSUME NoneIsNoFact == None \notin Fact

\* What the extractor can answer: facts for some labels, or nothing.
Batches == UNION {[ls -> Value \X Sure] : ls \in SUBSET Label}

Present(fs) == {l \in Label : fs[l] # None}

\* The line refreshNote composes: no unconfirmed guesses.
Derived(fs) ==
    {fs[l].value : l \in {x \in Present(fs) : fs[x].confirmed \/ fs[x].sure # "guess"}}

NoFacts == [l \in Label |-> None]

NoCall == [op |-> "none", label |-> None, id |-> 0, found |-> <<>>, existing |-> NoFacts,
           value |-> None, confirmed |-> None, note |-> {}, total |-> 0]

Idle(c) == pc[c] = "idle"

Quiescent == \A c \in Call : Idle(c)

\* The person's own words (AddFact) and not a model's reading of them.
OwnWords(c) == call[c].op = "add"

-----------------------------------------------------------------------------
(* Types and the initial state *)

Read == [id : Nat, confirmed : BOOLEAN]

CallRow == [op : AllOps \cup {"none"}, label : Label \cup {None}, id : Nat, found : Batches,
            existing : [Label -> Read \cup {None}], value : Value \cup {None},
            confirmed : BOOLEAN \cup {None}, note : SUBSET Value, total : 0..said]

Steps == {"idle", "compare", "list", "spend", "answer", "read", "write", "edit", "reread",
          "forget", "derive", "setNote", "mark", "upsert"}

TypeOK ==
    /\ facts \in [Label -> Fact \cup {None}]
    /\ made \in [Label -> Nat]
    /\ \A l \in Present(facts) : facts[l].id \in 1..made[l]
    /\ note \in SUBSET Value
    /\ said \in Nat
    /\ learned \in 0..said /\ mined \in SUBSET (1..said)
    /\ spent \in Nat /\ granted \in 0..spent
    /\ pc \in [Call -> Steps]
    /\ call \in [Call -> CallRow]
    /\ \A c \in Call : Idle(c) <=> call[c].op = "none"
    /\ disturbed \in SUBSET {"overlap", "unwritten"}

Init ==
    /\ facts = NoFacts
    /\ made = [l \in Label |-> 0]
    /\ note = {}
    /\ learned = 0
    /\ said = 0
    /\ spent = 0
    /\ pc = [c \in Call |-> "idle"]
    /\ call = [c \in Call |-> NoCall]
    /\ granted = 0
    /\ mined = {}
    /\ disturbed = {}

-----------------------------------------------------------------------------
(* Steps every request is made of *)

Goto(c, step) == pc' = [pc EXCEPT ![c] = step]

Set(c, r) == call' = [call EXCEPT ![c] = r]

Finish(c) == Goto(c, "idle") /\ Set(c, NoCall)

\* What the request has read is of no use to the steps that are left.
Forgetting(c) == Set(c, [NoCall EXCEPT !.op = call[c].op])

Begin(c, op, r, step) ==
    /\ op \in Ops
    /\ Idle(c)
    /\ Set(c, [r EXCEPT !.op = op])
    /\ Goto(c, step)
    /\ disturbed' = disturbed \cup (IF Quiescent THEN {} ELSE {"overlap"})
    /\ UNCHANGED <<facts, made, profile, said, budget, mined>>

\* Whether a request that stops here leaves facts behind and the note unwritten.
Unwritten(c) == IF pc[c] \in {"reread", "derive", "setNote"} THEN {"unwritten"} ELSE {}

\* The request of c ends with an error, the client hangs up, or the process dies.
Abandon(c) ==
    /\ ~Idle(c)
    /\ disturbed' = disturbed \cup Unwritten(c)
    /\ Finish(c)
    /\ UNCHANGED <<facts, made, profile, said, budget, mined>>

-----------------------------------------------------------------------------
(* The allowance *)

\* Another line of theirs, in any conversation.
Say ==
    /\ said < SaidLimit
    /\ said' = said + 1
    /\ UNCHANGED <<facts, made, profile, pc, call, budget, mined, disturbed>>

\* INCR with EXPIRE NX: the hour runs from the first count.
HourEnds ==
    /\ spent > 0
    /\ spent' = 0
    /\ granted' = 0
    /\ UNCHANGED <<facts, made, profile, said, pc, call, mined, disturbed>>

\* The count before this one is compared with the allowance.
Count_OffByOne(allowed) ==
    /\ spent' = spent + 1
    /\ allowed = (spent <= PerHour)
    /\ granted' = IF allowed THEN granted + 1 ELSE granted

\* One count, and whether the allowance covers it.
Count(allowed) ==
    /\ spent' = spent + 1
    /\ allowed = (spent + 1 <= PerHour)
    /\ granted' = IF allowed THEN granted + 1 ELSE granted

\* A turn of Chaos this person asked for counts against the same allowance
\* (chaos.Reply); nothing else of it touches the profile.
Turn ==
    /\ "turn" \in Ops
    /\ spent < SpendLimit
    /\ \E allowed \in BOOLEAN : Count(allowed)
    /\ UNCHANGED <<facts, made, profile, said, pc, call, mined, disturbed>>

\* extract ends with an error: Refresh still moves its watermark.
ExtractFails(c) ==
    IF call[c].op = "refresh"
    THEN Goto(c, "mark") /\ Set(c, [call[c] EXCEPT !.found = <<>>, !.existing = NoFacts])
    ELSE Finish(c)

\* spend: a cache outage does not take the feature down.
Spend(c) ==
    /\ pc[c] = "spend"
    /\ \/ Count(TRUE) /\ Goto(c, "answer") /\ UNCHANGED call
       \/ Count(FALSE) /\ ExtractFails(c)
       \/ UNCHANGED budget /\ Goto(c, "answer") /\ UNCHANGED call
    /\ UNCHANGED <<facts, made, profile, said, mined, disturbed>>

-----------------------------------------------------------------------------
(* Extraction: add, learn, refresh *)

AddFact(c) == spent < SpendLimit /\ Begin(c, "add", NoCall, "spend")

Learn(c) == spent < SpendLimit /\ Begin(c, "learn", NoCall, "spend")

\* CountOwnMessages.
Refresh(c) ==
    /\ spent < SpendLimit
    /\ Begin(c, "refresh", [NoCall EXCEPT !.total = said], "compare")

\* The profile is read; fewer than two new lines are not worth a call.
Compare(c) ==
    /\ pc[c] = "compare"
    /\ IF call[c].total = 0 \/ call[c].total < learned + 2
       THEN Finish(c)
       ELSE Goto(c, "list") /\ UNCHANGED call
    /\ UNCHANGED <<facts, made, profile, said, budget, mined, disturbed>>

\* OwnMessages: the transcript is the last of what has been said by now; older
\* lines it has no room for are left out.
OwnMessages(c) ==
    /\ pc[c] = "list"
    /\ mined' = mined \cup {i \in 1..said : i + Transcript > said}
    /\ Goto(c, "spend")
    /\ UNCHANGED <<facts, made, profile, said, call, budget, disturbed>>

\* client.Extract; what the person said themselves is certain.
Answer(c) ==
    /\ pc[c] = "answer"
    /\ \/ /\ \E found \in Batches :
             /\ OwnWords(c) => \A l \in DOMAIN found : found[l][2] = "certain"
             /\ Set(c, [call[c] EXCEPT !.found = found])
             /\ Goto(c, IF DOMAIN found = {} THEN "derive" ELSE "read")
       \/ ExtractFails(c)
    /\ UNCHANGED <<facts, made, profile, said, budget, mined, disturbed>>

\* UpsertFacts begins its transaction and reads what there is; of a row it will
\* use the id and whether it is confirmed.
ReadFacts(c) ==
    /\ pc[c] = "read"
    /\ Set(c, [call[c] EXCEPT !.existing =
                  [l \in Label |-> IF l \in DOMAIN call[c].found /\ facts[l] # None
                                  THEN [id |-> facts[l].id, confirmed |-> facts[l].confirmed]
                                  ELSE None]])
    /\ Goto(c, "write")
    /\ UNCHANGED <<facts, made, profile, said, budget, mined, disturbed>>

\* Labels of the batch that had no row when UpsertFacts read.
Fresh(c) == {l \in DOMAIN call[c].found : call[c].existing[l] = None}

\* Confirmed facts are no exception.
Open_Everything(c) == DOMAIN call[c].found \ Fresh(c)

\* Labels that had one which a person had not confirmed, or is now saying.
Open(c) == {l \in DOMAIN call[c].found \ Fresh(c) : OwnWords(c) \/ ~call[c].existing[l].confirmed}

\* tx.Save instead of Updates: the row is inserted again when it is gone.
Touched_Saved(c) == Open(c)

\* UPDATE ... WHERE id = the row that was read.
Touched(c) == {l \in Open(c) \cap Present(facts) : facts[l].id = call[c].existing[l].id}

\* The row a label of the batch is given.
Learnt(c, l, id) ==
    [id |-> id, value |-> call[c].found[l][1], sure |-> call[c].found[l][2],
     confirmed |-> OwnWords(c) \/ (l \notin Fresh(c) /\ call[c].existing[l].confirmed)]

\* The rows are written and committed; a label that got a row meanwhile makes
\* the unique index refuse the batch.
WriteFacts(c) ==
    /\ pc[c] = "write"
    /\ \/ /\ Fresh(c) \cap Present(facts) = {}
          /\ made' = [l \in Label |-> IF l \in Fresh(c) THEN made[l] + 1 ELSE made[l]]
          /\ facts' = [l \in Label |-> IF l \in Fresh(c) THEN Learnt(c, l, made[l] + 1)
                                       ELSE IF l \in Touched(c)
                                            THEN Learnt(c, l, call[c].existing[l].id)
                                       ELSE facts[l]]
          /\ Goto(c, "derive")
          /\ Set(c, [call[c] EXCEPT !.found = <<>>, !.existing = NoFacts])
       \/ ExtractFails(c) /\ UNCHANGED <<facts, made>>
    /\ UNCHANGED <<profile, said, budget, mined, disturbed>>

\* SetLearnedCount with a count of its own.
Mark_Recounted(c) ==
    /\ pc[c] = "mark"
    /\ learned' = said
    /\ Finish(c)
    /\ UNCHANGED <<facts, made, note, said, budget, mined, disturbed>>

\* SetLearnedCount with the total Refresh started from; its error is logged.
Mark(c) ==
    /\ pc[c] = "mark"
    /\ learned' \in {learned, call[c].total}
    /\ Finish(c)
    /\ UNCHANGED <<facts, made, note, said, budget, mined, disturbed>>

-----------------------------------------------------------------------------
(* The note *)

\* After refreshNote: the answer, or Refresh's watermark.
AfterNote(c) ==
    IF call[c].op = "refresh"
    THEN Goto(c, "mark") /\ Set(c, [call[c] EXCEPT !.note = {}])
    ELSE Finish(c)

\* refreshNote lists the facts; its error is dropped.
DeriveNote(c) ==
    /\ pc[c] = "derive"
    /\ \/ /\ Set(c, [call[c] EXCEPT !.note = Derived(facts)])
          /\ Goto(c, "setNote")
          /\ UNCHANGED disturbed
       \/ /\ AfterNote(c)
          /\ disturbed' = disturbed \cup {"unwritten"}
    /\ UNCHANGED <<facts, made, profile, said, budget, mined>>

\* SetNote; its error is logged.
SetNote(c) ==
    /\ pc[c] = "setNote"
    /\ \/ note' = call[c].note /\ UNCHANGED disturbed
       \/ UNCHANGED note /\ disturbed' = disturbed \cup {"unwritten"}
    /\ AfterNote(c)
    /\ UNCHANGED <<facts, made, learned, said, budget, mined>>

-----------------------------------------------------------------------------
(* The person's own edits *)

\* owned: the fact is theirs and there.  A new value, a confirmation, or both.
UpdateFact(c, l) ==
    /\ l \in Present(facts)
    /\ \E v \in Value \cup {None}, confirmed \in BOOLEAN \cup {None} :
          Begin(c, "edit", [NoCall EXCEPT !.label = l, !.id = facts[l].id, !.value = v,
                                          !.confirmed = confirmed], "edit")

\* The row the request found is still there.
Found(c) == call[c].label \in Present(facts) /\ facts[call[c].label].id = call[c].id

\* A value that was not given is written as well.
Edited_Blank(f, value, confirmed) ==
    [f EXCEPT !.value = value,
              !.sure = IF value # None \/ confirmed = TRUE THEN "certain" ELSE @,
              !.confirmed = IF confirmed # None THEN confirmed ELSE value # None \/ @]

\* An edited fact is the person's own words; an explicit flag comes after that.
Edited(f, value, confirmed) ==
    [f EXCEPT !.value = IF value = None THEN @ ELSE value,
              !.sure = IF value # None \/ confirmed = TRUE THEN "certain" ELSE @,
              !.confirmed = IF confirmed # None THEN confirmed ELSE value # None \/ @]

EditFact(c) ==
    /\ pc[c] = "edit"
    /\ facts' = IF Found(c)
                THEN [facts EXCEPT ![call[c].label] =
                         Edited(@, call[c].value, call[c].confirmed)]
                ELSE facts
    /\ Goto(c, "reread")
    /\ Set(c, [call[c] EXCEPT !.value = None, !.confirmed = None])
    /\ UNCHANGED <<made, profile, said, budget, mined, disturbed>>

\* GetFact for the response.
Reread(c) ==
    /\ pc[c] = "reread"
    /\ IF Found(c) THEN Goto(c, "derive") /\ Forgetting(c) ELSE Finish(c)
    /\ UNCHANGED <<facts, made, profile, said, budget, mined, disturbed>>

DeleteFact(c, l) ==
    /\ l \in Present(facts)
    /\ made[l] < RowLimit
    /\ Begin(c, "forget", [NoCall EXCEPT !.label = l, !.id = facts[l].id], "forget")

\* The note is not written again.
Forget_NoteKept(c) ==
    /\ pc[c] = "forget"
    /\ facts' = IF Found(c) THEN [facts EXCEPT ![call[c].label] = None] ELSE facts
    /\ Finish(c)
    /\ UNCHANGED <<made, profile, said, budget, mined, disturbed>>

Forget(c) ==
    /\ pc[c] = "forget"
    /\ facts' = IF Found(c) THEN [facts EXCEPT ![call[c].label] = None] ELSE facts
    /\ Goto(c, "derive")
    /\ Forgetting(c)
    /\ UNCHANGED <<made, profile, said, budget, mined, disturbed>>

\* service.Update reads the profile to change its city or bio ...
UpdateProfile(c) ==
    Begin(c, "profile", [NoCall EXCEPT !.note = note, !.total = learned], "upsert")

\* ... and Upsert writes note and learned_count back as they were read.
Upsert(c) ==
    /\ pc[c] = "upsert"
    /\ note' = call[c].note
    /\ learned' = call[c].total
    /\ Finish(c)
    /\ UNCHANGED <<facts, made, said, budget, mined, disturbed>>

-----------------------------------------------------------------------------

Request(c) ==
    \/ AddFact(c) \/ Learn(c) \/ Refresh(c)
    \/ \E l \in Label : UpdateFact(c, l) \/ DeleteFact(c, l)
    \/ UpdateProfile(c)

Step(c) ==
    \/ Compare(c) \/ OwnMessages(c) \/ Spend(c) \/ Answer(c)
    \/ ReadFacts(c) \/ WriteFacts(c) \/ Mark(c)
    \/ DeriveNote(c) \/ SetNote(c)
    \/ EditFact(c) \/ Reread(c) \/ Forget(c) \/ Upsert(c)
    \/ Abandon(c)

Next ==
    \/ Say \/ HourEnds \/ Turn
    \/ \E c \in Call : Request(c) \/ Step(c)

Spec == Init /\ [][Next]_vars

-----------------------------------------------------------------------------
(* Properties *)

\* A confirmed fact is certain (entity.go, Fact.Confidence), whichever of the
\* person's edits and the model's readings came last and on whatever they read.
ConfirmedIsCertain == \A l \in Present(facts) : facts[l].confirmed => facts[l].sure = "certain"

\* What was forgotten stays forgotten: a reading that saw the row before it was
\* deleted does not bring it back; a row that appears is a new one.
ForgottenStaysForgotten ==
    [][\A l \in Present(facts') \ Present(facts) : facts'[l].id > made[l]]_vars

\* The lines that a transcript contained, or that a transcript full of later lines
\* had no room for.
Considered ==
    {i \in 1..said :
        \/ i \in mined
        \/ \E j \in 1..said : i < j /\ j..(j + Transcript - 1) \subseteq mined}

\* The watermark passes over no line that a transcript had room for, whatever is
\* said while a refresh runs and whichever of two refreshes or a profile edit
\* writes last.  (Lines beyond the room of a transcript are counted all the same.)
WatermarkIsMined == 1..learned \subseteq Considered

\* Extractions and turns share one allowance: with the cache up, the model is
\* asked at most PerHour times an hour however many requests race for it.
BudgetHolds == granted <= PerHour

\* Every change of the facts is followed by its note: with nothing in flight the
\* note says what the facts say, unless requests overlapped or writing it failed.
NoteFollowsFacts == (Quiescent /\ disturbed = {}) => note = Derived(facts)

\* A confirmed fact is never overwritten by a model (gorm_repository.go,
\* UpsertFacts).
ConfirmedNotOverwritten ==
    [][\A c \in Call, l \in Present(facts) :
          (WriteFacts(c) /\ ~OwnWords(c) /\ facts[l].confirmed) => facts'[l] = facts[l]]_vars
=============================================================================
