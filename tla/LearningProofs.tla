---------------------------- MODULE LearningProofs --------------------------
(***************************************************************************)
(* Certainty, the watermark, the allowance and deletion, for any labels,   *)
(* values, requests and bounds.                                            *)
(*                                                                         *)
(* A request acts on copies, so the invariant says what every copy is      *)
(* worth: what a person typed is certain, and a count that may become the  *)
(* watermark passes over no line a transcript had room for.                *)
(***************************************************************************)
EXTENDS Learning, TLAPS

\* What comes of a person's own words is certain.
Words ==
    \A c \in Call :
        OwnWords(c) => \A l \in DOMAIN call[c].found : call[c].found[l][2] = "certain"

\* A count a request may still store was covered by a transcript; only a refresh
\* that has not fetched its own may carry a higher one.
Covered == \A c \in Call : pc[c] \notin {"compare", "list"} => 1..call[c].total \subseteq Considered

Inv ==
    /\ TypeOK
    /\ ConfirmedIsCertain /\ Words
    /\ WatermarkIsMined /\ Covered
    /\ BudgetHolds

-----------------------------------------------------------------------------
(* Facts and requests                                                       *)

\* An edit leaves a fact with its id, and certain if it is confirmed.
LEMMA EditedFact ==
    ASSUME NEW f \in Fact, f.confirmed => f.sure = "certain",
           NEW value \in Value \cup {None}, NEW confirmed \in BOOLEAN \cup {None}
    PROVE  /\ Edited(f, value, confirmed) \in Fact
           /\ Edited(f, value, confirmed).id = f.id
           /\ Edited(f, value, confirmed).confirmed
                 => Edited(f, value, confirmed).sure = "certain"
<1> DEFINE v == IF value = None THEN f.value ELSE value
           s == IF value # None \/ confirmed = TRUE THEN "certain" ELSE f.sure
           k == IF confirmed # None THEN confirmed ELSE value # None \/ f.confirmed
<1>1. v \in Value /\ s \in Sure /\ f.id \in Nat
  BY DEF Fact, Sure
<1>2. k \in BOOLEAN
  BY DEF Fact
<1>3. k => s = "certain"
  BY DEF Fact
<1> DEFINE g == [f EXCEPT !.value = v]
           h == [g EXCEPT !.sure = s]
           e == [h EXCEPT !.confirmed = k]
<1>4. Edited(f, value, confirmed) = e
  BY DEF Edited
<1> HIDE DEF v, s, k
<1>5. g = [id |-> f.id, value |-> v, sure |-> f.sure, confirmed |-> f.confirmed]
  BY DEF Fact
<1> HIDE DEF g
<1>6. h = [id |-> f.id, value |-> v, sure |-> s, confirmed |-> f.confirmed]
  BY <1>5
<1> HIDE DEF h
<1>7. e = [id |-> f.id, value |-> v, sure |-> s, confirmed |-> k]
  BY <1>6
<1> HIDE DEF e
<1>8. QED
  BY <1>1, <1>2, <1>3, <1>4, <1>7 DEF Fact

\* The empty batch.
LEMMA EmptyBatch == <<>> \in Batches /\ DOMAIN <<>> = {}
<1>1. <<>> \in [{} -> Value \X Sure]
  OBVIOUS
<1>2. QED
  BY <1>1 DEF Batches

\* NoCall is a request record whatever has been said.
LEMMA NoCallTyped ==
    ASSUME said \in Nat
    PROVE  /\ NoCall \in CallRow
           /\ NoCall.op = "none" /\ NoCall.total = 0
           /\ NoCall.found = <<>>
BY EmptyBatch DEF NoCall, CallRow, NoFacts

\* Updates of a request record keep it one.
LEMMA Updates ==
    ASSUME said \in Nat, NEW r \in CallRow
    PROVE  /\ LET s == [r EXCEPT !.found = <<>>, !.existing = NoFacts]
              IN  s \in CallRow /\ s.op = r.op /\ s.total = r.total /\ s.found = <<>>
           /\ LET s == [r EXCEPT !.value = None, !.confirmed = None]
              IN  s \in CallRow /\ s.op = r.op /\ s.total = r.total /\ s.found = r.found
           /\ LET s == [NoCall EXCEPT !.op = r.op]
              IN  s \in CallRow /\ s.op = r.op /\ s.total = 0 /\ s.found = <<>>
           /\ \A n \in SUBSET Value :
                 LET s == [r EXCEPT !.note = n]
                 IN  s \in CallRow /\ s.op = r.op /\ s.total = r.total /\ s.found = r.found
           /\ \A b \in Batches :
                 LET s == [r EXCEPT !.found = b]
                 IN  s \in CallRow /\ s.op = r.op /\ s.total = r.total /\ s.found = b
           /\ \A e \in [Label -> Read \cup {None}] :
                 LET s == [r EXCEPT !.existing = e]
                 IN  s \in CallRow /\ s.op = r.op /\ s.total = r.total /\ s.found = r.found
<1>1. NoFacts \in [Label -> Read \cup {None}]
  BY DEF NoFacts
<1>2. NoCall \in CallRow /\ NoCall.total = 0 /\ NoCall.found = <<>>
  BY NoCallTyped
<1>3. r.op \in AllOps \cup {"none"}
  BY DEF CallRow
<1>4. LET s == [r EXCEPT !.found = <<>>, !.existing = NoFacts]
      IN  s \in CallRow /\ s.op = r.op /\ s.total = r.total /\ s.found = <<>>
  BY <1>1, EmptyBatch DEF CallRow
<1>5. LET s == [r EXCEPT !.value = None, !.confirmed = None]
      IN  s \in CallRow /\ s.op = r.op /\ s.total = r.total /\ s.found = r.found
  BY DEF CallRow
<1>6. LET s == [NoCall EXCEPT !.op = r.op]
      IN  s \in CallRow /\ s.op = r.op /\ s.total = 0 /\ s.found = <<>>
  BY <1>2, <1>3 DEF CallRow
<1>7. \A n \in SUBSET Value :
         LET s == [r EXCEPT !.note = n]
         IN  s \in CallRow /\ s.op = r.op /\ s.total = r.total /\ s.found = r.found
  BY DEF CallRow
<1>8. \A b \in Batches :
         LET s == [r EXCEPT !.found = b]
         IN  s \in CallRow /\ s.op = r.op /\ s.total = r.total /\ s.found = b
  BY DEF CallRow
<1>9. \A e \in [Label -> Read \cup {None}] :
         LET s == [r EXCEPT !.existing = e]
         IN  s \in CallRow /\ s.op = r.op /\ s.total = r.total /\ s.found = r.found
  BY DEF CallRow
<1>10. QED
  BY <1>4, <1>5, <1>6, <1>7, <1>8, <1>9

\* What the invariant says of the requests, and of everything else.
Calls ==
    /\ pc \in [Call -> Steps] /\ call \in [Call -> CallRow]
    /\ \A c \in Call : Idle(c) <=> call[c].op = "none"
    /\ Words /\ Covered

Rows ==
    /\ facts \in [Label -> Fact \cup {None}]
    /\ made \in [Label -> Nat]
    /\ \A l \in Present(facts) : facts[l].id \in 1..made[l]
    /\ ConfirmedIsCertain
    /\ note \in SUBSET Value
    /\ said \in Nat /\ learned \in 0..said /\ mined \in SUBSET (1..said)
    /\ 1..learned \subseteq Considered
    /\ spent \in Nat /\ granted \in 0..spent /\ granted <= PerHour
    /\ disturbed \in SUBSET {"overlap", "unwritten"}

\* What was considered depends on the lines and the transcripts, and stays so as
\* more is said.
LEMMA StillConsidered ==
    ASSUME said \in Nat, said' \in {said, said + 1}, mined' = mined
    PROVE  Considered \subseteq Considered' /\ (said' = said => Considered' = Considered)
BY DEF Considered

\* With its transcript, a request considers every line there is.
LEMMA AllConsidered ==
    ASSUME said \in Nat, mined \in SUBSET (1..said), said' = said,
           mined' = mined \cup {i \in 1..said : i + Transcript > said}
    PROVE  mined' \in SUBSET (1..said) /\ Considered' = 1..said /\ Considered \subseteq 1..said
<1>1. Transcript \in Nat \ {0}
  BY LearningAssumption
<1>2. ASSUME NEW i \in 1..said, i \notin mined'
      PROVE  \E j \in 1..said : i < j /\ j..(j + Transcript - 1) \subseteq mined'
  <2> DEFINE j == said + 1 - Transcript
  <2>1. i + Transcript <= said
    BY <1>1, <1>2
  <2>2. j \in 1..said /\ i < j
    BY <1>1, <2>1
  <2>3. ASSUME NEW k \in j..(j + Transcript - 1)
        PROVE  k \in mined'
    BY <1>1, <2>2
  <2>4. QED
    BY <2>2, <2>3
<1>3. QED
  BY <1>2 DEF Considered

\* The two halves are the invariant, before a step and after it.
LEMMA TwoHalves == (Inv <=> Calls /\ Rows) /\ (Inv' <=> Calls' /\ Rows')
BY DEF Inv, Calls, Rows, TypeOK, WatermarkIsMined, BudgetHolds

\* A step of one request leaves all requests as the invariant wants them.
LEMMA CallsStep ==
    ASSUME Inv, NEW c \in Call, NEW step \in Steps, NEW r \in CallRow,
           Goto(c, step), Set(c, r),
           step = "idle" <=> r.op = "none",
           r.op = "add" => \A l \in DOMAIN r.found : r.found[l][2] = "certain",
           said' = said, Considered \subseteq Considered',
           step \notin {"compare", "list"} => 1..r.total \subseteq Considered'
    PROVE  Calls'
<1>1. pc' = [pc EXCEPT ![c] = step] /\ call' = [call EXCEPT ![c] = r]
  BY DEF Goto, Set
<1>2. /\ pc \in [Call -> Steps] /\ call \in [Call -> CallRow]
  BY DEF Inv, TypeOK
<1>3. CallRow' = CallRow
  BY DEF CallRow
<1>4. pc' \in [Call -> Steps] /\ call' \in [Call -> CallRow']
  BY <1>1, <1>2, <1>3
<1>5. \A d \in Call : Idle(d)' <=> call'[d].op = "none"
  BY <1>1, <1>2 DEF Inv, TypeOK, Idle
<1>6. Words'
  BY <1>1, <1>2 DEF Inv, Words, OwnWords
<1>7. Covered'
  BY <1>1, <1>2 DEF Inv, Covered
<1>8. QED
  BY <1>4, <1>5, <1>6, <1>7 DEF Calls

\* The request ends.
LEMMA FinishCalls ==
    ASSUME Inv, NEW c \in Call, Finish(c), said' = said, mined' = mined
    PROVE  Calls'
<1>1. said \in Nat /\ Considered' = Considered
  BY StillConsidered DEF Inv, TypeOK
<1>2. DOMAIN NoCall.found = {} /\ NoCall \in CallRow /\ NoCall.op = "none"
      /\ 1..NoCall.total = {}
  BY <1>1, NoCallTyped, EmptyBatch
<1>3. QED
  BY <1>1, <1>2, CallsStep DEF Finish, Steps

\* The request goes on with what it carries.
LEMMA GoOnCalls ==
    ASSUME Inv, NEW c \in Call, ~Idle(c), NEW step \in Steps \ {"idle"},
           Goto(c, step), UNCHANGED call,
           said' = said, Considered \subseteq Considered',
           step \notin {"compare", "list"} => 1..call[c].total \subseteq Considered'
    PROVE  Calls'
<1>1. call[c] \in CallRow /\ call[c].op # "none"
  BY DEF Inv, TypeOK
<1>2. Set(c, call[c])
  BY DEF Inv, TypeOK, Set
<1>3. call[c].op = "add" =>
         \A l \in DOMAIN call[c].found : call[c].found[l][2] = "certain"
  BY DEF Inv, Words, OwnWords
<1>4. QED
  BY <1>1, <1>2, <1>3, CallsStep

\* The request goes on with a changed record, but the same count.
LEMMA UpdateCalls ==
    ASSUME Inv, NEW c \in Call, pc[c] \notin {"idle", "compare", "list"},
           NEW step \in Steps \ {"idle", "compare", "list"}, NEW r \in CallRow,
           Goto(c, step), Set(c, r), r.op = call[c].op, r.total \in {0, call[c].total},
           \/ r.found \in {<<>>, call[c].found}
           \/ OwnWords(c) => \A l \in DOMAIN r.found : r.found[l][2] = "certain",
           said' = said, mined' = mined
    PROVE  Calls'
<1>1. r.op # "none"
  BY DEF Inv, TypeOK, Idle
<1>2. r.op = "add" => \A l \in DOMAIN r.found : r.found[l][2] = "certain"
  BY EmptyBatch DEF Inv, Words, OwnWords
<1>3. Considered' = Considered /\ 1..r.total \subseteq Considered
  <2>1. said \in Nat /\ 1..call[c].total \subseteq Considered
    BY DEF Inv, TypeOK, Covered
  <2>2. QED
    BY <2>1, StillConsidered
<1>4. QED
  BY <1>1, <1>2, <1>3, CallsStep

\* An extraction that fails ends its request, or leads on to the watermark.
LEMMA ExtractFailsCalls ==
    ASSUME Inv, NEW c \in Call, pc[c] \in {"spend", "answer", "write"}, ExtractFails(c),
           said' = said, mined' = mined
    PROVE  Calls'
<1>1. CASE Finish(c)
  BY <1>1, FinishCalls
<1>2. CASE /\ Goto(c, "mark")
           /\ Set(c, [call[c] EXCEPT !.found = <<>>, !.existing = NoFacts])
  <2> DEFINE r == [call[c] EXCEPT !.found = <<>>, !.existing = NoFacts]
  <2>1. r \in CallRow /\ r.op = call[c].op /\ r.total = call[c].total /\ r.found = <<>>
    BY Updates DEF Inv, TypeOK
  <2>2. Set(c, r)
    BY <1>2
  <2> HIDE DEF r
  <2>3. QED
    BY <1>2, <2>1, <2>2, UpdateCalls DEF Steps
<1>3. QED
  BY <1>1, <1>2 DEF ExtractFails

\* The request goes on with nothing but what it is.
LEMMA ForgettingCalls ==
    ASSUME Inv, NEW c \in Call, pc[c] \notin {"idle", "compare", "list"},
           NEW step \in Steps \ {"idle", "compare", "list"},
           Goto(c, step), Forgetting(c), said' = said, mined' = mined
    PROVE  Calls'
<1> DEFINE r == [NoCall EXCEPT !.op = call[c].op]
<1>1. r \in CallRow /\ r.op = call[c].op /\ r.total = 0 /\ r.found = <<>>
  BY Updates DEF Inv, TypeOK
<1>2. Set(c, r)
  BY DEF Forgetting
<1> HIDE DEF r
<1>3. QED
  BY <1>1, <1>2, UpdateCalls

\* After the note a request ends, or leads on to the watermark.
LEMMA AfterNoteCalls ==
    ASSUME Inv, NEW c \in Call, pc[c] \in {"derive", "setNote"}, AfterNote(c),
           said' = said, mined' = mined
    PROVE  Calls'
<1>1. CASE Finish(c)
  BY <1>1, FinishCalls
<1>2. CASE Goto(c, "mark") /\ Set(c, [call[c] EXCEPT !.note = {}])
  <2> DEFINE r == [call[c] EXCEPT !.note = {}]
  <2>1. r \in CallRow /\ r.op = call[c].op /\ r.total = call[c].total /\ r.found = call[c].found
    BY Updates DEF Inv, TypeOK
  <2>2. Set(c, r)
    BY <1>2
  <2> HIDE DEF r
  <2>3. QED
    BY <1>2, <2>1, <2>2, UpdateCalls DEF Steps
<1>3. QED
  BY <1>1, <1>2 DEF AfterNote

\* Nothing but a request changes, and perhaps what history says of the note.
LEMMA RowsKept ==
    ASSUME Inv, UNCHANGED <<facts, made, profile, said, budget, mined>>,
           disturbed' \subseteq disturbed \cup {"overlap", "unwritten"}
    PROVE  Rows'
BY TwoHalves, StillConsidered DEF Rows, profile, budget, ConfirmedIsCertain, Present

\* One count keeps within the allowance.
LEMMA CountRows ==
    ASSUME Inv, NEW allowed \in BOOLEAN, Count(allowed),
           UNCHANGED <<facts, made, profile, said, mined, disturbed>>
    PROVE  Rows'
<1>1. spent' \in Nat /\ granted' \in 0..spent' /\ granted' <= PerHour
  <2>1. /\ spent \in Nat /\ granted \in 0..spent /\ granted <= PerHour
        /\ PerHour \in Nat
    BY LearningAssumption DEF Inv, TypeOK, BudgetHolds
  <2>2. /\ spent' = spent + 1
        /\ granted' = IF allowed THEN granted + 1 ELSE granted
    BY DEF Count
  <2>3. allowed => spent + 1 <= PerHour
    BY Zenon DEF Count
  <2>4. QED
    BY <2>1, <2>2, <2>3
<1>2. QED
  BY <1>1, TwoHalves, StillConsidered DEF Rows, profile, ConfirmedIsCertain, Present

-----------------------------------------------------------------------------
(* The requests                                                             *)

\* A request begins with an empty batch and a count that is covered.
LEMMA BeginInv ==
    ASSUME Inv, NEW c \in Call, NEW op, NEW r \in CallRow,
           NEW step \in Steps \ {"idle"}, Begin(c, op, r, step),
           r.found = <<>>, step \notin {"compare", "list"} => 1..r.total \subseteq Considered
    PROVE  Inv'
<1> DEFINE s == [r EXCEPT !.op = op]
<1>1. op \in AllOps /\ op # "none"
  BY LearningAssumption DEF Begin, AllOps
<1>2. s \in CallRow /\ s.op = op /\ s.total = r.total /\ s.found = <<>>
  BY <1>1 DEF CallRow
<1>3. /\ Goto(c, step) /\ Set(c, s)
      /\ UNCHANGED <<facts, made, profile, said, budget, mined>>
      /\ disturbed' \subseteq disturbed \cup {"overlap", "unwritten"}
  BY DEF Begin
<1>4. Considered' = Considered
  BY <1>3, StillConsidered DEF Inv, TypeOK
<1> HIDE DEF s
<1>5. Calls'
  <2>1. said' = said /\ Considered \subseteq Considered'
    BY <1>3, <1>4
  <2>2. (step = "idle" <=> s.op = "none") /\ DOMAIN s.found = {}
    BY <1>1, <1>2, EmptyBatch
  <2>3. step \notin {"compare", "list"} => 1..s.total \subseteq Considered'
    BY <1>2, <1>4
  <2>4. QED
    BY <1>2, <1>3, <2>1, <2>2, <2>3, CallsStep
<1>6. QED
  BY <1>3, <1>5, RowsKept, TwoHalves

\* Every request begins with the invariant kept.
LEMMA RequestInv ==
    ASSUME Inv, NEW c \in Call, Request(c)
    PROVE  Inv'
<1>1. /\ said \in Nat /\ learned \in 0..said /\ 1..learned \subseteq Considered
      /\ 1..0 = {} /\ note \in SUBSET Value
  BY DEF Inv, TypeOK, WatermarkIsMined
<1>2. NoCall \in CallRow /\ NoCall.total = 0 /\ NoCall.found = <<>>
  BY <1>1, NoCallTyped
<1>3. CASE AddFact(c)
  BY <1>1, <1>2, <1>3, BeginInv DEF AddFact, Steps
<1>4. CASE Learn(c)
  BY <1>1, <1>2, <1>4, BeginInv DEF Learn, Steps
<1>5. CASE Refresh(c)
  <2> DEFINE r == [NoCall EXCEPT !.total = said]
  <2>1. r \in CallRow /\ r.found = <<>>
    BY <1>1, <1>2 DEF CallRow
  <2>2. Begin(c, "refresh", r, "compare")
    BY <1>5 DEF Refresh
  <2> HIDE DEF r
  <2>3. QED
    BY <2>1, <2>2, BeginInv DEF Steps
<1>6. ASSUME NEW l \in Label, UpdateFact(c, l)
      PROVE  Inv'
  <2>1. PICK v \in Value \cup {None}, k \in BOOLEAN \cup {None} :
           Begin(c, "edit", [NoCall EXCEPT !.label = l, !.id = facts[l].id, !.value = v,
                                           !.confirmed = k], "edit")
    BY <1>6 DEF UpdateFact
  <2>2. l \in Label \cup {None} /\ facts[l].id \in Nat
    BY <1>6 DEF UpdateFact, Present, Inv, TypeOK, Fact
  <2> DEFINE r1 == [NoCall EXCEPT !.label = l]
             r2 == [r1 EXCEPT !.id = facts[l].id]
             r3 == [r2 EXCEPT !.value = v]
             r4 == [r3 EXCEPT !.confirmed = k]
  <2>3. Begin(c, "edit", r4, "edit")
    BY <2>1
  <2>4. r1 \in CallRow /\ r1.total = 0 /\ r1.found = <<>>
    BY <1>2 DEF CallRow
  <2> HIDE DEF r1
  <2>5. r2 \in CallRow /\ r2.total = 0 /\ r2.found = <<>>
    BY <2>2, <2>4 DEF CallRow
  <2> HIDE DEF r2
  <2>6. r3 \in CallRow /\ r3.total = 0 /\ r3.found = <<>>
    BY <2>5 DEF CallRow
  <2> HIDE DEF r3
  <2>7. r4 \in CallRow /\ r4.total = 0 /\ r4.found = <<>>
    BY <2>6 DEF CallRow
  <2> HIDE DEF r4
  <2>8. QED
    BY <1>1, <2>3, <2>7, BeginInv DEF Steps
<1>7. ASSUME NEW l \in Label, DeleteFact(c, l)
      PROVE  Inv'
  <2>1. facts[l].id \in Nat
    BY <1>7 DEF DeleteFact, Present, Inv, TypeOK, Fact
  <2> DEFINE r == [NoCall EXCEPT !.label = l, !.id = facts[l].id]
  <2>2. r \in CallRow /\ r.total = 0 /\ r.found = <<>>
    BY <1>2, <2>1 DEF CallRow
  <2>3. Begin(c, "forget", r, "forget")
    BY <1>7 DEF DeleteFact
  <2> HIDE DEF r
  <2>4. QED
    BY <1>1, <2>2, <2>3, BeginInv DEF Steps
<1>8. CASE UpdateProfile(c)
  <2> DEFINE r == [NoCall EXCEPT !.note = note, !.total = learned]
  <2>1. r \in CallRow /\ r.total = learned /\ r.found = <<>>
    BY <1>1, <1>2 DEF CallRow
  <2>2. Begin(c, "profile", r, "upsert")
    BY <1>8 DEF UpdateProfile
  <2> HIDE DEF r
  <2>3. QED
    BY <1>1, <2>1, <2>2, BeginInv DEF Steps
<1>9. QED
  BY <1>3, <1>4, <1>5, <1>6, <1>7, <1>8 DEF Request

-----------------------------------------------------------------------------
(* Facts                                                                    *)

\* A line of a batch becomes a fact, certain if it is confirmed.
LEMMA LearntFact ==
    ASSUME Inv, NEW c \in Call, NEW l \in DOMAIN call[c].found, NEW id \in Nat,
           l \in Fresh(c) \/ l \in Open(c)
    PROVE  /\ Learnt(c, l, id) \in Fact
           /\ Learnt(c, l, id).id = id
           /\ Learnt(c, l, id).confirmed => Learnt(c, l, id).sure = "certain"
<1>1. call[c] \in CallRow
  BY DEF Inv, TypeOK
<1>2. PICK ls \in SUBSET Label : call[c].found \in [ls -> Value \X Sure]
  BY <1>1 DEF CallRow, Batches
<1>3. call[c].found[l] \in Value \X Sure
  BY <1>2
<1>4. call[c].found[l][1] \in Value /\ call[c].found[l][2] \in Sure
  BY <1>3
<1>5. l \notin Fresh(c) => call[c].existing[l] \in Read
  <2>1. l \in Label /\ call[c].existing \in [Label -> Read \cup {None}]
    BY <1>1, <1>2 DEF CallRow
  <2>2. QED
    BY <2>1 DEF Fresh
<1> DEFINE k == OwnWords(c) \/ (l \notin Fresh(c) /\ call[c].existing[l].confirmed)
<1>6. k \in BOOLEAN
  OBVIOUS
<1>7. k => OwnWords(c)
  BY DEF Open, Fresh
<1>8. k => call[c].found[l][2] = "certain"
  BY <1>7 DEF Inv, Words
<1>9. Learnt(c, l, id) = [id |-> id, value |-> call[c].found[l][1],
                          sure |-> call[c].found[l][2], confirmed |-> k]
  BY DEF Learnt
<1> HIDE DEF k
<1>10. QED
  BY <1>4, <1>6, <1>8, <1>9 DEF Fact

\* The rows a batch writes are facts, certain if they are confirmed, and its new
\* ones are numbered after all there were.
LEMMA BatchRows ==
    ASSUME Inv, NEW c \in Call, WriteFacts(c), made' # made \/ facts' # facts
    PROVE  Rows'
<1>1. /\ made' = [l \in Label |-> IF l \in Fresh(c) THEN made[l] + 1 ELSE made[l]]
      /\ facts' = [l \in Label |-> IF l \in Fresh(c) THEN Learnt(c, l, made[l] + 1)
                                   ELSE IF l \in Touched(c)
                                        THEN Learnt(c, l, call[c].existing[l].id)
                                   ELSE facts[l]]
      /\ UNCHANGED <<profile, said, budget, mined, disturbed>>
  BY DEF WriteFacts
<1>2. /\ facts \in [Label -> Fact \cup {None}] /\ made \in [Label -> Nat]
      /\ \A l \in Present(facts) : facts[l].id \in 1..made[l]
      /\ ConfirmedIsCertain
  BY TwoHalves DEF Rows
<1>3. Fresh(c) \subseteq DOMAIN call[c].found /\ Open(c) \subseteq DOMAIN call[c].found
      /\ Touched(c) \subseteq Open(c) \cap Present(facts)
  BY DEF Fresh, Open, Touched
<1>4. ASSUME NEW l \in Label
      PROVE  /\ made'[l] \in Nat /\ made[l] <= made'[l]
             /\ facts'[l] \in Fact \cup {None}
             /\ l \in Present(facts') => /\ facts'[l].id \in 1..made'[l]
                                         /\ facts'[l].confirmed => facts'[l].sure = "certain"
  <2>1. made'[l] = IF l \in Fresh(c) THEN made[l] + 1 ELSE made[l]
    BY <1>1
  <2>2. CASE l \in Fresh(c)
    <3>1. facts'[l] = Learnt(c, l, made[l] + 1) /\ made[l] + 1 \in Nat
      BY <1>1, <1>2, <2>2
    <3>2. QED
      BY <1>2, <1>3, <2>1, <2>2, <3>1, LearntFact
  <2>3. CASE l \notin Fresh(c) /\ l \in Touched(c)
    <3>1. facts'[l] = Learnt(c, l, call[c].existing[l].id)
      BY <1>1, <2>3
    <3>2. call[c].existing[l].id = facts[l].id /\ facts[l].id \in 1..made[l]
      BY <1>2, <1>3, <2>3 DEF Touched
    <3>3. call[c].existing[l].id \in Nat
      BY <1>2, <3>2
    <3>4. QED
      BY <1>2, <1>3, <2>1, <2>3, <3>1, <3>2, <3>3, LearntFact
  <2>4. CASE l \notin Fresh(c) /\ l \notin Touched(c)
    <3>1. facts'[l] = facts[l] /\ made'[l] = made[l]
      BY <1>1, <2>4
    <3>2. l \in Present(facts') => l \in Present(facts)
      BY <3>1 DEF Present
    <3>3. QED
      BY <1>2, <3>1, <3>2 DEF ConfirmedIsCertain
  <2>5. QED
    BY <2>2, <2>3, <2>4
<1>5. facts' \in [Label -> Fact \cup {None}] /\ made' \in [Label -> Nat]
  BY <1>1, <1>4
<1>6. \A l \in Present(facts') : facts'[l].id \in 1..made'[l]
  BY <1>4 DEF Present
<1>7. ConfirmedIsCertain'
  BY <1>4 DEF ConfirmedIsCertain, Present
<1>8. QED
  BY <1>1, <1>5, <1>6, <1>7, TwoHalves, StillConsidered DEF Rows, profile, budget

\* An edit or a deletion leaves the other rows alone.
LEMMA RowEdited ==
    ASSUME Inv, NEW l \in Present(facts), NEW f \in Fact \cup {None},
           facts' = [facts EXCEPT ![l] = f],
           f # None => f.id = facts[l].id /\ (f.confirmed => f.sure = "certain"),
           UNCHANGED <<made, profile, said, budget, mined, disturbed>>
    PROVE  Rows'
<1>1. /\ facts \in [Label -> Fact \cup {None}] /\ made \in [Label -> Nat]
      /\ \A m \in Present(facts) : facts[m].id \in 1..made[m]
      /\ ConfirmedIsCertain
  BY TwoHalves DEF Rows
<1>2. facts' \in [Label -> Fact \cup {None}]
  BY <1>1
<1>3. \A m \in Present(facts') :
         /\ m \in Present(facts)
         /\ facts'[m].id = facts[m].id
         /\ facts'[m].confirmed => facts'[m].sure = "certain"
  BY <1>1 DEF Present, ConfirmedIsCertain
<1>4. QED
  BY <1>1, <1>2, <1>3, TwoHalves, StillConsidered DEF Rows, profile, budget, ConfirmedIsCertain

-----------------------------------------------------------------------------
(* The steps                                                                *)

\* Every step of a request keeps the invariant.
LEMMA StepInv ==
    ASSUME Inv, NEW c \in Call, Step(c)
    PROVE  Inv'
<1>1. /\ said \in Nat /\ mined \in SUBSET (1..said)
      /\ learned \in 0..said /\ 1..learned \subseteq Considered
      /\ UNCHANGED <<said, mined>> => Considered' = Considered
      /\ note \in SUBSET Value
      /\ facts \in [Label -> Fact \cup {None}]
      /\ call \in [Call -> CallRow] /\ call[c] \in CallRow
      /\ call[c].total \in 0..said
      /\ pc[c] \notin {"compare", "list"} => 1..call[c].total \subseteq Considered
  BY StillConsidered DEF Inv, TypeOK, WatermarkIsMined, Covered, CallRow
<1>2. CASE Compare(c)
  <2>1. /\ pc[c] = "compare"
        /\ UNCHANGED <<facts, made, profile, said, budget, mined, disturbed>>
        /\ Finish(c) \/ (Goto(c, "list") /\ UNCHANGED call)
    BY <1>2 DEF Compare
  <2>2. Calls'
    BY <1>1, <2>1, FinishCalls, GoOnCalls DEF Steps, Idle
  <2>3. QED
    BY <2>1, <2>2, RowsKept, TwoHalves
<1>3. CASE OwnMessages(c)
  <2>1. /\ pc[c] = "list" /\ Goto(c, "spend")
        /\ mined' \in SUBSET (1..said)
        /\ Considered' = 1..said /\ Considered \subseteq 1..said
        /\ UNCHANGED <<facts, made, profile, said, call, budget, disturbed>>
    BY <1>1, <1>3, AllConsidered DEF OwnMessages
  <2>2. Calls'
    BY <1>1, <2>1, GoOnCalls DEF Steps, Idle
  <2>3. Rows'
    BY <1>1, <2>1, TwoHalves DEF Rows, profile, budget, ConfirmedIsCertain, Present
  <2>4. QED
    BY <2>2, <2>3, TwoHalves
<1>4. CASE Spend(c)
  <2>1. pc[c] = "spend" /\ UNCHANGED <<facts, made, profile, said, mined, disturbed>>
    BY <1>4 DEF Spend
  <2>2. CASE (Count(TRUE) \/ UNCHANGED budget) /\ Goto(c, "answer") /\ UNCHANGED call
    <3>1. Calls'
      BY <1>1, <2>1, <2>2, GoOnCalls DEF Steps, Idle
    <3>2. Rows'
      BY <2>1, <2>2, CountRows, RowsKept
    <3>3. QED
      BY <3>1, <3>2, TwoHalves
  <2>3. CASE Count(FALSE) /\ ExtractFails(c)
    <3>1. Calls'
      BY <2>1, <2>3, ExtractFailsCalls
    <3>2. Rows'
      BY <2>1, <2>3, CountRows
    <3>3. QED
      BY <3>1, <3>2, TwoHalves
  <2>4. QED
    BY <1>4, <2>2, <2>3 DEF Spend
<1>5. CASE Answer(c)
  <2>1. pc[c] = "answer" /\ UNCHANGED <<facts, made, profile, said, budget, mined, disturbed>>
    BY <1>5 DEF Answer
  <2>2. CASE ExtractFails(c)
    BY <2>1, <2>2, ExtractFailsCalls, RowsKept, TwoHalves
  <2>3. ASSUME NEW found \in Batches,
               OwnWords(c) => \A l \in DOMAIN found : found[l][2] = "certain",
               Set(c, [call[c] EXCEPT !.found = found]),
               Goto(c, IF DOMAIN found = {} THEN "derive" ELSE "read")
        PROVE  Inv'
    <3> DEFINE r == [call[c] EXCEPT !.found = found]
               step == IF DOMAIN found = {} THEN "derive" ELSE "read"
    <3>1. r \in CallRow /\ r.op = call[c].op /\ r.total = call[c].total /\ r.found = found
      BY <1>1, Updates
    <3>2. Set(c, r) /\ Goto(c, step) /\ step \in Steps \ {"idle", "compare", "list"}
      BY <2>3 DEF Steps
    <3> HIDE DEF r, step
    <3>3. Calls'
      BY <2>1, <2>3, <3>1, <3>2, UpdateCalls
    <3>4. QED
      BY <2>1, <3>3, RowsKept, TwoHalves
  <2>4. QED
    BY <1>5, <2>2, <2>3 DEF Answer
<1>6. CASE ReadFacts(c)
  <2> DEFINE e == [l \in Label |-> IF l \in DOMAIN call[c].found /\ facts[l] # None
                                   THEN [id |-> facts[l].id, confirmed |-> facts[l].confirmed]
                                   ELSE None]
             r == [call[c] EXCEPT !.existing = e]
  <2>1. /\ pc[c] = "read" /\ Goto(c, "write") /\ Set(c, r)
        /\ UNCHANGED <<facts, made, profile, said, budget, mined, disturbed>>
    BY <1>6 DEF ReadFacts
  <2>2. e \in [Label -> Read \cup {None}]
    BY <1>1 DEF Fact, Read
  <2> HIDE DEF e
  <2>3. r \in CallRow /\ r.op = call[c].op /\ r.total = call[c].total /\ r.found = call[c].found
    BY <1>1, <2>2, Updates
  <2> HIDE DEF r
  <2>4. Calls'
    BY <2>1, <2>3, UpdateCalls DEF Steps
  <2>5. QED
    BY <2>1, <2>4, RowsKept, TwoHalves
<1>7. CASE WriteFacts(c)
  <2>1. pc[c] = "write" /\ UNCHANGED <<profile, said, budget, mined, disturbed>>
    BY <1>7 DEF WriteFacts
  <2>2. Rows'
    BY <1>7, <2>1, BatchRows, RowsKept
  <2>3. CASE ExtractFails(c)
    BY <2>1, <2>2, <2>3, ExtractFailsCalls, TwoHalves
  <2>4. CASE /\ Goto(c, "derive")
             /\ Set(c, [call[c] EXCEPT !.found = <<>>, !.existing = NoFacts])
    <3> DEFINE r == [call[c] EXCEPT !.found = <<>>, !.existing = NoFacts]
    <3>1. r \in CallRow /\ r.op = call[c].op /\ r.total = call[c].total /\ r.found = <<>>
      BY <1>1, Updates
    <3>2. Set(c, r)
      BY <2>4
    <3> HIDE DEF r
    <3>3. Calls'
      BY <2>1, <2>4, <3>1, <3>2, UpdateCalls DEF Steps
    <3>4. QED
      BY <2>2, <3>3, TwoHalves
  <2>5. QED
    BY <1>7, <2>3, <2>4 DEF WriteFacts
<1>8. CASE Mark(c)
  <2>1. /\ pc[c] = "mark" /\ learned' \in {learned, call[c].total} /\ Finish(c)
        /\ UNCHANGED <<facts, made, note, said, budget, mined, disturbed>>
    BY <1>8 DEF Mark
  <2>2. Calls'
    BY <2>1, FinishCalls
  <2>3. Rows'
    BY <1>1, <2>1, TwoHalves DEF Rows, budget, ConfirmedIsCertain, Present
  <2>4. QED
    BY <2>2, <2>3, TwoHalves
<1>9. CASE DeriveNote(c)
  <2>1. /\ pc[c] = "derive"
        /\ UNCHANGED <<facts, made, profile, said, budget, mined>>
        /\ disturbed' \subseteq disturbed \cup {"overlap", "unwritten"}
    BY <1>9 DEF DeriveNote
  <2>2. CASE Set(c, [call[c] EXCEPT !.note = Derived(facts)]) /\ Goto(c, "setNote")
    <3> DEFINE r == [call[c] EXCEPT !.note = Derived(facts)]
    <3>1. Derived(facts) \in SUBSET Value
      BY <1>1 DEF Derived, Present, Fact
    <3>2. r \in CallRow /\ r.op = call[c].op /\ r.total = call[c].total
          /\ r.found = call[c].found
      BY <1>1, <3>1, Updates
    <3>3. Set(c, r)
      BY <2>2
    <3> HIDE DEF r
    <3>4. Calls'
      BY <2>1, <2>2, <3>2, <3>3, UpdateCalls DEF Steps
    <3>5. QED
      BY <2>1, <3>4, RowsKept, TwoHalves
  <2>3. CASE AfterNote(c)
    <3>1. Calls'
      BY <1>1, <2>1, <2>3, AfterNoteCalls
    <3>2. QED
      BY <2>1, <3>1, RowsKept, TwoHalves
  <2>4. QED
    BY <1>9, <2>2, <2>3 DEF DeriveNote
<1>10. CASE SetNote(c)
  <2>1. /\ pc[c] = "setNote" /\ AfterNote(c)
        /\ note' \in {note, call[c].note}
        /\ UNCHANGED <<facts, made, learned, said, budget, mined>>
        /\ disturbed' \subseteq disturbed \cup {"unwritten"}
    BY <1>10 DEF SetNote
  <2>2. Calls'
    BY <2>1, AfterNoteCalls
  <2>3. note' \in SUBSET Value
    BY <1>1, <2>1 DEF CallRow
  <2>4. Rows'
    BY <1>1, <2>1, <2>3, TwoHalves DEF Rows, budget, ConfirmedIsCertain, Present
  <2>5. QED
    BY <2>2, <2>4, TwoHalves
<1>11. CASE EditFact(c)
  <2> DEFINE l == call[c].label
             f == Edited(facts[l], call[c].value, call[c].confirmed)
             r == [call[c] EXCEPT !.value = None, !.confirmed = None]
  <2>1. /\ pc[c] = "edit" /\ Goto(c, "reread") /\ Set(c, r)
        /\ facts' = IF Found(c) THEN [facts EXCEPT ![l] = f] ELSE facts
        /\ UNCHANGED <<made, profile, said, budget, mined, disturbed>>
    BY <1>11 DEF EditFact
  <2>2. r \in CallRow /\ r.op = call[c].op /\ r.total = call[c].total /\ r.found = call[c].found
    BY <1>1, Updates
  <2>3. Found(c) => /\ l \in Present(facts)
                    /\ f \in Fact /\ f.id = facts[l].id
                    /\ f.confirmed => f.sure = "certain"
    <3>1. call[c].value \in Value \cup {None} /\ call[c].confirmed \in BOOLEAN \cup {None}
      BY <1>1 DEF CallRow
    <3>2. Found(c) => /\ l \in Present(facts) /\ facts[l] \in Fact
                      /\ facts[l].confirmed => facts[l].sure = "certain"
      BY <1>1 DEF Found, Present, Inv, ConfirmedIsCertain
    <3>3. QED
      BY <3>1, <3>2, EditedFact
  <2> HIDE DEF l, f, r
  <2>4. Calls'
    BY <2>1, <2>2, UpdateCalls DEF Steps
  <2>5. Rows'
    BY <2>1, <2>3, RowEdited, RowsKept
  <2>6. QED
    BY <2>4, <2>5, TwoHalves
<1>12. CASE Reread(c)
  <2>1. /\ pc[c] = "reread"
        /\ UNCHANGED <<facts, made, profile, said, budget, mined, disturbed>>
        /\ Finish(c) \/ (Goto(c, "derive") /\ Forgetting(c))
    BY <1>12 DEF Reread
  <2>2. Calls'
    BY <1>1, <2>1, FinishCalls, ForgettingCalls DEF Steps
  <2>3. QED
    BY <2>1, <2>2, RowsKept, TwoHalves
<1>13. CASE Forget(c)
  <2>1. /\ pc[c] = "forget" /\ Goto(c, "derive") /\ Forgetting(c)
        /\ facts' = IF Found(c) THEN [facts EXCEPT ![call[c].label] = None] ELSE facts
        /\ UNCHANGED <<made, profile, said, budget, mined, disturbed>>
    BY <1>13 DEF Forget
  <2>2. Calls'
    BY <2>1, ForgettingCalls DEF Steps
  <2>3. Rows'
    BY <2>1, RowEdited, RowsKept DEF Found
  <2>4. QED
    BY <2>2, <2>3, TwoHalves
<1>14. CASE Upsert(c)
  <2>1. /\ pc[c] = "upsert" /\ note' = call[c].note /\ learned' = call[c].total
        /\ Finish(c)
        /\ UNCHANGED <<facts, made, said, budget, mined, disturbed>>
    BY <1>14 DEF Upsert
  <2>2. Calls'
    BY <2>1, FinishCalls
  <2>3. note' \in SUBSET Value
    BY <1>1, <2>1 DEF CallRow
  <2>4. Rows'
    BY <1>1, <2>1, <2>3, TwoHalves DEF Rows, budget, ConfirmedIsCertain, Present
  <2>5. QED
    BY <2>2, <2>4, TwoHalves
<1>15. CASE Abandon(c)
  <2>1. /\ Finish(c) /\ disturbed' \subseteq disturbed \cup {"overlap", "unwritten"}
        /\ UNCHANGED <<facts, made, profile, said, budget, mined>>
    BY <1>15 DEF Abandon, Unwritten
  <2>2. said' = said /\ mined' = mined
    BY <2>1
  <2>3. QED
    BY <2>1, <2>2, FinishCalls, RowsKept, TwoHalves
<1>16. QED
  BY <1>2, <1>3, <1>4, <1>5, <1>6, <1>7, <1>8, <1>9, <1>10, <1>11, <1>12, <1>13, <1>14, <1>15
     DEF Step

\* What happens beside the requests: lines, turns, the end of the hour.
LEMMA WorldInv ==
    ASSUME Inv, Say \/ HourEnds \/ Turn
    PROVE  Inv'
<1>1. CASE Say
  <2>1. /\ said' = said + 1
        /\ UNCHANGED <<facts, made, profile, pc, call, budget, mined, disturbed>>
    BY <1>1 DEF Say
  <2>2. said \in Nat
    BY DEF Inv, TypeOK
  <2>3. CallRow \subseteq CallRow'
    BY <2>1, <2>2 DEF CallRow
  <2>4. Considered \subseteq Considered'
    BY <2>1, <2>2, StillConsidered
  <2>5. Calls'
    BY <2>1, <2>3, <2>4, TwoHalves DEF Calls, Idle, Words, OwnWords, Covered
  <2>6. Rows'
    <3>1. mined \in SUBSET (1..said') /\ learned \in 0..said' /\ said' \in Nat
      BY <2>1, <2>2, TwoHalves DEF Rows
    <3>2. QED
      BY <2>1, <2>4, <3>1, TwoHalves
         DEF Rows, profile, budget, ConfirmedIsCertain, Present
  <2>7. QED
    BY <2>5, <2>6, TwoHalves
<1>2. CASE HourEnds \/ Turn
  <2>1. UNCHANGED <<facts, made, profile, said, pc, call, mined, disturbed>>
    BY <1>2 DEF HourEnds, Turn
  <2>2. Calls'
    <3>1. Considered' = Considered
      BY <2>1, StillConsidered DEF Inv, TypeOK
    <3>2. QED
      BY <2>1, <3>1, TwoHalves DEF Calls, Idle, Words, OwnWords, Covered, CallRow
  <2>3. CASE HourEnds
    <3>1. spent' = 0 /\ granted' = 0 /\ 0 <= PerHour
      BY <2>3, LearningAssumption DEF HourEnds
    <3>2. Rows'
      BY <2>1, <3>1, TwoHalves, StillConsidered DEF Rows, profile, ConfirmedIsCertain, Present
    <3>3. QED
      BY <2>2, <3>2, TwoHalves
  <2>4. CASE Turn
    BY <2>1, <2>2, <2>4, CountRows, TwoHalves DEF Turn
  <2>5. QED
    BY <1>2, <2>3, <2>4
<1>3. QED
  BY <1>1, <1>2

-----------------------------------------------------------------------------
(* The theorems                                                             *)

\* The invariant holds in every reachable state.
THEOREM InvHolds == Spec => []Inv
<1>1. Init => Inv
  <2> SUFFICES ASSUME Init
               PROVE  Inv
    OBVIOUS
  <2>1. NoCall \in CallRow /\ NoCall.op = "none" /\ NoCall.total = 0
    BY NoCallTyped DEF Init
  <2>2. Present(facts) = {}
    BY DEF Init, Present, NoFacts
  <2>3. Rows
    BY <2>2, LearningAssumption DEF Init, Rows, NoFacts, ConfirmedIsCertain
  <2>4. Calls
    BY <2>1 DEF Init, Calls, Steps, Idle, Words, OwnWords, Covered
  <2>5. QED
    BY <2>3, <2>4, TwoHalves
<1>2. Inv /\ [Next]_vars => Inv'
  <2> SUFFICES ASSUME Inv, [Next]_vars
               PROVE  Inv'
    OBVIOUS
  <2>1. CASE Next
    BY <2>1, WorldInv, RequestInv, StepInv DEF Next
  <2>2. CASE UNCHANGED vars
    BY <2>2 DEF vars, profile, budget, Inv, TypeOK, ConfirmedIsCertain, Words, WatermarkIsMined,
                Covered, Considered, BudgetHolds, Present, CallRow, Idle, OwnWords
  <2>3. QED
    BY <2>1, <2>2
<1>3. QED
  BY <1>1, <1>2, PTL DEF Spec

\* Every variable keeps its type; a fact's id is one its label has had.
THEOREM TypeCorrect == Spec => []TypeOK
<1>1. Inv => TypeOK
  BY DEF Inv
<1>2. QED
  BY <1>1, InvHolds, PTL

\* Confirmed facts are certain, whatever a batch or an edit was based on.
THEOREM Certain == Spec => []ConfirmedIsCertain
<1>1. Inv => ConfirmedIsCertain
  BY DEF Inv
<1>2. QED
  BY <1>1, InvHolds, PTL

\* The watermark of Refresh passes over no line that a transcript had room for:
\* what it counts was in a transcript, or a transcript was full of later lines
\* (Refresh takes its count before it fetches the lines).
THEOREM Watermark == Spec => []WatermarkIsMined
<1>1. Inv => WatermarkIsMined
  BY DEF Inv
<1>2. QED
  BY <1>1, InvHolds, PTL

\* Extractions and turns together keep within the hourly allowance.
THEOREM Allowance == Spec => []BudgetHolds
<1>1. Inv => BudgetHolds
  BY DEF Inv
<1>2. QED
  BY <1>1, InvHolds, PTL

\* A row that was not there before a step is numbered after all its label had.
LEMMA NewRows ==
    ASSUME Inv, [Next]_vars
    PROVE  \A l \in Present(facts') \ Present(facts) : facts'[l].id > made[l]
<1> SUFFICES ASSUME NEW l \in Present(facts') \ Present(facts)
             PROVE  facts'[l].id > made[l]
  OBVIOUS
<1>1. facts \in [Label -> Fact \cup {None}] /\ made \in [Label -> Nat]
  BY DEF Inv, TypeOK
<1>2. l \in Label /\ facts[l] = None /\ facts'[l] # None
  BY DEF Present
<1>3. facts' # facts
  BY <1>2
<1>4. PICK c \in Call : WriteFacts(c) \/ EditFact(c) \/ Forget(c)
  <2>1. Next
    BY <1>3 DEF vars
  <2>2. PICK c \in Call : Request(c) \/ Step(c)
    BY <1>3, <2>1 DEF Next, Say, HourEnds, Turn
  <2>3. ~Request(c)
    BY <1>3 DEF Request, AddFact, Learn, Refresh, UpdateFact, DeleteFact, UpdateProfile, Begin
  <2>4. QED
    BY <1>3, <2>2, <2>3
       DEF Step, Compare, OwnMessages, Spend, Answer, ReadFacts, Mark, DeriveNote, SetNote,
           Reread, Upsert, Abandon
<1>5. CASE WriteFacts(c)
  <2>1. l \notin Touched(c)
    BY <1>2 DEF Touched, Present
  <2>2. facts' = [k \in Label |-> IF k \in Fresh(c) THEN Learnt(c, k, made[k] + 1)
                                  ELSE IF k \in Touched(c)
                                       THEN Learnt(c, k, call[c].existing[k].id)
                                  ELSE facts[k]]
    BY <1>3, <1>5 DEF WriteFacts
  <2>3. l \in Fresh(c)
    BY <1>2, <2>1, <2>2
  <2>4. facts'[l].id = made[l] + 1
    BY <1>2, <2>2, <2>3 DEF Learnt
  <2>5. QED
    BY <1>1, <1>2, <2>4
<1>6. CASE EditFact(c)
  BY <1>1, <1>2, <1>6 DEF EditFact, Found, Present
<1>7. CASE Forget(c)
  BY <1>1, <1>2, <1>7 DEF Forget, Found, Present
<1>8. QED
  BY <1>4, <1>5, <1>6, <1>7

\* A fact that was deleted is never brought back by a reading that saw it.
THEOREM Forgotten == Spec => ForgottenStaysForgotten
<1>1. Inv /\ [Next]_vars
      => [\A l \in Present(facts') \ Present(facts) : facts'[l].id > made[l]]_vars
  BY NewRows
<1>2. QED
  BY <1>1, InvHolds, PTL DEF Spec, ForgottenStaysForgotten

-----------------------------------------------------------------------------
(* The note                                                                 *)

\* The steps at which facts may have changed and the note has not been written.
Owing == {"reread", "derive", "setNote"}

\* Until requests overlap or a note is left unwritten there is one request at a
\* time; whatever it holds of the facts or the note is still so, and the note
\* follows the facts but where that request is about to write it.
Noted ==
    disturbed = {} =>
        /\ \A c, d \in Call : Idle(c) \/ Idle(d) \/ c = d
        /\ (\A c \in Call : pc[c] \notin Owing) => note = Derived(facts)
        /\ \A c \in Call :
              /\ pc[c] = "setNote" => call[c].note = Derived(facts)
              /\ pc[c] = "upsert" => call[c].note = note
              /\ pc[c] \in {"edit", "reread"} => Found(c)

\* One request moves while the others are idle.
LEMMA MovesAlone ==
    ASSUME TypeOK, NEW c \in Call, NEW s, NEW r, Goto(c, s), Set(c, r),
           \A d \in Call \ {c} : Idle(d),
           s \notin Owing => note' = Derived(facts'),
           s = "setNote" => r.note = Derived(facts'),
           s = "upsert" => r.note = note',
           s \in {"edit", "reread"} => r.label \in Present(facts') /\ facts'[r.label].id = r.id
    PROVE  Noted'
<1>1. pc'[c] = s /\ call'[c] = r /\ \A d \in Call \ {c} : pc'[d] = "idle"
  BY DEF TypeOK, Goto, Set, Idle
<1>2. \A d, e \in Call : Idle(d)' \/ Idle(e)' \/ d = e
  BY <1>1 DEF Idle
<1>3. (\A d \in Call : pc'[d] \notin Owing) => note' = Derived(facts')
  BY <1>1
<1>4. /\ pc'[c] = "setNote" => call'[c].note = Derived(facts')
      /\ pc'[c] = "upsert" => call'[c].note = note'
      /\ pc'[c] \in {"edit", "reread"} => Found(c)'
  BY <1>1 DEF Found
<1>5. QED
  BY <1>1, <1>2, <1>3, <1>4 DEF Noted

\* A request that begins where nothing is in flight finds the note written.
LEMMA BeginNotes ==
    ASSUME TypeOK, Noted, NEW c \in Call, NEW op, NEW r \in CallRow,
           NEW s \in Steps \ Owing, Begin(c, op, r, s),
           s = "upsert" => r.note = note,
           s = "edit" => r.label \in Present(facts) /\ facts[r.label].id = r.id
    PROVE  Noted'
<1> SUFFICES ASSUME disturbed' = {}
             PROVE  Noted'
  BY DEF Noted
<1>1. Quiescent /\ disturbed = {} /\ UNCHANGED <<facts, note>>
  BY DEF Begin, profile
<1>2. note = Derived(facts)
  BY <1>1 DEF Noted, Quiescent, Idle, Owing
<1> DEFINE t == [r EXCEPT !.op = op]
<1>3. t.note = r.note /\ t.label = r.label /\ t.id = r.id /\ Goto(c, s) /\ Set(c, t)
  BY DEF Begin, CallRow
<1> HIDE DEF t
<1>4. s \notin {"setNote", "reread"}
  BY DEF Owing
<1>5. \A d \in Call \ {c} : Idle(d)
  BY <1>1 DEF Quiescent
<1>6. QED
  BY <1>1, <1>2, <1>3, <1>4, <1>5, MovesAlone

\* A new request leaves the note and the facts as they are.
LEMMA RequestNotes ==
    ASSUME Inv, Noted, NEW c \in Call, Request(c)
    PROVE  Noted'
<1>0. /\ TypeOK /\ said \in Nat /\ note \in SUBSET Value /\ learned \in 0..said
      /\ NoCall \in CallRow
  BY NoCallTyped DEF Inv, TypeOK
<1>1. CASE AddFact(c) \/ Learn(c)
  BY <1>0, <1>1, BeginNotes DEF AddFact, Learn, Steps, Owing
<1>2. CASE Refresh(c)
  <2> DEFINE r == [NoCall EXCEPT !.total = said]
  <2>1. r \in CallRow
    BY <1>0 DEF CallRow
  <2>2. Begin(c, "refresh", r, "compare")
    BY <1>2 DEF Refresh
  <2> HIDE DEF r
  <2>3. QED
    BY <1>0, <2>1, <2>2, BeginNotes DEF Steps, Owing
<1>3. ASSUME NEW l \in Label, UpdateFact(c, l)
      PROVE  Noted'
  <2>1. PICK v \in Value \cup {None}, k \in BOOLEAN \cup {None} :
           Begin(c, "edit", [NoCall EXCEPT !.label = l, !.id = facts[l].id, !.value = v,
                                           !.confirmed = k], "edit")
    BY <1>3 DEF UpdateFact
  <2>2. l \in Present(facts) /\ facts[l].id \in Nat
    BY <1>0, <1>3 DEF UpdateFact, Present, TypeOK, Fact
  <2> DEFINE i == facts[l].id
             r1 == [NoCall EXCEPT !.label = l]
             r2 == [r1 EXCEPT !.id = i]
             r3 == [r2 EXCEPT !.value = v]
             r4 == [r3 EXCEPT !.confirmed = k]
  <2>3. Begin(c, "edit", r4, "edit")
    BY <2>1
  <2>4. r1 \in CallRow /\ r1.label = l
    BY <1>0 DEF CallRow
  <2> HIDE DEF r1
  <2>5. r2 \in CallRow /\ r2.label = l /\ r2.id = i
    BY <2>2, <2>4 DEF CallRow
  <2> HIDE DEF r2
  <2>6. r3 \in CallRow /\ r3.label = l /\ r3.id = i
    BY <2>5 DEF CallRow
  <2> HIDE DEF r3
  <2>7. r4 \in CallRow /\ r4.label = l /\ r4.id = i
    BY <2>6 DEF CallRow
  <2> HIDE DEF r4
  <2>8. QED
    BY <1>0, <2>2, <2>3, <2>7, BeginNotes DEF Steps, Owing
<1>4. ASSUME NEW l \in Label, DeleteFact(c, l)
      PROVE  Noted'
  <2>1. facts[l].id \in Nat
    BY <1>0, <1>4 DEF DeleteFact, Present, TypeOK, Fact
  <2> DEFINE r == [NoCall EXCEPT !.label = l, !.id = facts[l].id]
  <2>2. r \in CallRow
    BY <1>0, <2>1 DEF CallRow
  <2>3. Begin(c, "forget", r, "forget")
    BY <1>4 DEF DeleteFact
  <2> HIDE DEF r
  <2>4. QED
    BY <1>0, <2>2, <2>3, BeginNotes DEF Steps, Owing
<1>5. CASE UpdateProfile(c)
  <2> DEFINE r == [NoCall EXCEPT !.note = note, !.total = learned]
  <2>1. r \in CallRow /\ r.note = note
    BY <1>0 DEF CallRow
  <2>2. Begin(c, "profile", r, "upsert")
    BY <1>5 DEF UpdateProfile
  <2> HIDE DEF r
  <2>3. QED
    BY <1>0, <2>1, <2>2, BeginNotes DEF Steps, Owing
<1>6. QED
  BY <1>1, <1>2, <1>3, <1>4, <1>5 DEF Request

\* A step of the one request leaves the note in line with the facts, or is going to
\* write it.
LEMMA StepNotes ==
    ASSUME Inv, Noted, NEW c \in Call, Step(c)
    PROVE  Noted'
<1> SUFFICES ASSUME disturbed' = {}
             PROVE  Noted'
  BY DEF Noted
<1>0. /\ TypeOK /\ call[c] \in CallRow /\ facts \in [Label -> Fact \cup {None}]
      /\ pc[c] \in Steps /\ call \in [Call -> CallRow]
  BY DEF Inv, TypeOK
<1>1. ~Idle(c) /\ disturbed = {}
  BY DEF Step, Compare, OwnMessages, Spend, Answer, ReadFacts, WriteFacts, Mark, DeriveNote,
         SetNote, EditFact, Reread, Forget, Upsert, Abandon, Idle
<1>2. \A d \in Call \ {c} : Idle(d)
  BY <1>1 DEF Noted
<1>3. pc[c] \notin Owing => note = Derived(facts)
  BY <1>1, <1>2 DEF Noted, Idle, Owing
<1>4. ASSUME NEW s, NEW r, Goto(c, s), Set(c, r), UNCHANGED <<facts, note>>,
             pc[c] \notin Owing, s \notin {"reread", "setNote", "upsert", "edit"}
      PROVE  Noted'
  BY <1>0, <1>2, <1>3, <1>4, MovesAlone DEF Owing
<1>5. ASSUME NEW r, Goto(c, "derive"), Set(c, r)
      PROVE  Noted'
  BY <1>0, <1>2, <1>5, MovesAlone DEF Owing
<1>6. UNCHANGED call => Set(c, call[c])
  BY <1>0 DEF Set
<1>7. CASE Compare(c) \/ OwnMessages(c) \/ Mark(c)
  BY <1>4, <1>6, <1>7 DEF Compare, OwnMessages, Mark, Finish, profile, Owing
<1>8. ASSUME ExtractFails(c), UNCHANGED <<facts, note>>, pc[c] \notin Owing
      PROVE  Noted'
  BY <1>4, <1>8 DEF ExtractFails, Finish
<1>9. CASE Spend(c)
  BY <1>4, <1>6, <1>8, <1>9 DEF Spend, profile, Owing
<1>10. CASE Answer(c)
  BY <1>4, <1>5, <1>8, <1>10 DEF Answer, profile, Owing
<1>11. CASE ReadFacts(c)
  BY <1>4, <1>11 DEF ReadFacts, profile, Owing
<1>12. CASE WriteFacts(c)
  <2>1. pc[c] \notin Owing /\ UNCHANGED note
    BY <1>12 DEF WriteFacts, profile, Owing
  <2>2. CASE ExtractFails(c) /\ UNCHANGED facts
    BY <1>8, <2>1, <2>2
  <2>3. CASE Goto(c, "derive") /\ \E r : Set(c, r)
    BY <1>5, <2>3
  <2>4. QED
    BY <1>12, <2>2, <2>3 DEF WriteFacts
<1>13. CASE DeriveNote(c)
  <2> DEFINE r == [call[c] EXCEPT !.note = Derived(facts)]
  <2>1. Goto(c, "setNote") /\ Set(c, r) /\ UNCHANGED <<facts, note>>
    BY <1>13 DEF DeriveNote, profile
  <2>2. r.note = Derived(facts)
    BY <1>0 DEF CallRow
  <2> HIDE DEF r
  <2>3. QED
    BY <1>0, <1>2, <2>1, <2>2, MovesAlone DEF Owing
<1>14. CASE SetNote(c)
  <2>1. pc[c] = "setNote" /\ note' = call[c].note /\ AfterNote(c) /\ UNCHANGED facts
    BY <1>14 DEF SetNote
  <2>2. note' = Derived(facts')
    BY <1>1, <2>1 DEF Noted
  <2>3. \E s \in {"idle", "mark"} : Goto(c, s) /\ \E r : Set(c, r)
    BY <2>1 DEF AfterNote, Finish
  <2>4. QED
    BY <1>0, <1>2, <2>2, <2>3, MovesAlone DEF Owing
<1>15. CASE EditFact(c)
  <2> DEFINE x == call[c]
             r == [x EXCEPT !.value = None, !.confirmed = None]
  <2>1. Goto(c, "reread") /\ Set(c, r)
    BY <1>15 DEF EditFact
  <2>2. Found(c)
    BY <1>1, <1>15 DEF EditFact, Noted
  <2>3. x.label \in Present(facts) /\ facts[x.label].id = x.id /\ x.label \in Label
    BY <2>2 DEF Found, Present
  <2>4. facts' = [facts EXCEPT ![x.label] = Edited(@, x.value, x.confirmed)]
    BY <1>15, <2>2 DEF EditFact
  <2>5. x \in CallRow /\ facts[x.label] \in Fact /\ x.value \in Value \cup {None}
        /\ x.confirmed \in BOOLEAN \cup {None}
    BY <1>0, <2>3 DEF Present, CallRow
  <2> HIDE DEF x
  <2>6. r.label = x.label /\ r.id = x.id
    BY <2>5 DEF CallRow
  <2>7. /\ facts'[x.label] = Edited(facts[x.label], x.value, x.confirmed)
        /\ Edited(facts[x.label], x.value, x.confirmed) \in Fact
        /\ Edited(facts[x.label], x.value, x.confirmed).id = facts[x.label].id
    <3>1. facts[x.label].confirmed => facts[x.label].sure = "certain"
      BY <2>3 DEF Inv, ConfirmedIsCertain
    <3>2. QED
      BY <1>0, <2>3, <2>4, <2>5, <3>1, EditedFact DEF Present
  <2>8. x.label \in Present(facts') /\ facts'[x.label].id = x.id
    BY <1>0, <2>3, <2>4, <2>7, NoneIsNoFact DEF Present
  <2> HIDE DEF r
  <2>9. QED
    BY <1>0, <1>2, <2>1, <2>6, <2>8, MovesAlone DEF Owing
<1>16. CASE Reread(c)
  <2>1. Found(c)
    BY <1>1, <1>16 DEF Reread, Noted
  <2>2. QED
    BY <1>5, <1>16, <2>1 DEF Reread, Forgetting
<1>17. CASE Forget(c)
  BY <1>5, <1>17 DEF Forget, Forgetting
<1>18. CASE Upsert(c)
  <2>1. pc[c] = "upsert" /\ note' = note /\ UNCHANGED facts /\ Goto(c, "idle") /\ Set(c, NoCall)
    BY <1>1, <1>18 DEF Upsert, Finish, Noted
  <2>2. QED
    BY <1>4, <2>1 DEF Owing
<1>19. CASE Abandon(c)
  <2>1. pc[c] \notin Owing
    BY <1>19 DEF Abandon, Unwritten, Owing
  <2>2. QED
    BY <1>4, <1>19, <2>1 DEF Abandon, Finish, profile
<1>20. QED
  BY <1>7, <1>9, <1>10, <1>11, <1>12, <1>13, <1>14, <1>15, <1>16, <1>17, <1>18, <1>19 DEF Step

\* Every change of the facts is followed by its note: with nothing in flight the
\* note says what the facts say, unless requests overlapped or writing it failed
\* (refreshNote, called by every handler that changes a fact).
THEOREM NoteIsFollowed == Spec => []NoteFollowsFacts
<1>1. Init => Noted
  <2> SUFFICES ASSUME Init PROVE Noted
    OBVIOUS
  <2>1. Derived(facts) = {} /\ note = {}
    BY DEF Init, Derived, Present, NoFacts
  <2>2. QED
    BY <2>1 DEF Init, Noted, Idle
<1>2. Inv /\ Noted /\ [Next]_vars => Noted'
  <2> SUFFICES ASSUME Inv, Noted, [Next]_vars PROVE Noted'
    OBVIOUS
  <2>1. UNCHANGED <<facts, note, pc, call, disturbed>> => Noted'
    BY DEF Noted, Idle, Found
  <2>2. CASE Say \/ HourEnds \/ Turn
    BY <2>1, <2>2 DEF Say, HourEnds, Turn, profile
  <2>3. QED
    BY <2>1, <2>2, RequestNotes, StepNotes DEF Next, vars, profile
<1>3. Noted => NoteFollowsFacts
  BY DEF Noted, NoteFollowsFacts, Quiescent, Idle, Owing
<1>4. QED
  BY <1>1, <1>2, <1>3, InvHolds, PTL DEF Spec
=============================================================================
