---------------------------- MODULE ThreadProofs ----------------------------
(***************************************************************************)
(* The conversation keeps its promises for any people, any number of       *)
(* requests at once, any requests and any thread length.                   *)
(*                                                                         *)
(* A line in flight belongs to the one request that stamped it, so what    *)
(* the others do to the timeline never touches it; and whoever has still   *)
(* to be told or announced has a request in flight that will do it, or a   *)
(* failure that says why not.                                              *)
(***************************************************************************)
EXTENDS Thread, TLAPS, SequenceTheorems, FiniteSetTheorems

\* What a request carries, field by field.
Carried ==
    [op : AllOps \cup {"none"}, user : User \cup {None}, author : User \cup {None},
     line : Lines, topic : Topic \cup {None}, who : SUBSET User, added : SUBSET User,
     subject : User \cup {None}, title : Titles, titled : BOOLEAN, regroup : BOOLEAN,
     decided : SUBSET Topic, open : SUBSET Topic, total : Nat, last : Nat,
     turn : BOOLEAN, slot : Nat, answer : Nat, listed : SUBSET Nat]

\* The steps after a turn was asked for.
Turning == {"turn", "think", "answer", "remember", "tellAnswer"}

\* ... and those after a send has committed its line.
Sent == {"tell", "name"} \cup Turning

\* A request at step p carries r: each step belongs to some requests, and what it
\* will use is there.
Fits(p, r) ==
    /\ p = "idle" <=> r.op = "none"
    /\ r.op # "none" => r.user \in User
    /\ p \in {"total", "since", "name"} => r.op = "send"
    /\ p \in Turning => r.op \in {"send", "ask"}
    /\ p \in {"insert", "commit", "tell"} => r.op \in {"send", "choose", "add", "join"}
    /\ p = "settle" => r.op = "choose"
    /\ r.op \in {"send", "choose"} /\ p \in {"total", "since", "insert"} => r.author \in User
    /\ p = "mark" => r.op \in {"open", "seen"}
    /\ r.op = "choose" /\ p \in {"insert", "commit", "settle"} => r.topic # None
    /\ p = "seat" => r.op \in {"add", "join"}
    /\ p = "leave" => r.op = "leave"
    /\ p \in {"rename", "regroup"} => r.op = "update"
    /\ r.added # {} => r.op \in {"add", "join"} /\ p \in {"seat", "insert", "commit", "tell"}
    /\ p = "commit" => r.slot # 0
    /\ p = "commit" /\ r.op \in {"add", "join"} => r.subject # None
    /\ r.op = "ask" \/ (r.op = "send" /\ p \in {"total", "since", "insert"}) => r.slot = 0
    /\ p = "answer" => r.answer # 0
    /\ r.answer # 0 => p \in {"answer", "remember", "tellAnswer"}
    /\ r.op = "send" /\ r.answer # 0 => r.slot < r.answer
    /\ r.op = "update" => (r.titled <=> r.title # "placeholder")

Records == call \in [Call -> Carried] /\ \A c \in Call : Fits(pc[c], call[c])

\* The lines of a request in flight are where its step says.
Posted ==
    \A c \in Call :
        /\ pc[c] = "commit" => timeline[call[c].slot].state = "pending"
        /\ pc[c] = "answer" => timeline[call[c].answer].state = "pending"
        /\ call[c].op = "send" /\ pc[c] \in Sent =>
              call[c].slot # 0 /\ timeline[call[c].slot].state = "in"
        /\ call[c].op = "send" /\ pc[c] = "failed" =>
              call[c].slot = 0 \/ timeline[call[c].slot].state = "lost"

\* A line belongs to one request.
Lineage(c) == {call[c].slot, call[c].answer} \ {0}

Apart == \A c, d \in Call : c # d => Lineage(c) \cap Lineage(d) = {}

\* One of Chaos's lines is its last, if there is one.
HasLast ==
    Spoken("chaos") # {} => \E i \in Spoken("chaos") : \A j \in Spoken("chaos") : j <= i

Shape == pc \in [Call -> Steps] /\ Records

-----------------------------------------------------------------------------
(* Next, with its actions one by one, and what a step does to the records   *)

Others(c) == \A d \in Call \ {c} : pc'[d] = pc[d] /\ call'[d] = call[d]

\* The request goes to step s and carries r from there.
LEMMA Moves ==
    ASSUME Shape, NEW c \in Call, NEW s \in Steps, NEW r \in Carried, Fits(s, r),
           Goto(c, s), Set(c, r)
    PROVE  Shape' /\ Others(c) /\ pc'[c] = s /\ call'[c] = r
<1>1. /\ pc' \in [Call -> Steps] /\ call' \in [Call -> Carried]
      /\ \A d \in Call : /\ pc'[d] = IF d = c THEN s ELSE pc[d]
                         /\ call'[d] = IF d = c THEN r ELSE call[d]
  BY DEF Shape, Records, Goto, Set
<1>2. \A d \in Call : Fits(pc'[d], call'[d])
  BY <1>1 DEF Shape, Records
<1>3. QED
  BY <1>1, <1>2 DEF Shape, Records, Others

\* ... or keeps what it carries.
LEMMA MovesOn ==
    ASSUME Shape, NEW c \in Call, NEW s \in Steps, Fits(s, call[c]),
           Goto(c, s), UNCHANGED call
    PROVE  Shape' /\ Others(c) /\ pc'[c] = s /\ call'[c] = call[c]
<1>1. /\ pc' \in [Call -> Steps] /\ call' \in [Call -> Carried]
      /\ \A d \in Call : /\ pc'[d] = IF d = c THEN s ELSE pc[d]
                         /\ call'[d] = call[d]
  BY DEF Shape, Records, Goto
<1>2. \A d \in Call : Fits(pc'[d], call'[d])
  BY <1>1 DEF Shape, Records
<1>3. QED
  BY <1>1, <1>2 DEF Shape, Records, Others

\* The record of a request that has ended, and of one that is new.
LEMMA NoCallFits == NoCall \in Carried /\ Fits("idle", NoCall)
BY DEF NoCall, Carried, Fits, Titles, Lines, Turning

\* A request at its first step carries its operation and its user, and nothing yet of
\* what its steps will find.
LEMMA AskedIs ==
    ASSUME NEW op \in AllOps, NEW u \in User
    PROVE  /\ Asked(op, u) \in Carried
           /\ Asked(op, u).op = op /\ Asked(op, u).user = u
           /\ Asked(op, u).added = {} /\ Asked(op, u).subject = None
           /\ Asked(op, u).title = "placeholder" /\ ~Asked(op, u).titled
           /\ Asked(op, u).slot = 0 /\ Asked(op, u).answer = 0
           /\ ~Asked(op, u).turn
<1> DEFINE n == NoCall
           a == [n EXCEPT !.op = op]
<1>1. /\ n \in Carried /\ n.added = {} /\ n.subject = None /\ ~n.turn
      /\ n.title = "placeholder" /\ ~n.titled /\ n.slot = 0 /\ n.answer = 0
  BY DEF NoCall, Carried, Titles, Lines
<1>2. Asked(op, u) = [a EXCEPT !.user = u]
  BY DEF Asked
<1> HIDE DEF n
<1>3. /\ a \in Carried /\ a.added = {} /\ a.subject = None /\ ~a.turn
      /\ a.title = "placeholder" /\ ~a.titled /\ a.slot = 0 /\ a.answer = 0
      /\ a.op = op
  BY <1>1 DEF Carried
<1> HIDE DEF a
<1>4. QED
  BY <1>2, <1>3 DEF Carried

\* A request that ends leaves nothing behind in its record.
LEMMA Finishes ==
    ASSUME Shape, NEW c \in Call, Finish(c)
    PROVE  Shape' /\ Others(c) /\ pc'[c] = "idle" /\ call'[c] = NoCall
BY NoCallFits, Moves DEF Finish, Steps

\* One that fails keeps the line it stamped, and nothing else.
LEMMA Fails ==
    ASSUME Shape, NEW c \in Call, pc[c] # "idle", Fail(c)
    PROVE  /\ Shape' /\ Others(c) /\ pc'[c] = "failed"
           /\ call'[c].op = call[c].op
           /\ call'[c].slot = call[c].slot /\ call'[c].answer = 0
           /\ call'[c].added = {} /\ call'[c].subject = None
<1>1. call[c] \in Carried /\ Fits(pc[c], call[c])
  BY DEF Shape, Records
<1> DEFINE a == Asked(call[c].op, call[c].user)
           r == [a EXCEPT !.slot = call[c].slot]
<1>2. /\ call[c].op \in AllOps /\ call[c].user \in User /\ call[c].slot \in Nat
      /\ call[c].op = "ask" => call[c].slot = 0
  BY <1>1 DEF Carried, Fits
<1>0. /\ a \in Carried /\ a.op = call[c].op /\ a.user = call[c].user
      /\ a.answer = 0 /\ a.added = {} /\ a.subject = None
      /\ ~a.titled /\ a.title = "placeholder"
  BY <1>2, AskedIs
<1> HIDE DEF a
<1>3. /\ r \in Carried
      /\ r.op = call[c].op /\ r.user = call[c].user /\ r.slot = call[c].slot /\ r.answer = 0
      /\ r.added = {} /\ r.subject = None /\ ~r.titled /\ r.title = "placeholder"
  BY <1>0, <1>2 DEF Carried
<1>4. r.op # "none"
  BY <1>2, <1>3 DEF AllOps
<1>5. Fits("failed", r)
  BY <1>2, <1>3, <1>4 DEF Fits, Turning
<1>6. QED
  BY <1>3, <1>5, Moves DEF Fail, Steps, a

-----------------------------------------------------------------------------
(* Steps that leave the timeline alone                                      *)

\* No line is stamped, committed or lost, and the request keeps the lines it has
\* or forgets them.
Quiet(c) ==
    /\ UNCHANGED timeline
    /\ Others(c)
    /\ pc'[c] \notin {"commit", "answer"}
    /\ call'[c].slot \in {0, call[c].slot}
    /\ call'[c].answer \in {0, call[c].answer}
    /\ call'[c].op = "send" /\ pc'[c] \in Sent =>
          call[c].op = "send" /\ pc[c] \in Sent /\ call'[c].slot = call[c].slot
    /\ call'[c].op = "send" /\ pc'[c] = "failed" => call'[c].slot = 0

\* A request begins without lines and without anybody to announce.
Begun(c) ==
    /\ pc[c] = "idle"
    /\ call'[c].op \in Ops
    /\ call'[c].op = "send" => pc'[c] = "total"
    /\ pc'[c] \in {"total", "turn", "insert", "mark", "seat", "leave", "rename"}
    /\ call'[c].added = {}
    /\ UNCHANGED <<conv, active, seen, activity, history>>

\* What a request carries at its first step: r, of which only the fields
\* its handler reads differ from a fresh record.
LEMMA Begins ==
    ASSUME Shape, NEW c \in Call, NEW u \in User, NEW op \in AllOps, NEW s \in Steps, NEW r \in Carried,
           Start(c, op, u), Goto(c, s), Set(c, r),
           r.op = op, r.user = u, r.slot = 0, r.answer = 0, r.added = {},
           \/ op = "send" /\ s = "total" /\ r.author \in User
           \/ op = "ask" /\ s = "turn"
           \/ op = "choose" /\ s = "insert" /\ r.topic # None /\ r.author \in User
           \/ op \in {"open", "seen"} /\ s = "mark"
           \/ op \in {"add", "join"} /\ s = "seat"
           \/ op = "leave" /\ s = "leave"
           \/ op = "update" /\ s = "rename" /\ (r.titled <=> r.title # "placeholder")
    PROVE  Shape' /\ Quiet(c) /\ Begun(c)
<1>1. Fits(s, r)
  BY DEF Fits, Turning, AllOps
<1>2. Shape' /\ Others(c) /\ pc'[c] = s /\ call'[c] = r
  BY <1>1, Moves
<1>3. QED
  BY <1>2 DEF Quiet, Begun, Start, Idle, Sent, Turning

\* Every request of Next begins so.
LEMMA RequestBegins ==
    ASSUME TypeOK, Shape, TitleAgrees, NEW c \in Call, NEW u \in User, Request(c, u)
    PROVE  Shape' /\ Quiet(c) /\ Begun(c)
<1>0. /\ active \in SUBSET User /\ conv.title \in Titles /\ conv.titled \in BOOLEAN
      /\ conv.decided \in SUBSET Topic /\ conv.open \in SUBSET Topic
      /\ Committed \in SUBSET Nat
      /\ conv.titled <=> conv.title # "placeholder"
  BY DEF TypeOK, Committed, TitleAgrees
<1> DEFINE a(op) == Asked(op, u)
<1>a. \A op \in AllOps :
         /\ a(op) \in Carried /\ a(op).op = op /\ a(op).user = u
         /\ a(op).added = {} /\ a(op).slot = 0 /\ a(op).answer = 0
  BY AskedIs
<1> HIDE DEF a
<1>1. CASE Send(c, u)
  <2>1. PICK p \in active, line \in Lines :
           Set(c, [a("send") EXCEPT !.author = p, !.line = line, !.titled = conv.titled])
    BY <1>1 DEF Send, a
  <2> DEFINE x == a("send")
             r == [x EXCEPT !.author = p, !.line = line, !.titled = conv.titled]
  <2>2. x \in Carried /\ x.op = "send" /\ x.user = u /\ x.slot = 0 /\ x.answer = 0 /\ x.added = {}
    BY <1>a DEF AllOps
  <2>3. Start(c, "send", u) /\ Goto(c, "total") /\ Set(c, r)
    BY <1>1, <2>1 DEF Send, StartAsMember
  <2>4. p \in User /\ conv.titled \in BOOLEAN
    BY <1>0
  <2> HIDE DEF x
  <2>5. /\ r \in Carried /\ r.op = "send" /\ r.user = u /\ r.slot = 0 /\ r.answer = 0 /\ r.added = {}
        /\ r.author = p
    BY <2>2, <2>4 DEF Carried
  <2> HIDE DEF r
  <2>6. QED
    BY <2>3, <2>4, <2>5, Begins DEF AllOps, Steps
<1>2. CASE Ask(c, u)
  BY <1>2, <1>a, Begins DEF Ask, StartAsMember, AllOps, Steps, a
<1>3. CASE Choose(c, u)
  <2>1. PICK t \in Topic :
           Set(c, [a("choose") EXCEPT !.author = u, !.topic = t,
                                      !.decided = conv.decided, !.open = conv.open])
    BY <1>3 DEF Choose, a
  <2> DEFINE x == a("choose")
             r == [x EXCEPT !.author = u, !.topic = t,
                            !.decided = conv.decided, !.open = conv.open]
  <2>2. x \in Carried /\ x.op = "choose" /\ x.user = u /\ x.slot = 0 /\ x.answer = 0 /\ x.added = {}
    BY <1>a DEF AllOps
  <2>3. Start(c, "choose", u) /\ Goto(c, "insert") /\ Set(c, r)
    BY <1>3, <2>1 DEF Choose, StartAsMember
  <2> HIDE DEF x
  <2>4. /\ r \in Carried /\ r.op = "choose" /\ r.user = u /\ r.slot = 0 /\ r.answer = 0
        /\ r.added = {} /\ r.topic # None /\ r.author \in User
    BY <1>0, <2>2, ThreadAssumption DEF Carried
  <2> HIDE DEF r
  <2>5. QED
    BY <2>3, <2>4, Begins DEF AllOps, Steps
<1>4. CASE Open(c, u)
  <2> DEFINE r == [a("open") EXCEPT !.listed = Committed]
  <2>2. r \in Carried /\ r.op = "open" /\ r.user = u /\ r.slot = 0 /\ r.answer = 0 /\ r.added = {}
    BY <1>0, <1>a DEF Carried, AllOps
  <2>3. Start(c, "open", u) /\ Goto(c, "mark") /\ Set(c, r)
    BY <1>4 DEF Open, StartAsMember, a
  <2> HIDE DEF r
  <2>4. QED
    BY <2>2, <2>3, Begins DEF AllOps, Steps
<1>5. CASE Seen(c, u)
  BY <1>5, <1>a, Begins DEF Seen, StartAsMember, AllOps, Steps, a
<1>6. CASE Add(c, u)
  <2>1. PICK xs \in SUBSET (User \ active) \ {{}} : Set(c, [a("add") EXCEPT !.who = xs])
    BY <1>6 DEF Add, a
  <2> DEFINE r == [a("add") EXCEPT !.who = xs]
  <2>2. r \in Carried /\ r.op = "add" /\ r.user = u /\ r.slot = 0 /\ r.answer = 0 /\ r.added = {}
    BY <1>a DEF Carried, AllOps
  <2>3. Start(c, "add", u) /\ Goto(c, "seat") /\ Set(c, r)
    BY <1>6, <2>1 DEF Add, StartAsMember
  <2> HIDE DEF r
  <2>4. QED
    BY <2>2, <2>3, Begins DEF AllOps, Steps
<1>7. CASE Join(c, u)
  <2> DEFINE r == [a("join") EXCEPT !.who = {u}]
  <2>2. r \in Carried /\ r.op = "join" /\ r.user = u /\ r.slot = 0 /\ r.answer = 0 /\ r.added = {}
    BY <1>a DEF Carried, AllOps
  <2>3. Start(c, "join", u) /\ Goto(c, "seat") /\ Set(c, r)
    BY <1>7 DEF Join, a
  <2> HIDE DEF r
  <2>4. QED
    BY <2>2, <2>3, Begins DEF AllOps, Steps
<1>8. CASE Leave(c, u)
  BY <1>8, <1>a, Begins DEF Leave, StartAsMember, AllOps, Steps, a
<1>9. CASE Update(c, u)
  <2>1. PICK regroup \in BOOLEAN, title \in Titles, titled \in BOOLEAN :
           /\ Set(c, [a("update") EXCEPT !.regroup = regroup, !.title = title, !.titled = titled])
           /\ titled <=> title # "placeholder"
    BY <1>9, <1>0 DEF Update, a, Titles
  <2> DEFINE x == a("update")
             r == [x EXCEPT !.regroup = regroup, !.title = title, !.titled = titled]
  <2>2. x \in Carried /\ x.op = "update" /\ x.user = u /\ x.slot = 0 /\ x.answer = 0 /\ x.added = {}
    BY <1>a DEF AllOps
  <2>3. Start(c, "update", u) /\ Goto(c, "rename") /\ Set(c, r)
    BY <1>9, <2>1 DEF Update, StartAsMember
  <2> HIDE DEF x
  <2>4. /\ r \in Carried /\ r.op = "update" /\ r.user = u /\ r.slot = 0 /\ r.answer = 0
        /\ r.added = {} /\ r.title = title /\ (r.titled <=> titled)
    BY <2>2 DEF Carried
  <2> HIDE DEF r
  <2>5. QED
    BY <2>1, <2>3, <2>4, Begins DEF AllOps, Steps
<1>10. QED
  BY <1>1, <1>2, <1>3, <1>4, <1>5, <1>6, <1>7, <1>8, <1>9 DEF Request

\* A request that ends, or fails without having stamped a line, leaves the
\* timeline alone.
LEMMA FinishQuiet ==
    ASSUME Shape, NEW c \in Call, UNCHANGED timeline, Finish(c)
    PROVE  Shape' /\ Quiet(c)
BY Finishes DEF Quiet, NoCall, Sent, Turning

\* So does one that fails without a line,
LEMMA FailQuiet ==
    ASSUME Shape, NEW c \in Call, UNCHANGED timeline, pc[c] # "idle", Fail(c),
           call[c].op = "send" => call[c].slot = 0
    PROVE  Shape' /\ Quiet(c)
BY Fails DEF Quiet, Sent, Turning

\* a turn that is not taken,
LEMMA NoTurnQuiet ==
    ASSUME Shape, NEW c \in Call, UNCHANGED timeline, pc[c] # "idle", NoTurn(c)
    PROVE  Shape' /\ Quiet(c)
BY FinishQuiet, FailQuiet DEF NoTurn

\* A send goes on to its turn with its line, or ends.
LEMMA TurnQuiet ==
    ASSUME Shape, NEW c \in Call, UNCHANGED timeline, pc[c] \in {"tell", "name"},
           call[c].op = "send", TurnOrFinish(c)
    PROVE  /\ Shape' /\ Quiet(c)
           /\ pc'[c] \in {"turn", "idle"} /\ (call[c].turn => pc'[c] = "turn")
<1>1. CASE call[c].turn
  <2> DEFINE a == Asked("send", call[c].user)
             r == [a EXCEPT !.slot = call[c].slot]
  <2>1. call[c].user \in User /\ call[c].slot \in Nat
    BY DEF Shape, Records, Carried, Fits
  <2>2. a \in Carried /\ a.op = "send" /\ a.user = call[c].user /\ a.answer = 0 /\ a.added = {}
    BY <2>1, AskedIs DEF AllOps
  <2>3. Goto(c, "turn") /\ Set(c, r)
    BY <1>1 DEF TurnOrFinish
  <2> HIDE DEF a
  <2>4. /\ r \in Carried /\ r.op = "send" /\ r.user = call[c].user /\ r.answer = 0
        /\ r.added = {} /\ r.slot = call[c].slot
    BY <2>1, <2>2 DEF Carried
  <2> HIDE DEF r
  <2>5. Fits("turn", r)
    BY <2>1, <2>4 DEF Fits, Turning
  <2>6. Shape' /\ Others(c) /\ pc'[c] = "turn" /\ call'[c] = r
    BY <2>3, <2>4, <2>5, Moves DEF Steps
  <2>7. QED
    BY <2>4, <2>6 DEF Quiet, Sent, Turning
<1>2. CASE ~call[c].turn
  <2>1. Finish(c)
    BY <1>2 DEF TurnOrFinish
  <2>2. QED
    BY <2>1, <1>2, Finishes, FinishQuiet
<1>3. QED
  BY <1>1, <1>2

\* A request that seated people goes on to the next of them, or ends.
LEMMA NextMoves ==
    ASSUME Shape, NEW c \in Call, pc[c] \in {"commit", "tell"},
           call[c].op \in {"add", "join", "choose"}, NextArrival(c)
    PROVE  /\ Shape' /\ Others(c)
           /\ \/ pc'[c] = "insert" /\ call'[c] = call[c] /\ call[c].added # {}
              \/ pc'[c] = "idle" /\ call'[c] = NoCall /\ call[c].added = {}
<1>1. CASE call[c].added # {}
  <2>1. call[c] \in Carried /\ Fits(pc[c], call[c])
    BY DEF Shape, Records
  <2>2. Fits("insert", call[c])
    BY <1>1, <2>1 DEF Fits, Turning
  <2>3. QED
    BY <1>1, <2>2, MovesOn DEF NextArrival, Steps
<1>2. CASE call[c].added = {}
  BY <1>2, Finishes DEF NextArrival
<1>3. QED
  BY <1>1, <1>2

\* and the steps between two arrivals.
LEMMA NextQuiet ==
    ASSUME Shape, NEW c \in Call, UNCHANGED timeline, pc[c] \in {"commit", "tell"},
           call[c].op \in {"add", "join", "choose"}, NextArrival(c)
    PROVE  Shape' /\ Quiet(c)
BY NextMoves DEF Quiet, Sent, Turning, NoCall

\* The thread is finite, and so is every part of it.
LEMMA CountIsNat ==
    ASSUME TypeOK, NEW S \in SUBSET Committed
    PROVE  IsFiniteSet(S) /\ Cardinality(S) \in Nat
<1>1. Len(timeline) \in Nat
  BY DEF TypeOK
<1>2. IsFiniteSet(1..Len(timeline))
  BY <1>1, FS_Interval
<1>3. S \subseteq 1..Len(timeline)
  BY DEF Committed
<1>4. QED
  BY <1>2, <1>3, FS_Subset, FS_CardinalityType

\* The last answer is a committed line of Chaos that no other comes after.
LEMMA LastChaosIs ==
    ASSUME TypeOK, HasLast
    PROVE  /\ LastChaos \in 0..Len(timeline)
           /\ LastChaos # 0 => LastChaos \in Spoken("chaos")
           /\ \A j \in Spoken("chaos") : j <= LastChaos
<1>1. CASE Spoken("chaos") = {}
  BY <1>1 DEF LastChaos, TypeOK
<1>2. CASE Spoken("chaos") # {}
  <2>1. \E i \in Spoken("chaos") : \A j \in Spoken("chaos") : j <= i
    BY <1>2 DEF HasLast
  <2>2. LastChaos \in Spoken("chaos") /\ \A j \in Spoken("chaos") : j <= LastChaos
    BY <1>2, <2>1 DEF LastChaos
  <2>3. Spoken("chaos") \subseteq 1..Len(timeline) /\ Len(timeline) \in Nat
    BY DEF Spoken, Committed, TypeOK
  <2>4. QED
    BY <2>2, <2>3
<1>3. QED
  BY <1>1, <1>2

Base == TypeOK /\ Shape /\ TitleAgrees /\ HasLast

\* A step of a send or of an ask that touches no line.
SayingStep(c) ==
    \/ CountTotal(c) \/ CountSince(c) \/ Tell(c) \/ NameFrom(c) \/ TurnStart(c) \/ TurnFails(c)
    \/ Remember(c) \/ TellAnswer(c) \/ Settle(c)

\* A step of another request, or the end of any, that touches no line.
OtherStep(c) ==
    \/ MarkSeen(c) \/ Seat(c) \/ Unseat(c) \/ Rename(c) \/ SetGroup(c)
    \/ StepFails(c) \/ Return(c) \/ (Abandon(c) /\ pc[c] \notin {"commit", "answer"})

\* A step on the line of the request.
LineStep(c) ==
    \/ Stamp(c) \/ StampAnswer(c)
    \/ CommitLine(c) \/ LoseLine(c)
    \/ CommitAnswer(c) \/ LoseAnswer(c)
    \/ (Abandon(c) /\ pc[c] \in {"commit", "answer"})

\* Every step is of one of the three sorts.
LEMMA StepIs ==
    ASSUME NEW c \in Call, Step(c)
    PROVE  SayingStep(c) \/ OtherStep(c) \/ LineStep(c)
BY DEF Step, SayingStep, OtherStep, LineStep

\* A send or an ask between its lines touches no line.
LEMMA SayingQuiet ==
    ASSUME Base, NEW c \in Call, SayingStep(c)
    PROVE  Shape' /\ Quiet(c)
<1>0. /\ call[c] \in Carried /\ Fits(pc[c], call[c])
      /\ Len(timeline) \in Nat /\ LastChaos \in Nat
      /\ Direct \in BOOLEAN
  BY LastChaosIs, ThreadAssumption DEF Base, Shape, Records, TypeOK
<1>a. TypeOK /\ Shape
  BY DEF Base
<1>1. ASSUME NEW total \in Nat, NEW since \in Nat, pc[c] \in {"total", "since"},
             UNCHANGED timeline, Counted(c, total, since)
      PROVE  Shape' /\ Quiet(c)
  <2> DEFINE x == call[c]
             t == ShouldReply(call[c].line, total, since, Direct)
             r == [x EXCEPT !.line = "plain", !.total = 0, !.last = 0, !.turn = t]
  <2>1. t \in BOOLEAN
    BY <1>0 DEF ShouldReply
  <2>2. Set(c, r) /\ Goto(c, "insert")
    BY <1>1 DEF Counted
  <2>3. /\ x \in Carried /\ x.op = "send" /\ x.user \in User /\ x.author \in User
        /\ x.slot = 0 /\ x.answer = 0 /\ x.added = {}
    BY <1>0, <1>1 DEF Fits, Carried
  <2> HIDE DEF x, t
  <2>4. /\ r \in Carried /\ r.op = "send" /\ r.user = x.user /\ r.author = x.author
        /\ r.slot = 0 /\ r.answer = 0 /\ r.added = {}
    BY <2>1, <2>3 DEF Carried, Lines
  <2> HIDE DEF r
  <2>5. Fits("insert", r)
    BY <2>3, <2>4 DEF Fits, Turning
  <2>6. Shape' /\ Others(c) /\ pc'[c] = "insert" /\ call'[c] = r
    BY <1>a, <2>2, <2>4, <2>5, Moves DEF Steps
  <2>7. QED
    BY <1>1, <2>4, <2>6 DEF Quiet, Sent, Turning
<1>2. CASE CountTotal(c)
  <2> DEFINE total == Cardinality(Committed)
             x == call[c]
             r == [x EXCEPT !.total = total, !.last = LastChaos]
  <2>1. total \in Nat
    BY <1>a, CountIsNat
  <2>2. CASE LastChaos = 0 /\ Counted(c, total, total)
    BY <1>1, <1>2, <2>1, <2>2 DEF CountTotal
  <2>3. CASE Set(c, r) /\ Goto(c, "since")
    <3>1. /\ x \in Carried /\ x.op = "send" /\ x.user \in User /\ x.author \in User
          /\ x.slot = 0 /\ x.answer = 0 /\ x.added = {}
      BY <1>0, <1>2 DEF Fits, Carried, CountTotal
    <3> HIDE DEF x, total
    <3>2. /\ r \in Carried /\ r.op = "send" /\ r.user = x.user /\ r.author = x.author
          /\ r.slot = 0 /\ r.answer = 0 /\ r.added = {}
      BY <1>0, <2>1, <3>1 DEF Carried
    <3> HIDE DEF r
    <3>3. Fits("since", r)
      BY <3>1, <3>2 DEF Fits, Turning
    <3>4. Shape' /\ Others(c) /\ pc'[c] = "since" /\ call'[c] = r
      BY <1>a, <2>3, <3>2, <3>3, Moves DEF Steps
    <3>5. QED
      BY <1>2, <3>2, <3>4 DEF Quiet, Sent, Turning, CountTotal
  <2>4. QED
    BY <1>2, <2>2, <2>3 DEF CountTotal
<1>3. CASE CountSince(c)
  <2>1. Cardinality({i \in Committed : i > call[c].last}) \in Nat
    BY <1>a, CountIsNat
  <2>2. call[c].total \in Nat
    BY <1>0 DEF Carried
  <2>3. QED
    BY <1>1, <1>3, <2>1, <2>2 DEF CountSince
<1>4. CASE Tell(c)
  <2>1. /\ UNCHANGED timeline /\ pc[c] = "tell"
        /\ call[c].op \in {"send", "choose", "add", "join"}
    BY <1>0, <1>4 DEF Tell, Fits
  <2>2. CASE Goto(c, "name") /\ UNCHANGED call /\ call[c].op = "send"
    <3>1. Fits("name", call[c])
      BY <1>0, <2>1, <2>2 DEF Fits, Turning
    <3>2. Shape' /\ Others(c) /\ pc'[c] = "name" /\ call'[c] = call[c]
      BY <1>a, <2>2, <3>1, MovesOn DEF Steps
    <3>3. QED
      BY <2>1, <2>2, <3>2 DEF Quiet, Sent, Turning
  <2>3. CASE TurnOrFinish(c) /\ call[c].op = "send"
    BY <1>a, <2>1, <2>3, TurnQuiet
  <2>4. CASE NextArrival(c) /\ call[c].op # "send"
    BY <1>a, <2>1, <2>4, NextQuiet
  <2>5. QED
    BY <1>4, <2>2, <2>3, <2>4 DEF Tell
<1>5. CASE NameFrom(c)
  BY <1>0, <1>a, <1>5, TurnQuiet DEF NameFrom, Fits
<1>6. CASE TurnStart(c)
  <2>1. Fits("think", call[c])
    BY <1>0, <1>6 DEF Fits, Turning, TurnStart
  <2>2. Shape' /\ Others(c) /\ pc'[c] = "think" /\ call'[c] = call[c]
    BY <1>a, <1>6, <2>1, MovesOn DEF Steps, TurnStart
  <2>3. QED
    BY <1>6, <2>2 DEF Quiet, Sent, Turning, TurnStart
<1>7. CASE TurnFails(c)
  BY <1>a, <1>7, NoTurnQuiet DEF TurnFails
<1>8. CASE Remember(c)
  <2>1. Fits("tellAnswer", call[c])
    BY <1>0, <1>8 DEF Fits, Turning, Remember
  <2>2. Shape' /\ Others(c) /\ pc'[c] = "tellAnswer" /\ call'[c] = call[c]
    BY <1>a, <1>8, <2>1, MovesOn DEF Steps, Remember
  <2>3. QED
    BY <1>8, <2>2 DEF Quiet, Sent, Turning, Remember
<1>9. CASE TellAnswer(c)
  BY <1>a, <1>9, FinishQuiet DEF TellAnswer
<1>10. CASE Settle(c)
  <2>1. Fits("tell", call[c]) /\ call[c].op = "choose"
    BY <1>0, <1>10 DEF Fits, Turning, Settle
  <2>2. Shape' /\ Others(c) /\ pc'[c] = "tell" /\ call'[c] = call[c]
    BY <1>a, <1>10, <2>1, MovesOn DEF Steps, Settle
  <2>3. QED
    BY <1>10, <2>1, <2>2 DEF Quiet, Sent, Turning, Settle
<1>11. QED
  BY <1>2, <1>3, <1>4, <1>5, <1>6, <1>7, <1>8, <1>9, <1>10 DEF SayingStep

\* Nor does a step of a request without lines.
LEMMA OtherQuiet ==
    ASSUME Base, NEW c \in Call, OtherStep(c)
    PROVE  Shape' /\ Quiet(c)
<1>0. call[c] \in Carried /\ Fits(pc[c], call[c])
  BY DEF Base, Shape, Records
<1>a. TypeOK /\ Shape
  BY DEF Base
<1>1. CASE MarkSeen(c)
  BY <1>a, <1>1, FinishQuiet DEF MarkSeen
<1>2. CASE Seat(c)
  <2>1. PICK p \in call[c].who :
           /\ Set(c, [call[c] EXCEPT !.who = @ \ {p}, !.added = @ \cup {p}])
           /\ Goto(c, IF call[c].who = {p} THEN "insert" ELSE "seat")
    BY <1>2 DEF Seat
  <2> DEFINE x == call[c]
             s == IF call[c].who = {p} THEN "insert" ELSE "seat"
             r == [x EXCEPT !.who = @ \ {p}, !.added = @ \cup {p}]
  <2>2. /\ x \in Carried /\ x.op \in {"add", "join"} /\ x.user \in User /\ x.answer = 0
        /\ p \in User
    BY <1>0, <1>2 DEF Fits, Carried, Seat
  <2>3. Set(c, r) /\ Goto(c, s) /\ s \in {"insert", "seat"}
    BY <2>1
  <2> HIDE DEF x, s
  <2>4. r \in Carried /\ r.op = x.op /\ r.user = x.user /\ r.slot = x.slot /\ r.answer = 0
    BY <2>2 DEF Carried
  <2> HIDE DEF r
  <2>5. Fits(s, r)
    BY <2>2, <2>3, <2>4 DEF Fits, Turning
  <2>6. Shape' /\ Others(c) /\ pc'[c] = s /\ call'[c] = r
    BY <1>a, <2>3, <2>4, <2>5, Moves DEF Steps
  <2>7. QED
    BY <1>2, <2>2, <2>3, <2>4, <2>6 DEF Quiet, Sent, Turning, Seat, x
<1>3. CASE Unseat(c)
  BY <1>a, <1>3, FinishQuiet DEF Unseat
<1>4. CASE Rename(c)
  <2>1. CASE Goto(c, "regroup") /\ UNCHANGED call
    <3>1. Fits("regroup", call[c]) /\ call[c].op = "update"
      BY <1>0, <1>4 DEF Fits, Turning, Rename
    <3>2. Shape' /\ Others(c) /\ pc'[c] = "regroup" /\ call'[c] = call[c]
      BY <1>a, <2>1, <3>1, MovesOn DEF Steps
    <3>3. QED
      BY <1>4, <3>1, <3>2 DEF Quiet, Sent, Turning, Rename
  <2>2. CASE Finish(c)
    BY <1>a, <1>4, <2>2, FinishQuiet DEF Rename
  <2>3. QED
    BY <1>4, <2>1, <2>2 DEF Rename
<1>5. CASE SetGroup(c)
  BY <1>a, <1>5, FinishQuiet DEF SetGroup
<1>6. CASE StepFails(c)
  <2>1. call[c].op = "send" => call[c].slot = 0
    BY <1>0, <1>6 DEF StepFails, Fits
  <2>2. QED
    BY <1>a, <1>6, <2>1, FailQuiet DEF StepFails
<1>7. CASE Return(c)
  BY <1>a, <1>7, FinishQuiet DEF Return
<1>8. CASE Abandon(c) /\ pc[c] \notin {"commit", "answer"}
  BY <1>a, <1>8, FinishQuiet DEF Abandon
<1>9. QED
  BY <1>1, <1>2, <1>3, <1>4, <1>5, <1>6, <1>7, <1>8 DEF OtherStep

-----------------------------------------------------------------------------
(* Steps on a line                                                          *)

States == {"pending", "in", "lost"}

\* A stamp draws the next position and changes no line.
LEMMA Appended ==
    ASSUME TypeOK, NEW e \in Slot, timeline' = Append(timeline, e)
    PROVE  /\ timeline' \in Seq(Slot) /\ Len(timeline') = Len(timeline) + 1
           /\ timeline'[Len(timeline) + 1] = e
           /\ \A i \in 1..Len(timeline) : timeline'[i] = timeline[i]
BY DEF TypeOK

\* A commit or a rollback changes the state of one line, and nothing else of it.
LEMMA Marked ==
    ASSUME TypeOK, NEW i \in 1..Len(timeline), NEW st \in States, Mark(i, st)
    PROVE  /\ timeline' \in Seq(Slot) /\ Len(timeline') = Len(timeline)
           /\ timeline'[i].state = st
           /\ timeline'[i].kind = timeline[i].kind /\ timeline'[i].author = timeline[i].author
           /\ \A j \in 1..Len(timeline) : j # i => timeline'[j] = timeline[j]
<1> DEFINE x == timeline[i]
           e == [x EXCEPT !.state = st]
<1>1. timeline \in Seq(Slot) /\ x \in Slot
  BY DEF TypeOK
<1>2. timeline' = [timeline EXCEPT ![i] = e]
  BY DEF Mark
<1> HIDE DEF x
<1>3. e \in Slot /\ e.state = st /\ e.kind = x.kind /\ e.author = x.author
  <2>1. CASE x \in [kind : {"user", "choice"}, author : User, state : States]
    BY <2>1 DEF Slot, States
  <2>2. CASE x \in [kind : {"chaos", "system"}, author : {None}, state : States]
    BY <2>2 DEF Slot, States
  <2>3. QED
    BY <1>1, <2>1, <2>2 DEF Slot, States
<1> HIDE DEF e
<1>4. QED
  BY <1>1, <1>2, <1>3, ExceptSeq DEF x

\* What follows a line that was lost.
AfterLoss(c) ==
    \/ pc'[c] = "idle" /\ call'[c] = NoCall
    \/ /\ pc'[c] = "failed" /\ call'[c].op = call[c].op /\ call'[c].slot = call[c].slot
       /\ call'[c].answer = 0 /\ call'[c].added = {}
    \/ /\ pc'[c] = "insert" /\ call'[c] = call[c] /\ call[c].op \in {"add", "join"}

\* A request stamps a line of its own, or commits or loses the one it stamped.
Stamps(c) ==
    /\ \E e \in Slot : e.state = "pending" /\ timeline' = Append(timeline, e)
    /\ \/ /\ pc[c] = "insert" /\ pc'[c] = "commit"
          /\ call'[c].slot = Len(timeline) + 1 /\ call'[c].answer = 0
          /\ call'[c].op = call[c].op
       \/ /\ pc[c] = "think" /\ pc'[c] = "answer"
          /\ call'[c].answer = Len(timeline) + 1 /\ call'[c].slot = call[c].slot
          /\ call'[c].op = call[c].op

Commits(c) ==
    \/ /\ pc[c] = "commit" /\ Mark(call[c].slot, "in")
       /\ pc'[c] \in {"settle", "tell"} /\ call'[c] = call[c]
    \/ /\ pc[c] = "answer" /\ Mark(call[c].answer, "in")
       /\ pc'[c] = "remember" /\ call'[c] = call[c]

Loses(c) ==
    \/ pc[c] = "commit" /\ Mark(call[c].slot, "lost") /\ AfterLoss(c)
    \/ /\ pc[c] = "answer" /\ Mark(call[c].answer, "lost") /\ AfterLoss(c)
       /\ pc'[c] = "failed" => call[c].op = "ask"

\* A step on a line is one of the three things that can happen to it.
LEMMA LineMoves ==
    ASSUME Base, NEW c \in Call, LineStep(c)
    PROVE  /\ Shape' /\ Others(c)
           /\ Stamps(c) \/ Commits(c) \/ Loses(c)
<1>0. /\ call[c] \in Carried /\ Fits(pc[c], call[c]) /\ TypeOK /\ Shape
      /\ Len(timeline) \in Nat
  BY DEF Base, Shape, Records, TypeOK
<1>1. CASE Stamp(c)
  <2> DEFINE n == Len(timeline) + 1
             x == call[c]
  <2>1. /\ x \in Carried /\ x.op \in {"send", "choose", "add", "join"} /\ x.user \in User
        /\ x.answer = 0 /\ n \in Nat /\ n # 0
        /\ x.added # {} => x.op \in {"add", "join"}
        /\ x.op = "choose" => x.topic # None
    <3>1. pc[c] = "insert"
      BY <1>1 DEF Stamp
    <3>2. n \in Nat /\ n # 0
      BY <1>0
    <3> HIDE DEF n
    <3>3. QED
      BY <1>0, <3>1, <3>2 DEF Fits
  <2>2. CASE /\ call[c].op \in {"send", "choose"}
             /\ timeline' = Append(timeline,
                   [kind |-> IF call[c].op = "choose" THEN "choice" ELSE "user",
                    author |-> call[c].author, state |-> "pending"])
             /\ Set(c, [call[c] EXCEPT !.slot = Len(timeline) + 1, !.author = None])
    <3> DEFINE r == [x EXCEPT !.slot = n, !.author = None]
               k == IF call[c].op = "choose" THEN "choice" ELSE "user"
               e == [kind |-> k, author |-> call[c].author, state |-> "pending"]
    <3>1. Set(c, r) /\ Goto(c, "commit") /\ timeline' = Append(timeline, e)
      BY <1>1, <2>2 DEF Stamp
    <3>2. e \in Slot
      <4>1. call[c].author \in User
        BY <1>0, <1>1, <2>2 DEF Fits, Stamp
      <4>2. k \in {"user", "choice"}
        OBVIOUS
      <4> HIDE DEF k
      <4>3. QED
        BY <4>1, <4>2 DEF Slot
    <3> HIDE DEF x, n, k
    <3>3. /\ r \in Carried /\ r.op = x.op /\ r.user = x.user /\ r.slot = n /\ r.answer = 0
          /\ r.added = x.added /\ r.topic = x.topic
      BY <2>1 DEF Carried
    <3> HIDE DEF r
    <3>4. Fits("commit", r)
      BY <2>1, <2>2, <3>3 DEF Fits, Turning, x
    <3>5. Shape' /\ Others(c) /\ pc'[c] = "commit" /\ call'[c] = r
      BY <1>0, <3>1, <3>3, <3>4, Moves DEF Steps
    <3>6. QED
      BY <1>1, <3>1, <3>2, <3>3, <3>5 DEF Stamps, Stamp, x, n
  <2>3. ASSUME NEW p \in call[c].added,
               timeline' = Append(timeline, [kind |-> "system", author |-> None,
                                             state |-> "pending"]),
               Set(c, [call[c] EXCEPT !.slot = Len(timeline) + 1, !.subject = p,
                                      !.added = @ \ {p}])
        PROVE  Shape' /\ Others(c) /\ Stamps(c)
    <3> DEFINE r == [x EXCEPT !.slot = n, !.subject = p, !.added = @ \ {p}]
               e == [kind |-> "system", author |-> None, state |-> "pending"]
    <3>1. Set(c, r) /\ Goto(c, "commit") /\ timeline' = Append(timeline, e)
      BY <1>1, <2>3 DEF Stamp
    <3>2. e \in Slot
      BY DEF Slot
    <3>a. p \in User /\ p # None /\ x.op \in {"add", "join"} /\ x.op # "send"
      BY <2>1, <2>3, ThreadAssumption DEF Carried
    <3> HIDE DEF x, n
    <3>3. /\ r \in Carried /\ r.op = x.op /\ r.user = x.user /\ r.slot = n /\ r.answer = 0
          /\ r.subject = p
      BY <2>1, <3>a DEF Carried
    <3> HIDE DEF r
    <3>4. Fits("commit", r)
      BY <2>1, <3>3, <3>a DEF Fits, Turning
    <3>5. Shape' /\ Others(c) /\ pc'[c] = "commit" /\ call'[c] = r
      BY <1>0, <3>1, <3>3, <3>4, Moves DEF Steps
    <3>6. QED
      BY <1>1, <3>1, <3>2, <3>3, <3>5 DEF Stamps, Stamp, x, n
  <2>4. QED
    BY <1>1, <2>2, <2>3 DEF Stamp
<1>2. CASE StampAnswer(c)
  <2> DEFINE n == Len(timeline) + 1
             x == call[c]
             r == [x EXCEPT !.answer = n]
             e == [kind |-> "chaos", author |-> None, state |-> "pending"]
  <2>1. /\ x \in Carried /\ x.op \in {"send", "ask"} /\ x.user \in User /\ x.added = {}
        /\ x.slot \in 0..Len(timeline)
        /\ x.op = "ask" => x.slot = 0
    BY <1>0, <1>2 DEF Fits, StampAnswer, Turning, TypeOK
  <2>2. x.slot < n /\ n \in Nat /\ n # 0
    BY <1>0, <2>1
  <2>3. Set(c, r) /\ Goto(c, "answer") /\ timeline' = Append(timeline, e)
    BY <1>2 DEF StampAnswer
  <2>4. e \in Slot
    BY DEF Slot
  <2> HIDE DEF x, n
  <2>5. /\ r \in Carried /\ r.op = x.op /\ r.user = x.user /\ r.slot = x.slot /\ r.answer = n
        /\ r.added = {}
    BY <2>1, <2>2 DEF Carried
  <2> HIDE DEF r
  <2>6. Fits("answer", r)
    BY <2>1, <2>2, <2>5 DEF Fits, Turning
  <2>7. Shape' /\ Others(c) /\ pc'[c] = "answer" /\ call'[c] = r
    BY <1>0, <2>3, <2>5, <2>6, Moves DEF Steps
  <2>8. QED
    BY <1>2, <2>3, <2>4, <2>5, <2>7 DEF Stamps, StampAnswer, x, n
<1>3. CASE CommitLine(c)
  <2> DEFINE s == IF call[c].op = "choose" THEN "settle" ELSE "tell"
  <2>1. Fits(s, call[c])
    BY <1>0, <1>3 DEF Fits, Turning, CommitLine
  <2>2. Shape' /\ Others(c) /\ pc'[c] = s /\ call'[c] = call[c]
    BY <1>0, <1>3, <2>1, MovesOn DEF Steps, CommitLine
  <2>3. QED
    BY <1>3, <2>2 DEF Commits, CommitLine
<1>4. CASE LoseLine(c)
  <2>1. pc[c] = "commit" /\ Mark(call[c].slot, "lost")
    BY <1>4 DEF LoseLine, Lose
  <2>2. CASE Fail(c)
    BY <1>0, <2>1, <2>2, Fails DEF Loses, AfterLoss
  <2>3. CASE NextArrival(c) /\ call[c].op \in {"add", "join"}
    BY <1>0, <2>1, <2>3, NextMoves DEF Loses, AfterLoss
  <2>4. QED
    BY <1>4, <2>2, <2>3 DEF LoseLine
<1>5. CASE CommitAnswer(c)
  <2>1. Fits("remember", call[c])
    BY <1>0, <1>5 DEF Fits, Turning, CommitAnswer
  <2>2. Shape' /\ Others(c) /\ pc'[c] = "remember" /\ call'[c] = call[c]
    BY <1>0, <1>5, <2>1, MovesOn DEF Steps, CommitAnswer
  <2>3. QED
    BY <1>5, <2>2 DEF Commits, CommitAnswer
<1>6. CASE LoseAnswer(c)
  <2>1. pc[c] = "answer" /\ Mark(call[c].answer, "lost") /\ call[c].op \in {"send", "ask"}
    BY <1>0, <1>6 DEF LoseAnswer, Lose, Fits, Turning
  <2>2. CASE Finish(c)
    BY <1>0, <2>1, <2>2, Finishes DEF Loses, AfterLoss
  <2>3. CASE Fail(c) /\ call[c].op = "ask"
    BY <1>0, <2>1, <2>3, Fails DEF Loses, AfterLoss
  <2>4. QED
    BY <1>6, <2>1, <2>2, <2>3 DEF LoseAnswer, NoTurn
<1>7. CASE Abandon(c) /\ pc[c] \in {"commit", "answer"}
  <2>1. Finish(c)
    BY <1>7 DEF Abandon
  <2>2. \/ pc[c] = "commit" /\ Mark(call[c].slot, "lost")
        \/ pc[c] = "answer" /\ Mark(call[c].answer, "lost")
    BY <1>7 DEF Abandon, Lose
  <2>3. QED
    BY <1>0, <2>1, <2>2, Finishes DEF Loses, AfterLoss
<1>8. QED
  BY <1>1, <1>2, <1>3, <1>4, <1>5, <1>6, <1>7 DEF LineStep

-----------------------------------------------------------------------------
(* Types, and the title                                                     *)

\* A step of the conversation is a request's, on one request.
LEMMA NextIs ==
    ASSUME Next
    PROVE  \E c \in Call : \/ \E u \in User : Request(c, u)
                           \/ SayingStep(c) \/ OtherStep(c) \/ LineStep(c)
BY StepIs DEF Next

\* Every step moves one request, which leaves the timeline alone, stamps a line of
\* its own, or commits or loses the one it stamped.
LEMMA NextMovesOne ==
    ASSUME Base, Next
    PROVE  /\ Shape'
           /\ \E c \in Call : /\ Others(c)
                              /\ Quiet(c) \/ Stamps(c) \/ Commits(c) \/ Loses(c)
<1>1. ASSUME NEW c \in Call, NEW u \in User, Request(c, u)
      PROVE  Shape' /\ Quiet(c)
  BY <1>1, RequestBegins DEF Base
<1>2. QED
  BY <1>1, NextIs, SayingQuiet, OtherQuiet, LineMoves DEF Quiet

\* The line a request is about to commit or lose is one of the thread.
LEMMA LinesAreThere ==
    ASSUME Base, NEW c \in Call
    PROVE  /\ call[c].slot \in 0..Len(timeline) /\ call[c].answer \in 0..Len(timeline)
           /\ pc[c] = "commit" => call[c].slot \in 1..Len(timeline)
           /\ pc[c] = "answer" => call[c].answer \in 1..Len(timeline)
BY DEF Base, TypeOK, Shape, Records, Fits

\* The thread only grows.
LEMMA ThreadGrows ==
    ASSUME Base, Next
    PROVE  timeline' \in Seq(Slot) /\ Len(timeline) <= Len(timeline')
<1>0. TypeOK /\ Len(timeline) \in Nat /\ timeline \in Seq(Slot)
  BY DEF Base, TypeOK
<1>1. PICK c \in Call : Quiet(c) \/ Stamps(c) \/ Commits(c) \/ Loses(c)
  BY NextMovesOne
<1>2. CASE Quiet(c)
  BY <1>0, <1>2 DEF Quiet
<1>3. CASE Stamps(c)
  BY <1>0, <1>3, Appended DEF Stamps
<1>4. CASE Commits(c)
  BY <1>0, <1>4, Marked, LinesAreThere DEF Commits, States
<1>5. CASE Loses(c)
  BY <1>0, <1>5, Marked, LinesAreThere DEF Loses, States
<1>6. QED
  BY <1>1, <1>2, <1>3, <1>4, <1>5

ConvType == [title : Titles, titled : BOOLEAN, decided : SUBSET Topic,
             open : SUBSET Topic, group : BOOLEAN]

\* A step writes title and titled together.
LEMMA ConvStep ==
    ASSUME Base, Next
    PROVE  conv' \in ConvType /\ TitleAgrees'
<1> USE DEF ConvType, TitleAgrees
<1>0. conv \in ConvType /\ TitleAgrees
  BY DEF Base, TypeOK
<1>1. PICK c \in Call : \/ \E u \in User : Request(c, u)
                        \/ SayingStep(c) \/ OtherStep(c) \/ LineStep(c)
  BY NextIs
<1>2. call[c] \in Carried /\ Fits(pc[c], call[c])
  BY DEF Base, Shape, Records
<1>3. CASE UNCHANGED conv
  BY <1>0, <1>3
<1>4. CASE NameFrom(c)
  BY <1>0, <1>4 DEF NameFrom, Titles
<1>5. CASE Remember(c)
  <2>1. ASSUME NEW decided \in SUBSET Topic, NEW open \in SUBSET Topic,
               conv' = [conv EXCEPT !.decided = decided, !.open = open]
        PROVE  conv' \in ConvType /\ TitleAgrees'
    BY <1>0, <2>1
  <2>2. QED
    BY <1>3, <1>5, <2>1 DEF Remember
<1>6. CASE Settle(c)
  <2>1. /\ call[c].topic \in Topic \cup {None} /\ call[c].decided \in SUBSET Topic
        /\ call[c].open \in SUBSET Topic
    BY <1>2 DEF Carried
  <2>2. call[c].topic \in Topic
    BY <1>2, <1>6 DEF Fits, Settle, Carried
  <2> DEFINE decided == call[c].decided \cup {call[c].topic}
             open == call[c].open
  <2>3. decided \in SUBSET Topic /\ open \in SUBSET Topic
    BY <2>1, <2>2
  <2>4. UNCHANGED conv \/ conv' = [conv EXCEPT !.decided = decided, !.open = open]
    BY <1>6 DEF Settle
  <2> HIDE DEF decided, open
  <2>5. QED
    BY <1>0, <1>3, <2>3, <2>4
<1>7. CASE Rename(c)
  <2> DEFINE title == call[c].title
             titled == call[c].titled
  <2>1. /\ title \in Titles /\ titled \in BOOLEAN
        /\ titled <=> title # "placeholder"
    BY <1>2, <1>7 DEF Carried, Fits, Rename
  <2>2. conv' = [conv EXCEPT !.title = title, !.titled = titled]
    BY <1>7 DEF Rename
  <2> HIDE DEF title, titled
  <2>3. QED
    BY <1>0, <2>1, <2>2
<1>8. CASE SetGroup(c)
  BY <1>0, <1>8 DEF SetGroup
<1>9. (\E u \in User : Request(c, u)) => UNCHANGED conv
  BY RequestBegins DEF Base, Begun
<1>10. SayingStep(c) => UNCHANGED conv \/ NameFrom(c) \/ Remember(c) \/ Settle(c)
  BY DEF SayingStep, CountTotal, CountSince, Tell, TurnStart, TurnFails, TellAnswer
<1>11. OtherStep(c) => UNCHANGED conv \/ Rename(c) \/ SetGroup(c)
  BY DEF OtherStep, MarkSeen, Seat, Unseat, StepFails, Return, Abandon
<1>12. LineStep(c) => UNCHANGED conv
  BY DEF LineStep, Stamp, StampAnswer, CommitLine, LoseLine, CommitAnswer, LoseAnswer, Abandon
<1>13. QED
  BY <1>1, <1>3, <1>4, <1>5, <1>6, <1>7, <1>8, <1>9, <1>10, <1>11, <1>12

\* An empty conversation is well typed,
LEMMA TypeInit == Init => Base
<1> SUFFICES ASSUME Init PROVE Base
  OBVIOUS
<1> USE ThreadAssumption
<1>1. TypeOK
  <2>1. NoCall \in Carried /\ DOMAIN NoCall = DOMAIN NoCall
    BY NoCallFits
  <2>2. /\ conv \in ConvType /\ active \in SUBSET User /\ seen \in [User -> 0..Len(timeline)]
        /\ timeline \in Seq(Slot) /\ activity \in 0..Len(timeline) /\ pc \in [Call -> Steps]
        /\ behind \in SUBSET User /\ unannounced \in SUBSET User
        /\ faults \in SUBSET {"turn", "tell", "announce"}
    BY DEF Init, InitWith, ConvType, Titles, Steps
  <2>3. \A c \in Call : pc[c] = "idle" /\ call[c] = NoCall
    BY DEF Init, InitWith
  <2>4. QED
    BY <2>1, <2>2, <2>3 DEF TypeOK, ConvType, Idle, NoCall
<1>2. Shape
  BY NoCallFits DEF Init, InitWith, Shape, Records, Steps
<1>3. TitleAgrees
  BY DEF Init, InitWith, TitleAgrees
<1>4. HasLast
  BY DEF Init, InitWith, HasLast, Spoken, Committed
<1>5. QED
  BY <1>1, <1>2, <1>3, <1>4 DEF Base

\* and stays so.
LEMMA TypeStep ==
    ASSUME Base, Next
    PROVE  TypeOK'
<1>0. /\ TypeOK /\ Len(timeline) \in Nat /\ active \in SUBSET User
      /\ behind \in SUBSET User /\ unannounced \in SUBSET User
      /\ faults \in SUBSET {"turn", "tell", "announce"}
      /\ seen \in [User -> 0..Len(timeline)] /\ activity \in 0..Len(timeline)
  BY DEF Base, TypeOK
<1>1. timeline' \in Seq(Slot) /\ Len(timeline) <= Len(timeline') /\ Len(timeline') \in Nat
  BY ThreadGrows
<1>2. PICK c \in Call : \/ \E u \in User : Request(c, u)
                        \/ SayingStep(c) \/ OtherStep(c) \/ LineStep(c)
  BY NextIs
<1>3. call[c] \in Carried /\ Fits(pc[c], call[c])
  BY DEF Base, Shape, Records
<1>4. /\ active' \in SUBSET User /\ behind' \in SUBSET User /\ unannounced' \in SUBSET User
      /\ faults' \in SUBSET {"turn", "tell", "announce"}
  <2>1. CASE \E u \in User : Request(c, u)
    BY <1>0, <2>1, RequestBegins DEF Base, Begun, history
  <2>2. CASE SayingStep(c)
    BY <1>0, <2>2 DEF SayingStep, CountTotal, CountSince, Tell, Notify, NameFrom, TurnStart,
       TurnFails, TurnLost, Remember, TellAnswer, Settle, history
  <2>3. CASE OtherStep(c)
    BY <1>0, <1>3, <2>3 DEF OtherStep, MarkSeen, Seat, Unseat, Rename, SetGroup, StepFails, Return,
       Abandon, TurnLost, history, Carried
  <2>4. CASE LineStep(c)
    BY <1>0, <2>4 DEF LineStep, Stamp, StampAnswer, CommitLine, LoseLine, CommitAnswer,
       LoseAnswer, Abandon, TurnLost, history
  <2>5. QED
    BY <1>2, <2>1, <2>2, <2>3, <2>4
<1>5. seen' \in [User -> 0..Len(timeline')] /\ activity' \in 0..Len(timeline')
  <2>1. seen \in [User -> 0..Len(timeline')] /\ activity \in 0..Len(timeline')
    BY <1>0, <1>1
  <2>2. MarkSeen(c) \/ CommitLine(c) \/ CommitAnswer(c) \/ UNCHANGED <<seen, activity>>
    <3>1. (\E u \in User : Request(c, u)) => UNCHANGED <<seen, activity>>
      BY RequestBegins DEF Base, Begun
    <3>2. SayingStep(c) => UNCHANGED <<seen, activity>>
      BY DEF SayingStep, CountTotal, CountSince, Tell, NameFrom, TurnStart, TurnFails, Remember,
         TellAnswer, Settle
    <3>3. OtherStep(c) => MarkSeen(c) \/ UNCHANGED <<seen, activity>>
      BY DEF OtherStep, Seat, Unseat, Rename, SetGroup, StepFails, Return, Abandon
    <3>4. LineStep(c) => CommitLine(c) \/ CommitAnswer(c) \/ UNCHANGED <<seen, activity>>
      BY DEF LineStep, Stamp, StampAnswer, LoseLine, LoseAnswer, Abandon
    <3>5. QED
      BY <1>2, <3>1, <3>2, <3>3, <3>4
  <2>3. CASE MarkSeen(c)
    <3>1. /\ seen' = [seen EXCEPT ![call[c].user] = Len(timeline)] /\ activity' = activity
          /\ Len(timeline) \in 0..Len(timeline')
      BY <1>0, <1>1, <2>3 DEF MarkSeen
    <3>2. QED
      BY <2>1, <3>1
  <2>4. CASE CommitLine(c)
    BY <1>1, <2>1, <2>4, LinesAreThere DEF CommitLine
  <2>5. CASE CommitAnswer(c)
    BY <1>1, <2>1, <2>5, LinesAreThere DEF CommitAnswer
  <2>6. CASE UNCHANGED <<seen, activity>>
    BY <2>1, <2>6
  <2>7. QED
    BY <2>2, <2>3, <2>4, <2>5, <2>6
<1>6. pc' \in [Call -> Steps] /\ \A d \in Call : call'[d] \in Carried /\ Fits(pc'[d], call'[d])
  BY NextMovesOne DEF Shape, Records
<1>7. \A d \in Call : call'[d].slot \in 0..Len(timeline') /\ call'[d].answer \in 0..Len(timeline')
  <2>1. \A d \in Call : call[d].slot \in 0..Len(timeline') /\ call[d].answer \in 0..Len(timeline')
    BY <1>0, <1>1, LinesAreThere
  <2>2. PICK b \in Call : Others(b) /\ (Quiet(b) \/ Stamps(b) \/ Commits(b) \/ Loses(b))
    BY NextMovesOne
  <2>3. call'[b].slot \in 0..Len(timeline') /\ call'[b].answer \in 0..Len(timeline')
    <3>1. CASE Quiet(b)
      BY <1>1, <2>1, <3>1 DEF Quiet
    <3>2. CASE Stamps(b)
      BY <1>0, <1>1, <2>1, <3>2, Appended DEF Stamps
    <3>3. CASE Commits(b)
      BY <2>1, <3>3 DEF Commits
    <3>4. CASE Loses(b)
      BY <1>1, <2>1, <3>4 DEF Loses, AfterLoss, NoCall
    <3>5. QED
      BY <2>2, <3>1, <3>2, <3>3, <3>4
  <2>4. QED
    BY <2>1, <2>2, <2>3 DEF Others
<1>8. \A d \in Call :
        /\ DOMAIN call'[d] = DOMAIN NoCall
        /\ call'[d].op \in AllOps \cup {"none"}
        /\ pc'[d] = "idle" <=> call'[d].op = "none"
        /\ call'[d].author \in User \cup {None} /\ call'[d].subject \in User \cup {None}
  BY <1>6 DEF Carried, Fits, NoCall
<1>9. QED
  BY <1>1, <1>4, <1>5, <1>6, <1>7, <1>8, ConvStep DEF TypeOK, ConvType, Idle

-----------------------------------------------------------------------------
(* The lines of each request                                                *)

\* What one request does to the timeline never touches a line of another.
LEMMA OthersLines ==
    ASSUME Base, Apart, NEW c \in Call, NEW d \in Call, c # d, NEW i \in Lineage(d),
           Quiet(c) \/ Stamps(c) \/ Commits(c) \/ Loses(c)
    PROVE  i \in 1..Len(timeline) /\ timeline'[i] = timeline[i]
<1>0. TypeOK /\ Len(timeline) \in Nat
  BY DEF Base, TypeOK
<1>1. i \in 1..Len(timeline)
  BY <1>0, LinesAreThere DEF Lineage
<1>2. i \notin Lineage(c)
  BY DEF Apart
<1>3. CASE Quiet(c)
  BY <1>1, <1>3 DEF Quiet
<1>4. CASE Stamps(c)
  BY <1>0, <1>1, <1>4, Appended DEF Stamps
<1>5. ASSUME NEW k \in 1..Len(timeline), k \in Lineage(c), NEW st \in States, Mark(k, st)
      PROVE  timeline'[i] = timeline[i]
  BY <1>0, <1>1, <1>2, <1>5, Marked
<1>6. CASE Commits(c)
  BY <1>1, <1>5, <1>6, LinesAreThere DEF Commits, States, Lineage
<1>7. CASE Loses(c)
  BY <1>1, <1>5, <1>7, LinesAreThere DEF Loses, States, Lineage
<1>8. QED
  BY <1>1, <1>3, <1>4, <1>6, <1>7

\* No two requests come to share a line: a stamp draws a position nobody has.
LEMMA ApartStep ==
    ASSUME Base, Apart, Next
    PROVE  Apart'
<1>0. TypeOK /\ Len(timeline) \in Nat
  BY DEF Base, TypeOK
<1>1. PICK c \in Call : Others(c) /\ (Quiet(c) \/ Stamps(c) \/ Commits(c) \/ Loses(c))
  BY NextMovesOne
<1>2. \A d \in Call : d # c => Lineage(d)' = Lineage(d)
  BY <1>1 DEF Others, Lineage
<1>3. Lineage(c)' \subseteq Lineage(c) \cup {Len(timeline) + 1}
  BY <1>1 DEF Quiet, Stamps, Commits, Loses, AfterLoss, NoCall, Lineage
<1>4. \A d \in Call : Len(timeline) + 1 \notin Lineage(d)
  BY <1>0, LinesAreThere DEF Lineage
<1>5. \A d \in Call : d # c => Lineage(d)' \cap Lineage(c)' = {}
  BY <1>2, <1>3, <1>4 DEF Apart
<1>6. \A d, e \in Call : d # e => (Lineage(d) \cap Lineage(e))' = {}
  BY <1>2, <1>5 DEF Apart
<1>7. QED
  BY <1>6 DEF Apart

\* A line in flight stays in the state its request's step says.
LEMMA PostedStep ==
    ASSUME Base, Apart, Posted, Next
    PROVE  Posted'
<1>0. TypeOK /\ Len(timeline) \in Nat
  BY DEF Base, TypeOK
<1>1. PICK c \in Call : Others(c) /\ (Quiet(c) \/ Stamps(c) \/ Commits(c) \/ Loses(c))
  BY NextMovesOne
<1> DEFINE P(d) ==
        /\ pc[d] = "commit" => timeline[call[d].slot].state = "pending"
        /\ pc[d] = "answer" => timeline[call[d].answer].state = "pending"
        /\ call[d].op = "send" /\ pc[d] \in Sent =>
              call[d].slot # 0 /\ timeline[call[d].slot].state = "in"
        /\ call[d].op = "send" /\ pc[d] = "failed" =>
              call[d].slot = 0 \/ timeline[call[d].slot].state = "lost"
<1>2. ASSUME NEW d \in Call, d # c
      PROVE  P(d)'
  <2>1. pc'[d] = pc[d] /\ call'[d] = call[d]
    BY <1>1, <1>2 DEF Others
  <2>2. \A i \in Lineage(d) : timeline'[i] = timeline[i]
    BY <1>1, <1>2, OthersLines
  <2>3. /\ P(d)
        /\ pc[d] = "commit" => call[d].slot # 0
        /\ pc[d] = "answer" => call[d].answer # 0
    BY DEF Posted, Base, Shape, Records, Fits
  <2>4. QED
    BY <2>1, <2>2, <2>3 DEF Lineage
<1>3. P(c)'
  <2>0. /\ P(c) /\ call[c] \in Carried /\ Fits(pc[c], call[c])
        /\ call[c].slot \in 0..Len(timeline) /\ call[c].answer \in 0..Len(timeline)
    BY LinesAreThere DEF Posted, Base, Shape, Records
  <2>1. CASE Quiet(c)
    BY <2>0, <2>1 DEF Quiet
  <2>2. CASE Stamps(c)
    <3>1. PICK e \in Slot : e.state = "pending" /\ timeline' = Append(timeline, e)
      BY <2>2 DEF Stamps
    <3>2. /\ timeline'[Len(timeline) + 1].state = "pending"
          /\ \A i \in 1..Len(timeline) : timeline'[i] = timeline[i]
      BY <1>0, <3>1, Appended
    <3>3. CASE pc[c] = "insert"
      BY <2>2, <3>2, <3>3 DEF Stamps, Sent, Turning
    <3>4. CASE pc[c] = "think"
      BY <1>0, <2>0, <2>2, <3>2, <3>4 DEF Stamps, Sent, Turning
    <3>5. QED
      BY <2>2, <3>3, <3>4 DEF Stamps
  <2>3. CASE Commits(c)
    <3>1. CASE pc[c] = "commit"
      <4>1. timeline'[call[c].slot].state = "in" /\ call[c].slot # 0
        BY <1>0, <2>0, <2>3, <3>1, Marked, LinesAreThere DEF Commits, States
      <4>2. QED
        BY <2>3, <3>1, <4>1 DEF Commits, Sent, Turning
    <3>2. CASE pc[c] = "answer"
      <4>1. \A j \in 1..Len(timeline) : j # call[c].answer => timeline'[j] = timeline[j]
        BY <1>0, <2>3, <3>2, Marked, LinesAreThere DEF Commits, States
      <4>2. call[c].op = "send" => call[c].slot < call[c].answer /\ call[c].slot # 0
        BY <2>0, <3>2 DEF Fits, Sent, Turning
      <4>3. QED
        BY <1>0, <2>0, <2>3, <3>2, <4>1, <4>2 DEF Commits, Sent, Turning
    <3>3. QED
      BY <2>3, <3>1, <3>2 DEF Commits
  <2>4. CASE Loses(c)
    <3>1. CASE pc[c] = "commit"
      <4>1. timeline'[call[c].slot].state = "lost"
        BY <1>0, <2>4, <3>1, Marked, LinesAreThere DEF Loses, States
      <4>2. QED
        BY <2>4, <3>1, <4>1 DEF Loses, AfterLoss, NoCall, Sent, Turning
    <3>2. CASE pc[c] = "answer"
      BY <2>0, <2>4, <3>2 DEF Loses, AfterLoss, NoCall, Sent, Turning, Fits
    <3>3. QED
      BY <2>4, <3>1, <3>2 DEF Loses
  <2>5. QED
    BY <1>1, <2>1, <2>2, <2>3, <2>4
<1>4. QED
  BY <1>2, <1>3 DEF Posted

\* A commit adds its line to what was committed; nothing else does, and nothing
\* that was committed changes.
LEMMA CommittedStep ==
    ASSUME Base, Posted, NEW c \in Call, Quiet(c) \/ Stamps(c) \/ Commits(c) \/ Loses(c)
    PROVE  /\ \A i \in Committed : i \in 1..Len(timeline) /\ timeline'[i] = timeline[i]
           /\ ~Commits(c) => Committed' = Committed
           /\ Commits(c) /\ pc[c] = "commit" => Committed' = Committed \cup {call[c].slot}
           /\ Commits(c) /\ pc[c] = "answer" => Committed' = Committed \cup {call[c].answer}
<1>0. TypeOK /\ Len(timeline) \in Nat
  BY DEF Base, TypeOK
<1>a. \A i \in Committed : i \in 1..Len(timeline) /\ timeline[i].state = "in"
  BY DEF Committed
<1>1. ASSUME NEW k \in 1..Len(timeline), NEW st \in States, Mark(k, st),
             timeline[k].state = "pending"
      PROVE  /\ \A i \in Committed : timeline'[i] = timeline[i]
             /\ st = "in" => Committed' = Committed \cup {k}
             /\ st # "in" => Committed' = Committed
  <2>1. /\ Len(timeline') = Len(timeline) /\ timeline'[k].state = st
        /\ \A j \in 1..Len(timeline) : j # k => timeline'[j] = timeline[j]
    BY <1>0, <1>1, Marked
  <2>2. k \notin Committed
    BY <1>1 DEF Committed
  <2>3. QED
    BY <1>a, <2>1, <2>2 DEF Committed
<1>2. CASE Quiet(c)
  <2>1. ~Commits(c)
    BY <1>0, <1>2, Marked, LinesAreThere DEF Quiet, Commits, States, Posted
  <2>2. QED
    BY <1>a, <1>2, <2>1 DEF Quiet, Committed
<1>3. CASE Stamps(c)
  <2>1. PICK e \in Slot : e.state = "pending" /\ timeline' = Append(timeline, e)
    BY <1>3 DEF Stamps
  <2>2. /\ timeline'[Len(timeline) + 1].state = "pending" /\ Len(timeline') = Len(timeline) + 1
        /\ \A i \in 1..Len(timeline) : timeline'[i] = timeline[i]
    BY <1>0, <2>1, Appended
  <2>3. Committed' = Committed
    BY <1>0, <2>2 DEF Committed
  <2>4. ~Commits(c)
    BY <1>3 DEF Stamps, Commits
  <2>5. QED
    BY <1>a, <2>2, <2>3, <2>4
<1>4. CASE Commits(c)
  BY <1>a, <1>1, <1>4, LinesAreThere DEF Commits, States, Posted
<1>5. CASE Loses(c)
  <2>1. ~Commits(c)
    BY <1>5 DEF Loses, Commits, AfterLoss
  <2>2. QED
    BY <1>a, <1>1, <1>5, <2>1, LinesAreThere DEF Loses, States, Posted
<1>6. QED
  BY <1>2, <1>3, <1>4, <1>5

\* A commit or a rollback leaves Chaos a last line, if it has any.
LEMMA HasLastStep ==
    ASSUME Base, Posted, Next
    PROVE  HasLast'
<1>1. PICK c \in Call : Quiet(c) \/ Stamps(c) \/ Commits(c) \/ Loses(c)
  BY NextMovesOne
<1>2. /\ \A i \in Committed : i \in 1..Len(timeline) /\ timeline'[i] = timeline[i]
      /\ Committed' = Committed \/ \E k \in 1..Len(timeline) : Committed' = Committed \cup {k}
  BY <1>1, CommittedStep, LinesAreThere DEF Commits
<1> DEFINE S == Spoken("chaos")
<1>3. \/ S' = S
      \/ \E k \in 1..Len(timeline) : S' = S \cup {k}
  BY <1>2 DEF Spoken
<1>4. S \subseteq 1..Len(timeline) /\ Len(timeline) \in Nat
  BY DEF Spoken, Committed, Base, TypeOK
<1>5. S # {} => \E i \in S : \A j \in S : j <= i
  BY DEF Base, HasLast
<1> HIDE DEF S
<1>6. S' # {} => \E i \in S' : \A j \in S' : j <= i
  <2>1. ASSUME NEW k \in 1..Len(timeline), S' = S \cup {k}, S # {}
        PROVE  \E i \in S' : \A j \in S' : j <= i
    <3>1. PICK i \in S : \A j \in S : j <= i
      BY <1>5, <2>1
    <3>2. CASE k <= i
      BY <2>1, <3>1, <3>2
    <3>3. CASE i < k
      BY <1>4, <2>1, <3>1, <3>3
    <3>4. QED
      BY <1>4, <3>2, <3>3
  <2>2. ASSUME NEW k \in 1..Len(timeline), S' = S \cup {k}, S = {}
        PROVE  \E i \in S' : \A j \in S' : j <= i
    BY <2>2
  <2>3. QED
    BY <1>3, <1>5, <2>1, <2>2
<1>7. QED
  BY <1>6 DEF HasLast, S

-----------------------------------------------------------------------------
(* The inductive invariant                                                  *)

IInv == Base /\ Apart /\ Posted

\* It holds at first,
LEMMA IInvInit == Init => IInv
BY TypeInit DEF IInv, Init, InitWith, Apart, Lineage, Posted, NoCall

\* after every step,
LEMMA IInvNext == IInv /\ Next => IInv'
BY NextMovesOne, TypeStep, ConvStep, HasLastStep, ApartStep, PostedStep DEF IInv, Base

\* after a stutter,
LEMMA IInvStep == IInv /\ [Next]_vars => IInv'
<1>1. ASSUME IInv, UNCHANGED vars
      PROVE  IInv'
  BY <1>1 DEF IInv, Base, TypeOK, Shape, Records, TitleAgrees, HasLast, Spoken, Committed,
     Apart, Lineage, Posted, Idle, vars
<1>2. QED
  BY <1>1, IInvNext

\* and so always.
LEMMA IInvHolds == Spec => []IInv
BY IInvInit, IInvStep, PTL DEF Spec

\* Every variable, and every field a request carries, keeps its type.
THEOREM TypeCorrect == Spec => []TypeOK
<1>1. IInv => TypeOK
  BY DEF IInv, Base
<1>2. QED
  BY IInvHolds, <1>1, PTL

\* While a send waits for Chaos its line is committed and sorts above the answer,
\* and a send that answers with an error has left no line behind (Send, chaosTurn,
\* InsertMessage), whatever the other requests do to the thread meanwhile.
THEOREM SendKeepsItsLine == Spec => []SendContract
<1>1. IInv => SendContract
  BY DEF IInv, Base, Posted, Sent, Turning, Shape, Records, Fits, SendContract
<1>2. QED
  BY IInvHolds, <1>1, PTL

\* However naming, renaming and regrouping overlap, the conversation is marked as
\* named exactly while its title is not the placeholder.
THEOREM TitleIsHonest == Spec => []TitleAgrees
<1>1. IInv => TitleAgrees
  BY DEF IInv, Base
<1>2. QED
  BY IInvHolds, <1>1, PTL

\* Once the cursor has moved nothing the response listed is counted as unread,
\* though lines are stamped and committed between the list and the cursor.
THEOREM OpeningReads == Spec => ListedIsRead
<1>1. IInv /\ [Next]_vars =>
        [\A c \in Call, u \in User :
            (MarkSeen(c) /\ call[c].user = u) => call[c].listed \cap Unread(u)' = {}]_vars
  <2> SUFFICES ASSUME IInv, NEW c \in Call, NEW u \in User, MarkSeen(c), call[c].user = u
               PROVE  call[c].listed \cap Unread(u)' = {}
    OBVIOUS
  <2>1. seen \in [User -> 0..Len(timeline)] /\ Len(timeline) \in Nat
    BY DEF IInv, Base, TypeOK
  <2>2. seen'[u] = Len(timeline) /\ timeline' = timeline
    BY <2>1 DEF MarkSeen
  <2>3. Unread(u)' = {}
    BY <2>1, <2>2 DEF Unread, Committed
  <2>4. QED
    BY <2>3
<1>2. QED
  BY IInvHolds, <1>1, PTL DEF Spec, ListedIsRead

-----------------------------------------------------------------------------
(* Telling the members, and announcing who came                             *)

\* A request that still has to tell the members, or to announce somebody and then
\* tell them.
AtWelcome(c) == pc[c] = "commit" /\ call[c].op \in {"add", "join"}

Telling(c) ==
    \/ pc[c] \in {"settle", "tell", "remember", "tellAnswer"}
    \/ call[c].added # {}
    \/ AtWelcome(c)

\* Whoever has not been told of the last commit will be, or something failed.
BehindIsTold ==
    faults \cap {"tell", "announce"} = {} /\ behind \cap active # {} =>
        \E c \in Call : Telling(c)

\* A request that still has to say that x has joined.
Welcoming(c, x) == x \in call[c].added \/ (AtWelcome(c) /\ call[c].subject = x)

\* Whoever was seated and not announced will be, or the announcement failed.
ArrivalIsComing ==
    "announce" \notin faults =>
        \A x \in unannounced \cap active : \E c \in Call : Welcoming(c, x)

\* What a request at each step is carrying of this.
LEMMA NothingToTell ==
    ASSUME IInv, NEW c \in Call,
           pc[c] \notin {"settle", "tell", "remember", "tellAnswer"},
           \/ pc[c] \notin {"seat", "insert", "commit"}
           \/ call[c].op \notin {"add", "join"}
    PROVE  ~Telling(c) /\ \A x : ~Welcoming(c, x)
BY DEF IInv, Base, Shape, Records, Fits, Telling, Welcoming, AtWelcome

\* A failure is not forgotten.
LEMMA FaultsStay == ASSUME Next PROVE faults \subseteq faults'
<1>1. PICK c \in Call : \/ \E u \in User : Request(c, u)
                        \/ SayingStep(c) \/ OtherStep(c) \/ LineStep(c)
  BY NextIs
<1>2. CASE \E u \in User : Request(c, u)
  BY <1>2 DEF Request, Send, Ask, Choose, Open, Seen, Add, Join, Leave, Update, Start, StartAsMember, history
<1>3. CASE SayingStep(c)
  BY <1>3 DEF SayingStep, CountTotal, CountSince, Tell, Notify, NameFrom, TurnStart,
     TurnFails, Remember, TellAnswer, Settle, history
<1>4. CASE OtherStep(c)
  BY <1>4 DEF OtherStep, MarkSeen, Seat, Unseat, Rename, SetGroup, StepFails, Return,
     Abandon, history
<1>5. CASE LineStep(c)
  BY <1>5 DEF LineStep, Stamp, StampAnswer, CommitLine, LoseLine, CommitAnswer,
     LoseAnswer, Abandon, history
<1>6. QED
  BY <1>1, <1>2, <1>3, <1>4, <1>5

\* A request that has people to tell or to announce goes on to do it, does it, or
\* leaves a failure behind; one that has not leaves nobody worse off.
Answers(c) ==
    /\ \/ faults' \cap {"tell", "announce"} # {}
       \/ behind' \cap active' = {}
       \/ Telling(c)'
       \/ behind' \cap active' \subseteq behind \cap active /\ ~Telling(c)
    /\ \/ "announce" \in faults'
       \/ \A x \in unannounced' \cap active' :
             Welcoming(c, x)' \/ (x \in unannounced \cap active /\ ~Welcoming(c, x))

\* A new request leaves nobody behind.
LEMMA RequestAnswers ==
    ASSUME IInv, NEW c \in Call, NEW u \in User, Request(c, u)
    PROVE  Answers(c)
<1>1. Begun(c)
  BY RequestBegins DEF IInv, Base
<1>2. ~Telling(c) /\ \A x : ~Welcoming(c, x)
  BY <1>1, NothingToTell DEF Begun
<1>3. QED
  BY <1>1, <1>2 DEF Begun, Answers, history

\* The record after a step, for the steps that go on with it.
LEMMA Goes ==
    ASSUME IInv, NEW c \in Call, NEW s, Goto(c, s)
    PROVE  pc'[c] = s
BY DEF IInv, Base, Shape, Goto

\* What a step sets is the request's record afterwards.
LEMMA Sets ==
    ASSUME IInv, NEW c \in Call, NEW r, Set(c, r)
    PROVE  call'[c] = r
BY DEF IInv, Base, Shape, Records, Set

\* The steps between the lines of a send or an ask tell the members or leave a
\* failure.
LEMMA SayingAnswers ==
    ASSUME IInv, NEW c \in Call, SayingStep(c)
    PROVE  Answers(c)
<1>0. call[c] \in Carried /\ Fits(pc[c], call[c])
  BY DEF IInv, Base, Shape, Records
<1>1. ASSUME pc[c] \in {"total", "since", "name", "turn", "think"},
             UNCHANGED <<behind, unannounced, active>>
      PROVE  Answers(c)
  <2>1. ~Telling(c) /\ \A x : ~Welcoming(c, x)
    BY <1>1, NothingToTell
  <2>2. QED
    BY <1>1, <2>1 DEF Answers
<1>2. CASE CountTotal(c) \/ CountSince(c) \/ NameFrom(c) \/ TurnStart(c) \/ TurnFails(c)
  BY <1>1, <1>2 DEF CountTotal, CountSince, NameFrom, TurnStart, TurnFails, history
<1>3. ASSUME Notify, UNCHANGED active
      PROVE  faults' \cap {"tell", "announce"} # {} \/ behind' \cap active' = {}
  BY <1>3 DEF Notify
<1>4. CASE Tell(c)
  <2>1. pc[c] = "tell" /\ UNCHANGED <<active, unannounced>>
    BY <1>4 DEF Tell
  <2>2. \A x : Welcoming(c, x) => Welcoming(c, x)'
    <3>1. CASE NextArrival(c) /\ call[c].op # "send"
      <4>0. call[c].op \in {"add", "join", "choose"} /\ Shape
        BY <1>0, <2>1, <3>1 DEF Fits, IInv, Base
      <4>1. call'[c] = call[c] \/ (call'[c] = NoCall /\ call[c].added = {})
        BY <2>1, <3>1, <4>0, NextMoves
      <4>2. call'[c].added = call[c].added
        BY <4>1 DEF NoCall
      <4>3. QED
        BY <2>1, <4>2 DEF Welcoming, AtWelcome
    <3>2. CASE call[c].op = "send"
      BY <1>0, <2>1, <3>2 DEF Welcoming, AtWelcome, Fits
    <3>3. QED
      BY <1>4, <3>1, <3>2 DEF Tell
  <2>3. QED
    BY <1>3, <1>4, <2>1, <2>2 DEF Answers, Tell
<1>5. CASE Remember(c)
  <2>1. pc'[c] = "tellAnswer" /\ UNCHANGED <<active, unannounced>> /\ pc[c] = "remember"
    BY <1>5, Goes DEF Remember, history
  <2>2. \A x : ~Welcoming(c, x)
    BY <1>0, <2>1 DEF Welcoming, AtWelcome, Fits
  <2>3. QED
    BY <2>1, <2>2 DEF Answers, Telling
<1>6. CASE TellAnswer(c)
  <2>1. pc[c] = "tellAnswer" /\ UNCHANGED <<active, unannounced>> /\ Notify
    BY <1>6 DEF TellAnswer
  <2>2. \A x : ~Welcoming(c, x)
    BY <1>0, <2>1 DEF Welcoming, AtWelcome, Fits
  <2>3. QED
    BY <1>3, <2>1, <2>2 DEF Answers
<1>7. CASE Settle(c)
  <2>1. pc'[c] = "tell" /\ UNCHANGED <<active, unannounced>> /\ pc[c] = "settle"
    BY <1>7, Goes DEF Settle, history
  <2>2. \A x : ~Welcoming(c, x)
    BY <1>0, <2>1 DEF Welcoming, AtWelcome, Fits
  <2>3. QED
    BY <2>1, <2>2 DEF Answers, Telling
<1>8. QED
  BY <1>2, <1>4, <1>5, <1>6, <1>7 DEF SayingStep

\* The other requests announce whom they seated or leave a failure.
LEMMA OtherAnswers ==
    ASSUME IInv, NEW c \in Call, OtherStep(c)
    PROVE  Answers(c)
<1>0. call[c] \in Carried /\ Fits(pc[c], call[c])
  BY DEF IInv, Base, Shape, Records
<1>1. ASSUME ~Telling(c) /\ \A x : ~Welcoming(c, x),
             UNCHANGED <<behind, unannounced>>, active' \subseteq active
      PROVE  Answers(c)
  BY <1>1 DEF Answers
<1>2. ASSUME pc[c] \in {"mark", "leave", "rename", "regroup", "failed"},
             UNCHANGED <<behind, unannounced>>, active' \subseteq active
      PROVE  Answers(c)
  BY <1>1, <1>2, NothingToTell
<1>3. CASE MarkSeen(c) \/ Unseat(c) \/ Rename(c) \/ SetGroup(c) \/ Return(c)
  BY <1>2, <1>3 DEF MarkSeen, Unseat, Rename, SetGroup, Return, history
<1>4. CASE Seat(c)
  <2>1. PICK p \in call[c].who :
           /\ active' = active \cup {p} /\ unannounced' = unannounced \cup {p}
           /\ Set(c, [call[c] EXCEPT !.who = @ \ {p}, !.added = @ \cup {p}])
    BY <1>4 DEF Seat
  <2>2. call'[c].added = call[c].added \cup {p}
    BY <1>0, <2>1, Sets DEF Carried
  <2>3. pc[c] = "seat"
    BY <1>4 DEF Seat
  <2>4. Telling(c)'
    BY <2>2 DEF Telling
  <2>5. \A x \in unannounced' \cap active' :
           Welcoming(c, x)' \/ (x \in unannounced \cap active /\ ~Welcoming(c, x))
           \/ (x \in unannounced /\ x \in active)
    BY <2>1, <2>2 DEF Welcoming
  <2>6. \A x : Welcoming(c, x) => Welcoming(c, x)'
    BY <2>2, <2>3 DEF Welcoming, AtWelcome
  <2>7. QED
    BY <2>4, <2>5, <2>6 DEF Answers
<1>5. ASSUME UNCHANGED <<behind, unannounced, active>>,
             Telling(c) => faults' \cap {"tell", "announce"} # {},
             \A x : Welcoming(c, x) => "announce" \in faults'
      PROVE  Answers(c)
  BY <1>5 DEF Answers
<1>6. CASE StepFails(c)
  <2>1. /\ UNCHANGED <<behind, unannounced, active>>
        /\ pc[c] = "settle" => "tell" \in faults'
        /\ call[c].added # {} => "announce" \in faults'
        /\ pc[c] \notin {"commit", "tell", "remember", "tellAnswer"}
    BY <1>6 DEF StepFails
  <2>2. QED
    BY <1>5, <2>1 DEF Telling, Welcoming, AtWelcome
<1>7. CASE Abandon(c) /\ pc[c] \notin {"commit", "answer"}
  <2>1. /\ UNCHANGED <<behind, unannounced, active>>
        /\ pc[c] \in {"settle", "tell", "remember", "tellAnswer"} => "tell" \in faults'
        /\ call[c].added # {} => "announce" \in faults'
    BY <1>7 DEF Abandon
  <2>2. QED
    BY <1>5, <1>7, <2>1 DEF Telling, Welcoming, AtWelcome
<1>8. QED
  BY <1>3, <1>4, <1>6, <1>7 DEF OtherStep

\* Who commits a line goes on to tell of it.
LEMMA LineAnswers ==
    ASSUME IInv, NEW c \in Call, LineStep(c)
    PROVE  Answers(c)
<1>0. call[c] \in Carried /\ Fits(pc[c], call[c])
  BY DEF IInv, Base, Shape, Records
<1>1. ASSUME ~Telling(c) /\ \A x : ~Welcoming(c, x),
             UNCHANGED <<behind, unannounced, active>>
      PROVE  Answers(c)
  BY <1>1 DEF Answers
<1>2. CASE Stamp(c)
  <2>1. UNCHANGED <<behind, unannounced, active>> /\ pc[c] = "insert" /\ pc'[c] = "commit"
    BY <1>2, Goes DEF Stamp, history
  <2>2. CASE call[c].op \in {"send", "choose"}
    BY <1>1, <2>1, <2>2, NothingToTell
  <2>3. ASSUME NEW p \in call[c].added,
               Set(c, [call[c] EXCEPT !.slot = Len(timeline) + 1, !.subject = p,
                                      !.added = @ \ {p}])
        PROVE  Answers(c)
    <3>1. call'[c] = [call[c] EXCEPT !.slot = Len(timeline) + 1, !.subject = p,
                                     !.added = @ \ {p}]
      BY <2>3, Sets
    <3>2. /\ call'[c].subject = p /\ call'[c].added = call[c].added \ {p}
          /\ call'[c].op = call[c].op /\ call[c].op \in {"add", "join"}
      BY <1>0, <2>3, <3>1 DEF Carried, Fits
    <3>3. AtWelcome(c)' /\ Telling(c)'
      BY <2>1, <3>2 DEF AtWelcome, Telling
    <3>4. \A x : Welcoming(c, x) => Welcoming(c, x)'
      BY <2>1, <3>2, <3>3 DEF Welcoming, AtWelcome
    <3>5. QED
      BY <2>1, <3>3, <3>4 DEF Answers
  <2>4. QED
    BY <1>2, <2>2, <2>3 DEF Stamp
<1>3. CASE StampAnswer(c) \/ LoseAnswer(c)
  <2>1. pc[c] \in {"think", "answer"} /\ UNCHANGED <<behind, unannounced, active>>
    BY <1>3 DEF StampAnswer, LoseAnswer, history
  <2>2. QED
    BY <1>1, <2>1, NothingToTell
<1>4. CASE CommitLine(c)
  <2>1. /\ pc[c] = "commit" /\ pc'[c] \in {"settle", "tell"} /\ call'[c] = call[c]
        /\ UNCHANGED active /\ unannounced' = unannounced \ {call[c].subject}
    BY <1>4, Goes DEF CommitLine
  <2>2. QED
    BY <2>1 DEF Answers, Telling, Welcoming
<1>5. CASE LoseLine(c)
  <2>1. UNCHANGED <<behind, unannounced, active>> /\ pc[c] = "commit"
    BY <1>5 DEF LoseLine
  <2>2. CASE call[c].op \in {"send", "choose"}
    BY <1>1, <2>1, <2>2, NothingToTell
  <2>3. CASE "announce" \in faults'
    BY <2>3 DEF Answers
  <2>4. QED
    BY <1>5, <2>2, <2>3 DEF LoseLine
<1>6. CASE CommitAnswer(c)
  <2>1. pc'[c] = "remember" /\ UNCHANGED <<active, unannounced>> /\ pc[c] = "answer"
    BY <1>6, Goes DEF CommitAnswer
  <2>2. \A x : ~Welcoming(c, x)
    BY <1>0, <2>1 DEF Welcoming, AtWelcome, Fits
  <2>3. QED
    BY <2>1, <2>2 DEF Answers, Telling
<1>7. CASE Abandon(c) /\ pc[c] \in {"commit", "answer"}
  <2>1. /\ UNCHANGED <<behind, unannounced, active>>
        /\ call[c].added # {} \/ (pc[c] = "commit" /\ call[c].subject # None) =>
              "announce" \in faults'
    BY <1>7 DEF Abandon
  <2>2. Telling(c) \/ (\E x : Welcoming(c, x)) => "announce" \in faults'
    BY <1>0, <1>7, <2>1 DEF Telling, Welcoming, AtWelcome, Fits
  <2>3. QED
    BY <2>1, <2>2 DEF Answers
<1>8. QED
  BY <1>2, <1>3, <1>4, <1>5, <1>6, <1>7 DEF LineStep

\* So whoever is behind, and whoever came, is still going to hear or be announced.
LEMMA AnswersStep ==
    ASSUME IInv, BehindIsTold, ArrivalIsComing, Next
    PROVE  BehindIsTold' /\ ArrivalIsComing'
<1>1. \E c \in Call : Others(c) /\ Answers(c)
  <2>1. PICK c \in Call : \/ \E u \in User : Request(c, u)
                          \/ SayingStep(c) \/ OtherStep(c) \/ LineStep(c)
    BY NextIs
  <2>2. Others(c)
    BY <2>1, RequestBegins, SayingQuiet, OtherQuiet, LineMoves DEF IInv, Base, Quiet
  <2>3. QED
    BY <2>1, <2>2, RequestAnswers, SayingAnswers, OtherAnswers, LineAnswers
<1>2. PICK c \in Call : Others(c) /\ Answers(c)
  BY <1>1
<1>3. \A d \in Call \ {c} :
         /\ Telling(d)' <=> Telling(d)
         /\ \A x : Welcoming(d, x)' <=> Welcoming(d, x)
  BY <1>2 DEF Others, Telling, Welcoming, AtWelcome
<1>4. BehindIsTold'
  <2> SUFFICES ASSUME faults' \cap {"tell", "announce"} = {}, behind' \cap active' # {}
               PROVE  \E d \in Call : Telling(d)'
    BY DEF BehindIsTold
  <2>1. faults \cap {"tell", "announce"} = {}
    BY FaultsStay
  <2>2. CASE Telling(c)'
    BY <2>2
  <2>3. CASE behind' \cap active' \subseteq behind \cap active /\ ~Telling(c)
    <3>1. PICK d \in Call : Telling(d)
      BY <2>1, <2>3 DEF BehindIsTold
    <3>2. QED
      BY <1>3, <2>3, <3>1
  <2>4. QED
    BY <1>2, <2>2, <2>3 DEF Answers
<1>5. ArrivalIsComing'
  <2> SUFFICES ASSUME "announce" \notin faults', NEW x \in unannounced' \cap active'
               PROVE  \E d \in Call : Welcoming(d, x)'
    BY DEF ArrivalIsComing
  <2>1. "announce" \notin faults
    BY FaultsStay
  <2>2. CASE Welcoming(c, x)'
    BY <2>2
  <2>3. CASE x \in unannounced \cap active /\ ~Welcoming(c, x)
    <3>1. PICK d \in Call : Welcoming(d, x)
      BY <2>1, <2>3 DEF ArrivalIsComing
    <3>2. QED
      BY <1>3, <2>3, <3>1
  <2>4. QED
    BY <1>2, <2>2, <2>3 DEF Answers
<1>6. QED
  BY <1>4, <1>5

AInv == IInv /\ BehindIsTold /\ ArrivalIsComing

\* That is inductive together with what is known of the lines.
LEMMA AInvHolds == Spec => []AInv
<1>1. Init => AInv
  BY IInvInit DEF AInv, Init, InitWith, BehindIsTold, ArrivalIsComing
<1>2. AInv /\ [Next]_vars => AInv'
  <2>1. AInv /\ Next => AInv'
    BY IInvNext, AnswersStep DEF AInv
  <2>2. ASSUME AInv, UNCHANGED vars
        PROVE  AInv'
    <3>1. IInv'
      BY <2>2, IInvStep DEF AInv
    <3>2. BehindIsTold' /\ ArrivalIsComing'
      BY <2>2 DEF AInv, BehindIsTold, ArrivalIsComing, Telling, Welcoming, AtWelcome, vars
    <3>3. QED
      BY <3>1, <3>2 DEF AInv
  <2>3. QED
    BY <2>1, <2>2
<1>3. QED
  BY <1>1, <1>2, PTL DEF Spec

\* With nothing in flight nobody is about to tell or to announce anybody.
LEMMA QuiescentIs ==
    ASSUME IInv, Quiescent, NEW c \in Call
    PROVE  ~Telling(c) /\ \A x : ~Welcoming(c, x)
BY NothingToTell DEF Quiescent, Idle

\* When nothing is in flight everyone in the room has been told after the last
\* commit (notifyMembers after InsertMessage and after SetMemory), unless a
\* request was cut between the two; people who leave and come back included.
THEOREM EveryoneIsTold == Spec => []NobodyLeftBehind
<1>1. AInv => NobodyLeftBehind
  BY QuiescentIs DEF AInv, BehindIsTold, NobodyLeftBehind
<1>2. QED
  BY AInvHolds, <1>1, PTL

\* When nothing is in flight everyone who took a seat has had a "joined" line after
\* taking it (AddMembers, Join, announceArrival), unless that line was lost.
THEOREM EveryoneIsAnnounced == Spec => []ArrivalsAnnounced
<1>1. AInv => ArrivalsAnnounced
  BY QuiescentIs DEF AInv, ArrivalIsComing, ArrivalsAnnounced
<1>2. QED
  BY AInvHolds, <1>1, PTL

-----------------------------------------------------------------------------
(* Lines nobody answered                                                    *)

\* Whose line a request puts into the thread.
Voice(op) == CASE op = "send" -> "user" [] op = "choose" -> "choice" [] OTHER -> "system"

\* A line about to be committed is of its request's kind, an answer is Chaos's.
Voices ==
    \A c \in Call :
        /\ pc[c] = "commit" => timeline[call[c].slot].kind = Voice(call[c].op)
        /\ pc[c] = "answer" => timeline[call[c].answer].kind = "chaos"

\* Between its two statements CountSinceChaos holds a last_at that Chaos can only
\* have gone past.
LastRead == \A c \in Call : pc[c] = "since" => call[c].last <= LastChaos

\* A send whose line is in the thread and has earned a turn that is not over.
Awaited(c) ==
    /\ call[c].op = "send"
    /\ (pc[c] \in {"tell", "name"} /\ call[c].turn) \/ pc[c] \in {"turn", "think", "answer"}

\* The lines typed since Chaos last spoke for which no turn is under way.
Unanswered == {i \in Spoken("user") : /\ i > LastChaos
                                      /\ \A c \in Call : Awaited(c) => call[c].slot # i}

\* The sends that have decided on no turn and not yet committed their line.
Silent == {c \in Call : pc[c] \in {"insert", "commit"} /\ call[c].op = "send" /\ ~call[c].turn}

\* Two lines can stand unanswered; from the third on, each further one was
\* decided by a request that counted before it, and those are all in flight.
FewUnanswered ==
    "turn" \notin faults =>
        \/ Cardinality(Unanswered) <= 2
        \/ Cardinality(Unanswered) + Cardinality(Silent) <= 2 + Cardinality(Call)

SInv == IInv /\ Voices /\ LastRead

\* A line keeps the kind it was stamped with.
LEMMA VoicesStep ==
    ASSUME IInv, Voices, Next
    PROVE  Voices'
<1>0. TypeOK /\ Len(timeline) \in Nat /\ Base /\ Apart
  BY DEF IInv, Base, TypeOK
<1>1. PICK c \in Call : \/ \E u \in User : Request(c, u)
                        \/ SayingStep(c) \/ OtherStep(c) \/ LineStep(c)
  BY NextIs
<1>2. Others(c) /\ (Quiet(c) \/ Stamps(c) \/ Commits(c) \/ Loses(c))
  BY <1>1, RequestBegins, SayingQuiet, OtherQuiet, LineMoves DEF IInv, Base, Quiet
<1>3. ASSUME NEW d \in Call, d # c
      PROVE  /\ pc'[d] = "commit" => timeline'[call'[d].slot].kind = Voice(call'[d].op)
             /\ pc'[d] = "answer" => timeline'[call'[d].answer].kind = "chaos"
  <2>1. pc'[d] = pc[d] /\ call'[d] = call[d]
    BY <1>2, <1>3 DEF Others
  <2>2. \A i \in Lineage(d) : timeline'[i] = timeline[i]
    BY <1>0, <1>2, <1>3, OthersLines
  <2>3. /\ pc[d] = "commit" => call[d].slot \in Lineage(d)
        /\ pc[d] = "answer" => call[d].answer \in Lineage(d)
    BY <1>0 DEF Base, Shape, Records, Fits, Lineage
  <2>4. QED
    BY <2>1, <2>2, <2>3 DEF Voices
<1>4. /\ pc'[c] = "commit" => timeline'[call'[c].slot].kind = Voice(call'[c].op)
      /\ pc'[c] = "answer" => timeline'[call'[c].answer].kind = "chaos"
  <2>1. CASE Quiet(c) \/ Commits(c) \/ Loses(c)
    BY <2>1 DEF Quiet, Commits, Loses, AfterLoss
  <2>2. CASE Stamps(c)
    <3>1. Stamp(c) \/ StampAnswer(c)
      <4>1. \A e \in Slot : timeline' # Append(timeline, e) \/ Len(timeline') = Len(timeline) + 1
        BY <1>0, Appended
      <4>2. Len(timeline') = Len(timeline) + 1
        BY <2>2, <4>1 DEF Stamps
      <4>3. ~Quiet(c)
        BY <1>0, <4>2 DEF Quiet
      <4>4. LineStep(c)
        BY <1>1, <4>3, RequestBegins, SayingQuiet, OtherQuiet DEF IInv, Base
      <4>5. \A i \in 1..Len(timeline), st \in States : ~Mark(i, st)
        BY <1>0, <4>2, Marked
      <4>6. QED
        BY <4>4, <4>5, <1>0, LinesAreThere
           DEF LineStep, CommitLine, LoseLine, CommitAnswer, LoseAnswer, Abandon, Lose, States
    <3>2. CASE StampAnswer(c)
      <4> DEFINE e == [kind |-> "chaos", author |-> None, state |-> "pending"]
      <4>1. e \in Slot /\ e.kind = "chaos"
        BY DEF Slot
      <4>2. timeline' = Append(timeline, e) /\ pc[c] = "think" /\ pc'[c] = "answer"
        BY <3>2, Goes DEF StampAnswer
      <4> HIDE DEF e
      <4>3. timeline'[Len(timeline) + 1].kind = "chaos"
        BY <1>0, <4>1, <4>2, Appended
      <4>4. QED
        BY <2>2, <4>2, <4>3 DEF Stamps
    <3>3. CASE Stamp(c)
      <4>1. pc[c] = "insert" /\ pc'[c] = "commit"
        BY <3>3, Goes DEF Stamp
      <4>2. call'[c].op = call[c].op /\ call'[c].slot = Len(timeline) + 1
        BY <2>2, <4>1 DEF Stamps
      <4>3. ASSUME NEW k, NEW e \in Slot, e.kind = k, timeline' = Append(timeline, e)
            PROVE  timeline'[Len(timeline) + 1].kind = k
        BY <1>0, <4>3, Appended
      <4>4. CASE call[c].op \in {"send", "choose"}
        <5> DEFINE k == IF call[c].op = "choose" THEN "choice" ELSE "user"
                   e == [kind |-> k, author |-> call[c].author, state |-> "pending"]
        <5>1. call[c].added = {} /\ call[c].author \in User
          BY <1>0, <4>1, <4>4 DEF Base, Shape, Records, Fits
        <5>2. timeline' = Append(timeline, e)
          BY <3>3, <5>1 DEF Stamp
        <5>3. k \in {"user", "choice"} /\ k = Voice(call[c].op)
          BY <4>4 DEF Voice
        <5> HIDE DEF k
        <5>4. e \in Slot /\ e.kind = k
          BY <5>1, <5>3 DEF Slot
        <5> HIDE DEF e
        <5>5. timeline'[Len(timeline) + 1].kind = k
          BY <4>3, <5>2, <5>4
        <5>6. QED
          BY <4>1, <4>2, <5>3, <5>5
      <4>5. CASE call[c].op \notin {"send", "choose"}
        <5> DEFINE e == [kind |-> "system", author |-> None, state |-> "pending"]
        <5>1. e \in Slot /\ e.kind = "system"
          BY DEF Slot
        <5>2. timeline' = Append(timeline, e)
          BY <3>3, <4>5 DEF Stamp
        <5> HIDE DEF e
        <5>3. timeline'[Len(timeline) + 1].kind = "system"
          BY <4>3, <5>1, <5>2
        <5>4. QED
          BY <4>1, <4>2, <4>5, <5>3 DEF Voice
      <4>6. QED
        BY <4>4, <4>5
    <3>4. QED
      BY <3>1, <3>2, <3>3
  <2>3. QED
    BY <1>2, <2>1, <2>2
<1>5. QED
  BY <1>3, <1>4 DEF Voices

\* Chaos's last line only moves down the thread.
LEMMA LastChaosGrows ==
    ASSUME IInv, NEW c \in Call, Quiet(c) \/ Stamps(c) \/ Commits(c) \/ Loses(c), HasLast', TypeOK'
    PROVE  /\ LastChaos \in Nat /\ LastChaos' \in Nat /\ LastChaos <= LastChaos'
           /\ \A i \in Committed : timeline'[i] = timeline[i]
           /\ Spoken("user") \subseteq Spoken("user")'
<1>1. Base /\ Posted /\ TypeOK /\ HasLast
  BY DEF IInv, Base
<1>2. /\ \A i \in Committed : timeline'[i] = timeline[i]
      /\ Committed \subseteq Committed'
  <2>1. Commits(c) => pc[c] \in {"commit", "answer"}
    BY DEF Commits
  <2>2. QED
    BY <1>1, <2>1, CommittedStep
<1>3. \A k : Spoken(k) \subseteq Spoken(k)'
  BY <1>2 DEF Spoken
<1>4. LastChaos \in Nat /\ (LastChaos # 0 => LastChaos \in Spoken("chaos"))
  BY <1>1, LastChaosIs DEF TypeOK
<1>5. LastChaos' \in Nat /\ \A j \in Spoken("chaos")' : j <= LastChaos'
  <2>1. CASE Spoken("chaos")' = {}
    BY <2>1 DEF LastChaos
  <2>2. CASE Spoken("chaos")' # {}
    <3>1. \E i \in Spoken("chaos")' : \A j \in Spoken("chaos")' : j <= i
      BY <2>2 DEF HasLast
    <3>2. LastChaos' \in Spoken("chaos")' /\ \A j \in Spoken("chaos")' : j <= LastChaos'
      BY <2>2, <3>1 DEF LastChaos
    <3>3. Spoken("chaos")' \subseteq Nat
      BY DEF Spoken, Committed, TypeOK
    <3>4. QED
      BY <3>2, <3>3
  <2>3. QED
    BY <2>1, <2>2
<1>6. LastChaos <= LastChaos'
  BY <1>3, <1>4, <1>5
<1>7. QED
  BY <1>2, <1>3, <1>4, <1>5, <1>6

\* Chaos's last line only moves on, so what a count read of it is never ahead.
LEMMA LastReadStep ==
    ASSUME IInv, LastRead, Next
    PROVE  LastRead'
<1>0. IInv' /\ Base
  BY IInvNext DEF IInv
<1>1. PICK c \in Call : \/ \E u \in User : Request(c, u)
                        \/ SayingStep(c) \/ OtherStep(c) \/ LineStep(c)
  BY NextIs
<1>2. Others(c) /\ (Quiet(c) \/ Stamps(c) \/ Commits(c) \/ Loses(c))
  BY <1>1, RequestBegins, SayingQuiet, OtherQuiet, LineMoves DEF IInv, Base, Quiet
<1>3. LastChaos \in Nat /\ LastChaos' \in Nat /\ LastChaos <= LastChaos'
  BY <1>0, <1>2, LastChaosGrows DEF IInv, Base
<1>4. ASSUME NEW d \in Call, d # c, pc'[d] = "since"
      PROVE  call'[d].last <= LastChaos'
  <2>1. call'[d].last = call[d].last /\ pc[d] = "since" /\ call[d].last \in Nat
    BY <1>2, <1>4 DEF Others, IInv, Base, Shape, Records, Carried
  <2>2. QED
    BY <1>3, <2>1 DEF LastRead
<1>5. ASSUME pc'[c] = "since"
      PROVE  call'[c].last <= LastChaos'
  <2>1. CountTotal(c)
    <3>0. Shape
      BY DEF IInv, Base
    <3>1. ~\E u \in User : Request(c, u)
      BY <1>5, RequestBegins DEF IInv, Base, Begun
    <3>2. ~LineStep(c)
      BY <1>0, <1>5, LineMoves DEF Stamps, Commits, Loses, AfterLoss
    <3>a. /\ Finish(c) => pc'[c] = "idle"
          /\ Fail(c) => pc'[c] = "failed"
      BY Goes DEF Finish, Fail
    <3>b. /\ TurnOrFinish(c) => pc'[c] \in {"turn", "idle"}
          /\ NextArrival(c) => pc'[c] \in {"insert", "idle"}
      BY <3>a, Goes DEF TurnOrFinish, NextArrival
    <3>3. ~OtherStep(c)
      <4>1. ~Seat(c)
        BY <1>5, Goes DEF Seat
      <4>2. ~Rename(c)
        BY <1>5, <3>a, Goes DEF Rename
      <4>3. QED
        BY <1>5, <3>a, <4>1, <4>2 DEF OtherStep, MarkSeen, Unseat, SetGroup, StepFails, Return, Abandon
    <3>4. SayingStep(c) => CountTotal(c)
      <4>1. ~CountSince(c) /\ ~TurnStart(c) /\ ~Remember(c) /\ ~Settle(c)
        BY <1>5, Goes DEF CountSince, Counted, TurnStart, Remember, Settle
      <4>2. ~Tell(c) /\ ~NameFrom(c)
        BY <1>5, <3>b, Goes DEF Tell, NameFrom
      <4>3. ~TurnFails(c) /\ ~TellAnswer(c)
        BY <1>5, <3>a DEF TurnFails, NoTurn, TellAnswer
      <4>4. QED
        BY <4>1, <4>2, <4>3 DEF SayingStep
    <3>5. QED
      BY <1>1, <3>1, <3>2, <3>3, <3>4
  <2>2. \E n : Set(c, [call[c] EXCEPT !.total = n, !.last = LastChaos])
    BY <1>5, <2>1, Goes DEF CountTotal, Counted
  <2>3. PICK n : call'[c] = [call[c] EXCEPT !.total = n, !.last = LastChaos]
    BY <2>2, Sets
  <2>4. call'[c].last = LastChaos
    BY <2>3 DEF IInv, Base, Shape, Records, Carried
  <2>5. QED
    BY <1>3, <2>4
<1>6. QED
  BY <1>4, <1>5 DEF LastRead

\* What one step does to the unanswered lines: none is added, or one by a request
\* that had decided to be silent, or a request decides to be silent having counted
\* fewer than three.
Unspoken(c) ==
    \/ "turn" \in faults'
    \/ Unanswered' \subseteq Unanswered /\ Silent' \subseteq Silent
    \/ Unanswered' \subseteq Unanswered /\ Cardinality(Unanswered) <= 2
    \/ /\ c \in Silent /\ Silent' \subseteq Silent \ {c}
       /\ \E x : Unanswered' \subseteq Unanswered \cup {x}

\* A turn under way stays so, or its failure is remembered.
Keeps(c) ==
    Awaited(c) => "turn" \in faults' \/ (Awaited(c)' /\ call'[c].slot = call[c].slot)

\* A step that commits nothing moves neither Chaos's last line nor what anybody said.
LEMMA SameThread ==
    ASSUME Committed' = Committed, \A i \in Committed : timeline'[i] = timeline[i]
    PROVE  LastChaos' = LastChaos /\ \A k : Spoken(k)' = Spoken(k)
<1>1. \A k : Spoken(k)' = Spoken(k)
  BY DEF Spoken
<1>2. Spoken("chaos")' = Spoken("chaos")
  BY <1>1
<1> DEFINE last(S) == IF S = {} THEN 0 ELSE CHOOSE i \in S : \A j \in S : j <= i
<1>a. LastChaos = last(Spoken("chaos")) /\ LastChaos' = last(Spoken("chaos")')
  BY DEF LastChaos
<1> HIDE DEF last
<1>3. LastChaos' = LastChaos
  BY <1>2, <1>a
<1>4. QED
  BY <1>1, <1>3

\* Only the request that moves can become silent.
LEMMA SilentShrinks ==
    ASSUME NEW c \in Call, Others(c), c \in Silent' => c \in Silent
    PROVE  Silent' \subseteq Silent
BY DEF Silent, Others

\* Steps that commit nothing.
LEMMA Passes ==
    ASSUME IInv, NEW c \in Call, Others(c), Quiet(c) \/ Stamps(c) \/ Loses(c), ~Commits(c),
           Keeps(c)
    PROVE  /\ "turn" \in faults' \/ Unanswered' \subseteq Unanswered
           /\ (c \in Silent' => c \in Silent) => Unspoken(c)
<1>1. Committed' = Committed /\ \A i \in Committed : timeline'[i] = timeline[i]
  BY CommittedStep DEF IInv
<1>2. LastChaos' = LastChaos /\ Spoken("user")' = Spoken("user")
  BY <1>1, SameThread
<1>3. "turn" \in faults' \/ Unanswered' \subseteq Unanswered
  BY <1>2 DEF Unanswered, Awaited, Others, Keeps
<1>4. QED
  BY <1>3, SilentShrinks DEF Unspoken

\* A new request adds no line nobody answered.
LEMMA RequestUnspoken ==
    ASSUME IInv, NEW c \in Call, NEW u \in User, Request(c, u)
    PROVE  Unspoken(c)
<1>1. Begun(c) /\ Quiet(c)
  BY RequestBegins DEF IInv, Base
<1>2. ~Awaited(c) /\ c \notin Silent' /\ ~Commits(c)
  BY <1>1 DEF Begun, Awaited, Silent, Commits
<1>3. QED
  BY <1>1, <1>2, Passes DEF Keeps, Quiet

\* A request decides to be silent only where it has counted fewer than three lines
\* since Chaos, and it has counted every line that stands unanswered.
LEMMA CountedSilence ==
    ASSUME SInv, NEW c \in Call, CountTotal(c) \/ CountSince(c)
    PROVE  Unspoken(c)
<1>0. /\ IInv /\ Base /\ TypeOK /\ HasLast
      /\ call[c] \in Carried /\ Fits(pc[c], call[c])
  BY DEF SInv, IInv, Base, Shape, Records
<1>1. Quiet(c)
  BY <1>0, SayingQuiet DEF SayingStep
<1>2. pc[c] \in {"total", "since"} /\ call[c].op = "send"
  BY <1>0 DEF CountTotal, CountSince, Fits
<1>3. ~Awaited(c) /\ ~Commits(c) /\ Others(c)
  BY <1>1, <1>2 DEF Awaited, Commits, Quiet
<1>4. "turn" \in faults' \/ Unanswered' \subseteq Unanswered
  BY <1>0, <1>1, <1>3, Passes DEF Keeps
<1>5. ASSUME NEW T \in SUBSET Committed, Unanswered \subseteq T, NEW total,
             Counted(c, total, Cardinality(T))
      PROVE  Unspoken(c)
  <2> DEFINE t == ShouldReply(call[c].line, total, Cardinality(T), Direct)
  <2>1. call'[c] = [call[c] EXCEPT !.line = "plain", !.total = 0, !.last = 0, !.turn = t]
    BY <1>0, <1>5, Sets DEF Counted
  <2>2. IsFiniteSet(T) /\ Cardinality(T) \in Nat
    BY <1>0, CountIsNat
  <2>3. Cardinality(Unanswered) <= Cardinality(T) /\ Cardinality(Unanswered) \in Nat
    BY <1>5, <2>2, FS_Subset, FS_CardinalityType
  <2>4. ~t => Cardinality(T) < 3
    BY <2>2 DEF ShouldReply
  <2> HIDE DEF t
  <2>5. call'[c].turn <=> t
    BY <1>0, <2>1 DEF Carried
  <2>6. CASE t
    BY <1>0, <1>1, <1>3, <2>5, <2>6, Passes DEF Keeps, Silent
  <2>7. CASE ~t
    BY <1>4, <2>2, <2>3, <2>4, <2>7 DEF Unspoken
  <2>8. QED
    BY <2>6, <2>7
<1>6. Unanswered \subseteq Committed
  BY DEF Unanswered, Spoken
<1>7. CASE CountTotal(c)
  <2>1. CASE pc'[c] = "since"
    BY <1>0, <1>1, <1>3, <2>1, Passes DEF Keeps, Silent
  <2>2. CASE pc'[c] # "since"
    <3>1. Counted(c, Cardinality(Committed), Cardinality(Committed))
      BY <1>0, <1>7, <2>2, Goes DEF CountTotal
    <3>2. QED
      BY <1>5, <1>6, <3>1
  <2>3. QED
    BY <2>1, <2>2
<1>8. CASE CountSince(c)
  <2> DEFINE T == {i \in Committed : i > call[c].last}
  <2>1. call[c].last <= LastChaos /\ call[c].last \in Nat /\ LastChaos \in Nat
    BY <1>0, <1>8, LastChaosIs DEF SInv, LastRead, CountSince, Carried, TypeOK
  <2>2. Unanswered \subseteq T
    BY <1>6, <2>1, <1>0 DEF Unanswered, Committed, TypeOK
  <2>3. Counted(c, call[c].total, Cardinality(T))
    BY <1>8 DEF CountSince
  <2> HIDE DEF T
  <2>4. T \in SUBSET Committed
    BY DEF T
  <2>5. QED
    BY <1>5, <2>2, <2>3, <2>4
<1>9. QED
  BY <1>7, <1>8

\* Nor do the steps between the lines, and a send that becomes silent was counted.
LEMMA SayingUnspoken ==
    ASSUME SInv, NEW c \in Call, SayingStep(c)
    PROVE  Unspoken(c)
<1>0. /\ IInv /\ Base /\ Shape
      /\ call[c] \in Carried /\ Fits(pc[c], call[c])
  BY DEF SInv, IInv, Base, Shape, Records
<1>1. Quiet(c) /\ Others(c)
  BY <1>0, SayingQuiet DEF Quiet
<1>2. ASSUME Keeps(c), pc[c] \notin {"commit", "answer"}, c \notin Silent'
      PROVE  Unspoken(c)
  <2>1. ~Commits(c)
    BY <1>2 DEF Commits
  <2>2. QED
    BY <1>0, <1>1, <1>2, <2>1, Passes
<1>3. CASE CountTotal(c) \/ CountSince(c)
  BY <1>3, CountedSilence
<1>4. ASSUME pc[c] \in {"tell", "name"}, call[c].op = "send", UNCHANGED timeline, TurnOrFinish(c)
      PROVE  Unspoken(c)
  <2>1. /\ pc'[c] \in {"turn", "idle"} /\ (call[c].turn => pc'[c] = "turn")
        /\ pc'[c] = "turn" => call'[c].op = "send"
    <3>1. /\ Shape' /\ pc'[c] \in {"turn", "idle"} /\ (call[c].turn => pc'[c] = "turn")
      BY <1>0, <1>4, TurnQuiet
    <3>2. CASE call[c].turn
      <4> DEFINE a == Asked("send", call[c].user)
      <4>1. a \in Carried /\ a.op = "send"
        BY <1>0, <1>4, AskedIs DEF Fits, AllOps
      <4>2. call'[c] = [a EXCEPT !.slot = call[c].slot]
        BY <1>0, <1>4, <3>2, Sets DEF TurnOrFinish
      <4> HIDE DEF a
      <4>3. call'[c].op = "send"
        BY <4>1, <4>2 DEF Carried
      <4>4. QED
        BY <3>1, <4>3
    <3>3. CASE ~call[c].turn
      BY <1>0, <1>4, <3>1, <3>3, Goes DEF TurnOrFinish, Finish
    <3>4. QED
      BY <3>2, <3>3
  <2>2. Keeps(c)
    BY <1>1, <1>4, <2>1 DEF Keeps, Awaited, Quiet, Sent, Turning
  <2>3. c \notin Silent'
    BY <2>1 DEF Silent
  <2>4. QED
    BY <1>2, <1>4, <2>2, <2>3
<1>5. CASE Tell(c)
  <2>1. pc[c] = "tell" /\ UNCHANGED timeline
    BY <1>5 DEF Tell
  <2>2. CASE Goto(c, "name") /\ UNCHANGED call /\ call[c].op = "send"
    <3>1. pc'[c] = "name" /\ call'[c] = call[c]
      BY <1>0, <2>2, Goes
    <3>2. Keeps(c) /\ c \notin Silent'
      BY <2>1, <3>1 DEF Keeps, Awaited, Silent
    <3>3. QED
      BY <1>2, <2>1, <3>2
  <2>3. CASE TurnOrFinish(c) /\ call[c].op = "send"
    BY <1>4, <2>1, <2>3
  <2>4. CASE NextArrival(c) /\ call[c].op # "send"
    <3>1. call[c].op \in {"add", "join", "choose"}
      BY <1>0, <2>1, <2>4 DEF Fits
    <3>2. call'[c] = call[c] \/ call'[c] = NoCall
      BY <1>0, <2>1, <2>4, <3>1, NextMoves
    <3>3. Keeps(c) /\ c \notin Silent'
      BY <2>4, <3>2 DEF Keeps, Awaited, Silent, NoCall
    <3>4. QED
      BY <1>2, <2>1, <3>3
  <2>5. QED
    BY <1>5, <2>2, <2>3, <2>4 DEF Tell
<1>6. CASE NameFrom(c)
  BY <1>0, <1>4, <1>6 DEF NameFrom, Fits
<1>7. CASE TurnStart(c)
  <2>1. pc[c] = "turn" /\ pc'[c] = "think" /\ call'[c] = call[c]
    BY <1>0, <1>7, Goes DEF TurnStart
  <2>2. Keeps(c) /\ c \notin Silent'
    BY <2>1 DEF Keeps, Awaited, Silent
  <2>3. QED
    BY <1>2, <2>1, <2>2
<1>8. CASE TurnFails(c)
  <2>1. /\ pc[c] \in {"turn", "think"} /\ NoTurn(c)
        /\ call[c].op = "send" => "turn" \in faults'
    BY <1>8 DEF TurnFails, TurnLost
  <2>2. pc'[c] \in {"idle", "failed"}
    BY <1>0, <2>1, Goes DEF NoTurn, Finish, Fail
  <2>3. Keeps(c) /\ c \notin Silent'
    BY <2>1, <2>2 DEF Keeps, Awaited, Silent
  <2>4. QED
    BY <1>2, <2>1, <2>3
<1>9. CASE Remember(c) \/ TellAnswer(c) \/ Settle(c)
  <2>1. /\ pc[c] \in {"remember", "tellAnswer", "settle"}
        /\ pc'[c] \in {"tellAnswer", "idle", "tell"}
    BY <1>0, <1>9, Goes DEF Remember, TellAnswer, Settle, Finish
  <2>2. Keeps(c) /\ c \notin Silent'
    BY <2>1 DEF Keeps, Awaited, Silent
  <2>3. QED
    BY <1>2, <2>1, <2>2
<1>10. QED
  BY <1>3, <1>5, <1>6, <1>7, <1>8, <1>9 DEF SayingStep

\* Nor do the other requests.
LEMMA OtherUnspoken ==
    ASSUME SInv, NEW c \in Call, OtherStep(c)
    PROVE  Unspoken(c)
<1>0. /\ IInv /\ Base /\ Shape
      /\ call[c] \in Carried /\ Fits(pc[c], call[c])
  BY DEF SInv, IInv, Base, Shape, Records
<1>1. Quiet(c) /\ Others(c)
  BY <1>0, OtherQuiet DEF Quiet
<1>2. ASSUME Keeps(c), pc[c] \notin {"commit", "answer"}, c \notin Silent'
      PROVE  Unspoken(c)
  <2>1. ~Commits(c)
    BY <1>2 DEF Commits
  <2>2. QED
    BY <1>0, <1>1, <1>2, <2>1, Passes
<1>3. CASE Seat(c)
  <2>1. PICK p : Set(c, [call[c] EXCEPT !.who = @ \ {p}, !.added = @ \cup {p}])
    BY <1>3 DEF Seat
  <2>2. call'[c] = [call[c] EXCEPT !.who = @ \ {p}, !.added = @ \cup {p}]
    BY <1>0, <2>1, Sets
  <2>3. pc[c] = "seat" /\ call[c].op # "send"
    BY <1>0, <1>3 DEF Seat, Fits
  <2>4. call'[c].op # "send"
    BY <1>0, <2>2, <2>3 DEF Carried
  <2>5. Keeps(c) /\ c \notin Silent'
    BY <2>3, <2>4 DEF Keeps, Awaited, Silent
  <2>6. QED
    BY <1>2, <2>3, <2>5
<1>4. CASE MarkSeen(c) \/ Unseat(c) \/ Rename(c) \/ SetGroup(c) \/ StepFails(c) \/ Return(c)
  <2>1. /\ pc[c] \in {"mark", "leave", "rename", "regroup", "failed", "total", "since", "settle", "seat"}
        /\ pc'[c] \in {"idle", "regroup", "failed"}
    BY <1>0, <1>4, Goes DEF MarkSeen, Unseat, Rename, SetGroup, StepFails, Return, Finish, Fail
  <2>2. Keeps(c) /\ c \notin Silent'
    BY <2>1 DEF Keeps, Awaited, Silent
  <2>3. QED
    BY <1>2, <2>1, <2>2
<1>5. CASE Abandon(c) /\ pc[c] \notin {"commit", "answer"}
  <2>1. pc'[c] = "idle"
    BY <1>0, <1>5, Goes DEF Abandon, Finish
  <2>2. Awaited(c) => "turn" \in faults'
    BY <1>5 DEF Awaited, Abandon, TurnLost
  <2>3. Keeps(c) /\ c \notin Silent'
    BY <2>1, <2>2 DEF Keeps, Silent
  <2>4. QED
    BY <1>2, <1>5, <2>3
<1>6. QED
  BY <1>3, <1>4, <1>5 DEF OtherStep

\* A commit of Chaos ends the count, one of a person adds to it.
LEMMA LineUnspoken ==
    ASSUME SInv, NEW c \in Call, LineStep(c), HasLast', TypeOK'
    PROVE  Unspoken(c)
<1>0. /\ IInv /\ Base /\ Shape /\ TypeOK /\ Posted /\ Voices
      /\ call[c] \in Carried /\ Fits(pc[c], call[c])
  BY DEF SInv, IInv, Base, Shape, Records
<1>1. Others(c) /\ (Stamps(c) \/ Commits(c) \/ Loses(c))
  BY <1>0, LineMoves
<1>2. ASSUME Keeps(c), ~Commits(c), c \in Silent' => c \in Silent
      PROVE  Unspoken(c)
  BY <1>0, <1>1, <1>2, Passes
<1>3. ASSUME Commits(c)
      PROVE  /\ LastChaos \in Nat /\ LastChaos' \in Nat /\ LastChaos <= LastChaos'
             /\ \A i \in Committed : timeline'[i] = timeline[i]
  BY <1>0, <1>3, LastChaosGrows
<1>4. CASE CommitLine(c)
  <2>1. /\ pc[c] = "commit" /\ call'[c] = call[c]
        /\ pc'[c] = IF call[c].op = "choose" THEN "settle" ELSE "tell"
        /\ Mark(call[c].slot, "in")
    BY <1>0, <1>4, Goes DEF CommitLine
  <2>2. Commits(c)
    BY <2>1 DEF Commits
  <2>3. Committed' = Committed \cup {call[c].slot}
    BY <1>0, <2>1, <2>2, CommittedStep
  <2>4. Unanswered' \subseteq Unanswered \cup {call[c].slot}
    <3>1. \A d \in Call : Awaited(d) => Awaited(d)' /\ call'[d].slot = call[d].slot
      BY <1>1, <2>1 DEF Awaited, Others
    <3>2. Spoken("user")' \subseteq Spoken("user") \cup {call[c].slot}
      BY <1>3, <2>2, <2>3 DEF Spoken
    <3>3. Spoken("user") \subseteq Nat
      BY <1>0 DEF Spoken, Committed, TypeOK
    <3>4. SUFFICES ASSUME NEW i \in Unanswered', i # call[c].slot
                   PROVE  i \in Unanswered
      OBVIOUS
    <3>5. i \in Spoken("user") /\ i \in Nat /\ i > LastChaos'
      BY <3>2, <3>3, <3>4 DEF Unanswered
    <3>6. i > LastChaos
      BY <1>3, <2>2, <3>5
    <3>7. \A d \in Call : Awaited(d) => call[d].slot # i
      BY <3>1 DEF Unanswered
    <3>8. QED
      BY <3>5, <3>6, <3>7 DEF Unanswered
  <2>5. CASE call[c].op = "send" /\ ~call[c].turn
    <3>1. c \in Silent /\ Silent' \subseteq Silent \ {c}
      BY <1>1, <2>1, <2>5 DEF Silent, Others
    <3>2. QED
      BY <2>4, <3>1 DEF Unspoken
  <2>6. CASE call[c].op = "send" /\ call[c].turn
    <3>1. Awaited(c)'
      BY <2>1, <2>6 DEF Awaited
    <3>2. call[c].slot \notin Unanswered'
      BY <2>1, <3>1 DEF Unanswered
    <3>3. Silent' \subseteq Silent
      BY <1>1, <2>1 DEF Silent, Others
    <3>4. QED
      BY <2>4, <3>2, <3>3 DEF Unspoken
  <2>7. CASE call[c].op # "send"
    <3>1. Voice(call[c].op) # "user"
      BY <2>7 DEF Voice
    <3>2. timeline'[call[c].slot].kind # "user"
      BY <1>0, <2>1, <3>1, Marked, LinesAreThere DEF Voices, States
    <3>3. call[c].slot \notin Unanswered'
      BY <3>2 DEF Unanswered, Spoken
    <3>4. Silent' \subseteq Silent
      BY <1>1, <2>1 DEF Silent, Others
    <3>5. QED
      BY <2>4, <3>3, <3>4 DEF Unspoken
  <2>8. QED
    BY <2>5, <2>6, <2>7
<1>5. CASE CommitAnswer(c)
  <2>1. /\ pc[c] = "answer" /\ pc'[c] = "remember" /\ call'[c] = call[c]
        /\ Mark(call[c].answer, "in")
    BY <1>0, <1>5, Goes DEF CommitAnswer
  <2>2. Commits(c)
    BY <2>1 DEF Commits
  <2>3. Committed' = Committed \cup {call[c].answer}
    BY <1>0, <2>1, <2>2, CommittedStep
  <2>4. timeline'[call[c].answer].kind = "chaos"
    BY <1>0, <2>1, Marked, LinesAreThere DEF Voices, States
  <2>5. call[c].answer <= LastChaos' /\ call[c].answer \in Nat /\ call[c].slot \in Nat
    <3>1. call[c].answer \in Spoken("chaos")'
      BY <2>3, <2>4 DEF Spoken
    <3>2. \E i \in Spoken("chaos")' : \A j \in Spoken("chaos")' : j <= i
      BY <3>1 DEF HasLast
    <3>3. \A j \in Spoken("chaos")' : j <= LastChaos'
      BY <3>1, <3>2 DEF LastChaos
    <3>4. QED
      BY <1>0, <3>1, <3>3 DEF Carried
  <2>6. Spoken("user")' \subseteq Spoken("user")
    BY <1>3, <2>2, <2>3, <2>4 DEF Spoken
  <2>7. Unanswered' \subseteq Unanswered
    <3>1. \A d \in Call \ {c} : Awaited(d) => Awaited(d)' /\ call'[d].slot = call[d].slot
      BY <1>1 DEF Awaited, Others
    <3>2. Awaited(c) => call[c].slot < call[c].answer
      BY <1>0, <2>1 DEF Awaited, Fits
    <3>3. Spoken("user") \subseteq Nat
      BY <1>0 DEF Spoken, Committed, TypeOK
    <3>4. SUFFICES ASSUME NEW i \in Unanswered'
                   PROVE  i \in Unanswered
      OBVIOUS
    <3>5. i \in Spoken("user") /\ i > LastChaos /\ i \in Nat /\ i > LastChaos'
      BY <1>3, <2>2, <2>6, <3>3 DEF Unanswered
    <3>6. \A d \in Call \ {c} : Awaited(d) => call[d].slot # i
      BY <3>1 DEF Unanswered
    <3>7. Awaited(c) => call[c].slot # i
      BY <1>3, <2>2, <2>5, <3>2, <3>5
    <3>8. QED
      BY <3>5, <3>6, <3>7 DEF Unanswered
  <2>8. Silent' \subseteq Silent
    BY <1>1, <2>1 DEF Silent, Others
  <2>9. QED
    BY <2>7, <2>8 DEF Unspoken
<1>6. CASE Stamp(c)
  <2>1. pc[c] = "insert" /\ pc'[c] = "commit"
    BY <1>0, <1>6, Goes DEF Stamp
  <2>2. Keeps(c) /\ ~Commits(c)
    BY <2>1 DEF Keeps, Awaited, Commits
  <2>3. c \in Silent' => c \in Silent
    <3>1. CASE call[c].op = "send"
      <4>1. call[c].added = {}
        BY <1>0, <3>1 DEF Fits
      <4>2. \E n : Set(c, [call[c] EXCEPT !.slot = n, !.author = None])
        BY <1>6, <4>1 DEF Stamp
      <4>3. PICK n : call'[c] = [call[c] EXCEPT !.slot = n, !.author = None]
        BY <1>0, <4>2, Sets
      <4>4. call'[c].turn = call[c].turn
        BY <1>0, <4>3 DEF Carried
      <4>5. QED
        BY <2>1, <3>1, <4>4 DEF Silent
    <3>2. CASE call[c].op # "send"
      <4>1. Stamps(c)
        BY <1>1, <2>1 DEF Commits, Loses
      <4>2. call'[c].op = call[c].op
        BY <4>1 DEF Stamps
      <4>3. QED
        BY <3>2, <4>2 DEF Silent
    <3>3. QED
      BY <3>1, <3>2
  <2>4. QED
    BY <1>2, <2>2, <2>3
<1>7. CASE StampAnswer(c)
  <2>1. pc[c] = "think" /\ pc'[c] = "answer"
    BY <1>0, <1>7, Goes DEF StampAnswer
  <2>2. call'[c].op = call[c].op /\ call'[c].slot = call[c].slot
    BY <1>1, <2>1 DEF Stamps, Commits, Loses
  <2>3. Keeps(c) /\ ~Commits(c) /\ c \notin Silent'
    BY <2>1, <2>2 DEF Keeps, Awaited, Commits, Silent
  <2>4. QED
    BY <1>2, <2>3
<1>8. CASE LoseLine(c) \/ LoseAnswer(c) \/ (Abandon(c) /\ pc[c] \in {"commit", "answer"})
  <2>1. pc[c] \in {"commit", "answer"} /\ (Mark(call[c].slot, "lost") \/ Mark(call[c].answer, "lost"))
    BY <1>8 DEF LoseLine, LoseAnswer, Abandon, Lose
  <2>2. /\ pc'[c] \in {"idle", "failed", "insert"}
        /\ pc'[c] = "insert" => call'[c].op # "send"
    <3>0. Finish(c) => pc'[c] = "idle"
      BY <1>0, Goes DEF Finish
    <3>1. Fail(c) => pc'[c] = "failed"
      BY <1>0, Goes DEF Fail
    <3>2. NextArrival(c) /\ pc[c] = "commit" /\ call[c].op \in {"add", "join"} =>
             pc'[c] = "idle" \/ (call'[c] = call[c] /\ pc'[c] = "insert")
      BY <1>0, NextMoves
    <3>3. QED
      BY <1>8, <3>0, <3>1, <3>2 DEF LoseLine, LoseAnswer, NoTurn, Abandon
  <2>3. ~Commits(c)
    BY <2>2 DEF Commits
  <2>4. Awaited(c) => "turn" \in faults'
    BY <1>8 DEF Awaited, LoseLine, LoseAnswer, Abandon, TurnLost
  <2>5. Keeps(c) /\ c \notin Silent'
    BY <2>2, <2>4 DEF Keeps, Silent
  <2>6. QED
    BY <1>2, <2>3, <2>5
<1>9. QED
  BY <1>4, <1>5, <1>6, <1>7, <1>8 DEF LineStep

\* The bound is kept by any such step.
LEMMA FewStep ==
    ASSUME SInv, IsFiniteSet(Call), NEW c \in Call, Unspoken(c), FewUnanswered, faults \subseteq faults'
    PROVE  FewUnanswered'
<1>0. TypeOK
  BY DEF SInv, IInv, Base
<1>1. /\ IsFiniteSet(Unanswered) /\ Cardinality(Unanswered) \in Nat
      /\ IsFiniteSet(Silent) /\ Cardinality(Silent) \in Nat
      /\ Cardinality(Call) \in Nat
  <2>1. Unanswered \in SUBSET Committed /\ Silent \in SUBSET Call
    BY DEF Unanswered, Spoken, Silent
  <2>2. QED
    BY <1>0, <2>1, CountIsNat, FS_Subset, FS_CardinalityType
<1> SUFFICES ASSUME "turn" \notin faults'
             PROVE  \/ Cardinality(Unanswered') <= 2
                    \/ Cardinality(Unanswered') + Cardinality(Silent') <= 2 + Cardinality(Call)
  BY DEF FewUnanswered
<1>2. \/ Cardinality(Unanswered) <= 2
      \/ Cardinality(Unanswered) + Cardinality(Silent) <= 2 + Cardinality(Call)
  BY DEF FewUnanswered
<1>3. CASE Unanswered' \subseteq Unanswered /\ Cardinality(Unanswered) <= 2
  <2>1. Cardinality(Unanswered') <= Cardinality(Unanswered) /\ Cardinality(Unanswered') \in Nat
    BY <1>1, <1>3, FS_Subset, FS_CardinalityType
  <2>2. QED
    BY <1>1, <1>3, <2>1
<1>4. CASE Unanswered' \subseteq Unanswered /\ Silent' \subseteq Silent
  <2>1. /\ Cardinality(Unanswered') <= Cardinality(Unanswered) /\ Cardinality(Unanswered') \in Nat
        /\ Cardinality(Silent') <= Cardinality(Silent) /\ Cardinality(Silent') \in Nat
    BY <1>1, <1>4, FS_Subset, FS_CardinalityType
  <2>2. QED
    BY <1>1, <1>2, <2>1
<1>5. ASSUME c \in Silent, Silent' \subseteq Silent \ {c},
             NEW x, Unanswered' \subseteq Unanswered \cup {x}
      PROVE  \/ Cardinality(Unanswered') <= 2
             \/ Cardinality(Unanswered') + Cardinality(Silent') <= 2 + Cardinality(Call)
  <2>1. /\ IsFiniteSet(Unanswered \cup {x})
        /\ Cardinality(Unanswered \cup {x}) <= Cardinality(Unanswered) + 1
        /\ Cardinality(Unanswered \cup {x}) \in Nat
    <3> DEFINE U == Unanswered
    <3>1. IsFiniteSet(U) /\ Cardinality(U) \in Nat
      BY <1>1
    <3> HIDE DEF U
    <3>2. /\ IsFiniteSet(U \cup {x})
          /\ Cardinality(U \cup {x}) = IF x \in U THEN Cardinality(U) ELSE Cardinality(U) + 1
      BY <3>1, FS_AddElement
    <3>3. Cardinality(U \cup {x}) <= Cardinality(U) + 1 /\ Cardinality(U \cup {x}) \in Nat
      BY <3>1, <3>2
    <3>4. QED
      BY <3>2, <3>3 DEF U
  <2>2. Cardinality(Unanswered') <= Cardinality(Unanswered) + 1 /\ Cardinality(Unanswered') \in Nat
    <3>1. /\ Cardinality(Unanswered') <= Cardinality(Unanswered \cup {x})
          /\ Cardinality(Unanswered') \in Nat
      BY <1>5, <2>1, FS_Subset, FS_CardinalityType
    <3>2. QED
      BY <1>1, <2>1, <3>1
  <2>3. /\ IsFiniteSet(Silent \ {c}) /\ Cardinality(Silent \ {c}) = Cardinality(Silent) - 1
    BY <1>1, <1>5, FS_RemoveElement
  <2>4. Cardinality(Silent') <= Cardinality(Silent) - 1 /\ Cardinality(Silent') \in Nat
    BY <1>5, <2>3, FS_Subset, FS_CardinalityType
  <2>5. Cardinality(Silent) <= Cardinality(Call)
    <3>1. Silent \in SUBSET Call
      BY DEF Silent
    <3>2. QED
      BY <3>1, FS_Subset
  <2>6. QED
    BY <1>1, <1>2, <2>2, <2>4, <2>5
<1>6. QED
  BY <1>3, <1>4, <1>5 DEF Unspoken

\* The count is inductive together with what is known of the lines.
LEMMA SInvHolds ==
    ASSUME IsFiniteSet(Call)
    PROVE  Spec => [](SInv /\ FewUnanswered)
<1>1. Init => SInv /\ FewUnanswered
  <2> SUFFICES ASSUME Init PROVE SInv /\ FewUnanswered
    OBVIOUS
  <2>1. \A c \in Call : pc[c] = "idle" /\ call[c].op = "none"
    BY DEF Init, InitWith, NoCall
  <2>2. Unanswered = {}
    BY DEF Init, InitWith, Unanswered, Spoken, Committed
  <2>3. Cardinality(Unanswered) <= 2
    BY <2>2, FS_EmptySet
  <2>4. QED
    BY <2>1, <2>3, IInvInit DEF SInv, Voices, LastRead, FewUnanswered
<1>2. SInv /\ FewUnanswered /\ [Next]_vars => (SInv /\ FewUnanswered)'
  <2>1. ASSUME SInv, FewUnanswered, Next
        PROVE  (SInv /\ FewUnanswered)'
    <3>1. IInv' /\ HasLast' /\ TypeOK'
      BY <2>1, IInvNext DEF SInv, IInv, Base
    <3>2. SInv'
      BY <2>1, <3>1, VoicesStep, LastReadStep DEF SInv
    <3>3. \E c \in Call : Unspoken(c)
      BY <2>1, <3>1, NextIs, RequestUnspoken, SayingUnspoken, OtherUnspoken, LineUnspoken DEF SInv
    <3>4. FewUnanswered'
      BY <2>1, <3>3, FewStep, FaultsStay
    <3>5. QED
      BY <3>2, <3>4
  <2>2. ASSUME SInv, FewUnanswered, UNCHANGED vars
        PROVE  (SInv /\ FewUnanswered)'
    <3>1. IInv'
      BY <2>2, IInvStep DEF SInv
    <3>2. UNCHANGED <<Committed, faults>> /\ \A c \in Call : pc'[c] = pc[c] /\ call'[c] = call[c]
      BY <2>2 DEF vars, Committed
    <3>3. LastChaos' = LastChaos /\ Spoken("user")' = Spoken("user")
      BY <2>2, <3>2, SameThread DEF vars
    <3>4. Unanswered' = Unanswered /\ Silent' = Silent
      BY <3>2, <3>3 DEF Unanswered, Silent, Awaited
    <3>5. FewUnanswered'
      BY <2>2, <3>2, <3>4 DEF FewUnanswered
    <3>6. Voices' /\ LastRead'
      BY <2>2, <3>2, <3>3 DEF SInv, Voices, LastRead, vars
    <3>7. QED
      BY <3>1, <3>5, <3>6 DEF SInv
  <2>3. QED
    BY <2>1, <2>2
<1>3. QED
  BY <1>1, <1>2, PTL DEF Spec

\* When nothing is in flight and no turn has failed, at most two typed lines plus one per
\* concurrent request stand since Chaos last spoke (CountSinceChaos, ShouldReply
\* and chaosTurn, run by any number of sends at once).
THEOREM SilenceIsBounded ==
    ASSUME IsFiniteSet(Call)
    PROVE  Spec => []SilenceBounded
<1>1. SInv /\ FewUnanswered => SilenceBounded
  <2> SUFFICES ASSUME SInv, FewUnanswered, Quiescent, "turn" \notin faults
               PROVE  Cardinality({i \in Spoken("user") : i > LastChaos}) <= 2 + Cardinality(Call)
    BY DEF SilenceBounded
  <2>1. \A c \in Call : pc[c] = "idle"
    BY DEF Quiescent, Idle
  <2>2. {i \in Spoken("user") : i > LastChaos} = Unanswered /\ Silent = {}
    BY <2>1 DEF Unanswered, Silent, Awaited
  <2>3. Cardinality(Call) \in Nat /\ Cardinality(Silent) = 0
    BY <2>2, FS_CardinalityType, FS_EmptySet
  <2>4. Cardinality(Unanswered) \in Nat
    <3>1. TypeOK /\ Unanswered \in SUBSET Committed
      BY DEF SInv, IInv, Base, Unanswered, Spoken
    <3>2. QED
      BY <3>1, CountIsNat
  <2>5. QED
    BY <2>2, <2>3, <2>4 DEF FewUnanswered
<1>2. QED
  BY SInvHolds, <1>1, PTL

=====
