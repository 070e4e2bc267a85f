------------------------------- MODULE Thread -------------------------------
(***************************************************************************)
(* One conversation and the requests that act on it at the same time       *)
(* (conversation/service and conversation/repository).                     *)
(*                                                                         *)
(* Each request runs in its own goroutine and takes one database statement *)
(* or transaction per step; between two steps every other request may run. *)
(* What a request has read stays in its own record, so a decision taken on *)
(* a stale read is taken here as it is taken in the code.                  *)
(*                                                                         *)
(* Messages are ordered by sent_at, which InsertMessage draws BEFORE its   *)
(* transaction.  The timeline below is in sent_at order: InsertMessage     *)
(* first appends a pending slot (the stamp) and later commits or loses it. *)
(* A read cursor (seen_at) is the number of stamps drawn when it was set.  *)
(*                                                                         *)
(* GetForUser (IsMember, then Get, then membersFor) is one step, and so is *)
(* each model call: its answer is a choice made when it returns.           *)
(***************************************************************************)
EXTENDS Naturals, Sequences, FiniteSets

CONSTANTS
    User,        \* accounts
    Founders,    \* the members Create was given
    Call,        \* request goroutines
    Topic,       \* titles of option cards in the thread
    Ops,         \* the requests of an instance
    Direct,      \* conversation.direct
    Named,       \* whether Create was given a title
    ChaosOn,     \* whether a model is configured (chaos.Enabled)
    StartLimit,  \* no request starts once this many stamps were drawn (bound)
    LossLimit,   \* no more than this many lines are lost (bound)
    None

AllOps == {"send", "ask", "choose", "open", "seen", "add", "join", "leave", "update"}

ASSUME ThreadAssumption ==
    /\ Founders \subseteq User
    /\ Ops \subseteq AllOps
    /\ Direct \in BOOLEAN /\ Named \in BOOLEAN /\ ChaosOn \in BOOLEAN
    /\ StartLimit \in Nat /\ LossLimit \in Nat
    /\ None \notin User \cup Topic

VARIABLES
    conv,        \* the conversations row: title, titled, decided, open, group
    active,      \* conversation_members with left_at IS NULL
    seen,        \* conversation_members.seen_at, as a number of stamps
    timeline,    \* messages in sent_at order, pending and lost ones included
    activity,    \* conversations.last_activity_at, as a position in timeline
    pc,          \* Call -> next step
    call,        \* Call -> what the request carries and has read
    behind,      \* history: members not told since the last commit
    unannounced, \* history: people seated since their last "joined" line
    faults       \* history: what a failure or a lost connection has cut short

vars == <<conv, active, seen, timeline, activity, pc, call, behind, unannounced, faults>>

history == <<behind, unannounced, faults>>

-----------------------------------------------------------------------------
(* The thread *)

Committed == {i \in 1..Len(timeline) : timeline[i].state = "in"}

Spoken(kind) == {i \in Committed : timeline[i].kind = kind}

\* max(sent_at) over Chaos's messages, 0 for NULL.
LastChaos == IF Spoken("chaos") = {} THEN 0
             ELSE CHOOSE i \in Spoken("chaos") : \A j \in Spoken("chaos") : j <= i

\* Lines counted after a read cursor: not one's own and not the room's.
Unread(u) == {i \in Committed : /\ i > seen[u]
                                /\ timeline[i].author # u
                                /\ timeline[i].kind # "system"}

Lines == {"plain", "question", "mention"}

\* ShouldReply, the wording of a line reduced to what the rule asks of it.
ShouldReply(line, total, since, direct) ==
    \/ direct
    \/ line = "mention"
    \/ total = 0
    \/ line = "question" /\ since >= 1
    \/ since >= 3

NoCall == [op |-> "none", user |-> None, author |-> None, line |-> "plain",
           topic |-> None, who |-> {}, added |-> {}, subject |-> None, title |-> "placeholder", titled |-> FALSE,
           regroup |-> FALSE, decided |-> {}, open |-> {},
           total |-> 0, last |-> 0, turn |-> FALSE, slot |-> 0, answer |-> 0, listed |-> {}]

\* A request as it enters its handler.  Of what it reads, the actions below keep
\* what it will use, and no longer than that.
Asked(op, u) == [NoCall EXCEPT !.op = op, !.user = u]

Idle(c) == pc[c] = "idle"

Quiescent == \A c \in Call : Idle(c)

-----------------------------------------------------------------------------
(* Types and the initial state *)

Titles == {"placeholder", "chaos", "person"}

\* Neither Chaos nor the room has a user row.  A tap on a card is a line of its
\* author like any other; "choice" tells it from what somebody typed.
Slot == [kind : {"user", "choice"}, author : User, state : {"pending", "in", "lost"}]
        \cup [kind : {"chaos", "system"}, author : {None}, state : {"pending", "in", "lost"}]

Steps == {"idle", "total", "since", "insert", "commit", "settle", "tell", "name",
          "turn", "think", "answer", "remember", "tellAnswer",
          "seat", "leave", "rename", "regroup", "mark", "failed"}

TypeOK ==
    /\ conv \in [title : Titles, titled : BOOLEAN, decided : SUBSET Topic,
                 open : SUBSET Topic, group : BOOLEAN]
    /\ active \in SUBSET User
    /\ seen \in [User -> 0..Len(timeline)]
    /\ timeline \in Seq(Slot)
    /\ activity \in 0..Len(timeline)
    /\ pc \in [Call -> Steps]
    /\ \A c \in Call :
          /\ DOMAIN call[c] = DOMAIN NoCall
          /\ call[c].op \in AllOps \cup {"none"}
          /\ Idle(c) <=> call[c].op = "none"
          /\ call[c].author \in User \cup {None} /\ call[c].subject \in User \cup {None}
          /\ call[c].slot \in 0..Len(timeline) /\ call[c].answer \in 0..Len(timeline)
    /\ behind \in SUBSET User
    /\ unannounced \in SUBSET User
    /\ faults \in SUBSET {"turn", "tell", "announce"}

InitWith(members) ==
    /\ conv = [title |-> IF Named THEN "person" ELSE "placeholder", titled |-> Named,
               decided |-> {}, open |-> {}, group |-> FALSE]
    /\ active = members
    /\ seen = [u \in User |-> 0]
    /\ timeline = <<>>
    /\ activity = 0
    /\ pc = [c \in Call |-> "idle"]
    /\ call = [c \in Call |-> NoCall]
    /\ behind = {}
    /\ unannounced = {}
    /\ faults = {}

Init == InitWith(Founders)

-----------------------------------------------------------------------------
(* Steps every request is made of *)

Goto(c, step) == pc' = [pc EXCEPT ![c] = step]

Set(c, r) == call' = [call EXCEPT ![c] = r]

\* The request answers its caller and its record is gone.
Finish(c) == Goto(c, "idle") /\ Set(c, NoCall)

\* The request answers with an error.
Fail(c) ==
    /\ Goto(c, "failed")
    /\ Set(c, [Asked(call[c].op, call[c].user) EXCEPT !.slot = call[c].slot])

\* A request of user u enters its handler.
Start(c, op, u) ==
    /\ op \in Ops
    /\ Idle(c)
    /\ Len(timeline) < StartLimit
    /\ UNCHANGED <<conv, active, seen, timeline, activity, history>>

\* ... and GetForUser finds u among the members.
StartAsMember(c, op, u) == Start(c, op, u) /\ u \in active

Mark(i, state) == timeline' = [timeline EXCEPT ![i].state = state]

\* The transaction of line i is rolled back.
Lose(i) ==
    /\ Cardinality({j \in 1..Len(timeline) : timeline[j].state = "lost"}) < LossLimit
    /\ Mark(i, "lost")

\* The end of a send: its turn, if the line earned one.
TurnOrFinish(c) ==
    IF call[c].turn
    THEN Goto(c, "turn") /\ Set(c, [Asked("send", call[c].user) EXCEPT !.slot = call[c].slot])
    ELSE Finish(c)

-----------------------------------------------------------------------------
(* InsertMessage *)

\* time.Now() and the rows, not yet visible.  A line of the room ("x joined the
\* conversation.", one for each person seated) has no author.
Stamp(c) ==
    /\ pc[c] = "insert"
    /\ \/ /\ call[c].op \in {"send", "choose"}
          /\ timeline' = Append(timeline,
                [kind |-> IF call[c].op = "choose" THEN "choice" ELSE "user",
                 author |-> call[c].author, state |-> "pending"])
          /\ Set(c, [call[c] EXCEPT !.slot = Len(timeline) + 1, !.author = None])
       \/ \E x \in call[c].added :
          /\ timeline' = Append(timeline, [kind |-> "system", author |-> None,
                                           state |-> "pending"])
          /\ Set(c, [call[c] EXCEPT !.slot = Len(timeline) + 1, !.subject = x,
                                    !.added = @ \ {x}])
    /\ Goto(c, "commit")
    /\ UNCHANGED <<conv, active, seen, activity, history>>

\* After a line of the room: the next person's, or the end.
NextArrival(c) ==
    IF call[c].added # {} THEN Goto(c, "insert") /\ UNCHANGED call ELSE Finish(c)

\* The message, its cards and decision, and last_activity_at in one commit.
CommitLine(c) ==
    /\ pc[c] = "commit"
    /\ Mark(call[c].slot, "in")
    /\ activity' = call[c].slot
    /\ behind' = active
    /\ unannounced' = unannounced \ {call[c].subject}
    /\ Goto(c, IF call[c].op = "choose" THEN "settle" ELSE "tell")
    /\ UNCHANGED <<conv, active, seen, call, faults>>

\* The insert fails: an error for whoever was speaking, a shrug for the room.
LoseLine(c) ==
    /\ pc[c] = "commit"
    /\ Lose(call[c].slot)
    /\ \/ /\ call[c].op \in {"send", "choose"}
          /\ Fail(c)
          /\ UNCHANGED faults
       \/ /\ call[c].op \in {"add", "join"}
          /\ NextArrival(c)
          /\ faults' = faults \cup {"announce"}
    /\ UNCHANGED <<conv, active, seen, activity, behind, unannounced>>

\* Whoever the conversation was created with.
Notify_Founders ==
    \/ behind' = behind \ Founders /\ UNCHANGED faults
    \/ UNCHANGED behind /\ faults' = faults \cup {"tell"}

\* notifyMembers(messages.changed): everyone who is a member now, or nobody
\* when MemberIDs fails.
Notify ==
    \/ behind' = behind \ active /\ UNCHANGED faults
    \/ UNCHANGED behind /\ faults' = faults \cup {"tell"}

Tell(c) ==
    /\ pc[c] = "tell"
    /\ Notify
    /\ \/ /\ call[c].op = "send" /\ ~call[c].titled
          /\ Goto(c, "name") /\ UNCHANGED call
       \/ /\ call[c].op = "send" /\ call[c].titled
          /\ TurnOrFinish(c)
       \/ /\ call[c].op # "send"
          /\ NextArrival(c)
    /\ UNCHANGED <<conv, active, seen, timeline, activity, unannounced>>

-----------------------------------------------------------------------------
(* Send and Ask *)

\* The speaker is never resolved.
Send_Anonymous(c, u) ==
    /\ StartAsMember(c, "send", u)
    /\ \E line \in Lines :
          Set(c, [Asked("send", u) EXCEPT !.line = line, !.titled = conv.titled])
    /\ Goto(c, "total")

\* speaking_as names the caller or another member of the conversation.
Send(c, u) ==
    /\ StartAsMember(c, "send", u)
    /\ \E a \in active, line \in Lines :
          Set(c, [Asked("send", u) EXCEPT !.author = a, !.line = line, !.titled = conv.titled])
    /\ Goto(c, "total")

\* Both counts are known, and with them whether the line will earn a turn.
Counted(c, total, since) ==
    /\ Set(c, [call[c] EXCEPT !.line = "plain", !.total = 0, !.last = 0,
                              !.turn = ShouldReply(call[c].line, total, since, Direct)])
    /\ Goto(c, "insert")

\* The first statement of CountSinceChaos.
CountTotal(c) ==
    LET total == Cardinality(Committed)
    IN  /\ pc[c] = "total"
        /\ \/ LastChaos = 0 /\ Counted(c, total, total)
           \/ /\ LastChaos # 0
              /\ Set(c, [call[c] EXCEPT !.total = total, !.last = LastChaos])
              /\ Goto(c, "since")
        /\ UNCHANGED <<conv, active, seen, timeline, activity, history>>

\* Its second statement, against the last_at the first one read.
CountSince(c) ==
    /\ pc[c] = "since"
    /\ Counted(c, call[c].total, Cardinality({i \in Committed : i > call[c].last}))
    /\ UNCHANGED <<conv, active, seen, timeline, activity, history>>

\* A naming that fails ends the send.
NameFrom_FailureEndsSend(c) ==
    /\ pc[c] = "name"
    /\ \/ /\ conv' = [conv EXCEPT !.title = "chaos", !.titled = TRUE]
          /\ TurnOrFinish(c)
       \/ UNCHANGED conv /\ Finish(c)
    /\ UNCHANGED <<active, seen, timeline, activity, history>>

\* nameFrom: Chaos's name for it, or the line itself when there is none; a
\* failing Rename is logged.
NameFrom(c) ==
    /\ pc[c] = "name"
    /\ \/ conv' = [conv EXCEPT !.title = "chaos", !.titled = TRUE]
       \/ UNCHANGED conv
    /\ TurnOrFinish(c)
    /\ UNCHANGED <<active, seen, timeline, activity, history>>

Ask(c, u) ==
    /\ StartAsMember(c, "ask", u)
    /\ Set(c, Asked("ask", u))
    /\ Goto(c, "turn")

\* chaosTurn up to the model call: GetForUser again, the last lines, thinking.
TurnStart(c) ==
    /\ pc[c] = "turn"
    /\ ChaosOn
    /\ call[c].user \in active
    /\ Goto(c, "think")
    /\ UNCHANGED <<conv, active, seen, timeline, activity, call, history>>

\* chaosTurn's error returned by Send like any other.
NoTurn_FailsTheSend(c) == Fail(c)

\* A turn that does not happen is an error of Ask and no error of Send.
NoTurn(c) == IF call[c].op = "send" THEN Finish(c) ELSE Fail(c)

TurnLost(c) == IF call[c].op = "send" THEN {"turn"} ELSE {}

\* Switched off, asked by someone who has left, over quota, no answer.
TurnFails(c) ==
    /\ \/ pc[c] = "turn" /\ (~ChaosOn \/ call[c].user \notin active)
       \/ pc[c] = "think"
    /\ NoTurn(c)
    /\ faults' = faults \cup TurnLost(c)
    /\ UNCHANGED <<conv, active, seen, timeline, activity, behind, unannounced>>

\* The answer arrives; InsertMessage stamps it.
StampAnswer(c) ==
    /\ pc[c] = "think"
    /\ timeline' = Append(timeline, [kind |-> "chaos", author |-> None, state |-> "pending"])
    /\ Set(c, [call[c] EXCEPT !.answer = Len(timeline) + 1])
    /\ Goto(c, "answer")
    /\ UNCHANGED <<conv, active, seen, activity, history>>

CommitAnswer(c) ==
    /\ pc[c] = "answer"
    /\ Mark(call[c].answer, "in")
    /\ activity' = call[c].answer
    /\ behind' = active
    /\ Goto(c, "remember")
    /\ UNCHANGED <<conv, active, seen, call, unannounced, faults>>

LoseAnswer(c) ==
    /\ pc[c] = "answer"
    /\ Lose(call[c].answer)
    /\ NoTurn(c)
    /\ faults' = faults \cup TurnLost(c)
    /\ UNCHANGED <<conv, active, seen, activity, behind, unannounced>>

\* SetMemory with whatever the model decided, or nothing; a list the model
\* left out is written as empty, and a failing write is logged.
Remember(c) ==
    /\ pc[c] = "remember"
    /\ \/ \E decided, open \in SUBSET Topic :
             conv' = [conv EXCEPT !.decided = decided, !.open = open]
       \/ UNCHANGED conv
    /\ Goto(c, "tellAnswer")
    /\ UNCHANGED <<active, seen, timeline, activity, call, history>>

TellAnswer(c) ==
    /\ pc[c] = "tellAnswer"
    /\ Notify
    /\ Finish(c)
    /\ UNCHANGED <<conv, active, seen, timeline, activity, unannounced>>

-----------------------------------------------------------------------------
(* Choose *)

\* The card hangs off a message of Chaos in this conversation.
Choose(c, u) ==
    /\ StartAsMember(c, "choose", u)
    /\ Spoken("chaos") # {}
    /\ \E t \in Topic :
          Set(c, [Asked("choose", u) EXCEPT !.author = u, !.topic = t,
                                            !.decided = conv.decided, !.open = conv.open])
    /\ Goto(c, "insert")

\* SetMemory with the lists read at the start plus this title, unless it was
\* already among them.
Settle(c) ==
    /\ pc[c] = "settle"
    /\ IF call[c].topic \in call[c].decided
       THEN UNCHANGED conv
       ELSE conv' = [conv EXCEPT !.decided = call[c].decided \cup {call[c].topic},
                                 !.open = call[c].open]
    /\ Goto(c, "tell")
    /\ UNCHANGED <<active, seen, timeline, activity, call, history>>

-----------------------------------------------------------------------------
(* Reading *)

\* Messages: the list as it is now, then the cursor.
Open(c, u) ==
    /\ StartAsMember(c, "open", u)
    /\ Set(c, [Asked("open", u) EXCEPT !.listed = Committed])
    /\ Goto(c, "mark")

Seen(c, u) ==
    /\ StartAsMember(c, "seen", u)
    /\ Set(c, Asked("seen", u))
    /\ Goto(c, "mark")

\* The cursor moves to the last line Chaos or a person has committed.
MarkSeen_LastActivity(c) ==
    /\ pc[c] = "mark"
    /\ seen' = [seen EXCEPT ![call[c].user] = activity]
    /\ Finish(c)
    /\ UNCHANGED <<conv, active, timeline, activity, history>>

\* seen_at = now, whether or not the row still counts as a member.
MarkSeen(c) ==
    /\ pc[c] = "mark"
    /\ seen' = [seen EXCEPT ![call[c].user] = Len(timeline)]
    /\ Finish(c)
    /\ UNCHANGED <<conv, active, timeline, activity, history>>

-----------------------------------------------------------------------------
(* Membership and the header *)

\* AddMembers: the people named who are not members yet, placeholders included.
Add(c, u) ==
    /\ StartAsMember(c, "add", u)
    /\ \E xs \in SUBSET (User \ active) \ {{}} : Set(c, [Asked("add", u) EXCEPT !.who = xs])
    /\ Goto(c, "seat")

\* Join for someone who is not a member when IsMember asks.
Join(c, u) ==
    /\ Start(c, "join", u)
    /\ u \notin active
    /\ Set(c, [Asked("join", u) EXCEPT !.who = {u}])
    /\ Goto(c, "seat")

\* The seats are taken and nobody says so.
Seat_Silent(c) ==
    /\ pc[c] = "seat"
    /\ \E x \in call[c].who :
          /\ active' = active \cup {x}
          /\ unannounced' = unannounced \cup {x}
          /\ IF call[c].who = {x} THEN Finish(c)
             ELSE Set(c, [call[c] EXCEPT !.who = @ \ {x}]) /\ UNCHANGED pc
    /\ UNCHANGED <<conv, seen, timeline, activity, behind, faults>>

\* AddMember for each of them: a new row, or left_at back to NULL.  All are seated
\* before the first is announced.
Seat(c) ==
    /\ pc[c] = "seat"
    /\ \E x \in call[c].who :
          /\ active' = active \cup {x}
          /\ unannounced' = unannounced \cup {x}
          /\ Set(c, [call[c] EXCEPT !.who = @ \ {x}, !.added = @ \cup {x}])
          /\ Goto(c, IF call[c].who = {x} THEN "insert" ELSE "seat")
    /\ UNCHANGED <<conv, seen, timeline, activity, behind, faults>>

Leave(c, u) ==
    /\ StartAsMember(c, "leave", u)
    /\ Set(c, Asked("leave", u))
    /\ Goto(c, "leave")

Unseat(c) ==
    /\ pc[c] = "leave"
    /\ active' = active \ {call[c].user}
    /\ Finish(c)
    /\ UNCHANGED <<conv, seen, timeline, activity, history>>

\* A title, a group, both, or an emoji alone.
Update(c, u) ==
    /\ StartAsMember(c, "update", u)
    /\ \E regroup \in BOOLEAN :
          \/ Set(c, [Asked("update", u) EXCEPT !.regroup = regroup,
                                               !.title = "person", !.titled = TRUE])
          \/ Set(c, [Asked("update", u) EXCEPT !.regroup = regroup,
                                               !.title = conv.title, !.titled = conv.titled])
    /\ Goto(c, "rename")

\* Updates({title}) without titled.
Rename_TitleOnly(c) ==
    /\ pc[c] = "rename"
    /\ conv' = [conv EXCEPT !.title = call[c].title]
    /\ IF call[c].regroup THEN Goto(c, "regroup") /\ UNCHANGED call ELSE Finish(c)
    /\ UNCHANGED <<active, seen, timeline, activity, history>>

\* Rename writes title and titled, given or as they were read.
Rename(c) ==
    /\ pc[c] = "rename"
    /\ conv' = [conv EXCEPT !.title = call[c].title, !.titled = call[c].titled]
    /\ IF call[c].regroup THEN Goto(c, "regroup") /\ UNCHANGED call ELSE Finish(c)
    /\ UNCHANGED <<active, seen, timeline, activity, history>>

SetGroup(c) ==
    /\ pc[c] = "regroup"
    /\ \E g \in BOOLEAN : conv' = [conv EXCEPT !.group = g]
    /\ Finish(c)
    /\ UNCHANGED <<active, seen, timeline, activity, history>>

-----------------------------------------------------------------------------
(* Failures *)

\* The database refuses a statement whose error the handler returns.
StepFails(c) ==
    /\ pc[c] \in {"total", "since", "settle", "seat", "leave", "rename", "regroup"}
    /\ Fail(c)
    /\ faults' = faults \cup (IF pc[c] = "settle" THEN {"tell"} ELSE {})
                         \cup (IF call[c].added # {} THEN {"announce"} ELSE {})
    /\ UNCHANGED <<conv, active, seen, timeline, activity, behind, unannounced>>

\* The client hangs up (every statement runs on its context) or the process
\* dies: the open transaction is rolled back and the rest never happens.
Abandon(c) ==
    /\ pc[c] \notin {"idle", "failed"}
    /\ IF pc[c] = "commit" THEN Lose(call[c].slot)
       ELSE IF pc[c] = "answer" THEN Lose(call[c].answer)
       ELSE UNCHANGED timeline
    /\ faults' = faults
          \cup (IF pc[c] \in {"tell", "name", "turn", "think", "answer"} THEN TurnLost(c) ELSE {})
          \cup (IF pc[c] \in {"settle", "tell", "remember", "tellAnswer"} THEN {"tell"} ELSE {})
          \cup (IF call[c].added # {} \/ (pc[c] = "commit" /\ call[c].subject # None)
                THEN {"announce"} ELSE {})
    /\ Finish(c)
    /\ UNCHANGED <<conv, active, seen, activity, behind, unannounced>>

\* The error response has left.
Return(c) ==
    /\ pc[c] = "failed"
    /\ Finish(c)
    /\ UNCHANGED <<conv, active, seen, timeline, activity, history>>

-----------------------------------------------------------------------------

Request(c, u) ==
    \/ Send(c, u) \/ Ask(c, u) \/ Choose(c, u)
    \/ Open(c, u) \/ Seen(c, u)
    \/ Add(c, u) \/ Join(c, u) \/ Leave(c, u) \/ Update(c, u)

Step(c) ==
    \/ CountTotal(c) \/ CountSince(c) \/ Stamp(c) \/ CommitLine(c) \/ LoseLine(c) \/ Tell(c)
    \/ NameFrom(c)
    \/ TurnStart(c) \/ TurnFails(c) \/ StampAnswer(c) \/ CommitAnswer(c) \/ LoseAnswer(c)
    \/ Remember(c) \/ TellAnswer(c)
    \/ Settle(c) \/ MarkSeen(c)
    \/ Seat(c) \/ Unseat(c) \/ Rename(c) \/ SetGroup(c)
    \/ StepFails(c) \/ Abandon(c) \/ Return(c)

Next ==
    \/ \E c \in Call, u \in User : Request(c, u)
    \/ \E c \in Call : Step(c)

Spec == Init /\ [][Next]_vars

-----------------------------------------------------------------------------
(* Properties *)

\* A model call never costs someone the thing they typed: while a send waits
\* for Chaos its line is committed and sorts above the answer, and a send that
\* answers with an error has left no line behind.
SendContract ==
    \A c \in Call : call[c].op = "send" =>
        /\ pc[c] \in {"turn", "think", "answer", "remember", "tellAnswer"} =>
              timeline[call[c].slot].state = "in"
        /\ call[c].answer # 0 => call[c].slot < call[c].answer
        /\ pc[c] = "failed" =>
              call[c].slot = 0 \/ timeline[call[c].slot].state = "lost"

\* Chaos is not the friend who sits it out: when nothing is in flight and no
\* turn has failed, at most two typed lines plus one per concurrent request stand
\* since it last spoke, whatever counts the requests read while they raced.
\* (A tap on a card asks for no turn, but it counts towards the next line's.)
SilenceBounded ==
    (Quiescent /\ "turn" \notin faults) =>
        Cardinality({i \in Spoken("user") : i > LastChaos}) <= 2 + Cardinality(Call)

\* When nothing is in flight, everyone still in the room has been told after the
\* last message was committed, unless a request was cut between the two.
NobodyLeftBehind ==
    (Quiescent /\ faults \cap {"tell", "announce"} = {}) => behind \cap active = {}

\* Everyone who took a seat has had their "joined" line after taking it, even
\* when two people add them at once or they leave and come back.
ArrivalsAnnounced ==
    (Quiescent /\ "announce" \notin faults) => unannounced \cap active = {}

\* The header offers to name a conversation exactly while its title is the
\* placeholder, however naming, renaming and regrouping overlap.
TitleAgrees == conv.titled <=> conv.title # "placeholder"

\* Opening the thread is reading it: nothing the response lists is still counted
\* as unread once the cursor has moved.
ListedIsRead ==
    [][\A c \in Call, u \in User :
          (MarkSeen(c) /\ call[c].user = u) => call[c].listed \cap Unread(u)' = {}]_vars

\* Choosing adds to what the conversation considers settled, it never takes a
\* settled option back (decisions.go, the comment on Choose).
ChoiceOnlyAdds ==
    [][(\E c \in Call : Settle(c)) => conv.decided \subseteq conv'.decided]_vars
=============================================================================
