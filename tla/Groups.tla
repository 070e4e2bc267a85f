------------------------------- MODULE Groups -------------------------------
(* Groups: who is in them, what they remember, the conversations filed under   *)
(* them, and the two readers of their memory: a turn of Chaos in one of those  *)
(* conversations, and "Ask this group".  One statement per step; requests of   *)
(* members, and of people who were members, overlap.  A statement that fails   *)
(* ends its request and changes nothing.                                       *)
EXTENDS Backend, Naturals

CONSTANTS
    Group,
    Line,       \* rows of group_memory
    Chat,       \* conversations
    GroupLimit  \* bound on requests started

ASSUME GroupsAssumption == None \notin Group \cup Line /\ GroupLimit \in Nat

VARIABLES
    folk,       \* rows of users: none yet, a person, a stand-in, erased
    groups,     \* the groups with their members and memory
    filed,      \* conversations.group_id
    grpReq,     \* the requests in flight
    grpLeft,    \* requests that may still start
    overtaken,  \* history: requests whose caller left the group meanwhile
    ghosts      \* history: groups recalled by a request that began after their end

grpVars == <<folk, groups, filed, grpReq, grpLeft, overtaken, ghosts>>

GroupRow ==
    [by : Person \cup {None},           \* created_by; None where there is no row
     title : {"first", "changed"},
     ended : BOOLEAN,                   \* deleted_at
     in : SUBSET Person,                \* group_members with left_at NULL
     knows : SUBSET Line]               \* its rows of group_memory

NoGroup == [by |-> None, title |-> "first", ended |-> FALSE, in |-> {}, knows |-> {}]

GroupOp == {"update", "delete", "add", "addNamed", "remove", "remember", "forget", "ask", "turn"}

GroupStates ==
    [at : {"idle", "member", "load", "act", "search", "standIn", "seat", "name", "recall", "threads",
           "answer"},
     op : GroupOp \cup {"none"},
     who : Person \cup {None},
     g : Group \cup {None},
     arg : Person \cup Line \cup {None},
     named : BOOLEAN,           \* the group's name was read, and is not empty
     heard : SUBSET Line,       \* the memory that was read
     gone : SUBSET Group]       \* dissolved when the request began

NoGrp == [at |-> "idle", op |-> "none", who |-> None, g |-> None, arg |-> None,
          named |-> FALSE, heard |-> {}, gone |-> {}]

GroupTypeOK ==
    /\ folk \in [Person -> {"none", "person", "standIn", "erased"}]
    /\ groups \in [Group -> GroupRow]
    /\ filed \in [Chat -> Group \cup {None}]
    /\ grpReq \in [Request -> GroupStates]
    /\ grpLeft \in 0..GroupLimit
    /\ overtaken \subseteq Request
    /\ ghosts \subseteq Group

\* A stand-in cannot sign in; the token of an erased account works for a while.
Callers == {p \in Person : folk[p] \in {"person", "erased"}}

Made == {g \in Group : groups[g].by # None}

Founded(p, members) == [NoGroup EXCEPT !.by = p, !.in = members]

GroupInit ==
    /\ folk \in [Person -> {"none", "person"}]
    /\ \E p \in Callers, known \in SUBSET Line :
          groups \in [Group -> {NoGroup, [Founded(p, Callers) EXCEPT !.knows = known]}]
    /\ filed \in [Chat -> Made \cup {None}]
    /\ grpReq = [c \in Request |-> NoGrp]
    /\ grpLeft = GroupLimit
    /\ overtaken = {}
    /\ ghosts = {}

-----------------------------------------------------------------------------
Ended == {g \in Group : groups[g].ended}

GrpStarts == grpLeft > 0 /\ grpLeft' = grpLeft - 1

GrpGoto(c, at) == grpReq' = [grpReq EXCEPT ![c].at = at] /\ UNCHANGED overtaken

GrpEnds(c) == grpReq' = [grpReq EXCEPT ![c] = NoGrp] /\ overtaken' = overtaken \ {c}

\* Create: the row and its members in one transaction; ids are not looked up.
MakeGroup(p, g, others) ==
    /\ GrpStarts
    /\ g \notin Made
    /\ groups' = [groups EXCEPT ![g] = Founded(p, {p} \cup others)]
    /\ UNCHANGED <<folk, filed, grpReq, overtaken, ghosts>>

\* Create and Update of a conversation: any group there is, or none.
FileUnder(k, g) ==
    /\ GrpStarts
    /\ g \in Made \cup {None}
    /\ filed' = [filed EXCEPT ![k] = g]
    /\ UNCHANGED <<folk, groups, grpReq, overtaken, ghosts>>

\* AnonymizeAndDelete ends the seats in groups too.
EraseMember(p) ==
    /\ GrpStarts
    /\ folk[p] = "person"
    /\ folk' = [folk EXCEPT ![p] = "erased"]
    /\ groups' = [g \in Group |-> [groups[g] EXCEPT !.in = @ \ {p}]]
    /\ overtaken' = overtaken \cup {c \in Request : grpReq[c].who = p}
    /\ UNCHANGED <<filed, grpReq, ghosts>>

CallGroup(c, p, g, op, arg) ==
    /\ GrpStarts
    /\ grpReq[c].at = "idle"
    /\ grpReq' = [grpReq EXCEPT ![c] = [NoGrp EXCEPT !.at = "member", !.op = op,
                     !.who = p, !.g = g, !.arg = arg, !.gone = Ended]]
    /\ UNCHANGED <<folk, groups, filed, overtaken, ghosts>>

-----------------------------------------------------------------------------
(* GetForUser, which every operation on a group begins with.                  *)

\* An operation that looks the group up without the caller (ChangedByMembers).
IsMember_Unchecked(c) ==
    /\ grpReq[c].at = "member"
    /\ GrpGoto(c, "load")
    /\ UNCHANGED <<folk, groups, filed, grpLeft, ghosts>>

\* IsMember looks at the seat only, not at the group.
IsMember(c) ==
    /\ grpReq[c].at = "member"
    /\ IF grpReq[c].who \in groups[grpReq[c].g].in THEN GrpGoto(c, "load") ELSE GrpEnds(c)
    /\ UNCHANGED <<folk, groups, filed, grpLeft, ghosts>>

\* First leaves dissolved groups out.  Only who made the group may dissolve it.
LoadGroup(c) ==
    LET r == grpReq[c] IN
    /\ r.at = "load"
    /\ IF groups[r.g].ended \/ (r.op = "delete" /\ groups[r.g].by # r.who)
       THEN GrpEnds(c)
       ELSE GrpGoto(c, CASE r.op = "ask" -> "recall"
                         [] r.op = "addNamed" -> "search"
                         [] OTHER -> "act")
    /\ UNCHANGED <<folk, groups, filed, grpLeft, ghosts>>

-----------------------------------------------------------------------------
(* The operations.  The read that builds the response changes nothing.        *)
Does(c, op) == grpReq[c].at = "act" /\ grpReq[c].op = op

SetRow(c, row) == groups' = [groups EXCEPT ![grpReq[c].g] = row]

\* Soft-deleted rows are out of reach of the statement.
RenameGroup(c) ==
    LET row == groups[grpReq[c].g] IN
    /\ Does(c, "update")
    /\ SetRow(c, IF row.ended THEN row ELSE [row EXCEPT !.title = "changed"])
    /\ GrpEnds(c)
    /\ UNCHANGED <<folk, filed, grpLeft, ghosts>>

Dissolve(c) ==
    /\ Does(c, "delete")
    /\ SetRow(c, [groups[grpReq[c].g] EXCEPT !.ended = TRUE])
    /\ GrpEnds(c)
    /\ UNCHANGED <<folk, filed, grpLeft, ghosts>>

\* users.GetByID of the person to add.
FindPerson(c) ==
    /\ Does(c, "add")
    /\ IF folk[grpReq[c].arg] \in {"person", "standIn"} THEN GrpGoto(c, "seat") ELSE GrpEnds(c)
    /\ UNCHANGED <<folk, groups, filed, grpLeft, ghosts>>

\* Placeholder: an account of that name, anybody's, if the search shows one (it
\* shows five, and none for a name of one letter), otherwise a new stand-in.
SearchStandIn(c) ==
    /\ grpReq[c].at = "search"
    /\ \/ GrpGoto(c, "standIn")
       \/ \E p \in Person :
            /\ folk[p] \in {"person", "standIn"}
            /\ grpReq' = [grpReq EXCEPT ![c].at = "seat", ![c].arg = p]
            /\ UNCHANGED overtaken
    /\ UNCHANGED <<folk, groups, filed, grpLeft, ghosts>>

CreateStandIn(c) ==
    /\ grpReq[c].at = "standIn"
    /\ \E p \in Person :
        /\ folk[p] = "none"
        /\ folk' = [folk EXCEPT ![p] = "standIn"]
        /\ grpReq' = [grpReq EXCEPT ![c].at = "seat", ![c].arg = p]
    /\ UNCHANGED <<groups, filed, grpLeft, overtaken, ghosts>>

\* One upsert: a seat somebody left is theirs again.
SeatMember(c) ==
    /\ grpReq[c].at = "seat"
    /\ SetRow(c, [groups[grpReq[c].g] EXCEPT !.in = @ \cup {grpReq[c].arg}])
    /\ GrpEnds(c)
    /\ UNCHANGED <<folk, filed, grpLeft, ghosts>>

\* Anybody in the group may remove anybody; removing oneself is leaving.
RemoveMember(c) ==
    LET r == grpReq[c] IN
    /\ Does(c, "remove")
    /\ SetRow(c, [groups[r.g] EXCEPT !.in = @ \ {r.arg}])
    /\ grpReq' = [grpReq EXCEPT ![c] = NoGrp]
    /\ overtaken' = (overtaken \cup {d \in Request : grpReq[d].who = r.arg /\ grpReq[d].g = r.g}) \ {c}
    /\ UNCHANGED <<folk, filed, grpLeft, ghosts>>

Remember(c) ==
    /\ Does(c, "remember")
    /\ \A g \in Group : grpReq[c].arg \notin groups[g].knows
    /\ SetRow(c, [groups[grpReq[c].g] EXCEPT !.knows = @ \cup {grpReq[c].arg}])
    /\ GrpEnds(c)
    /\ UNCHANGED <<folk, filed, grpLeft, ghosts>>

Forget(c) ==
    /\ Does(c, "forget")
    /\ SetRow(c, [groups[grpReq[c].g] EXCEPT !.knows = @ \ {grpReq[c].arg}])
    /\ GrpEnds(c)
    /\ UNCHANGED <<folk, filed, grpLeft, ghosts>>

-----------------------------------------------------------------------------
(* The readers of the memory.                                                 *)

\* A turn in a conversation of the group: Context reads the name, then the memory.
BeginTurn(c, k) ==
    /\ GrpStarts
    /\ grpReq[c].at = "idle"
    /\ filed[k] # None
    /\ grpReq' = [grpReq EXCEPT ![c] = [NoGrp EXCEPT !.at = "name", !.op = "turn",
                     !.g = filed[k], !.gone = Ended]]
    /\ UNCHANGED <<folk, groups, filed, overtaken, ghosts>>

\* Pluck finds no name when the group is dissolved, and that is no error.
ReadName(c) ==
    /\ grpReq[c].at = "name"
    /\ grpReq' = [grpReq EXCEPT ![c].at = "recall", ![c].named = ~groups[grpReq[c].g].ended]
    /\ UNCHANGED <<folk, groups, filed, grpLeft, overtaken, ghosts>>

\* group_memory has no deleted_at: the lines outlive the group.
ReadMemory(c) ==
    LET r == grpReq[c] IN
    /\ r.at = "recall"
    /\ grpReq' = [grpReq EXCEPT ![c].heard = groups[r.g].knows,
                                ![c].at = IF r.op = "ask" THEN "threads" ELSE "answer"]
    /\ UNCHANGED <<folk, groups, filed, grpLeft, overtaken, ghosts>>

FiledUnder(g) == {k \in Chat : filed[k] = g}

\* ForGroup: an ask ends here when nothing is filed under the group.
ReadThreads(c) ==
    /\ grpReq[c].at = "threads"
    /\ IF FiledUnder(grpReq[c].g) = {} THEN GrpEnds(c) ELSE GrpGoto(c, "answer")
    /\ UNCHANGED <<folk, groups, filed, grpLeft, ghosts>>

\* The memory goes into the prompt whenever there is some (DissolvedIsForgotten).
Recalls_Unnamed(r) == r.heard # {}

\* The prompt of a turn carries the memory under the name of the group, or not
\* at all; that of an ask has GetForUser's name.
Recalls(r) == r.heard # {} /\ (r.named \/ r.op = "ask")

Answer(c) ==
    LET r == grpReq[c] IN
    /\ r.at = "answer"
    /\ ghosts' = IF Recalls(r) THEN ghosts \cup ({r.g} \cap r.gone) ELSE ghosts
    /\ GrpEnds(c)
    /\ UNCHANGED <<folk, groups, filed, grpLeft>>

-----------------------------------------------------------------------------
\* The writes to a group there is.
GroupWrite(c) ==
    RenameGroup(c) \/ Dissolve(c) \/ SeatMember(c) \/ RemoveMember(c) \/ Remember(c) \/ Forget(c)

GroupCalls(c) ==
    \E p \in Callers, g \in Made :
        \/ \E op \in {"update", "delete", "addNamed", "ask"} : CallGroup(c, p, g, op, None)
        \/ \E op \in {"add", "remove"}, q \in Person : CallGroup(c, p, g, op, q)
        \/ \E op \in {"remember", "forget"}, l \in Line : CallGroup(c, p, g, op, l)

GroupNext ==
    \/ \E p \in Callers, g \in Group, others \in SUBSET Person : MakeGroup(p, g, others)
    \/ \E k \in Chat, g \in Group \cup {None} : FileUnder(k, g)
    \/ \E p \in Person : EraseMember(p)
    \/ \E c \in Request :
        \/ GroupCalls(c) \/ IsMember(c) \/ LoadGroup(c)
        \/ FindPerson(c) \/ SearchStandIn(c) \/ CreateStandIn(c)
        \/ GroupWrite(c)
        \/ \E k \in Chat : BeginTurn(c, k)
        \/ ReadName(c) \/ ReadMemory(c) \/ ReadThreads(c) \/ Answer(c)

GroupSpec == GroupInit /\ [][GroupNext]_grpVars

-----------------------------------------------------------------------------
(* What members may rely on.                                                  *)

\* Once somebody has left a group, was removed, or erased their account, what they
\* still do to it is over: the group changes by the hand of a member, or of a
\* request that was under way when its caller's seat ended.
ChangedByMembers ==
    [][\A g \in Made : groups'[g] # groups[g] =>
         \/ \E p \in Person : EraseMember(p)
         \/ \E c \in Request :
              /\ GroupWrite(c)
              /\ grpReq[c].g = g
              /\ grpReq[c].who \in groups[g].in \/ c \in overtaken]_grpVars

\* Nobody who asks after a group was dissolved is told what it knew: neither the
\* turns of the conversations that are still filed under it (the lines stay in
\* the table; the name Context finds is empty), nor "Ask this group".
DissolvedIsForgotten == ghosts = {}
=============================================================================
