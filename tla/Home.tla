-------------------------------- MODULE Home --------------------------------
(* The home list of one person: their conversations, and for each its members, *)
(* its last line, how many lines they have not read and the name of its group, *)
(* read by five statements outside a transaction while people talk and the     *)
(* reader opens threads, leaves and comes back.  What the members and the group *)
(* are called is left out.                                                     *)
EXTENDS Backend, Naturals, FiniteSets

CONSTANTS
    Reader,     \* whose home it is
    Room,       \* conversations
    ClockLimit  \* bound on the times drawn

ASSUME HomeAssumption ==
    Reader \in Person /\ ClockLimit \in Nat /\ Person \cap {"chaos", "system"} = {}

VARIABLES
    clock,      \* the last time drawn
    mine,       \* conversations where the reader's left_at is NULL
    cursor,     \* seen_at of the reader; 0 for NULL
    said,       \* messages
    home,       \* the requests in flight, and the lists they answered
    walked      \* history: rooms the reader left while a list was being read

homeVars == <<clock, mine, cursor, said, home, walked>>

Said == [room : Room, at : 1..ClockLimit, by : Person \cup {"chaos", "system"}]

HomeStates ==
    [at : {"idle", "line", "members", "last", "unread", "names", "shown"},
     line : Said \cup {None},                   \* stamped, not committed
     rooms : SUBSET Room,
     last : [Room -> Said \cup {None}],
     dots : [Room -> 0..ClockLimit]]

NoHome == [at |-> "idle", line |-> None, rooms |-> {},
           last |-> [k \in Room |-> None], dots |-> [k \in Room |-> 0]]

HomeTypeOK ==
    /\ clock \in 0..ClockLimit
    /\ mine \subseteq Room
    /\ cursor \in [Room -> 0..ClockLimit]
    /\ said \subseteq Said
    /\ home \in [Request -> HomeStates]
    /\ walked \in [Request -> SUBSET Room]

HomeInit ==
    /\ clock = 0
    /\ mine = Room
    /\ cursor = [k \in Room |-> 0]
    /\ said = {}
    /\ home = [c \in Request |-> NoHome]
    /\ walked = [c \in Request |-> {}]

-----------------------------------------------------------------------------
(* What goes on meanwhile.                                                    *)
Draws == clock < ClockLimit /\ clock' = clock + 1

\* InsertMessage stamps the line before its transaction.
DrawLine(c, k, by) ==
    /\ home[c].at = "idle"
    /\ Draws
    /\ home' = [home EXCEPT ![c].at = "line", ![c].line = [room |-> k, at |-> clock', by |-> by]]
    /\ UNCHANGED <<mine, cursor, said, walked>>

SayLine(c) ==
    /\ home[c].at = "line"
    /\ said' = said \cup {home[c].line}
    /\ home' = [home EXCEPT ![c] = NoHome]
    /\ UNCHANGED <<clock, mine, cursor, walked>>

\* Opening a thread, or marking it.
OpenRoom(k) ==
    /\ k \in mine
    /\ Draws
    /\ cursor' = [cursor EXCEPT ![k] = clock']
    /\ UNCHANGED <<mine, said, home, walked>>

WalkOut(k) ==
    /\ k \in mine
    /\ mine' = mine \ {k}
    /\ walked' = [c \in Request |->
          IF home[c].at \in {"idle", "line"} THEN walked[c] ELSE walked[c] \cup {k}]
    /\ UNCHANGED <<clock, cursor, said, home>>

\* The seat that was left, with its cursor.
ComeBack(k) ==
    /\ mine' = mine \cup {k}
    /\ UNCHANGED <<clock, cursor, said, home, walked>>

-----------------------------------------------------------------------------
(* ListForUser.                                                               *)
\* ORDER BY sent_at DESC LIMIT 1.
LastLine(k) ==
    LET lines == {l \in said : l.room = k} IN
    IF lines = {} THEN None ELSE CHOOSE l \in lines : \A o \in lines : o.at <= l.at

\* The reader's own lines do not count, nor do those of the system.
Dots(k) ==
    IF k \notin mine THEN 0
    ELSE Cardinality({l \in said : l.room = k /\ l.at > cursor[k] /\ l.by \notin {Reader, "system"}})

\* The counts are read before the lines they count (DotMatchesPreview).
NextRead_CountsFirst ==
    [members |-> "unread", unread |-> "last", last |-> "names", names |-> "shown"]

NextRead == [members |-> "last", last |-> "unread", unread |-> "names", names |-> "shown"]

\* Somebody without conversations gets an empty list.
ListRooms(c) ==
    /\ home[c].at = "idle"
    /\ mine # {}
    /\ home' = [home EXCEPT ![c].at = "members", ![c].rooms = mine]
    /\ UNCHANGED <<clock, mine, cursor, said, walked>>

Reads(c, at, r) ==
    /\ home[c].at = at
    /\ home' = [home EXCEPT ![c] = [r EXCEPT !.at = NextRead[at]]]
    /\ UNCHANGED <<clock, mine, cursor, said, walked>>

MembersFor(c) == Reads(c, "members", home[c])

LastMessages(c) ==
    Reads(c, "last", [home[c] EXCEPT !.last =
        [k \in Room |-> IF k \in home[c].rooms THEN LastLine(k) ELSE None]])

UnreadCounts(c) == Reads(c, "unread", [home[c] EXCEPT !.dots = [k \in Room |-> Dots(k)]])

GroupNames(c) == Reads(c, "names", home[c])

\* The app has the list.
ShowHome(c) ==
    /\ home[c].at = "shown"
    /\ home' = [home EXCEPT ![c] = NoHome]
    /\ walked' = [walked EXCEPT ![c] = {}]
    /\ UNCHANGED <<clock, mine, cursor, said>>

HomeNext ==
    \/ \E c \in Request :
        \/ \E k \in Room, by \in Person \cup {"chaos", "system"} : DrawLine(c, k, by)
        \/ SayLine(c)
        \/ ListRooms(c) \/ MembersFor(c) \/ LastMessages(c) \/ UnreadCounts(c) \/ GroupNames(c)
        \/ ShowHome(c)
    \/ \E k \in Room : OpenRoom(k) \/ WalkOut(k) \/ ComeBack(k)

HomeSpec == HomeInit /\ [][HomeNext]_homeVars

-----------------------------------------------------------------------------
(* What the reader may rely on.                                               *)

\* A row whose last line is somebody else's and newer than anything the reader has
\* opened carries a dot, whatever was said while the list was read, unless the
\* reader left that conversation meanwhile.  (The other way round does not hold: a
\* line that arrives between the two reads is counted and not shown.)
DotMatchesPreview ==
    \A c \in Request : home[c].at = "shown" =>
        \A k \in home[c].rooms :
            LET line == home[c].last[k] IN
            line # None /\ line.by \notin {Reader, "system"} /\ line.at > cursor[k] =>
                home[c].dots[k] > 0 \/ k \in walked[c]
=============================================================================
