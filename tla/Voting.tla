------------------------------- MODULE Voting -------------------------------
(***************************************************************************)
(* What a decision inside a conversation promises, with no database in     *)
(* sight: everybody holds at most one vote per decision, a click toggles   *)
(* it in one indivisible step, and the winner shown beside the tally is    *)
(* always the winner of that tally.                                        *)
(*                                                                         *)
(* VoteTx.tla is the transaction the repository runs; it implements this   *)
(* specification under the identity mapping of votes and resolved.         *)
(***************************************************************************)
CONSTANTS
    User,                \* people who can vote
    Decision,            \* votes attached to messages
    OptionsOf(_),        \* the options of a decision
    Winner(_, _),        \* the option a set of vote rows elects, or none
    NoWinner             \* what Winner answers when nothing is elected

VARIABLES
    votes,               \* vote rows <<option, user>>
    resolved             \* decision -> elected option or NoWinner

vars == <<votes, resolved>>

\* The rows a user holds in one decision.
RowsOf(vs, d, u) == {v \in vs : v[1] \in OptionsOf(d) /\ v[2] = u}

\* Voting for a second option moves the vote; voting for the option already
\* picked takes it back.
Toggled(vs, d, o, u) ==
    (vs \ RowsOf(vs, d, u)) \cup (IF <<o, u>> \in vs THEN {} ELSE {<<o, u>>})

Init ==
    /\ votes = {}
    /\ resolved = [d \in Decision |-> NoWinner]

Toggle(d, o, u) ==
    /\ votes' = Toggled(votes, d, o, u)
    /\ resolved' = [resolved EXCEPT ![d] = Winner(d, votes')]

Next == \E d \in Decision, u \in User : \E o \in OptionsOf(d) : Toggle(d, o, u)

Spec == Init /\ [][Next]_vars
=============================================================================
