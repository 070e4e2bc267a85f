------------------------------- MODULE Outbox -------------------------------
(* What the event bus promises its publishers (events.go: "at-most-once bus"): *)
(* an event is accepted or dropped when it is published; an accepted one is    *)
(* handed to its handler once, and is not forgotten.                           *)
EXTENDS Naturals

CONSTANT Mail

VARIABLES
    waiting,    \* accepted, not handled yet
    tried       \* how often each event was handed to its handler

outVars == <<waiting, tried>>

OutInit == waiting = {} /\ tried = [m \in Mail |-> 0]

Accept(m) ==
    /\ m \notin waiting
    /\ tried[m] = 0
    /\ waiting' = waiting \cup {m}
    /\ UNCHANGED tried

Try(m) ==
    /\ m \in waiting
    /\ waiting' = waiting \ {m}
    /\ tried' = [tried EXCEPT ![m] = @ + 1]

OutNext == \E m \in Mail : Accept(m) \/ Try(m)

OutSafe == OutInit /\ [][OutNext]_outVars

OutSpec == OutSafe /\ \A m \in Mail : WF_outVars(Try(m))
=============================================================================
