--------------------------- MODULE MCThreadLines ---------------------------
(* An instance of Thread for what is said and what is read.  One behaviour is  *)
(* either one person sending, the others gone, for as many lines as the reply  *)
(* rule counts; or both asking, choosing, opening and reading.  Nobody comes   *)
(* or goes, so the members tell which.                                         *)
EXTENDS MCThread

MCReadLimit == 3

MCInit == Init \/ \E u \in User : InitWith({u})

MCSpec == MCInit /\ [][Next]_vars

Reading == active = Founders

\* ACTION_CONSTRAINT: the requests that begin are those of the scenario, and a
\* turn finds something to remember only where there is something to choose.
MCScenario ==
    /\ \A c \in Call : Idle(c) /\ ~Idle(c)' =>
        IF Reading
        THEN call'[c].op # "send" /\ Len(timeline) < MCReadLimit
        ELSE call'[c].op = "send"
    /\ Reading \/ UNCHANGED <<conv.decided, conv.open>>
=============================================================================
