------------------------------ MODULE Backend ------------------------------
(* What the modules around a conversation share: the accounts, the requests   *)
(* in flight (one goroutine each, handlers run concurrently), and NULL.        *)
CONSTANTS
    Person,     \* rows of users
    Request,    \* request goroutines
    None        \* NULL, or nothing

ASSUME BackendAssumption == None \notin Person \cup Request
=============================================================================
