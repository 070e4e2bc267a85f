-------------------------------- MODULE Push --------------------------------
(* Push notifications of one conversation: the device registry, the fan-out   *)
(* to members without a socket, what FCM answers, and what the deletion of an  *)
(* account does to them.  Every database statement and every call of FCM is a  *)
(* step; other requests run between any two of them.                           *)
EXTENDS Backend, Naturals

CONSTANTS
    Phone,          \* push tokens
    PushLimit,      \* bound on requests started
    FaultLimit      \* bound on statements and calls that fail

ASSUME PushAssumption == PushLimit \in Nat /\ FaultLimit \in Nat

VARIABLES
    devices,    \* devices: the account each push token is registered to
    retired,    \* tokens FCM answers "unregistered" for (outside)
    seated,     \* conversation_members with left_at NULL
    deleted,    \* users with deleted_at set
    pushReq,    \* the requests in flight
    pushLeft,   \* requests that may still start
    faultsLeft, \* failures that may still happen
    rejected,   \* history: tokens FCM named in the answer to a push
    lateSeat,   \* history: accounts seated after their deletion
    haunted     \* history: accounts a push reached that began after their deletion

pushVars == <<devices, retired, seated, deleted, pushReq, pushLeft, faultsLeft,
              rejected, lateSeat, haunted>>

Delivery == [to : Person, phone : Phone]

PushStates ==
    [at : {"idle", "seat", "erase", "tokens", "send", "prune"},
     who : Person \cup {None},          \* the account a seat or a deletion is for
     to : SUBSET Person,                \* members without a socket
     out : SUBSET Delivery,             \* what TokensFor, then FCM, answered
     gone : SUBSET Person]              \* deleted when the push began

NoPush == [at |-> "idle", who |-> None, to |-> {}, out |-> {}, gone |-> {}]

PushTypeOK ==
    /\ devices \in [Phone -> Person \cup {None}]
    /\ retired \subseteq Phone
    /\ seated \subseteq Person
    /\ deleted \subseteq Person
    /\ pushReq \in [Request -> PushStates]
    /\ pushLeft \in 0..PushLimit
    /\ faultsLeft \in 0..FaultLimit
    /\ rejected \subseteq Phone
    /\ lateSeat \subseteq deleted
    /\ haunted \subseteq Person

PushInit ==
    /\ devices = [t \in Phone |-> None]
    /\ retired = {}
    /\ seated = Person
    /\ deleted = {}
    /\ pushReq = [c \in Request |-> NoPush]
    /\ pushLeft = PushLimit
    /\ faultsLeft = FaultLimit
    /\ rejected = {}
    /\ lateSeat = {}
    /\ haunted = {}

-----------------------------------------------------------------------------
PushStarts == pushLeft > 0 /\ pushLeft' = pushLeft - 1

PushFault == faultsLeft > 0 /\ faultsLeft' = faultsLeft - 1

PushDone(c) == pushReq' = [pushReq EXCEPT ![c] = NoPush]

\* The access token of a deleted account works until it expires, so u is anyone.
RegisterDevice(u, t) ==
    /\ PushStarts
    /\ t \notin retired
    /\ devices' = [devices EXCEPT ![t] = u]
    /\ UNCHANGED <<retired, seated, deleted, pushReq, faultsLeft, rejected, lateSeat, haunted>>

UnregisterDevice(u, t) ==
    /\ PushStarts
    /\ devices' = [devices EXCEPT ![t] = IF @ = u THEN None ELSE @]
    /\ UNCHANGED <<retired, seated, deleted, pushReq, faultsLeft, rejected, lateSeat, haunted>>

\* FCM retires a token: the app was removed, or the phone was wiped.
Retire(t) ==
    /\ retired' = retired \cup {t}
    /\ UNCHANGED <<devices, seated, deleted, pushReq, pushLeft, faultsLeft, rejected, lateSeat, haunted>>

\* AddMembers and Join look the person up, and seat them some statements later.
LookUp(c, u) ==
    /\ PushStarts
    /\ pushReq[c].at = "idle"
    /\ u \notin deleted
    /\ pushReq' = [pushReq EXCEPT ![c] = [NoPush EXCEPT !.at = "seat", !.who = u]]
    /\ UNCHANGED <<devices, retired, seated, deleted, faultsLeft, rejected, lateSeat, haunted>>

TakeSeat(c) ==
    /\ pushReq[c].at = "seat"
    /\ seated' = seated \cup {pushReq[c].who}
    /\ lateSeat' = lateSeat \cup ({pushReq[c].who} \cap deleted)
    /\ PushDone(c)
    /\ UNCHANGED <<devices, retired, deleted, pushLeft, faultsLeft, rejected, haunted>>

\* DeleteAccount: the devices go first, and a failure there is only logged.
DeleteDevices(c, u) ==
    /\ PushStarts
    /\ pushReq[c].at = "idle"
    /\ pushReq' = [pushReq EXCEPT ![c] = [NoPush EXCEPT !.at = "erase", !.who = u]]
    /\ \/ /\ devices' = [t \in Phone |-> IF devices[t] = u THEN None ELSE devices[t]]
          /\ UNCHANGED faultsLeft
       \/ PushFault /\ UNCHANGED devices
    /\ UNCHANGED <<retired, seated, deleted, rejected, lateSeat, haunted>>

\* The deletion leaves the seats (GoneIsSilent).
EraseAccount_SeatsKept(c) ==
    /\ pushReq[c].at = "erase"
    /\ deleted' = deleted \cup {pushReq[c].who}
    /\ PushDone(c)
    /\ UNCHANGED <<devices, retired, seated, pushLeft, faultsLeft, rejected, lateSeat, haunted>>

\* AnonymizeAndDelete: every seat ends in the transaction that deletes the row.
EraseAccount(c) ==
    /\ pushReq[c].at = "erase"
    /\ \/ /\ seated' = seated \ {pushReq[c].who}
          /\ deleted' = deleted \cup {pushReq[c].who}
          /\ UNCHANGED faultsLeft
       \/ PushFault /\ UNCHANGED <<seated, deleted>>
    /\ PushDone(c)
    /\ UNCHANGED <<devices, retired, pushLeft, rejected, lateSeat, haunted>>

\* push: the members but the sender, less those the hub says have a socket.
ReadMembers(c, sender) ==
    /\ PushStarts
    /\ pushReq[c].at = "idle"
    /\ \E offline \in SUBSET (seated \ {sender}) :
        /\ offline # {}
        /\ pushReq' = [pushReq EXCEPT ![c] =
              [NoPush EXCEPT !.at = "tokens", !.to = offline, !.gone = deleted]]
    /\ UNCHANGED <<devices, retired, seated, deleted, faultsLeft, rejected, lateSeat, haunted>>

TokensFor(c) ==
    LET found == {d \in Delivery : devices[d.phone] = d.to /\ d.to \in pushReq[c].to} IN
    /\ pushReq[c].at = "tokens"
    /\ IF found = {}
       THEN PushDone(c)
       ELSE pushReq' = [pushReq EXCEPT ![c].at = "send", ![c].out = found]
    /\ UNCHANGED <<devices, retired, seated, deleted, pushLeft, faultsLeft, rejected, lateSeat, haunted>>

\* Prunes the whole multicast when FCM rejects one token (RegistrationEndsFairly).
SendPush_AllInvalid(c) ==
    /\ pushReq[c].at = "send"
    /\ \E invalid \in SUBSET pushReq[c].out :
        /\ IF invalid = {}
           THEN PushDone(c)
           ELSE pushReq' = [pushReq EXCEPT ![c].at = "prune"]
        /\ rejected' = rejected \cup {d.phone : d \in invalid}
    /\ UNCHANGED <<devices, retired, seated, deleted, pushLeft, faultsLeft, lateSeat, haunted>>

\* FCM answers for each token: the phone shows the push, it does not, or FCM names
\* the token, as unregistered or for an invalid argument.  The second may be about
\* the message, so FCM may name any token; a retired one shows nothing.
SendPush(c) ==
    /\ pushReq[c].at = "send"
    /\ \E invalid \in SUBSET pushReq[c].out :
        /\ \E shown \in SUBSET {d \in pushReq[c].out \ invalid : d.phone \notin retired} :
            haunted' = haunted \cup ({d.to : d \in shown} \cap pushReq[c].gone)
        /\ IF invalid = {}
           THEN PushDone(c)
           ELSE pushReq' = [pushReq EXCEPT ![c].at = "prune", ![c].out = invalid]
        /\ rejected' = rejected \cup {d.phone : d \in invalid}
    /\ UNCHANGED <<devices, retired, seated, deleted, pushLeft, faultsLeft, lateSeat>>

\* The whole multicast failed: FCM named nobody, and nothing is pruned.
SendFails(c) ==
    /\ pushReq[c].at = "send"
    /\ PushFault
    /\ PushDone(c)
    /\ UNCHANGED <<devices, retired, seated, deleted, pushLeft, rejected, lateSeat, haunted>>

\* DeleteTokens goes by token, whoever it belongs to by then.
Prune(c) ==
    LET invalid == {d.phone : d \in pushReq[c].out} IN
    /\ pushReq[c].at = "prune"
    /\ \/ /\ devices' = [t \in Phone |-> IF t \in invalid THEN None ELSE devices[t]]
          /\ UNCHANGED faultsLeft
       \/ PushFault /\ UNCHANGED devices
    /\ PushDone(c)
    /\ UNCHANGED <<retired, seated, deleted, pushLeft, rejected, lateSeat, haunted>>

PushNext ==
    \/ \E u \in Person, t \in Phone : RegisterDevice(u, t) \/ UnregisterDevice(u, t)
    \/ \E t \in Phone : Retire(t)
    \/ \E c \in Request :
        \/ \E u \in Person : LookUp(c, u) \/ DeleteDevices(c, u) \/ ReadMembers(c, u)
        \/ TakeSeat(c) \/ EraseAccount(c)
        \/ TokensFor(c) \/ SendPush(c) \/ SendFails(c) \/ Prune(c)

PushSpec == PushInit /\ [][PushNext]_pushVars

-----------------------------------------------------------------------------
(* What a push may rely on.                                                   *)

\* A push that begins after an account was deleted reaches its phones only if
\* somebody seated the account again after the deletion (AddMembers and Join
\* look the person up before they seat them): the seats end in the transaction
\* that deletes the row, so phones left behind by a failing DeleteAllForUser, or
\* registered with an access token that outlives the account, stay silent.
GoneIsSilent == haunted \subseteq lateSeat

\* A registration ends only when its own account signs the phone out or is being
\* deleted, when another account claims the phone, or when FCM named the token in
\* an answer: whatever the pushes in flight read before, and however few of a
\* multicast FCM refused, pruning takes no token FCM accepted every time.
RegistrationEndsFairly ==
    [][\A t \in Phone : devices[t] # None /\ devices'[t] = None =>
         \/ t \in rejected
         \/ UnregisterDevice(devices[t], t)
         \/ \E c \in Request : DeleteDevices(c, devices[t])]_pushVars
=============================================================================
