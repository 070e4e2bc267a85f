------------------------------ MODULE Accounts ------------------------------
(* The rows of users: how they come to be (sign-up, social sign-in, the admin  *)
(* API), how they are edited, deleted and erased, and the cache in front of    *)
(* the admin API.  One database statement or cache call per step; requests     *)
(* overlap, and carry the copies they read.                                    *)
EXTENDS Backend, Naturals

CONSTANTS
    Email,      \* e-mail addresses as they were typed; all share one local part
    Lower,      \* each of them in lower case
    Uid,        \* identities of Apple or Google
    Name,       \* display names
    Tries,      \* candidates uniqueHandle looks at: base, base2, ...
    AccLimit    \* bound on requests started

ASSUME AccountsAssumption == /\ Tries \in Nat \ {0}
                             /\ AccLimit \in Nat
                             /\ "Someone" \notin Name
                             /\ None \notin Email \cup Uid
                             /\ Email \subseteq DOMAIN Lower

VARIABLES
    users,      \* the table, deleted rows included; None where there is no row
    cached,     \* user:<id> in Redis
    accReq,     \* the requests in flight
    accLeft,    \* requests that may still start
    erased,     \* history: accounts AnonymizeAndDelete has scrubbed
    excused     \* history: cached copies whose staleness has a known cause

accVars == <<users, cached, accReq, accLeft, erased, excused>>

UserRow ==
    [email : Email \cup {None}, uid : Uid \cup {None}, handle : 1..Tries \cup {None},
     name : Name \cup {"Someone"}, live : BOOLEAN]

ASSUME NoRowAssumption == None \notin UserRow

Scrubbed == [email |-> None, uid |-> None, handle |-> None, name |-> "Someone", live |-> FALSE]

AccStates ==
    [at : {"idle", "exists", "byUid", "byEmail", "handle", "create", "update", "link",
           "read", "remove", "erase", "invalidate", "get", "load", "fill"},
     op : {"none", "register", "social", "merge", "admin", "profile", "view"},
     id : Person \cup {None},       \* the row the request is about
     row : UserRow \cup {None},     \* the copy it carries, or the row to insert
     n : 1..Tries]                  \* the candidate handle

NoAcc == [at |-> "idle", op |-> "none", id |-> None, row |-> None, n |-> 1]

NewRow(e, u, name) ==
    [email |-> e, uid |-> u, handle |-> None, name |-> name, live |-> TRUE]

AccTypeOK ==
    /\ users \in [Person -> UserRow \cup {None}]
    /\ cached \in [Person -> UserRow \cup {None}]
    /\ accReq \in [Request -> AccStates]
    /\ accLeft \in 0..AccLimit
    /\ erased \subseteq Person
    /\ excused \subseteq Person

AccInit ==
    /\ users = [p \in Person |-> None]
    /\ cached = [p \in Person |-> None]
    /\ accReq = [c \in Request |-> NoAcc]
    /\ accLeft = AccLimit
    /\ erased = {}
    /\ excused = {}

-----------------------------------------------------------------------------
(* The table.  Every lookup leaves deleted rows out; the unique indexes do not. *)
Live == {p \in Person : users[p] # None /\ users[p].live}

WithEmail(e) == {p \in Live : users[p].email # None /\ e # None /\ Lower[users[p].email] = Lower[e]}

WithUid(u) == {p \in Live : u # None /\ users[p].uid = u}

Collides(row) ==
    \E p \in Person : users[p] # None /\
        \/ row.email # None /\ users[p].email = row.email
        \/ row.uid # None /\ users[p].uid = row.uid
        \/ row.handle # None /\ users[p].handle = row.handle

Keep == UNCHANGED <<users, cached, accLeft, erased, excused>>

AccGoto(c, at) == accReq' = [accReq EXCEPT ![c].at = at]

AccDone(c) == accReq' = [accReq EXCEPT ![c] = NoAcc]

AccBegin(c, at, op, id, row) ==
    /\ accReq[c].at = "idle"
    /\ accLeft > 0
    /\ accLeft' = accLeft - 1
    /\ accReq' = [accReq EXCEPT ![c] = [at |-> at, op |-> op, id |-> id, row |-> row, n |-> 1]]
    /\ UNCHANGED <<users, cached, erased, excused>>

RegisterUser(c, e, name) == AccBegin(c, "exists", "register", None, NewRow(e, None, name))
SocialSignIn(c, u, e, name) == AccBegin(c, "byUid", "social", None, NewRow(e, u, name))
AdminCreate(c, e, name) == AccBegin(c, "create", "admin", None, NewRow(e, None, name))
AdminUpdate(c, p) == AccBegin(c, "read", "admin", p, None)
AdminDelete(c, p) == AccBegin(c, "remove", "admin", p, None)
EditProfile(c, p) == AccBegin(c, "read", "profile", p, None)
EraseAccountOf(c, p) == AccBegin(c, "erase", "profile", p, None)
AdminView(c, p) == AccBegin(c, "get", "view", p, None)

-----------------------------------------------------------------------------
(* Sign-up and sign-in.                                                       *)
ExistsByEmail(c) ==
    /\ accReq[c].at = "exists"
    /\ IF WithEmail(accReq[c].row.email) # {} THEN AccDone(c) ELSE AccGoto(c, "handle")
    /\ Keep

\* What follows refreshFromIdentity: an account found by e-mail is written again.
After(op) == IF op = "merge" THEN "link" ELSE "idle"

Goes(c, at, r) == accReq' = [accReq EXCEPT ![c] = IF at = "idle" THEN NoAcc ELSE [r EXCEPT !.at = at]]

\* refreshFromIdentity: a missing handle is looked for; a new picture, or a name
\* where there was none, is written back.
Refreshes(c, op, p, copy) ==
    LET r == [accReq[c] EXCEPT !.op = op, !.id = p, !.row =
                [copy EXCEPT !.name = IF @ = "Someone" THEN accReq[c].row.name ELSE @]] IN
    \E at \in (IF copy.handle = None /\ copy.email # None
              THEN {"handle"} ELSE {"update", After(op)}) : Goes(c, at, r)

\* GetByFirebaseUID; one that fails counts as one that found nobody.
ByUid(c) ==
    LET found == WithUid(accReq[c].row.uid) IN
    /\ accReq[c].at = "byUid"
    /\ \/ AccGoto(c, IF accReq[c].row.email = None THEN "create" ELSE "byEmail")
       \/ \E p \in found : Refreshes(c, "social", p, users[p])
    /\ Keep

\* GetByEmail, likewise.  The copy gets the identity; Update will not write it.
ByEmail(c) ==
    LET found == WithEmail(accReq[c].row.email) IN
    /\ accReq[c].at = "byEmail"
    /\ \/ AccGoto(c, "handle")
       \/ \E p \in found :
              Refreshes(c, "merge", p, [users[p] EXCEPT !.uid = accReq[c].row.uid])
    /\ Keep

HandleTaken(n) == \E p \in Live : users[p].handle = n

\* uniqueHandle: the first candidate nobody has, or the one whose lookup failed;
\* none when all are taken.
UniqueHandle(c) ==
    LET r == accReq[c]
        named == [r EXCEPT !.row.handle = r.n] IN
    /\ r.at = "handle"
    /\ \/ Goes(c, IF r.id = None THEN "create" ELSE "update", named)
       \/ HandleTaken(r.n) /\ r.n < Tries /\ Goes(c, "handle", [r EXCEPT !.n = @ + 1])
       \/ /\ HandleTaken(r.n) /\ r.n = Tries
          /\ \E at \in (IF r.id = None THEN {"create"} ELSE {"update", After(r.op)}) : Goes(c, at, r)
    /\ Keep

\* One INSERT; the three unique indexes have the last word.
CreateUser(c) ==
    /\ accReq[c].at = "create"
    /\ \/ Collides(accReq[c].row) /\ UNCHANGED users
       \/ /\ ~Collides(accReq[c].row)
          /\ \E p \in Person : users[p] = None /\ users' = [users EXCEPT ![p] = accReq[c].row]
    /\ AccDone(c)
    /\ UNCHANGED <<cached, accLeft, erased, excused>>

-----------------------------------------------------------------------------
(* Writes to a row.                                                           *)

\* users.Update: the address and the name of the copy, to a row not deleted.
Written(row, copy) == [row EXCEPT !.email = copy.email, !.name = copy.name]

\* Update as a plain statement by id, deleted rows included (ScrubStays).
UpdateUser_Unscoped(c) ==
    LET p == accReq[c].id IN
    /\ accReq[c].at \in {"update", "link"}
    /\ users' = [users EXCEPT ![p] = Written(@, accReq[c].row)]
    /\ excused' = excused \cup {p}
    /\ AccDone(c)
    /\ UNCHANGED <<cached, accLeft, erased>>

\* Only the admin API invalidates the cache after it.
UpdateUser(c) ==
    LET p == accReq[c].id  IN
    /\ accReq[c].at \in {"update", "link"}
    /\ IF p \in Live
       THEN /\ users' = [users EXCEPT ![p] = Written(@, accReq[c].row)]
            /\ excused' = IF accReq[c].op = "admin" THEN excused ELSE excused \cup {p}
            /\ Goes(c, IF accReq[c].op = "admin" THEN "invalidate"
                       ELSE IF accReq[c].at = "update" THEN After(accReq[c].op) ELSE "idle", accReq[c])
       ELSE \* NotFound, which refreshFromIdentity only logs
            /\ Goes(c, IF accReq[c].at = "update" THEN After(accReq[c].op) ELSE "idle", accReq[c])
            /\ UNCHANGED <<users, excused>>
    /\ UNCHANGED <<cached, accLeft, erased>>

ReadUser(c) ==
    LET p == accReq[c].id IN
    /\ accReq[c].at = "read"
    /\ IF p \in Live
       THEN \E name \in Name : accReq' = [accReq EXCEPT
                ![c].at = "update", ![c].row = [users[p] EXCEPT !.name = name]]
       ELSE AccDone(c)
    /\ Keep

\* The deletion forgets the cache (StaleHasCause).
SoftDelete_CacheKept(c) ==
    LET p == accReq[c].id IN
    /\ accReq[c].at = "remove"
    /\ p \in Live
    /\ users' = [users EXCEPT ![p].live = FALSE]
    /\ AccDone(c)
    /\ UNCHANGED <<cached, accLeft, erased, excused>>

SoftDelete(c) ==
    LET p == accReq[c].id IN
    /\ accReq[c].at = "remove"
    /\ IF p \in Live
       THEN users' = [users EXCEPT ![p].live = FALSE] /\ AccGoto(c, "invalidate")
       ELSE AccDone(c) /\ UNCHANGED users
    /\ UNCHANGED <<cached, accLeft, erased, excused>>

AnonymizeAndDelete(c) ==
    LET p == accReq[c].id IN
    /\ accReq[c].at = "erase"
    /\ IF p \in Live
       THEN /\ users' = [users EXCEPT ![p] = Scrubbed]
            /\ erased' = erased \cup {p}
            /\ excused' = excused \cup {p}
       ELSE UNCHANGED <<users, erased, excused>>
    /\ AccDone(c)
    /\ UNCHANGED <<cached, accLeft>>

-----------------------------------------------------------------------------
(* The cache-aside of the admin API.  Errors of Redis are ignored.            *)
Invalidate(c) ==
    LET p == accReq[c].id IN
    /\ accReq[c].at = "invalidate"
    /\ \/ cached' = [cached EXCEPT ![p] = None] /\ excused' = excused \ {p}
       \/ excused' = excused \cup {p} /\ UNCHANGED cached
    /\ AccDone(c)
    /\ UNCHANGED <<users, accLeft, erased>>

GetCached(c) ==
    /\ accReq[c].at = "get"
    /\ \/ cached[accReq[c].id] # None /\ AccDone(c)
       \/ AccGoto(c, "load")
    /\ Keep

LoadUser(c) ==
    LET p == accReq[c].id IN
    /\ accReq[c].at = "load"
    /\ IF p \in Live
       THEN accReq' = [accReq EXCEPT ![c].at = "fill", ![c].row = users[p]]
       ELSE AccDone(c)
    /\ Keep

FillCache(c) ==
    LET p == accReq[c].id IN
    /\ accReq[c].at = "fill"
    /\ \/ /\ cached' = [cached EXCEPT ![p] = accReq[c].row]
          /\ excused' = IF accReq[c].row = users[p] THEN excused \ {p} ELSE excused \cup {p}
       \/ UNCHANGED <<cached, excused>>
    /\ AccDone(c)
    /\ UNCHANGED <<users, accLeft, erased>>

\* Five minutes after the Set.
Expire(p) ==
    /\ cached[p] # None
    /\ cached' = [cached EXCEPT ![p] = None]
    /\ excused' = excused \ {p}
    /\ UNCHANGED <<users, accReq, accLeft, erased>>

AccStart(c) ==
    \/ \E e \in Email, name \in Name : RegisterUser(c, e, name) \/ AdminCreate(c, e, name)
    \/ \E u \in Uid, e \in Email \cup {None}, name \in Name \cup {"Someone"} :
          SocialSignIn(c, u, e, name)
    \/ \E p \in Person : \/ AdminUpdate(c, p) \/ AdminDelete(c, p) \/ EditProfile(c, p)
                         \/ EraseAccountOf(c, p) \/ AdminView(c, p)

AccNext ==
    \/ \E c \in Request :
        \/ AccStart(c)
        \/ ExistsByEmail(c) \/ ByUid(c) \/ ByEmail(c) \/ UniqueHandle(c) \/ CreateUser(c)
        \/ UpdateUser(c) \/ ReadUser(c) \/ SoftDelete(c) \/ AnonymizeAndDelete(c)
        \/ Invalidate(c) \/ GetCached(c) \/ LoadUser(c) \/ FillCache(c)
    \/ \E p \in Person : Expire(p)

AccSpec == AccInit /\ [][AccNext]_accVars

-----------------------------------------------------------------------------
(* What the rest of the server may rely on.                                   *)

\* An erased account stays erased: requests in flight carry copies of the row as
\* it was, and no edit, linking or refresh brings its address, identity, handle
\* or name back (users.Update leaves deleted rows alone).
ScrubStays == \A p \in erased : users[p] = Scrubbed

\* A cached copy differs from the row only for a cause the code accepts: a write
\* that does not go through the admin API, a reader that loaded the row before
\* the write and stored it after the invalidation, a Redis error, or an admin
\* write whose invalidation is still to come.
StaleHasCause ==
    \A p \in Person :
        cached[p] # None /\ cached[p] # users[p] =>
            \/ p \in excused
            \/ \E c \in Request : accReq[c].at = "invalidate" /\ accReq[c].id = p
=============================================================================
