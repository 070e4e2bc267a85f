---------------------------- MODULE PeopleProofs -----------------------------
(***************************************************************************)
(* Who there is (Accounts) and who is with whom (Groups).  The two share no *)
(* state, and each has its own invariant.                                  *)
(***************************************************************************)
EXTENDS Accounts, Groups, TLAPS

-----------------------------------------------------------------------------
(***************************************************************************)
(* An erased account stays erased, and a stale copy in the cache has a     *)
(* cause, for any accounts, addresses, identities, requests and bounds.    *)
(*                                                                         *)
(* Requests carry old copies of rows; what protects an erased row is that  *)
(* every write to a row but the erasure looks for one that is not deleted. *)
(* A copy in the cache goes stale by a write, and each write leaves either *)
(* an invalidation to come or one of the named causes behind.              *)
(***************************************************************************)

RowAt == {"exists", "byUid", "byEmail", "handle", "create", "update", "link", "fill"}

IdAt == {"update", "link", "read", "remove", "erase", "invalidate", "get", "load", "fill"}

\* What a request carries at each of its steps.
Carries ==
    \A c \in Request :
        /\ accReq[c].at \in RowAt => accReq[c].row \in UserRow
        /\ accReq[c].at \in IdAt => accReq[c].id \in Person

AccInv == AccTypeOK /\ Carries /\ ScrubStays /\ StaleHasCause

\* The invalidations to come.
Pending == {p \in Person : \E c \in Request : accReq[c].at = "invalidate" /\ accReq[c].id = p}

-----------------------------------------------------------------------------
\* A request that is not running has the type of one,
LEMMA NoAccTyped == NoAcc \in AccStates /\ NoAcc.at = "idle"
BY AccountsAssumption DEF NoAcc, AccStates

\* the row left of an erased account is one of the table, and not alive,
LEMMA ScrubbedTyped == Scrubbed \in UserRow /\ ~Scrubbed.live
BY DEF Scrubbed, UserRow

\* and so is the row of a new account.
LEMMA NewRowTyped ==
    ASSUME NEW e \in Email \cup {None}, NEW u \in Uid \cup {None}, NEW name \in Name \cup {"Someone"}
    PROVE  NewRow(e, u, name) \in UserRow
BY DEF NewRow, UserRow

\* Whoever is alive has a row.
LEMMA LiveRows ==
    ASSUME AccTypeOK, NEW p \in Live
    PROVE  p \in Person /\ users[p] \in UserRow /\ users[p].live
BY DEF Live, AccTypeOK

\* With empty tables nothing is violated.
LEMMA AccInitInv == AccInit => AccInv
<1> SUFFICES ASSUME AccInit PROVE AccInv
  OBVIOUS
<1>1. AccTypeOK
  BY NoAccTyped, AccountsAssumption DEF AccInit, AccTypeOK
<1>2. Carries
  BY NoAccTyped DEF AccInit, Carries, RowAt, IdAt
<1>3. ScrubStays /\ StaleHasCause
  BY DEF AccInit, ScrubStays, StaleHasCause
<1> QED
  BY <1>1, <1>2, <1>3 DEF AccInv

-----------------------------------------------------------------------------
(* What requests carry                                                      *)

Carried(r) ==
    /\ r \in AccStates
    /\ r.at \in RowAt => r.row \in UserRow
    /\ r.at \in IdAt => r.id \in Person

\* A step of one request leaves what the others carry,
LEMMA AccOneMoves ==
    ASSUME AccTypeOK, Carries, NEW c \in Request, NEW r, Carried(r),
           accReq' = [accReq EXCEPT ![c] = r]
    PROVE  accReq' \in [Request -> AccStates] /\ Carries'
BY DEF AccTypeOK, Carries, Carried

\* its end does,
LEMMA AccOneEnds ==
    ASSUME AccTypeOK, Carries, NEW c \in Request, AccDone(c)
    PROVE  accReq' \in [Request -> AccStates] /\ Carries'
<1>1. Carried(NoAcc)
  BY NoAccTyped DEF Carried, RowAt, IdAt
<1> QED
  BY <1>1, AccOneMoves DEF AccDone

\* and its going on from one statement to the next.
LEMMA AccOneGoes ==
    ASSUME AccTypeOK, Carries, NEW c \in Request, NEW r \in AccStates, NEW at, Goes(c, at, r),
           at \in {"idle", "handle", "create", "update", "link", "invalidate"},
           at # "idle" /\ at # "invalidate" => r.row \in UserRow,
           at \in {"update", "link", "invalidate"} => r.id \in Person
    PROVE  accReq' \in [Request -> AccStates] /\ Carries'
<1>1. CASE at = "idle"
  BY <1>1, AccOneEnds DEF Goes, AccDone
<1>2. CASE at # "idle"
  <2> DEFINE s == [r EXCEPT !.at = at]
  <2>1. s \in AccStates /\ s.at = at /\ s.row = r.row /\ s.id = r.id
    BY DEF AccStates
  <2>2. Carried(s)
    BY <1>2, <2>1 DEF Carried, RowAt, IdAt
  <2> QED
    BY <1>2, <2>2, AccOneMoves DEF Goes
<1> QED
  BY <1>1, <1>2

\* A request moves on with what it has.
LEMMA OneGotos ==
    ASSUME AccTypeOK, Carries, NEW c \in Request, NEW at, AccGoto(c, at),
           at \in {"handle", "create", "byEmail", "load", "invalidate"},
           at \in RowAt => accReq[c].row \in UserRow,
           at \in IdAt => accReq[c].id \in Person
    PROVE  accReq' \in [Request -> AccStates] /\ Carries'
<1> DEFINE s == [accReq[c] EXCEPT !.at = at]
<1>1. s \in AccStates /\ s.at = at /\ s.row = accReq[c].row /\ s.id = accReq[c].id
  BY DEF AccStates, AccTypeOK
<1>2. Carried(s)
  BY <1>1 DEF Carried
<1> QED
  BY <1>2, AccOneMoves DEF AccGoto

\* A request begins with what its first statement needs,
LEMMA Begins ==
    ASSUME AccTypeOK, Carries, NEW c \in Request, NEW at, NEW op, NEW id, NEW row,
           AccBegin(c, at, op, id, row),
           at \in {"exists", "byUid", "create", "read", "remove", "erase", "get"},
           op \in {"register", "social", "admin", "profile", "view"},
           id \in Person \cup {None}, row \in UserRow \cup {None},
           at \in RowAt => row \in UserRow, at \in IdAt => id \in Person
    PROVE  accReq' \in [Request -> AccStates] /\ Carries' /\ accLeft' \in 0..AccLimit
<1> DEFINE r == [at |-> at, op |-> op, id |-> id, row |-> row, n |-> 1]
<1>1. Carried(r)
  BY AccountsAssumption DEF Carried, AccStates
<1>2. accLeft' \in 0..AccLimit
  BY AccountsAssumption DEF AccBegin, AccTypeOK
<1> QED
  BY <1>1, <1>2, AccOneMoves DEF AccBegin

\* whichever operation it is.
LEMMA Starts ==
    ASSUME AccTypeOK, Carries, NEW c \in Request, AccStart(c)
    PROVE  accReq' \in [Request -> AccStates] /\ Carries' /\ accLeft' \in 0..AccLimit
<1>1. ASSUME NEW e \in Email, NEW name \in Name, RegisterUser(c, e, name) \/ AdminCreate(c, e, name)
      PROVE  accReq' \in [Request -> AccStates] /\ Carries' /\ accLeft' \in 0..AccLimit
  <2>1. NewRow(e, None, name) \in UserRow
    BY NewRowTyped
  <2> QED
    BY <1>1, <2>1, Begins DEF RegisterUser, AdminCreate, RowAt, IdAt
<1>2. ASSUME NEW u \in Uid, NEW e \in Email \cup {None}, NEW name \in Name \cup {"Someone"},
             SocialSignIn(c, u, e, name)
      PROVE  accReq' \in [Request -> AccStates] /\ Carries' /\ accLeft' \in 0..AccLimit
  <2>1. NewRow(e, u, name) \in UserRow
    BY NewRowTyped
  <2> QED
    BY <1>2, <2>1, Begins DEF SocialSignIn, RowAt, IdAt
<1>3. ASSUME NEW p \in Person, \/ AdminUpdate(c, p) \/ AdminDelete(c, p) \/ EditProfile(c, p)
                               \/ EraseAccountOf(c, p) \/ AdminView(c, p)
      PROVE  accReq' \in [Request -> AccStates] /\ Carries' /\ accLeft' \in 0..AccLimit
  BY <1>3, Begins DEF AdminUpdate, AdminDelete, EditProfile, EraseAccountOf, AdminView, RowAt, IdAt
<1> QED
  BY <1>1, <1>2, <1>3 DEF AccStart

\* The account found by identity or address; a copy of its row is refreshed.
LEMMA RefreshMoves ==
    ASSUME AccTypeOK, Carries, NEW c \in Request, accReq[c].row \in UserRow,
           NEW op \in {"social", "merge"}, NEW p \in Person, NEW copy \in UserRow,
           Refreshes(c, op, p, copy)
    PROVE  accReq' \in [Request -> AccStates] /\ Carries'
<1> DEFINE row == [copy EXCEPT !.name = IF @ = "Someone" THEN accReq[c].row.name ELSE @]
           r == [accReq[c] EXCEPT !.op = op, !.id = p, !.row = row]
<1>1. row \in UserRow
  BY DEF UserRow
<1>2. r \in AccStates /\ r.row = row /\ r.id = p
  BY <1>1 DEF AccStates, AccTypeOK
<1>3. PICK at \in {"handle", "update", After(op)} : Goes(c, at, r)
  BY DEF Refreshes
<1>4. at \in {"idle", "handle", "update", "link"}
  BY <1>3 DEF After
<1> HIDE DEF r, row
<1> QED
  BY <1>1, <1>2, <1>3, <1>4, AccOneGoes

\* So every request carries what its next statement needs, always.
LEMMA AccRequestsStep ==
    ASSUME AccTypeOK, Carries, [AccNext]_accVars
    PROVE  accReq' \in [Request -> AccStates] /\ Carries'
<1> DEFINE Goal == accReq' \in [Request -> AccStates] /\ Carries'
<1>a. \A c \in Request : accReq[c] \in AccStates
  BY DEF AccTypeOK
<1>1. ASSUME NEW c \in Request, AccStart(c) PROVE Goal
  BY <1>1, Starts
<1>2. ASSUME NEW c \in Request, ExistsByEmail(c) PROVE Goal
  BY <1>2, AccOneEnds, OneGotos DEF ExistsByEmail, Carries, RowAt, IdAt
<1>3. ASSUME NEW c \in Request, ByUid(c) PROVE Goal
  <2>1. accReq[c].row \in UserRow
    BY <1>3 DEF ByUid, Carries, RowAt
  <2>2. CASE \E p \in WithUid(accReq[c].row.uid) : Refreshes(c, "social", p, users[p])
    BY <2>1, <2>2, LiveRows, RefreshMoves DEF WithUid
  <2>3. CASE AccGoto(c, "create") \/ AccGoto(c, "byEmail")
    BY <2>1, <2>3, OneGotos DEF IdAt
  <2> QED
    BY <1>3, <2>2, <2>3 DEF ByUid
<1>4. ASSUME NEW c \in Request, ByEmail(c) PROVE Goal
  <2>1. accReq[c].row \in UserRow
    BY <1>4 DEF ByEmail, Carries, RowAt
  <2>2. ASSUME NEW p \in WithEmail(accReq[c].row.email),
               Refreshes(c, "merge", p, [users[p] EXCEPT !.uid = accReq[c].row.uid])
        PROVE  Goal
    <3>1. p \in Person /\ users[p] \in UserRow
      BY LiveRows DEF WithEmail
    <3>2. [users[p] EXCEPT !.uid = accReq[c].row.uid] \in UserRow
      BY <2>1, <3>1 DEF UserRow
    <3> QED
      BY <2>1, <2>2, <3>1, <3>2, RefreshMoves
  <2>3. CASE AccGoto(c, "handle")
    BY <2>1, <2>3, OneGotos DEF IdAt
  <2> QED
    BY <1>4, <2>2, <2>3 DEF ByEmail
<1>5. ASSUME NEW c \in Request, UniqueHandle(c) PROVE Goal
  <2> DEFINE r == accReq[c]
             named == [r EXCEPT !.row.handle = r.n]
             next == [r EXCEPT !.n = @ + 1]
  <2>1. r \in AccStates /\ r.row \in UserRow /\ r.n \in 1..Tries
    BY <1>a, <1>5 DEF UniqueHandle, Carries, RowAt, AccStates
  <2>2. named \in AccStates /\ named.row \in UserRow /\ named.id = r.id
    <3>1. [r.row EXCEPT !.handle = r.n] \in UserRow
      BY <2>1 DEF UserRow
    <3>2. named = [r EXCEPT !.row = [r.row EXCEPT !.handle = r.n]]
      BY <2>1 DEF AccStates
    <3> QED
      BY <2>1, <3>1, <3>2 DEF AccStates
  <2>3. r.n < Tries => next \in AccStates /\ next.row \in UserRow
    BY <2>1, AccountsAssumption DEF AccStates
  <2>4. r.id # None => r.id \in Person
    BY <2>1 DEF AccStates
  <2>5. CASE Goes(c, IF r.id = None THEN "create" ELSE "update", named)
    <3> HIDE DEF named, next
    <3> QED
      BY <2>2, <2>4, <2>5, AccOneGoes
  <2>6. CASE r.n < Tries /\ Goes(c, "handle", next)
    <3> HIDE DEF named, next
    <3> QED
      BY <2>3, <2>6, AccOneGoes
  <2>7. ASSUME NEW at \in (IF r.id = None THEN {"create"} ELSE {"update", After(r.op)}), Goes(c, at, r)
        PROVE  Goal
    <3>1. at \in {"idle", "create", "update", "link"} /\ (at \in {"update", "link"} => r.id # None)
      BY DEF After
    <3> QED
      BY <2>1, <2>4, <2>7, <3>1, AccOneGoes
  <2> QED
    BY <1>5, <2>5, <2>6, <2>7 DEF UniqueHandle
<1>6. ASSUME NEW c \in Request, CreateUser(c) \/ AnonymizeAndDelete(c) \/ Invalidate(c) \/ FillCache(c)
      PROVE  Goal
  BY <1>6, AccOneEnds DEF CreateUser, AnonymizeAndDelete, Invalidate, FillCache
<1>7. ASSUME NEW c \in Request, UpdateUser(c) PROVE Goal
  <2>1. accReq[c].row \in UserRow /\ accReq[c].id \in Person
    BY <1>7 DEF UpdateUser, Carries, RowAt, IdAt
  <2>2. PICK at \in {"idle", "link", "invalidate"} : Goes(c, at, accReq[c])
    BY <1>7 DEF UpdateUser, After
  <2> QED
    BY <1>a, <2>1, <2>2, AccOneGoes
<1>8. ASSUME NEW c \in Request, ReadUser(c) \/ LoadUser(c) PROVE Goal
  <2>1. accReq[c].id \in Person
    BY <1>8 DEF ReadUser, LoadUser, Carries, IdAt
  <2>2. CASE AccDone(c)
    BY <2>2, AccOneEnds
  <2>3. CASE ~AccDone(c)
    <3>1. users[accReq[c].id] \in UserRow
      BY <1>8, <2>3, LiveRows DEF ReadUser, LoadUser
    <3>2. PICK at \in {"update", "fill"}, row \in UserRow :
            accReq' = [accReq EXCEPT ![c].at = at, ![c].row = row]
      <4>1. \A name \in Name : [users[accReq[c].id] EXCEPT !.name = name] \in UserRow
        BY <3>1 DEF UserRow
      <4> QED
        BY <1>8, <2>3, <3>1, <4>1 DEF ReadUser, LoadUser
    <3> DEFINE s == [accReq[c] EXCEPT !.at = at, !.row = row]
    <3>3. s \in AccStates /\ s.at = at /\ s.row = row /\ s.id = accReq[c].id
      BY <1>a DEF AccStates
    <3>4. Carried(s)
      BY <2>1, <3>3 DEF Carried
    <3> QED
      BY <3>2, <3>4, AccOneMoves
  <2> QED
    BY <2>2, <2>3
<1>9. ASSUME NEW c \in Request, SoftDelete(c) PROVE Goal
  BY <1>9, AccOneEnds, OneGotos DEF SoftDelete, Carries, RowAt, IdAt
<1>10. ASSUME NEW c \in Request, GetCached(c) PROVE Goal
  BY <1>10, AccOneEnds, OneGotos DEF GetCached, Carries, RowAt, IdAt
<1>11. ASSUME UNCHANGED accReq PROVE Goal
  BY <1>11 DEF Carries, AccTypeOK
<1>12. (\E p \in Person : Expire(p)) \/ UNCHANGED accVars => UNCHANGED accReq
  BY DEF Expire, accVars
<1> HIDE DEF Goal
<1>13. Goal
  BY <1>1, <1>2, <1>3, <1>4, <1>5, <1>6, <1>7, <1>8, <1>9, <1>10, <1>11, <1>12 DEF AccNext
<1> QED
  BY <1>13 DEF Goal

-----------------------------------------------------------------------------
(* The table                                                                *)

\* What one step does to the rows: nothing, or one of five writes.
RowWrite(p) ==
    \/ users[p] = None /\ users'[p] \in UserRow /\ p \notin erased'
    \/ p \in Live /\ users'[p] \in UserRow /\ p \notin erased' \ erased
    \/ p \in Live /\ users'[p] = Scrubbed

\* A step changes a row only as one of the repository's statements does.
LEMMA TableStep ==
    ASSUME AccInv, [AccNext]_accVars
    PROVE  /\ users' \in [Person -> UserRow \cup {None}]
           /\ \A p \in Person : \/ users'[p] = users[p] /\ (p \in erased' => p \in erased)
                               \/ RowWrite(p)
           /\ erased' \subseteq Person
<1> DEFINE Goal == /\ users' \in [Person -> UserRow \cup {None}]
                   /\ \A p \in Person : \/ users'[p] = users[p] /\ (p \in erased' => p \in erased)
                                       \/ RowWrite(p)
                   /\ erased' \subseteq Person
<1>1. ASSUME UNCHANGED <<users, erased>> PROVE Goal
  BY <1>1 DEF AccInv, AccTypeOK
<1>2. ASSUME NEW c \in Request, CreateUser(c) PROVE Goal
  <2>1. CASE UNCHANGED users
    BY <1>2, <2>1, <1>1 DEF CreateUser
  <2>2. CASE ~UNCHANGED users
    <3>1. PICK p \in Person : users[p] = None /\ users' = [users EXCEPT ![p] = accReq[c].row]
      BY <1>2, <2>2 DEF CreateUser
    <3>2. accReq[c].row \in UserRow
      BY <1>2 DEF CreateUser, AccInv, Carries, RowAt
    <3>3. p \notin erased
      BY <3>1, ScrubbedTyped, NoRowAssumption DEF AccInv, ScrubStays
    <3>4. erased' = erased /\ erased \subseteq Person /\ users \in [Person -> UserRow \cup {None}]
      BY <1>2 DEF CreateUser, AccInv, AccTypeOK
    <3> QED
      BY <3>1, <3>2, <3>3, <3>4 DEF RowWrite
  <2> QED
    BY <2>1, <2>2
<1>3. ASSUME NEW c \in Request, UpdateUser(c) PROVE Goal
  <2> DEFINE p == accReq[c].id
  <2>1. p \in Person /\ accReq[c].row \in UserRow
    BY <1>3 DEF UpdateUser, AccInv, Carries, RowAt, IdAt
  <2>2. CASE p \in Live
    <3>1. Written(users[p], accReq[c].row) \in UserRow
      BY <2>1, <2>2, LiveRows DEF Written, UserRow, AccInv
    <3>2. users' = [users EXCEPT ![p] = Written(users[p], accReq[c].row)] /\ erased' = erased
      BY <1>3, <2>2 DEF UpdateUser
    <3> QED
      BY <2>1, <2>2, <3>1, <3>2 DEF RowWrite, AccInv, AccTypeOK
  <2>3. CASE p \notin Live
    BY <1>3, <2>3, <1>1 DEF UpdateUser
  <2> QED
    BY <2>2, <2>3
<1>4. ASSUME NEW c \in Request, SoftDelete(c) PROVE Goal
  <2> DEFINE p == accReq[c].id
  <2>1. CASE p \in Live
    <3>1. [users[p] EXCEPT !.live = FALSE] \in UserRow /\ p \in Person
      BY <2>1, LiveRows DEF UserRow, AccInv
    <3>2. users' = [users EXCEPT ![p] = [users[p] EXCEPT !.live = FALSE]] /\ erased' = erased
      BY <1>4, <2>1 DEF SoftDelete
    <3> QED
      BY <2>1, <3>1, <3>2 DEF RowWrite, AccInv, AccTypeOK
  <2>2. CASE p \notin Live
    BY <1>4, <2>2, <1>1 DEF SoftDelete
  <2> QED
    BY <2>1, <2>2
<1>5. ASSUME NEW c \in Request, AnonymizeAndDelete(c) PROVE Goal
  <2> DEFINE p == accReq[c].id
  <2>1. CASE p \in Live
    <3>1. users' = [users EXCEPT ![p] = Scrubbed] /\ erased' = erased \cup {p} /\ p \in Person
      BY <1>5, <2>1 DEF AnonymizeAndDelete, Live
    <3> QED
      BY <2>1, <3>1, ScrubbedTyped DEF RowWrite, AccInv, AccTypeOK
  <2>2. CASE p \notin Live
    BY <1>5, <2>2, <1>1 DEF AnonymizeAndDelete
  <2> QED
    BY <2>1, <2>2
<1>6. \/ UNCHANGED <<users, erased>>
      \/ \E c \in Request : CreateUser(c) \/ UpdateUser(c) \/ SoftDelete(c) \/ AnonymizeAndDelete(c)
  BY DEF AccNext, accVars, AccStart, RegisterUser, SocialSignIn, AdminCreate, AdminUpdate,
         AdminDelete, EditProfile, EraseAccountOf, AdminView, AccBegin, ExistsByEmail, ByUid,
         ByEmail, UniqueHandle, ReadUser, Invalidate, GetCached, LoadUser, FillCache, Expire, Keep
<1> HIDE DEF Goal
<1>7. Goal
  BY <1>1, <1>2, <1>3, <1>4, <1>5, <1>6
<1> QED
  BY <1>7 DEF Goal

\* Scrubbed rows are not live, and only live rows are written again.
LEMMA ScrubStep ==
    ASSUME AccInv, [AccNext]_accVars
    PROVE  ScrubStays'
<1>1. ASSUME NEW p \in erased' PROVE users'[p] = Scrubbed
  <2>1. p \in Person
    BY TableStep
  <2>2. p \in erased => users[p] = Scrubbed /\ p \notin Live /\ users[p] # None
    BY ScrubbedTyped, NoRowAssumption DEF AccInv, ScrubStays, Live
  <2> QED
    BY <2>1, <2>2, TableStep DEF RowWrite
<1> QED
  BY <1>1 DEF ScrubStays

-----------------------------------------------------------------------------
(* The cache                                                                *)

LEMMA CacheTyped ==
    ASSUME AccInv, [AccNext]_accVars
    PROVE  /\ cached' \in [Person -> UserRow \cup {None}]
           /\ excused' \subseteq Person
           /\ accLeft' \in 0..AccLimit
<1> USE DEF AccInv, AccTypeOK
<1>1. ASSUME NEW c \in Request, AccStart(c)
      PROVE  UNCHANGED <<cached, excused>> /\ accLeft' \in 0..AccLimit
  <2>1. accLeft' \in 0..AccLimit
    BY <1>1, Starts
  <2> QED
    BY <1>1, <2>1 DEF AccStart, RegisterUser, SocialSignIn, AdminCreate, AdminUpdate, AdminDelete,
       EditProfile, EraseAccountOf, AdminView, AccBegin
<1>2. ASSUME NEW c \in Request, UpdateUser(c) \/ AnonymizeAndDelete(c) \/ Invalidate(c)
      PROVE  /\ cached' \in [Person -> UserRow \cup {None}] /\ excused' \subseteq Person
             /\ accLeft' = accLeft
  <2>1. accReq[c].id \in Person
    BY <1>2 DEF UpdateUser, AnonymizeAndDelete, Invalidate, Carries, IdAt
  <2> QED
    BY <1>2, <2>1 DEF UpdateUser, AnonymizeAndDelete, Invalidate
<1>3. ASSUME NEW c \in Request, FillCache(c)
      PROVE  /\ cached' \in [Person -> UserRow \cup {None}] /\ excused' \subseteq Person
             /\ accLeft' = accLeft
  <2>1. accReq[c].id \in Person /\ accReq[c].row \in UserRow
    BY <1>3 DEF FillCache, Carries, IdAt, RowAt
  <2> QED
    BY <1>3, <2>1 DEF FillCache
<1>4. ASSUME NEW p \in Person, Expire(p)
      PROVE  /\ cached' \in [Person -> UserRow \cup {None}] /\ excused' \subseteq Person
             /\ accLeft' = accLeft
  BY <1>4 DEF Expire
<1>5. \/ UNCHANGED <<cached, excused, accLeft>>
      \/ \E c \in Request : \/ AccStart(c) \/ UpdateUser(c) \/ AnonymizeAndDelete(c)
                            \/ Invalidate(c) \/ FillCache(c)
      \/ \E p \in Person : Expire(p)
  BY DEF AccNext, accVars, ExistsByEmail, ByUid, ByEmail, UniqueHandle, CreateUser, ReadUser,
         SoftDelete, GetCached, LoadUser, Keep
<1> QED
  BY <1>1, <1>2, <1>3, <1>4, <1>5

\* The types are kept, with what the requests carry.
LEMMA AccTypeStep ==
    ASSUME AccInv, [AccNext]_accVars
    PROVE  AccTypeOK' /\ Carries'
BY TableStep, CacheTyped, AccRequestsStep DEF AccInv, AccTypeOK

\* The cause of a copy that differs from its row.
Stale(p) == cached[p] # None /\ cached[p] # users[p]

\* A request leaves its invalidation only by doing it.
LEMMA PendingStays ==
    ASSUME AccInv, [AccNext]_accVars, \A c \in Request : ~Invalidate(c)
    PROVE  Pending \subseteq Pending'
<1>1. ASSUME NEW c \in Request, accReq[c].at = "invalidate" PROVE accReq'[c] = accReq[c]
  <2>1. accReq \in [Request -> AccStates]
    BY DEF AccInv, AccTypeOK
  <2>2. ASSUME NEW d \in Request, d # c PROVE \A r : [accReq EXCEPT ![d] = r][c] = accReq[c]
    BY <2>1, <2>2
  <2>3. ASSUME NEW d \in Request, AccStart(d) PROVE accReq'[c] = accReq[c]
    BY <1>1, <2>1, <2>3 DEF AccStart, RegisterUser, SocialSignIn, AdminCreate, AdminUpdate,
       AdminDelete, EditProfile, EraseAccountOf, AdminView, AccBegin
  <2>4. ASSUME NEW d \in Request, ExistsByEmail(d) \/ CreateUser(d) \/ AnonymizeAndDelete(d)
                                  \/ SoftDelete(d) \/ GetCached(d) \/ FillCache(d)
        PROVE  accReq'[c] = accReq[c]
    BY <1>1, <2>1, <2>4 DEF ExistsByEmail, CreateUser, AnonymizeAndDelete, SoftDelete, GetCached,
       FillCache, AccDone, AccGoto
  <2>5. ASSUME NEW d \in Request, ByUid(d) \/ ByEmail(d) PROVE accReq'[c] = accReq[c]
    BY <1>1, <2>1, <2>5 DEF ByUid, ByEmail, Refreshes, Goes, AccGoto
  <2>6. ASSUME NEW d \in Request, UniqueHandle(d) \/ UpdateUser(d) PROVE accReq'[c] = accReq[c]
    BY <1>1, <2>1, <2>6 DEF UniqueHandle, UpdateUser, Goes
  <2>7. ASSUME NEW d \in Request, ReadUser(d) \/ LoadUser(d) PROVE accReq'[c] = accReq[c]
    BY <1>1, <2>1, <2>7 DEF ReadUser, LoadUser, AccDone
  <2>8. CASE UNCHANGED accReq
    BY <2>8
  <2> QED
    BY <2>3, <2>4, <2>5, <2>6, <2>7, <2>8 DEF AccNext, accVars, Expire
<1> QED
  BY <1>1 DEF Pending

\* A row that differs from its cached copy has a request on its way to the cache, or a
\* cause that was counted.
LEMMA StaleStep ==
    ASSUME AccInv, [AccNext]_accVars
    PROVE  StaleHasCause'
<1>a. \A p \in Person : Stale(p) => p \in excused \cup Pending
  BY DEF AccInv, StaleHasCause, Stale, Pending
<1> DEFINE Goal == \A p \in Person : Stale(p)' => p \in excused' \cup Pending'
<1>b. users \in [Person -> UserRow \cup {None}] /\ cached \in [Person -> UserRow \cup {None}]
      /\ accReq \in [Request -> AccStates]
  BY DEF AccInv, AccTypeOK
<1>1. ASSUME UNCHANGED <<users, cached, excused>>, \A c \in Request : ~Invalidate(c)
      PROVE  Goal
  BY <1>1, <1>a, PendingStays DEF Stale
<1>2. ASSUME NEW c \in Request, CreateUser(c) PROVE Goal
  <2>1. Pending \subseteq Pending'
    <3>1. \A d \in Request : accReq[d].at = "invalidate" => accReq'[d] = accReq[d]
      BY <1>b, <1>2 DEF CreateUser, AccDone
    <3> QED
      BY <3>1 DEF Pending
  <2>2. \A p \in Person : users'[p] = users[p] \/ users[p] = None
    BY <1>b, <1>2 DEF CreateUser
  <2> QED
    BY <1>a, <1>2, <2>1, <2>2 DEF CreateUser, Stale
<1>3. ASSUME NEW c \in Request, UpdateUser(c) PROVE Goal
  <2>1. \A d \in Request : accReq[d].at = "invalidate" => accReq'[d] = accReq[d]
    BY <1>b, <1>3 DEF UpdateUser, Goes
  <2>2. Pending \subseteq Pending'
    BY <2>1 DEF Pending
  <2> DEFINE p == accReq[c].id
  <2>3. CASE p \in Live /\ accReq[c].op = "admin"
    <3>1. accReq' = [accReq EXCEPT ![c] = [accReq[c] EXCEPT !.at = "invalidate"]]
      BY <1>3, <2>3 DEF UpdateUser, Goes
    <3>2. p \in Pending'
      BY <1>b, <2>3, <3>1 DEF Pending, AccStates, Live
    <3>3. \A q \in Person : q # p => users'[q] = users[q]
      BY <1>b, <1>3, <2>3 DEF UpdateUser
    <3> QED
      BY <1>a, <1>3, <2>2, <2>3, <3>2, <3>3 DEF UpdateUser, Stale
  <2>4. CASE ~(p \in Live /\ accReq[c].op = "admin")
    <3>1. \A q \in Person : users'[q] = users[q] \/ q \in excused'
      BY <1>b, <1>3, <2>4 DEF UpdateUser
    <3>2. excused \subseteq excused' /\ cached' = cached
      BY <1>3, <2>4 DEF UpdateUser
    <3> QED
      BY <1>a, <2>2, <3>1, <3>2 DEF Stale
  <2> QED
    BY <2>3, <2>4
<1>4. ASSUME NEW c \in Request, SoftDelete(c) PROVE Goal
  <2>1. \A d \in Request : accReq[d].at = "invalidate" => accReq'[d] = accReq[d]
    BY <1>b, <1>4 DEF SoftDelete, AccGoto, AccDone
  <2>2. Pending \subseteq Pending'
    BY <2>1 DEF Pending
  <2> DEFINE p == accReq[c].id
  <2>3. \A q \in Person : users'[q] = users[q] \/ (q = p /\ p \in Live)
    BY <1>b, <1>4 DEF SoftDelete
  <2>4. p \in Live => p \in Pending'
    BY <1>b, <1>4 DEF SoftDelete, AccGoto, Pending, AccStates, Live
  <2> QED
    BY <1>a, <1>4, <2>2, <2>3, <2>4 DEF SoftDelete, Stale
<1>5. ASSUME NEW c \in Request, AnonymizeAndDelete(c) PROVE Goal
  <2>1. \A d \in Request : accReq[d].at = "invalidate" => accReq'[d] = accReq[d]
    BY <1>b, <1>5 DEF AnonymizeAndDelete, AccDone
  <2>2. Pending \subseteq Pending'
    BY <2>1 DEF Pending
  <2>3. /\ \A q \in Person : users'[q] = users[q] \/ q \in excused'
        /\ excused \subseteq excused' /\ cached' = cached
    BY <1>b, <1>5 DEF AnonymizeAndDelete
  <2> QED
    BY <1>a, <2>2, <2>3 DEF Stale
<1>6. ASSUME NEW c \in Request, Invalidate(c) PROVE Goal
  <2> DEFINE p == accReq[c].id
  <2>1. \A d \in Request : d # c => accReq'[d] = accReq[d]
    BY <1>b, <1>6 DEF Invalidate, AccDone
  <2>2. \A q \in Pending : q = p \/ q \in Pending'
    BY <2>1 DEF Pending
  <2>3. \A q \in Person : q # p => cached'[q] = cached[q] /\ (q \in excused => q \in excused')
    BY <1>b, <1>6 DEF Invalidate
  <2>4. p \in Person => cached'[p] = None \/ p \in excused'
    BY <1>b, <1>6 DEF Invalidate
  <2> QED
    BY <1>a, <1>6, <2>2, <2>3, <2>4 DEF Invalidate, Stale
<1>7. ASSUME NEW c \in Request, FillCache(c) PROVE Goal
  <2> DEFINE p == accReq[c].id
  <2>1. \A d \in Request : accReq[d].at = "invalidate" => accReq'[d] = accReq[d]
    BY <1>b, <1>7 DEF FillCache, AccDone
  <2>2. Pending \subseteq Pending'
    BY <2>1 DEF Pending
  <2>3. CASE UNCHANGED <<cached, excused>>
    BY <1>a, <1>7, <2>2, <2>3 DEF FillCache, Stale
  <2>4. CASE /\ cached' = [cached EXCEPT ![p] = accReq[c].row]
             /\ excused' = IF accReq[c].row = users[p] THEN excused \ {p} ELSE excused \cup {p}
    <3>1. \A q \in Person : q # p => cached'[q] = cached[q] /\ (q \in excused => q \in excused')
      BY <1>b, <2>4
    <3>2. p \in Person => cached'[p] = users[p] \/ p \in excused'
      BY <1>b, <2>4
    <3>3. users' = users
      BY <1>7 DEF FillCache
    <3> QED
      BY <1>a, <2>2, <3>1, <3>2, <3>3 DEF Stale
  <2> QED
    BY <1>7, <2>3, <2>4 DEF FillCache
<1>8. ASSUME NEW x \in Person, Expire(x) PROVE Goal
  <2>1. Pending' = Pending
    BY <1>8 DEF Expire, Pending
  <2>2. /\ cached'[x] = None
        /\ \A q \in Person : q # x => cached'[q] = cached[q] /\ (q \in excused => q \in excused')
        /\ users' = users
    BY <1>b, <1>8 DEF Expire
  <2> QED
    BY <1>a, <2>1, <2>2 DEF Stale
<1>9. \/ \E c \in Request : \/ CreateUser(c) \/ UpdateUser(c) \/ SoftDelete(c)
                            \/ AnonymizeAndDelete(c) \/ Invalidate(c) \/ FillCache(c)
      \/ \E x \in Person : Expire(x)
      \/ UNCHANGED <<users, cached, excused>>
  BY DEF AccNext, accVars, AccStart, RegisterUser, SocialSignIn, AdminCreate, AdminUpdate,
         AdminDelete, EditProfile, EraseAccountOf, AdminView, AccBegin, ExistsByEmail, ByUid,
         ByEmail, UniqueHandle, ReadUser, GetCached, LoadUser, Keep
<1> HIDE DEF Goal
<1>10. Goal
  BY <1>1, <1>2, <1>3, <1>4, <1>5, <1>6, <1>7, <1>8, <1>9
<1> QED
  BY <1>10 DEF Goal, StaleHasCause, Stale, Pending

-----------------------------------------------------------------------------
\* Together they are inductive.
LEMMA AccInvStep ==
    ASSUME AccInv, [AccNext]_accVars
    PROVE  AccInv'
BY AccTypeStep, ScrubStep, StaleStep DEF AccInv

\* The inductive invariant of the accounts.
THEOREM AccInvHolds == AccSpec => []AccInv
<1>1. AccInv /\ [AccNext]_accVars => AccInv'
  BY AccInvStep
<1> QED
  BY AccInitInv, <1>1, PTL DEF AccSpec

\* Every variable keeps its type; a request has the row and the copy it needs.
THEOREM AccTypes == AccSpec => []AccTypeOK
<1>1. AccInv => AccTypeOK
  BY DEF AccInv
<1> QED
  BY AccInvHolds, <1>1, PTL

\* No edit, linking or refresh brings an erased account back.
THEOREM Scrub == AccSpec => []ScrubStays
<1>1. AccInv => ScrubStays
  BY DEF AccInv
<1> QED
  BY AccInvHolds, <1>1, PTL

\* A cached copy that differs from its row has one of the accepted causes.
THEOREM Cached == AccSpec => []StaleHasCause
<1>1. AccInv => StaleHasCause
  BY DEF AccInv
<1> QED
  BY AccInvHolds, <1>1, PTL

-----------------------------------------------------------------------------
(***************************************************************************)
(* A dissolved group is forgotten, and a group is changed by its members,  *)
(* for any people, groups, lines, conversations, requests and bounds.      *)
(*                                                                         *)
(* A request holds two kinds of knowledge that the tables may outgrow:     *)
(* that its caller is a member (Seated), and that the group it reads was   *)
(* alive (Alive).  The first is true, or the caller was overtaken; the     *)
(* second is enough because what was dissolved when a request began stays  *)
(* dissolved, so whoever still finds the group alive asked before its end. *)
(***************************************************************************)

Acting == {"load", "act", "search", "standIn", "seat"}

\* What a request is about.
About(c) ==
    LET r == grpReq[c] IN
    /\ r.at # "idle" => r.g \in Made
    /\ r.at \in Acting \cup {"member"} => r.who \in Person
    /\ r.at \in {"member", "load", "act"} =>
          /\ r.op \in {"add", "remove"} => r.arg \in Person
          /\ r.op \in {"remember", "forget"} => r.arg \in Line
    /\ r.at = "seat" => r.arg \in Person
    /\ r.at = "name" => r.op = "turn"

\* Its caller was found in the group, and is still there unless overtaken.
Seated(c) ==
    LET r == grpReq[c] IN
    r.at \in Acting => r.who \in groups[r.g].in \/ c \in overtaken

\* What it found alive was not dissolved when it began.
Alive(c) ==
    LET r == grpReq[c] IN
    /\ r.gone \subseteq Ended
    /\ r.named \/ (r.op = "ask" /\ r.at \in {"recall", "threads", "answer"}) => r.g \notin r.gone

Requests == \A c \in Request : About(c) /\ Seated(c) /\ Alive(c)

\* Only a group there is can be dissolved, and be filed under.
MadeFirst == Ended \subseteq Made /\ \A k \in Chat : filed[k] \in Made \cup {None}

GroupInv == GroupTypeOK /\ Requests /\ MadeFirst /\ DissolvedIsForgotten

-----------------------------------------------------------------------------
\* A request that is not running has the type of one,
LEMMA NoGrpTyped == NoGrp \in GroupStates
BY DEF NoGrp, GroupStates, GroupOp

\* and nothing to its name.
LEMMA IdleIsFine ==
    /\ NoGrp.at = "idle" /\ NoGrp.gone = {} /\ ~NoGrp.named /\ NoGrp.op = "none"
    /\ NoGrp.g = None /\ NoGrp.who = None
BY DEF NoGrp

\* The row of a new group is one of the table.
LEMMA FoundedTyped ==
    ASSUME NEW p \in Person, NEW members \in SUBSET Person, NEW known \in SUBSET Line
    PROVE  /\ [Founded(p, members) EXCEPT !.knows = known] \in GroupRow
           /\ [Founded(p, members) EXCEPT !.knows = known].by = p
           /\ ~[Founded(p, members) EXCEPT !.knows = known].ended
           /\ Founded(p, members) \in GroupRow
           /\ Founded(p, members).by = p
           /\ ~Founded(p, members).ended
BY DEF Founded, NoGroup, GroupRow

\* With no group and no request nothing is violated.
LEMMA GroupInitInv == GroupInit => GroupInv
<1> SUFFICES ASSUME GroupInit PROVE GroupInv
  OBVIOUS
<1>1. NoGroup \in GroupRow /\ NoGroup.by = None /\ ~NoGroup.ended
  BY DEF NoGroup, GroupRow
<1>2. PICK p \in Callers, known \in SUBSET Line :
        groups \in [Group -> {NoGroup, [Founded(p, Callers) EXCEPT !.knows = known]}]
  BY DEF GroupInit
<1>3. p \in Person /\ Callers \subseteq Person
  BY DEF Callers
<1>4. \A g \in Group : groups[g] \in GroupRow /\ ~groups[g].ended
  <2> DEFINE old == [Founded(p, Callers) EXCEPT !.knows = known]
  <2>1. old \in GroupRow /\ ~old.ended
    BY <1>3, FoundedTyped
  <2>2. \A g \in Group : groups[g] \in {NoGroup, old}
    BY <1>2
  <2> HIDE DEF old
  <2> QED
    BY <1>1, <2>1, <2>2
<1>5. groups \in [Group -> GroupRow]
  BY <1>2, <1>4
<1>6. GroupTypeOK
  BY <1>5, NoGrpTyped, GroupsAssumption DEF GroupInit, GroupTypeOK, Made
<1>7. ASSUME NEW c \in Request PROVE About(c) /\ Seated(c) /\ Alive(c)
  <2>1. grpReq[c] = NoGrp
    BY DEF GroupInit
  <2> QED
    BY <2>1, IdleIsFine DEF About, Seated, Alive, Acting
<1>8. MadeFirst
  BY <1>4 DEF GroupInit, MadeFirst, Ended
<1>9. DissolvedIsForgotten
  BY DEF GroupInit, DissolvedIsForgotten
<1> QED
  BY <1>6, <1>7, <1>8, <1>9 DEF GroupInv, Requests

-----------------------------------------------------------------------------
(* Types                                                                    *)

LEMMA EndsTyped ==
    ASSUME GroupTypeOK, NEW c \in Request, GrpEnds(c)
    PROVE  grpReq' \in [Request -> GroupStates] /\ overtaken' \subseteq Request
BY NoGrpTyped DEF GroupTypeOK, GrpEnds

\* A request that goes on to another statement keeps its type,
LEMMA GotoTyped ==
    ASSUME GroupTypeOK, NEW c \in Request, NEW at, GrpGoto(c, at),
           at \in {"load", "act", "search", "standIn", "seat", "recall", "threads", "answer"}
    PROVE  grpReq' \in [Request -> GroupStates] /\ overtaken' \subseteq Request
BY DEF GroupTypeOK, GrpGoto, GroupStates

\* and a row it writes has the type of the table's.
LEMMA RowTyped ==
    ASSUME GroupTypeOK, NEW c \in Request, grpReq[c].g \in Group,
           NEW row \in GroupRow, SetRow(c, row)
    PROVE  groups' \in [Group -> GroupRow]
BY DEF GroupTypeOK, SetRow

\* Every step keeps the types.
LEMMA GroupTypeStep ==
    ASSUME GroupTypeOK, Requests, [GroupNext]_grpVars
    PROVE  GroupTypeOK'
<1> USE GroupsAssumption DEF GroupTypeOK, GrpStarts
<1>0. \A c \in Request : grpReq[c].at # "idle" => grpReq[c].g \in Group /\ groups[grpReq[c].g] \in GroupRow
  BY DEF Requests, About, Made
<1>1. ASSUME NEW p \in Callers, NEW g \in Group, NEW others \in SUBSET Person, MakeGroup(p, g, others)
      PROVE  GroupTypeOK'
  <2>1. p \in Person
    BY DEF Callers
  <2>2. Founded(p, {p} \cup others) \in GroupRow
    BY <2>1, FoundedTyped
  <2> QED
    BY <1>1, <2>2 DEF MakeGroup
<1>2. ASSUME NEW k \in Chat, NEW g \in Group \cup {None}, FileUnder(k, g) PROVE GroupTypeOK'
  BY <1>2 DEF FileUnder
<1>3. ASSUME NEW p \in Person, EraseMember(p) PROVE GroupTypeOK'
  <2>1. \A g \in Group : [groups[g] EXCEPT !.in = @ \ {p}] \in GroupRow
    BY DEF GroupRow
  <2> QED
    BY <1>3, <2>1 DEF EraseMember
<1>4. ASSUME NEW c \in Request, GroupCalls(c) PROVE GroupTypeOK'
  <2>1. PICK p \in Callers, g \in Made, op \in GroupOp, arg \in Person \cup Line \cup {None} :
          CallGroup(c, p, g, op, arg)
    BY <1>4 DEF GroupCalls, GroupOp
  <2>2. p \in Person /\ g \in Group /\ Ended \subseteq Group
    BY DEF Callers, Made, Ended
  <2>3. [NoGrp EXCEPT !.at = "member", !.op = op, !.who = p, !.g = g, !.arg = arg, !.gone = Ended]
          \in GroupStates
    BY <2>2, NoGrpTyped DEF GroupStates
  <2> QED
    BY <2>1, <2>3 DEF CallGroup
<1>5. ASSUME NEW c \in Request, IsMember(c) \/ LoadGroup(c) \/ FindPerson(c) \/ ReadThreads(c) \/ Answer(c)
      PROVE  GroupTypeOK'
  <2>1. \/ GrpEnds(c)
        \/ \E at \in {"load", "act", "search", "standIn", "seat", "recall", "threads", "answer"} :
              GrpGoto(c, at)
    BY <1>5 DEF IsMember, LoadGroup, FindPerson, ReadThreads, Answer
  <2>2. grpReq' \in [Request -> GroupStates] /\ overtaken' \subseteq Request
    BY <2>1, EndsTyped, GotoTyped
  <2>3. ghosts' \subseteq Group
    BY <1>5, <1>0 DEF IsMember, LoadGroup, FindPerson, ReadThreads, Answer
  <2> QED
    BY <1>5, <2>2, <2>3 DEF IsMember, LoadGroup, FindPerson, ReadThreads, Answer
<1>6. ASSUME NEW c \in Request, SearchStandIn(c) \/ CreateStandIn(c) PROVE GroupTypeOK'
  <2>1. \A p \in Person : [grpReq[c] EXCEPT !.at = "seat", !.arg = p] \in GroupStates
    BY DEF GroupStates
  <2>2. CASE GrpGoto(c, "standIn")
    <3>1. grpReq' \in [Request -> GroupStates] /\ overtaken' \subseteq Request
      BY <2>2, GotoTyped
    <3> QED
      BY <1>6, <3>1 DEF SearchStandIn, CreateStandIn
  <2>3. CASE ~GrpGoto(c, "standIn")
    BY <1>6, <2>1, <2>3 DEF SearchStandIn, CreateStandIn
  <2> QED
    BY <2>2, <2>3
<1>7. ASSUME NEW c \in Request, GroupWrite(c) PROVE GroupTypeOK'
  <2>1. grpReq[c].at # "idle" /\ grpReq[c].g \in Group /\ groups[grpReq[c].g] \in GroupRow
    BY <1>7, <1>0 DEF GroupWrite, RenameGroup, Dissolve, SeatMember, RemoveMember, Remember, Forget, Does
  <2>2. grpReq' \in [Request -> GroupStates] /\ overtaken' \subseteq Request
    BY <1>7, EndsTyped, NoGrpTyped
       DEF GroupWrite, RenameGroup, Dissolve, SeatMember, RemoveMember, Remember, Forget
  <2>3. \E row \in GroupRow : SetRow(c, row)
    <3>1. CASE RenameGroup(c)
      BY <2>1, <3>1 DEF RenameGroup, GroupRow
    <3>2. CASE Dissolve(c)
      BY <2>1, <3>2 DEF Dissolve, GroupRow
    <3>3. CASE SeatMember(c)
      <4>1. grpReq[c].arg \in Person
        BY <3>3 DEF SeatMember, Requests, About
      <4> QED
        BY <2>1, <3>3, <4>1 DEF SeatMember, GroupRow
    <3>4. CASE RemoveMember(c)
      BY <2>1, <3>4 DEF RemoveMember, GroupRow
    <3>5. CASE Remember(c)
      <4>1. grpReq[c].arg \in Line
        BY <3>5 DEF Remember, Does, Requests, About
      <4> QED
        BY <2>1, <3>5, <4>1 DEF Remember, GroupRow
    <3>6. CASE Forget(c)
      BY <2>1, <3>6 DEF Forget, GroupRow
    <3> QED
      BY <1>7, <3>1, <3>2, <3>3, <3>4, <3>5, <3>6 DEF GroupWrite
  <2>4. groups' \in [Group -> GroupRow]
    BY <2>1, <2>3, RowTyped
  <2> QED
    BY <1>7, <2>2, <2>4
       DEF GroupWrite, RenameGroup, Dissolve, SeatMember, RemoveMember, Remember, Forget
<1>8. ASSUME NEW c \in Request, NEW k \in Chat, BeginTurn(c, k) PROVE GroupTypeOK'
  <2>1. filed[k] \in Group /\ Ended \subseteq Group
    BY <1>8 DEF BeginTurn, Ended
  <2>2. [NoGrp EXCEPT !.at = "name", !.op = "turn", !.g = filed[k], !.gone = Ended] \in GroupStates
    BY <2>1, NoGrpTyped DEF GroupStates, GroupOp
  <2> QED
    BY <1>8, <2>2 DEF BeginTurn
<1>9. ASSUME NEW c \in Request, ReadName(c) PROVE GroupTypeOK'
  <2>1. groups[grpReq[c].g].ended \in BOOLEAN
    BY <1>9, <1>0 DEF ReadName, GroupRow
  <2>2. [grpReq[c] EXCEPT !.at = "recall", !.named = ~groups[grpReq[c].g].ended] \in GroupStates
    BY <2>1 DEF GroupStates
  <2> QED
    BY <1>9, <2>2 DEF ReadName
<1>10. ASSUME NEW c \in Request, ReadMemory(c) PROVE GroupTypeOK'
  <2>1. groups[grpReq[c].g].knows \subseteq Line
    BY <1>10, <1>0 DEF ReadMemory, GroupRow
  <2>2. \A at \in {"threads", "answer"} :
          [grpReq[c] EXCEPT !.heard = groups[grpReq[c].g].knows, !.at = at] \in GroupStates
    BY <2>1 DEF GroupStates
  <2> QED
    BY <1>10, <2>2 DEF ReadMemory
<1>11. CASE UNCHANGED grpVars
  BY <1>11 DEF grpVars
<1> QED
  BY <1>1, <1>2, <1>3, <1>4, <1>5, <1>6, <1>7, <1>8, <1>9, <1>10, <1>11 DEF GroupNext

-----------------------------------------------------------------------------
(* What requests know                                                       *)

\* Nothing is unmade, undissolved, or forgotten to be made first.
Grows == Made \subseteq Made' /\ Ended \subseteq Ended'

\* A request that does not move keeps what it knows, its seat apart.
LEMMA OtherKeeps ==
    ASSUME NEW x \in Request, About(x), Seated(x), Alive(x), Grows,
           grpReq'[x] = grpReq[x],
           grpReq[x].at \in Acting
             /\ (x \in overtaken \/ grpReq[x].who \in groups[grpReq[x].g].in)
           => (x \in overtaken' \/ grpReq[x].who \in groups'[grpReq[x].g].in)
    PROVE  About(x)' /\ Seated(x)' /\ Alive(x)'
BY DEF About, Seated, Alive, Grows

\* A request that has ended knows nothing.
LEMMA IdleKnowsNothing ==
    ASSUME NEW x \in Request, grpReq'[x] = NoGrp
    PROVE  About(x)' /\ Seated(x)' /\ Alive(x)'
BY IdleIsFine DEF About, Seated, Alive, Acting

\* Nobody loses a seat, and the rows stay: what is left is the request that moves.
Seats ==
    /\ Grows
    /\ \A g \in Made : groups[g].in \subseteq groups'[g].in

\* A step of one request leaves what is known of the others,
LEMMA GroupOneMoves ==
    ASSUME GroupInv, Seats, NEW c \in Request, NEW r,
           grpReq' = [grpReq EXCEPT ![c] = r],
           overtaken \ {c} \subseteq overtaken',
           About(c)' /\ Seated(c)' /\ Alive(c)'
    PROVE  Requests'
<1>1. ASSUME NEW x \in Request \ {c} PROVE About(x)' /\ Seated(x)' /\ Alive(x)'
  <2>1. grpReq'[x] = grpReq[x] /\ (x \in overtaken => x \in overtaken')
    BY DEF GroupInv, GroupTypeOK
  <2>2. grpReq[x].at # "idle" => grpReq[x].g \in Made
    BY DEF GroupInv, Requests, About
  <2>3. grpReq[x].at \in Acting => groups[grpReq[x].g].in \subseteq groups'[grpReq[x].g].in
    BY <2>2 DEF Seats, Acting
  <2> QED
    BY <2>1, <2>3, OtherKeeps DEF GroupInv, Requests, Seats
<1> QED
  BY <1>1 DEF Requests

\* and so does its end.
LEMMA GroupOneEnds ==
    ASSUME GroupInv, Seats, NEW c \in Request, GrpEnds(c)
    PROVE  Requests'
<1>1. grpReq'[c] = NoGrp
  BY DEF GrpEnds, GroupInv, GroupTypeOK
<1> QED
  BY <1>1, GroupOneMoves, IdleKnowsNothing DEF GrpEnds

\* The steps that leave the groups and the requests' callers as they are.
LEMMA GroupsStay ==
    ASSUME UNCHANGED groups
    PROVE  Seats /\ Made' = Made /\ Ended' = Ended
BY DEF Seats, Grows, Made, Ended

\* A request moves on within an operation on a group it knows.
LEMMA GroupOneGoes ==
    ASSUME GroupInv, UNCHANGED groups, NEW c \in Request, NEW at, GrpGoto(c, at),
           grpReq[c].at # "idle", at # "name",
           at \in {"load", "act"} => grpReq[c].at \in {"member", "load", "act"},
           at # "idle", at # "member",
           at \in Acting => /\ grpReq[c].who \in Person
                            /\ grpReq[c].who \in groups[grpReq[c].g].in \/ c \in overtaken,
           at = "seat" => grpReq[c].arg \in Person,
           at \in {"recall", "threads", "answer"} /\ grpReq[c].op = "ask"
              => grpReq[c].g \notin grpReq[c].gone
    PROVE  Requests'
<1> DEFINE r == [grpReq[c] EXCEPT !.at = at]
<1>1. grpReq[c] \in GroupStates
  BY DEF GroupInv, GroupTypeOK
<1>2. /\ r.at = at /\ r.op = grpReq[c].op /\ r.who = grpReq[c].who /\ r.g = grpReq[c].g
      /\ r.arg = grpReq[c].arg /\ r.named = grpReq[c].named /\ r.gone = grpReq[c].gone
  BY <1>1 DEF GroupStates
<1>3. grpReq'[c] = r /\ overtaken' = overtaken
  BY DEF GrpGoto, GroupInv, GroupTypeOK
<1>4. About(c) /\ Seated(c) /\ Alive(c)
  BY DEF GroupInv, Requests
<1>5. About(c)'
  <2> HIDE DEF r
  <2> QED
    BY <1>2, <1>3, <1>4, GroupsStay DEF About, Acting
<1>6. Seated(c)'
  <2> HIDE DEF r
  <2> QED
    BY <1>2, <1>3, <1>4 DEF Seated
<1>7. Alive(c)'
  <2> HIDE DEF r
  <2> QED
    BY <1>2, <1>3, <1>4, GroupsStay DEF Alive
<1> QED
  BY <1>3, <1>5, <1>6, <1>7, GroupOneMoves, GroupsStay DEF GrpGoto

\* So what is known of every request stays true, and nobody is unseated by a step that
\* does not say so.
LEMMA GroupRequestsStep ==
    ASSUME GroupInv, [GroupNext]_grpVars
    PROVE  Requests' /\ Grows
<1> DEFINE Goal == Requests' /\ Grows
<1>a. \A c \in Request : grpReq[c].at # "idle" => grpReq[c].g \in Made
  BY DEF GroupInv, Requests, About
<1>b. \A c \in Request : grpReq[c] \in GroupStates
  BY DEF GroupInv, GroupTypeOK
<1>0. \A c \in Request : About(c) /\ Seated(c) /\ Alive(c)
  BY DEF GroupInv, Requests
<1>1. ASSUME NEW p \in Callers, NEW g \in Group, NEW others \in SUBSET Person, MakeGroup(p, g, others)
      PROVE  Goal
  <2>1. p \in Person /\ p # None
    BY BackendAssumption DEF Callers
  <2>2. Founded(p, {p} \cup others).by = p
    BY <2>1, FoundedTyped
  <2>3. \A x \in Made : groups'[x] = groups[x] /\ x \in Group
    BY <1>1 DEF MakeGroup, Made, GroupInv, GroupTypeOK
  <2>4. Grows
    <3>1. Made \subseteq Made'
      BY <2>3 DEF Made
    <3>2. Ended \subseteq Ended'
      BY <2>3 DEF Ended, GroupInv, MadeFirst
    <3> QED
      BY <3>1, <3>2 DEF Grows
  <2>5. ASSUME NEW x \in Request PROVE About(x)' /\ Seated(x)' /\ Alive(x)'
    <3>1. grpReq[x].at \in Acting => groups'[grpReq[x].g].in = groups[grpReq[x].g].in
      BY <1>a, <2>3 DEF Acting
    <3> QED
      BY <1>0, <1>1, <2>4, <3>1, OtherKeeps DEF MakeGroup
  <2> QED
    BY <2>4, <2>5 DEF Requests
<1>2. ASSUME NEW k \in Chat, NEW g \in Group \cup {None}, FileUnder(k, g) PROVE Goal
  <2>1. Grows
    BY <1>2, GroupsStay DEF FileUnder, Seats
  <2> QED
    BY <1>0, <1>2, <2>1, OtherKeeps DEF FileUnder, Requests
<1>3. ASSUME NEW p \in Person, EraseMember(p) PROVE Goal
  <2>1. \A g \in Group : /\ groups'[g].by = groups[g].by /\ groups'[g].ended = groups[g].ended
                          /\ groups'[g].in = groups[g].in \ {p}
    BY <1>3 DEF EraseMember, GroupInv, GroupTypeOK, GroupRow
  <2>2. Grows
    BY <2>1 DEF Grows, Made, Ended
  <2>3. ASSUME NEW x \in Request PROVE About(x)' /\ Seated(x)' /\ Alive(x)'
    <3>1. grpReq[x].who = p => x \in overtaken'
      BY <1>3 DEF EraseMember
    <3>2. grpReq[x].at \in Acting => grpReq[x].g \in Group
      BY <1>a DEF Acting, Made
    <3> QED
      BY <1>0, <1>3, <2>1, <2>2, <3>1, <3>2, OtherKeeps DEF EraseMember
  <2> QED
    BY <2>2, <2>3 DEF Requests
<1>4. ASSUME NEW c \in Request, GroupCalls(c) PROVE Goal
  <2>1. PICK p \in Callers, g \in Made, op \in GroupOp \ {"turn"}, arg \in Person \cup Line \cup {None} :
          /\ CallGroup(c, p, g, op, arg)
          /\ op \in {"add", "remove"} => arg \in Person
          /\ op \in {"remember", "forget"} => arg \in Line
    BY <1>4 DEF GroupCalls, GroupOp
  <2> DEFINE r == [NoGrp EXCEPT !.at = "member", !.op = op, !.who = p, !.g = g, !.arg = arg,
                                !.gone = Ended]
  <2>2. /\ r.at = "member" /\ r.op = op /\ r.who = p /\ r.g = g /\ r.arg = arg
        /\ r.gone = Ended /\ ~r.named
    BY DEF NoGrp
  <2>3. /\ grpReq' = [grpReq EXCEPT ![c] = r] /\ grpReq'[c] = r
        /\ UNCHANGED <<groups, overtaken>>
    BY <2>1 DEF CallGroup, GroupInv, GroupTypeOK
  <2>4. About(c)' /\ Seated(c)' /\ Alive(c)'
    <3> HIDE DEF r
    <3> QED
      BY <2>1, <2>2, <2>3, GroupsStay DEF About, Seated, Alive, Acting, Callers
  <2> QED
    BY <2>3, <2>4, GroupOneMoves, GroupsStay DEF Seats
<1>5. ASSUME NEW c \in Request, IsMember(c) PROVE Goal
  BY <1>0, <1>a, <1>5, GroupOneGoes, GroupOneEnds, GroupsStay DEF IsMember, About, Acting, Seats
<1>6. ASSUME NEW c \in Request, LoadGroup(c) PROVE Goal
  <2>1. CASE GrpEnds(c)
    BY <1>6, <2>1, GroupOneEnds, GroupsStay DEF LoadGroup, Seats
  <2>2. CASE ~GrpEnds(c)
    <3>1. PICK at \in {"recall", "search", "act"} :
            GrpGoto(c, at) /\ (at = "recall" => grpReq[c].op = "ask")
      BY <1>6, <2>2 DEF LoadGroup
    <3>2. ~groups[grpReq[c].g].ended /\ grpReq[c].at = "load" /\ UNCHANGED groups
      BY <1>6, <2>2 DEF LoadGroup
    <3>3. grpReq[c].g \notin grpReq[c].gone
      BY <1>0, <3>2 DEF Alive, Ended
    <3> QED
      BY <1>0, <3>1, <3>2, <3>3, GroupOneGoes, GroupsStay DEF About, Seated, Acting, Seats
  <2> QED
    BY <2>1, <2>2
<1>7. ASSUME NEW c \in Request, FindPerson(c) PROVE Goal
  BY <1>0, <1>a, <1>7, GroupOneGoes, GroupOneEnds, GroupsStay DEF FindPerson, Does, About, Seated, Acting, Seats
<1>8. ASSUME NEW c \in Request, ReadThreads(c) PROVE Goal
  BY <1>0, <1>a, <1>8, GroupOneGoes, GroupOneEnds, GroupsStay DEF ReadThreads, Alive, Acting, Seats
<1>9. ASSUME NEW c \in Request, Answer(c) PROVE Goal
  BY <1>9, GroupOneEnds, GroupsStay DEF Answer, Seats
<1>10. ASSUME NEW c \in Request, SearchStandIn(c) \/ CreateStandIn(c) PROVE Goal
  <2>1. UNCHANGED groups /\ grpReq[c].at \in {"search", "standIn"}
    BY <1>10 DEF SearchStandIn, CreateStandIn
  <2>2. CASE GrpGoto(c, "standIn")
    BY <1>0, <2>1, <2>2, GroupOneGoes, GroupsStay DEF About, Seated, Acting, Seats
  <2>3. CASE ~GrpGoto(c, "standIn")
    <3>1. PICK p \in Person : /\ grpReq' = [grpReq EXCEPT ![c].at = "seat", ![c].arg = p]
                              /\ UNCHANGED overtaken
      BY <1>10, <2>3 DEF SearchStandIn, CreateStandIn
    <3> DEFINE r == [grpReq[c] EXCEPT !.at = "seat", !.arg = p]
    <3>2. /\ r.at = "seat" /\ r.op = grpReq[c].op /\ r.who = grpReq[c].who /\ r.g = grpReq[c].g
          /\ r.arg = p /\ r.named = grpReq[c].named /\ r.gone = grpReq[c].gone
      BY <1>b DEF GroupStates
    <3>3. grpReq' = [grpReq EXCEPT ![c] = r] /\ grpReq'[c] = r
      BY <3>1 DEF GroupInv, GroupTypeOK
    <3>4. About(c)' /\ Seated(c)' /\ Alive(c)'
      <4> HIDE DEF r
      <4> QED
        BY <1>0, <2>1, <3>1, <3>2, <3>3, GroupsStay DEF About, Seated, Alive, Acting
    <3> QED
      BY <2>1, <3>1, <3>3, <3>4, GroupOneMoves, GroupsStay DEF Seats
  <2> QED
    BY <2>2, <2>3
<1>11. ASSUME NEW c \in Request, RenameGroup(c) \/ Dissolve(c) \/ SeatMember(c) \/ Remember(c) \/ Forget(c)
       PROVE  Goal
  <2>1. grpReq[c].at # "idle" /\ grpReq[c].g \in Group
    BY <1>a, <1>11 DEF RenameGroup, Dissolve, SeatMember, Remember, Forget, Does, Made
  <2>2. \A g \in Group :
          /\ groups'[g].by = groups[g].by /\ (groups[g].ended => groups'[g].ended)
          /\ groups[g].in \subseteq groups'[g].in
    BY <1>11, <2>1
       DEF RenameGroup, Dissolve, SeatMember, Remember, Forget, SetRow, GroupInv, GroupTypeOK, GroupRow
  <2>3. Seats
    BY <2>2 DEF Seats, Grows, Made, Ended
  <2> QED
    BY <1>11, <2>3, GroupOneEnds DEF RenameGroup, Dissolve, SeatMember, Remember, Forget, Seats
<1>12. ASSUME NEW c \in Request, RemoveMember(c) PROVE Goal
  <2> DEFINE g == grpReq[c].g
             p == grpReq[c].arg
  <2>1. g \in Group /\ grpReq[c].at # "idle"
    BY <1>a, <1>12 DEF RemoveMember, Does, Made
  <2>2. \A x \in Group : /\ groups'[x].by = groups[x].by /\ groups'[x].ended = groups[x].ended
                          /\ groups'[x].in = IF x = g THEN groups[x].in \ {p} ELSE groups[x].in
    BY <1>12, <2>1 DEF RemoveMember, SetRow, GroupInv, GroupTypeOK, GroupRow
  <2>3. Grows
    BY <2>2 DEF Grows, Made, Ended
  <2>4. grpReq'[c] = NoGrp
    BY <1>12 DEF RemoveMember, GroupInv, GroupTypeOK
  <2>5. ASSUME NEW x \in Request \ {c} PROVE About(x)' /\ Seated(x)' /\ Alive(x)'
    <3>1. grpReq'[x] = grpReq[x]
      BY <1>12 DEF RemoveMember, GroupInv, GroupTypeOK
    <3>2. /\ x \in overtaken => x \in overtaken'
          /\ grpReq[x].who = p /\ grpReq[x].g = g => x \in overtaken'
      BY <1>12 DEF RemoveMember
    <3>3. grpReq[x].at \in Acting => grpReq[x].g \in Group
      BY <1>a DEF Acting, Made
    <3> QED
      BY <1>0, <2>2, <2>3, <3>1, <3>2, <3>3, OtherKeeps
  <2> QED
    BY <2>3, <2>4, <2>5, IdleKnowsNothing DEF Requests
<1>13. ASSUME NEW c \in Request, NEW k \in Chat, BeginTurn(c, k) PROVE Goal
  <2> DEFINE r == [NoGrp EXCEPT !.at = "name", !.op = "turn", !.g = filed[k], !.gone = Ended]
  <2>1. r.at = "name" /\ r.op = "turn" /\ r.g = filed[k] /\ r.gone = Ended /\ ~r.named
    BY DEF NoGrp
  <2>2. /\ grpReq' = [grpReq EXCEPT ![c] = r] /\ grpReq'[c] = r
        /\ UNCHANGED <<groups, overtaken>> /\ filed[k] \in Made
    BY <1>13 DEF BeginTurn, GroupInv, GroupTypeOK, MadeFirst
  <2>3. About(c)' /\ Seated(c)' /\ Alive(c)'
    <3> HIDE DEF r
    <3> QED
      BY <2>1, <2>2, GroupsStay DEF About, Seated, Alive, Acting
  <2> QED
    BY <2>2, <2>3, GroupOneMoves, GroupsStay DEF Seats
<1>14. ASSUME NEW c \in Request, ReadName(c) PROVE Goal
  <2> DEFINE r == [grpReq[c] EXCEPT !.at = "recall", !.named = ~groups[grpReq[c].g].ended]
  <2>1. /\ r.at = "recall" /\ r.op = grpReq[c].op /\ r.g = grpReq[c].g
        /\ r.gone = grpReq[c].gone /\ r.named = ~groups[grpReq[c].g].ended
    BY <1>b DEF GroupStates
  <2>2. /\ grpReq' = [grpReq EXCEPT ![c] = r] /\ grpReq'[c] = r
        /\ UNCHANGED <<groups, overtaken>> /\ grpReq[c].at = "name"
    BY <1>14 DEF ReadName, GroupInv, GroupTypeOK
  <2>3. r.named => r.g \notin r.gone
    BY <1>0, <2>1 DEF Alive, Ended
  <2>4. About(c)' /\ Seated(c)' /\ Alive(c)'
    <3> HIDE DEF r
    <3> QED
      BY <1>0, <2>1, <2>2, <2>3, GroupsStay DEF About, Seated, Alive, Acting
  <2> QED
    BY <2>2, <2>4, GroupOneMoves, GroupsStay DEF Seats
<1>15. ASSUME NEW c \in Request, ReadMemory(c) PROVE Goal
  <2>1. PICK at \in {"threads", "answer"} :
          grpReq' = [grpReq EXCEPT ![c].heard = groups[grpReq[c].g].knows, ![c].at = at]
    BY <1>15 DEF ReadMemory
  <2> DEFINE r == [grpReq[c] EXCEPT !.heard = groups[grpReq[c].g].knows, !.at = at]
  <2>2. /\ r.at = at /\ r.op = grpReq[c].op /\ r.g = grpReq[c].g
        /\ r.gone = grpReq[c].gone /\ r.named = grpReq[c].named
    BY <1>b DEF GroupStates
  <2>3. /\ grpReq' = [grpReq EXCEPT ![c] = r] /\ grpReq'[c] = r
        /\ UNCHANGED <<groups, overtaken>> /\ grpReq[c].at = "recall"
    BY <1>15, <2>1 DEF ReadMemory, GroupInv, GroupTypeOK
  <2>4. About(c)' /\ Seated(c)' /\ Alive(c)'
    <3> HIDE DEF r
    <3> QED
      BY <1>0, <2>2, <2>3, GroupsStay DEF About, Seated, Alive, Acting
  <2> QED
    BY <2>3, <2>4, GroupOneMoves, GroupsStay DEF Seats
<1>16. ASSUME UNCHANGED grpVars PROVE Goal
  <2>1. Grows
    BY <1>16, GroupsStay DEF grpVars, Seats
  <2> QED
    BY <1>0, <1>16, <2>1, OtherKeeps DEF grpVars, Requests
<1> HIDE DEF Goal
<1>17. Goal
  BY <1>1, <1>2, <1>3, <1>4, <1>5, <1>6, <1>7, <1>8, <1>9, <1>10, <1>11, <1>12, <1>13,
     <1>14, <1>15, <1>16 DEF GroupNext, GroupWrite
<1> QED
  BY <1>17 DEF Goal

\* Groups are made before they are dissolved, and filed under after they are made.
LEMMA MadeFirstStep ==
    ASSUME GroupInv, [GroupNext]_grpVars, Grows
    PROVE  MadeFirst'
<1>1. Ended' \subseteq Made'
  <2>1. ASSUME NEW g \in Ended', g \notin Ended PROVE g \in Made
    <3>1. PICK c \in Request : GroupWrite(c) /\ g = grpReq[c].g
      <4>1. CASE \E p \in Callers, x \in Group, others \in SUBSET Person : MakeGroup(p, x, others)
        <5>1. PICK p \in Callers, x \in Group, others \in SUBSET Person : MakeGroup(p, x, others)
          BY <4>1
        <5>2. p \in Person
          BY DEF Callers
        <5>3. ~Founded(p, {p} \cup others).ended
          BY <5>2, FoundedTyped
        <5>4. groups' = [groups EXCEPT ![x] = Founded(p, {p} \cup others)]
          BY <5>1 DEF MakeGroup
        <5> QED
          BY <2>1, <5>3, <5>4 DEF Ended, GroupInv, GroupTypeOK
      <4>2. CASE \E p \in Person : EraseMember(p)
        BY <2>1, <4>2 DEF EraseMember, Ended, GroupInv, GroupTypeOK, GroupRow
      <4>3. CASE \E c \in Request : GroupWrite(c)
        <5>1. PICK c \in Request : GroupWrite(c)
          BY <4>3
        <5>2. \A x \in Group : x # grpReq[c].g => groups'[x] = groups[x]
          BY <5>1 DEF GroupWrite, RenameGroup, Dissolve, SeatMember, RemoveMember, Remember,
                      Forget, SetRow, GroupInv, GroupTypeOK
        <5>3. g = grpReq[c].g
          BY <2>1, <5>2 DEF Ended
        <5> QED
          BY <5>1, <5>3
      <4>4. CASE UNCHANGED groups
        BY <2>1, <4>4 DEF Ended
      <4> QED
        BY <4>1, <4>2, <4>3, <4>4
           DEF GroupNext, grpVars, FileUnder, GroupCalls, CallGroup, IsMember, LoadGroup,
               FindPerson, SearchStandIn, CreateStandIn, BeginTurn, ReadName, ReadMemory,
               ReadThreads, Answer
    <3>2. grpReq[c].at # "idle"
      BY <3>1 DEF GroupWrite, RenameGroup, Dissolve, SeatMember, RemoveMember, Remember, Forget, Does
    <3> QED
      BY <3>1, <3>2 DEF GroupInv, Requests, About
  <2> QED
    BY <2>1 DEF GroupInv, MadeFirst, Grows
<1>2. ASSUME NEW k \in Chat PROVE filed'[k] \in Made' \cup {None}
  <2>1. filed'[k] \in Made \cup {None}
    <3>1. CASE \E x \in Chat, g \in Group \cup {None} : FileUnder(x, g)
      BY <3>1 DEF FileUnder, GroupInv, GroupTypeOK, MadeFirst
    <3>2. CASE UNCHANGED filed
      BY <3>2 DEF GroupInv, MadeFirst
    <3> QED
      BY <3>1, <3>2
         DEF GroupNext, grpVars, MakeGroup, EraseMember, GroupCalls, CallGroup, IsMember,
             LoadGroup, FindPerson, SearchStandIn, CreateStandIn, BeginTurn, ReadName,
             ReadMemory, ReadThreads, Answer, GroupWrite, RenameGroup, Dissolve, SeatMember,
             RemoveMember, Remember, Forget
  <2> QED
    BY <2>1 DEF Grows
<1> QED
  BY <1>1, <1>2 DEF MadeFirst

\* An answer that recalls a group is to a request that began while it was there.
LEMMA ForgottenStep ==
    ASSUME GroupInv, [GroupNext]_grpVars
    PROVE  DissolvedIsForgotten'
<1>1. ASSUME NEW c \in Request, Answer(c) PROVE ghosts' = {}
  <2>1. ghosts = {} /\ Alive(c) /\ grpReq[c].at = "answer"
    BY <1>1 DEF GroupInv, DissolvedIsForgotten, Requests, Answer
  <2>2. Recalls(grpReq[c]) => grpReq[c].g \notin grpReq[c].gone
    BY <2>1 DEF Recalls, Alive
  <2> QED
    BY <1>1, <2>1, <2>2 DEF Answer
<1>2. CASE UNCHANGED ghosts
  BY <1>2 DEF GroupInv, DissolvedIsForgotten
<1> QED
  BY <1>1, <1>2
     DEF GroupNext, grpVars, DissolvedIsForgotten, MakeGroup, FileUnder, EraseMember,
         GroupCalls, CallGroup, IsMember, LoadGroup, FindPerson, SearchStandIn, CreateStandIn,
         BeginTurn, ReadName, ReadMemory, ReadThreads, GroupWrite, RenameGroup, Dissolve,
         SeatMember, RemoveMember, Remember, Forget

\* Together they are inductive.
LEMMA GroupInvStep ==
    ASSUME GroupInv, [GroupNext]_grpVars
    PROVE  GroupInv'
<1>1. GroupTypeOK'
  BY GroupTypeStep DEF GroupInv
<1>2. Requests' /\ Grows
  BY GroupRequestsStep
<1>3. MadeFirst'
  BY <1>2, MadeFirstStep
<1>4. DissolvedIsForgotten'
  BY ForgottenStep
<1> QED
  BY <1>1, <1>2, <1>3, <1>4 DEF GroupInv

\* What changes a group is the erasure of an account, or a member's request.
LEMMA ByMembers ==
    ASSUME GroupInv, [GroupNext]_grpVars, NEW g \in Made, groups'[g] # groups[g]
    PROVE  \/ \E p \in Person : EraseMember(p)
           \/ \E c \in Request :
                /\ GroupWrite(c)
                /\ grpReq[c].g = g
                /\ grpReq[c].who \in groups[g].in \/ c \in overtaken
<1>1. ASSUME NEW p \in Callers, NEW x \in Group, NEW others \in SUBSET Person, MakeGroup(p, x, others)
      PROVE  FALSE
  BY <1>1 DEF MakeGroup, GroupInv, GroupTypeOK, Made
<1>2. ASSUME NEW c \in Request, GroupWrite(c)
      PROVE  grpReq[c].g = g /\ (grpReq[c].who \in groups[g].in \/ c \in overtaken)
  <2>1. grpReq[c].g = g
    BY <1>2 DEF GroupWrite, RenameGroup, Dissolve, SeatMember, RemoveMember, Remember,
                Forget, SetRow, GroupInv, GroupTypeOK, Made
  <2>2. grpReq[c].at \in Acting
    BY <1>2 DEF GroupWrite, RenameGroup, Dissolve, SeatMember, RemoveMember, Remember,
                Forget, Does, Acting
  <2> QED
    BY <2>1, <2>2 DEF GroupInv, Requests, Seated
<1>3. \/ \E p \in Callers, x \in Group, others \in SUBSET Person : MakeGroup(p, x, others)
      \/ \E p \in Person : EraseMember(p)
      \/ \E c \in Request : GroupWrite(c)
      \/ UNCHANGED groups
  BY DEF GroupNext, grpVars, FileUnder, GroupCalls, CallGroup, IsMember, LoadGroup,
         FindPerson, SearchStandIn, CreateStandIn, BeginTurn, ReadName, ReadMemory,
         ReadThreads, Answer
<1> QED
  BY <1>1, <1>2, <1>3

-----------------------------------------------------------------------------
\* The inductive invariant of the groups.
THEOREM GroupInvHolds == GroupSpec => []GroupInv
<1>1. GroupInv /\ [GroupNext]_grpVars => GroupInv'
  BY GroupInvStep
<1> QED
  BY GroupInitInv, <1>1, PTL DEF GroupSpec

\* Every variable of the groups keeps its type.
THEOREM GroupTypes == GroupSpec => []GroupTypeOK
<1>1. GroupInv => GroupTypeOK
  BY DEF GroupInv
<1> QED
  BY GroupInvHolds, <1>1, PTL

\* Nobody who asks after a group was dissolved is told what it knew.
THEOREM Forgotten == GroupSpec => []DissolvedIsForgotten
<1>1. GroupInv => DissolvedIsForgotten
  BY DEF GroupInv
<1> QED
  BY GroupInvHolds, <1>1, PTL

\* A group changes by the hand of a member, or of one who left meanwhile.
THEOREM Members == GroupSpec => ChangedByMembers
<1>1. GroupInv /\ [GroupNext]_grpVars =>
        [\A g \in Made : groups'[g] # groups[g] =>
           \/ \E p \in Person : EraseMember(p)
           \/ \E c \in Request :
                /\ GroupWrite(c)
                /\ grpReq[c].g = g
                /\ grpReq[c].who \in groups[g].in \/ c \in overtaken]_grpVars
  BY ByMembers
<1> QED
  BY GroupInvHolds, <1>1, PTL DEF GroupSpec, ChangedByMembers
=============================================================================
