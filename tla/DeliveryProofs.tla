--------------------------- MODULE DeliveryProofs ----------------------------
(***************************************************************************)
(* What leaves the process: pushes (Push), and mails through the bus       *)
(* (Mailer).  The two share no state, and each has its own invariant.      *)
(***************************************************************************)
EXTENDS Push, Mailer, SequenceTheorems, TLAPS

-----------------------------------------------------------------------------
(***************************************************************************)
(* Deleted accounts stay silent, and pruning is fair, for any accounts,    *)
(* phones, requests and bounds.                                            *)
(*                                                                         *)
(* A push reaches whom it listed, and it listed who had a seat.  So the    *)
(* argument is about seats: a deleted account has one only if it was given *)
(* one after its deletion (SeatsEnd), hence a push that began after the    *)
(* deletion lists no others (ListsTheLiving).  What is pruned was named by *)
(* FCM in the answer to that push, so it is among the tokens it ever named *)
(* (PrunesTheRejected).                                                    *)
(***************************************************************************)

Named == \A c \in Request : pushReq[c].at \in {"seat", "erase"} => pushReq[c].who \in Person

SeatsEnd == deleted \cap seated \subseteq lateSeat

ListsTheLiving ==
    \A c \in Request :
        /\ pushReq[c].gone \subseteq deleted
        /\ pushReq[c].to \cap pushReq[c].gone \subseteq lateSeat
        /\ \A d \in pushReq[c].out : d.to \in pushReq[c].to

PrunesTheRejected ==
    \A c \in Request : pushReq[c].at = "prune" =>
        \A d \in pushReq[c].out : d.phone \in rejected

PushInv == PushTypeOK /\ Named /\ SeatsEnd /\ ListsTheLiving /\ PrunesTheRejected /\ GoneIsSilent

-----------------------------------------------------------------------------
\* With no device and no registration there is nothing to violate.
LEMMA PushInitInv == PushInit => PushInv
<1> SUFFICES ASSUME PushInit PROVE PushInv
  OBVIOUS
<1> USE DEF PushInit
<1>1. NoPush \in PushStates
  BY DEF NoPush, PushStates
<1>2. PushTypeOK
  <2>1. PushLimit \in 0..PushLimit /\ FaultLimit \in 0..FaultLimit
    BY PushAssumption
  <2> QED
    BY <1>1, <2>1 DEF PushTypeOK
<1>3. SeatsEnd
  BY DEF SeatsEnd
<1>4. Named /\ ListsTheLiving /\ PrunesTheRejected
  BY DEF Named, ListsTheLiving, PrunesTheRejected, NoPush
<1>5. GoneIsSilent
  BY DEF GoneIsSilent
<1> QED
  BY <1>2, <1>3, <1>4, <1>5 DEF PushInv

-----------------------------------------------------------------------------
(* Types                                                                    *)

LEMMA NoPushTyped == NoPush \in PushStates
BY DEF NoPush, PushStates

\* A request that ends is idle again.
LEMMA DoneTyped ==
    ASSUME PushTypeOK, NEW c \in Request, PushDone(c)
    PROVE  pushReq' \in [Request -> PushStates]
BY NoPushTyped DEF PushTypeOK, PushDone

\* Every step keeps the types.
LEMMA PushTypeStep ==
    ASSUME PushTypeOK, Named, [PushNext]_pushVars
    PROVE  PushTypeOK'
<1> USE PushAssumption DEF PushTypeOK, PushStarts, PushFault
<1>1. ASSUME NEW u \in Person, NEW t \in Phone, RegisterDevice(u, t) PROVE PushTypeOK'
  BY <1>1 DEF RegisterDevice
<1>2. ASSUME NEW u \in Person, NEW t \in Phone, UnregisterDevice(u, t) PROVE PushTypeOK'
  BY <1>2 DEF UnregisterDevice
<1>3. ASSUME NEW t \in Phone, Retire(t) PROVE PushTypeOK'
  BY <1>3 DEF Retire
<1>4. ASSUME NEW c \in Request, NEW u \in Person, LookUp(c, u) PROVE PushTypeOK'
  <2>1. [NoPush EXCEPT !.at = "seat", !.who = u] \in PushStates
    BY NoPushTyped DEF PushStates
  <2> QED
    BY <1>4, <2>1 DEF LookUp
<1>5. ASSUME NEW c \in Request, NEW u \in Person, DeleteDevices(c, u) PROVE PushTypeOK'
  <2>1. [NoPush EXCEPT !.at = "erase", !.who = u] \in PushStates
    BY NoPushTyped DEF PushStates
  <2> QED
    BY <1>5, <2>1 DEF DeleteDevices
<1>6. ASSUME NEW c \in Request, NEW u \in Person, ReadMembers(c, u) PROVE PushTypeOK'
  <2>1. \A to \in SUBSET seated :
          [NoPush EXCEPT !.at = "tokens", !.to = to, !.gone = deleted] \in PushStates
    BY NoPushTyped DEF PushStates
  <2>2. PICK to \in SUBSET (seated \ {u}) :
          pushReq' = [pushReq EXCEPT ![c] = [NoPush EXCEPT !.at = "tokens", !.to = to, !.gone = deleted]]
    BY <1>6 DEF ReadMembers
  <2>3. pushReq' \in [Request -> PushStates]
    BY <2>1, <2>2
  <2> QED
    BY <1>6, <2>3 DEF ReadMembers
<1>7. ASSUME NEW c \in Request, TakeSeat(c) PROVE PushTypeOK'
  <2>1. pushReq[c].who \in Person
    BY <1>7 DEF TakeSeat, Named
  <2> QED
    BY <1>7, <2>1, DoneTyped DEF TakeSeat
<1>8. ASSUME NEW c \in Request, EraseAccount(c) PROVE PushTypeOK'
  <2>1. pushReq[c].who \in Person
    BY <1>8 DEF EraseAccount, Named
  <2> QED
    BY <1>8, <2>1, DoneTyped DEF EraseAccount
<1>9. ASSUME NEW c \in Request, TokensFor(c) PROVE PushTypeOK'
  BY <1>9, DoneTyped DEF TokensFor, PushStates
<1>10. ASSUME NEW c \in Request, SendPush(c) PROVE PushTypeOK'
  <2>1. PICK invalid \in SUBSET pushReq[c].out :
          /\ IF invalid = {}
             THEN PushDone(c)
             ELSE pushReq' = [pushReq EXCEPT ![c].at = "prune", ![c].out = invalid]
          /\ rejected' = rejected \cup {d.phone : d \in invalid}
    BY <1>10 DEF SendPush
  <2>2. pushReq' \in [Request -> PushStates] /\ rejected' \subseteq Phone
    <3>1. invalid \subseteq Delivery /\ rejected' \subseteq Phone
      BY <2>1 DEF PushStates, Delivery
    <3>2. QED
      BY <2>1, <3>1, DoneTyped DEF PushStates
  <2>3. haunted' \subseteq Person
    BY <1>10 DEF SendPush, PushStates, Delivery
  <2> QED
    BY <1>10, <2>2, <2>3 DEF SendPush
<1>11. ASSUME NEW c \in Request, SendFails(c) PROVE PushTypeOK'
  BY <1>11, DoneTyped DEF SendFails
<1>12. ASSUME NEW c \in Request, Prune(c) PROVE PushTypeOK'
  BY <1>12, DoneTyped DEF Prune
<1>13. CASE UNCHANGED pushVars
  BY <1>13 DEF pushVars
<1> QED
  BY <1>1, <1>2, <1>3, <1>4, <1>5, <1>6, <1>7, <1>8, <1>9, <1>10, <1>11, <1>12, <1>13
     DEF PushNext

-----------------------------------------------------------------------------
(* Seats, lists and rejected tokens                                         *)

\* Every request but c is left as it was, and what it listed stays true.
LEMMA OthersKeep ==
    ASSUME PushInv, NEW c \in Request, NEW r,
           pushReq' = [pushReq EXCEPT ![c] = r],
           deleted \subseteq deleted', rejected \subseteq rejected', lateSeat \subseteq lateSeat',
           r.at \in {"seat", "erase"} => r.who \in Person,
           r.gone \subseteq deleted',
           r.to \cap r.gone \subseteq lateSeat',
           \A d \in r.out : d.to \in r.to,
           r.at = "prune" => \A d \in r.out : d.phone \in rejected'
    PROVE  (Named /\ ListsTheLiving /\ PrunesTheRejected)'
<1>1. \A x \in Request : pushReq'[x] = IF x = c THEN r ELSE pushReq[x]
  BY DEF PushInv, PushTypeOK
<1>2. Named'
  BY <1>1 DEF PushInv, Named
<1>3. ListsTheLiving'
  BY <1>1 DEF PushInv, ListsTheLiving
<1>4. PrunesTheRejected'
  BY <1>1 DEF PushInv, PrunesTheRejected
<1> QED
  BY <1>2, <1>3, <1>4

\* So does a request that ends.
LEMMA DoneKeeps ==
    ASSUME PushInv, NEW c \in Request, PushDone(c),
           deleted \subseteq deleted', rejected \subseteq rejected', lateSeat \subseteq lateSeat'
    PROVE  (Named /\ ListsTheLiving /\ PrunesTheRejected)'
<1>1. /\ NoPush.at = "idle" /\ NoPush.gone = {} /\ NoPush.to = {} /\ NoPush.out = {}
  BY DEF NoPush
<1> QED
  BY <1>1, OthersKeep DEF PushDone

\* Nor does a step that leaves the requests alone disturb them.
LEMMA RequestsKeep ==
    ASSUME PushInv, UNCHANGED <<pushReq, deleted, lateSeat>>, rejected \subseteq rejected'
    PROVE  (Named /\ ListsTheLiving /\ PrunesTheRejected)'
BY DEF PushInv, Named, ListsTheLiving, PrunesTheRejected

\* And the whole invariant.
LEMMA PushInvStep ==
    ASSUME PushInv, [PushNext]_pushVars
    PROVE  PushInv'
<1>1. PushTypeOK'
  BY PushTypeStep DEF PushInv
<1> DEFINE Rest == (Named /\ SeatsEnd /\ ListsTheLiving /\ PrunesTheRejected /\ GoneIsSilent)'
<1> USE DEF SeatsEnd, GoneIsSilent
<1>2. ASSUME NEW u \in Person, NEW t \in Phone, RegisterDevice(u, t) \/ UnregisterDevice(u, t)
      PROVE  Rest
  BY <1>2, RequestsKeep DEF PushInv, RegisterDevice, UnregisterDevice
<1>3. ASSUME NEW t \in Phone, Retire(t) PROVE Rest
  BY <1>3, RequestsKeep DEF PushInv, Retire
<1>4. ASSUME NEW c \in Request, NEW u \in Person, LookUp(c, u) PROVE Rest
  <2> DEFINE r == [NoPush EXCEPT !.at = "seat", !.who = u]
  <2>1. r.at = "seat" /\ r.who = u /\ r.gone = {} /\ r.to = {} /\ r.out = {}
    BY DEF NoPush
  <2>2. (Named /\ ListsTheLiving /\ PrunesTheRejected)'
    BY <1>4, <2>1, OthersKeep DEF LookUp
  <2> QED
    BY <1>4, <2>2 DEF LookUp, PushInv
<1>5. ASSUME NEW c \in Request, NEW u \in Person, DeleteDevices(c, u) PROVE Rest
  <2> DEFINE r == [NoPush EXCEPT !.at = "erase", !.who = u]
  <2>1. r.at = "erase" /\ r.who = u /\ r.gone = {} /\ r.to = {} /\ r.out = {}
    BY DEF NoPush
  <2>2. (Named /\ ListsTheLiving /\ PrunesTheRejected)'
    BY <1>5, <2>1, OthersKeep DEF DeleteDevices
  <2> QED
    BY <1>5, <2>2 DEF DeleteDevices, PushInv
<1>6. ASSUME NEW c \in Request, NEW u \in Person, ReadMembers(c, u) PROVE Rest
  <2>1. PICK to \in SUBSET (seated \ {u}) :
          pushReq' = [pushReq EXCEPT ![c] = [NoPush EXCEPT !.at = "tokens", !.to = to, !.gone = deleted]]
    BY <1>6 DEF ReadMembers
  <2> DEFINE r == [NoPush EXCEPT !.at = "tokens", !.to = to, !.gone = deleted]
  <2>2. r.at = "tokens" /\ r.gone = deleted /\ r.to = to /\ r.out = {}
    BY DEF NoPush
  <2>3. to \cap deleted \subseteq lateSeat
    BY DEF PushInv
  <2>4. (Named /\ ListsTheLiving /\ PrunesTheRejected)'
    BY <1>6, <2>1, <2>2, <2>3, OthersKeep DEF ReadMembers
  <2> QED
    BY <1>6, <2>4 DEF ReadMembers, PushInv
<1>7. ASSUME NEW c \in Request, TakeSeat(c) PROVE Rest
  <2>1. (Named /\ ListsTheLiving /\ PrunesTheRejected)'
    BY <1>7, DoneKeeps DEF TakeSeat
  <2> QED
    BY <1>7, <2>1 DEF TakeSeat, PushInv
<1>8. ASSUME NEW c \in Request, EraseAccount(c) PROVE Rest
  <2>1. (Named /\ ListsTheLiving /\ PrunesTheRejected)'
    BY <1>8, DoneKeeps DEF EraseAccount
  <2> QED
    BY <1>8, <2>1 DEF EraseAccount, PushInv
<1>9. ASSUME NEW c \in Request, TokensFor(c) PROVE Rest
  <2> DEFINE found == {d \in Delivery : devices[d.phone] = d.to /\ d.to \in pushReq[c].to}
             r == [pushReq[c] EXCEPT !.at = "send", !.out = found]
  <2>1. CASE PushDone(c)
    BY <1>9, <2>1, DoneKeeps DEF TokensFor, PushInv
  <2>2. CASE pushReq' = [pushReq EXCEPT ![c] = r]
    <3>1. pushReq[c] \in PushStates
      BY DEF PushInv, PushTypeOK
    <3>2. r.at = "send" /\ r.gone = pushReq[c].gone /\ r.to = pushReq[c].to /\ r.out = found
      BY <3>1 DEF PushStates
    <3>3. r.gone \subseteq deleted /\ r.to \cap r.gone \subseteq lateSeat
      BY <3>2 DEF PushInv, ListsTheLiving
    <3>4. (Named /\ ListsTheLiving /\ PrunesTheRejected)'
      BY <1>9, <2>2, <3>2, <3>3, OthersKeep DEF TokensFor
    <3> QED
      BY <1>9, <3>4 DEF TokensFor, PushInv
  <2> QED
    BY <1>9, <2>1, <2>2 DEF TokensFor
<1>10. ASSUME NEW c \in Request, SendPush(c) PROVE Rest
  <2>0. PICK invalid \in SUBSET pushReq[c].out :
          /\ \E shown \in SUBSET {d \in pushReq[c].out \ invalid : d.phone \notin retired} :
                haunted' = haunted \cup ({d.to : d \in shown} \cap pushReq[c].gone)
          /\ IF invalid = {}
             THEN PushDone(c)
             ELSE pushReq' = [pushReq EXCEPT ![c].at = "prune", ![c].out = invalid]
          /\ rejected' = rejected \cup {d.phone : d \in invalid}
    BY <1>10 DEF SendPush
  <2> DEFINE r == [pushReq[c] EXCEPT !.at = "prune", !.out = invalid]
  <2>1. PICK shown \in SUBSET pushReq[c].out :
          haunted' = haunted \cup ({d.to : d \in shown} \cap pushReq[c].gone)
    BY <2>0
  <2>2. {d.to : d \in shown} \subseteq pushReq[c].to
    BY <2>1 DEF PushInv, ListsTheLiving
  <2>3. GoneIsSilent'
    BY <1>10, <2>1, <2>2 DEF PushInv, ListsTheLiving, SendPush
  <2>4. CASE PushDone(c)
    BY <1>10, <2>0, <2>3, <2>4, DoneKeeps DEF SendPush, PushInv
  <2>5. CASE pushReq' = [pushReq EXCEPT ![c] = r]
    <3>1. pushReq[c] \in PushStates
      BY DEF PushInv, PushTypeOK
    <3>2. r.at = "prune" /\ r.gone = pushReq[c].gone /\ r.to = pushReq[c].to /\ r.out = invalid
      BY <3>1 DEF PushStates
    <3>3. /\ r.gone \subseteq deleted /\ r.to \cap r.gone \subseteq lateSeat
          /\ \A d \in r.out : d.to \in r.to /\ d.phone \in rejected'
      BY <2>0, <3>2 DEF PushInv, ListsTheLiving
    <3>4. (Named /\ ListsTheLiving /\ PrunesTheRejected)'
      BY <1>10, <2>0, <2>5, <3>2, <3>3, OthersKeep DEF SendPush
    <3> QED
      BY <1>10, <2>3, <3>4 DEF SendPush, PushInv
  <2> QED
    BY <2>0, <2>4, <2>5
<1>11. ASSUME NEW c \in Request, SendFails(c) \/ Prune(c) PROVE Rest
  <2>1. (Named /\ ListsTheLiving /\ PrunesTheRejected)'
    BY <1>11, DoneKeeps DEF SendFails, Prune
  <2> QED
    BY <1>11, <2>1 DEF SendFails, Prune, PushInv
<1>12. ASSUME UNCHANGED pushVars PROVE Rest
  BY <1>12, RequestsKeep DEF pushVars, PushInv
<1>13. Rest
  <2> HIDE DEF Rest
  <2> QED
    BY <1>2, <1>3, <1>4, <1>5, <1>6, <1>7, <1>8, <1>9, <1>10, <1>11, <1>12 DEF PushNext
<1> QED
  BY <1>1, <1>13 DEF PushInv

\* A registration that ends is of a phone FCM has named, signed out by its
\* account, or of an account being deleted.
LEMMA EndsFairly ==
    ASSUME PushInv, [PushNext]_pushVars, NEW t \in Phone, devices[t] # None, devices'[t] = None
    PROVE  \/ t \in rejected
           \/ UnregisterDevice(devices[t], t)
           \/ \E c \in Request : DeleteDevices(c, devices[t])
<1>1. ASSUME NEW u \in Person, NEW x \in Phone, RegisterDevice(u, x) PROVE FALSE
  BY <1>1, BackendAssumption DEF RegisterDevice, PushInv, PushTypeOK
<1>2. ASSUME NEW u \in Person, NEW x \in Phone, UnregisterDevice(u, x)
      PROVE  UnregisterDevice(devices[t], t)
  <2>1. x = t /\ devices[t] = u
    BY <1>2 DEF UnregisterDevice, PushInv, PushTypeOK
  <2> QED
    BY <1>2, <2>1
<1>3. ASSUME NEW c \in Request, NEW u \in Person, DeleteDevices(c, u)
      PROVE  DeleteDevices(c, devices[t])
  <2>1. devices[t] = u
    BY <1>3 DEF DeleteDevices, PushInv, PushTypeOK
  <2> QED
    BY <1>3, <2>1
<1>4. ASSUME NEW c \in Request, Prune(c) PROVE t \in rejected
  <2>1. \E d \in pushReq[c].out : d.phone = t
    BY <1>4 DEF Prune, PushInv, PushTypeOK
  <2> QED
    BY <1>4, <2>1 DEF Prune, PushInv, PrunesTheRejected
<1>5. \/ \E u \in Person, x \in Phone : RegisterDevice(u, x) \/ UnregisterDevice(u, x)
      \/ \E c \in Request, u \in Person : DeleteDevices(c, u)
      \/ \E c \in Request : Prune(c)
      \/ UNCHANGED devices
  BY DEF PushNext, pushVars, Retire, LookUp, ReadMembers, TakeSeat, EraseAccount,
         TokensFor, SendPush, SendFails
<1> QED
  BY <1>1, <1>2, <1>3, <1>4, <1>5

-----------------------------------------------------------------------------
\* The inductive invariant of the fan-out.
THEOREM PushInvHolds == PushSpec => []PushInv
<1>1. PushInv /\ [PushNext]_pushVars => PushInv'
  BY PushInvStep
<1> QED
  BY PushInitInv, <1>1, PTL DEF PushSpec

\* Every variable of the push fan-out keeps its type.
THEOREM PushTypes == PushSpec => []PushTypeOK
<1>1. PushInv => PushTypeOK
  BY DEF PushInv
<1> QED
  BY PushInvHolds, <1>1, PTL

\* A push that begins after an account was deleted does not reach it, unless it
\* was seated again after the deletion.
THEOREM DeletedAreSilent == PushSpec => []GoneIsSilent
<1>1. PushInv => GoneIsSilent
  BY DEF PushInv
<1> QED
  BY PushInvHolds, <1>1, PTL

\* No registration ends but by its account, another one's claim, or FCM.
THEOREM PruningIsFair == PushSpec => RegistrationEndsFairly
<1>1. PushInv /\ [PushNext]_pushVars =>
        [\A t \in Phone : devices[t] # None /\ devices'[t] = None =>
           \/ t \in rejected
           \/ UnregisterDevice(devices[t], t)
           \/ \E c \in Request : DeleteDevices(c, devices[t])]_pushVars
  BY EndsFairly
<1> QED
  BY PushInvHolds, <1>1, PTL DEF PushSpec, RegistrationEndsFairly

-----------------------------------------------------------------------------
(***************************************************************************)
(* The bus handles what it accepts at most once, and two links work at the *)
(* same time only when they may, for any mails, workers and buffer.        *)
(*                                                                         *)
(* A mail is in one place at a time (OnePlace), and has not been tried     *)
(* before its worker is done with it (Fresh); that makes every step of the *)
(* queue a step of the Outbox, or none.  A link survives the invalidation  *)
(* of a later request only if the two ran at once or it failed (Survives). *)
(***************************************************************************)

OnePlace ==
    /\ \A i, j \in 1..Len(queue) : queue[i] = queue[j] => i = j
    /\ \A v, w \in Worker : hand[v] # None /\ hand[v] = hand[w] => v = w
    /\ \A i \in 1..Len(queue), w \in Worker : queue[i] # hand[w]

Fresh ==
    \A m \in Mail : m \in Held \/ asked[m] # "done" => tries[m] = 0

HeldIsDone == \A m \in Held : asked[m] = "done"

Meets ==
    /\ \A m, n \in Mail : <<m, n>> \in overlap => <<n, m>> \in overlap
    /\ \A m, n \in InFlight : m = n \/ <<m, n>> \in overlap

Survives ==
    \A m \in links, n \in Mail : asked[n] = "create" =>
        m = n \/ <<m, n>> \in overlap \/ m \in skipped \/ n \in skipped

QueueInv == MailTypeOK /\ OnePlace /\ Fresh /\ HeldIsDone

MailInv == MailTypeOK /\ OnePlace /\ Fresh /\ HeldIsDone /\ Meets /\ Survives /\ LinksOverlap

-----------------------------------------------------------------------------
\* An empty mailbox is a queue in order.
LEMMA MailInitInv == MailInit => MailInv
<1> SUFFICES ASSUME MailInit PROVE MailInv
  OBVIOUS
<1> USE DEF MailInit
<1>1. queue \in Seq(Mail) /\ Len(queue) = 0
  BY EmptySeq
<1>2. MailTypeOK
  BY <1>1, MailerAssumption DEF MailTypeOK
<1>3. Held = {}
  BY <1>1 DEF Held
<1>4. OnePlace
  BY <1>1 DEF OnePlace
<1>5. Fresh /\ HeldIsDone
  BY <1>3 DEF Fresh, HeldIsDone
<1>6. Meets /\ Survives /\ LinksOverlap
  BY DEF Meets, InFlight, Survives, LinksOverlap
<1> QED
  BY <1>2, <1>4, <1>5, <1>6 DEF MailInv

-----------------------------------------------------------------------------
(* Types                                                                    *)

LEMMA MailTypeStep ==
    ASSUME MailTypeOK, [MailNext]_mailVars
    PROVE  MailTypeOK'
<1> USE MailerAssumption DEF MailTypeOK, Asks
<1>1. ASSUME NEW m \in Mail, AskMail(m) PROVE MailTypeOK'
  <2>1. overlap' \subseteq Mail \X Mail
    BY <1>1 DEF AskMail, InFlight
  <2> QED
    BY <1>1, <2>1 DEF AskMail
<1>2. ASSUME NEW m \in Mail, InvalidateLinks(m) PROVE MailTypeOK'
  BY <1>2 DEF InvalidateLinks
<1>3. ASSUME NEW m \in Mail, CreateLink(m) PROVE MailTypeOK'
  <2>1. asked' \in [Mail -> {"new", "invalidate", "create", "publish", "done"}]
    BY <1>3 DEF CreateLink
  <2>2. links' \subseteq Mail /\ mintLeft' \in 0 .. MintFaults
    BY <1>3 DEF CreateLink
  <2> QED
    BY <1>3, <2>1, <2>2 DEF CreateLink
<1>4. ASSUME NEW m \in Mail, Publish(m) PROVE MailTypeOK'
  <2>1. queue' \in Seq(Mail) /\ Len(queue') <= Buffer
    <3>1. CASE queue' = queue
      BY <3>1
    <3>2. CASE queue' = Append(queue, m) /\ Len(queue) < Buffer
      BY <3>2, AppendProperties, LenProperties
    <3> QED
      BY <1>4, <3>1, <3>2 DEF Publish
  <2> QED
    BY <1>4, <2>1 DEF Publish
<1>5. ASSUME NEW w \in Worker, TakeMail(w) PROVE MailTypeOK'
  <2>1. Head(queue) \in Mail /\ Tail(queue) \in Seq(Mail) /\ Len(Tail(queue)) = Len(queue) - 1
    BY <1>5, HeadTailProperties DEF TakeMail
  <2>2. Len(queue) \in Nat
    BY LenProperties
  <2> QED
    BY <1>5, <2>1, <2>2 DEF TakeMail
<1>6. ASSUME NEW w \in Worker, HandleMail(w) PROVE MailTypeOK'
  <2>1. hand[w] \in Mail
    BY <1>6 DEF HandleMail
  <2> QED
    BY <1>6, <2>1 DEF HandleMail
<1>7. ASSUME NEW w \in Worker, WorkerEnds(w) PROVE MailTypeOK'
  BY <1>7 DEF WorkerEnds
<1>8. CASE Signal \/ ListenFails \/ ShutdownReturns \/ StopReturns
  BY <1>8 DEF Signal, ListenFails, ShutdownReturns, StopReturns, Turns
<1>9. CASE UNCHANGED mailVars
  BY <1>9 DEF mailVars
<1> QED
  BY <1>1, <1>2, <1>3, <1>4, <1>5, <1>6, <1>7, <1>8, <1>9 DEF MailNext

-----------------------------------------------------------------------------
(* The queue                                                                *)

LEMMA HeldIs ==
    ASSUME MailTypeOK
    PROVE  /\ Held \subseteq Mail
           /\ \A m \in Mail : m \in Held <=> \/ \E i \in 1..Len(queue) : queue[i] = m
                                             \/ \E w \in Worker : hand[w] = m
<1>1. \A i \in 1..Len(queue) : queue[i] \in Mail
  BY ElementOfSeq DEF MailTypeOK
<1>2. \A m \in Mail : m # None
  BY MailerAssumption
<1> QED
  BY <1>1, <1>2 DEF Held, MailTypeOK

\* A mail accepted is put in the queue, or dropped.
LEMMA PublishStep ==
    ASSUME QueueInv, MailTypeOK', NEW m \in Mail, Publish(m)
    PROVE  (OnePlace /\ Fresh /\ HeldIsDone)' /\ [Out!OutNext]_(Out!outVars)
<1>1. asked[m] = "publish" /\ asked' = [asked EXCEPT ![m] = "done"] /\ UNCHANGED <<hand, tries>>
  BY DEF Publish, Asks
<1>2. m \notin Held /\ tries[m] = 0
  BY <1>1 DEF QueueInv, HeldIsDone, Fresh
<1>3. CASE queue' = queue
  <2>1. Held' = Held
    BY <1>1, <1>3 DEF Held
  <2> QED
    BY <1>1, <1>2, <1>3, <2>1 DEF QueueInv, OnePlace, Fresh, HeldIsDone, MailTypeOK, Out!outVars
<1>4. CASE queue' = Append(queue, m)
  <2>1. /\ queue \in Seq(Mail) /\ Len(queue) \in Nat /\ Len(queue') = Len(queue) + 1
        /\ \A i \in 1..Len(queue) : queue'[i] = queue[i]
        /\ queue'[Len(queue) + 1] = m
    BY <1>4, AppendProperties, LenProperties DEF QueueInv, MailTypeOK
  <2>2. \A i \in 1..Len(queue') : i \in 1..Len(queue) \/ i = Len(queue) + 1
    BY <2>1
  <2>3. \A i \in 1..Len(queue) : queue[i] # m
    BY <1>2, HeldIs DEF QueueInv
  <2>4. \A w \in Worker : hand[w] # m
    BY <1>2, HeldIs DEF QueueInv
  <2>5. OnePlace'
    BY <1>1, <2>1, <2>2, <2>3, <2>4 DEF QueueInv, OnePlace
  <2>6. Held' = Held \cup {m}
    <3>1. {queue'[i] : i \in 1..Len(queue')} = {queue[i] : i \in 1..Len(queue)} \cup {m}
      BY <2>1, <2>2
    <3> QED
      BY <1>1, <3>1 DEF Held
  <2>7. Fresh' /\ HeldIsDone'
    BY <1>1, <1>2, <2>6 DEF QueueInv, Fresh, HeldIsDone, MailTypeOK
  <2>8. Out!Accept(m)
    BY <1>1, <1>2, <2>6 DEF Out!Accept
  <2> QED
    BY <2>5, <2>7, <2>8 DEF Out!OutNext
<1> QED
  BY <1>3, <1>4 DEF Publish

\* A mail moves from the head of the queue to a hand; the bus holds the same.
LEMMA TakeStep ==
    ASSUME QueueInv, MailTypeOK', NEW w \in Worker, TakeMail(w)
    PROVE  (OnePlace /\ Fresh /\ HeldIsDone)' /\ UNCHANGED Out!outVars
<1> DEFINE h == Head(queue)
<1>1. /\ hand[w] = None /\ hand' = [hand EXCEPT ![w] = h] /\ queue' = Tail(queue)
      /\ queue # <<>> /\ UNCHANGED <<tries, asked>>
  BY DEF TakeMail
<1>2. /\ queue \in Seq(Mail) /\ Len(queue) \in Nat \ {0} /\ Len(queue') = Len(queue) - 1
      /\ \A i \in 1..Len(queue') : queue'[i] = queue[i + 1]
      /\ h = queue[1] /\ h \in Mail
  BY <1>1, HeadTailProperties, LenProperties, EmptySeq DEF QueueInv, MailTypeOK
<1>3. \A v \in Worker : hand'[v] = IF v = w THEN h ELSE hand[v]
  BY <1>1 DEF QueueInv, MailTypeOK
<1>4. OnePlace'
  BY <1>2, <1>3 DEF QueueInv, OnePlace
<1>5. Held' = Held
  <2>1. ASSUME NEW m \in Mail PROVE m \in Held' <=> m \in Held
    <3>1. (\E i \in 1..Len(queue) : queue[i] = m) <=>
             h = m \/ \E i \in 1..Len(queue') : queue'[i] = m
      <4>1. ASSUME NEW i \in 1..Len(queue), queue[i] = m, i # 1
            PROVE  \E j \in 1..Len(queue') : queue'[j] = m
        <5>1. i - 1 \in 1..Len(queue') /\ queue'[i - 1] = queue[i]
          BY <1>2, <4>1
        <5> QED
          BY <4>1, <5>1
      <4>2. ASSUME NEW i \in 1..Len(queue'), queue'[i] = m
            PROVE  \E j \in 1..Len(queue) : queue[j] = m
        <5>1. i + 1 \in 1..Len(queue) /\ queue[i + 1] = m
          BY <1>2, <4>2
        <5> QED
          BY <5>1
      <4> QED
        BY <1>2, <4>1, <4>2
    <3>2. (\E v \in Worker : hand'[v] = m) <=> h = m \/ \E v \in Worker : hand[v] = m
      BY <1>1, <1>3, MailerAssumption
    <3>3. m \in Held <=> \/ \E i \in 1..Len(queue) : queue[i] = m
                         \/ \E v \in Worker : hand[v] = m
      BY HeldIs DEF QueueInv
    <3>4. m \in Held' <=> \/ \E i \in 1..Len(queue') : queue'[i] = m
                          \/ \E v \in Worker : hand'[v] = m
      BY MailerAssumption DEF Held
    <3> QED
      BY <3>1, <3>2, <3>3, <3>4
  <2>2. Held \subseteq Mail
    BY HeldIs DEF QueueInv
  <2>3. Held' \subseteq Mail
    <3>1. \A i \in 1..Len(queue') : queue'[i] \in Mail
      BY ElementOfSeq DEF MailTypeOK
    <3> QED
      BY <3>1 DEF Held, MailTypeOK
  <2> QED
    BY <2>1, <2>2, <2>3
<1>6. Fresh' /\ HeldIsDone'
  BY <1>1, <1>5 DEF QueueInv, Fresh, HeldIsDone
<1> QED
  BY <1>1, <1>4, <1>5, <1>6 DEF Out!outVars

\* A mail leaves the bus when its handler returns.
LEMMA HandleStep ==
    ASSUME QueueInv, MailTypeOK', NEW w \in Worker, HandleMail(w)
    PROVE  (OnePlace /\ Fresh /\ HeldIsDone)' /\ Out!OutNext
<1> DEFINE m == hand[w]
<1>1. /\ m \in Mail /\ m # None /\ hand' = [hand EXCEPT ![w] = None]
      /\ tries' = [tries EXCEPT ![m] = @ + 1] /\ UNCHANGED <<queue, asked>>
  BY DEF HandleMail, QueueInv, MailTypeOK
<1>2. \A v \in Worker : hand'[v] = IF v = w THEN None ELSE hand[v]
  BY <1>1 DEF QueueInv, MailTypeOK
<1>3. \A i \in 1..Len(queue) : queue[i] # None
  BY ElementOfSeq, MailerAssumption DEF QueueInv, MailTypeOK
<1>4. OnePlace'
  BY <1>1, <1>2, <1>3 DEF QueueInv, OnePlace
<1>5. m \in Held
  BY <1>1 DEF Held
<1>6. Held' = Held \ {m}
  <2>1. {hand'[v] : v \in Worker} \ {None} = ({hand[v] : v \in Worker} \ {None}) \ {m}
    BY <1>1, <1>2 DEF QueueInv, OnePlace
  <2>2. m \notin {queue[i] : i \in 1..Len(queue)}
    BY DEF QueueInv, OnePlace
  <2> QED
    BY <1>1, <2>1, <2>2 DEF Held
<1>7. Fresh' /\ HeldIsDone'
  <2>1. asked[m] = "done"
    BY <1>5 DEF QueueInv, HeldIsDone
  <2> QED
    BY <1>1, <1>6, <2>1 DEF QueueInv, Fresh, HeldIsDone, MailTypeOK
<1>8. Out!Try(m)
  BY <1>1, <1>5, <1>6 DEF Out!Try
<1> QED
  BY <1>1, <1>4, <1>7, <1>8 DEF Out!OutNext

\* Every other step leaves the queue, the hands and the tries alone.
LEMMA StillStep ==
    ASSUME QueueInv, UNCHANGED <<queue, hand, tries>>,
           \A m \in Mail : (asked[m] = "done" => asked'[m] = "done")
    PROVE  (OnePlace /\ Fresh /\ HeldIsDone)' /\ UNCHANGED Out!outVars
<1>1. Held' = Held
  BY DEF Held
<1>2. Held \subseteq Mail
  BY HeldIs DEF QueueInv
<1> QED
  BY <1>1, <1>2 DEF QueueInv, OnePlace, Fresh, HeldIsDone, Out!outVars

\* What Mailer does to the queue and the mails is a step of Outbox, or none.
LEMMA QueueStep ==
    ASSUME QueueInv, [MailNext]_mailVars
    PROVE  QueueInv' /\ [Out!OutNext]_(Out!outVars)
<1>1. MailTypeOK /\ MailTypeOK'
  BY MailTypeStep DEF QueueInv
<1> DEFINE Goal == (OnePlace /\ Fresh /\ HeldIsDone)' /\ [Out!OutNext]_(Out!outVars)
<1>2. ASSUME NEW m \in Mail, AskMail(m) \/ InvalidateLinks(m) \/ CreateLink(m) PROVE Goal
  <2>1. asked[m] # "done" /\ \A n \in Mail \ {m} : asked'[n] = asked[n]
    BY <1>1, <1>2 DEF AskMail, InvalidateLinks, CreateLink, Asks, MailTypeOK
  <2> QED
    BY <1>2, <2>1, StillStep DEF AskMail, InvalidateLinks, CreateLink
<1>3. ASSUME NEW m \in Mail, Publish(m) PROVE Goal
  BY <1>1, <1>3, PublishStep
<1>4. ASSUME NEW w \in Worker, TakeMail(w) PROVE Goal
  BY <1>1, <1>4, TakeStep
<1>5. ASSUME NEW w \in Worker, HandleMail(w) PROVE Goal
  BY <1>1, <1>5, HandleStep
<1>6. ASSUME \/ \E w \in Worker : WorkerEnds(w)
             \/ Signal \/ ListenFails \/ ShutdownReturns \/ StopReturns
             \/ UNCHANGED mailVars
      PROVE  Goal
  BY <1>6, StillStep DEF WorkerEnds, Signal, ListenFails, ShutdownReturns, StopReturns, Turns, mailVars
<1> HIDE DEF Goal
<1>7. Goal
  BY <1>2, <1>3, <1>4, <1>5, <1>6 DEF MailNext
<1> QED
  BY <1>1, <1>7 DEF Goal, QueueInv

-----------------------------------------------------------------------------
(* The links                                                                *)

LEMMA LinksStep ==
    ASSUME MailInv, [MailNext]_mailVars
    PROVE  (Meets /\ Survives /\ LinksOverlap)'
<1> USE DEF MailInv, MailTypeOK
<1>1. ASSUME NEW m \in Mail, AskMail(m) PROVE (Meets /\ Survives /\ LinksOverlap)'
  <2>1. /\ \A n \in Mail : asked'[n] = IF n = m THEN "invalidate" ELSE asked[n]
        /\ overlap \subseteq overlap' /\ UNCHANGED <<links, skipped>>
        /\ \A n \in InFlight : <<m, n>> \in overlap' /\ <<n, m>> \in overlap'
        /\ asked[m] = "new"
    BY <1>1 DEF AskMail, Asks, InFlight
  <2>2. \A x, y \in Mail : <<x, y>> \in overlap' =>
          <<x, y>> \in overlap \/ (x = m /\ y \in InFlight) \/ (y = m /\ x \in InFlight)
    BY <1>1 DEF AskMail
  <2>3. Meets'
    <3>1. \A x \in InFlight' : x = m \/ x \in InFlight
      BY <2>1 DEF InFlight
    <3> QED
      BY <2>1, <2>2, <3>1 DEF Meets, InFlight
  <2>4. Survives' /\ LinksOverlap'
    BY <2>1 DEF Survives, LinksOverlap
  <2> QED
    BY <2>3, <2>4
<1>2. ASSUME NEW m \in Mail, InvalidateLinks(m) PROVE (Meets /\ Survives /\ LinksOverlap)'
  <2>1. /\ \A n \in Mail : asked'[n] = IF n = m THEN "create" ELSE asked[n]
        /\ UNCHANGED overlap /\ skipped \subseteq skipped' /\ links' \subseteq links
        /\ links' = {} \/ m \in skipped'
        /\ asked[m] = "invalidate"
    BY <1>2 DEF InvalidateLinks, Asks
  <2>2. Meets'
    BY <2>1 DEF Meets, InFlight
  <2>3. Survives' /\ LinksOverlap'
    BY <2>1 DEF Survives, LinksOverlap
  <2> QED
    BY <2>2, <2>3
<1>3. ASSUME NEW m \in Mail, CreateLink(m) PROVE (Meets /\ Survives /\ LinksOverlap)'
  <2>1. /\ \A n \in Mail \ {m} : asked'[n] = asked[n]
        /\ asked[m] = "create" /\ asked'[m] \in {"publish", "done"}
        /\ UNCHANGED <<overlap, skipped>> /\ links' \subseteq links \cup {m}
    BY <1>3 DEF CreateLink, Asks
  <2>2. InFlight' \subseteq InFlight
    BY <2>1 DEF InFlight
  <2>3. Meets'
    BY <2>1, <2>2 DEF Meets
  <2>4. Survives'
    <3>1. ASSUME NEW n \in Mail, asked'[n] = "create", n # m PROVE <<m, n>> \in overlap
      BY <2>1, <3>1 DEF Meets, InFlight
    <3> QED
      BY <2>1, <3>1 DEF Survives
  <2>5. LinksOverlap'
    BY <2>1 DEF Survives, LinksOverlap, Meets
  <2> QED
    BY <2>3, <2>4, <2>5
<1>4. ASSUME NEW m \in Mail, Publish(m) PROVE (Meets /\ Survives /\ LinksOverlap)'
  <2>1. /\ \A n \in Mail : asked'[n] = asked[n] \/ asked'[n] = "done"
        /\ UNCHANGED <<overlap, skipped, links>>
    BY <1>4 DEF Publish, Asks
  <2>2. InFlight' \subseteq InFlight
    BY <2>1 DEF InFlight
  <2> QED
    BY <2>1, <2>2 DEF Meets, Survives, LinksOverlap
<1>5. CASE UNCHANGED <<asked, overlap, skipped, links>>
  BY <1>5 DEF Meets, Survives, LinksOverlap, InFlight
<1> QED
  BY <1>1, <1>2, <1>3, <1>4, <1>5
     DEF MailNext, mailVars, TakeMail, HandleMail, WorkerEnds, Signal, ListenFails,
         ShutdownReturns, StopReturns, Turns

\* So the invariant is kept, and every step is one of Outbox.
LEMMA MailInvStep ==
    ASSUME MailInv, [MailNext]_mailVars
    PROVE  MailInv' /\ [Out!OutNext]_(Out!outVars)
<1>1. QueueInv' /\ [Out!OutNext]_(Out!outVars)
  BY QueueStep DEF MailInv, QueueInv
<1> QED
  BY <1>1, LinksStep DEF MailInv, QueueInv

-----------------------------------------------------------------------------
\* The inductive invariant of the mails.
THEOREM MailInvHolds == MailSpec => []MailInv
<1>1. MailInv /\ [MailNext]_mailVars => MailInv'
  BY MailInvStep
<1> QED
  BY MailInitInv, <1>1, PTL DEF MailSpec

\* Every variable keeps its type, and the queue its capacity.
THEOREM MailTypes == MailSpec => []MailTypeOK
<1>1. MailInv => MailTypeOK
  BY DEF MailInv
<1> QED
  BY MailInvHolds, <1>1, PTL

\* Two links of a purpose work together only if their requests ran at once, or
\* an invalidation failed.
THEOREM OneLink == MailSpec => []LinksOverlap
<1>1. MailInv => LinksOverlap
  BY DEF MailInv
<1> QED
  BY MailInvHolds, <1>1, PTL

\* The bus hands a mail to its handler at most once, and only what it accepted:
\* the safety part of ImplementsOutbox.
THEOREM AtMostOnce == MailSpec => MailsAtMostOnce
<1>1. MailInit => Out!OutInit
  <2> SUFFICES ASSUME MailInit PROVE Out!OutInit
    OBVIOUS
  <2>1. Held = {}
    BY EmptySeq DEF MailInit, Held
  <2> QED
    BY <2>1 DEF MailInit, Out!OutInit
<1>2. MailInv /\ [MailNext]_mailVars => [Out!OutNext]_(Out!outVars)
  BY MailInvStep
<1> QED
  BY MailInvHolds, <1>1, <1>2, PTL DEF MailSpec, MailsAtMostOnce, Out!OutSafe
=============================================================================
