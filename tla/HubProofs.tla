----------------------------- MODULE HubProofs ------------------------------
(***************************************************************************)
(* No send on a closed channel and nobody missed, for any people,          *)
(* connections, publishers and channel capacity.                           *)
(*                                                                         *)
(* Both rest on the hub's lock: a publisher between RLock and RUnlock sees *)
(* a map nobody changes, so what it has still to reach is registered.      *)
(***************************************************************************)
EXTENDS Hub, TLAPS

\* A connection is in the map only after register and before unregister, its
\* channel is closed only from then on, and its pumps start after hello.
Lifecycle ==
    \A k \in Conn :
        /\ k \in clients => handler[k] \notin {"idle", "register"}
                            /\ reader[k] \notin {"close", "done"}
        /\ k \in closed => reader[k] \in {"close", "done"}
        /\ reader[k] # "off" => handler[k] = "done"

\* What a publisher has still to reach is registered, and it reaches nothing
\* without the lock.
Fanout ==
    \A p \in Publisher :
        /\ todo[p] \subseteq clients
        /\ publisher[p] # "send" => todo[p] = {}

\* Whom a message has not reached: under the lock, only people all of whose
\* connections are still to come; after it, only people without a connection
\* whom push has still to ask about.
Reach ==
    \A p \in Publisher :
        /\ publisher[p] = "send" =>
              /\ missed[p] \subseteq asking[p]
              /\ \A k \in clients : Owner[k] \in missed[p] => k \in todo[p]
        /\ publisher[p] = "ask" =>
              /\ missed[p] \subseteq asking[p]
              /\ \A k \in clients : Owner[k] \notin missed[p]
        /\ publisher[p] = "end" => missed[p] = {}

Inv == TypeOK /\ Lifecycle /\ Fanout /\ Reach

-----------------------------------------------------------------------------
(* Next, with its actions one by one.                                       *)

\* A step of the system is one of the actions below, or changes nothing.
ConnStep(k) ==
    \/ Upgrade(k) \/ PeerLeaves(k) \/ PingFails(k)
    \/ Register(k) \/ Heartbeat(k) \/ SendHello(k) \/ StartPumps(k)
    \/ TakeEvent(k) \/ WriteEvent(k) \/ SeeClosed(k)
    \/ ReadFails(k) \/ Unregister(k) \/ CloseConn(k)

PublisherStep(p) ==
    \/ \E members \in SUBSET User \ {{}} : NotifyUsers(p, members)
    \/ \E k \in Conn : Deliver(p, k)
    \/ \E u \in User : AskConnected(p, u)
    \/ Notified(p) \/ Pushed(p) \/ Return(p)

\* Every step of Next is a step of one connection or of one publisher.
LEMMA NextSteps ==
    Next => (\E k \in Conn : ConnStep(k)) \/ (\E p \in Publisher : PublisherStep(p))
BY DEF Next, ConnStep, PublisherStep, Handler, Writer, Reader, Publishing

-----------------------------------------------------------------------------
(* Types                                                                    *)

\* A step of a connection keeps every variable in its type.
LEMMA TypeConn ==
    ASSUME TypeOK, NEW k \in Conn, ConnStep(k)
    PROVE  TypeOK'
<1> USE HubAssumption DEF TypeOK, hub, pumps, publishing
<1>1. CASE Upgrade(k)
  BY <1>1 DEF Upgrade
<1>2. CASE PeerLeaves(k)
  BY <1>2 DEF PeerLeaves
<1>3. CASE PingFails(k)
  BY <1>3 DEF PingFails, WriterEnds
<1>4. CASE Register(k)
  BY <1>4 DEF Register
<1>5. CASE Heartbeat(k)
  BY <1>5 DEF Heartbeat
<1>6. CASE SendHello(k)
  BY <1>6 DEF SendHello
<1>7. CASE StartPumps(k)
  BY <1>7 DEF StartPumps
<1>8. CASE TakeEvent(k)
  BY <1>8 DEF TakeEvent
<1>9. CASE WriteEvent(k)
  BY <1>9 DEF WriteEvent, WriterEnds
<1>10. CASE SeeClosed(k)
  BY <1>10 DEF SeeClosed, WriterEnds
<1>11. CASE ReadFails(k)
  BY <1>11 DEF ReadFails
<1>12. CASE Unregister(k)
  BY <1>12 DEF Unregister
<1>13. CASE CloseConn(k)
  BY <1>13 DEF CloseConn
<1>14. QED
  BY <1>1, <1>2, <1>3, <1>4, <1>5, <1>6, <1>7, <1>8, <1>9, <1>10, <1>11, <1>12, <1>13
     DEF ConnStep

\* So does a step of a publisher.
LEMMA TypePublisher ==
    ASSUME TypeOK, NEW p \in Publisher, PublisherStep(p)
    PROVE  TypeOK'
<1> USE HubAssumption DEF TypeOK, hub, pumps, publishing
<1>1. ASSUME NEW members \in SUBSET User \ {{}}, NotifyUsers(p, members)
      PROVE  TypeOK'
  BY <1>1 DEF NotifyUsers
<1>2. ASSUME NEW k \in Conn, Deliver(p, k)
      PROVE  TypeOK'
  BY <1>2 DEF Deliver
<1>3. ASSUME NEW u \in User, AskConnected(p, u)
      PROVE  TypeOK'
  BY <1>3 DEF AskConnected
<1>4. CASE Notified(p)
  BY <1>4 DEF Notified
<1>5. CASE Pushed(p)
  BY <1>5 DEF Pushed
<1>6. CASE Return(p)
  BY <1>6 DEF Return
<1>7. QED
  BY <1>1, <1>2, <1>3, <1>4, <1>5, <1>6 DEF PublisherStep

-----------------------------------------------------------------------------
(* The map, the channels and the publishers                                 *)

\* A step of a connection keeps the invariant; only register and unregister
\* touch the map, and no publisher is in its loop then.
LEMMA InvConn ==
    ASSUME Inv, NEW k \in Conn, ConnStep(k)
    PROVE  Inv'
<1>1. TypeOK /\ TypeOK'
  BY TypeConn DEF Inv
<1>2. CASE Register(k)
  <2>1. Lifecycle'
    BY <1>1, <1>2 DEF Inv, TypeOK, Lifecycle, Register, publishing
  <2>2. \A p \in Publisher : publisher[p] # "send" /\ todo[p] = {}
    BY <1>2 DEF Inv, Fanout, Register, ReadLocked
  <2>3. Fanout'
    BY <1>2, <2>2 DEF Fanout, Register, publishing
  <2>4. Reach'
    BY <1>1, <1>2, <2>2 DEF Inv, TypeOK, Reach, Register, publishing
  <2>5. QED
    BY <1>1, <2>1, <2>3, <2>4 DEF Inv
<1>3. CASE Unregister(k)
  <2>1. Lifecycle'
    BY <1>1, <1>3 DEF Inv, TypeOK, Lifecycle, Unregister, publishing
  <2>2. \A p \in Publisher : publisher[p] # "send" /\ todo[p] = {}
    BY <1>3 DEF Inv, Fanout, Unregister, ReadLocked
  <2>3. Fanout'
    BY <1>3, <2>2 DEF Fanout, Unregister, publishing
  <2>4. Reach'
    BY <1>1, <1>3, <2>2 DEF Inv, TypeOK, Reach, Unregister, publishing
  <2>5. QED
    BY <1>1, <2>1, <2>3, <2>4 DEF Inv
<1>4. CASE Upgrade(k) \/ Heartbeat(k) \/ SendHello(k) \/ StartPumps(k)
  <2>1. UNCHANGED <<hub, publishing, missed>>
    BY <1>4 DEF Upgrade, Heartbeat, SendHello, StartPumps
  <2>2. Lifecycle'
    BY <1>1, <1>4, <2>1
       DEF Inv, TypeOK, Lifecycle, Upgrade, Heartbeat, SendHello, StartPumps, hub
  <2>3. Fanout' /\ Reach'
    BY <2>1 DEF Inv, Fanout, Reach, hub, publishing
  <2>4. QED
    BY <1>1, <2>2, <2>3 DEF Inv
<1>5. CASE ReadFails(k) \/ CloseConn(k)
  <2>1. UNCHANGED <<hub, publishing, missed, handler>>
    BY <1>5 DEF ReadFails, CloseConn
  <2>2. Lifecycle'
    BY <1>1, <1>5, <2>1 DEF Inv, TypeOK, Lifecycle, ReadFails, CloseConn, hub
  <2>3. Fanout' /\ Reach'
    BY <2>1 DEF Inv, Fanout, Reach, hub, publishing
  <2>4. QED
    BY <1>1, <2>2, <2>3 DEF Inv
<1>6. CASE PeerLeaves(k) \/ PingFails(k) \/ TakeEvent(k) \/ WriteEvent(k) \/ SeeClosed(k)
  <2>1. UNCHANGED <<hub, publishing, missed, handler, reader>>
    BY <1>6 DEF PeerLeaves, PingFails, TakeEvent, WriteEvent, SeeClosed, pumps
  <2>2. Lifecycle' /\ Fanout' /\ Reach'
    BY <2>1 DEF Inv, Lifecycle, Fanout, Reach, hub, publishing
  <2>3. QED
    BY <1>1, <2>2 DEF Inv
<1>7. QED
  BY <1>2, <1>3, <1>4, <1>5, <1>6 DEF ConnStep

\* So does a step of a publisher: it takes the map as it is, crosses out whom it
\* reaches, and asks about the rest.
LEMMA InvPublisher ==
    ASSUME Inv, NEW p \in Publisher, PublisherStep(p)
    PROVE  Inv'
<1>1. TypeOK /\ TypeOK'
  BY TypePublisher DEF Inv
<1>2. UNCHANGED <<hub, handler, reader>>
  BY DEF PublisherStep, NotifyUsers, Deliver, AskConnected, Notified, Pushed, Return, pumps
<1>3. Lifecycle'
  BY <1>2 DEF Inv, Lifecycle, hub
<1>4. ASSUME NEW members \in SUBSET User \ {{}}, NotifyUsers(p, members)
      PROVE  Fanout' /\ Reach'
  BY <1>1, <1>4 DEF Inv, TypeOK, Fanout, Reach, NotifyUsers, hub
<1>5. ASSUME NEW k \in Conn, Deliver(p, k)
      PROVE  Fanout' /\ Reach'
  <2>1. Fanout'
    BY <1>1, <1>5 DEF Inv, TypeOK, Fanout, Deliver, hub
  <2>2. Reach'
    BY <1>1, <1>5 DEF Inv, TypeOK, Reach, Deliver, hub
  <2>3. QED
    BY <2>1, <2>2
<1>6. ASSUME NEW u \in User, AskConnected(p, u)
      PROVE  Fanout' /\ Reach'
  <2>1. Fanout'
    BY <1>6 DEF Inv, Fanout, AskConnected, hub
  <2>2. Reach'
    BY <1>1, <1>6 DEF Inv, TypeOK, Reach, AskConnected, Connected, hub
  <2>3. QED
    BY <2>1, <2>2
<1>7. ASSUME Notified(p)
      PROVE  Fanout' /\ Reach'
  BY <1>1, <1>7 DEF Inv, TypeOK, Fanout, Reach, Notified, hub
<1>8. ASSUME Pushed(p)
      PROVE  Fanout' /\ Reach'
  BY <1>1, <1>8 DEF Inv, TypeOK, Fanout, Reach, Pushed, hub
<1>9. ASSUME Return(p)
      PROVE  Fanout' /\ Reach'
  BY <1>1, <1>9 DEF Inv, TypeOK, Fanout, Reach, Return, hub
<1>10. Fanout' /\ Reach'
  BY <1>4, <1>5, <1>6, <1>7, <1>8, <1>9 DEF PublisherStep
<1>11. QED
  BY <1>1, <1>3, <1>10 DEF Inv

-----------------------------------------------------------------------------
(* The theorems                                                             *)

\* The invariant of the hub's lock holds in every reachable state.
THEOREM InvHolds == Spec => []Inv
<1>1. Init => Inv
  BY HubAssumption DEF Init, Inv, TypeOK, Lifecycle, Fanout, Reach
<1>2. Inv /\ [Next]_vars => Inv'
  <2> SUFFICES ASSUME Inv, [Next]_vars
               PROVE  Inv'
    OBVIOUS
  <2>1. CASE Next
    BY <2>1, NextSteps, InvConn, InvPublisher
  <2>2. CASE UNCHANGED vars
    BY <2>2 DEF vars, Inv, TypeOK, Lifecycle, Fanout, Reach
  <2>3. QED
    BY <2>1, <2>2
<1>3. QED
  BY <1>1, <1>2, PTL DEF Spec

\* Every variable keeps its type; a channel never holds more than its capacity.
THEOREM TypeCorrect == Spec => []TypeOK
<1>1. Inv => TypeOK
  BY DEF Inv
<1>2. QED
  BY <1>1, InvHolds, PTL

\* Neither a publisher nor the upgrade handler ever sends on a closed channel
\* (hub.go: close under the write lock, send under the read lock).
THEOREM NoPanic == Spec => []NoSendOnClosed
<1>1. Inv => NoSendOnClosed
  <2> SUFFICES ASSUME Inv
               PROVE  NoSendOnClosed
    OBVIOUS
  <2>1. closed \subseteq Conn /\ clients \subseteq Conn
    BY DEF Inv, TypeOK
  <2>2. clients \cap closed = {}
    BY <2>1 DEF Inv, Lifecycle
  <2>3. \A p \in Publisher : todo[p] \cap closed = {}
    BY <2>2 DEF Inv, Fanout
  <2>4. \A k \in closed : handler[k] = "done"
    BY <2>1 DEF Inv, Lifecycle
  <2>5. QED
    BY <2>3, <2>4 DEF NoSendOnClosed
<1>2. QED
  BY <1>1, InvHolds, PTL

\* Whoever a request tells is reached: by an event, by the fetch after hello, or
\* by a push notification, whenever they connect or disconnect.
THEOREM Reached == Spec => []NobodyMissed
<1>1. Inv => NobodyMissed
  BY DEF Inv, Reach, NobodyMissed
<1>2. QED
  BY <1>1, InvHolds, PTL
=============================================================================
