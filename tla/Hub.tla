-------------------------------- MODULE Hub --------------------------------
(***************************************************************************)
(* The WebSocket hub (realtime/hub.go, realtime/ws_handler.go) and the     *)
(* services that publish through it (notifyMembers, then push).            *)
(*                                                                         *)
(* A connection is a request goroutine that registers it, queues hello and *)
(* starts two pumps; they share a bounded channel that NotifyUsers fills   *)
(* under the hub's read lock and that the read pump closes under the write *)
(* lock.  What an event says is not looked at, so a channel is its length. *)
(*                                                                         *)
(* Register and unregister hold the write lock for one step.  As in        *)
(* sync.RWMutex, nobody gets the read lock while a writer waits.           *)
(***************************************************************************)
EXTENDS Naturals, FiniteSets

CONSTANTS
    User,
    Conn,        \* connections that will ever be opened
    Owner,       \* Conn -> User, from the access token
    Publisher,   \* request goroutines with something to tell
    Buffer       \* capacity of a connection's send channel

ASSUME HubAssumption ==
    /\ IsFiniteSet(Conn) /\ IsFiniteSet(User)
    /\ Owner \in [Conn -> User]
    /\ Buffer \in Nat \ {0}

VARIABLES
    socket,     \* Conn -> none yet, open, gone (peer away or silent), shut by us
    clients,    \* the hub's map: registered connections
    queue,      \* Conn -> events in its send channel
    closed,     \* connections whose send channel is closed
    handler,    \* Conn -> next step of the upgrade handler
    writer,     \* Conn -> state of writePump
    reader,     \* Conn -> state of readPump
    publisher,  \* Publisher -> next step
    todo,       \* Publisher -> connections NotifyUsers has still to reach
    asking,     \* Publisher -> people push has still to ask IsConnected about
    missed      \* history: Publisher -> people its message has not reached yet

vars == <<socket, clients, queue, closed, handler, writer, reader, publisher, todo,
          asking, missed>>

hub == <<clients, closed>>

pumps == <<handler, writer, reader>>

publishing == <<publisher, todo, asking>>

-----------------------------------------------------------------------------

\* IsConnected for anyone who ever was.
Connected_Once(u) == \E k \in Conn : Owner[k] = u /\ handler[k] = "done"

Connected(u) == \E k \in clients : Owner[k] = u

\* Goroutines waiting in Lock().
WriterWaits == \E k \in Conn : handler[k] = "register" \/ reader[k] = "unregister"

\* Goroutines between RLock and RUnlock.
ReadLocked == \E p \in Publisher : publisher[p] = "send"

TypeOK ==
    /\ socket \in [Conn -> {"none", "open", "gone", "shut"}]
    /\ clients \in SUBSET Conn /\ closed \in SUBSET Conn
    /\ queue \in [Conn -> 0..Buffer]
    /\ handler \in [Conn -> {"idle", "register", "heartbeat", "hello", "start", "done"}]
    /\ writer \in [Conn -> {"off", "select", "write", "done"}]
    /\ reader \in [Conn -> {"off", "read", "unregister", "close", "done"}]
    /\ publisher \in [Publisher -> {"idle", "send", "ask", "end"}]
    /\ todo \in [Publisher -> SUBSET Conn]
    /\ asking \in [Publisher -> SUBSET User]
    /\ missed \in [Publisher -> SUBSET User]

Init ==
    /\ socket = [k \in Conn |-> "none"]
    /\ clients = {} /\ closed = {}
    /\ queue = [k \in Conn |-> 0]
    /\ handler = [k \in Conn |-> "idle"]
    /\ writer = [k \in Conn |-> "off"]
    /\ reader = [k \in Conn |-> "off"]
    /\ publisher = [p \in Publisher |-> "idle"]
    /\ todo = [p \in Publisher |-> {}]
    /\ asking = [p \in Publisher |-> {}]
    /\ missed = [p \in Publisher |-> {}]

-----------------------------------------------------------------------------
(* The handler of GET /ws *)

\* A valid token and a completed upgrade.
Upgrade(k) ==
    /\ handler[k] = "idle"
    /\ socket' = [socket EXCEPT ![k] = "open"]
    /\ handler' = [handler EXCEPT ![k] = "register"]
    /\ UNCHANGED <<hub, queue, writer, reader, publishing, missed>>

Register(k) ==
    /\ handler[k] = "register"
    /\ ~ReadLocked
    /\ clients' = clients \cup {k}
    /\ handler' = [handler EXCEPT ![k] = "heartbeat"]
    /\ missed' = [p \in Publisher |-> missed[p] \ {Owner[k]}]
    /\ UNCHANGED <<socket, queue, closed, writer, reader, publishing>>

\* HeartbeatUser writes last_seen_at; its error is dropped.
Heartbeat(k) ==
    /\ handler[k] = "heartbeat"
    /\ handler' = [handler EXCEPT ![k] = "hello"]
    /\ UNCHANGED <<socket, hub, queue, writer, reader, publishing, missed>>

\* cl.send <- hello blocks while the channel is full.
SendHello(k) ==
    /\ handler[k] = "hello"
    /\ queue[k] < Buffer
    /\ queue' = [queue EXCEPT ![k] = @ + 1]
    /\ handler' = [handler EXCEPT ![k] = "start"]
    /\ UNCHANGED <<socket, hub, writer, reader, publishing, missed>>

StartPumps(k) ==
    /\ handler[k] = "start"
    /\ handler' = [handler EXCEPT ![k] = "done"]
    /\ writer' = [writer EXCEPT ![k] = "select"]
    /\ reader' = [reader EXCEPT ![k] = "read"]
    /\ UNCHANGED <<socket, hub, queue, publishing, missed>>

Handler(k) == Register(k) \/ Heartbeat(k) \/ SendHello(k) \/ StartPumps(k)

-----------------------------------------------------------------------------
(* The pumps *)

\* writePump returns: the ticker stops and the connection is closed.
WriterEnds(k) ==
    /\ writer' = [writer EXCEPT ![k] = "done"]
    /\ socket' = [socket EXCEPT ![k] = "shut"]

TakeEvent(k) ==
    /\ writer[k] = "select"
    /\ queue[k] > 0
    /\ queue' = [queue EXCEPT ![k] = @ - 1]
    /\ writer' = [writer EXCEPT ![k] = "write"]
    /\ UNCHANGED <<socket, hub, handler, reader, publishing, missed>>

\* A peer that is gone may still seem to take an event, one that is there may be
\* too slow for the write deadline.
WriteEvent(k) ==
    /\ writer[k] = "write"
    /\ \/ /\ socket[k] # "shut"
          /\ writer' = [writer EXCEPT ![k] = "select"]
          /\ UNCHANGED socket
       \/ WriterEnds(k)
    /\ UNCHANGED <<hub, queue, handler, reader, publishing, missed>>

\* A drained channel that is closed.
SeeClosed(k) ==
    /\ writer[k] = "select"
    /\ queue[k] = 0 /\ k \in closed
    /\ WriterEnds(k)
    /\ UNCHANGED <<hub, queue, handler, reader, publishing, missed>>

Writer(k) == TakeEvent(k) \/ WriteEvent(k) \/ SeeClosed(k)

\* A ping that cannot be written.
PingFails(k) ==
    /\ writer[k] = "select"
    /\ WriterEnds(k)
    /\ UNCHANGED <<hub, queue, handler, reader, publishing, missed>>

\* No read deadline: a silent peer is waited for.
ReadFails_NoDeadline(k) ==
    /\ reader[k] = "read"
    /\ socket[k] = "shut"
    /\ reader' = [reader EXCEPT ![k] = "unregister"]
    /\ UNCHANGED <<socket, hub, queue, handler, writer, publishing, missed>>

\* ReadMessage fails: a close frame, the pong deadline, or the connection closed
\* by the write pump.
ReadFails(k) ==
    /\ reader[k] = "read"
    /\ socket[k] \in {"gone", "shut"}
    /\ reader' = [reader EXCEPT ![k] = "unregister"]
    /\ UNCHANGED <<socket, hub, queue, handler, writer, publishing, missed>>

\* The channel is closed outside of the lock.
Unregister_Unlocked(k) ==
    /\ reader[k] = "unregister"
    /\ clients' = clients \ {k}
    /\ closed' = closed \cup {k}
    /\ reader' = [reader EXCEPT ![k] = "close"]
    /\ UNCHANGED <<socket, queue, handler, writer, publishing, missed>>

Unregister(k) ==
    /\ reader[k] = "unregister"
    /\ ~ReadLocked
    /\ clients' = clients \ {k}
    /\ closed' = closed \cup {k}
    /\ reader' = [reader EXCEPT ![k] = "close"]
    /\ UNCHANGED <<socket, queue, handler, writer, publishing, missed>>

CloseConn(k) ==
    /\ reader[k] = "close"
    /\ socket' = [socket EXCEPT ![k] = "shut"]
    /\ reader' = [reader EXCEPT ![k] = "done"]
    /\ UNCHANGED <<hub, queue, handler, writer, publishing, missed>>

Reader(k) == ReadFails(k) \/ Unregister(k) \/ CloseConn(k)

\* The peer closes, loses the network, or stops answering pings.
PeerLeaves(k) ==
    /\ socket[k] = "open"
    /\ socket' = [socket EXCEPT ![k] = "gone"]
    /\ UNCHANGED <<hub, queue, pumps, publishing, missed>>

-----------------------------------------------------------------------------
(* Publishing *)

\* NotifyUsers takes the read lock; the map cannot change until it lets go.
NotifyUsers(p, members) ==
    /\ publisher[p] = "idle"
    /\ ~WriterWaits
    /\ publisher' = [publisher EXCEPT ![p] = "send"]
    /\ todo' = [todo EXCEPT ![p] = {k \in clients : Owner[k] \in members}]
    /\ asking' = [asking EXCEPT ![p] = members]
    /\ missed' = [missed EXCEPT ![p] = members]
    /\ UNCHANGED <<socket, hub, queue, pumps>>

\* A queue that grows.
Deliver_Unbounded(p, k) ==
    /\ publisher[p] = "send"
    /\ k \in todo[p]
    /\ queue' = [queue EXCEPT ![k] = @ + 1]
    /\ todo' = [todo EXCEPT ![p] = @ \ {k}]
    /\ missed' = [missed EXCEPT ![p] = @ \ {Owner[k]}]
    /\ UNCHANGED <<socket, hub, pumps, publisher, asking>>

\* A plain send.
Deliver_Blocking(p, k) ==
    /\ publisher[p] = "send"
    /\ k \in todo[p]
    /\ queue[k] < Buffer
    /\ queue' = [queue EXCEPT ![k] = @ + 1]
    /\ todo' = [todo EXCEPT ![p] = @ \ {k}]
    /\ missed' = [missed EXCEPT ![p] = @ \ {Owner[k]}]
    /\ UNCHANGED <<socket, hub, pumps, publisher, asking>>

\* A select with a default: a full channel is skipped, and what it holds already
\* makes its owner look again.
Deliver(p, k) ==
    /\ publisher[p] = "send"
    /\ k \in todo[p]
    /\ queue' = IF queue[k] < Buffer THEN [queue EXCEPT ![k] = @ + 1] ELSE queue
    /\ todo' = [todo EXCEPT ![p] = @ \ {k}]
    /\ missed' = [missed EXCEPT ![p] = @ \ {Owner[k]}]
    /\ UNCHANGED <<socket, hub, pumps, publisher, asking>>

\* RUnlock.
Notified(p) ==
    /\ publisher[p] = "send"
    /\ todo[p] = {}
    /\ publisher' = [publisher EXCEPT ![p] = "ask"]
    /\ UNCHANGED <<socket, hub, queue, pumps, todo, asking, missed>>

\* push: whoever is not connected now gets a notification.
AskConnected(p, u) ==
    /\ publisher[p] = "ask"
    /\ u \in asking[p]
    /\ ~WriterWaits
    /\ asking' = [asking EXCEPT ![p] = @ \ {u}]
    /\ missed' = IF Connected(u) THEN missed ELSE [missed EXCEPT ![p] = @ \ {u}]
    /\ UNCHANGED <<socket, hub, queue, pumps, publisher, todo>>

Pushed(p) ==
    /\ publisher[p] = "ask"
    /\ asking[p] = {}
    /\ publisher' = [publisher EXCEPT ![p] = "end"]
    /\ UNCHANGED <<socket, hub, queue, pumps, todo, asking, missed>>

\* The request answers.
Return(p) ==
    /\ publisher[p] = "end"
    /\ publisher' = [publisher EXCEPT ![p] = "idle"]
    /\ missed' = [missed EXCEPT ![p] = {}]
    /\ UNCHANGED <<socket, hub, queue, pumps, todo, asking>>

Publishing(p) ==
    \/ \E k \in Conn : Deliver(p, k)
    \/ \E u \in User : AskConnected(p, u)
    \/ Notified(p) \/ Pushed(p) \/ Return(p)

-----------------------------------------------------------------------------

Next ==
    \/ \E k \in Conn : \/ Upgrade(k) \/ PeerLeaves(k) \/ PingFails(k)
                       \/ Handler(k) \/ Writer(k) \/ Reader(k)
    \/ \E p \in Publisher : \/ \E members \in SUBSET User \ {{}} : NotifyUsers(p, members)
                            \/ Publishing(p)

\* Goroutines run: the scheduler is fair, a read or a write ends at its deadline,
\* and the database answers.  Nobody has to connect, leave or publish.
Fairness ==
    /\ \A k \in Conn : WF_vars(Handler(k)) /\ WF_vars(Writer(k)) /\ WF_vars(Reader(k))
    /\ \A p \in Publisher : WF_vars(Publishing(p))

Spec == Init /\ [][Next]_vars /\ Fairness

-----------------------------------------------------------------------------
(* Properties *)

\* No goroutine sends on a closed channel, which would panic: not a publisher that
\* has still to reach the connection, and not the handler with its hello.
NoSendOnClosed ==
    /\ \A p \in Publisher : todo[p] \cap closed = {}
    /\ \A k \in closed : handler[k] = "done"

\* Nobody falls between the socket and the push notification: when a request has
\* told a member, an event is queued for them, or they connected since and will
\* fetch after hello, or they were not connected and got a notification.
NobodyMissed == \A p \in Publisher : publisher[p] = "end" => missed[p] = {}

\* A publisher is never held up by a slow, dead or half-open connection: it gets
\* through its loop and lets go of the lock.
PublisherReturns == \A p \in Publisher : publisher[p] # "idle" ~> publisher[p] = "idle"

\* Once its pumps run, a connection whose peer is gone, or that one pump has given
\* up on, leaves the map, and neither pump lingers.
CleanedUp ==
    \A k \in Conn :
        (reader[k] # "off" /\ socket[k] # "open")
            ~> (k \notin clients /\ writer[k] = "done" /\ reader[k] = "done")

\* The socket is the presence signal: push notifications are held back for someone
\* while it is open (API.md, section 6), so not for good once it is not.
PresenceEnds ==
    \A k \in Conn : socket[k] \in {"gone", "shut"} ~> k \notin clients
=============================================================================
