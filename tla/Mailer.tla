------------------------------- MODULE Mailer -------------------------------
(* The mails of one account and one purpose (verify, or reset), from the       *)
(* request that mints a one-time token to the worker that sends it: the token  *)
(* statements, the bounded queue of the event bus, its pool of workers, and    *)
(* the shutdown of the server.                                                 *)
EXTENDS Backend, Naturals, Sequences

CONSTANTS
    Mail,           \* requests that mail a link of one purpose
    Worker,         \* goroutines of the pool
    Buffer,         \* capacity of the queue
    MintFaults      \* bound on token statements that fail

ASSUME MailerAssumption == /\ None \notin Mail
                           /\ Buffer \in Nat \ {0}
                           /\ MintFaults \in Nat

VARIABLES
    phase,      \* the process: serving, draining requests, closed queue, stopped
    asked,      \* where each request is
    links,      \* action_tokens of the account and purpose that still work
    queue,      \* the channel
    hand,       \* what each worker is sending
    working,    \* workers whose loop has not ended
    tries,      \* history: how often each mail was handed to the sender
    overlap,    \* history: pairs of requests that ran at the same time
    skipped,    \* history: requests whose InvalidateActions failed
    mintLeft    \* failures that may still happen

mailVars == <<phase, asked, links, queue, hand, working, tries, overlap, skipped, mintLeft>>

MailTypeOK ==
    /\ phase \in {"serving", "draining", "closed", "stopped"}
    /\ asked \in [Mail -> {"new", "invalidate", "create", "publish", "done"}]
    /\ links \subseteq Mail
    /\ queue \in Seq(Mail) /\ Len(queue) <= Buffer
    /\ hand \in [Worker -> Mail \cup {None}]
    /\ working \subseteq Worker
    /\ tries \in [Mail -> Nat]
    /\ overlap \subseteq Mail \X Mail
    /\ skipped \subseteq Mail
    /\ mintLeft \in 0..MintFaults

MailInit ==
    /\ phase = "serving"
    /\ asked = [m \in Mail |-> "new"]
    /\ links = {}
    /\ queue = <<>>
    /\ hand = [w \in Worker |-> None]
    /\ working = Worker
    /\ tries = [m \in Mail |-> 0]
    /\ overlap = {}
    /\ skipped = {}
    /\ mintLeft = MintFaults

-----------------------------------------------------------------------------
(* Requests.                                                                  *)
Running == phase # "stopped"

Asks(m, from, to) == asked[m] = from /\ asked' = [asked EXCEPT ![m] = to]

InFlight == {m \in Mail : asked[m] \notin {"new", "done"}}

\* Shutdown closes the listener first: only a serving process takes requests.
AskMail(m) ==
    /\ phase = "serving"
    /\ Asks(m, "new", "invalidate")
    /\ overlap' = overlap \cup ({m} \X InFlight) \cup (InFlight \X {m})
    /\ UNCHANGED <<phase, links, queue, hand, working, tries, skipped, mintLeft>>

\* A new link leaves the old ones alone (LinksOverlap).
InvalidateLinks_Kept(m) ==
    /\ Running
    /\ Asks(m, "invalidate", "create")
    /\ UNCHANGED <<phase, links, queue, hand, working, tries, overlap, skipped, mintLeft>>

\* Its error is ignored, and the links that were there go on working.
InvalidateLinks(m) ==
    /\ Running
    /\ Asks(m, "invalidate", "create")
    /\ \/ links' = {} /\ UNCHANGED <<skipped, mintLeft>>
       \/ /\ mintLeft > 0
          /\ mintLeft' = mintLeft - 1
          /\ skipped' = skipped \cup {m}
          /\ UNCHANGED links
    /\ UNCHANGED <<phase, queue, hand, working, tries, overlap>>

\* Without a token there is no mail.
CreateLink(m) ==
    /\ Running
    /\ \/ Asks(m, "create", "publish") /\ links' = links \cup {m} /\ UNCHANGED mintLeft
       \/ /\ Asks(m, "create", "done")
          /\ mintLeft > 0
          /\ mintLeft' = mintLeft - 1
          /\ UNCHANGED links
    /\ UNCHANGED <<phase, queue, hand, working, tries, overlap, skipped>>

\* Stop waits without closing the queue (ServerStops).
QueueClosed_Never == FALSE

QueueClosed == phase \in {"closed", "stopped"}

\* A queue that grows with its publishers (the type of the queue).
Publish_Unbounded(m) ==
    /\ Running
    /\ Asks(m, "publish", "done")
    /\ queue' = IF QueueClosed THEN queue ELSE Append(queue, m)
    /\ UNCHANGED <<phase, links, hand, working, tries, overlap, skipped, mintLeft>>

\* Never blocks: a full queue drops the mail.  A send on the closed channel
\* panics, which Recovery turns into a 500; the mail is lost either way.
Publish(m) ==
    /\ Running
    /\ Asks(m, "publish", "done")
    /\ queue' = IF ~QueueClosed /\ Len(queue) < Buffer THEN Append(queue, m) ELSE queue
    /\ UNCHANGED <<phase, links, hand, working, tries, overlap, skipped, mintLeft>>

-----------------------------------------------------------------------------
(* The pool: "for e := range queue".                                          *)
TakeMail(w) ==
    /\ Running
    /\ w \in working
    /\ hand[w] = None
    /\ queue # <<>>
    /\ hand' = [hand EXCEPT ![w] = Head(queue)]
    /\ queue' = Tail(queue)
    /\ UNCHANGED <<phase, asked, links, working, tries, overlap, skipped, mintLeft>>

\* The handler returns; an error is only logged.
HandleMail(w) ==
    /\ Running
    /\ hand[w] # None
    /\ tries' = [tries EXCEPT ![hand[w]] = @ + 1]
    /\ hand' = [hand EXCEPT ![w] = None]
    /\ UNCHANGED <<phase, asked, links, queue, working, overlap, skipped, mintLeft>>

\* The loop ends when the queue closes, full or not (ImplementsOutbox).
WorkerEnds_Undrained(w) ==
    /\ Running
    /\ w \in working
    /\ hand[w] = None
    /\ QueueClosed
    /\ working' = working \ {w}
    /\ UNCHANGED <<phase, asked, links, queue, hand, tries, overlap, skipped, mintLeft>>

WorkerEnds(w) ==
    /\ Running
    /\ w \in working
    /\ hand[w] = None
    /\ queue = <<>>
    /\ QueueClosed
    /\ working' = working \ {w}
    /\ UNCHANGED <<phase, asked, links, queue, hand, tries, overlap, skipped, mintLeft>>

-----------------------------------------------------------------------------
(* The process.                                                               *)
Turns(from, to) ==
    /\ phase = from
    /\ phase' = to
    /\ UNCHANGED <<asked, links, queue, hand, working, tries, overlap, skipped, mintLeft>>

Signal == Turns("serving", "draining")

\* ListenAndServe failed: the deferred Stop runs, whatever is in flight.
ListenFails == Turns("serving", "closed")

\* Shutdown returns when no request is left, or at its deadline; then Stop
\* closes the queue.
ShutdownReturns == Turns("draining", "closed")

\* wg.Wait returns, run returns, and the process ends with its requests.
StopReturns == working = {} /\ Turns("closed", "stopped")

MailNext ==
    \/ \E m \in Mail : AskMail(m) \/ InvalidateLinks(m) \/ CreateLink(m) \/ Publish(m)
    \/ \E w \in Worker : TakeMail(w) \/ HandleMail(w) \/ WorkerEnds(w)
    \/ Signal \/ ListenFails \/ ShutdownReturns \/ StopReturns

\* Workers are goroutines that can run; Shutdown has a deadline.  A handler is
\* assumed to return: its context ends after thirty seconds, but SMTPSender does
\* not look at it, so a mail server that hangs is outside this specification.
\* Nothing is assumed of requests or signals.
MailFair ==
    /\ \A w \in Worker : WF_mailVars(TakeMail(w)) /\ WF_mailVars(HandleMail(w))
                         /\ WF_mailVars(WorkerEnds(w))
    /\ WF_mailVars(ShutdownReturns)
    /\ WF_mailVars(StopReturns)

MailSpec == MailInit /\ [][MailNext]_mailVars /\ MailFair

-----------------------------------------------------------------------------
(* What its users may rely on.                                                *)
Held == {queue[i] : i \in 1..Len(queue)} \cup ({hand[w] : w \in Worker} \ {None})

Out == INSTANCE Outbox WITH waiting <- Held, tried <- tries

\* The bus is an Outbox: a mail that was accepted is handed to the sender once,
\* and does get there, through a shutdown too (Stop closes the queue and waits).
\* A mail is lost when the queue is full, after the close, and in no other way.
ImplementsOutbox == Out!OutSpec

\* The same without the promise to get there: at most once, and only what was
\* accepted.
MailsAtMostOnce == Out!OutSafe

\* Once the server was told to stop, or could not listen, it stops: no worker is
\* left waiting on the queue, and no request in flight holds the process.
ServerStops == phase # "serving" ~> phase = "stopped"

\* Two links of one account and purpose work at the same time only if the requests for them
\* ran at the same time, or the later one could not invalidate the earlier.
LinksOverlap ==
    \A m, n \in links : m = n \/ <<m, n>> \in overlap \/ m \in skipped \/ n \in skipped
=============================================================================
