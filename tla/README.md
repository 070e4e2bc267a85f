# chaos-backend, specified

chaos-backend is the Go server of a group-planning chat: people talk in conversations, an
assistant called Chaos takes turns in them, attaches option cards and votes, and learns facts
about the people it talks to. State lives in PostgreSQL (through gorm), a Redis cache, and one
in-process WebSocket hub; every HTTP request is a goroutine of its own.

This directory is a TLA+ description of the parts of it where goroutines, statements and
failures interleave, model-checked with TLC and, where it matters most, proved with TLAPS.

## Inventory

`D/` stands for `src/internal/domain/`.

| Part | Code | State | Operations |
|---|---|---|---|
| Voting | `D/conversation/repository/gorm_decisions.go`, `entity/entity.go` (`Resolve`), `service/decisions.go` (`Vote`) | `decisions.resolved_option_id`, `decision_votes` | vote, change, take back |
| Thread | `D/conversation/service/{messages,decisions,members,service}.go`, `repository/gorm_{messages,conversations}.go` | `conversations` (title, titled, decided, open, last_activity_at, group), `conversation_members` (left_at, seen_at), `messages` | send, ask Chaos, choose a card, open, mark seen, add members, join, leave, update |
| Chaos adapter | `D/conversation/service/chaos.go` | the hourly counter in the cache | reply, name |
| Sessions | `D/auth/service/{service,passwords}.go`, `D/auth/repository` | `refresh_tokens`, `action_tokens`, `users.password_hash` | login, social sign-in, refresh, logout, forgot, reset, change password, edit profile, delete account |
| Accounts, handles | `D/auth/service/{service,handles}.go`, `D/user/` | `users` with three unique indexes, a cached copy of a row for five minutes | sign up, social sign-in and linking, the admin API, profile edit, erase, cache read and invalidate |
| Groups | `D/group/` | `groups`, `group_members`, `group_memory`, `conversations.group_id` | create, rename, dissolve, add by id or by name, remove, remember, forget, ask; the context of a turn |
| Home list | `D/conversation/repository/gorm_{conversations,joins}.go` | reads only | list the conversations with their last line and unread count |
| Profile and learning | `D/profile/` | `facts`, `profiles.note`, `profiles.learned_count`, hourly counter | add a fact, import, refresh, edit, confirm, delete |
| Devices and push | `D/device/`, `src/internal/push/` | `devices` | register, unregister, notify, prune |
| Mail, worker, shutdown | `D/auth/service` (`mintActionToken`), `src/internal/worker/`, `src/internal/events/`, `cmd/server` (`serve`) | `action_tokens`, a bounded queue, a pool of goroutines | mint a link, publish, send, stop |
| The model and its allowance | `src/internal/ai/`, `chaos.go` (quota), `src/internal/cache/redis.go` | `chaos:quota:<person>` | reply, extract, ask, name |
| Link previews | `D/link/` | `link:preview:<url>` | preview |
| Realtime | `src/internal/realtime/` | the hub's map of connections, a 32-event buffer each | connect, fan out, read and write pumps, disconnect |
| The rest | `media`, `storage`, `email`, `auth/jwt`, `auth/firebase`, `middleware`, `config`, `database`, `routes`, HTTP handlers | none, or a plain counter | input, output, parsing and wiring |

How they meet: a request calls its service, the service its repository (one SQL statement, or
one explicit transaction), and after the commit the hub and the push notifier; sending a
message may call the model before it answers. Requests share nothing in memory but the hub;
they meet in the database, which runs READ COMMITTED and takes only the locks the statements
ask for. What a request has read is a copy, and much of the code writes such copies back.

Hard behaviours, in the order of what goes wrong if they do:

1. Votes: two transactions on one decision, a winner stored beside a tally that moved.
2. Refresh tokens: two requests with one token, a family burned during a rotation.
3. Thread: counts read before a line is written decide whether Chaos speaks; a model call that
   may take seconds sits inside a send; read-modify-write on title and settled list; lines
   stamped before they are committed; seats and their announcements are separate statements.
4. Learning: a person confirms or corrects a fact while a model's reading of it is on its way.
5. The hub: blocking and non-blocking sends on one bounded channel, close by one pump.
6. Accounts: copies of a row that outlive its erasure; a cache filled with what was read before
   the write that emptied it; handles looked up before they are taken.
7. Push: tokens read, sent to and pruned in three steps while phones change hands and accounts go.
8. Mail: a queue that drops, a pool that drains, a process that stops with requests in flight.
9. Groups: membership read before the write; memory that outlives its group.

What makes each part correct is the list of properties below; `PROJECT.json` names every
hazard at its line with the property that would catch it.

## The modules

### Voting and VoteTx — one vote each and a winner that is never stale

`Voting.tla` is what is promised: a set of vote rows, the elected option per decision, and one
indivisible `Toggle`. `VoteTx.tla` is what `gormRepository.Vote` runs. `pc[c]` is the next
statement of call `c`; `existing`, `gone`, `added` and `winner` are what its transaction has
read and written; `View(c)` is the snapshot its own statements see. One action per statement:

| Action | Code |
|---|---|
| `Vote` | `service.Vote`: the decision exists, the caller is a member |
| `FindOption` | `tx.First(&option, ...)` |
| `LockDecision` | `SELECT ... FOR UPDATE` |
| `SelectVote`, `DeleteVotes`, `InsertVote` | read the caller's vote, delete it, insert the new one |
| `StoreWinner` | reload through the transaction, `Decision.Resolve`, `UPDATE decisions` |
| `Commit`, `Rollback` | the end of the transaction; a rollback is possible at every statement |
| `Join`, `Leave` | membership moving between the check and the transaction |

`Leader` is the one-pass best-two loop of `entity.Decision.Resolve`, kept as the loop;
`StrictLead` is the independent definition it is compared with. The refinement mapping is the
identity on `votes` and `resolved`: every commit is a `Toggle`, every other step stutters.

### Thread — one conversation and the requests on it

`conv`, `active`, `seen`, `timeline` and `activity` are the rows; `pc` and `call` are the
requests, each with the copies it has read. `timeline` is in `sent_at` order: `InsertMessage`
draws `time.Now()` before its transaction, so `Stamp` appends a *pending* slot and
`CommitLine`/`LoseLine` decide it later; a cursor (`seen_at = now`) is the number of stamps
drawn. `behind`, `unannounced` and `faults` are history: who has not been told since the last
commit, who sits without a "joined" line, and what a failure has cut short. The properties
excuse exactly the faults the code reports or logs, and nothing else.

| Actions | Code |
|---|---|
| `Send`, `CountTotal`, `CountSince`, `Stamp`, `CommitLine`, `LoseLine`, `Tell`, `NameFrom` | `Send`, the two statements of `CountSinceChaos`, `InsertMessage`, `notifyMembers`, `nameFrom` |
| `Ask`, `TurnStart`, `TurnFails`, `StampAnswer`, `CommitAnswer`, `LoseAnswer`, `Remember`, `TellAnswer` | `Ask` and `chaosTurn` |
| `Choose`, `Settle` | `Choose` |
| `Open`, `Seen`, `MarkSeen` | `Messages`, `Seen` |
| `Add`, `Join`, `Seat`, `Leave`, `Unseat`, `Update`, `Rename`, `SetGroup` | `members.go` and `Update` |
| `StepFails`, `Abandon`, `Return` | an error of a statement; the client hanging up or the process dying; the error response |

Simplifications: `GetForUser` (three reads) is one step. A model call is one step whose answer
is a choice made when it returns. A line is a plain remark, a question or a mention — what
`ShouldReply` tells apart; the line a tap on a card leaves is of its author too, and marked
`choice` to tell it from what somebody typed. A COMMIT whose answer is lost is not modelled: a transaction is
committed and the request goes on, or rolled back.

### Sessions — refresh tokens, reset tokens and one password

Every statement of the auth repositories commits on its own, and the only gate is
`UPDATE ... WHERE revoked_at IS NULL` (`Claim`). A client may present any token it was given
(`held`), however old. `burned` is the set of families revoked as a whole, `racing` those whose
successor was between `Claim` and `CreateRefresh` when it happened, `spent` the reset tokens
that set a password. A social sign-in may write the row back as it read it, the password hash
included, before it issues a token (`WriteIdentity`: `refreshFromIdentity`, which ignores a
failure, and the linking by address, which does not). A reset token's and a refresh token's expiry is left out: an expired token
is refused before anything is read, which a client that no longer presents it stands for.

### Learning — what a person says about themselves, against what a model reads

`facts` is the table (the unique index on the lower-cased label makes it a function of labels),
`note` and `learned` two columns of `profiles`, `said` what `CountOwnMessages` counts, `spent`
the hourly counter in the cache. `made[l]` numbers the rows a label has had, so a deleted and
re-learned fact is told from the one a request read. `granted`, `mined` and `disturbed` are
history: calls let through this hour, the lines some transcript contained, and whether requests
overlapped or a note could not be written. A transcript has room for the last `Transcript` lines
(80 in the code), while the watermark is the number of all of them: `Considered` are the lines a
transcript contained, or left out because it was full of later ones.

| Actions | Code |
|---|---|
| `AddFact`, `Learn`, `Refresh`, `Compare`, `OwnMessages` | the three entrances of `extract`, with `Refresh`'s counter check and its transcript of the last lines |
| `Spend`, `Answer`, `ExtractFails` | the allowance, the model, and the errors of both |
| `ReadFacts`, `WriteFacts` | `UpsertFacts`: a plain SELECT, then writes by id or inserts, one transaction |
| `DeriveNote`, `SetNote`, `Mark` | `refreshNote` and the watermark |
| `UpdateFact`, `EditFact`, `Reread`, `DeleteFact`, `Forget` | a person's own edits |
| `UpdateProfile`, `Upsert` | the profile edit, which writes `note` and `learned_count` back |
| `Turn`, `Say`, `HourEnds` | a turn of Chaos on the same allowance, a new line, the expiry of the counter |

Simplifications: the listing that tells the model what is known, `MarkConnected` and the
listing of the answer change nothing a property is about. The writes of one batch are one step
with their commit: their rows are locked until then. Confidence is `guess` (below 0.7), `fair`
or `certain` (1) — what `refreshNote` and the person's edits tell apart.

### Push — device tokens and deleted accounts

`devices` is the table (the unique index makes it a function of tokens), `seated` and `deleted`
the rows a push depends on, `retired` the tokens FCM no longer knows. `gone` is what was deleted
when a push began; `rejected`, `lateSeat` and `haunted` are history: the tokens FCM has named in an
answer, who was given a seat after the deletion, whom a push that began after it has reached. FCM
may name any token of a multicast, a living one too: the code takes an invalid argument, which can
be about the message, like an unregistered token.

| Actions | Code |
|---|---|
| `RegisterDevice`, `UnregisterDevice` | `device.Register` (claims the token), `Unregister` |
| `LookUp`, `TakeSeat` | `AddMembers`/`Join`: the person is looked up, then seated |
| `DeleteDevices`, `EraseAccount` | `DeleteAccount`: `DeleteAllForUser`, then `AnonymizeAndDelete` |
| `ReadMembers`, `TokensFor`, `SendPush`, `SendFails`, `Prune` | `service.push`, `Notifier.Notify`, `FCM.Send`, `DeleteTokens` |
| `Retire` | a token becomes one FCM no longer knows (outside) |

### Mailer and Outbox — one-time links, the event bus, and the end of the process

`Outbox.tla` is the promise of events.go, "at-most-once": an event is accepted or dropped, an
accepted one is handed over once. `Mailer.tla` is what runs: `mintActionToken` in two statements
(`InvalidateLinks` with its ignored error, `CreateLink`), `Publish` on a queue of `Buffer`, the
pool (`TakeMail`, `HandleMail`, `WorkerEnds`), and the process (`Signal`, `ListenFails`,
`ShutdownReturns` — all requests done, or its deadline — and `StopReturns`). The mapping takes
`waiting` to what is queued or in a worker's hand. `overlap` and `skipped` are history: requests
that ran at once, invalidations that failed.

### Accounts — rows of users and the copies of them

`users` holds deleted rows too: lookups leave them out, unique indexes do not (`Collides`). A
request carries in `row` the copy it read or will insert. A lookup of a social sign-in that fails
counts as not found, as in the code (`ByUid`, `ByEmail`). `excused` is history: cached copies
whose staleness has a cause the code accepts.

| Actions | Code |
|---|---|
| `RegisterUser`, `SocialSignIn`, `AdminCreate`, `AdminUpdate`, `AdminDelete`, `EditProfile`, `EraseAccountOf`, `AdminView` | the entrances |
| `ExistsByEmail`, `ByUid`, `ByEmail`, `Refreshes`, `UniqueHandle`, `CreateUser` | `Register`, `findOrCreate`, `refreshFromIdentity`, `uniqueHandle`, `Create` |
| `ReadUser`, `UpdateUser`, `SoftDelete`, `AnonymizeAndDelete` | the repository |
| `GetCached`, `LoadUser`, `FillCache`, `Invalidate`, `Expire` | the cache-aside service, Redis failing at will |

### Groups — members, memory, and who is told

Every operation but `MakeGroup` begins with `GetForUser`, two statements (`IsMember`,
`LoadGroup`), and writes in a third; `overtaken` are requests whose caller's seat ended in
between. A turn in a filed conversation reads the name, then the memory (`ReadName`,
`ReadMemory`); a dissolved group has no name, and a prompt without one carries no memory
(`Recalls`). An add by name seats whatever account of that name the search finds, a person's as
well as a stand-in's (`SearchStandIn`). `ghosts` is history: groups recalled by a request that began after their end.

### Chaos — the allowance and what is made of an answer

`Count` is `INCR` with `EXPIRE NX` in one transaction; `Tick` is time. The calls
(`ReplyCall`, `ExtractCall`, `AskCall`, `NameCall`, `Unparsed`, `ChaosFails`) take any of the
answers an instance lists and keep the outcome in `told` beside what was sent. `SanitiseReply`,
`SanitiseFacts`, `ReferencesOf` and `NameOf` are the clamps of `ai/`, with the order of their
trimming and cutting; a loop that skips some members and stops at a limit is `Sift`, on positions; the properties state what a caller may count on independently of them.

### Links — previews and their cache

`Normalise`, `Reaches` (public addresses, web schemes, at most four hops), `TitleOf` and
`PictureOf` are the pure parts; `Paste`, `GetCard`, `Fetch`, `StoreCard` the request; `Minute` is
time, for the cards in Redis and for those a slow request still holds.

### Home — the list of conversations

`ListRooms`, `MembersFor`, `LastMessages`, `UnreadCounts`, `GroupNames`: five statements without
a transaction, while lines are drawn and committed (`DrawLine`, `SayLine`), threads opened
(`OpenRoom`), left and joined again. `NextRead` is their order, which is what the property needs.

### Backend — what these have in common

`Backend.tla` declares the people, the request goroutines and NULL. `MCBackend` composes the
seven modules above for TLC: they share no state, so one behaviour runs one of them.

### Hub — sockets, publishers, and who gets a push notification

A connection is three goroutines: `handler` (upgrade, register, heartbeat, hello, start the
pumps), `writer` and `reader`. A publisher is a request that tells `members`: `NotifyUsers`
under the read lock, then `IsConnected` one by one for the push. An event is not looked at, so
a channel is its length. `missed[p]` is history: whom the message of `p` has not reached yet.

| Actions | Code |
|---|---|
| `Upgrade`, `Register`, `Heartbeat`, `SendHello`, `StartPumps` | `Handler` and `Hub.register` |
| `TakeEvent`, `WriteEvent`, `SeeClosed`, `PingFails` | `writePump` |
| `ReadFails`, `Unregister`, `CloseConn` | `readPump`, its deferred calls and `Hub.unregister` |
| `NotifyUsers`, `Deliver`, `Notified` | `Hub.NotifyUsers`, one `select` with a default per connection |
| `AskConnected`, `Pushed`, `Return` | `service.push` |
| `PeerLeaves` | the peer closes, loses the network or stops answering |

The write lock is held for one step; the read lock from `NotifyUsers` to `Notified`, and, as
in `sync.RWMutex`, nobody gets it while a goroutine waits to write (`WriterWaits`). The two
`MemberIDs` reads of a request are one set; a member who comes or goes between them is left
out. A frame over the read limit is one way for `PeerLeaves` to happen.

## Runs

| Run | Question | Instance | Result |
|---|---|---|---|
| `vote_tx` | Are concurrent votes atomic toggles with a fresh winner? | 4 people, 2 calls, one decision with 2 options and one stray option id | holds |
| `thread_lines` | Does a failing turn ever fail a send? How long can racing counts keep Chaos quiet? Is what was listed read? | 2 founders, 2 requests, 5 starts, 1 lost line; either one person sends, or both ask, choose, open and read | holds |
| `thread_room` | Who is told and who is announced while people come and go? | 3 people, 1 founder, 2 requests | holds |
| `thread_choose` | Does a choice ever unsettle an option? | asks and choices, 2 topics | **violated** |
| `sessions` | Rotation, burning and reset tokens with every request | 2 requests, 2 refresh tokens, 1 reset token, 2 passwords | holds |
| `sessions_reuse` | Does reuse revoke the whole family? | logins and refreshes | **violated** |
| `sessions_profile` | Does a profile edit leave the password alone? | a password change and a profile edit | **violated** |
| `learning` | Edits, deletions, extractions, refreshes and turns of one person: certainty, deletion, watermark, allowance, note | 2 requests, 1 label with 1 value and 2 rows, 3 lines, transcripts of 2, 1 call an hour | holds |
| `learning_confirm` | Is a confirmed fact ever overwritten by a model? | a reading and an edit, 2 values | **violated** |
| `hub` | Sends on closed channels, people missed, publishers held up, connections that linger | 2 devices of one person, 2 publishers, a channel of 2 | holds |
| `hub_presence` | Does a socket that is gone stop holding back notifications? | the same with 1 publisher and a channel of 1 | **violated** |
| `backend` | Do the parts around the conversations keep their promises? | two people and two requests in each of the seven modules | holds |

Why the bounds are enough. Races in this code are between two requests; a third adds nothing a
property tells apart, because every conflict is a read of one request and a write of another.
Four voters on two options is the smallest tie with enough votes to win (two against two), and
two options are the smallest slate; longer slates are covered by the proof, which is for 2 to 4
options. Five stamps are the two quiet lines the rule allows, one per racing send, and one
answer. In `thread_lines` an action constraint (`MCScenario`) keeps the sending behaviours from also
asking, choosing and reading, and their turns from remembering anything; the reading ones do all
of that, with three stamps. Two refresh tokens are one family with a predecessor and a successor, or two families.
In `learning` two rows of one label are a fact that is deleted and learned again, three lines are
the two a refresh needs and one that arrives while it runs, a transcript of two is one that the
third line pushes the first one out of, and one call an hour makes every
second count a refusal; labels do not interact except in that one batch fails as a whole. In
`hub` a channel of two stands for the 32 of the code: what matters is empty, in between and full.
`hub_presence` makes do with one, which one event fills in the window that thirty-two would
need. One person is enough because a publisher deals with each member on their own; a person who
never connects is one whose devices have not yet.

`backend` has two people and two overlapping requests everywhere: two phones, four requests and one
failure (`Push`: a delete that fails, a late seat, a push on each side of it); three mails, two
workers, a queue of one, one failing statement (`Mailer`: one mail in hand, one queued, one
dropped); three addresses, two of which differ in case and two in domain, one identity, two
candidate handles, three requests (`Accounts`: two that collide and one that reads); a group, a
line, a conversation, two requests (`Groups`: a caller and whoever removes them); an allowance
of one in a window of two ticks, and answers at and around each limit (`Chaos`); ratios of the
three times to live that keep their order (`Links`); two lines and opens (`Home`). The proofs
cover every instance of all seven.

Symmetry is used on people, calls and topics that no definition names, and only with
invariants and box-action properties. `CHECK_DEADLOCK FALSE` appears where an instance really stops: `StartLimit` (or `TokenLimit`)
lets no further request begin, and the requests under way have all returned.

Liveness is checked in `hub`, `hub_presence` and `backend`. `Fairness` of `Hub` is weak fairness of
each goroutine on its own:
the request handler, the write pump, the read pump, the publisher. The Go scheduler runs a
goroutine that can run; a write ends within `writeWait` (10 s) and a read of a silent peer
within `pongWait` (70 s), so a blocked pump comes back; the heartbeat and `MemberIDs` end when
the database answers. Nothing makes a person connect, leave or publish, and a ping is not
assumed to fail in time. `MailFair` is weak fairness of each worker and of the shutdown, which has
a deadline; it assumes that a handler returns, which `SMTPSender` does not guarantee: its context
ends after thirty seconds and it does not look at it. Nothing makes a request go on or a signal
come, so `ServerStops` needs neither. `ChaosFair` is time passing. The other modules state what a
step may do; that a request finishes depends on the database and the model answering, which the
code bounds only by the contexts of its callers.

## What is proved

`VoteTxProofs.tla` proves, for any users, decisions, slates of two to four options and calls:

| Theorem | Statement |
|---|---|
| `TypeCorrect` | `Spec => []TypeOK` |
| `InvHolds` | `Spec => []Inv` |
| `OneVote` | `Spec => []OneVotePerDecision` |
| `WinnerNeverStale` | `Spec => []WinnerMatchesTally` |
| `VoteIsAtomic` | `Spec => ImplementsVoting`, the refinement |
| `LeaderIsStrict` | the loop of `Resolve` finds the strict leader with two votes, or none |

Assumptions: users are finite (votes are counted), an option belongs to one decision and one
position, slates have 2 to 4 options (`ai/reply.go` keeps no others), and `None` is no option
and no call.

`OneVotePerDecision` is not inductive: after `SelectVote` the transaction acts on what it read.
`Inv` adds that a lock is held by exactly the call past `FOR UPDATE` (`LockHeld`), that the
option belongs to the decision (`OptionFound`), that what a transaction read and wrote agrees
with the committed rows (`ReadIsFresh` — this is what the row lock buys), and that the stored
winner is `Resolve` of the committed rows (`WinnerIsResolved`). Each step preserves each part:
`TypeStep`, `LockStep`, `FreshStep`, `TallyStep`; the tally of one decision is untouched by
another's because options are disjoint (`DisjointOptions`). `LeaderIsStrict` then turns
`Resolve` into the strict lead.

`HubProofs.tla`, for any people, connections, publishers and channel capacity:

| Theorem | Statement |
|---|---|
| `TypeCorrect` | `Spec => []TypeOK`, the capacity of a channel included |
| `NoPanic` | `Spec => []NoSendOnClosed` |
| `Reached` | `Spec => []NobodyMissed` |

Assumptions: people and connections are finite, each connection has one owner, a channel has
room for at least one event. Neither property says anything about the map, on which both rest.
`Lifecycle` ties the map and the closed channels to where the handler and the reader of a
connection are; `Fanout` says that what a publisher has still to reach is in the map, which is
what the read lock buys: `Register` and `Unregister` are not enabled during a fan-out; `Reach`
says who may still be unreached, in each phase of a publisher.

`SessionsProofs.tla`, for any passwords, requests and limits:

| Theorem | Statement |
|---|---|
| `TypeCorrect` | `Spec => []TypeOK` |
| `OneEnd` | `Spec => []OneEndPerFamily` |
| `Burnt` | `Spec => []BurnIsFinal` |
| `SpentOnce` | `Spec => []SpentIsUsed` |

Assumption: `None` is no password. A family has an *end* when a token of it is live or a request
holds its claim. `OneEndPerFamily` needs `CallFacts` (a request carries the family its token has);
`BurnIsFinal` needs `BurnEnds` (such a family has no claim outstanding either), or an insert that
was under way would bring it back. All actions but two give no family an end (`NoNewEnd`);
`ClaimInv` and `CreateRefreshInv` are the two that move one. `SpentIsUsed` needs to know that a token
which has set a password and is not used yet belongs to a request about to mark it (`Spending`).

`LearningProofs.tla`, for any labels, values, requests and bounds:

| Theorem | Statement |
|---|---|
| `TypeCorrect` | `Spec => []TypeOK` |
| `Certain` | `Spec => []ConfirmedIsCertain` |
| `Watermark` | `Spec => []WatermarkIsMined` |
| `Allowance` | `Spec => []BudgetHolds` |
| `Forgotten` | `Spec => ForgottenStaysForgotten` |
| `NoteIsFollowed` | `Spec => []NoteFollowsFacts` |

Assumptions: at most three labels (the note is then every fact `refreshNote` would take; no step
of the proof uses it), the bounds are numbers, the allowance is at least one, and `None`
is no fact (`NoneIsNoFact`), and a transcript has room for at least one line. Requests write
copies back, so the invariant says what a copy is worth: `Words`, that what a person typed is
certain, and `Covered`, that a count which may become the watermark passes over no line a
transcript had room for; a line, once `Considered`, stays so (`StillConsidered`), and a transcript
of the last lines considers all there are (`AllConsidered`). It is
proved in two halves, one about the requests (`Calls`) and one about the rows (`Rows`), because
most steps touch one of them. `NoteFollowsFacts` adds `Noted`: as long as nothing overlapped there is
one request, what it holds of the facts and the note is still so, and the note follows the facts
but where that request is about to write it.

`ThreadProofs.tla`, for any people, topics, requests, kinds of requests and bounds:

| Theorem | Statement |
|---|---|
| `TypeCorrect` | `Spec => []TypeOK` |
| `SendKeepsItsLine` | `Spec => []SendContract` |
| `TitleIsHonest` | `Spec => []TitleAgrees` |
| `OpeningReads` | `Spec => ListedIsRead` |
| `EveryoneIsTold` | `Spec => []NobodyLeftBehind` |
| `EveryoneIsAnnounced` | `Spec => []ArrivalsAnnounced` |
| `SilenceIsBounded` | `Spec => []SilenceBounded`, for finitely many requests |

None of these is inductive: they speak of requests that run for twenty steps over rows that others
write meanwhile. `IInv` says what a request carries at each step (`Fits`), that the lines of a
request in flight are where its step says (`Posted`), and that no two requests own one line
(`Apart`). Every step is then one of three things to the timeline (`NextMovesOne`): it leaves it
alone, stamps a line of its own, or commits or loses the line it stamped; so no request touches the
line of another (`OthersLines`). `AInv` adds that whoever is behind, or seated and not announced, has
a request in flight that will see to it, or a failure that says why not. `SInv` adds the arithmetic
of silence: the typed lines since Chaos last spoke are at most two, and one for each send that
counted before another committed.

`DeliveryProofs.tla` proves both ways out of the process. Push, for any people, phones, requests and
bounds:

| Theorem | Statement |
|---|---|
| `PushTypes` | `PushSpec => []PushTypeOK` |
| `DeletedAreSilent` | `PushSpec => []GoneIsSilent` |
| `PruningIsFair` | `PushSpec => RegistrationEndsFairly` |

Assumption: the bounds are numbers. `GoneIsSilent` speaks of what was reached; the invariant goes
back to the seats: a deleted account has one only if it was seated late (`SeatsEnd`), so a push
lists none of those gone when it began except late ones (`ListsTheLiving`). Pruning is fair because
what a push prunes was named by FCM in the answer to that push (`PrunesTheRejected`).

Mail, for any mails, workers and capacity:

| Theorem | Statement |
|---|---|
| `MailTypes` | `MailSpec => []MailTypeOK` |
| `OneLink` | `MailSpec => []LinksOverlap` |
| `AtMostOnce` | the safety half of the refinement to `Outbox` |

Assumptions: no mail is `None`, and the queue has room for one. A mail is in one place (`OnePlace`),
is published once (`HeldIsDone`), and has not been tried before (`Fresh`), so each step of the queue
is a step of the `Outbox` or none; `Survives` says which links an invalidation that has happened may
have left, before its own link exists.

`PeopleProofs.tla` proves who people are and where they belong. Accounts, for any people, addresses,
identities, names and bounds:

| Theorem | Statement |
|---|---|
| `AccTypes` | `AccSpec => []AccTypeOK` |
| `Scrub` | `AccSpec => []ScrubStays` |
| `Cached` | `AccSpec => []StaleHasCause` |

Assumptions: `None` is no address, identity or row, and "Someone" is no name a person has. `Carries`
says which steps hold a copy and which an id; `TableStep` reduces every action to three kinds of
write to a row, of which only the erasure touches what is not live; `StaleStep` shows that a write
leaves an invalidation to come (`PendingStays`) or a cause behind.

Groups, for any people, groups, lines, conversations and bounds:

| Theorem | Statement |
|---|---|
| `GroupTypes` | `GroupSpec => []GroupTypeOK` |
| `Forgotten` | `GroupSpec => []DissolvedIsForgotten` |
| `Members` | `GroupSpec => ChangedByMembers` |

Assumption: `None` is no group and no line. The invariant says what a request's knowledge is worth:
its caller is seated or was overtaken (`Seated`), and a group it found alive was not dissolved when
it began (`Alive`), because dissolving is final.

`BackendProofs.tla` proves the other three parts around a conversation, and all seven together:

| Theorem | Statement |
|---|---|
| `PicturesLive` | `LinkSpec => []PictureAlive` |
| `DotsMatch` | `HomeSpec => []DotMatchesPreview` |
| `AnswersAreCut` | `ChaosSpec => []AnswersKeepShape` |
| `AllowanceExpires` | `ChaosSpec => []Expires` |
| `PartsRun` | `MCSpec` implies the specification of each part |
| `TypesHold` | `MCSpec => []BackendTypes` |
| `PromisesHold` | every safety invariant above, of the composed backend |

Assumptions: the times to live keep the order of the code (a signed card is kept for less than its
picture lives), the bounds are numbers, and what pages and the model send has the types a decoder
gives it. In `Links` the age of a card does not bound what is left of its picture, because the card
may have been stored late; the invariant is about a sum, age and remaining time together
(`Lasting`). In `Home` it is that a time is drawn once (`OneTime`), so that a last line is one line,
and that a room whose last line was read before the count has a dot, unless the reader's cursor has
passed it (`Dotted`). In `Chaos` what a loop over a list returns cannot be had by induction, which
the prover has no rule for that it can apply; it is had from the least number of rounds after which
the result would be wrong (`SiftSifts`), by the well-ordering of the numbers: after `i` rounds the
loop holds the good places up to `i`, each under its rank, as far as there is room (`RoundSifts`).

`IInvHolds`, `InvHolds` or the like in each module is the inductive invariant itself. Every safety
invariant and every action property that a run expects to hold is a theorem.

Only model-checked: the liveness of `Hub`, `Mailer` and `Chaos`, with the half of `ImplementsOutbox`
that says an accepted mail gets there, since the prover has no rules for fairness; and the findings,
which are counterexamples. `Outbox` and `Voting` are abstract, and what they promise is proved of
the modules that implement them.

## Findings

* A choice writes back the settled list it read, so another choice or a turn's memory in
  between is lost (`thread_choose`).
* A family burned between the claim of a token and the insert of its successor keeps a live
  token (`sessions_reuse`). `BurnIsFinal` states what does hold.
* A profile edit that read the row before a password change writes the old hash back
  (`sessions_profile`): `users.Update` writes every column.
* A fact a person confirms after `UpsertFacts` has read it is overwritten by the model's reading
  and unconfirmed (`learning_confirm`): the SELECT takes no lock and the UPDATE has only the id.
* A socket is registered before its hello is queued and before anything drains its channel; if
  the channel fills in that window (32 events during one database write) the handler blocks for
  ever, and the person gets no push notification after the socket is gone (`hub_presence`).

Noted on the way, without a run of their own: a rename that lands while a send is naming the
conversation is overwritten by Chaos's name, because `Send` decides on the `titled` flag it read
at its start, and `Update` with only an emoji undoes a name found meanwhile in the same way; the
note of a profile drifts from the facts when two requests derive it at once or a profile edit
writes the old one back (learning.go:149-151 says it cannot), until the next change of a fact;
neither `AddMembers` nor `Join` looks at `direct`, so a private conversation can get a third
person although `Create` refuses one; `chaos.thinking` is followed by nothing when a turn fails;
API.md speaks of five messages before Chaos offers something where the code's rule is three
lines. `Refresh` puts the last eighty lines into its transcript (learning.go:221) and then stores the
count of all of them (learning.go:250), so of more than eighty new lines the older ones are read by
no model (gorm_messages.go:270 speaks of everything one person has said, API.md:288 of the recent
messages since the watermark). A social sign-in, and a
`Join` with a name or a picture, write the old password hash back just as the profile edit of the
finding does. Two resets that overlap may both set a password with one token.

Noted in the parts around the conversations, likewise without a run:

* `users.Update` writes neither identity nor handle, so an account found by address is linked
  for one request only and found by address again at the next sign-in; its handle is looked up
  every time and never stored.
* `HandleTaken` leaves deleted rows out and `idx_users_handle` does not, and two sign-ups can
  look at once: one of them is then refused with "An account with this email already exists",
  against handles.go:36-37. Sign-ups whose addresses differ in case only race the same way, and
  there the case-sensitive index lets both in.
* Any member of a conversation may file it under any group, and `ForGroup` takes no user
  (decisions.go:104-106 says the caller has been proved a member of what it reads).
* Two adds of one name that search before either creates make two stand-ins.
* A group whose maker has left can be dissolved by nobody.
* API.md:266 says dissolving clears `group_id`; the group is soft-deleted and it stays.
  API.md:271 says an ask reads every conversation; it reads the latest eight. API.md:194 lets a
  profile edit change the handle; it does not.
* An invalid argument is taken for a dead token (fcm.go:76; push.go:20 and notifier.go:50 call what
  is pruned permanently dead): when it is about the message, the phones it was meant for are pruned
  alive. Pruning goes by token, so a phone registered again since it was read goes too.
* An add by name may seat a person who happens to have that name (members.go:174-183).
* A phone that changes accounts while a push is on its way still shows that notification
  (device/repository.go:40-41 speaks of the registration only).
* A broken object inside a fence is shown to people as it came (reply.go:127-133).
* A page that fails to load is cached as a bare card for a day.
* A publish after the queue is closed, possible when `Shutdown` hit its deadline, panics, is
  recovered as a 500, and its mail is lost.
* In the home list a line that arrives between the two reads is counted and not shown.
* `KnownPeople` is documented as most recent contact first and ordered by id.

## What is left

1. Abstract specifications: a refresh-token family as one token that moves or ends, which
   `Sessions` implements up to racing burns; a connection as a lossy queue with a fetch at its
   head, which `Hub` implements.
2. The reader of `VoteTx`: `decisionsFor` reads decisions, options and votes in three statements,
   and its answer may show a winner beside another tally.

Not modelled, and why: HTTP handlers, DTOs and mappers parse and hold no state; media and object
storage are input and output; the SMTP dialogue, FCM and the model's endpoint are external, and
only their outcomes appear; prompts, JSON decoding and HTML tokenising are text; JWT and the
identity provider are cryptography and an external service; configuration, logging, the database
pool and routes are wiring; the authentication filter reads a token, and the rate limiter
counts in windows as the allowance does; `SearchUsers`, `KnownPeople` and the admin list are
single reads.
