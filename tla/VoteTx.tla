------------------------------- MODULE VoteTx -------------------------------
(***************************************************************************)
(* The vote on a decision as the backend runs it.                          *)
(*                                                                         *)
(* A call of service.Vote (conversation/service/decisions.go) checks that  *)
(* the decision exists and that the caller is a member, and then runs      *)
(* gormRepository.Vote (repository/gorm_decisions.go): one READ COMMITTED  *)
(* transaction whose statements are the actions below.  Each statement     *)
(* sees what was committed when it starts plus what its own transaction    *)
(* wrote.  SELECT ... FOR UPDATE on the decision row makes transactions on *)
(* the same decision wait for each other; nothing else does.               *)
(*                                                                         *)
(* A user may have several calls in flight (two devices, a double tap), a  *)
(* member may leave between the check and the transaction, and any         *)
(* transaction may be rolled back at any statement.                        *)
(***************************************************************************)
EXTENDS Naturals, Sequences, FiniteSets

CONSTANTS
    User,       \* accounts
    Decision,   \* rows of decisions
    Option,     \* rows of decision_options
    Slate,      \* Decision -> its options, ordered by position
    Call,       \* in-flight calls of POST /decisions/:id/vote
    None        \* a NULL column, a free lock, an absent row

ASSUME UserAssumption == IsFiniteSet(User)

\* ai/reply.go keeps a decision only with 2..4 options, and every option row
\* belongs to one decision and one position.
ASSUME SlateAssumption ==
    /\ Slate \in [Decision -> Seq(Option)]
    /\ \A d \in Decision : Len(Slate[d]) \in 2..4
    /\ \A d, e \in Decision : \A i \in 1..Len(Slate[d]), j \in 1..Len(Slate[e]) :
          Slate[d][i] = Slate[e][j] => d = e /\ i = j

ASSUME NoneAssumption == None \notin Option /\ None \notin Call

VARIABLES
    members,    \* active members of the conversation the decisions hang off
    votes,      \* committed rows <<option, user>> of decision_votes
    resolved,   \* committed decisions.resolved_option_id
    lock,       \* Decision -> the call holding its row lock, or None
    pc,         \* Call -> the next statement of the call
    req,        \* Call -> what was asked: user, decision, option
    existing,   \* Call -> option read by the SELECT of the caller's vote
    gone,       \* Call -> rows its transaction has deleted
    added,      \* Call -> rows its transaction has inserted
    winner      \* Call -> resolved_option_id its transaction has written

vars == <<members, votes, resolved, lock, pc, req, existing, gone, added, winner>>

tx == <<existing, gone, added, winner>>

-----------------------------------------------------------------------------
(* The tally *)

OptionsOf(d) == {Slate[d][i] : i \in 1..Len(Slate[d])}

Row == Option \X User

RowsOf(vs, d, u) == {v \in vs : v[1] \in OptionsOf(d) /\ v[2] = u}

\* len(option.Votes) for the option at position i.
Count(vs, d, i) == Cardinality({u \in User : <<Slate[d][i], u>> \in vs})

\* Decision.Resolve: one pass over the options keeping the best two.  best[1]
\* and best[2] are the positions of first and second, 0 standing for nil.
Better(n, best, i) ==
    IF best[1] = 0 \/ n[i] > n[best[1]] THEN <<i, best[1]>>
    ELSE IF best[2] = 0 \/ n[i] > n[best[2]] THEN <<best[1], i>>
    ELSE best

\* The loop, unrolled to the four options a decision can have.
BestTwo(n, len) ==
    LET Turn(best, i) == IF i <= len THEN Better(n, best, i) ELSE best
    IN  Turn(Turn(Turn(Turn(<<0, 0>>, 1), 2), 3), 4)

\* The position of the winner, 0 when there is none: at least two votes and a
\* strict lead over the runner-up.
Leader_TieWins(n, len) ==
    LET best == BestTwo(n, len)
    IN  IF \/ best[1] = 0
           \/ n[best[1]] < 2
           \/ best[2] # 0 /\ n[best[2]] > n[best[1]]
        THEN 0 ELSE best[1]

Leader(n, len) ==
    LET best == BestTwo(n, len)
    IN  IF \/ best[1] = 0
           \/ n[best[1]] < 2
           \/ best[2] # 0 /\ n[best[2]] >= n[best[1]]
        THEN 0 ELSE best[1]

Resolve(d, vs) ==
    LET n == [i \in 1..Len(Slate[d]) |-> Count(vs, d, i)]
        w == Leader(n, Len(Slate[d]))
    IN  IF w = 0 THEN None ELSE Slate[d][w]

-----------------------------------------------------------------------------
(* Types *)

InTx == {"option", "lock", "select", "delete", "insert", "resolve", "commit"}

Holding == {"select", "delete", "insert", "resolve", "commit"}

Request == [user : User, decision : Decision, option : Option]

TypeOK ==
    /\ members \in SUBSET User
    /\ votes \in SUBSET Row
    /\ resolved \in [Decision -> Option \cup {None}]
    /\ lock \in [Decision -> Call \cup {None}]
    /\ pc \in [Call -> InTx \cup {"idle"}]
    /\ req \in [Call -> Request \cup {None}]
    /\ \A c \in Call : pc[c] # "idle" => req[c] \in Request
    /\ existing \in [Call -> Option \cup {None}]
    /\ gone \in [Call -> SUBSET Row]
    /\ added \in [Call -> SUBSET Row]
    /\ winner \in [Call -> Option \cup {None}]

Init ==
    /\ members = User
    /\ votes = {}
    /\ resolved = [d \in Decision |-> None]
    /\ lock = [d \in Decision |-> None]
    /\ pc = [c \in Call |-> "idle"]
    /\ req = [c \in Call |-> None]
    /\ existing = [c \in Call |-> None]
    /\ gone = [c \in Call |-> {}]
    /\ added = [c \in Call |-> {}]
    /\ winner = [c \in Call |-> None]

-----------------------------------------------------------------------------
(* The call and its transaction *)

\* The votes as the statements of c's own transaction see them.
View(c) == (votes \ gone[c]) \cup added[c]

\* The connection returns to the pool: nothing of the transaction is kept.
Finish(c) ==
    /\ pc' = [pc EXCEPT ![c] = "idle"]
    /\ req' = [req EXCEPT ![c] = None]
    /\ existing' = [existing EXCEPT ![c] = None]
    /\ gone' = [gone EXCEPT ![c] = {}]
    /\ added' = [added EXCEPT ![c] = {}]
    /\ winner' = [winner EXCEPT ![c] = None]
    /\ lock' = [d \in Decision |-> IF lock[d] = c THEN None ELSE lock[d]]

\* service.Vote up to repo.Vote: the decision exists (a message and its
\* decision are committed together) and the caller is a member right now.
Vote(c, u, d, o) ==
    /\ pc[c] = "idle"
    /\ u \in members
    /\ pc' = [pc EXCEPT ![c] = "option"]
    /\ req' = [req EXCEPT ![c] = [user |-> u, decision |-> d, option |-> o]]
    /\ UNCHANGED <<members, votes, resolved, lock, tx>>

\* First(&option, "id = ? AND decision_id = ?"), errNoDecision when absent.
FindOption(c) ==
    /\ pc[c] = "option"
    /\ \/ /\ req[c].option \in OptionsOf(req[c].decision)
          /\ pc' = [pc EXCEPT ![c] = "lock"]
          /\ UNCHANGED <<req, lock, tx>>
       \/ /\ req[c].option \notin OptionsOf(req[c].decision)
          /\ Finish(c)
    /\ UNCHANGED <<members, votes, resolved>>

\* Without FOR UPDATE the SELECT does not wait.
LockDecision_NoForUpdate(c) ==
    /\ pc[c] = "lock"
    /\ pc' = [pc EXCEPT ![c] = "select"]
    /\ UNCHANGED <<members, votes, resolved, lock, req, tx>>

\* SELECT * FROM decisions WHERE id = ? FOR UPDATE
LockDecision(c) ==
    /\ pc[c] = "lock"
    /\ lock[req[c].decision] = None
    /\ lock' = [lock EXCEPT ![req[c].decision] = c]
    /\ pc' = [pc EXCEPT ![c] = "select"]
    /\ UNCHANGED <<members, votes, resolved, req, tx>>

\* The caller's vote on this decision, if there is one.
SelectVote(c) ==
    LET mine == RowsOf(votes, req[c].decision, req[c].user)
    IN  /\ pc[c] = "select"
        /\ \/ \E v \in mine : existing' = [existing EXCEPT ![c] = v[1]]
           \/ mine = {} /\ existing' = [existing EXCEPT ![c] = None]
        /\ pc' = [pc EXCEPT ![c] = "delete"]
        /\ UNCHANGED <<members, votes, resolved, lock, req, gone, added, winner>>

\* DELETE FROM decision_votes ..., skipped when no vote was found.
DeleteVotes(c) ==
    /\ pc[c] = "delete"
    /\ gone' = [gone EXCEPT ![c] =
                   IF existing[c] = None THEN {}
                   ELSE RowsOf(votes, req[c].decision, req[c].user)]
    /\ pc' = [pc EXCEPT ![c] = "insert"]
    /\ UNCHANGED <<members, votes, resolved, lock, req, existing, added, winner>>

\* INSERT unless the vote found was for this option.  A row that is already
\* there is a primary-key violation: the statement fails and only Rollback
\* is left.
InsertVote(c) ==
    LET row == <<req[c].option, req[c].user>>
    IN  /\ pc[c] = "insert"
        /\ \/ /\ existing[c] = req[c].option
              /\ UNCHANGED added
           \/ /\ existing[c] # req[c].option
              /\ row \notin votes \ gone[c]
              /\ added' = [added EXCEPT ![c] = {row}]
        /\ pc' = [pc EXCEPT ![c] = "resolve"]
        /\ UNCHANGED <<members, votes, resolved, lock, req, existing, gone, winner>>

\* The tally is reloaded on another connection, without the caller's own vote.
StoreWinner_OutsideTx(c) ==
    /\ pc[c] = "resolve"
    /\ winner' = [winner EXCEPT ![c] = Resolve(req[c].decision, votes)]
    /\ pc' = [pc EXCEPT ![c] = "commit"]
    /\ UNCHANGED <<members, votes, resolved, lock, req, existing, gone, added>>

\* The tally is reloaded through the transaction, resolved, and stored.
StoreWinner(c) ==
    /\ pc[c] = "resolve"
    /\ winner' = [winner EXCEPT ![c] = Resolve(req[c].decision, View(c))]
    /\ pc' = [pc EXCEPT ![c] = "commit"]
    /\ UNCHANGED <<members, votes, resolved, lock, req, existing, gone, added>>

\* COMMIT, after which the response and the notification are built.
Commit(c) ==
    /\ pc[c] = "commit"
    /\ votes' = View(c)
    /\ resolved' = [resolved EXCEPT ![req[c].decision] = winner[c]]
    /\ Finish(c)
    /\ UNCHANGED members

\* A statement fails, the request's context ends, or the process dies.
Rollback(c) ==
    /\ pc[c] \in InTx
    /\ Finish(c)
    /\ UNCHANGED <<members, votes, resolved>>

Leave(u) ==
    /\ u \in members
    /\ members' = members \ {u}
    /\ UNCHANGED <<votes, resolved, lock, pc, req, tx>>

Join(u) ==
    /\ u \notin members
    /\ members' = members \cup {u}
    /\ UNCHANGED <<votes, resolved, lock, pc, req, tx>>

Step(c) ==
    \/ \E u \in User, d \in Decision, o \in Option : Vote(c, u, d, o)
    \/ FindOption(c)
    \/ LockDecision(c)
    \/ SelectVote(c)
    \/ DeleteVotes(c)
    \/ InsertVote(c)
    \/ StoreWinner(c)
    \/ Commit(c)
    \/ Rollback(c)

Next ==
    \/ \E c \in Call : Step(c)
    \/ \E u \in User : Leave(u) \/ Join(u)

Spec == Init /\ [][Next]_vars

-----------------------------------------------------------------------------
(* Properties *)

\* Everyone gets exactly one vote per decision: however many calls of one user
\* run at once, the committed rows never hold two votes of one user among the
\* options of one decision.  The table's key (option, user) does not give this.
OneVotePerDecision ==
    \A d \in Decision, u \in User :
        \A v, w \in RowsOf(votes, d, u) : v = w

\* The strict lead of API.md, stated over the rows and not over the loop.
StrictLead(d, i) ==
    /\ Count(votes, d, i) >= 2
    /\ \A j \in 1..Len(Slate[d]) : j # i => Count(votes, d, j) < Count(votes, d, i)

\* The stored winner is never stale: after every commit resolved_option_id is
\* the option with at least two votes and a strict lead over every other, and
\* NULL when no option has that.
WinnerMatchesTally ==
    \A d \in Decision :
        \/ \E i \in 1..Len(Slate[d]) : resolved[d] = Slate[d][i] /\ StrictLead(d, i)
        \/ /\ resolved[d] = None
           /\ \A i \in 1..Len(Slate[d]) : ~StrictLead(d, i)

\* Every committed transaction is one atomic toggle of one vote: Voting's Spec
\* with its winner computed by Resolve.
Promise == INSTANCE Voting WITH Winner <- Resolve, NoWinner <- None

ImplementsVoting == Promise!Spec

-----------------------------------------------------------------------------
(* The inductive invariant *)

\* A decision row is locked exactly by the call that is past the FOR UPDATE.
LockHeld ==
    /\ \A c \in Call : pc[c] \in Holding => lock[req[c].decision] = c
    /\ \A d \in Decision : lock[d] # None =>
          pc[lock[d]] \in Holding /\ req[lock[d]].decision = d

\* Past FindOption the option belongs to the decision.
OptionFound ==
    \A c \in Call : pc[c] \in InTx \ {"option"} =>
        req[c].option \in OptionsOf(req[c].decision)

\* What a transaction has read and written so far agrees with what is
\* committed: nobody else can have changed this decision's votes.
Fresh(c) ==
    LET d == req[c].decision
        u == req[c].user
        o == req[c].option
    IN  /\ pc[c] \in {"delete", "insert"} =>
              RowsOf(votes, d, u) = IF existing[c] = None THEN {} ELSE {<<existing[c], u>>}
        /\ pc[c] \in {"insert", "resolve", "commit"} => gone[c] = RowsOf(votes, d, u)
        /\ pc[c] \in {"resolve", "commit"} =>
              added[c] = IF <<o, u>> \in votes THEN {} ELSE {<<o, u>>}
        /\ pc[c] \notin {"resolve", "commit"} => added[c] = {}
        /\ pc[c] = "commit" => winner[c] = Resolve(d, View(c))

ReadIsFresh == \A c \in Call : Fresh(c)

WinnerIsResolved == \A d \in Decision : resolved[d] = Resolve(d, votes)

\* The state every reachable state is in, strong enough to be preserved by
\* every step: types, one vote each, lock ownership, fresh reads and the
\* winner of the committed tally.
Inv ==
    /\ TypeOK
    /\ OneVotePerDecision
    /\ LockHeld
    /\ OptionFound
    /\ ReadIsFresh
    /\ WinnerIsResolved
=============================================================================
