---------------------------- MODULE VoteTxProofs ----------------------------
(***************************************************************************)
(* Proofs about VoteTx for every set of users, decisions, options and      *)
(* calls: the loop of Decision.Resolve finds the strict leader, Inv is     *)
(* inductive, and every transaction is one atomic toggle of Voting.        *)
(***************************************************************************)
EXTENDS VoteTx, FiniteSetTheorems, TLAPS

-----------------------------------------------------------------------------
(* The loop of Decision.Resolve *)

\* After k turns a is the position of a maximum of the first k counts and b of
\* a maximum of the others; 0 stands for nil.
LoopInv(n, a, b, k) ==
    /\ a \in 0..k /\ b \in 0..k
    /\ a = 0 => k = 0
    /\ b = 0 => k <= 1
    /\ b # 0 => a # 0 /\ a # b
    /\ a # 0 => \A j \in 1..k : n[j] <= n[a]
    /\ b # 0 => \A j \in 1..k : j # a => n[j] <= n[b]

\* One turn of the loop of Decision.Resolve keeps the best two of the options
\* seen so far.
LEMMA LoopTurn ==
    ASSUME NEW len \in Nat, NEW n \in [1..len -> Nat], NEW i \in 1..len,
           NEW a, NEW b, LoopInv(n, a, b, i - 1)
    PROVE  \E x, y : Better(n, <<a, b>>, i) = <<x, y>> /\ LoopInv(n, x, y, i)
<1>1. /\ a \in 0..(i - 1) /\ b \in 0..(i - 1)
      /\ a = 0 => i = 1
      /\ b = 0 => i <= 2
      /\ b # 0 => a # 0 /\ a # b
      /\ a # 0 => \A j \in 1..(i - 1) : n[j] <= n[a]
      /\ b # 0 => \A j \in 1..(i - 1) : j # a => n[j] <= n[b]
  BY DEF LoopInv
<1>2. \A j \in 1..i : n[j] \in Nat
  OBVIOUS
<1>3. \A j \in 1..i : j \in 1..(i - 1) \/ j = i
  OBVIOUS
<1>4. CASE a = 0 \/ n[i] > n[a]
  <2>1. Better(n, <<a, b>>, i) = <<i, a>>
    BY <1>4 DEF Better
  <2>2. \A j \in 1..i : n[j] <= n[i]
    <3>1. CASE a = 0
      BY <3>1, <1>1, <1>2
    <3>2. CASE a # 0
      <4>1. n[a] \in Nat /\ n[i] \in Nat /\ n[i] > n[a]
        BY <3>2, <1>1, <1>2, <1>4
      <4> QED
        BY <4>1, <3>2, <1>1, <1>2, <1>3
    <3> QED
      BY <3>1, <3>2
  <2>3. LoopInv(n, i, a, i)
    BY <2>2, <1>1, <1>2, <1>3 DEF LoopInv
  <2> QED
    BY <2>1, <2>3
<1>5. CASE ~(a = 0 \/ n[i] > n[a]) /\ (b = 0 \/ n[i] > n[b])
  <2>1. Better(n, <<a, b>>, i) = <<a, i>>
    BY <1>5 DEF Better
  <2>2. \A j \in 1..i : n[j] <= n[a]
    BY <1>1, <1>2, <1>3, <1>5
  <2>3. \A j \in 1..i : j # a => n[j] <= n[i]
    <3>1. CASE b = 0
      BY <3>1, <1>1, <1>2, <1>5
    <3>2. CASE b # 0
      <4>1. n[b] \in Nat /\ n[i] \in Nat /\ n[i] > n[b]
        BY <3>2, <1>1, <1>2, <1>5
      <4> QED
        BY <4>1, <3>2, <1>1, <1>2, <1>3
    <3> QED
      BY <3>1, <3>2
  <2>4. LoopInv(n, a, i, i)
    BY <2>2, <2>3, <1>1, <1>5 DEF LoopInv
  <2> QED
    BY <2>1, <2>4
<1>6. CASE ~(a = 0 \/ n[i] > n[a]) /\ ~(b = 0 \/ n[i] > n[b])
  <2>1. Better(n, <<a, b>>, i) = <<a, b>>
    BY <1>6 DEF Better
  <2>2. \A j \in 1..i : n[j] <= n[a]
    BY <1>1, <1>2, <1>3, <1>6
  <2>3. \A j \in 1..i : j # a => n[j] <= n[b]
    BY <1>1, <1>2, <1>3, <1>6
  <2>4. LoopInv(n, a, b, i)
    BY <2>2, <2>3, <1>1, <1>6 DEF LoopInv
  <2> QED
    BY <2>1, <2>4
<1> QED
  BY <1>4, <1>5, <1>6

\* A turn of the unrolled loop, which does nothing past the last option.
Turn(n, len, best, i) == IF i <= len THEN Better(n, best, i) ELSE best

Seen(len, i) == IF i <= len THEN i ELSE len

\* A turn of the unrolled loop leaves the best two of the options seen so far.
LEMMA UnrolledTurn ==
    ASSUME NEW len \in Nat, NEW n \in [1..len -> Nat], NEW i \in Nat \ {0},
           NEW a, NEW b, LoopInv(n, a, b, Seen(len, i - 1))
    PROVE  \E x, y : /\ Turn(n, len, <<a, b>>, i) = <<x, y>>
                     /\ LoopInv(n, x, y, Seen(len, i))
<1>1. CASE i <= len
  <2>1. LoopInv(n, a, b, i - 1) /\ i \in 1..len
    BY <1>1 DEF Seen
  <2>2. PICK x, y : Better(n, <<a, b>>, i) = <<x, y>> /\ LoopInv(n, x, y, i)
    BY <2>1, LoopTurn
  <2>3. Turn(n, len, <<a, b>>, i) = <<x, y>> /\ Seen(len, i) = i
    BY <1>1, <2>2 DEF Turn, Seen
  <2> QED
    BY <2>2, <2>3
<1>2. CASE ~(i <= len)
  <2>1. Turn(n, len, <<a, b>>, i) = <<a, b>>
    BY <1>2 DEF Turn
  <2>2. Seen(len, i) = Seen(len, i - 1)
    BY <1>2 DEF Seen
  <2> QED
    BY <2>1, <2>2
<1> QED
  BY <1>1, <1>2

\* The four turns of the unrolled loop together: what BestTwo returns.
LEMMA LoopResult ==
    ASSUME NEW len \in 2..4, NEW n \in [1..len -> Nat]
    PROVE  \E x, y : BestTwo(n, len) = <<x, y>> /\ LoopInv(n, x, y, len)
<1> len \in Nat
  OBVIOUS
<1>0. LoopInv(n, 0, 0, Seen(len, 1 - 1))
  BY DEF LoopInv, Seen
<1>1. PICK a1, b1 : /\ Turn(n, len, <<0, 0>>, 1) = <<a1, b1>>
                    /\ LoopInv(n, a1, b1, Seen(len, 1))
  BY <1>0, UnrolledTurn
<1>2. PICK a2, b2 : /\ Turn(n, len, <<a1, b1>>, 2) = <<a2, b2>>
                    /\ LoopInv(n, a2, b2, Seen(len, 2))
  <2>1. LoopInv(n, a1, b1, Seen(len, 2 - 1))
    BY <1>1
  <2> QED
    BY <2>1, UnrolledTurn
<1>3. PICK a3, b3 : /\ Turn(n, len, <<a2, b2>>, 3) = <<a3, b3>>
                    /\ LoopInv(n, a3, b3, Seen(len, 3))
  <2>1. LoopInv(n, a2, b2, Seen(len, 3 - 1))
    BY <1>2
  <2> QED
    BY <2>1, UnrolledTurn
<1>4. PICK a4, b4 : /\ Turn(n, len, <<a3, b3>>, 4) = <<a4, b4>>
                    /\ LoopInv(n, a4, b4, Seen(len, 4))
  <2>1. LoopInv(n, a3, b3, Seen(len, 4 - 1))
    BY <1>3
  <2> QED
    BY <2>1, UnrolledTurn
<1>5. Seen(len, 4) = len
  BY DEF Seen
<1>6. BestTwo(n, len) = Turn(n, len, Turn(n, len, Turn(n, len,
                          Turn(n, len, <<0, 0>>, 1), 2), 3), 4)
  BY DEF BestTwo, Turn
<1> QED
  BY <1>1, <1>2, <1>3, <1>4, <1>5, <1>6

\* The position Decision.Resolve answers is the strict leader: at least two
\* votes and more than every other option.  It answers none (0) exactly when
\* no option has that.
THEOREM LeaderIsStrict ==
    ASSUME NEW len \in 2..4, NEW n \in [1..len -> Nat]
    PROVE  LET w == Leader(n, len)
               Strict(i) == n[i] >= 2 /\ \A j \in 1..len : j # i => n[j] < n[i]
           IN  \/ w \in 1..len /\ Strict(w)
               \/ w = 0 /\ \A i \in 1..len : ~Strict(i)
<1> DEFINE Strict(i) == n[i] >= 2 /\ \A j \in 1..len : j # i => n[j] < n[i]
<1>1. PICK a, b : BestTwo(n, len) = <<a, b>> /\ LoopInv(n, a, b, len)
  BY LoopResult
<1>2. /\ a \in 1..len /\ b \in 1..len /\ a # b
      /\ \A j \in 1..len : n[j] <= n[a]
      /\ \A j \in 1..len : j # a => n[j] <= n[b]
  BY <1>1 DEF LoopInv
<1>3. \A j \in 1..len : n[j] \in Nat
  OBVIOUS
<1>4. Leader(n, len) = IF n[a] < 2 \/ n[b] >= n[a] THEN 0 ELSE a
  BY <1>1, <1>2 DEF Leader
<1>5. CASE n[a] < 2
  <2>1. \A i \in 1..len : ~Strict(i)
    BY <1>2, <1>3, <1>5
  <2> QED
    BY <2>1, <1>4, <1>5
<1>6. CASE n[a] >= 2 /\ n[b] >= n[a]
  <2>1. \A i \in 1..len : ~Strict(i)
    BY <1>2, <1>3, <1>6
  <2> QED
    BY <2>1, <1>4, <1>6
<1>7. CASE n[a] >= 2 /\ n[b] < n[a]
  <2>1. Strict(a)
    BY <1>2, <1>3, <1>7
  <2> QED
    BY <2>1, <1>2, <1>3, <1>4, <1>7
<1> QED
  BY <1>2, <1>3, <1>5, <1>6, <1>7

-----------------------------------------------------------------------------
(* Resolve and the tally *)

\* The votes of an option are finitely many: Count is a natural number.
LEMMA CountNat ==
    ASSUME NEW vs, NEW d \in Decision, NEW i
    PROVE  Count(vs, d, i) \in Nat
<1> DEFINE S == {u \in User : <<Slate[d][i], u>> \in vs}
<1>1. IsFiniteSet(S)
  BY UserAssumption, FS_Subset
<1>2. Cardinality(S) \in Nat
  BY <1>1, FS_CardinalityType
<1> QED
  BY <1>2 DEF Count

\* A decision has two to four options, all of them options, at places of their
\* own.
LEMMA SlateFacts ==
    ASSUME NEW d \in Decision
    PROVE  /\ Len(Slate[d]) \in 2..4
           /\ \A i \in 1..Len(Slate[d]) : Slate[d][i] \in Option
           /\ OptionsOf(d) \subseteq Option
<1>1. Slate[d] \in Seq(Option) /\ Len(Slate[d]) \in 2..4
  BY SlateAssumption
<1>2. \A i \in 1..Len(Slate[d]) : Slate[d][i] \in Option
  BY <1>1
<1> QED
  BY <1>1, <1>2 DEF OptionsOf

\* The strict lead of the property, over an arbitrary set of rows.
Leads(vs, d, i) ==
    /\ Count(vs, d, i) >= 2
    /\ \A j \in 1..Len(Slate[d]) : j # i => Count(vs, d, j) < Count(vs, d, i)

\* What Resolve answers: the option with the strict lead, or None when there is
\* no such option.
LEMMA ResolveIsStrict ==
    ASSUME NEW vs, NEW d \in Decision
    PROVE  \/ \E i \in 1..Len(Slate[d]) : Resolve(d, vs) = Slate[d][i] /\ Leads(vs, d, i)
           \/ /\ Resolve(d, vs) = None
              /\ \A i \in 1..Len(Slate[d]) : ~Leads(vs, d, i)
<1> DEFINE len == Len(Slate[d])
           n == [i \in 1..len |-> Count(vs, d, i)]
           w == Leader(n, len)
           Strict(i) == n[i] >= 2 /\ \A j \in 1..len : j # i => n[j] < n[i]
<1>1. len \in 2..4
  BY SlateFacts
<1>2. n \in [1..len -> Nat]
  BY CountNat
<1>3. \/ w \in 1..len /\ Strict(w)
      \/ w = 0 /\ \A i \in 1..len : ~Strict(i)
  <2> HIDE DEF n, len, w
  <2> QED
    BY <1>1, <1>2, LeaderIsStrict DEF w
<1>4. \A i \in 1..len : Strict(i) <=> Leads(vs, d, i)
  BY DEF Leads
<1>5. Resolve(d, vs) = IF w = 0 THEN None ELSE Slate[d][w]
  BY DEF Resolve
<1>6. CASE w \in 1..len /\ Strict(w)
  <2>1. w # 0
    <3> HIDE DEF w, n
    <3> QED
      BY <1>6
  <2>2. Resolve(d, vs) = Slate[d][w]
    BY <2>1, <1>5
  <2> HIDE DEF w, n
  <2> QED
    BY <2>2, <1>4, <1>6
<1>7. CASE w = 0 /\ \A i \in 1..len : ~Strict(i)
  <2>1. Resolve(d, vs) = None
    BY <1>7, <1>5
  <2> HIDE DEF w, n
  <2> QED
    BY <2>1, <1>4, <1>7
<1> QED
  BY <1>3, <1>6, <1>7

\* Resolve answers an option or None.
LEMMA ResolveType ==
    ASSUME NEW vs, NEW d \in Decision
    PROVE  Resolve(d, vs) \in Option \cup {None}
  BY ResolveIsStrict, SlateFacts

-----------------------------------------------------------------------------
(* Type correctness *)

\* The end of a call keeps the types of what it resets.
LEMMA FinishType ==
    ASSUME TypeOK, NEW c \in Call, Finish(c)
    PROVE  /\ pc' \in [Call -> InTx \cup {"idle"}]
           /\ req' \in [Call -> Request \cup {None}]
           /\ \A e \in Call : pc'[e] # "idle" => req'[e] \in Request
           /\ existing' \in [Call -> Option \cup {None}]
           /\ gone' \in [Call -> SUBSET Row]
           /\ added' \in [Call -> SUBSET Row]
           /\ winner' \in [Call -> Option \cup {None}]
           /\ lock' \in [Decision -> Call \cup {None}]
  BY DEF TypeOK, Finish

\* Every step of every call keeps the types.
LEMMA TypeStep == TypeOK /\ [Next]_vars => TypeOK'
<1> SUFFICES ASSUME TypeOK, [Next]_vars PROVE TypeOK'
  OBVIOUS
<1>1. ASSUME NEW c \in Call, NEW u \in User, NEW d \in Decision, NEW o \in Option,
             Vote(c, u, d, o)
      PROVE  TypeOK'
  <2>1. [user |-> u, decision |-> d, option |-> o] \in Request
    BY DEF Request
  <2> QED
    BY <1>1, <2>1 DEF TypeOK, Vote, InTx, tx
<1>2. ASSUME NEW c \in Call, FindOption(c) PROVE TypeOK'
  <2>1. CASE Finish(c)
    BY <1>2, <2>1, FinishType DEF TypeOK, FindOption
  <2>2. CASE ~Finish(c)
    BY <1>2, <2>2 DEF TypeOK, FindOption, InTx, tx
  <2> QED
    BY <2>1, <2>2
<1>3. ASSUME NEW c \in Call, LockDecision(c) PROVE TypeOK'
  BY <1>3 DEF TypeOK, LockDecision, InTx, tx, Request
<1>4. ASSUME NEW c \in Call, SelectVote(c) PROVE TypeOK'
  <2>1. \A v \in RowsOf(votes, req[c].decision, req[c].user) : v[1] \in Option
    BY DEF TypeOK, RowsOf, Row
  <2> QED
    BY <1>4, <2>1 DEF TypeOK, SelectVote, InTx
<1>5. ASSUME NEW c \in Call, DeleteVotes(c) PROVE TypeOK'
  BY <1>5 DEF TypeOK, DeleteVotes, RowsOf, InTx
<1>6. ASSUME NEW c \in Call, InsertVote(c) PROVE TypeOK'
  <2>1. req[c] \in Request
    BY <1>6 DEF TypeOK, InsertVote
  <2>2. {<<req[c].option, req[c].user>>} \in SUBSET Row
    BY <2>1 DEF Request, Row
  <2> QED
    BY <1>6, <2>2 DEF TypeOK, InsertVote, InTx
<1>7. ASSUME NEW c \in Call, StoreWinner(c) PROVE TypeOK'
  <2>1. req[c].decision \in Decision
    BY <1>7 DEF TypeOK, StoreWinner, Request
  <2>2. Resolve(req[c].decision, View(c)) \in Option \cup {None}
    BY <2>1, ResolveType
  <2> QED
    BY <1>7, <2>2 DEF TypeOK, StoreWinner, InTx
<1>8. ASSUME NEW c \in Call, Commit(c) PROVE TypeOK'
  <2>1. votes' \in SUBSET Row
    BY <1>8 DEF TypeOK, Commit, View
  <2>2. resolved' \in [Decision -> Option \cup {None}]
    BY <1>8 DEF TypeOK, Commit
  <2>3. members' \in SUBSET User
    BY <1>8 DEF TypeOK, Commit
  <2> QED
    BY <1>8, <2>1, <2>2, <2>3, FinishType DEF TypeOK, Commit
<1>9. ASSUME NEW c \in Call, Rollback(c) PROVE TypeOK'
  BY <1>9, FinishType DEF TypeOK, Rollback
<1>10. ASSUME NEW u \in User, Leave(u) \/ Join(u) PROVE TypeOK'
  BY <1>10 DEF TypeOK, Leave, Join, tx
<1>11. CASE UNCHANGED vars
  BY <1>11 DEF TypeOK, vars, tx
<1> QED
  BY <1>1, <1>2, <1>3, <1>4, <1>5, <1>6, <1>7, <1>8, <1>9, <1>10, <1>11 DEF Next, Step

\* Every variable of the vote transaction keeps its type, for any number of
\* users, decisions, options and calls.
THEOREM TypeCorrect == Spec => []TypeOK
<1>1. Init => TypeOK
  BY DEF Init, TypeOK
<1> QED
  BY <1>1, TypeStep, PTL DEF Spec

-----------------------------------------------------------------------------
(* Rows of different decisions do not touch *)

SameRows(vs, ws, d) == \A v \in Row : v[1] \in OptionsOf(d) => (v \in vs <=> v \in ws)

\* No option row belongs to two decisions.
LEMMA DisjointOptions ==
    ASSUME NEW d \in Decision, NEW e \in Decision, d # e
    PROVE  OptionsOf(d) \cap OptionsOf(e) = {}
  BY SlateAssumption DEF OptionsOf

\* The winner of a decision depends on the rows of its own options only.
LEMMA ResolveLocal ==
    ASSUME NEW d \in Decision, NEW vs, NEW ws, SameRows(vs, ws, d)
    PROVE  Resolve(d, vs) = Resolve(d, ws)
<1>1. \A i \in 1..Len(Slate[d]) : Count(vs, d, i) = Count(ws, d, i)
  <2> TAKE i \in 1..Len(Slate[d])
  <2>1. Slate[d][i] \in OptionsOf(d) /\ Slate[d][i] \in Option
    BY SlateFacts DEF OptionsOf
  <2>2. \A u \in User : <<Slate[d][i], u>> \in vs <=> <<Slate[d][i], u>> \in ws
    BY <2>1 DEF SameRows, Row
  <2>3. {u \in User : <<Slate[d][i], u>> \in vs} = {u \in User : <<Slate[d][i], u>> \in ws}
    BY <2>2
  <2> QED
    BY <2>3 DEF Count
<1>2. [i \in 1..Len(Slate[d]) |-> Count(vs, d, i)] = [i \in 1..Len(Slate[d]) |-> Count(ws, d, i)]
  BY <1>1
<1> QED
  BY <1>2 DEF Resolve

\* A call whose own variables and whose decision's rows are untouched stays
\* fresh.
LEMMA FreshFrame ==
    ASSUME TypeOK, OptionFound, NEW e \in Call, Fresh(e),
           pc'[e] = pc[e], req'[e] = req[e], existing'[e] = existing[e],
           gone'[e] = gone[e], added'[e] = added[e], winner'[e] = winner[e],
           votes' \in SUBSET Row,
           pc[e] \in Holding => SameRows(votes, votes', req[e].decision)
    PROVE  Fresh(e)'
<1>1. CASE pc[e] \in Holding
  <2> DEFINE d == req[e].decision
             u == req[e].user
             o == req[e].option
  <2>1. /\ d \in Decision /\ u \in User /\ o \in Option
        /\ o \in OptionsOf(d)
    BY <1>1 DEF TypeOK, Holding, InTx, Request, OptionFound
  <2>2. RowsOf(votes, d, u) = RowsOf(votes', d, u)
    BY <1>1 DEF SameRows, RowsOf, TypeOK
  <2>3. <<o, u>> \in votes <=> <<o, u>> \in votes'
    BY <1>1, <2>1 DEF SameRows, Row
  <2>4. Resolve(d, View(e)) = Resolve(d, View(e)')
    <3>1. SameRows(View(e), View(e)', d)
      BY <1>1 DEF SameRows, View
    <3> QED
      BY <3>1, <2>1, ResolveLocal
  <2> HIDE DEF d, u, o
  <2> QED
    BY <2>2, <2>3, <2>4 DEF Fresh, d, u, o
<1>2. CASE pc[e] \notin Holding
  BY <1>2 DEF Fresh, Holding
<1> QED
  BY <1>1, <1>2

-----------------------------------------------------------------------------
(* Lock ownership *)

\* A call that ends gives its lock back and takes nobody else's.
LEMMA FinishLocks ==
    ASSUME TypeOK, LockHeld, OptionFound, NEW c \in Call, Finish(c)
    PROVE  LockHeld' /\ OptionFound'
<1>1. pc'[c] = "idle" /\ \A e \in Call \ {c} : pc'[e] = pc[e] /\ req'[e] = req[e]
  BY DEF Finish, TypeOK
<1>2. \A d \in Decision : lock'[d] = IF lock[d] = c THEN None ELSE lock[d]
  BY DEF Finish
<1>3. OptionFound'
  BY <1>1 DEF OptionFound, InTx
<1>4. \A e \in Call : pc'[e] \in Holding => lock'[req'[e].decision] = e
  <2> SUFFICES ASSUME NEW e \in Call, pc'[e] \in Holding
               PROVE  lock'[req'[e].decision] = e
    OBVIOUS
  <2>1. e # c /\ pc[e] \in Holding /\ req'[e] = req[e]
    BY <1>1 DEF Holding
  <2>2. lock[req[e].decision] = e /\ req[e].decision \in Decision
    BY <2>1 DEF LockHeld, TypeOK, Holding, Request
  <2> QED
    BY <2>1, <2>2, <1>2
<1>5. \A d \in Decision : lock'[d] # None =>
          pc'[lock'[d]] \in Holding /\ req'[lock'[d]].decision = d
  <2> SUFFICES ASSUME NEW d \in Decision, lock'[d] # None
               PROVE  pc'[lock'[d]] \in Holding /\ req'[lock'[d]].decision = d
    OBVIOUS
  <2>1. lock'[d] = lock[d] /\ lock[d] # c /\ lock[d] # None /\ lock[d] \in Call
    BY <1>2 DEF TypeOK
  <2> QED
    BY <2>1, <1>1 DEF LockHeld
<1> QED
  BY <1>3, <1>4, <1>5 DEF LockHeld

\* Two calls past the FOR UPDATE vote on different decisions.
LEMMA Exclusion ==
    ASSUME LockHeld, NEW c \in Call, NEW e \in Call, c # e,
           pc[c] \in Holding, pc[e] \in Holding
    PROVE  req[c].decision # req[e].decision
  BY DEF LockHeld

\* Every step keeps the decision rows locked by the calls past the FOR UPDATE.
LEMMA LockStep ==
    ASSUME TypeOK, LockHeld, OptionFound, [Next]_vars
    PROVE  LockHeld' /\ OptionFound'
<1>1. ASSUME NEW c \in Call, NEW u \in User, NEW d \in Decision, NEW o \in Option,
             Vote(c, u, d, o)
      PROVE  LockHeld' /\ OptionFound'
  <2>1. \A e \in Decision : lock[e] # c
    BY <1>1, NoneAssumption DEF LockHeld, Vote, Holding
  <2> QED
    BY <1>1, <2>1, NoneAssumption DEF Vote, TypeOK, LockHeld, OptionFound, Holding, InTx
<1>2. ASSUME NEW c \in Call, FindOption(c) PROVE LockHeld' /\ OptionFound'
  <2>1. CASE Finish(c)
    BY <2>1, FinishLocks
  <2>2. CASE ~Finish(c)
    BY <1>2, <2>2 DEF FindOption, TypeOK, LockHeld, OptionFound, Holding, InTx
  <2> QED
    BY <2>1, <2>2
<1>3. ASSUME NEW c \in Call, LockDecision(c) PROVE LockHeld' /\ OptionFound'
  <2>1. req[c].decision \in Decision
    BY <1>3 DEF LockDecision, TypeOK, Request
  <2>2. \A e \in Call : pc[e] \in Holding => req[e].decision # req[c].decision
    BY <1>3, <2>1, NoneAssumption DEF LockDecision, LockHeld
  <2>3. OptionFound'
    BY <1>3 DEF LockDecision, TypeOK, OptionFound, InTx
  <2>4. \A e \in Call : pc'[e] \in Holding => lock'[req'[e].decision] = e
    BY <1>3, <2>1, <2>2 DEF LockDecision, TypeOK, LockHeld, Holding, Request, InTx
  <2>5. \A d \in Decision : lock'[d] # None =>
            pc'[lock'[d]] \in Holding /\ req'[lock'[d]].decision = d
    BY <1>3, <2>1 DEF LockDecision, TypeOK, LockHeld, Holding
  <2> QED
    BY <2>3, <2>4, <2>5 DEF LockHeld
<1>4. ASSUME NEW c \in Call,
             pc[c] \in Holding, pc' = [pc EXCEPT ![c] = pc'[c]], pc'[c] \in Holding,
             UNCHANGED <<lock, req>>
      PROVE  LockHeld' /\ OptionFound'
  BY <1>4 DEF LockHeld, OptionFound, TypeOK, Holding, InTx
<1>5. ASSUME NEW c \in Call, SelectVote(c) PROVE LockHeld' /\ OptionFound'
  BY <1>4, <1>5 DEF SelectVote, Holding, TypeOK
<1>6. ASSUME NEW c \in Call, DeleteVotes(c) PROVE LockHeld' /\ OptionFound'
  BY <1>4, <1>6 DEF DeleteVotes, Holding, TypeOK
<1>7. ASSUME NEW c \in Call, InsertVote(c) PROVE LockHeld' /\ OptionFound'
  BY <1>4, <1>7 DEF InsertVote, Holding, TypeOK
<1>8. ASSUME NEW c \in Call, StoreWinner(c) PROVE LockHeld' /\ OptionFound'
  BY <1>4, <1>8 DEF StoreWinner, Holding, TypeOK
<1>9. ASSUME NEW c \in Call, Commit(c) \/ Rollback(c) PROVE LockHeld' /\ OptionFound'
  BY <1>9, FinishLocks DEF Commit, Rollback
<1>10. ASSUME NEW u \in User, Leave(u) \/ Join(u) PROVE LockHeld' /\ OptionFound'
  BY <1>10 DEF Leave, Join, LockHeld, OptionFound
<1>11. CASE UNCHANGED vars
  BY <1>11 DEF vars, LockHeld, OptionFound
<1> QED
  BY <1>1, <1>2, <1>3, <1>5, <1>6, <1>7, <1>8, <1>9, <1>10, <1>11 DEF Next, Step

-----------------------------------------------------------------------------
(* Freshness, one vote each and the stored winner *)

\* What a Commit writes is the toggle of the caller's vote.
LEMMA CommitToggles ==
    ASSUME TypeOK, OptionFound, NEW c \in Call, Fresh(c), pc[c] \in {"resolve", "commit"}
    PROVE  View(c) = Promise!Toggled(votes, req[c].decision, req[c].option, req[c].user)
  BY DEF Fresh, View, Promise!Toggled, Promise!RowsOf, RowsOf

\* A toggle in one decision leaves the rows of every other decision alone.
LEMMA ToggleLocal ==
    ASSUME NEW d \in Decision, NEW e \in Decision, d # e, NEW o \in OptionsOf(d),
           NEW u \in User, NEW vs
    PROVE  SameRows(vs, Promise!Toggled(vs, d, o, u), e)
  BY DisjointOptions DEF SameRows, Promise!Toggled, Promise!RowsOf

\* A toggle leaves the caller with at most one row and nobody else's changed.
LEMMA ToggleOneVote ==
    ASSUME NEW d \in Decision, NEW o \in OptionsOf(d), NEW u \in User, NEW vs, OneVotePerDecision,
           vs = votes, votes \in SUBSET Row,
           votes' = Promise!Toggled(vs, d, o, u)
    PROVE  OneVotePerDecision'
<1> SUFFICES ASSUME NEW e \in Decision, NEW w \in User,
                    NEW x \in RowsOf(votes', e, w), NEW y \in RowsOf(votes', e, w)
             PROVE  x = y
  BY DEF OneVotePerDecision
<1>1. CASE e = d /\ w = u
  <2>1. \A v \in RowsOf(votes', d, u) : v = <<o, u>>
    BY DEF Promise!Toggled, Promise!RowsOf, RowsOf
  <2> QED
    BY <1>1, <2>1
<1>2. CASE e # d \/ w # u
  <2>1. \A v \in RowsOf(votes', e, w) : v \in RowsOf(votes, e, w)
    BY <1>2, DisjointOptions DEF Promise!Toggled, Promise!RowsOf, RowsOf
  <2> QED
    BY <2>1 DEF OneVotePerDecision
<1> QED
  BY <1>1, <1>2

\* A step that leaves the votes alone keeps every call fresh but the one that
\* moves.
LEMMA OthersStayFresh ==
    ASSUME Inv, NEW c \in Call, UNCHANGED votes,
           \A e \in Call \ {c} : /\ pc'[e] = pc[e] /\ req'[e] = req[e]
                                 /\ existing'[e] = existing[e] /\ gone'[e] = gone[e]
                                 /\ added'[e] = added[e] /\ winner'[e] = winner[e],
           Fresh(c)'
    PROVE  ReadIsFresh'
<1>1. ASSUME NEW e \in Call \ {c} PROVE Fresh(e)'
  <2>1. SameRows(votes, votes', req[e].decision)
    BY DEF SameRows
  <2>2. Fresh(e) /\ votes' \in SUBSET Row
    BY DEF Inv, ReadIsFresh, TypeOK
  <2> QED
    BY <2>1, <2>2, FreshFrame DEF Inv
<1> QED
  BY <1>1 DEF ReadIsFresh

\* A call that ends has nothing left to be stale.
LEMMA IdleIsFresh ==
    ASSUME TypeOK, NEW c \in Call, Finish(c)
    PROVE  /\ Fresh(c)'
           /\ \A e \in Call \ {c} : /\ pc'[e] = pc[e] /\ req'[e] = req[e]
                                    /\ existing'[e] = existing[e] /\ gone'[e] = gone[e]
                                    /\ added'[e] = added[e] /\ winner'[e] = winner[e]
  BY DEF TypeOK, Finish, Fresh

\* Every step leaves what each open transaction has read and written in agreement
\* with the committed rows.
LEMMA FreshStep ==
    ASSUME Inv, [Next]_vars, TypeOK'
    PROVE  ReadIsFresh'
<1> TypeOK /\ OneVotePerDecision /\ OptionFound /\ LockHeld /\ \A e \in Call : Fresh(e)
  BY DEF Inv, ReadIsFresh
<1>1. ASSUME NEW c \in Call, NEW u \in User, NEW d \in Decision, NEW o \in Option,
             Vote(c, u, d, o)
      PROVE  ReadIsFresh'
  <2>1. Fresh(c)'
    BY <1>1 DEF Vote, TypeOK, Fresh, tx
  <2> QED
    BY <1>1, <2>1, OthersStayFresh DEF Vote, TypeOK, tx
<1>2. ASSUME NEW c \in Call, FindOption(c) PROVE ReadIsFresh'
  <2>1. CASE Finish(c)
    BY <1>2, <2>1, IdleIsFresh, OthersStayFresh DEF FindOption
  <2>2. CASE ~Finish(c)
    <3>1. Fresh(c)'
      BY <1>2, <2>2 DEF FindOption, TypeOK, Fresh, tx
    <3> QED
      BY <1>2, <2>2, <3>1, OthersStayFresh DEF FindOption, TypeOK, tx
  <2> QED
    BY <2>1, <2>2
<1>3. ASSUME NEW c \in Call, LockDecision(c) PROVE ReadIsFresh'
  <2>1. Fresh(c)'
    BY <1>3 DEF LockDecision, TypeOK, Fresh, tx
  <2> QED
    BY <1>3, <2>1, OthersStayFresh DEF LockDecision, TypeOK, tx
<1>4. ASSUME NEW c \in Call, SelectVote(c) PROVE ReadIsFresh'
  <2> DEFINE d == req[c].decision
             u == req[c].user
             mine == RowsOf(votes, d, u)
  <2>1. d \in Decision /\ u \in User
    BY <1>4 DEF SelectVote, TypeOK, Request
  <2>2. \A v, w \in mine : v = w
    BY <2>1 DEF OneVotePerDecision
  <2>3. \A v \in mine : v = <<v[1], u>> /\ v[1] \in Option
    BY DEF RowsOf, TypeOK, Row
  <2>4. mine = IF existing'[c] = None THEN {} ELSE {<<existing'[c], u>>}
    <3>1. CASE mine = {}
      BY <1>4, <3>1 DEF SelectVote, TypeOK
    <3>2. CASE mine # {}
      <4>1. PICK v \in mine : existing'[c] = v[1]
        BY <1>4, <3>2 DEF SelectVote, TypeOK
      <4>2. existing'[c] # None /\ mine = {<<existing'[c], u>>}
        BY <4>1, <2>2, <2>3, NoneAssumption
      <4> QED
        BY <4>2
    <3> QED
      BY <3>1, <3>2
  <2>5. Fresh(c)'
    BY <1>4, <2>4 DEF SelectVote, TypeOK, Fresh
  <2> QED
    BY <1>4, <2>5, OthersStayFresh DEF SelectVote, TypeOK
<1>5. ASSUME NEW c \in Call, DeleteVotes(c) PROVE ReadIsFresh'
  <2>1. Fresh(c)'
    BY <1>5 DEF DeleteVotes, TypeOK, Fresh
  <2> QED
    BY <1>5, <2>1, OthersStayFresh DEF DeleteVotes, TypeOK
<1>6. ASSUME NEW c \in Call, InsertVote(c) PROVE ReadIsFresh'
  <2> DEFINE d == req[c].decision
             u == req[c].user
             o == req[c].option
  <2>1. d \in Decision /\ u \in User /\ o \in Option /\ o \in OptionsOf(d)
    BY <1>6 DEF InsertVote, TypeOK, OptionFound, InTx, Request
  <2>2. /\ RowsOf(votes, d, u) = IF existing[c] = None THEN {} ELSE {<<existing[c], u>>}
        /\ gone[c] = RowsOf(votes, d, u)
        /\ added[c] = {}
    BY <1>6 DEF InsertVote, Fresh
  <2>3. <<o, u>> \in votes <=> existing[c] = o
    <3>1. <<o, u>> \in votes <=> <<o, u>> \in RowsOf(votes, d, u)
      BY <2>1 DEF RowsOf
    <3> QED
      BY <3>1, <2>1, <2>2, NoneAssumption
  <2>4. added'[c] = IF <<o, u>> \in votes THEN {} ELSE {<<o, u>>}
    BY <1>6, <2>2, <2>3 DEF InsertVote, TypeOK
  <2>5. Fresh(c)'
    BY <1>6, <2>2, <2>4 DEF InsertVote, TypeOK, Fresh
  <2> QED
    BY <1>6, <2>5, OthersStayFresh DEF InsertVote, TypeOK
<1>7. ASSUME NEW c \in Call, StoreWinner(c) PROVE ReadIsFresh'
  <2>1. View(c)' = View(c)
    BY <1>7 DEF StoreWinner, View
  <2>2. Fresh(c)'
    BY <1>7, <2>1 DEF StoreWinner, TypeOK, Fresh
  <2> QED
    BY <1>7, <2>2, OthersStayFresh DEF StoreWinner, TypeOK
<1>8. ASSUME NEW c \in Call, Commit(c) PROVE ReadIsFresh'
  <2>1. Fresh(c)'
    BY <1>8, IdleIsFresh DEF Commit
  <2>2. ASSUME NEW e \in Call \ {c} PROVE Fresh(e)'
    <3>1. pc[e] \in Holding => SameRows(votes, votes', req[e].decision)
      <4> SUFFICES ASSUME pc[e] \in Holding
                   PROVE  SameRows(votes, votes', req[e].decision)
        OBVIOUS
      <4>1. pc[c] = "commit" /\ votes' = View(c)
        BY <1>8 DEF Commit
      <4>2. req[c].decision # req[e].decision
        BY <4>1, Exclusion DEF Holding
      <4>3. votes' = Promise!Toggled(votes, req[c].decision, req[c].option, req[c].user)
        BY <4>1, CommitToggles
      <4>4. /\ req[c] \in Request /\ req[e] \in Request
            /\ req[c].option \in OptionsOf(req[c].decision)
        BY <4>1 DEF TypeOK, Holding, OptionFound, InTx
      <4> QED
        BY <4>2, <4>3, <4>4, ToggleLocal DEF Request
    <3> QED
      BY <1>8, <3>1, IdleIsFresh, FreshFrame DEF Commit, TypeOK
  <2> QED
    BY <2>1, <2>2 DEF ReadIsFresh
<1>9. ASSUME NEW c \in Call, Rollback(c) PROVE ReadIsFresh'
  BY <1>9, IdleIsFresh, OthersStayFresh DEF Rollback
<1>10. ASSUME NEW u \in User, Leave(u) \/ Join(u) PROVE ReadIsFresh'
  BY <1>10 DEF Leave, Join, ReadIsFresh, Fresh, View, tx
<1>11. CASE UNCHANGED vars
  BY <1>11 DEF vars, ReadIsFresh, Fresh, View
<1> QED
  BY <1>1, <1>2, <1>3, <1>4, <1>5, <1>6, <1>7, <1>8, <1>9, <1>10, <1>11 DEF Next, Step

\* Every committed transaction is a toggle with the winner of the new tally.
LEMMA CommitIsToggle ==
    ASSUME Inv, NEW c \in Call, Commit(c)
    PROVE  /\ req[c] \in Request
           /\ req[c].option \in OptionsOf(req[c].decision)
           /\ Promise!Toggle(req[c].decision, req[c].option, req[c].user)
<1>1. /\ TypeOK /\ OptionFound /\ Fresh(c) /\ pc[c] = "commit"
  BY DEF Inv, ReadIsFresh, Commit
<1>2. req[c] \in Request /\ req[c].option \in OptionsOf(req[c].decision)
  BY <1>1 DEF TypeOK, OptionFound, InTx
<1>3. votes' = Promise!Toggled(votes, req[c].decision, req[c].option, req[c].user)
  BY <1>1, CommitToggles DEF Commit
<1>4. resolved' = [resolved EXCEPT ![req[c].decision] = Resolve(req[c].decision, votes')]
  BY <1>1 DEF Commit, Fresh
<1> QED
  BY <1>2, <1>3, <1>4 DEF Promise!Toggle

\* Only a Commit touches the votes or the winners.
LEMMA OnlyCommitWrites ==
    ASSUME [Next]_vars
    PROVE  (\E c \in Call : Commit(c)) \/ UNCHANGED <<votes, resolved>>
  BY DEF Next, Step, vars, Vote, FindOption, LockDecision, SelectVote, DeleteVotes,
         InsertVote, StoreWinner, Rollback, Leave, Join

\* Every step keeps one vote each and the stored winner that of the tally.
LEMMA TallyStep ==
    ASSUME Inv, [Next]_vars, TypeOK'
    PROVE  OneVotePerDecision' /\ WinnerIsResolved'
<1>1. CASE UNCHANGED <<votes, resolved>>
  BY <1>1 DEF Inv, OneVotePerDecision, WinnerIsResolved
<1>2. ASSUME NEW c \in Call, Commit(c) PROVE OneVotePerDecision' /\ WinnerIsResolved'
  <2> DEFINE d == req[c].decision
             o == req[c].option
             u == req[c].user
  <2>1. /\ d \in Decision /\ o \in OptionsOf(d) /\ u \in User
        /\ votes' = Promise!Toggled(votes, d, o, u)
        /\ resolved' = [resolved EXCEPT ![d] = Resolve(d, votes')]
    BY <1>2, CommitIsToggle DEF Promise!Toggle, Request
  <2>2. OneVotePerDecision'
    BY <2>1, ToggleOneVote DEF Inv, TypeOK
  <2>3. ASSUME NEW e \in Decision PROVE resolved'[e] = Resolve(e, votes')
    <3>1. CASE e = d
      BY <3>1, <2>1 DEF Inv, TypeOK
    <3>2. CASE e # d
      <4>1. SameRows(votes, votes', e)
        BY <2>1, <3>2, ToggleLocal
      <4>2. Resolve(e, votes) = Resolve(e, votes')
        BY <4>1, ResolveLocal
      <4> QED
        BY <4>2, <2>1, <3>2 DEF Inv, TypeOK, WinnerIsResolved
    <3> QED
      BY <3>1, <3>2
  <2> QED
    BY <2>2, <2>3 DEF WinnerIsResolved
<1> QED
  BY <1>1, <1>2, OnlyCommitWrites

\* With no votes nobody wins.
LEMMA NoVotesNoWinner ==
    ASSUME NEW d \in Decision PROVE Resolve(d, {}) = None
<1>1. \A i : Count({}, d, i) = 0
  <2> TAKE i
  <2>1. {u \in User : <<Slate[d][i], u>> \in {}} = {}
    OBVIOUS
  <2> QED
    BY <2>1, FS_EmptySet DEF Count
<1> QED
  BY <1>1, ResolveIsStrict DEF Leads

\* The inductive invariant holds before the first call.
LEMMA InitInv == Init => Inv
<1> SUFFICES ASSUME Init PROVE Inv
  OBVIOUS
<1>1. TypeOK
  BY DEF Init, TypeOK
<1>2. OneVotePerDecision
  BY DEF Init, OneVotePerDecision, RowsOf
<1>3. LockHeld /\ OptionFound /\ ReadIsFresh
  BY DEF Init, LockHeld, OptionFound, ReadIsFresh, Fresh, Holding, InTx
<1>4. WinnerIsResolved
  BY NoVotesNoWinner DEF Init, WinnerIsResolved
<1> QED
  BY <1>1, <1>2, <1>3, <1>4 DEF Inv

\* The inductive invariant is preserved by every step.
LEMMA StepInv == Inv /\ [Next]_vars => Inv'
<1> SUFFICES ASSUME Inv, [Next]_vars PROVE Inv'
  OBVIOUS
<1>1. TypeOK'
  BY TypeStep DEF Inv
<1>2. LockHeld' /\ OptionFound'
  BY LockStep DEF Inv
<1>3. ReadIsFresh'
  BY <1>1, FreshStep
<1>4. OneVotePerDecision' /\ WinnerIsResolved'
  BY <1>1, TallyStep
<1> QED
  BY <1>1, <1>2, <1>3, <1>4 DEF Inv

-----------------------------------------------------------------------------
(* The results *)

\* The inductive invariant holds in every reachable state, whatever the calls
\* in flight do and wherever they are rolled back.
THEOREM InvHolds == Spec => []Inv
  BY InitInv, StepInv, PTL DEF Spec

\* However many calls one person has in flight, the committed rows never hold
\* two of their votes in one decision.
THEOREM OneVote == Spec => []OneVotePerDecision
<1>1. Inv => OneVotePerDecision
  BY DEF Inv
<1> QED
  BY <1>1, InvHolds, PTL

\* The stored winner is the option with two votes and a strict lead, and NULL
\* when there is none: gormRepository.Vote never leaves a stale winner.
THEOREM WinnerNeverStale == Spec => []WinnerMatchesTally
<1>1. Inv => WinnerMatchesTally
  <2> SUFFICES ASSUME Inv, NEW d \in Decision
               PROVE  \/ \E i \in 1..Len(Slate[d]) : resolved[d] = Slate[d][i] /\ StrictLead(d, i)
                      \/ /\ resolved[d] = None
                         /\ \A i \in 1..Len(Slate[d]) : ~StrictLead(d, i)
    BY DEF WinnerMatchesTally
  <2>1. resolved[d] = Resolve(d, votes)
    BY DEF Inv, WinnerIsResolved
  <2>2. \A i : Leads(votes, d, i) <=> StrictLead(d, i)
    BY DEF Leads, StrictLead
  <2> QED
    BY <2>1, <2>2, ResolveIsStrict
<1> QED
  BY <1>1, InvHolds, PTL

\* The transaction implements Voting: seen from the committed rows every call
\* is one indivisible toggle, or nothing at all.
THEOREM VoteIsAtomic == Spec => ImplementsVoting
<1>1. Init => Promise!Init
  BY DEF Init, Promise!Init
<1>2. Inv /\ [Next]_vars => [Promise!Next]_(Promise!vars)
  <2> SUFFICES ASSUME Inv, [Next]_vars PROVE [Promise!Next]_(Promise!vars)
    OBVIOUS
  <2>1. CASE UNCHANGED <<votes, resolved>>
    BY <2>1 DEF Promise!vars
  <2>2. ASSUME NEW c \in Call, Commit(c) PROVE Promise!Next
    BY <2>2, CommitIsToggle DEF Promise!Next, Request
  <2> QED
    BY <2>1, <2>2, OnlyCommitWrites
<1> QED
  BY <1>1, <1>2, InvHolds, PTL DEF Spec, Promise!Spec, ImplementsVoting
=============================================================================
