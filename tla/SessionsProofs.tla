---------------------------- MODULE SessionsProofs --------------------------
(***************************************************************************)
(* One end per family and burning is final, for any passwords, requests    *)
(* and limits.                                                             *)
(*                                                                         *)
(* What gives a family an end is narrow: a live token, or a request that   *)
(* has claimed one and not inserted its successor.  All but two actions    *)
(* leave that alone or take from it (NoNewEnd); Claim turns a live token   *)
(* into such a request, CreateRefresh such a request into a live token.    *)
(***************************************************************************)
EXTENDS Sessions, SequenceTheorems, TLAPS

\* What a request carries agrees with the rows it was read from.
CallFacts ==
    \A c \in Call :
        /\ pc[c] \in {"claim", "burn"} =>
              /\ call[c].token \in Token
              /\ call[c].family = tokens[call[c].token].family
        /\ pc[c] \in {"renew", "link"} => call[c].family = 0
        /\ pc[c] = "respond" => call[c].new \in Token
        /\ pc[c] = "write" /\ call[c].op = "reset" => call[c].action \in 1..Len(actions)
        /\ pc[c] = "use" => call[c].action \in 1..Len(actions)

\* A family burned while none of its tokens was being issued has no live token
\* and never again one being issued.
BurnEnds ==
    \A f \in burned \ racing : f \notin InFlight /\ \A t \in FamilyOf(f) : ~Live(t)

Inv == TypeOK /\ CallFacts /\ OneEndPerFamily /\ BurnEnds

\* Rows are only revoked, and no request comes to hold the claim of a family.
NoNewEnd ==
    /\ Len(tokens') = Len(tokens)
    /\ \A t \in Token : /\ tokens'[t].family = tokens[t].family
                        /\ tokens[t].revoked => tokens'[t].revoked
    /\ \A c \in Call :
          pc'[c] = "insert" =>
              \/ call'[c].family = 0
              \/ pc[c] = "insert" /\ call'[c].family = call[c].family

-----------------------------------------------------------------------------
(* Rows                                                                     *)

\* Revoke changes no row but for its revoked_at, and that only one way.
LEMMA RevokeRows ==
    ASSUME tokens \in Seq(TokenRow), NEW ts, Revoke(ts)
    PROVE  /\ tokens' \in Seq(TokenRow)
           /\ Len(tokens') = Len(tokens)
           /\ \A t \in Token : /\ tokens'[t].family = tokens[t].family
                               /\ tokens[t].revoked => tokens'[t].revoked
                               /\ t \in ts => tokens'[t].revoked
<1> DEFINE row(t) == IF t \in ts THEN [tokens[t] EXCEPT !.revoked = TRUE] ELSE tokens[t]
<1>1. Len(tokens) \in Nat /\ \A t \in Token : tokens[t] \in TokenRow
  BY LenProperties, ElementOfSeq DEF Token
<1>2. \A t \in Token : row(t) \in TokenRow
  BY <1>1 DEF TokenRow
<1>3. tokens' = [t \in Token |-> row(t)]
  BY DEF Revoke
<1>4. tokens' \in [1..Len(tokens) -> TokenRow]
  BY <1>2, <1>3 DEF Token
<1>5. tokens' \in Seq(TokenRow)
  BY <1>1, <1>4, SeqDef
<1>6. Len(tokens') = Len(tokens)
  BY <1>1, <1>4, <1>5, LenProperties
<1>7. \A t \in Token : tokens'[t] = row(t)
  BY <1>3
<1>8. QED
  BY <1>1, <1>5, <1>6, <1>7 DEF TokenRow

\* A client's being given a token changes nothing else.
LEMMA RespondRows ==
    ASSUME tokens \in Seq(TokenRow), NEW n \in Token,
           tokens' = [tokens EXCEPT ![n].held = TRUE]
    PROVE  /\ tokens' \in Seq(TokenRow)
           /\ Len(tokens') = Len(tokens)
           /\ \A t \in Token : /\ tokens'[t].family = tokens[t].family
                               /\ tokens[t].revoked = tokens'[t].revoked
<1>1. Len(tokens) \in Nat /\ \A t \in Token : tokens[t] \in TokenRow
  BY LenProperties, ElementOfSeq DEF Token
<1>2. tokens \in [1..Len(tokens) -> TokenRow]
  BY LenProperties
<1>3. tokens' \in [1..Len(tokens) -> TokenRow]
  BY <1>1, <1>2 DEF TokenRow, Token
<1>4. tokens' \in Seq(TokenRow)
  BY <1>1, <1>3, SeqDef
<1>5. Len(tokens') = Len(tokens)
  BY <1>1, <1>3, <1>4, LenProperties
<1>6. \A t \in Token : /\ tokens'[t].family = tokens[t].family
                       /\ tokens[t].revoked = tokens'[t].revoked
  BY <1>1, <1>2 DEF Token, TokenRow
<1>7. QED
  BY <1>4, <1>5, <1>6

-----------------------------------------------------------------------------
(* Ends                                                                     *)

\* A step that gives no family an end keeps one end per family.
LEMMA QuietOneEnd ==
    ASSUME Inv, TypeOK', NoNewEnd
    PROVE  OneEndPerFamily'
<1>1. Token' = Token
  BY DEF NoNewEnd, Token
<1>2. \A t \in Token : tokens[t].family # 0 /\ tokens'[t].family = tokens[t].family
  BY DEF Inv, TypeOK, Token, NoNewEnd
<1>3. \A t \in Token : Live(t)' => Live(t)
  BY DEF NoNewEnd, Live
<1>4. \A f \in InFlight' : f = 0 \/ f \in InFlight
  BY DEF InFlight, NoNewEnd
<1>5. \A s, t \in Token' :
         Live(s)' /\ Live(t)' /\ tokens'[s].family = tokens'[t].family => s = t
  BY <1>1, <1>2, <1>3 DEF Inv, OneEndPerFamily
<1>6. \A t \in Token' : Live(t)' => tokens'[t].family \notin InFlight'
  BY <1>1, <1>2, <1>3, <1>4 DEF Inv, OneEndPerFamily
<1>7. \A c, d \in Call : /\ pc'[c] = "insert" /\ pc'[d] = "insert"
                         /\ call'[c].family = call'[d].family /\ call'[c].family # 0
                         => c = d
  BY DEF Inv, OneEndPerFamily, NoNewEnd
<1>8. QED
  BY <1>5, <1>6, <1>7 DEF OneEndPerFamily

\* One that burns nothing besides keeps burning final.
LEMMA QuietBurn ==
    ASSUME Inv, NoNewEnd, UNCHANGED <<burned, racing>>
    PROVE  BurnEnds'
<1> SUFFICES ASSUME NEW f \in burned \ racing
             PROVE  f \notin InFlight' /\ \A t \in FamilyOf(f)' : ~Live(t)'
  BY DEF BurnEnds
<1>1. Token' = Token
  BY DEF NoNewEnd, Token
<1>2. f # 0
  BY DEF Inv, TypeOK, Families, Token
<1>3. f \notin InFlight'
  BY <1>2 DEF Inv, BurnEnds, InFlight, NoNewEnd
<1>4. FamilyOf(f)' = FamilyOf(f)
  BY <1>1 DEF FamilyOf, NoNewEnd
<1>5. \A t \in FamilyOf(f) : ~Live(t)'
  BY DEF Inv, BurnEnds, NoNewEnd, Live, FamilyOf
<1>6. QED
  BY <1>3, <1>4, <1>5

-----------------------------------------------------------------------------
(* Steps that start or end a request                                        *)

\* NoCall is a request record whatever rows there are.
LEMMA NoCallTyped == TypeOK => NoCall \in CallRow
BY LenProperties DEF TypeOK, NoCall, CallRow

\* A request that begins with what it has read keeps the invariant.
LEMMA BeginInv ==
    ASSUME Inv, NEW c \in Call, NEW op, NEW r \in CallRow,
           NEW step \in Steps \ {"idle", "respond", "use"},
           Begin(c, op, r, step),
           step \in {"claim", "burn"} =>
              r.token \in Token /\ r.family = tokens[r.token].family,
           step = "write" /\ op = "reset" => r.action \in 1..Len(actions),
           step \in {"renew", "link", "insert"} => r.family = 0
    PROVE  Inv'
<1> DEFINE s == [r EXCEPT !.op = op]
<1>1. op \in AllOps
  BY SessionsAssumption DEF Begin
<1>2. s \in CallRow /\ s.op = op /\ s.token = r.token /\ s.family = r.family /\ s.action = r.action
  BY <1>1 DEF CallRow
<1>3. /\ pc' = [pc EXCEPT ![c] = step]
      /\ call' = [call EXCEPT ![c] = s]
      /\ UNCHANGED <<tokens, actions, password, burned, racing, spent>>
  BY DEF Begin, Goto, Set, history
<1>4. CallRow' = CallRow /\ Token' = Token /\ Families' = Families
  BY <1>3 DEF CallRow, Token, Families
<1>5. pc \in [Call -> Steps] /\ call \in [Call -> CallRow]
  BY DEF Inv, TypeOK
<1> HIDE DEF s
<1>6. TypeOK'
  <2>1. pc' \in [Call -> Steps] /\ call' \in [Call -> CallRow']
    BY <1>2, <1>3, <1>4, <1>5
  <2>2. \A d \in Call : Idle(d)' <=> call'[d].op = "none"
    BY <1>1, <1>2, <1>3, <1>5 DEF Inv, TypeOK, Idle, AllOps
  <2>3. QED
    BY <1>3, <1>4, <2>1, <2>2 DEF Inv, TypeOK
<1>7. CallFacts'
  BY <1>2, <1>3, <1>4, <1>5 DEF Inv, CallFacts
<1>8. NoNewEnd
  BY <1>2, <1>3, <1>5 DEF NoNewEnd
<1>9. OneEndPerFamily' /\ BurnEnds'
  BY <1>3, <1>6, <1>8, QuietOneEnd, QuietBurn
<1>10. QED
  BY <1>6, <1>7, <1>9 DEF Inv

-----------------------------------------------------------------------------
(* The requests                                                             *)

\* Every request begins with an invariant state kept.
LEMMA RequestInv ==
    ASSUME Inv, NEW c \in Call, Request(c)
    PROVE  Inv'
<1>1. NoCall \in CallRow /\ NoCall.family = 0
  BY NoCallTyped DEF Inv, NoCall
<1>2. CASE \E p \in Password : Login(c, p)
  BY <1>1, <1>2, BeginInv DEF Login, Steps
<1>3. CASE SignInWithFirebase(c)
  <2>1. CASE Begin(c, "social", NoCall, "insert")
    BY <1>1, <2>1, BeginInv DEF Steps
  <2>2. ASSUME NEW step \in {"renew", "link"},
               Begin(c, "social", [NoCall EXCEPT !.password = password], step)
        PROVE  Inv'
    <3> DEFINE r == [NoCall EXCEPT !.password = password]
    <3>1. r \in CallRow /\ r.family = 0
      BY <1>1 DEF CallRow, NoCall, Inv, TypeOK
    <3>2. Begin(c, "social", r, step)
      BY <2>2
    <3> HIDE DEF r
    <3>3. QED
      BY <3>1, <3>2, BeginInv DEF Steps
  <2>3. QED
    BY <1>3, <2>1, <2>2 DEF SignInWithFirebase
<1>4. ASSUME NEW t \in Token, Refresh(c, t)
      PROVE  Inv'
  <2> DEFINE r == [NoCall EXCEPT !.token = t, !.family = tokens[t].family]
  <2>1. tokens[t].family \in Token /\ Token \subseteq 0..Len(tokens)
    BY DEF Inv, TypeOK, Token
  <2>2. r \in CallRow /\ r.token = t /\ r.family = tokens[t].family
    BY <1>1, <2>1 DEF CallRow, NoCall
  <2>3. Begin(c, "refresh", r, IF Live(t) THEN "claim" ELSE "burn")
    BY <1>4 DEF Refresh
  <2> HIDE DEF r
  <2>4. CASE Live(t)
    BY <2>2, <2>3, <2>4, BeginInv DEF Steps
  <2>5. CASE ~Live(t)
    BY <2>2, <2>3, <2>5, BeginInv DEF Steps
  <2>6. QED
    BY <2>4, <2>5
<1>5. ASSUME NEW t \in Token, Logout(c, t)
      PROVE  Inv'
  <2>1. Revoke({t}) /\ UNCHANGED <<actions, password, pc, call, burned, racing, spent>>
    BY <1>5 DEF Logout, history
  <2>2. tokens \in Seq(TokenRow)
    BY DEF Inv, TypeOK
  <2>3. /\ tokens' \in Seq(TokenRow)
        /\ Len(tokens') = Len(tokens)
        /\ \A u \in Token : /\ tokens'[u].family = tokens[u].family
                            /\ tokens[u].revoked => tokens'[u].revoked
    BY <2>1, <2>2, RevokeRows
  <2>4. CallRow' = CallRow /\ Token' = Token /\ Families' = Families
    BY <2>1, <2>3 DEF CallRow, Token, Families
  <2>5. TypeOK'
    BY <2>1, <2>3, <2>4 DEF Inv, TypeOK, Idle
  <2>6. CallFacts'
    BY <2>1, <2>3, <2>4 DEF Inv, CallFacts
  <2>7. NoNewEnd
    BY <2>1, <2>3 DEF NoNewEnd
  <2>8. QED
    BY <2>1, <2>5, <2>6, <2>7, QuietOneEnd, QuietBurn DEF Inv
<1>6. CASE ForgotPassword(c)
  BY <1>1, <1>6, BeginInv DEF ForgotPassword, Steps
<1>7. ASSUME NEW a \in 1..Len(actions), NEW p \in Password, ResetPassword(c, a, p)
      PROVE  Inv'
  <2> DEFINE r == [NoCall EXCEPT !.action = a, !.password = p]
  <2>0. Len(actions) \in Nat /\ a \in 0..Len(actions)
    BY LenProperties DEF Inv, TypeOK
  <2>1. r \in CallRow /\ r.action = a
    BY <1>1, <2>0 DEF CallRow, NoCall
  <2>2. Begin(c, "reset", r, "write")
    BY <1>7 DEF ResetPassword
  <2> HIDE DEF r
  <2>3. QED
    BY <2>1, <2>2, BeginInv DEF Steps
<1>8. ASSUME NEW current \in Password, NEW p \in Password, ChangePassword(c, current, p)
      PROVE  Inv'
  <2> DEFINE r == [NoCall EXCEPT !.password = p]
  <2>1. r \in CallRow
    BY <1>1 DEF CallRow, NoCall
  <2>2. Begin(c, "change", r, "write")
    BY <1>8 DEF ChangePassword
  <2> HIDE DEF r
  <2>3. QED
    BY <2>1, <2>2, BeginInv DEF Steps
<1>9. CASE UpdateProfile(c)
  <2> DEFINE r == [NoCall EXCEPT !.password = password]
  <2>1. r \in CallRow
    BY <1>1 DEF CallRow, NoCall, Inv, TypeOK
  <2>2. Begin(c, "profile", r, "write")
    BY <1>9 DEF UpdateProfile
  <2> HIDE DEF r
  <2>3. QED
    BY <2>1, <2>2, BeginInv DEF Steps
<1>10. CASE DeleteAccount(c)
  BY <1>1, <1>10, BeginInv DEF DeleteAccount, Steps
<1>11. QED
  BY <1>2, <1>3, <1>4, <1>5, <1>6, <1>7, <1>8, <1>9, <1>10 DEF Request

-----------------------------------------------------------------------------
(* The steps that revoke or issue                                           *)

\* The one request that finds the row live takes the family's only end over.
LEMMA ClaimInv ==
    ASSUME Inv, NEW c \in Call, Claim(c), Live(call[c].token)
    PROVE  Inv'
<1> DEFINE t == call[c].token
           f == call[c].family
<1>1. /\ pc[c] = "claim"
      /\ Revoke({t})
      /\ pc' = [pc EXCEPT ![c] = "insert"]
      /\ UNCHANGED <<actions, password, call, burned, racing, spent>>
  BY DEF Claim, Goto, history
<1>2. t \in Token /\ f = tokens[t].family /\ f # 0 /\ Live(t)
  BY <1>1 DEF Inv, CallFacts, TypeOK, Token
<1>3. /\ tokens' \in Seq(TokenRow)
      /\ Len(tokens') = Len(tokens)
      /\ \A u \in Token : /\ tokens'[u].family = tokens[u].family
                          /\ tokens[u].revoked => tokens'[u].revoked
      /\ tokens'[t].revoked
  BY <1>1, <1>2, RevokeRows DEF Inv, TypeOK
<1>4. CallRow' = CallRow /\ Token' = Token /\ Families' = Families
  BY <1>1, <1>3 DEF CallRow, Token, Families
<1>5. pc \in [Call -> Steps]
  BY DEF Inv, TypeOK
<1> HIDE DEF t, f
<1>6. TypeOK'
  <2>1. pc' \in [Call -> Steps]
    BY <1>1, <1>5 DEF Steps
  <2>2. \A d \in Call : Idle(d)' <=> Idle(d)
    BY <1>1, <1>5 DEF Idle
  <2>3. QED
    BY <1>1, <1>3, <1>4, <2>1, <2>2 DEF Inv, TypeOK
<1>7. CallFacts'
  BY <1>1, <1>3, <1>4, <1>5 DEF Inv, CallFacts
<1>8. \A g \in InFlight' : g = f \/ g \in InFlight
  BY <1>1, <1>5 DEF InFlight, f
<1>9. f \notin InFlight
  BY <1>2 DEF Inv, OneEndPerFamily
<1>10. \A u \in Token : tokens[u].family = f /\ Live(u) => u = t
  BY <1>2 DEF Inv, OneEndPerFamily
<1>11. \A u \in Token : Live(u)' => Live(u) /\ u # t
  BY <1>2, <1>3 DEF Live
<1>12. OneEndPerFamily'
  <2>1. \A u, v \in Token' :
           Live(u)' /\ Live(v)' /\ tokens'[u].family = tokens'[v].family => u = v
    BY <1>3, <1>4, <1>11 DEF Inv, OneEndPerFamily
  <2>2. \A u \in Token' : Live(u)' => tokens'[u].family \notin InFlight'
    BY <1>3, <1>4, <1>8, <1>10, <1>11 DEF Inv, OneEndPerFamily
  <2>3. \A d, e \in Call : /\ pc'[d] = "insert" /\ pc'[e] = "insert"
                           /\ call'[d].family = call'[e].family /\ call'[d].family # 0
                           => d = e
    BY <1>1, <1>5, <1>9 DEF Inv, OneEndPerFamily, InFlight, f
  <2>4. QED
    BY <2>1, <2>2, <2>3 DEF OneEndPerFamily
<1>13. BurnEnds'
  <2> SUFFICES ASSUME NEW g \in burned \ racing
               PROVE  g \notin InFlight' /\ \A u \in FamilyOf(g)' : ~Live(u)'
    BY <1>1 DEF BurnEnds
  <2>1. g # f
    BY <1>2 DEF Inv, BurnEnds, FamilyOf
  <2>2. g \notin InFlight'
    BY <1>8, <2>1 DEF Inv, BurnEnds
  <2>3. \A u \in FamilyOf(g)' : ~Live(u)'
    BY <1>3, <1>4, <1>11 DEF Inv, BurnEnds, FamilyOf
  <2>4. QED
    BY <2>2, <2>3
<1>14. QED
  BY <1>6, <1>7, <1>12, <1>13 DEF Inv

\* The successor is the only end of its family, which has no other since the claim.
LEMMA CreateRefreshInv ==
    ASSUME Inv, NEW c \in Call, CreateRefresh(c)
    PROVE  Inv'
<1> DEFINE new == Len(tokens) + 1
           f == IF call[c].family = 0 THEN new ELSE call[c].family
           row == [family |-> f, revoked |-> FALSE, held |-> FALSE]
<1>1. /\ pc[c] = "insert"
      /\ tokens' = Append(tokens, row)
      /\ call' = [call EXCEPT ![c] = [call[c] EXCEPT !.new = new]]
      /\ pc' = [pc EXCEPT ![c] = "respond"]
      /\ UNCHANGED <<actions, password, burned, racing, spent>>
  BY DEF CreateRefresh, Goto, Set, history
<1>2. tokens \in Seq(TokenRow) /\ Len(tokens) \in Nat /\ Len(actions) \in Nat
  BY LenProperties DEF Inv, TypeOK
<1>3. pc \in [Call -> Steps] /\ call \in [Call -> CallRow]
  BY DEF Inv, TypeOK
<1>4. call[c].family \in 0..Len(tokens) /\ new \in Nat /\ f \in 1..new
  BY <1>2, <1>3 DEF CallRow
<1>5. /\ tokens' \in Seq(TokenRow)
      /\ Len(tokens') = new
      /\ \A u \in Token : tokens'[u] = tokens[u]
      /\ tokens'[new] = row
  BY <1>1, <1>2, <1>4, AppendProperties DEF TokenRow, Token
<1>6. Token' = Token \cup {new} /\ new \notin Token
  BY <1>2, <1>5 DEF Token
<1>7. tokens'[new].family = f /\ tokens'[new].revoked = FALSE
  <2>1. row.family = f /\ row.revoked = FALSE
    OBVIOUS
  <2> HIDE DEF row
  <2>2. QED
    BY <1>5, <2>1
<1>8. CallRow \subseteq CallRow' /\ Families \subseteq Families'
  <2>1. CallRow \subseteq CallRow'
    BY <1>1, <1>2, <1>5 DEF CallRow
  <2>2. Families \subseteq Families'
    BY <1>5, <1>6 DEF Families
  <2>3. QED
    BY <2>1, <2>2
<1>9. call' \in [Call -> CallRow']
  <2>1. \A x \in CallRow : [x EXCEPT !.new = new] \in CallRow'
    BY <1>1, <1>2, <1>4, <1>5 DEF CallRow
  <2>2. QED
    BY <1>1, <1>3, <1>8, <2>1
<1>10. \A d \in Call : /\ call'[d].op = call[d].op
                       /\ call'[d].token = call[d].token
                       /\ call'[d].family = call[d].family
                       /\ call'[d].action = call[d].action
                       /\ d # c => call'[d].new = call[d].new
  BY <1>1, <1>3 DEF CallRow
<1>11. call'[c].new = new
  BY <1>1, <1>3 DEF CallRow
<1> HIDE DEF new, f, row
<1>12. TypeOK'
  <2>1. \A u \in Token' : tokens'[u].family \in Token'
    BY <1>4, <1>5, <1>6, <1>7 DEF Inv, TypeOK, Token
  <2>2. pc' \in [Call -> Steps]
    BY <1>1, <1>3 DEF Steps
  <2>3. \A d \in Call : Idle(d)' <=> call'[d].op = "none"
    BY <1>1, <1>3, <1>10 DEF Inv, TypeOK, Idle
  <2>4. QED
    BY <1>1, <1>5, <1>8, <1>9, <2>1, <2>2, <2>3 DEF Inv, TypeOK
<1>13. CallFacts'
  <2> SUFFICES ASSUME NEW d \in Call
               PROVE  CallFacts!(d)'
    BY DEF CallFacts
  <2>1. CASE d = c
    BY <1>1, <1>3, <1>6, <1>11, <2>1
  <2>2. CASE d # c
    <3>1. pc'[d] = pc[d] /\ actions' = actions
      BY <1>1, <1>3, <2>2
    <3>2. /\ call'[d].op = call[d].op
          /\ call'[d].token = call[d].token
          /\ call'[d].family = call[d].family
          /\ call'[d].action = call[d].action
          /\ call'[d].new = call[d].new
      BY <1>10, <2>2
    <3>3. CallFacts!(d)
      BY DEF Inv, CallFacts
    <3>4. QED
      BY <1>5, <1>6, <3>1, <3>2, <3>3
  <2>3. QED
    BY <2>1, <2>2
<1>14. InFlight' = {call[d].family : d \in {e \in Call : pc[e] = "insert" /\ e # c}}
  BY <1>1, <1>3, <1>10 DEF InFlight
<1>15. f \notin InFlight'
  <2>1. CASE call[c].family = 0
    <3>1. f \notin 0..Len(tokens)
      BY <1>2, <2>1 DEF f, new
    <3>2. \A d \in Call : call[d].family \in 0..Len(tokens)
      BY <1>3 DEF CallRow
    <3>3. QED
      BY <1>14, <3>1, <3>2
  <2>2. CASE call[c].family # 0
    BY <1>1, <1>14, <2>2 DEF Inv, OneEndPerFamily, f
  <2>3. QED
    BY <2>1, <2>2
<1>16. \A u \in Token : Live(u) => tokens[u].family # f
  <2>1. CASE call[c].family = 0
    BY <1>2, <2>1 DEF f, new, Inv, TypeOK, Token
  <2>2. CASE call[c].family # 0
    BY <1>1, <2>2 DEF Inv, OneEndPerFamily, InFlight, f
  <2>3. QED
    BY <2>1, <2>2
<1>17. \A u \in Token : Live(u)' <=> Live(u)
  BY <1>5 DEF Live
<1>18. OneEndPerFamily'
  <2>1. \A u, v \in Token' :
           Live(u)' /\ Live(v)' /\ tokens'[u].family = tokens'[v].family => u = v
    BY <1>5, <1>6, <1>7, <1>16, <1>17 DEF Inv, OneEndPerFamily, Live
  <2>2. \A u \in Token : Live(u)' => tokens'[u].family \notin InFlight'
    <3>1. \A g \in InFlight' : g \in InFlight
      BY <1>14 DEF InFlight
    <3>2. QED
      BY <1>5, <1>17, <3>1 DEF Inv, OneEndPerFamily
  <2>3. \A d, e \in Call : /\ pc'[d] = "insert" /\ pc'[e] = "insert"
                           /\ call'[d].family = call'[e].family /\ call'[d].family # 0
                           => d = e
    BY <1>1, <1>3, <1>10 DEF Inv, OneEndPerFamily
  <2>4. QED
    BY <1>6, <1>7, <1>15, <2>1, <2>2, <2>3 DEF OneEndPerFamily, Live
<1>19. BurnEnds'
  <2> SUFFICES ASSUME NEW g \in burned \ racing
               PROVE  g \notin InFlight' /\ \A u \in FamilyOf(g)' : ~Live(u)'
    BY <1>1 DEF BurnEnds
  <2>1. g \notin InFlight'
    BY <1>14 DEF Inv, BurnEnds, InFlight
  <2>2. g # f
    <3>1. g \in Token
      BY DEF Inv, TypeOK, Families
    <3>2. CASE call[c].family = 0
      BY <1>6, <3>1, <3>2 DEF f
    <3>3. CASE call[c].family # 0
      BY <1>1, <3>3 DEF Inv, BurnEnds, InFlight, f
    <3>4. QED
      BY <3>2, <3>3
  <2>3. \A u \in FamilyOf(g)' : ~Live(u)'
    BY <1>5, <1>6, <1>7, <1>17, <2>2 DEF Inv, BurnEnds, FamilyOf
  <2>4. QED
    BY <2>1, <2>3
<1>20. QED
  BY <1>12, <1>13, <1>18, <1>19 DEF Inv

-----------------------------------------------------------------------------
(* The other steps                                                          *)

\* What every other step does to the rows: tokens are at most revoked, and no
\* reset token is lost.
RowsKept ==
    /\ tokens' \in Seq(TokenRow)
    /\ Len(tokens') = Len(tokens)
    /\ \A t \in Token : /\ tokens'[t].family = tokens[t].family
                        /\ tokens[t].revoked => tokens'[t].revoked
    /\ actions' \in Seq(ActionRow)
    /\ Len(actions) <= Len(actions')
    /\ password' \in Password \cup {None}
    /\ burned' \subseteq Families /\ racing' \subseteq burned'
    /\ spent' \subseteq 1..Len(actions')

\* Requests and tokens named before are there after such a step.
LEMMA KeptRows ==
    ASSUME Inv, RowsKept
    PROVE  /\ Token' = Token /\ Families' = Families
           /\ CallRow \subseteq CallRow'
           /\ 1..Len(actions) \subseteq 1..Len(actions')
           /\ \A t \in Token' : tokens'[t].family \in Token'
<1>1. Token' = Token /\ Families' = Families
  BY DEF RowsKept, Token, Families
<1>2. Len(actions) \in Nat /\ Len(actions') \in Nat
  BY LenProperties DEF Inv, TypeOK, RowsKept
<1>3. CallRow \subseteq CallRow' /\ 1..Len(actions) \subseteq 1..Len(actions')
  BY <1>2 DEF RowsKept, CallRow
<1>4. QED
  BY <1>1, <1>3 DEF Inv, TypeOK, RowsKept

\* A step that ends its request.
LEMMA StopInv ==
    ASSUME Inv, NEW c \in Call, RowsKept, Finish(c)
    PROVE  TypeOK' /\ CallFacts' /\ NoNewEnd
<1>1. pc' = [pc EXCEPT ![c] = "idle"] /\ call' = [call EXCEPT ![c] = NoCall]
  BY DEF Finish, Goto, Set
<1>2. pc \in [Call -> Steps] /\ call \in [Call -> CallRow]
  BY DEF Inv, TypeOK
<1>3. NoCall \in CallRow /\ NoCall.op = "none"
  BY NoCallTyped DEF Inv, NoCall
<1>4. TypeOK'
  <2>1. pc' \in [Call -> Steps] /\ call' \in [Call -> CallRow']
    BY <1>1, <1>2, <1>3, KeptRows DEF Steps
  <2>2. \A d \in Call : Idle(d)' <=> call'[d].op = "none"
    BY <1>1, <1>2, <1>3 DEF Inv, TypeOK, Idle
  <2>3. QED
    BY <2>1, <2>2, KeptRows DEF TypeOK, RowsKept
<1>5. CallFacts'
  <2> SUFFICES ASSUME NEW d \in Call
               PROVE  CallFacts!(d)'
    BY DEF CallFacts
  <2>1. CASE d = c
    BY <1>1, <1>2, <2>1
  <2>2. CASE d # c
    BY <1>1, <1>2, <2>2, KeptRows DEF Inv, CallFacts, RowsKept
  <2>3. QED
    BY <2>1, <2>2
<1>6. NoNewEnd
  BY <1>1, <1>2 DEF NoNewEnd, RowsKept
<1>7. QED
  BY <1>4, <1>5, <1>6

\* A step its request goes on from, but not to issue a token of a family that
\* exists, nor to hand one out.
LEMMA GoOnInv ==
    ASSUME Inv, NEW c \in Call, ~Idle(c), RowsKept,
           NEW step \in Steps \ {"idle", "respond"},
           Goto(c, step), UNCHANGED call,
           step \in {"renew", "link", "insert"} => call[c].family = 0,
           step \in {"claim", "burn"} => pc[c] \in {"claim", "burn"},
           step = "write" => pc[c] = "write",
           step = "use" => pc[c] = "write" /\ call[c].op = "reset"
    PROVE  TypeOK' /\ CallFacts' /\ NoNewEnd
<1>1. pc' = [pc EXCEPT ![c] = step] /\ call' = call
  BY DEF Goto
<1>2. pc \in [Call -> Steps] /\ call \in [Call -> CallRow]
  BY DEF Inv, TypeOK
<1>3. TypeOK'
  <2>1. pc' \in [Call -> Steps] /\ call' \in [Call -> CallRow']
    BY <1>1, <1>2, KeptRows
  <2>2. \A d \in Call : Idle(d)' <=> call'[d].op = "none"
    BY <1>1, <1>2 DEF Inv, TypeOK, Idle
  <2>3. QED
    BY <2>1, <2>2, KeptRows DEF TypeOK, RowsKept
<1>4. CallFacts'
  <2> SUFFICES ASSUME NEW d \in Call
               PROVE  CallFacts!(d)'
    BY DEF CallFacts
  <2>1. CASE d = c
    BY <1>1, <1>2, <2>1, KeptRows DEF Inv, CallFacts, RowsKept
  <2>2. CASE d # c
    BY <1>1, <1>2, <2>2, KeptRows DEF Inv, CallFacts, RowsKept
  <2>3. QED
    BY <2>1, <2>2
<1>5. NoNewEnd
  BY <1>1, <1>2 DEF NoNewEnd, RowsKept
<1>6. QED
  BY <1>3, <1>4, <1>5

\* Families revoked as a whole have no end left, but for those being issued.
LEMMA BurnedEnds ==
    ASSUME Inv, NoNewEnd, NEW fs \in SUBSET Families, Burned(fs),
           \A t \in Token : tokens[t].family \in fs => tokens'[t].revoked
    PROVE  BurnEnds'
<1> SUFFICES ASSUME NEW f \in burned' \ racing'
             PROVE  f \notin InFlight' /\ \A t \in FamilyOf(f)' : ~Live(t)'
  BY DEF BurnEnds
<1>1. Token' = Token
  BY DEF NoNewEnd, Token
<1>2. f # 0
  <2>1. 0 \notin Families
    BY DEF Inv, TypeOK, Families, Token
  <2>2. f \in burned \cup fs /\ burned \subseteq Families
    BY DEF Inv, TypeOK, Burned
  <2>3. QED
    BY <2>1, <2>2
<1>3. FamilyOf(f)' = FamilyOf(f)
  BY <1>1 DEF FamilyOf, NoNewEnd
<1>4. CASE f \in fs
  <2>1. f \notin InFlight
    BY <1>4 DEF Burned
  <2>2. f \notin InFlight'
    BY <1>2, <2>1 DEF InFlight, NoNewEnd
  <2>3. \A t \in FamilyOf(f) : ~Live(t)'
    BY <1>4 DEF FamilyOf, Live
  <2>4. QED
    BY <1>3, <2>2, <2>3
<1>5. CASE f \notin fs
  <2>1. f \in burned \ racing
    BY <1>5 DEF Burned
  <2>2. f \notin InFlight'
    BY <1>2, <2>1 DEF Inv, BurnEnds, InFlight, NoNewEnd
  <2>3. \A t \in FamilyOf(f) : ~Live(t)'
    BY <2>1 DEF Inv, BurnEnds, NoNewEnd, Live, FamilyOf
  <2>4. QED
    BY <1>3, <2>2, <2>3
<1>6. QED
  BY <1>4, <1>5

\* Every step of a request keeps the invariant.
LEMMA StepInv ==
    ASSUME Inv, NEW c \in Call, Step(c)
    PROVE  Inv'
<1> USE DEF history
<1>1. /\ tokens \in Seq(TokenRow) /\ actions \in Seq(ActionRow)
      /\ Len(actions) \in Nat
      /\ password \in Password \cup {None}
      /\ burned \subseteq Families /\ racing \subseteq burned
      /\ spent \subseteq 1..Len(actions)
      /\ pc \in [Call -> Steps] /\ call \in [Call -> CallRow]
      /\ call[c].password \in Password \cup {None}
      /\ call[c].action \in 0..Len(actions)
  BY LenProperties DEF Inv, TypeOK, CallRow
<1>2. CASE Claim(c)
  <2>1. CASE Live(call[c].token)
    BY <1>2, <2>1, ClaimInv
  <2>2. CASE ~Live(call[c].token)
    <3>1. pc[c] = "claim" /\ Goto(c, "burn")
          /\ UNCHANGED <<tokens, actions, password, call, burned, racing, spent>>
      BY <1>2, <2>2 DEF Claim
    <3>2. RowsKept
      BY <1>1, <3>1 DEF RowsKept
    <3>3. TypeOK' /\ CallFacts' /\ NoNewEnd
      BY <1>1, <3>1, <3>2, GoOnInv DEF Steps, Idle
    <3>4. QED
      BY <3>1, <3>3, QuietOneEnd, QuietBurn DEF Inv
  <2>3. QED
    BY <2>1, <2>2
<1>3. CASE Burn(c)
  <2> DEFINE f == call[c].family
  <2>1. pc[c] = "burn" /\ Finish(c) /\ UNCHANGED <<actions, password, spent>>
    BY <1>3 DEF Burn
  <2>2. f \in Families
    BY <2>1 DEF Inv, CallFacts, Families
  <2>3. CASE UNCHANGED <<tokens, burned, racing>>
    <3>1. RowsKept
      BY <1>1, <2>1, <2>3 DEF RowsKept
    <3>2. TypeOK' /\ CallFacts' /\ NoNewEnd
      BY <2>1, <3>1, StopInv
    <3>3. QED
      BY <2>3, <3>2, QuietOneEnd, QuietBurn DEF Inv
  <2>4. CASE Revoke(FamilyOf(f)) /\ Burned({f})
    <3>1. burned' \subseteq Families /\ racing' \subseteq burned'
      BY <1>1, <2>2, <2>4 DEF Burned
    <3>2. RowsKept
      BY <1>1, <2>1, <2>4, <3>1, RevokeRows DEF RowsKept
    <3>3. TypeOK' /\ CallFacts' /\ NoNewEnd
      BY <2>1, <3>2, StopInv
    <3>4. \A t \in Token : tokens[t].family \in {f} => tokens'[t].revoked
      BY <1>1, <2>4, RevokeRows DEF FamilyOf
    <3>5. BurnEnds'
      BY <2>2, <2>4, <3>3, <3>4, BurnedEnds
    <3>6. QED
      BY <3>3, <3>5, QuietOneEnd DEF Inv
  <2>5. QED
    BY <1>3, <2>3, <2>4 DEF Burn
<1>4. CASE CreateRefresh(c)
  BY <1>4, CreateRefreshInv
<1>5. CASE Respond(c)
  <2>1. /\ call[c].new \in Token
        /\ tokens' = [tokens EXCEPT ![call[c].new].held = TRUE]
        /\ Finish(c)
        /\ UNCHANGED <<actions, password, burned, racing, spent>>
    BY <1>5 DEF Respond, Inv, CallFacts
  <2>2. RowsKept
    <3> DEFINE n == call[c].new
    <3>1. n \in Token /\ tokens' = [tokens EXCEPT ![n].held = TRUE]
      BY <2>1
    <3> HIDE DEF n
    <3>2. /\ tokens' \in Seq(TokenRow)
          /\ Len(tokens') = Len(tokens)
          /\ \A t \in Token : /\ tokens'[t].family = tokens[t].family
                              /\ tokens[t].revoked = tokens'[t].revoked
      BY <1>1, <3>1, RespondRows
    <3>3. QED
      BY <1>1, <2>1, <3>2 DEF RowsKept
  <2>3. TypeOK' /\ CallFacts' /\ NoNewEnd
    BY <2>1, <2>2, StopInv
  <2>4. QED
    BY <2>1, <2>3, QuietOneEnd, QuietBurn DEF Inv
<1>6. CASE InvalidateActions(c)
  <2> DEFINE gone(a) == [actions[a] EXCEPT !.deleted = @ \/ ~actions[a].used]
  <2>1. /\ pc[c] = "invalidate" /\ Goto(c, "mint")
        /\ UNCHANGED <<tokens, password, call, burned, racing, spent>>
        /\ actions' = [a \in 1..Len(actions) |-> gone(a)] \/ actions' = actions
    BY <1>6 DEF InvalidateActions
  <2>2. \A a \in 1..Len(actions) : gone(a) \in ActionRow
    <3>1. \A x \in ActionRow : [x EXCEPT !.deleted = @ \/ ~x.used] \in ActionRow
      BY DEF ActionRow
    <3>2. \A a \in 1..Len(actions) : actions[a] \in ActionRow
      BY <1>1, ElementOfSeq
    <3>3. QED
      BY <3>1, <3>2
  <2>3. actions' \in Seq(ActionRow) /\ Len(actions') = Len(actions)
    <3>1. CASE actions' = [a \in 1..Len(actions) |-> gone(a)]
      <4>1. actions' \in [1..Len(actions) -> ActionRow]
        BY <2>2, <3>1
      <4>2. actions' \in Seq(ActionRow)
        BY <1>1, <4>1, SeqDef
      <4>3. QED
        BY <1>1, <4>1, <4>2, LenProperties
    <3>2. CASE actions' = actions
      BY <1>1, <3>2
    <3>3. QED
      BY <2>1, <3>1, <3>2
  <2>4. RowsKept
    BY <1>1, <2>1, <2>3 DEF RowsKept
  <2>5. TypeOK' /\ CallFacts' /\ NoNewEnd
    BY <1>1, <2>1, <2>4, GoOnInv DEF Steps, Idle
  <2>6. QED
    BY <2>1, <2>5, QuietOneEnd, QuietBurn DEF Inv
<1>7. CASE CreateAction(c)
  <2>1. /\ actions' = Append(actions, [used |-> FALSE, deleted |-> FALSE])
        /\ Finish(c)
        /\ UNCHANGED <<tokens, password, burned, racing, spent>>
    BY <1>7 DEF CreateAction
  <2>2. actions' \in Seq(ActionRow) /\ Len(actions') = Len(actions) + 1
    BY <1>1, <2>1, AppendProperties DEF ActionRow
  <2>3. RowsKept
    BY <1>1, <2>1, <2>2 DEF RowsKept
  <2>4. TypeOK' /\ CallFacts' /\ NoNewEnd
    BY <2>1, <2>3, StopInv
  <2>5. QED
    BY <2>1, <2>4, QuietOneEnd, QuietBurn DEF Inv
<1>8. CASE UpdateUser(c)
  <2>1. /\ pc[c] = "write"
        /\ password' = call[c].password
        /\ spent' = spent \cup ({call[c].action} \ {0})
        /\ UNCHANGED <<tokens, actions, burned, racing>>
    BY <1>8 DEF UpdateUser
  <2>2. spent' \subseteq 1..Len(actions)
    <3>1. \A n \in 0..Len(actions) : {n} \ {0} \subseteq 1..Len(actions)
      BY <1>1
    <3>2. {call[c].action} \ {0} \subseteq 1..Len(actions)
      BY <1>1, <3>1
    <3>3. QED
      BY <1>1, <2>1, <3>2
  <2>3. RowsKept
    BY <1>1, <2>1, <2>2 DEF RowsKept
  <2>4. TypeOK' /\ CallFacts' /\ NoNewEnd
    <3>1. CASE Finish(c)
      BY <2>3, <3>1, StopInv
    <3>2. CASE Goto(c, "use") /\ call[c].op = "reset" /\ UNCHANGED call
      BY <1>1, <2>1, <2>3, <3>2, GoOnInv DEF Steps, Idle
    <3>3. CASE Goto(c, "revokeAll") /\ UNCHANGED call
      BY <1>1, <2>1, <2>3, <3>3, GoOnInv DEF Steps, Idle
    <3>4. QED
      BY <1>8, <3>1, <3>2, <3>3 DEF UpdateUser
  <2>5. QED
    BY <2>1, <2>4, QuietOneEnd, QuietBurn DEF Inv
<1>9. CASE MarkActionUsed(c)
  <2>1. /\ pc[c] = "use" /\ Goto(c, "revokeAll")
        /\ actions' = [actions EXCEPT ![call[c].action].used = TRUE] \/ actions' = actions
        /\ spent' \subseteq spent
        /\ UNCHANGED <<tokens, password, call, burned, racing>>
    BY <1>9 DEF MarkActionUsed
  <2>2. actions' \in Seq(ActionRow) /\ Len(actions') = Len(actions)
    <3>1. CASE actions' = [actions EXCEPT ![call[c].action].used = TRUE]
      <4>1. actions \in [1..Len(actions) -> ActionRow]
        BY <1>1, LenProperties
      <4>2. actions' \in [1..Len(actions) -> ActionRow]
        BY <3>1, <4>1 DEF ActionRow
      <4>3. actions' \in Seq(ActionRow)
        BY <1>1, <4>2, SeqDef
      <4>4. QED
        BY <1>1, <4>2, <4>3, LenProperties
    <3>2. CASE actions' = actions
      BY <1>1, <3>2
    <3>3. QED
      BY <2>1, <3>1, <3>2
  <2>3. RowsKept
    BY <1>1, <2>1, <2>2 DEF RowsKept
  <2>4. TypeOK' /\ CallFacts' /\ NoNewEnd
    BY <1>1, <2>1, <2>3, GoOnInv DEF Steps, Idle
  <2>5. QED
    BY <2>1, <2>4, QuietOneEnd, QuietBurn DEF Inv
<1>10. CASE RevokeAllForUser(c)
  <2>1. pc[c] = "revokeAll" /\ Revoke(Token) /\ Burned(Families)
        /\ UNCHANGED <<actions, password, spent>>
    BY <1>10 DEF RevokeAllForUser
  <2>2. burned' \subseteq Families /\ racing' \subseteq burned'
    BY <1>1, <2>1 DEF Burned
  <2>3. RowsKept
    BY <1>1, <2>1, <2>2, RevokeRows DEF RowsKept
  <2>4. TypeOK' /\ CallFacts' /\ NoNewEnd
    <3>1. CASE Finish(c)
      BY <2>3, <3>1, StopInv
    <3>2. CASE Goto(c, "erase") /\ UNCHANGED call
      BY <1>1, <2>1, <2>3, <3>2, GoOnInv DEF Steps, Idle
    <3>3. QED
      BY <1>10, <3>1, <3>2 DEF RevokeAllForUser
  <2>5. \A t \in Token : tokens'[t].revoked
    BY <1>1, <2>1, RevokeRows
  <2>6. BurnEnds'
    BY <2>1, <2>4, <2>5, BurnedEnds
  <2>7. QED
    BY <2>4, <2>6, QuietOneEnd DEF Inv
<1>11. CASE Erase(c) \/ Abandon(c)
  <2>1. /\ Finish(c)
        /\ password' \in {password, None}
        /\ spent' \subseteq spent
        /\ UNCHANGED <<tokens, actions, burned, racing>>
    BY <1>11 DEF Erase, Abandon
  <2>2. RowsKept
    BY <1>1, <2>1 DEF RowsKept
  <2>3. TypeOK' /\ CallFacts' /\ NoNewEnd
    BY <2>1, <2>2, StopInv
  <2>4. QED
    BY <2>1, <2>3, QuietOneEnd, QuietBurn DEF Inv
<1>12. CASE WriteIdentity(c)
  <2>1. PICK step \in {"link", "insert"} : Goto(c, step)
    BY <1>12 DEF WriteIdentity
  <2>2. /\ pc[c] \in {"renew", "link"}
        /\ password' \in Password \cup {None}
        /\ UNCHANGED <<tokens, actions, call, burned, racing, spent>>
    BY <1>1, <1>12 DEF WriteIdentity
  <2>3. RowsKept
    BY <1>1, <2>2 DEF RowsKept
  <2>4. call[c].family = 0
    BY <2>2 DEF Inv, CallFacts
  <2>5. TypeOK' /\ CallFacts' /\ NoNewEnd
    BY <1>1, <2>1, <2>2, <2>3, <2>4, GoOnInv DEF Steps, Idle
  <2>6. QED
    BY <2>2, <2>5, QuietOneEnd, QuietBurn DEF Inv
<1>13. QED
  BY <1>2, <1>3, <1>4, <1>5, <1>6, <1>7, <1>8, <1>9, <1>10, <1>11, <1>12 DEF Step

-----------------------------------------------------------------------------
(* The theorems                                                             *)

\* The invariant holds in every reachable state.
THEOREM InvHolds == Spec => []Inv
<1>1. Init => Inv
  <2> SUFFICES ASSUME Init
               PROVE  Inv
    OBVIOUS
  <2>1. tokens \in Seq(TokenRow) /\ Len(tokens) = 0 /\ Token = {}
        /\ actions \in Seq(ActionRow) /\ Len(actions) = 0
    BY EmptySeq DEF Init, Token
  <2>2. NoCall \in CallRow /\ NoCall.op = "none"
    BY <2>1 DEF NoCall, CallRow
  <2>3. TypeOK
    BY <2>1, <2>2, SessionsAssumption DEF Init, TypeOK, Steps, Idle, Families
  <2>4. CallFacts /\ OneEndPerFamily /\ BurnEnds
    BY <2>1 DEF Init, CallFacts, OneEndPerFamily, BurnEnds, InFlight
  <2>5. QED
    BY <2>3, <2>4 DEF Inv
<1>2. Inv /\ [Next]_vars => Inv'
  <2> SUFFICES ASSUME Inv, [Next]_vars
               PROVE  Inv'
    OBVIOUS
  <2>1. CASE Next
    BY <2>1, RequestInv, StepInv DEF Next
  <2>2. CASE UNCHANGED vars
    BY <2>2 DEF vars, Inv, TypeOK, CallFacts, OneEndPerFamily, BurnEnds, Token, Families,
                FamilyOf, Live, InFlight, CallRow, Idle
  <2>3. QED
    BY <2>1, <2>2
<1>3. QED
  BY <1>1, <1>2, PTL DEF Spec

\* Every row and request keeps its type, and a family is the number of a token.
THEOREM TypeCorrect == Spec => []TypeOK
<1>1. Inv => TypeOK
  BY DEF Inv
<1>2. QED
  BY <1>1, InvHolds, PTL

\* A rotation chain has one end, however many requests present its tokens: the
\* gate of RevokeRefresh (revoked_at IS NULL) is enough without a transaction.
THEOREM OneEnd == Spec => []OneEndPerFamily
<1>1. Inv => OneEndPerFamily
  BY DEF Inv
<1>2. QED
  BY <1>1, InvHolds, PTL

\* A family burned while none of its tokens was being issued stays burned.
THEOREM Burnt == Spec => []BurnIsFinal
<1>1. Inv => BurnIsFinal
  BY DEF Inv, BurnEnds, BurnIsFinal
<1>2. QED
  BY <1>1, InvHolds, PTL

-----------------------------------------------------------------------------
(* Reset tokens                                                             *)

\* A token that has set a password and is not used yet has a request about to mark
\* it; only a reset carries one.
Spending ==
    /\ \A a \in spent : Usable(a) => \E c \in Call : pc[c] = "use" /\ call[c].action = a
    /\ \A c \in Call : pc[c] = "write" /\ call[c].op # "reset" => call[c].action = 0

\* A step that spends nothing, makes no token usable again and stops no request
\* about to mark one keeps it.
LEMMA NothingSpent ==
    ASSUME Spending, spent' \subseteq spent,
           \A a \in spent' : Usable(a)' => Usable(a),
           \A c \in Call, a \in spent' : pc[c] = "use" /\ call[c].action = a =>
              ~Usable(a)' \/ (pc'[c] = "use" /\ call'[c].action = a),
           \A c \in Call : pc'[c] = "write" /\ call'[c].op # "reset" => call'[c].action = 0
    PROVE  Spending'
<1>1. ASSUME NEW a \in spent', Usable(a)'
      PROVE  \E c \in Call : pc'[c] = "use" /\ call'[c].action = a
  <2>1. PICK c \in Call : pc[c] = "use" /\ call[c].action = a
    BY <1>1 DEF Spending
  <2>2. pc'[c] = "use" /\ call'[c].action = a
    BY <1>1, <2>1
  <2>3. QED
    BY <2>2
<1>2. QED
  BY <1>1 DEF Spending

\* ... such as a request that begins.
LEMMA BeginSpends ==
    ASSUME TypeOK, Spending, NEW c \in Call, NEW op, NEW r \in CallRow, NEW step \in Steps \ {"use"},
           Begin(c, op, r, step), step = "write" /\ op # "reset" => r.action = 0
    PROVE  Spending'
<1> DEFINE s == [r EXCEPT !.op = op]
<1>1. s.op = op /\ s.action = r.action
  BY DEF CallRow
<1>2. /\ pc' = [pc EXCEPT ![c] = step] /\ call' = [call EXCEPT ![c] = s]
      /\ UNCHANGED <<actions, spent>> /\ pc[c] = "idle"
  BY DEF Begin, Goto, Set, history, Idle
<1>3. pc \in [Call -> Steps] /\ call \in [Call -> CallRow]
  BY DEF TypeOK
<1> HIDE DEF s
<1>4. \A d \in Call \ {c} : pc'[d] = pc[d] /\ call'[d] = call[d]
  BY <1>2, <1>3
<1>5. pc'[c] = step /\ call'[c] = s
  BY <1>2, <1>3
<1>6. \A a : Usable(a)' <=> Usable(a)
  BY <1>2 DEF Usable
<1>7. \A d \in Call : pc'[d] = "write" /\ call'[d].op # "reset" => call'[d].action = 0
  BY <1>1, <1>4, <1>5 DEF Spending
<1>8. QED
  BY <1>2, <1>4, <1>6, <1>7, NothingSpent

\* A new request has spent nothing.
LEMMA RequestSpends ==
    ASSUME Inv, Spending, NEW c \in Call, Request(c)
    PROVE  Spending'
<1>0. TypeOK /\ NoCall \in CallRow /\ NoCall.action = 0
  BY NoCallTyped DEF Inv, NoCall
<1>1. CASE (\E p \in Password : Login(c, p)) \/ ForgotPassword(c) \/ DeleteAccount(c)
  BY <1>0, <1>1, BeginSpends DEF Login, ForgotPassword, DeleteAccount, Steps
<1>2. ASSUME NEW t \in Token, Refresh(c, t)
      PROVE  Spending'
  <2> DEFINE r == [NoCall EXCEPT !.token = t, !.family = tokens[t].family]
  <2>1. tokens[t].family \in Token /\ Token \subseteq 0..Len(tokens)
    BY <1>0 DEF TypeOK, Token
  <2>2. r \in CallRow
    BY <1>0, <2>1 DEF CallRow
  <2>3. Begin(c, "refresh", r, IF Live(t) THEN "claim" ELSE "burn")
    BY <1>2 DEF Refresh
  <2> HIDE DEF r
  <2>4. QED
    BY <1>0, <2>2, <2>3, BeginSpends DEF Steps
<1>3. CASE \E t \in Token : Logout(c, t)
  BY <1>3 DEF Logout, history, Spending, Usable
<1>4. ASSUME NEW a \in 1..Len(actions), NEW p \in Password, ResetPassword(c, a, p)
      PROVE  Spending'
  <2> DEFINE r == [NoCall EXCEPT !.action = a, !.password = p]
  <2>1. Len(actions) \in Nat /\ a \in 0..Len(actions)
    BY <1>0, LenProperties DEF TypeOK
  <2>2. r \in CallRow
    BY <1>0, <2>1 DEF CallRow
  <2>3. Begin(c, "reset", r, "write")
    BY <1>4 DEF ResetPassword
  <2> HIDE DEF r
  <2>4. QED
    BY <1>0, <2>2, <2>3, BeginSpends DEF Steps
<1>5. ASSUME NEW op, NEW p \in Password \cup {None}, op # "reset",
             NEW step \in {"write", "renew", "link"},
             Begin(c, op, [NoCall EXCEPT !.password = p], step)
      PROVE  Spending'
  <2> DEFINE r == [NoCall EXCEPT !.password = p]
  <2>1. r \in CallRow /\ r.action = 0
    BY <1>0 DEF CallRow
  <2>2. Begin(c, op, r, step)
    BY <1>5
  <2> HIDE DEF r
  <2>3. QED
    BY <1>0, <1>5, <2>1, <2>2, BeginSpends DEF Steps
<1>6. CASE \E current, p \in Password : ChangePassword(c, current, p)
  BY <1>5, <1>6 DEF ChangePassword
<1>7. CASE UpdateProfile(c)
  BY <1>0, <1>5, <1>7 DEF UpdateProfile, TypeOK
<1>8. CASE SignInWithFirebase(c)
  <2>1. CASE Begin(c, "social", NoCall, "insert")
    BY <1>0, <2>1, BeginSpends DEF Steps
  <2>2. ASSUME NEW step \in {"renew", "link"},
               Begin(c, "social", [NoCall EXCEPT !.password = password], step)
        PROVE  Spending'
    BY <1>0, <1>5, <2>2 DEF TypeOK
  <2>3. QED
    BY <1>8, <2>1, <2>2 DEF SignInWithFirebase
<1>9. QED
  BY <1>1, <1>2, <1>3, <1>4, <1>6, <1>7, <1>8 DEF Request

\* What one step of a request does to the others, and to itself: it ends, or goes on
\* as it is, to a step that is not "write".
LEMMA StepMoves ==
    ASSUME TypeOK, NEW c \in Call, Step(c)
    PROVE  /\ \A d \in Call \ {c} : pc'[d] = pc[d] /\ call'[d] = call[d]
           /\ pc'[c] # "write"
           /\ pc'[c] = "use" => UpdateUser(c)
<1>1. pc \in [Call -> Steps] /\ call \in [Call -> CallRow]
  BY DEF TypeOK
<1>2. ASSUME NEW s, Goto(c, s)
      PROVE  pc'[c] = s /\ \A d \in Call \ {c} : pc'[d] = pc[d]
  BY <1>1, <1>2 DEF Goto
<1>3. ASSUME NEW r, Set(c, r)
      PROVE  \A d \in Call \ {c} : call'[d] = call[d]
  BY <1>1, <1>3 DEF Set
<1>4. Finish(c) => /\ \A d \in Call \ {c} : pc'[d] = pc[d] /\ call'[d] = call[d]
                   /\ pc'[c] = "idle"
  BY <1>2, <1>3 DEF Finish
<1>5. CASE Claim(c) \/ Burn(c) \/ CreateRefresh(c) \/ Respond(c)
  BY <1>2, <1>3, <1>4, <1>5 DEF Claim, Burn, CreateRefresh, Respond
<1>6. CASE InvalidateActions(c) \/ CreateAction(c) \/ UpdateUser(c)
  BY <1>2, <1>3, <1>4, <1>6 DEF InvalidateActions, CreateAction, UpdateUser
<1>7. CASE MarkActionUsed(c) \/ RevokeAllForUser(c) \/ Erase(c) \/ Abandon(c)
  BY <1>2, <1>3, <1>4, <1>7 DEF MarkActionUsed, RevokeAllForUser, Erase, Abandon
<1>8. CASE WriteIdentity(c)
  BY <1>2, <1>8 DEF WriteIdentity
<1>9. QED
  BY <1>5, <1>6, <1>7, <1>8 DEF Step

\* A step that spends a token goes on to mark it, and none makes a token usable again.
LEMMA StepSpends ==
    ASSUME Inv, Spending, NEW c \in Call, Step(c)
    PROVE  Spending'
<1>0. /\ TypeOK /\ actions \in Seq(ActionRow) /\ Len(actions) \in Nat
      /\ spent \subseteq 1..Len(actions)
      /\ \A a \in 1..Len(actions) : actions[a] \in ActionRow
  BY LenProperties, ElementOfSeq DEF Inv, TypeOK
<1>1. /\ \A d \in Call \ {c} : pc'[d] = pc[d] /\ call'[d] = call[d]
      /\ pc'[c] # "write"
  BY <1>0, StepMoves
<1>2. \A d \in Call : pc'[d] = "write" /\ call'[d].op # "reset" => call'[d].action = 0
  BY <1>1 DEF Spending
<1>3. ASSUME pc[c] # "use", spent' \subseteq spent, \A a \in spent : Usable(a)' => Usable(a)
      PROVE  Spending'
  BY <1>1, <1>2, <1>3, NothingSpent
<1>4. CASE UNCHANGED <<actions, spent>> /\ pc[c] # "use"
  BY <1>3, <1>4 DEF Usable
<1>5. CASE InvalidateActions(c)
  <2>1. /\ pc[c] # "use" /\ spent' = spent
        /\ \/ actions' = [a \in 1..Len(actions) |->
                            [actions[a] EXCEPT !.deleted = @ \/ ~actions[a].used]]
           \/ actions' = actions
    BY <1>5 DEF InvalidateActions, history
  <2>2. \A a \in spent : Usable(a)' => Usable(a)
    BY <1>0, <2>1 DEF Usable, ActionRow
  <2>3. QED
    BY <1>3, <2>1, <2>2
<1>6. CASE CreateAction(c)
  <2>1. pc[c] # "use" /\ spent' = spent /\ actions' = Append(actions, [used |-> FALSE, deleted |-> FALSE])
    BY <1>6 DEF CreateAction, history
  <2>2. \A a \in spent : actions'[a] = actions[a]
    BY <1>0, <2>1, AppendProperties DEF ActionRow
  <2>3. QED
    BY <1>3, <2>1, <2>2 DEF Usable
<1>7. CASE UpdateUser(c)
  <2>1. /\ pc[c] = "write" /\ actions' = actions
        /\ spent' = spent \cup ({call[c].action} \ {0})
    BY <1>7 DEF UpdateUser
  <2>2. CASE call[c].op # "reset"
    BY <1>3, <2>1, <2>2 DEF Spending, Usable
  <2>3. CASE call[c].op = "reset"
    <3>1. pc'[c] = "use" /\ call' = call
      BY <1>0, <1>7, <2>3 DEF UpdateUser, Goto, TypeOK
    <3>2. ASSUME NEW a \in spent', Usable(a)'
          PROVE  \E d \in Call : pc'[d] = "use" /\ call'[d].action = a
      <4>1. CASE a = call[c].action
        BY <3>1, <4>1
      <4>2. CASE a \in spent
        <5>1. PICK d \in Call : pc[d] = "use" /\ call[d].action = a
          BY <2>1, <3>2, <4>2 DEF Spending, Usable
        <5>2. d # c
          BY <2>1, <5>1
        <5>3. QED
          BY <1>1, <5>1, <5>2
      <4>3. QED
        BY <2>1, <4>1, <4>2
    <3>3. QED
      BY <1>2, <3>2 DEF Spending
  <2>4. QED
    BY <2>2, <2>3
<1>8. CASE MarkActionUsed(c)
  <2>1. /\ pc[c] = "use" /\ call[c].action \in 1..Len(actions)
        /\ \/ actions' = [actions EXCEPT ![call[c].action].used = TRUE] /\ spent' = spent
           \/ actions' = actions /\ spent' = spent \ {call[c].action}
    BY <1>8 DEF MarkActionUsed, Inv, CallFacts
  <2>2. \A b \in spent : Usable(b)' => Usable(b)
    BY <1>0, <2>1 DEF Usable, ActionRow
  <2>3. \A a \in spent' : call[c].action = a => ~Usable(a)'
    BY <1>0, <2>1 DEF Usable, ActionRow
  <2>4. spent' \subseteq spent
    BY <2>1
  <2>5. QED
    BY <1>1, <1>2, <2>2, <2>3, <2>4, NothingSpent
<1>9. CASE Abandon(c) /\ pc[c] = "use"
  <2>1. spent' = spent \ {call[c].action} /\ actions' = actions
    BY <1>9 DEF Abandon
  <2>2. QED
    BY <1>1, <1>2, <2>1, NothingSpent DEF Usable
<1>10. CASE Abandon(c) /\ pc[c] # "use"
  BY <1>4, <1>10 DEF Abandon
<1>11. CASE \/ WriteIdentity(c) \/ Claim(c) \/ Burn(c) \/ CreateRefresh(c) \/ Respond(c)
            \/ RevokeAllForUser(c) \/ Erase(c)
  BY <1>4, <1>11
     DEF WriteIdentity, Claim, Burn, CreateRefresh, Respond, RevokeAllForUser, Erase, history
<1>12. QED
  BY <1>5, <1>6, <1>7, <1>8, <1>9, <1>10, <1>11 DEF Step

\* A reset token that has set a password can set no other one once nothing is in
\* flight, unless marking it failed: every reset that wrote with it is about to
\* mark it, however many of them share it (ResetPassword, MarkActionUsed).
THEOREM SpentOnce == Spec => []SpentIsUsed
<1>1. Init => Spending
  BY DEF Init, Spending
<1>2. Inv /\ Spending /\ [Next]_vars => Spending'
  <2>1. Inv /\ Spending /\ Next => Spending'
    BY RequestSpends, StepSpends DEF Next
  <2>2. Spending /\ UNCHANGED vars => Spending'
    BY DEF Spending, vars, Usable
  <2>3. QED
    BY <2>1, <2>2
<1>3. Spending => SpentIsUsed
  BY DEF Spending, SpentIsUsed, Quiescent, Idle
<1>4. QED
  BY <1>1, <1>2, <1>3, InvHolds, PTL DEF Spec
=============================================================================
