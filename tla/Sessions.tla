------------------------------ MODULE Sessions ------------------------------
(***************************************************************************)
(* Refresh-token rotation, one-time reset tokens and the password of one   *)
(* account (auth/service and auth/repository).                             *)
(*                                                                         *)
(* Every statement of the auth repositories commits on its own; none of    *)
(* the service's methods opens a transaction.  One statement is one step.  *)
(* The only gate is RevokeRefresh, UPDATE ... WHERE revoked_at IS NULL.    *)
(*                                                                         *)
(* A client presents tokens it was given, any of them, as often as it      *)
(* likes: a retry after a lost response, two tabs refreshing at once.  An  *)
(* expired token is refused before anything is read or written, so a       *)
(* client that presents it no more stands for it here.                     *)
(***************************************************************************)
EXTENDS Naturals, Sequences, FiniteSets

CONSTANTS
    Call,         \* request goroutines
    Password,     \* passwords the account may have
    FirstPassword,
    Ops,          \* the requests of an instance
    TokenLimit,   \* no sign-in or refresh starts once this many rows exist (bound)
    ActionLimit,  \* no reset is asked for once this many were minted (bound)
    None

AllOps == {"login", "social", "refresh", "logout", "forgot", "reset", "change", "profile",
           "delete"}

ASSUME SessionsAssumption ==
    /\ FirstPassword \in Password
    /\ None \notin Password
    /\ Ops \subseteq AllOps
    /\ TokenLimit \in Nat /\ ActionLimit \in Nat

VARIABLES
    tokens,    \* refresh_tokens: family, revoked, held by a client
    actions,   \* action_tokens of purpose reset_password: used, deleted
    password,  \* users.password_hash, None once the account is scrubbed
    pc,        \* Call -> next statement
    call,      \* Call -> what the request carries and has read
    burned,    \* history: families revoked as a whole
    racing,    \* history: those of them whose next token was being issued just then
    spent      \* history: reset tokens that have set a password, but for those
               \* whose marking has failed since

vars == <<tokens, actions, password, pc, call, burned, racing, spent>>

history == <<burned, racing, spent>>

-----------------------------------------------------------------------------
(* Rows *)

Token == 1..Len(tokens)

Live(t) == ~tokens[t].revoked

FamilyOf(f) == {t \in Token : tokens[t].family = f}

Families == {tokens[t].family : t \in Token}

\* ActionToken.Usable and its row still there.
Usable(a) == ~actions[a].used /\ ~actions[a].deleted

Revoke(ts) ==
    tokens' = [t \in Token |-> IF t \in ts THEN [tokens[t] EXCEPT !.revoked = TRUE]
                               ELSE tokens[t]]

NoCall == [op |-> "none", token |-> 0, family |-> 0, action |-> 0, new |-> 0,
           password |-> None]

Idle(c) == pc[c] = "idle"

Quiescent == \A c \in Call : Idle(c)

\* Families whose next token is claimed for and not inserted yet.
InFlight == {call[c].family : c \in {d \in Call : pc[d] = "insert"}}

\* The families fs have just been revoked.
Burned(fs) ==
    /\ burned' = burned \cup fs
    /\ racing' = (racing \ fs) \cup (fs \cap InFlight)

-----------------------------------------------------------------------------
(* Types and the initial state *)

TokenRow == [family : Nat, revoked : BOOLEAN, held : BOOLEAN]

ActionRow == [used : BOOLEAN, deleted : BOOLEAN]

CallRow == [op : AllOps \cup {"none"}, token : 0..Len(tokens), family : 0..Len(tokens),
            action : 0..Len(actions), new : 0..Len(tokens), password : Password \cup {None}]

Steps == {"idle", "renew", "link", "claim", "burn", "insert", "respond", "invalidate",
          "mint", "write", "use", "revokeAll", "erase"}

TypeOK ==
    /\ tokens \in Seq(TokenRow)
    /\ \A t \in Token : tokens[t].family \in Token
    /\ actions \in Seq(ActionRow)
    /\ password \in Password \cup {None}
    /\ pc \in [Call -> Steps]
    /\ call \in [Call -> CallRow]
    /\ \A c \in Call : Idle(c) <=> call[c].op = "none"
    /\ burned \subseteq Families /\ racing \subseteq burned
    /\ spent \subseteq 1..Len(actions)

\* A registered account nobody is signed in to.
Init ==
    /\ tokens = <<>>
    /\ actions = <<>>
    /\ password = FirstPassword
    /\ pc = [c \in Call |-> "idle"]
    /\ call = [c \in Call |-> NoCall]
    /\ burned = {}
    /\ racing = {}
    /\ spent = {}

-----------------------------------------------------------------------------
(* Steps every request is made of *)

Goto(c, step) == pc' = [pc EXCEPT ![c] = step]

Set(c, r) == call' = [call EXCEPT ![c] = r]

Finish(c) == Goto(c, "idle") /\ Set(c, NoCall)

\* A request passes its first read and goes on with a step.
Begin(c, op, r, step) ==
    /\ op \in Ops
    /\ Idle(c)
    /\ Set(c, [r EXCEPT !.op = op])
    /\ Goto(c, step)
    /\ UNCHANGED <<tokens, actions, password, history>>

\* An error is returned, the client hangs up, or the process dies.
Abandon(c) ==
    /\ ~Idle(c)
    /\ spent' = IF pc[c] = "use" THEN spent \ {call[c].action} ELSE spent
    /\ Finish(c)
    /\ UNCHANGED <<tokens, actions, password, burned, racing>>

-----------------------------------------------------------------------------
(* Sign-in and rotation *)

Login(c, p) ==
    /\ Len(tokens) < TokenLimit
    /\ p = password
    /\ Begin(c, "login", NoCall, "insert")

\* The identity provider vouches for the account.  GetByFirebaseUID, or GetByEmail
\* for one that is linked then, reads the whole row ...
SignInWithFirebase(c) ==
    /\ Len(tokens) < TokenLimit
    /\ password # None
    /\ \/ Begin(c, "social", NoCall, "insert")
       \/ \E step \in {"renew", "link"} :
             Begin(c, "social", [NoCall EXCEPT !.password = password], step)

\* ... and writes it back, for a picture, a name or a handle (refreshFromIdentity,
\* its error is logged) and once more for the link.
WriteIdentity(c) ==
    /\ pc[c] \in {"renew", "link"}
    /\ \/ password # None /\ password' = call[c].password
       \/ pc[c] = "renew" /\ UNCHANGED password
    /\ \E step \in {"link", "insert"} : step # pc[c] /\ Goto(c, step)
    /\ UNCHANGED <<tokens, actions, call, history>>

\* GetRefreshByHash: a token already revoked is reuse.
Refresh(c, t) ==
    /\ tokens[t].held
    /\ Live(t) => Len(tokens) < TokenLimit
    /\ Begin(c, "refresh", [NoCall EXCEPT !.token = t, !.family = tokens[t].family],
             IF Live(t) THEN "claim" ELSE "burn")

\* UPDATE ... WHERE id = ? with no revoked_at IS NULL: every caller wins.
Claim_Ungated(c) ==
    /\ pc[c] = "claim"
    /\ password # None
    /\ Revoke({call[c].token})
    /\ Goto(c, "insert")
    /\ UNCHANGED <<actions, password, call, history>>

\* GetByID finds the account, then RevokeRefresh: whoever revokes the row issues
\* its successor, everyone else burns the family.
Claim(c) ==
    /\ pc[c] = "claim"
    /\ password # None
    /\ IF Live(call[c].token)
       THEN Revoke({call[c].token}) /\ Goto(c, "insert")
       ELSE UNCHANGED tokens /\ Goto(c, "burn")
    /\ UNCHANGED <<actions, password, call, history>>

\* RevokeFamily with the presented token's id for its family's.
Burn_TokenOnly(c) ==
    /\ pc[c] = "burn"
    /\ \/ Revoke({call[c].token}) /\ Burned({call[c].family})
       \/ UNCHANGED <<tokens, burned, racing>>
    /\ Finish(c)
    /\ UNCHANGED <<actions, password, spent>>

\* RevokeFamily, its error ignored, and a refusal.
Burn(c) ==
    /\ pc[c] = "burn"
    /\ \/ Revoke(FamilyOf(call[c].family)) /\ Burned({call[c].family})
       \/ UNCHANGED <<tokens, burned, racing>>
    /\ Finish(c)
    /\ UNCHANGED <<actions, password, spent>>

\* A sign-in that opens no family.
CreateRefresh_NilFamily(c) ==
    LET new == Len(tokens) + 1
    IN  /\ pc[c] = "insert"
        /\ tokens' = Append(tokens, [family |-> call[c].family, revoked |-> FALSE,
                                     held |-> FALSE])
        /\ Set(c, [call[c] EXCEPT !.new = new])
        /\ Goto(c, "respond")
        /\ UNCHANGED <<actions, password, history>>

\* CreateRefresh: a token of the family being rotated, or of a new one.
CreateRefresh(c) ==
    LET new == Len(tokens) + 1
        family == IF call[c].family = 0 THEN new ELSE call[c].family
    IN  /\ pc[c] = "insert"
        /\ tokens' = Append(tokens, [family |-> family, revoked |-> FALSE,
                                     held |-> FALSE])
        /\ Set(c, [call[c] EXCEPT !.new = new])
        /\ Goto(c, "respond")
        /\ UNCHANGED <<actions, password, history>>

\* The client gets the pair.  What LinkReplacement writes just before is an audit
\* trail nothing reads, and its failure is logged.
Respond(c) ==
    /\ pc[c] = "respond"
    /\ tokens' = [tokens EXCEPT ![call[c].new].held = TRUE]
    /\ Finish(c)
    /\ UNCHANGED <<actions, password, history>>

\* The row is found and revoked unless it was already.
Logout(c, t) ==
    /\ "logout" \in Ops
    /\ Idle(c)
    /\ tokens[t].held
    /\ Revoke({t})
    /\ UNCHANGED <<actions, password, pc, call, history>>

-----------------------------------------------------------------------------
(* Passwords *)

ForgotPassword(c) ==
    /\ password # None
    /\ Len(actions) < ActionLimit
    /\ Begin(c, "forgot", NoCall, "invalidate")

\* InvalidateActions deletes what was never used; its error is ignored.
InvalidateActions(c) ==
    /\ pc[c] = "invalidate"
    /\ \/ actions' = [a \in 1..Len(actions) |->
                        [actions[a] EXCEPT !.deleted = @ \/ ~actions[a].used]]
       \/ UNCHANGED actions
    /\ Goto(c, "mint")
    /\ UNCHANGED <<tokens, password, call, history>>

\* CreateAction, and the mail goes out.
CreateAction(c) ==
    /\ pc[c] = "mint"
    /\ actions' = Append(actions, [used |-> FALSE, deleted |-> FALSE])
    /\ Finish(c)
    /\ UNCHANGED <<tokens, password, history>>

\* GetActionByHash, Usable, GetByID.
ResetPassword(c, a, p) ==
    /\ Usable(a)
    /\ password # None
    /\ Begin(c, "reset", [NoCall EXCEPT !.action = a, !.password = p], "write")

ChangePassword(c, current, p) ==
    /\ current = password
    /\ Begin(c, "change", [NoCall EXCEPT !.password = p], "write")

\* UpdateProfile, VerifyEmail and a Join with a name or a picture read the whole
\* row ...
UpdateProfile(c) ==
    /\ password # None
    /\ Begin(c, "profile", [NoCall EXCEPT !.password = password], "write")

\* A reset that answers before it marks its token used.
UpdateUser_TokenKept(c) ==
    /\ pc[c] = "write"
    /\ password # None
    /\ password' = call[c].password
    /\ spent' = spent \cup ({call[c].action} \ {0})
    /\ IF call[c].op = "profile" THEN Finish(c)
       ELSE Goto(c, "revokeAll") /\ UNCHANGED call
    /\ UNCHANGED <<tokens, actions, burned, racing>>

\* ... and users.Update writes the whole row, password_hash included; no row is
\* touched once the account is gone.
UpdateUser(c) ==
    /\ pc[c] = "write"
    /\ password # None
    /\ password' = call[c].password
    /\ spent' = spent \cup ({call[c].action} \ {0})
    /\ IF call[c].op = "profile" THEN Finish(c)
       ELSE /\ Goto(c, IF call[c].op = "reset" THEN "use" ELSE "revokeAll")
            /\ UNCHANGED call
    /\ UNCHANGED <<tokens, actions, burned, racing>>

\* Its error is ignored.
MarkActionUsed(c) ==
    /\ pc[c] = "use"
    /\ \/ actions' = [actions EXCEPT ![call[c].action].used = TRUE] /\ UNCHANGED spent
       \/ UNCHANGED actions /\ spent' = spent \ {call[c].action}
    /\ Goto(c, "revokeAll")
    /\ UNCHANGED <<tokens, password, call, burned, racing>>

DeleteAccount(c) == Begin(c, "delete", NoCall, "revokeAll")

\* RevokeAllForUser ends every session there is.
RevokeAllForUser(c) ==
    /\ pc[c] = "revokeAll"
    /\ Revoke(Token)
    /\ Burned(Families)
    /\ IF call[c].op = "delete" THEN Goto(c, "erase") /\ UNCHANGED call ELSE Finish(c)
    /\ UNCHANGED <<actions, password, spent>>

\* AnonymizeAndDelete.
Erase(c) ==
    /\ pc[c] = "erase"
    /\ password' = None
    /\ Finish(c)
    /\ UNCHANGED <<tokens, actions, history>>

-----------------------------------------------------------------------------

Request(c) ==
    \/ \E p \in Password : Login(c, p)
    \/ SignInWithFirebase(c)
    \/ \E t \in Token : Refresh(c, t) \/ Logout(c, t)
    \/ ForgotPassword(c)
    \/ \E a \in 1..Len(actions), p \in Password : ResetPassword(c, a, p)
    \/ \E current, p \in Password : ChangePassword(c, current, p)
    \/ UpdateProfile(c)
    \/ DeleteAccount(c)

Step(c) ==
    \/ WriteIdentity(c) \/ Claim(c) \/ Burn(c) \/ CreateRefresh(c) \/ Respond(c)
    \/ InvalidateActions(c) \/ CreateAction(c)
    \/ UpdateUser(c) \/ MarkActionUsed(c) \/ RevokeAllForUser(c) \/ Erase(c)
    \/ Abandon(c)

Next == \E c \in Call : Request(c) \/ Step(c)

Spec == Init /\ [][Next]_vars

-----------------------------------------------------------------------------
(* Properties *)

\* A rotation chain has one end: however many requests present tokens of one
\* family at once, at most one of its tokens is live or about to be issued.
OneEndPerFamily ==
    /\ \A s, t \in Token : Live(s) /\ Live(t) /\ tokens[s].family = tokens[t].family => s = t
    /\ \A t \in Token : Live(t) => tokens[t].family \notin InFlight
    /\ \A c, d \in Call : /\ pc[c] = "insert" /\ pc[d] = "insert"
                         /\ call[c].family = call[d].family /\ call[c].family # 0
                         => c = d

\* A family revoked for reuse, by a password change, a reset or the deletion of
\* the account stays revoked, unless one of its tokens was being issued at that
\* very moment: nothing presented later brings it back.
BurnIsFinal == \A f \in burned \ racing : \A t \in FamilyOf(f) : ~Live(t)

\* A reset token that has set a password can set no other one: with nothing in
\* flight, and unless marking it failed, it is used or deleted.
SpentIsUsed == Quiescent => \A a \in spent : ~Usable(a)

\* Reusing a rotated-out token revokes the whole family (API.md, Auth model).
ReuseRevokesFamily == \A f \in burned : \A t \in FamilyOf(f) : ~Live(t)

\* UpdateProfile lets the authenticated user change their own name and avatar
\* (passwords.go), and nothing else.
ProfileLeavesPassword ==
    [][\A c \in Call : (UpdateUser(c) /\ call[c].op = "profile") => password' = password]_vars
=============================================================================
