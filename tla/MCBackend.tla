----------------------------- MODULE MCBackend -----------------------------
(* One instance of every part around the conversations.  The parts share no    *)
(* state, so a behaviour runs one of them and leaves the others as they began. *)
EXTENDS Push, Mailer, Accounts, Groups, Chaos, Links, Home

VARIABLE part

MCParts == {"push", "mail", "accounts", "groups", "chaos", "links", "home"}

Around(p) ==
    /\ part = p
    /\ UNCHANGED part
    /\ p # "push" => UNCHANGED pushVars
    /\ p # "mail" => UNCHANGED mailVars
    /\ p # "accounts" => UNCHANGED accVars
    /\ p # "groups" => UNCHANGED grpVars
    /\ p # "chaos" => UNCHANGED chaosVars
    /\ p # "links" => UNCHANGED linkVars
    /\ p # "home" => UNCHANGED homeVars

MCInit ==
    /\ part \in MCParts
    /\ PushInit /\ MailInit /\ AccInit /\ GroupInit /\ ChaosInit /\ LinkInit /\ HomeInit
    /\ part # "groups" => /\ folk = [p \in Person |-> "person"]
                          /\ groups = [g \in Group |-> NoGroup]
                          /\ filed = [k \in Chat |-> None]

MCNext ==
    \/ Around("push") /\ PushNext
    \/ Around("mail") /\ MailNext
    \/ Around("accounts") /\ AccNext
    \/ Around("groups") /\ GroupNext
    \/ Around("chaos") /\ ChaosNext
    \/ Around("links") /\ LinkNext
    \/ Around("home") /\ HomeNext

mcVars == <<part, pushVars, mailVars, accVars, grpVars, chaosVars, linkVars, homeVars>>

MCSpec == MCInit /\ [][MCNext]_mcVars /\ MailFair /\ ChaosFair

BackendTypes ==
    /\ PushTypeOK /\ MailTypeOK /\ AccTypeOK /\ GroupTypeOK
    /\ ChaosTypeOK /\ LinkTypeOK /\ HomeTypeOK

-----------------------------------------------------------------------------
(* Addresses; what the model and the web answer.                             *)
MCEmail == {"ann@x", "Ann@x", "ann@y"}
MCLower == [e \in MCEmail |-> IF e = "Ann@x" THEN "ann@x" ELSE e]

MCReply == [text |-> "ok", cards |-> <<>>, decision |-> None, decided |-> <<>>,
            open |-> <<>>, action |-> 0]
MCCard == {<<>>, <<6, 0>>, <<1, 2, 3, 4, 5>>}
MCNotes == {<<"", "a", "b", "", "c">>, <<"", "a", "b", "c", "d", "", "e", "f", "g">>}

MCRawReply ==
    {[MCReply EXCEPT !.cards = s] : s \in BoundedSeq(MCCard, 4)}
    \cup {[MCReply EXCEPT !.decision = [asks |-> q, options |-> n]] : q \in BOOLEAN, n \in 0..5}
    \cup {[MCReply EXCEPT !.decided = d, !.open = o] : d \in MCNotes, o \in MCNotes}
    \cup {[MCReply EXCEPT !.text = t, !.action = n] : t \in {"", "ok"}, n \in {40, 41}}

MCFact == [label : {"", "l"}, value : {"v"}, category : {"food", "other"}, confidence : {0, 50, 101}]
MCRawFacts ==
    {<<f>> : f \in MCFact}
    \cup {[i \in 1..n |-> IF i = 2 THEN [f EXCEPT !.value = ""] ELSE f] : n \in 8..10, f \in MCFact}
MCRawRefs == {<<>>, <<"t1">>, <<"x", "t2", "t1">>, <<"t1", "t1", "x", "t2">>}
MCRawName == {0, 1, 40, 41}

MCTag(k, v) == [key |-> k, content |-> v]
MCRawPage ==
    {[tags |-> t, title |-> "page"] : t \in
        {<<MCTag("twitter:title", "tw"), MCTag("og:title", ""), MCTag("og:image", "signed")>>,
         <<MCTag("twitter:image", "plain"), MCTag("og:title", "og"), MCTag("og:image", "mailto")>>,
         <<MCTag("og:image:url", "plain"), MCTag("og:title", "og"), MCTag("og:title", "again")>>}}
MCHop == [public |-> TRUE, web |-> TRUE]
MCRoute == {<<MCHop>>, <<MCHop, MCHop, MCHop, MCHop, MCHop>>,
            <<MCHop, [MCHop EXCEPT !.public = FALSE]>>, <<MCHop, [MCHop EXCEPT !.web = FALSE]>>}
=============================================================================
