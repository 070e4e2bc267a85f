-------------------------------- MODULE Links --------------------------------
(* Link previews: what people paste is normalised, the page is fetched through *)
(* a client that only dials public addresses, its tags are read by priority,   *)
(* and the card is cached, for less time when its picture is behind a signed   *)
(* address.  Requests for one link overlap, and time passes while they do.     *)
EXTENDS Backend, Naturals, SequencesExt

CONSTANTS
    Host,
    RawPage,        \* pages: [tags, title]
    Route,          \* ways to a page: sequences of [public, web], one per request
    Day,            \* cacheTTL, in ticks
    SignedTTL,      \* signedCacheTTL: three minutes
    Life,           \* how long a signed picture loads: five minutes
    LinkLimit       \* bound on requests started

ASSUME LinksAssumption == /\ SignedTTL \in Nat \ {0} /\ Life \in Nat /\ Day \in Nat
                          /\ LinkLimit \in Nat
                          /\ SignedTTL < Life /\ Life < Day
                          /\ RawPage \subseteq [tags : Seq([key : STRING, content : STRING]),
                                                title : STRING]

VARIABLES
    cards,      \* link:preview:<url> in Redis
    linkReq,    \* the requests in flight
    linkLeft    \* requests that may still start

linkVars == <<cards, linkReq, linkLeft>>

\* What was pasted; "" stands for no scheme.
Pasted == [scheme : {"", "http", "https", "ftp"}, host : Host \cup {None}, fragment : BOOLEAN]

Key == [scheme : {"http", "https"}, host : Host]

Picture == {"none", "plain", "signed"}

Says(page) == {page.title} \cup {page.tags[i].content : i \in 1..Len(page.tags)}

\* What a card may be titled: something a page says, or nothing.
Title == {""} \cup UNION {Says(page) : page \in RawPage}

Card == [title : Title, picture : Picture,
         age : 0..Life,         \* ticks since the page was read
         ttl : 0..Day,
         late : BOOLEAN]        \* stored too late for the time it is kept

LinkStates == [at : {"idle", "get", "fetch", "store"}, key : Key \cup {None}, card : Card \cup {None}]

NoLink == [at |-> "idle", key |-> None, card |-> None]

LinkTypeOK ==
    /\ cards \in [Key -> Card \cup {None}]
    /\ linkReq \in [Request -> LinkStates]
    /\ linkLeft \in 0..LinkLimit

LinkInit ==
    /\ cards = [k \in Key |-> None]
    /\ linkReq = [c \in Request |-> NoLink]
    /\ linkLeft = LinkLimit

-----------------------------------------------------------------------------
(* What is read from a page.                                                  *)

\* Nothing without a host, and only what a browser would open.
Normalise(p) ==
    IF p.host = None \/ p.scheme = "ftp" THEN None
    ELSE [scheme |-> IF p.scheme = "" THEN "https" ELSE p.scheme, host |-> p.host]

\* Every address is checked when it is dialled, and every redirect's scheme.
Reaches(route) == Len(route) <= 4 /\ \A i \in DOMAIN route : route[i].public /\ route[i].web

\* The first tag of a key that says something; "" when there is none.
Meta(tags, key) ==
    LET i == SelectInSeq(tags, LAMBDA t : t.key = key /\ t.content # "") IN
    IF i = 0 THEN "" ELSE tags[i].content

Pick(tags, keys) ==
    LET i == SelectInSeq(keys, LAMBDA k : Meta(tags, k) # "") IN
    IF i = 0 THEN "" ELSE Meta(tags, keys[i])

TitleOf(page) ==
    LET title == Pick(page.tags, <<"og:title", "twitter:title">>) IN
    IF title = "" THEN page.title ELSE title

\* An address that is not of the web is no picture, and hides the ones after it.
PictureOf(page) ==
    LET src == Pick(page.tags, <<"og:image", "og:image:url", "twitter:image">>) IN
    IF src \in {"plain", "signed"} THEN src ELSE "none"

\* Every card is kept for a day (PictureAlive).
TtlFor_Day(picture) == Day

TtlFor(picture) == IF picture = "signed" THEN SignedTTL ELSE Day

Scraped(page) == [title |-> TitleOf(page), picture |-> PictureOf(page),
                  age |-> 0, ttl |-> TtlFor(PictureOf(page)), late |-> FALSE]

\* The host alone: what a page that does not load is shown as, for a day too.
Bare == [title |-> "", picture |-> "none", age |-> 0, ttl |-> TtlFor("none"), late |-> FALSE]

-----------------------------------------------------------------------------
(* Preview.  Errors of Redis are ignored.                                     *)
LinkEnds(c) == linkReq' = [linkReq EXCEPT ![c] = NoLink]

Paste(c, p) ==
    /\ linkLeft > 0
    /\ linkLeft' = linkLeft - 1
    /\ linkReq[c].at = "idle"
    /\ linkReq' = IF Normalise(p) = None THEN linkReq
                  ELSE [linkReq EXCEPT ![c].at = "get", ![c].key = Normalise(p)]
    /\ UNCHANGED cards

GetCard(c) ==
    /\ linkReq[c].at = "get"
    /\ \/ cards[linkReq[c].key] # None /\ LinkEnds(c)
       \/ linkReq' = [linkReq EXCEPT ![c].at = "fetch"]
    /\ UNCHANGED <<cards, linkLeft>>

Fetch(c) ==
    /\ linkReq[c].at = "fetch"
    /\ \E page \in RawPage, route \in Route, html \in BOOLEAN :
          linkReq' = [linkReq EXCEPT ![c].at = "store",
                        ![c].card = IF html /\ Reaches(route) THEN Scraped(page) ELSE Bare]
    /\ UNCHANGED <<cards, linkLeft>>

StoreCard(c) ==
    LET card == linkReq[c].card IN
    /\ linkReq[c].at = "store"
    /\ \/ cards' = [cards EXCEPT ![linkReq[c].key] = [card EXCEPT !.late = card.age + SignedTTL > Life]]
       \/ UNCHANGED cards
    /\ LinkEnds(c)
    /\ UNCHANGED linkLeft

Older(card) == IF card = None THEN None
               ELSE [card EXCEPT !.age = IF @ = Life THEN Life ELSE @ + 1]

\* A tick passes; Redis drops what has expired.
Minute ==
    /\ cards' = [k \in Key |->
          IF cards[k] = None \/ cards[k].ttl = 1 THEN None
          ELSE [Older(cards[k]) EXCEPT !.ttl = @ - 1]]
    /\ linkReq' = [c \in Request |-> [linkReq[c] EXCEPT !.card = Older(@)]]
    /\ UNCHANGED linkLeft

LinkNext ==
    \/ Minute
    \/ \E c \in Request :
        \/ \E p \in Pasted : Paste(c, p)
        \/ GetCard(c) \/ Fetch(c) \/ StoreCard(c)

LinkSpec == LinkInit /\ [][LinkNext]_linkVars

-----------------------------------------------------------------------------
(* What the app may rely on.                                                  *)

\* No card is served with a picture that is gone ("caching that for a day means
\* every preview after the first renders with a dead image"), except when the
\* request that stored it took the rest of the picture's life to do so.
PictureAlive ==
    \A k \in Key : cards[k] # None /\ cards[k].picture = "signed" =>
        cards[k].age < Life \/ cards[k].late
=============================================================================
