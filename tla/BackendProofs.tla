---------------------------- MODULE BackendProofs ----------------------------
(***************************************************************************)
(* Links, Home and Chaos, and what the parts around a conversation are     *)
(* together.                                                               *)
(***************************************************************************)
EXTENDS MCBackend, DeliveryProofs, PeopleProofs, FiniteSetTheorems, WellFoundedInduction

-----------------------------------------------------------------------------
(***************************************************************************)
(* No picture outlives its address, for any hosts, pages, ways to them and *)
(* lifetimes, and any number of requests.                                  *)
(*                                                                         *)
(* The age of a card does not bound what is left of its picture: it may    *)
(* have been stored late.  What every tick keeps is the sum (Lasting): a   *)
(* signed card that was not stored late is never older than what the       *)
(* address lives less what Redis still keeps it for.                       *)
(***************************************************************************)
Pasting ==
    \A c \in Request :
        /\ linkReq[c].at # "idle" => linkReq[c].key \in Key
        /\ linkReq[c].at = "store" => /\ linkReq[c].card \in Card
                                      /\ linkReq[c].card.ttl = TtlFor(linkReq[c].card.picture)

Lasting ==
    \A k \in Key : cards[k] # None =>
        /\ cards[k].ttl >= 1
        /\ cards[k].picture = "signed" /\ ~cards[k].late => cards[k].age + cards[k].ttl <= Life

LinkInv == LinkTypeOK /\ Pasting /\ Lasting

-----------------------------------------------------------------------------
\* A set of numbers has a least one.
LEMMA NatHasLeast ==
    ASSUME NEW S \in SUBSET Nat, S # {}
    PROVE  \E x \in S : \A y \in S : x <= y
<1>1. PICK x \in S : \A y \in S : ~ (<<y, x>> \in OpToRel(<, Nat))
  BY NatLessThanWellFounded, WFMin, Zenon
<1>2. ASSUME NEW y \in S PROVE x <= y
  <2>1. ~ (<<y, x>> \in {ss \in Nat \X Nat : ss[1] < ss[2]})
    BY <1>1, Zenon DEF OpToRel
  <2>2. ~ (y < x)
    BY <2>1
  <2> QED
    BY <2>2
<1> QED
  BY <1>2

\* The least of some numbers is one of them.
LEMMA MinIsIn ==
    ASSUME NEW S \in SUBSET Nat, S # {}
    PROVE  Min(S) \in S
BY NatHasLeast DEF Min

\* A tag that is read is a tag of the page.
LEMMA MetaIsSaid ==
    ASSUME NEW page \in RawPage, NEW key
    PROVE  Meta(page.tags, key) \in Title
<1> DEFINE tags == page.tags
<1> DEFINE Suits(j) == tags[j].key = key /\ tags[j].content # ""
           I == {j \in 1..Len(tags) : Suits(j)}
           i == IF I # {} THEN Min(I) ELSE 0
<1>1. Len(tags) \in Nat
  BY LinksAssumption, LenProperties
<1>2. I \in SUBSET Nat
  <2> HIDE DEF Suits, tags
  <2> QED
    BY <1>1
<1>3. i = 0 \/ i \in 1..Len(tags)
  <2>1. CASE I = {}
    BY <2>1
  <2>2. CASE I # {}
    <3>1. Min(I) \in I
      <4> HIDE DEF I
      <4> QED
        BY <1>2, <2>2, MinIsIn
    <3> QED
      BY <3>1, <2>2
  <2> QED
    BY <2>1, <2>2
<1>4. Meta(tags, key) = IF i = 0 THEN "" ELSE tags[i].content
  BY DEF Meta, SelectInSeq
<1> HIDE DEF i
<1>5. "" \in Title /\ \A j \in 1..Len(tags) : tags[j].content \in Title
  <2>1. \A j \in 1..Len(tags) : tags[j].content \in Says(page)
    BY DEF Says
  <2> QED
    BY <2>1 DEF Title
<1> QED
  BY <1>3, <1>4, <1>5

\* What Pick finds is something the page said, or nothing.
LEMMA PickIsSaid ==
    ASSUME NEW page \in RawPage, NEW keys, Len(keys) \in Nat
    PROVE  Pick(page.tags, keys) \in Title
<1> DEFINE i == SelectInSeq(keys, LAMBDA k : Meta(page.tags, k) # "")
<1>1. CASE i = 0
  BY <1>1 DEF Pick, Title
<1>2. CASE i # 0
  BY <1>2, MetaIsSaid DEF Pick
<1> QED
  BY <1>1, <1>2

\* A page makes a card, to be kept as its picture allows.
LEMMA ScrapedIsCard ==
    ASSUME NEW page \in RawPage
    PROVE  /\ Scraped(page) \in Card
           /\ Scraped(page).ttl = TtlFor(Scraped(page).picture)
<1>1. TitleOf(page) \in Title
  <2>1. page.title \in Title
    <3>1. page.title \in Says(page)
      BY DEF Says
    <3> QED
      BY <3>1 DEF Title
  <2>2. Pick(page.tags, <<"og:title", "twitter:title">>) \in Title
    BY PickIsSaid
  <2> QED
    BY <2>1, <2>2 DEF TitleOf
<1>2. PictureOf(page) \in Picture
  BY DEF PictureOf, Picture
<1>3. TtlFor(PictureOf(page)) \in 0..Day
  BY LinksAssumption DEF TtlFor
<1> HIDE DEF TitleOf, PictureOf
<1> QED
  BY <1>1, <1>2, <1>3, LinksAssumption DEF Scraped, Card

\* So does a page nothing was found in.
LEMMA BareIsCard == Bare \in Card /\ Bare.ttl = TtlFor(Bare.picture)
BY LinksAssumption DEF Bare, Card, Picture, Title, TtlFor

\* A card that gets older stays a card, as long kept.
LEMMA OlderIsCard ==
    ASSUME NEW card \in Card \cup {None}
    PROVE  /\ Older(card) \in Card \cup {None}
           /\ card \in Card => /\ Older(card) \in Card
                               /\ Older(card).ttl = card.ttl
                               /\ Older(card).picture = card.picture
                               /\ Older(card).late = card.late
                               /\ card # None =>
                                    Older(card).age = (IF card.age = Life THEN Life ELSE card.age + 1)
<1>1. CASE card = None
  BY <1>1 DEF Older
<1>2. CASE card # None
  <2> DEFINE a == IF card.age = Life THEN Life ELSE card.age + 1
  <2>1. a \in 0..Life
    BY <1>2, LinksAssumption DEF Card
  <2>2. Older(card) = [card EXCEPT !.age = a]
    BY <1>2 DEF Older
  <2> HIDE DEF a
  <2>3. card \in Card
    BY <1>2
  <2>4. [card EXCEPT !.age = a] \in Card /\ [card EXCEPT !.age = a].age = a
    BY <2>1, <2>3 DEF Card
  <2>5. /\ [card EXCEPT !.age = a].ttl = card.ttl
        /\ [card EXCEPT !.age = a].picture = card.picture
        /\ [card EXCEPT !.age = a].late = card.late
    BY <2>3 DEF Card
  <2> QED
    BY <2>2, <2>4, <2>5 DEF a
<1> QED
  BY <1>1, <1>2

\* With an empty cache nothing is violated.
LEMMA LinkInitInv == LinkInit => LinkInv
<1> SUFFICES ASSUME LinkInit PROVE LinkInv
  OBVIOUS
<1>1. NoLink \in LinkStates /\ NoLink.at = "idle"
  BY DEF NoLink, LinkStates
<1>2. LinkTypeOK
  BY <1>1, LinksAssumption DEF LinkInit, LinkTypeOK
<1>3. Pasting
  BY <1>1 DEF LinkInit, Pasting
<1>4. Lasting
  BY DEF LinkInit, Lasting
<1> QED
  BY <1>2, <1>3, <1>4 DEF LinkInv

\* A new request holds no card,
LEMMA PasteStep ==
    ASSUME LinkInv, NEW c \in Request, NEW p \in Pasted, Paste(c, p)
    PROVE  LinkInv'
<1> USE DEF LinkInv
<1>1. CASE Normalise(p) = None
  BY <1>1, LinksAssumption DEF Paste, LinkTypeOK, Pasting, Lasting, TtlFor
<1>2. CASE Normalise(p) # None
  <2> DEFINE key == Normalise(p)
             r == [linkReq[c] EXCEPT !.at = "get", !.key = key]
  <2>1. key \in Key
    BY <1>2 DEF Normalise, Pasted, Key
  <2>2. /\ linkReq' = [linkReq EXCEPT ![c].at = "get", ![c].key = key]
        /\ cards' = cards /\ linkLeft' \in 0..LinkLimit
    <3>1. linkReq' = [linkReq EXCEPT ![c].at = "get", ![c].key = key] /\ cards' = cards
      BY <1>2 DEF Paste
    <3>2. linkLeft' \in 0..LinkLimit
      BY LinksAssumption DEF Paste, LinkTypeOK
    <3> QED
      BY <3>1, <3>2
  <2> HIDE DEF key
  <2>3. linkReq[c] \in LinkStates
    BY DEF LinkTypeOK
  <2>4. r \in LinkStates /\ r.at = "get" /\ r.key = key
    BY <2>1, <2>3 DEF LinkStates
  <2>5. linkReq' = [linkReq EXCEPT ![c] = r]
    BY <2>2
  <2> HIDE DEF r
  <2> QED
    BY <2>1, <2>2, <2>4, <2>5 DEF LinkTypeOK, Pasting, Lasting
<1> QED
  BY <1>1, <1>2

\* one that ends holds none,
LEMMA LinkIdle ==
    ASSUME LinkInv, NEW c \in Request, LinkEnds(c)
    PROVE  /\ linkReq' \in [Request -> LinkStates]
           /\ Pasting'
BY DEF LinkInv, LinkTypeOK, Pasting, LinkEnds, LinkStates, NoLink

\* one that looks a card up ends or goes on to fetch it,
LEMMA GetCardStep ==
    ASSUME LinkInv, NEW c \in Request, GetCard(c)
    PROVE  LinkInv'
<1>1. CASE LinkEnds(c)
  BY <1>1, LinkIdle DEF GetCard, LinkInv, LinkTypeOK, Lasting
<1>2. CASE linkReq' = [linkReq EXCEPT ![c].at = "fetch"]
  <2> DEFINE r == [linkReq[c] EXCEPT !.at = "fetch"]
  <2>1. linkReq[c] \in LinkStates /\ linkReq[c].key \in Key
    BY DEF LinkInv, LinkTypeOK, Pasting, GetCard
  <2>2. r \in LinkStates /\ r.at = "fetch" /\ r.key = linkReq[c].key
    BY <2>1 DEF LinkStates
  <2>3. linkReq' = [linkReq EXCEPT ![c] = r]
    BY <1>2
  <2> HIDE DEF r
  <2> QED
    BY <2>1, <2>2, <2>3 DEF GetCard, LinkInv, LinkTypeOK, Pasting, Lasting
<1> QED
  BY <1>1, <1>2 DEF GetCard

\* one that fetches has a fresh one,
LEMMA FetchStep ==
    ASSUME LinkInv, NEW c \in Request, Fetch(c)
    PROVE  LinkInv'
<1>1. PICK card : /\ card \in Card /\ card.ttl = TtlFor(card.picture)
                  /\ linkReq' = [linkReq EXCEPT ![c].at = "store", ![c].card = card]
  BY ScrapedIsCard, BareIsCard DEF Fetch
<1> DEFINE r == [linkReq[c] EXCEPT !.at = "store", !.card = card]
<1>2. linkReq[c] \in LinkStates /\ linkReq[c].key \in Key
  BY DEF LinkInv, LinkTypeOK, Pasting, Fetch
<1>3. r \in LinkStates /\ r.at = "store" /\ r.key = linkReq[c].key /\ r.card = card
  BY <1>1, <1>2 DEF LinkStates
<1>4. linkReq' = [linkReq EXCEPT ![c] = r]
  BY <1>1
<1> HIDE DEF r
<1>5. LinkTypeOK' /\ Lasting'
  BY <1>3, <1>4 DEF Fetch, LinkInv, LinkTypeOK, Lasting
<1>6. Pasting'
  BY <1>1, <1>2, <1>3, <1>4 DEF LinkInv, LinkTypeOK, Pasting, TtlFor
<1> QED
  BY <1>5, <1>6 DEF LinkInv

\* what is stored of it outlives its picture only if it came too late,
LEMMA StoreCardStep ==
    ASSUME LinkInv, NEW c \in Request, StoreCard(c)
    PROVE  LinkInv'
<1>1. linkReq' \in [Request -> LinkStates] /\ Pasting' /\ linkLeft' = linkLeft
  BY LinkIdle DEF StoreCard
<1>2. CASE UNCHANGED cards
  BY <1>1, <1>2 DEF LinkInv, LinkTypeOK, Lasting
<1>3. CASE cards' # cards
  <2> DEFINE card == linkReq[c].card
             key == linkReq[c].key
             late == card.age + SignedTTL > Life
             kept == [card EXCEPT !.late = late]
  <2>1. card \in Card /\ card.ttl = TtlFor(card.picture) /\ key \in Key
    BY DEF LinkInv, Pasting, StoreCard
  <2>2. cards' = [cards EXCEPT ![key] = kept]
    BY <1>3 DEF StoreCard
  <2>7. late \in BOOLEAN
    OBVIOUS
  <2> HIDE DEF card, key, late
  <2>3. kept \in Card
    BY <2>7, <2>1 DEF Card
  <2>4. /\ kept.ttl = card.ttl /\ kept.age = card.age /\ kept.picture = card.picture
        /\ kept.late = late
    BY <2>1 DEF Card
  <2> HIDE DEF kept
  <2>5. /\ kept.ttl >= 1
        /\ kept.picture = "signed" /\ ~kept.late => kept.age + kept.ttl <= Life
    <3>1. card.age \in 0..Life /\ kept.ttl = TtlFor(kept.picture) /\ kept.age = card.age
      BY <2>1, <2>4 DEF Card
    <3>2. kept.ttl >= 1
      BY <3>1, LinksAssumption DEF TtlFor
    <3>3. ASSUME kept.picture = "signed", ~kept.late PROVE kept.age + kept.ttl <= Life
      <4>1. ~late /\ kept.ttl = SignedTTL
        BY <2>4, <3>1, <3>3 DEF TtlFor
      <4> QED
        BY <3>1, <4>1, LinksAssumption DEF late
    <3> QED
      BY <3>2, <3>3
  <2>6. Lasting'
    BY <2>1, <2>2, <2>5 DEF LinkInv, LinkTypeOK, Lasting
  <2> QED
    BY <1>1, <2>1, <2>2, <2>3, <2>6 DEF LinkInv, LinkTypeOK
<1> QED
  BY <1>2, <1>3

\* and a minute takes from both sides of the sum.
LEMMA MinuteStep ==
    ASSUME LinkInv, Minute
    PROVE  LinkInv'
<1> USE DEF LinkInv
<1>1. ASSUME NEW c \in Request
      PROVE  /\ linkReq'[c] \in LinkStates
             /\ linkReq'[c].at = linkReq[c].at /\ linkReq'[c].key = linkReq[c].key
             /\ linkReq'[c].card = Older(linkReq[c].card)
  <2> DEFINE x == linkReq[c]
             r == [x EXCEPT !.card = Older(x.card)]
  <2>1. x \in LinkStates
    BY DEF LinkTypeOK
  <2>2. linkReq'[c] = r
    BY DEF Minute
  <2> HIDE DEF x
  <2>3. Older(x.card) \in Card \cup {None}
    BY <2>1, OlderIsCard DEF LinkStates
  <2>4. r \in LinkStates /\ r.at = x.at /\ r.key = x.key /\ r.card = Older(x.card)
    BY <2>1, <2>3 DEF LinkStates
  <2> QED
    BY <2>2, <2>4 DEF x
<1>2. ASSUME NEW k \in Key, cards'[k] # None
      PROVE  /\ cards'[k] \in Card
             /\ cards'[k].ttl >= 1
             /\ cards'[k].picture = "signed" /\ ~cards'[k].late =>
                  cards'[k].age + cards'[k].ttl <= Life
  <2> DEFINE x == cards[k]
             o == Older(x)
             r == [o EXCEPT !.ttl = @ - 1]
  <2>1. x \in Card /\ x # None /\ x.ttl # 1 /\ cards'[k] = r
    BY <1>2 DEF LinkTypeOK, Minute
  <2>2. x.ttl >= 1 /\ (x.picture = "signed" /\ ~x.late => x.age + x.ttl <= Life)
    BY <2>1 DEF Lasting
  <2> HIDE DEF x
  <2>3. /\ o \in Card /\ o.ttl = x.ttl /\ o.picture = x.picture /\ o.late = x.late
        /\ o.age = (IF x.age = Life THEN Life ELSE x.age + 1)
    BY <2>1, OlderIsCard
  <2> HIDE DEF o
  <2>4. o.ttl \in 0..Day /\ o.ttl >= 2 /\ x.age \in 0..Life /\ x.ttl \in 0..Day
    BY <2>1, <2>2, <2>3, LinksAssumption DEF Card
  <2>5. r \in Card /\ r.ttl = o.ttl - 1 /\ r.age = o.age /\ r.picture = o.picture /\ r.late = o.late
    BY <2>3, <2>4, LinksAssumption DEF Card
  <2> HIDE DEF r
  <2> QED
    BY <2>1, <2>2, <2>3, <2>4, <2>5, LinksAssumption
<1>3. LinkTypeOK'
  BY <1>1, <1>2 DEF LinkTypeOK, Minute
<1>4. Pasting'
  <2> SUFFICES ASSUME NEW c \in Request PROVE
        /\ linkReq'[c].at # "idle" => linkReq'[c].key \in Key
        /\ linkReq'[c].at = "store" => /\ linkReq'[c].card \in Card
                                       /\ linkReq'[c].card.ttl = TtlFor(linkReq'[c].card.picture)
    BY DEF Pasting, TtlFor
  <2> DEFINE card == linkReq[c].card
  <2>1. ASSUME linkReq[c].at = "store"
        PROVE  Older(card) \in Card /\ Older(card).ttl = TtlFor(Older(card).picture)
    <3>1. card \in Card /\ card.ttl = TtlFor(card.picture)
      BY <2>1 DEF Pasting
    <3> HIDE DEF card
    <3> QED
      BY <3>1, OlderIsCard
  <2> QED
    BY <1>1, <2>1 DEF Pasting
<1>5. Lasting'
  BY <1>2 DEF Lasting
<1> QED
  BY <1>3, <1>4, <1>5

\* So the sum of age and lifetime stays within the picture's.
LEMMA LinkInvStep == LinkInv /\ [LinkNext]_linkVars => LinkInv'
<1> SUFFICES ASSUME LinkInv, [LinkNext]_linkVars PROVE LinkInv'
  OBVIOUS
<1>1. CASE UNCHANGED linkVars
  BY <1>1 DEF linkVars, LinkInv, LinkTypeOK, Pasting, Lasting
<1>2. CASE LinkNext
  BY <1>2, PasteStep, GetCardStep, FetchStep, StoreCardStep, MinuteStep DEF LinkNext
<1> QED
  BY <1>1, <1>2

THEOREM LinkInvHolds == LinkSpec => []LinkInv
BY LinkInitInv, LinkInvStep, PTL DEF LinkSpec

\* The cards and the requests stay what Redis and Preview make of them.
THEOREM LinkTypes == LinkSpec => []LinkTypeOK
<1>1. LinkInv => LinkTypeOK
  BY DEF LinkInv
<1> QED
  BY <1>1, LinkInvHolds, PTL

\* No card is served with a picture that is gone, unless it was stored late.
THEOREM PicturesLive == LinkSpec => []PictureAlive
<1>1. LinkInv => PictureAlive
  BY LinksAssumption DEF LinkInv, LinkTypeOK, Lasting, PictureAlive, Card
<1> QED
  BY <1>1, LinkInvHolds, PTL

-----------------------------------------------------------------------------
(***************************************************************************)
(* The dots of the home list, for any persons, rooms and requests.         *)
(*                                                                         *)
(* The four reads of a list see four states.  What joins them is that a    *)
(* line once read is still there when the dots are counted (LastSaid), a   *)
(* cursor only moves forward (Past bounds it by the clock), and a reader   *)
(* who is not in a room when its lines are counted walked out of it after  *)
(* the list began (Walking).  That times are drawn once (OneTime) bounds   *)
(* the dots, and makes the last line of a room one line.                   *)
(***************************************************************************)
Reading(c) == home[c].at \in {"members", "last", "unread", "names", "shown"}

Past ==
    /\ \A l \in said : l.at <= clock
    /\ \A k \in Room : cursor[k] <= clock
    /\ \A c \in Request : home[c].at = "line" => home[c].line \in Said /\ home[c].line.at <= clock

OneTime ==
    /\ \A a, b \in said : a.at = b.at => a = b
    /\ \A c \in Request : home[c].at = "line" =>
        /\ \A a \in said : a.at # home[c].line.at
        /\ \A d \in Request : home[d].at = "line" /\ home[d].line.at = home[c].line.at => c = d

Walking ==
    \A c \in Request : Reading(c) => \A k \in home[c].rooms : k \in mine \/ k \in walked[c]

LastSaid ==
    \A c \in Request : home[c].at \in {"unread", "names", "shown"} =>
        \A k \in home[c].rooms :
            home[c].last[k] # None => home[c].last[k] \in said /\ home[c].last[k].room = k

Dotted ==
    \A c \in Request : home[c].at \in {"names", "shown"} =>
        \A k \in home[c].rooms :
            LET line == home[c].last[k] IN
            line # None /\ line.by \notin {Reader, "system"} /\ line.at > cursor[k] =>
                home[c].dots[k] > 0 \/ k \in walked[c]

HomeInv == HomeTypeOK /\ Past /\ OneTime /\ Walking /\ LastSaid /\ Dotted

-----------------------------------------------------------------------------
\* Lines have each a time of their own, so there are no more of them than times.
LEMMA LinesAreFew ==
    ASSUME HomeTypeOK, OneTime, NEW S \in SUBSET said
    PROVE  IsFiniteSet(S) /\ Cardinality(S) \in 0..ClockLimit
<1> DEFINE T == 1..ClockLimit
           f == [l \in S |-> l.at]
<1>1. IsFiniteSet(T) /\ Cardinality(T) = ClockLimit
  BY HomeAssumption, FS_Interval
<1>2. f \in [S -> T]
  BY DEF HomeTypeOK, Said
<1>3. \A a, b \in S : f[a] = f[b] => a = b
  BY DEF OneTime
<1> HIDE DEF f, T
<1>4. f \in Injection(S, T)
  BY <1>2, <1>3 DEF Injection, IsInjective
<1>5. IsFiniteSet(S) /\ Cardinality(S) <= Cardinality(T)
  BY <1>1, <1>4, FS_Injection
<1>6. Cardinality(S) \in Nat
  BY <1>5, FS_CardinalityType
<1> QED
  BY <1>1, <1>5, <1>6, HomeAssumption

\* A room in which something was said has a last line.
LEMMA LastIsSaid ==
    ASSUME HomeTypeOK, NEW k \in Room
    PROVE  \/ LastLine(k) = None
           \/ LastLine(k) \in said /\ LastLine(k).room = k
<1> DEFINE lines == {l \in said : l.room = k}
           left == {ClockLimit - l.at : l \in lines}
<1>1. CASE lines = {}
  BY <1>1 DEF LastLine
<1>2. CASE lines # {}
  <2>1. \A l \in lines : l.at \in 1..ClockLimit
    BY DEF HomeTypeOK, Said
  <2>2. left \in SUBSET Nat /\ left # {}
    <3> HIDE DEF lines
    <3> QED
      BY <1>2, <2>1, HomeAssumption
  <2>3. PICK n \in left : \A m \in left : n <= m
    <3> HIDE DEF left
    <3> QED
      BY <2>2, NatHasLeast
  <2>4. PICK l \in lines : n = ClockLimit - l.at
    OBVIOUS
  <2>5. \A o \in lines : o.at <= l.at
    <3> SUFFICES ASSUME NEW o \in lines PROVE o.at <= l.at
      OBVIOUS
    <3>1. ClockLimit - l.at <= ClockLimit - o.at
      BY <2>3, <2>4
    <3> HIDE DEF lines
    <3> QED
      BY <2>1, <2>4, <3>1, HomeAssumption
  <2>6. LastLine(k) = CHOOSE l1 \in lines : \A o \in lines : o.at <= l1.at
    BY <1>2 DEF LastLine
  <2>7. LastLine(k) \in lines
    <3> HIDE DEF lines, left
    <3> QED
      BY <2>5, <2>6
  <2> QED
    BY <2>7
<1> QED
  BY <1>1, <1>2

\* A line of somebody else that is newer than the cursor makes a dot.
LEMMA NewLineMakesDot ==
    ASSUME HomeTypeOK, OneTime, NEW k \in Room, k \in mine,
           NEW l \in said, l.room = k, l.at > cursor[k], l.by \notin {Reader, "system"}
    PROVE  Dots(k) > 0
<1> DEFINE S == {o \in said : o.room = k /\ o.at > cursor[k] /\ o.by \notin {Reader, "system"}}
<1>1. S \in SUBSET said /\ l \in S /\ Dots(k) = Cardinality(S)
  BY DEF Dots
<1> HIDE DEF S
<1>2. IsFiniteSet(S) /\ Cardinality(S) \in 0..ClockLimit
  BY <1>1, LinesAreFew
<1>3. Cardinality(S) # 0
  BY <1>1, <1>2, FS_EmptySet
<1> QED
  BY <1>1, <1>2, <1>3, HomeAssumption

\* No more lines are unread than were drawn.
LEMMA DotsAreFew ==
    ASSUME HomeTypeOK, OneTime, NEW k \in Room
    PROVE  Dots(k) \in 0..ClockLimit
<1> DEFINE S == {o \in said : o.room = k /\ o.at > cursor[k] /\ o.by \notin {Reader, "system"}}
<1>1. S \in SUBSET said
  OBVIOUS
<1>2. Dots(k) = IF k \notin mine THEN 0 ELSE Cardinality(S)
  BY DEF Dots
<1> HIDE DEF S
<1> QED
  BY <1>1, <1>2, LinesAreFew, HomeAssumption

-----------------------------------------------------------------------------
\* A request that is not running has the type of one.
LEMMA NoHomeIsHome == NoHome \in HomeStates /\ NoHome.at = "idle"
BY HomeAssumption DEF NoHome, HomeStates

\* With empty rooms every list is right.
LEMMA HomeInitInv == HomeInit => HomeInv
<1> SUFFICES ASSUME HomeInit PROVE HomeInv
  OBVIOUS
<1>1. HomeTypeOK
  BY NoHomeIsHome, HomeAssumption DEF HomeInit, HomeTypeOK
<1>2. Past /\ OneTime
  BY NoHomeIsHome DEF HomeInit, Past, OneTime
<1>3. Walking /\ LastSaid /\ Dotted
  BY NoHomeIsHome DEF HomeInit, Walking, Reading, LastSaid, Dotted
<1> QED
  BY <1>1, <1>2, <1>3 DEF HomeInv

\* A stamp takes a time later than every other,
LEMMA DrawLineStep ==
    ASSUME HomeInv, NEW c \in Request, NEW k \in Room, NEW by \in Person \cup {"chaos", "system"},
           DrawLine(c, k, by)
    PROVE  HomeInv'
<1> USE DEF HomeInv
<1> DEFINE l == [room |-> k, at |-> clock', by |-> by]
           r == [home[c] EXCEPT !.at = "line", !.line = l]
<1>1. clock \in 0..ClockLimit /\ clock' = clock + 1 /\ clock' \in 1..ClockLimit
  BY HomeAssumption DEF DrawLine, Draws, HomeTypeOK
<1>2. l \in Said /\ l.at = clock'
  BY <1>1 DEF Said
<1>3. home[c] \in HomeStates /\ UNCHANGED <<mine, cursor, said, walked>>
  BY DEF DrawLine, HomeTypeOK
<1>4. home' = [home EXCEPT ![c] = r]
  BY DEF DrawLine
<1> HIDE DEF l
<1>5. r \in HomeStates /\ r.at = "line" /\ r.line = l
  BY <1>2, <1>3 DEF HomeStates
<1> HIDE DEF r
<1>6. /\ home' \in [Request -> HomeStates] /\ home'[c] = r
      /\ \A d \in Request : d # c => home'[d] = home[d]
  BY <1>4, <1>5 DEF HomeTypeOK
<1>7. HomeTypeOK'
  BY <1>1, <1>3, <1>6, HomeAssumption DEF HomeTypeOK
<1>8. \A a \in said : a.at \in 1..ClockLimit /\ a.at <= clock
  BY DEF HomeTypeOK, Past, Said
<1>9. Past'
  <2>1. \A j \in Room : cursor[j] \in 0..ClockLimit /\ cursor[j] <= clock
    BY DEF HomeTypeOK, Past
  <2>2. \A d \in Request : d # c /\ home[d].at = "line" =>
            home[d].line \in Said /\ home[d].line.at <= clock /\ home[d].line.at \in 1..ClockLimit
    BY DEF HomeTypeOK, Past, Said
  <2>3. \A d \in Request : home'[d].at = "line" => home'[d].line \in Said /\ home'[d].line.at <= clock'
    BY <1>1, <1>2, <1>5, <1>6, <2>2
  <2> QED
    BY <1>1, <1>3, <1>8, <2>1, <2>3 DEF Past
<1>10. OneTime'
  <2>1. \A d \in Request : d # c /\ home[d].at = "line" => home[d].line.at # clock'
    BY <1>1 DEF Past, Said
  <2>2. \A a \in said : a.at # clock'
    BY <1>1, <1>8
  <2>3. ASSUME NEW d \in Request, home'[d].at = "line"
        PROVE  \A a \in said : a.at # home'[d].line.at
    BY <1>2, <1>5, <1>6, <2>2, <2>3 DEF OneTime
  <2>4. ASSUME NEW d \in Request, NEW e \in Request, home'[d].at = "line", home'[e].at = "line",
               home'[e].line.at = home'[d].line.at
        PROVE  d = e
    BY <1>2, <1>5, <1>6, <2>1, <2>4 DEF OneTime
  <2> QED
    BY <1>3, <2>3, <2>4 DEF OneTime
<1>11. Walking' /\ LastSaid' /\ Dotted'
  BY <1>3, <1>5, <1>6 DEF Walking, Reading, LastSaid, Dotted
<1> QED
  BY <1>7, <1>9, <1>10, <1>11

\* a commit puts the line it stamped into its room,
LEMMA SayLineStep ==
    ASSUME HomeInv, NEW c \in Request, SayLine(c)
    PROVE  HomeInv'
<1> USE DEF HomeInv
<1> DEFINE l == home[c].line
<1>1. /\ l \in Said /\ l.at <= clock /\ home[c].at = "line"
      /\ \A a \in said : a.at # l.at
  BY DEF SayLine, Past, OneTime
<1>2. said' = said \cup {l} /\ UNCHANGED <<clock, mine, cursor, walked>>
  BY DEF SayLine
<1>3. /\ home' \in [Request -> HomeStates] /\ home'[c].at = "idle"
      /\ \A d \in Request : d # c => home'[d] = home[d]
  BY NoHomeIsHome DEF SayLine, HomeTypeOK
<1>4. \A d \in Request : d # c /\ home[d].at = "line" => home[d].line.at # l.at
  BY <1>1 DEF OneTime
<1> HIDE DEF l
<1>5. HomeTypeOK' /\ Past'
  BY <1>1, <1>2, <1>3 DEF HomeTypeOK, Past
<1>6. OneTime'
  BY <1>1, <1>2, <1>3, <1>4 DEF OneTime
<1>7. Walking' /\ LastSaid' /\ Dotted'
  BY <1>2, <1>3 DEF Walking, Reading, LastSaid, Dotted
<1> QED
  BY <1>5, <1>6, <1>7

\* opening a room moves the reader's cursor to now,
LEMMA OpenRoomStep ==
    ASSUME HomeInv, NEW k \in Room, OpenRoom(k)
    PROVE  HomeInv'
<1> USE DEF HomeInv
<1>1. clock \in 0..ClockLimit /\ clock' = clock + 1 /\ clock' \in 0..ClockLimit
  BY HomeAssumption DEF OpenRoom, Draws, HomeTypeOK
<1>2. UNCHANGED <<mine, said, home, walked>>
  BY DEF OpenRoom
<1>3. /\ cursor' \in [Room -> 0..ClockLimit]
      /\ \A j \in Room : cursor[j] \in 0..ClockLimit /\ cursor[j] <= cursor'[j] /\ cursor'[j] <= clock'
  BY <1>1 DEF OpenRoom, HomeTypeOK, Past
<1>4. HomeTypeOK'
  BY <1>1, <1>2, <1>3 DEF HomeTypeOK
<1>5. Past'
  <2>1. \A a \in Said : a.at <= clock => a.at <= clock'
    BY <1>1 DEF Said
  <2> QED
    BY <1>2, <1>3, <2>1 DEF Past, HomeTypeOK
<1>6. OneTime' /\ Walking' /\ LastSaid'
  BY <1>2 DEF OneTime, Walking, Reading, LastSaid
<1>7. Dotted'
  <2> SUFFICES ASSUME NEW c \in Request, home[c].at \in {"names", "shown"},
                      NEW j \in home[c].rooms,
                      home[c].last[j] # None, home[c].last[j].by \notin {Reader, "system"},
                      home[c].last[j].at > cursor'[j]
               PROVE  home[c].dots[j] > 0 \/ j \in walked[c]
    BY <1>2 DEF Dotted
  <2>1. j \in Room
    BY DEF HomeTypeOK, HomeStates
  <2>2. home[c].last[j].at \in 1..ClockLimit
    BY DEF LastSaid, HomeTypeOK, Said
  <2>3. home[c].last[j].at > cursor[j]
    BY <1>1, <1>3, <2>1, <2>2
  <2> QED
    BY <2>3 DEF Dotted
<1> QED
  BY <1>4, <1>5, <1>6, <1>7

\* who leaves a room is remembered to have left it by every list in progress,
LEMMA WalkOutStep ==
    ASSUME HomeInv, NEW k \in Room, WalkOut(k)
    PROVE  HomeInv'
<1> USE DEF HomeInv
<1>1. mine' = mine \ {k} /\ UNCHANGED <<clock, cursor, said, home>>
  BY DEF WalkOut
<1>2. /\ walked' \in [Request -> SUBSET Room]
      /\ \A c \in Request : walked[c] \subseteq walked'[c] /\ (Reading(c) => k \in walked'[c])
  BY DEF WalkOut, HomeTypeOK, Reading
<1>3. HomeTypeOK'
  BY <1>1, <1>2 DEF HomeTypeOK
<1>4. Past' /\ OneTime' /\ LastSaid'
  BY <1>1 DEF Past, OneTime, LastSaid
<1>5. Walking'
  BY <1>1, <1>2 DEF Walking, Reading
<1>6. Dotted'
  BY <1>1, <1>2 DEF Dotted
<1> QED
  BY <1>3, <1>4, <1>5, <1>6

\* and who comes back has the cursor of before;
LEMMA ComeBackStep ==
    ASSUME HomeInv, NEW k \in Room, ComeBack(k)
    PROVE  HomeInv'
BY DEF ComeBack, HomeInv, HomeTypeOK, Past, OneTime, Walking, Reading, LastSaid, Dotted

\* the first query of the list has the rooms,
LEMMA ListRoomsStep ==
    ASSUME HomeInv, NEW c \in Request, ListRooms(c)
    PROVE  HomeInv'
<1> USE DEF HomeInv
<1> DEFINE r == [home[c] EXCEPT !.at = "members", !.rooms = mine]
<1>1. home[c] \in HomeStates /\ mine \subseteq Room
  BY DEF HomeTypeOK
<1>2. UNCHANGED <<clock, mine, cursor, said, walked>> /\ home' = [home EXCEPT ![c] = r]
  BY DEF ListRooms
<1>3. r \in HomeStates /\ r.at = "members" /\ r.rooms = mine
  BY <1>1 DEF HomeStates
<1> HIDE DEF r
<1>4. /\ home' \in [Request -> HomeStates] /\ home'[c] = r
      /\ \A d \in Request : d # c => home'[d] = home[d]
  BY <1>2, <1>3 DEF HomeTypeOK
<1> QED
  BY <1>2, <1>3, <1>4 DEF HomeTypeOK, Past, OneTime, Walking, Reading, LastSaid, Dotted

\* A read that leaves the requests' own rooms alone keeps what does not depend on
\* what it read.
LEMMA ReadKeeps ==
    ASSUME HomeInv, NEW c \in Request, NEW r \in HomeStates, Reading(c),
           home' = [home EXCEPT ![c] = r], r.rooms = home[c].rooms, r.at # "line",
           UNCHANGED <<clock, mine, cursor, said, walked>>
    PROVE  /\ HomeTypeOK' /\ Past' /\ OneTime' /\ Walking'
           /\ home'[c] = r /\ \A d \in Request : d # c => home'[d] = home[d]
<1>1. /\ home' \in [Request -> HomeStates] /\ home'[c] = r
      /\ \A d \in Request : d # c => home'[d] = home[d]
  BY DEF HomeInv, HomeTypeOK
<1>2. HomeTypeOK' /\ Past' /\ OneTime'
  BY <1>1 DEF HomeInv, HomeTypeOK, Past, OneTime
<1>3. Walking'
  BY <1>1 DEF HomeInv, Walking, Reading
<1> QED
  BY <1>1, <1>2, <1>3

\* the second their members,
LEMMA MembersForStep ==
    ASSUME HomeInv, NEW c \in Request, MembersFor(c)
    PROVE  HomeInv'
<1> DEFINE r == [home[c] EXCEPT !.at = "last"]
<1>1. home[c] \in HomeStates /\ home[c].at = "members"
  BY DEF HomeInv, HomeTypeOK, MembersFor, Reads
<1>2. UNCHANGED <<clock, mine, cursor, said, walked>> /\ home' = [home EXCEPT ![c] = r]
  BY DEF MembersFor, Reads, NextRead
<1>3. r \in HomeStates /\ r.at = "last" /\ r.rooms = home[c].rooms
  BY <1>1 DEF HomeStates
<1> HIDE DEF r
<1>4. /\ HomeTypeOK' /\ Past' /\ OneTime' /\ Walking'
      /\ home'[c] = r /\ \A d \in Request : d # c => home'[d] = home[d]
  BY <1>1, <1>2, <1>3, ReadKeeps DEF Reading
<1> QED
  BY <1>2, <1>3, <1>4 DEF HomeInv, LastSaid, Dotted

\* the third the last line of each as it is then,
LEMMA LastMessagesStep ==
    ASSUME HomeInv, NEW c \in Request, LastMessages(c)
    PROVE  HomeInv'
<1> DEFINE last == [k \in Room |-> IF k \in home[c].rooms THEN LastLine(k) ELSE None]
           r == [home[c] EXCEPT !.last = last, !.at = "unread"]
<1>1. home[c] \in HomeStates /\ home[c].at = "last"
  BY DEF HomeInv, HomeTypeOK, LastMessages, Reads
<1>2. UNCHANGED <<clock, mine, cursor, said, walked>> /\ home' = [home EXCEPT ![c] = r]
  BY DEF LastMessages, Reads, NextRead
<1>3. \A k \in Room : last[k] # None => last[k] \in said /\ last[k].room = k
  BY LastIsSaid DEF HomeInv
<1>4. last \in [Room -> Said \cup {None}]
  <2>1. \A k \in Room : last[k] \in Said \cup {None}
    BY <1>3 DEF HomeInv, HomeTypeOK
  <2> QED
    BY <2>1
<1> HIDE DEF last
<1>5. r \in HomeStates /\ r.at = "unread" /\ r.rooms = home[c].rooms /\ r.last = last
  BY <1>1, <1>4 DEF HomeStates
<1> HIDE DEF r
<1>6. /\ HomeTypeOK' /\ Past' /\ OneTime' /\ Walking'
      /\ home'[c] = r /\ \A d \in Request : d # c => home'[d] = home[d]
  BY <1>1, <1>2, <1>5, ReadKeeps DEF Reading
<1>7. r.rooms \subseteq Room
  BY <1>5 DEF HomeStates
<1>8. LastSaid'
  BY <1>2, <1>3, <1>5, <1>6, <1>7 DEF HomeInv, LastSaid
<1>9. Dotted'
  BY <1>2, <1>5, <1>6 DEF HomeInv, Dotted
<1> QED
  BY <1>6, <1>8, <1>9 DEF HomeInv

\* the fourth, later, what is unread: that line among it, or the cursor has moved,
LEMMA UnreadCountsStep ==
    ASSUME HomeInv, NEW c \in Request, UnreadCounts(c)
    PROVE  HomeInv'
<1> DEFINE dots == [k \in Room |-> Dots(k)]
           r == [home[c] EXCEPT !.dots = dots, !.at = "names"]
<1>1. home[c] \in HomeStates /\ home[c].at = "unread"
  BY DEF HomeInv, HomeTypeOK, UnreadCounts, Reads
<1>2. UNCHANGED <<clock, mine, cursor, said, walked>> /\ home' = [home EXCEPT ![c] = r]
  BY DEF UnreadCounts, Reads, NextRead
<1>3. dots \in [Room -> 0..ClockLimit]
  BY DotsAreFew DEF HomeInv
<1>4. ASSUME NEW k \in home[c].rooms, home[c].last[k] # None,
             home[c].last[k].by \notin {Reader, "system"}, home[c].last[k].at > cursor[k]
      PROVE  dots[k] > 0 \/ k \in walked[c]
  <2>1. k \in Room
    BY <1>1 DEF HomeStates
  <2>2. home[c].last[k] \in said /\ home[c].last[k].room = k
    BY <1>1, <1>4 DEF HomeInv, LastSaid
  <2>3. k \in mine \/ k \in walked[c]
    BY <1>1 DEF HomeInv, Walking, Reading
  <2> QED
    BY <1>4, <2>1, <2>2, <2>3, NewLineMakesDot DEF HomeInv
<1> HIDE DEF dots
<1>5. r \in HomeStates /\ r.at = "names" /\ r.rooms = home[c].rooms
      /\ r.last = home[c].last /\ r.dots = dots
  BY <1>1, <1>3 DEF HomeStates
<1> HIDE DEF r
<1>6. /\ HomeTypeOK' /\ Past' /\ OneTime' /\ Walking'
      /\ home'[c] = r /\ \A d \in Request : d # c => home'[d] = home[d]
  BY <1>1, <1>2, <1>5, ReadKeeps DEF Reading
<1>7. LastSaid'
  BY <1>1, <1>2, <1>5, <1>6 DEF HomeInv, LastSaid
<1>8. Dotted'
  BY <1>2, <1>4, <1>5, <1>6 DEF HomeInv, Dotted
<1> QED
  BY <1>6, <1>7, <1>8 DEF HomeInv

\* the fifth the groups' names,
LEMMA GroupNamesStep ==
    ASSUME HomeInv, NEW c \in Request, GroupNames(c)
    PROVE  HomeInv'
<1> DEFINE r == [home[c] EXCEPT !.at = "shown"]
<1>1. home[c] \in HomeStates /\ home[c].at = "names"
  BY DEF HomeInv, HomeTypeOK, GroupNames, Reads
<1>2. UNCHANGED <<clock, mine, cursor, said, walked>> /\ home' = [home EXCEPT ![c] = r]
  BY DEF GroupNames, Reads, NextRead
<1>3. r \in HomeStates /\ r.at = "shown" /\ r.rooms = home[c].rooms
      /\ r.last = home[c].last /\ r.dots = home[c].dots
  BY <1>1 DEF HomeStates
<1> HIDE DEF r
<1>4. /\ HomeTypeOK' /\ Past' /\ OneTime' /\ Walking'
      /\ home'[c] = r /\ \A d \in Request : d # c => home'[d] = home[d]
  BY <1>1, <1>2, <1>3, ReadKeeps DEF Reading
<1> QED
  BY <1>1, <1>2, <1>3, <1>4 DEF HomeInv, LastSaid, Dotted

\* and then it is shown.
LEMMA ShowHomeStep ==
    ASSUME HomeInv, NEW c \in Request, ShowHome(c)
    PROVE  HomeInv'
<1>1. UNCHANGED <<clock, mine, cursor, said>>
  BY DEF ShowHome
<1>2. /\ home' \in [Request -> HomeStates] /\ home'[c].at = "idle"
      /\ \A d \in Request : d # c => home'[d] = home[d]
  BY NoHomeIsHome DEF HomeInv, HomeTypeOK, ShowHome
<1>3. walked' \in [Request -> SUBSET Room] /\ \A d \in Request : d # c => walked'[d] = walked[d]
  BY DEF HomeInv, HomeTypeOK, ShowHome
<1> QED
  BY <1>1, <1>2, <1>3 DEF HomeInv, HomeTypeOK, Past, OneTime, Walking, Reading, LastSaid, Dotted

\* Together they are inductive.
LEMMA HomeInvStep == HomeInv /\ [HomeNext]_homeVars => HomeInv'
<1> SUFFICES ASSUME HomeInv, [HomeNext]_homeVars PROVE HomeInv'
  OBVIOUS
<1>1. CASE UNCHANGED homeVars
  BY <1>1 DEF homeVars, HomeInv, HomeTypeOK, Past, OneTime, Walking, Reading, LastSaid, Dotted
<1>2. ASSUME NEW k \in Room, OpenRoom(k) \/ WalkOut(k) \/ ComeBack(k) PROVE HomeInv'
  BY <1>2, OpenRoomStep, WalkOutStep, ComeBackStep
<1>3. ASSUME NEW c \in Request, NEW k \in Room, NEW by \in Person \cup {"chaos", "system"},
             DrawLine(c, k, by)
      PROVE  HomeInv'
  BY <1>3, DrawLineStep
<1>4. ASSUME NEW c \in Request,
             \/ SayLine(c) \/ ListRooms(c) \/ MembersFor(c) \/ LastMessages(c)
             \/ UnreadCounts(c) \/ GroupNames(c) \/ ShowHome(c)
      PROVE  HomeInv'
  BY <1>4, SayLineStep, ListRoomsStep, MembersForStep, LastMessagesStep, UnreadCountsStep,
     GroupNamesStep, ShowHomeStep
<1> QED
  BY <1>1, <1>2, <1>3, <1>4 DEF HomeNext

THEOREM HomeInvHolds == HomeSpec => []HomeInv
BY HomeInitInv, HomeInvStep, PTL DEF HomeSpec

\* The lists, and the lines and cursors they are read from, are of their kinds; a
\* room never has more dots than there are times.
THEOREM HomeTypes == HomeSpec => []HomeTypeOK
<1>1. HomeInv => HomeTypeOK
  BY DEF HomeInv
<1> QED
  BY <1>1, HomeInvHolds, PTL

\* A list that is shown has a dot wherever its last line is new and not the reader's.
THEOREM DotsMatch == HomeSpec => []DotMatchesPreview
<1>1. HomeInv => DotMatchesPreview
  BY DEF HomeInv, Dotted, DotMatchesPreview
<1> QED
  BY <1>1, HomeInvHolds, PTL

-----------------------------------------------------------------------------
(***************************************************************************)
(* What the model answers is cut to size, for any answers, persons and     *)
(* allowance (AnswersKeepShape); and an allowance that is in use has an    *)
(* end.                                                                    *)
(*                                                                         *)
(* The answers rest on two cuts: First, which keeps a prefix, and Sift,    *)
(* the loop that skips what is no good and stops when it has enough.  What *)
(* Sift keeps is shown by the least round after which it would be wrong.   *)
(***************************************************************************)
Expires == \A p \in Person : used[p] > 0 => ttl[p] > 0

ChaosInv == ChaosTypeOK /\ Expires /\ AnswersKeepShape

\* What the bounds of a reply leave.
LEMMA LeastIsBound ==
    /\ \A n \in Nat : Least(n, 3) = 1 <=> n = 1
    /\ \A n \in Nat : ~(Least(n, 4) < 2) => Least(n, 4) \in 2..4
    /\ \A n \in Nat : (IF n > 40 THEN 0 ELSE n) <= 40
BY DEF Least

\* A rating is from 1 to 5, and one that was already is left alone.
LEMMA ClampIsBound ==
    \A n \in Int : Clamp(n, 1, 5) \in 1..5 /\ (n \in 1..5 => Clamp(n, 1, 5) = n)
BY DEF Clamp

\* First is a prefix, as long as the list or the bound.
LEMMA FirstIsCut ==
    ASSUME NEW S, NEW list \in Seq(S), NEW n \in Nat
    PROVE  /\ First(list, n) \in Seq(S)
           /\ Len(First(list, n)) = Least(Len(list), n)
           /\ \A i \in 1..Len(First(list, n)) : i \in 1..Len(list) /\ First(list, n)[i] = list[i]
<1> DEFINE m == Least(n, Len(list))
<1>1. Len(list) \in Nat
  BY LenProperties
<1>2. m \in Nat /\ m <= Len(list) /\ m = Least(Len(list), n)
  BY <1>1 DEF Least
<1>3. First(list, n) = SubSeq(list, 1, m)
  BY DEF First
<1> HIDE DEF m
<1>4. \A i \in 1..m : list[i] \in S
  BY <1>1, <1>2, ElementOfSeq
<1>5. /\ SubSeq(list, 1, m) \in Seq(S)
      /\ Len(SubSeq(list, 1, m)) = IF 1 <= m THEN m - 1 + 1 ELSE 0
      /\ \A i \in 1..(m - 1 + 1) : SubSeq(list, 1, m)[i] = list[1 + i - 1]
  BY <1>2, <1>4, SubSeqProperties
<1>6. Len(First(list, n)) = m
  BY <1>2, <1>3, <1>5
<1>7. \A i \in 1..m : First(list, n)[i] = list[i]
  <2> SUFFICES ASSUME NEW i \in 1..m PROVE First(list, n)[i] = list[i]
    OBVIOUS
  <2>1. i \in 1..(m - 1 + 1) /\ 1 + i - 1 = i
    BY <1>2
  <2> QED
    BY <1>3, <1>5, <2>1
<1> QED
  BY <1>1, <1>2, <1>3, <1>5, <1>6, <1>7

-----------------------------------------------------------------------------
(***************************************************************************)
(* A loop that sifts a list, by the least round that would be wrong.       *)
(***************************************************************************)
Round(before, good, max, i) ==
    IF Len(before) = max \/ i \notin good THEN before ELSE Append(before, i)

\* kept is what the loop has after each of its first n rounds.
Rounds(kept, good, max, n) ==
    kept = [i \in 0..n |-> IF i = 0 THEN <<>> ELSE Round(kept[i - 1], good, max, i)]

\* The loop can be run for as long as one likes (least n for which it could not),
LEMMA RoundsExist ==
    ASSUME NEW good, NEW max
    PROVE  \A n \in Nat : \E kept : Rounds(kept, good, max, n)
<1> DEFINE Wrong == {n \in Nat : ~ \E kept : Rounds(kept, good, max, n)}
<1> SUFFICES ASSUME Wrong # {} PROVE FALSE
  OBVIOUS
<1>1. PICK n \in Wrong : \A m \in Wrong : n <= m
  <2>1. Wrong \in SUBSET Nat
    OBVIOUS
  <2> HIDE DEF Wrong
  <2> QED
    BY <2>1, NatHasLeast
<1>2. n \in Nat
  OBVIOUS
<1>3. CASE n = 0
  <2> DEFINE kept == [i \in 0..0 |-> <<>>]
  <2>1. Rounds(kept, good, max, 0)
    BY DEF Rounds
  <2> QED
    BY <1>3, <2>1
<1>4. CASE n # 0
  <2>1. n - 1 \in Nat /\ ~(n <= n - 1)
    BY <1>2, <1>4
  <2>2. PICK kept : Rounds(kept, good, max, n - 1)
    BY <1>1, <2>1
  <2> DEFINE longer == [i \in 0..n |-> IF i = n THEN Round(kept[n - 1], good, max, n) ELSE kept[i]]
  <2>3. \A i \in 0..n : longer[i] = IF i = 0 THEN <<>> ELSE Round(longer[i - 1], good, max, i)
    <3> SUFFICES ASSUME NEW i \in 0..n
                 PROVE  longer[i] = IF i = 0 THEN <<>> ELSE Round(longer[i - 1], good, max, i)
      OBVIOUS
    <3>1. CASE i = n
      <4>1. longer[i - 1] = kept[n - 1] /\ longer[i] = Round(kept[n - 1], good, max, n)
        BY <1>2, <1>4, <2>1, <3>1
      <4> QED
        BY <1>4, <3>1, <4>1
    <3>2. CASE i # n
      <4>1. i \in 0..(n - 1) /\ longer[i] = kept[i] /\ (i # 0 => i - 1 \in 0..n /\ i - 1 # n)
        BY <1>2, <3>2
      <4>2. kept[i] = IF i = 0 THEN <<>> ELSE Round(kept[i - 1], good, max, i)
        BY <2>2, <4>1, Zenon DEF Rounds
      <4>3. i # 0 => longer[i - 1] = kept[i - 1]
        BY <4>1
      <4> HIDE DEF longer
      <4> QED
        BY <4>1, <4>2, <4>3
    <3> QED
      BY <3>1, <3>2
  <2>4. Rounds(longer, good, max, n)
    <3>1. longer = [i \in 0..n |-> longer[i]]
      OBVIOUS
    <3> HIDE DEF longer
    <3> QED
      BY <2>3, <3>1, Zenon DEF Rounds
  <2> QED
    BY <2>4
<1> QED
  BY <1>3, <1>4

\* and Sift is its last round.
LEMMA SiftIsRounds ==
    ASSUME NEW good, NEW max, NEW n \in Nat
    PROVE  \E kept : Rounds(kept, good, max, n) /\ Sift(good, max, n) = kept[n]
<1> DEFINE K == CHOOSE kept : Rounds(kept, good, max, n)
<1>1. Rounds(K, good, max, n)
  BY RoundsExist
<1>2. Sift(good, max, n) = K[n]
  BY Zenon DEF Sift, Rounds, Round
<1> HIDE DEF K
<1> QED
  BY <1>1, <1>2

Upto(good, i) == {j \in good : j <= i}

Rank(good, j) == Cardinality(Upto(good, j))

\* s is what a list is sifted to in its first i places.
Sifted(s, good, max, i) ==
    /\ s \in Seq(good)
    /\ Len(s) = Least(Rank(good, i), max)
    /\ \A j \in Upto(good, i) : Rank(good, j) <= max => s[Rank(good, j)] = j

\* An element of a set of places is a number.
LEMMA Places ==
    ASSUME NEW n \in Nat, NEW good \in SUBSET (1..n)
    PROVE  \A j \in good : j \in Nat /\ j >= 1 /\ j <= n
<1>1. \A j \in good : j \in 1..n
  OBVIOUS
<1> QED
  BY <1>1

\* A good place is added to those before it,
LEMMA UptoSteps ==
    ASSUME NEW n \in Nat, NEW good \in SUBSET (1..n), NEW i \in 1..n, i \in good
    PROVE  Upto(good, i) = Upto(good, i - 1) \cup {i}
<1>1. ASSUME NEW j \in good
      PROVE  j <= i <=> j <= i - 1 \/ j = i
  <2>1. j \in Nat
    BY Places
  <2> QED
    BY <2>1
<1> QED
  BY <1>1, Zenon DEF Upto

\* among which it is not;
LEMMA UptoLacks ==
    ASSUME NEW n \in Nat, NEW good \in SUBSET (1..n), NEW i \in 1..n
    PROVE  i \notin Upto(good, i - 1)
<1>1. ~(i <= i - 1)
  OBVIOUS
<1> QED
  BY <1>1, Zenon DEF Upto

\* one that is not good adds nothing;
LEMMA UptoStays ==
    ASSUME NEW n \in Nat, NEW good \in SUBSET (1..n), NEW i \in 1..n, i \notin good
    PROVE  Upto(good, i) = Upto(good, i - 1)
<1>1. ASSUME NEW j \in good
      PROVE  j <= i <=> j <= i - 1
  <2>1. j \in Nat /\ j # i
    BY Places
  <2> QED
    BY <2>1
<1> QED
  BY <1>1, Zenon DEF Upto

\* there are none before the first place, and all are there at the last.
LEMMA UptoEnds ==
    ASSUME NEW n \in Nat, NEW good \in SUBSET (1..n)
    PROVE  Upto(good, 0) = {} /\ Upto(good, n) = good
<1>1. ASSUME NEW j \in good
      PROVE  ~(j <= 0) /\ j <= n
  <2>1. j \in Nat /\ j >= 1 /\ j <= n
    BY Places
  <2> QED
    BY <2>1
<1> QED
  BY <1>1, Zenon DEF Upto

\* An earlier good place has fewer before it,
LEMMA UptoGrows ==
    ASSUME NEW n \in Nat, NEW good \in SUBSET (1..n), NEW h \in good, NEW i \in 0..n, h <= i
    PROVE  Upto(good, h) \subseteq Upto(good, i)
<1>1. ASSUME NEW j \in good, j <= h PROVE j <= i
  <2>1. j \in Nat /\ h \in Nat
    BY Places
  <2> QED
    BY <1>1, <2>1
<1> QED
  BY <1>1, Zenon DEF Upto

\* and a lower rank.
LEMMA RankProperties ==
    ASSUME NEW n \in Nat, NEW good \in SUBSET (1..n)
    PROVE  /\ \A i \in 0..n : Rank(good, i) \in Nat
           /\ \A j \in good : Rank(good, j) >= 1
           /\ \A j \in good, i \in 0..n : j <= i => Rank(good, j) <= Rank(good, i)
           /\ Rank(good, 0) = 0 /\ Rank(good, n) = Cardinality(good)
<1>0. \A j \in good : j \in Nat /\ j >= 1 /\ j <= n
  BY Places
<1>1. IsFiniteSet(good)
  <2>1. IsFiniteSet(1..n)
    BY FS_Interval
  <2> QED
    BY <2>1, FS_Subset
<1>2. ASSUME NEW i \in 0..n PROVE IsFiniteSet(Upto(good, i)) /\ Rank(good, i) \in Nat
  <2>1. Upto(good, i) \in SUBSET good
    BY DEF Upto
  <2> QED
    BY <1>1, <2>1, FS_Subset, FS_CardinalityType DEF Rank
<1>3. ASSUME NEW j \in good PROVE Rank(good, j) >= 1
  <2>1. j \in Upto(good, j) /\ j \in 0..n
    BY <1>0 DEF Upto
  <2>2. IsFiniteSet(Upto(good, j)) /\ Rank(good, j) \in Nat
    BY <1>2, <2>1
  <2>3. Rank(good, j) # 0
    BY <2>1, <2>2, FS_EmptySet DEF Rank
  <2> QED
    BY <2>2, <2>3
<1>4. ASSUME NEW j \in good, NEW i \in 0..n, j <= i PROVE Rank(good, j) <= Rank(good, i)
  <2>1. Upto(good, j) \in SUBSET Upto(good, i)
    BY <1>4, UptoGrows, Zenon
  <2>2. j \in 0..n
    BY <1>0
  <2>3. Cardinality(Upto(good, j)) <= Cardinality(Upto(good, i))
    BY <1>2, <2>1, FS_Subset
  <2> QED
    BY <2>3 DEF Rank
<1>6. Rank(good, 0) = 0
  <2>1. Upto(good, 0) = {}
    BY UptoEnds, Zenon
  <2> QED
    BY <2>1, FS_EmptySet DEF Rank
<1>7. Rank(good, n) = Cardinality(good)
  <2>1. Upto(good, n) = good
    BY UptoEnds, Zenon
  <2> QED
    BY <2>1 DEF Rank
<1> QED
  BY <1>2, <1>3, <1>4, <1>6, <1>7

\* The rank grows by one at a good place.
LEMMA RankSteps ==
    ASSUME NEW n \in Nat, NEW good \in SUBSET (1..n), NEW i \in 1..n
    PROVE  Rank(good, i) = Rank(good, i - 1) + (IF i \in good THEN 1 ELSE 0)
<1>1. i - 1 \in 0..n
  OBVIOUS
<1>2. Rank(good, i - 1) \in Nat
  BY <1>1, RankProperties, Zenon
<1>3. CASE i \in good
  <2>1. Upto(good, i) = Upto(good, i - 1) \cup {i}
    BY <1>3, UptoSteps
  <2>2. IsFiniteSet(1..n) /\ Upto(good, i - 1) \in SUBSET good
    BY FS_Interval DEF Upto
  <2>3. IsFiniteSet(Upto(good, i - 1))
    BY <2>2, FS_Subset
  <2>4. i \notin Upto(good, i - 1)
    BY UptoLacks
  <2>5. Cardinality(Upto(good, i - 1) \cup {i}) = Cardinality(Upto(good, i - 1)) + 1
    BY <2>3, <2>4, FS_AddElement
  <2> QED
    BY <1>3, <2>1, <2>5 DEF Rank
<1>4. CASE i \notin good
  <2>1. Upto(good, i) = Upto(good, i - 1)
    BY <1>4, UptoStays
  <2> QED
    BY <1>2, <1>4, <2>1 DEF Rank
<1> QED
  BY <1>3, <1>4

\* A round keeps the next good place if there is room, under its rank.
LEMMA RoundSifts ==
    ASSUME NEW n \in Nat, NEW good \in SUBSET (1..n), NEW max \in Nat, NEW i \in 1..n,
           NEW before, Sifted(before, good, max, i - 1)
    PROVE  Sifted(Round(before, good, max, i), good, max, i)
<1>0. \A j \in good : j \in Nat /\ j >= 1 /\ j <= n
  BY Places
<1> DEFINE c == Rank(good, i - 1)
           d == Rank(good, i)
<1>1. before \in Seq(good) /\ Len(before) = Least(c, max)
  BY DEF Sifted
<1>2. \A j \in Upto(good, i - 1) : Rank(good, j) <= max => before[Rank(good, j)] = j
  BY DEF Sifted
<1>3. i - 1 \in 0..n /\ i \in 0..n /\ c \in Nat /\ d = c + (IF i \in good THEN 1 ELSE 0)
  <2>1. i - 1 \in 0..n /\ i \in 0..n
    OBVIOUS
  <2>2. Rank(good, i - 1) \in Nat
    BY <2>1, RankProperties, Zenon
  <2>3. Rank(good, i) = Rank(good, i - 1) + (IF i \in good THEN 1 ELSE 0)
    BY RankSteps
  <2> QED
    BY <2>1, <2>2, <2>3
<1> HIDE DEF c, d
<1>4. CASE i \notin good
  <2>1. Upto(good, i) = Upto(good, i - 1)
    BY <1>4, UptoStays
  <2>2. Round(before, good, max, i) = before /\ d = c
    BY <1>3, <1>4 DEF Round
  <2> QED
    BY <1>1, <1>2, <2>1, <2>2 DEF Sifted, d
<1>5. ASSUME i \in good
      PROVE  \A j \in Upto(good, i) : j = i \/ j \in Upto(good, i - 1)
  BY <1>0 DEF Upto
<1>6. CASE i \in good /\ Len(before) = max
  <2>1. Round(before, good, max, i) = before /\ d = c + 1
    BY <1>3, <1>6 DEF Round
  <2>2. c >= max /\ Least(d, max) = max /\ ~(d <= max)
    BY <1>1, <1>3, <1>6, <2>1 DEF Least
  <2>3. \A j \in Upto(good, i) : Rank(good, j) <= max => before[Rank(good, j)] = j
    BY <1>2, <1>5, <1>6, <2>2 DEF d
  <2> QED
    BY <1>1, <1>6, <2>1, <2>2, <2>3 DEF Sifted, d
<1>7. CASE i \in good /\ Len(before) # max
  <2> DEFINE after == Append(before, i)
  <2>1. Round(before, good, max, i) = after /\ d = c + 1
    BY <1>3, <1>7 DEF Round
  <2>2. c < max /\ Len(before) = c /\ Least(d, max) = c + 1
    BY <1>1, <1>3, <1>7, <2>1 DEF Least
  <2>3. /\ after \in Seq(good) /\ Len(after) = Len(before) + 1
        /\ \A k \in 1..Len(before) : after[k] = before[k]
        /\ after[Len(before) + 1] = i
    BY <1>1, <1>7, AppendProperties
  <2> HIDE DEF after
  <2>4. ASSUME NEW j \in Upto(good, i), Rank(good, j) <= max
        PROVE  after[Rank(good, j)] = j
    <3>1. CASE j = i
      BY <2>1, <2>2, <2>3, <3>1 DEF d
    <3>2. CASE j # i
      <4>1. j \in Upto(good, i - 1) /\ j \in good /\ j <= i - 1
        BY <1>0, <1>5, <1>7, <3>2 DEF Upto
      <4>2. Rank(good, j) <= c /\ Rank(good, j) >= 1 /\ j \in 0..n
        <5>1. j \in 0..n
          BY <1>0, <4>1
        <5> QED
          BY <1>3, <4>1, <5>1, RankProperties, Zenon DEF c
      <4>3. Rank(good, j) \in Nat
        BY <4>2, RankProperties
      <4>4. Rank(good, j) \in 1..Len(before)
        BY <1>3, <2>2, <4>2, <4>3
      <4>5. before[Rank(good, j)] = j
        BY <1>2, <2>4, <4>1
      <4> QED
        BY <2>3, <4>4, <4>5
    <3> QED
      BY <3>1, <3>2
  <2> QED
    BY <2>1, <2>2, <2>3, <2>4 DEF Sifted, d
<1> QED
  BY <1>4, <1>6, <1>7

\* The loop keeps the first max good places.
LEMMA SiftSifts ==
    ASSUME NEW n \in Nat, NEW good \in SUBSET (1..n), NEW max \in Nat
    PROVE  Sifted(Sift(good, max, n), good, max, n)
<1>1. PICK kept : Rounds(kept, good, max, n) /\ Sift(good, max, n) = kept[n]
  BY SiftIsRounds
<1>2. \A i \in 0..n : kept[i] = IF i = 0 THEN <<>> ELSE Round(kept[i - 1], good, max, i)
  BY <1>1, Zenon DEF Rounds
<1> DEFINE Wrong == {i \in 0..n : ~Sifted(kept[i], good, max, i)}
<1> SUFFICES ASSUME Wrong # {} PROVE FALSE
  BY <1>1
<1>3. PICK i \in Wrong : \A m \in Wrong : i <= m
  <2>1. Wrong \in SUBSET Nat
    OBVIOUS
  <2> HIDE DEF Wrong
  <2> QED
    BY <2>1, NatHasLeast
<1>4. i \in 0..n /\ ~Sifted(kept[i], good, max, i)
  OBVIOUS
<1>5. CASE i = 0
  <2>1. kept[0] = <<>>
    BY <1>2, <1>4, <1>5
  <2>2. Upto(good, 0) = {}
    BY UptoEnds, Zenon
  <2>3. <<>> \in Seq(good) /\ Len(<<>>) = 0 /\ Least(Rank(good, 0), max) = 0
    BY EmptySeq, RankProperties DEF Least
  <2> QED
    BY <1>4, <1>5, <2>1, <2>2, <2>3 DEF Sifted
<1>6. CASE i # 0
  <2>1. i - 1 \in 0..n /\ i \in 1..n /\ ~(i <= i - 1)
    BY <1>4, <1>6
  <2>2. Sifted(kept[i - 1], good, max, i - 1)
    BY <1>3, <2>1
  <2>3. kept[i] = Round(kept[i - 1], good, max, i)
    BY <1>2, <1>4, <1>6
  <2> QED
    BY <1>4, <2>1, <2>2, <2>3, RoundSifts
<1> QED
  BY <1>5, <1>6

\* So what is taken from the list are its first max good members, in their order.
Takes(out, list, good, max) ==
    /\ FirstOf(out, list, good, max)
    /\ Len(out) <= max
    /\ \A k \in DOMAIN out : \E i \in good : out[k] = list[i]

\* ... so the members there are the first max good ones, in their order.
LEMMA SiftTakesFirst ==
    ASSUME NEW n \in Nat, NEW good \in SUBSET (1..n), NEW max \in Nat, NEW list
    PROVE  Takes(At(list, Sift(good, max, n)), list, good, max)
<1> DEFINE s == Sift(good, max, n)
           out == At(list, s)
           ranked == Rank(good, n)
<1>1. Sifted(s, good, max, n)
  BY SiftSifts
<1>2. out = [k \in DOMAIN s |-> list[s[k]]]
  BY DEF At
<1> HIDE DEF s, out
<1>3. s \in Seq(good) /\ Len(s) = Least(ranked, max)
  BY <1>1 DEF Sifted
<1>4. \A j \in Upto(good, n) : Rank(good, j) <= max => s[Rank(good, j)] = j
  BY <1>1 DEF Sifted
<1>5. ranked \in Nat /\ ranked = Cardinality(good)
  <2>1. n \in 0..n
    OBVIOUS
  <2> QED
    BY <2>1, RankProperties, Zenon
<1> HIDE DEF ranked
<1>6. DOMAIN s = 1..Len(s) /\ Len(s) \in Nat
  BY <1>3, LenProperties
<1>7. out = [k \in 1..Len(s) |-> list[s[k]]]
  BY <1>2, <1>6
<1>8. Len(out) = Len(s) /\ DOMAIN out = 1..Len(s)
  BY <1>6, <1>7
<1>9. Len(out) <= max
  BY <1>3, <1>5, <1>8 DEF Least
<1>10. ASSUME NEW k \in DOMAIN out PROVE \E i \in good : out[k] = list[i]
  <2>1. s[k] \in good /\ out[k] = list[s[k]]
    BY <1>3, <1>7, <1>8, ElementOfSeq
  <2> QED
    BY <2>1
<1>11. ASSUME NEW i \in good, Rank(good, i) <= max PROVE out[Rank(good, i)] = list[i]
  <2> DEFINE rank == Rank(good, i)
  <2>1. i \in Nat /\ i >= 1 /\ i <= n /\ i \in Upto(good, n)
    <3>1. i \in Nat /\ i >= 1 /\ i <= n
      BY Places
    <3> QED
      BY <3>1 DEF Upto
  <2>2. s[rank] = i
    BY <1>4, <1>11, <2>1
  <2>3. rank \in Nat /\ rank >= 1 /\ rank <= ranked
    <3>1. i \in 0..n /\ n \in 0..n
      BY <2>1
    <3> QED
      BY <2>1, <3>1, RankProperties, Zenon DEF ranked
  <2>4. rank <= max
    BY <1>11
  <2> HIDE DEF rank
  <2>5. rank \in 1..Len(s)
    BY <1>3, <1>5, <2>3, <2>4 DEF Least
  <2>6. out[rank] = list[i]
    BY <1>7, <2>2, <2>5
  <2> QED
    BY <2>6 DEF rank
<1>12. FirstOf(out, list, good, max)
  <2>1. Len(out) = Least(Cardinality(good), max)
    BY <1>3, <1>5, <1>8
  <2> QED
    BY <1>11, <2>1, Zenon DEF FirstOf, Rank, Upto
<1> QED
  BY <1>9, <1>10, <1>12 DEF Takes, out, s

\* The notes of a reply are the first that say something.
LEMMA NotesAreFirst ==
    ASSUME NEW list \in Seq(STRING), NEW max \in Nat
    PROVE  FirstOf(TrimList(list, max), list, NotBlank(list), max)
<1>1. Len(list) \in Nat /\ DOMAIN list = 1..Len(list)
  BY LenProperties
<1>2. NotBlank(list) \in SUBSET (1..Len(list))
  BY <1>1 DEF NotBlank
<1> QED
  BY <1>1, <1>2, SiftTakesFirst, Zenon DEF TrimList, Takes

Mined == Seq([label : STRING, value : STRING, category : STRING, confidence : Int])

\* A fact is filed in a category of the profile, with a confidence.
LEMMA FactIsFiled ==
    ASSUME NEW f \in [label : STRING, value : STRING, category : STRING, confidence : Int]
    PROVE  FactOf(f).category \in Category /\ FactOf(f).confidence \in 1..100
<1> DEFINE c == IF f.category \in Category THEN f.category ELSE "basics"
           n == IF f.confidence <= 0 \/ f.confidence > 100 THEN 70 ELSE f.confidence
<1>1. FactOf(f) = [f EXCEPT !.category = c, !.confidence = n]
  BY DEF FactOf
<1>2. c \in Category
  BY DEF Category
<1>3. n \in 1..100
  OBVIOUS
<1> HIDE DEF c, n
<1> QED
  BY <1>1, <1>2, <1>3

\* The facts are the first eight that have a label and a value.
LEMMA FactsAreFirst ==
    ASSUME NEW facts \in Mined
    PROVE  /\ FirstOf(SanitiseFacts(facts), Filed(facts), Whole(facts), 8)
           /\ \A k \in DOMAIN SanitiseFacts(facts) :
                /\ SanitiseFacts(facts)[k].category \in Category
                /\ SanitiseFacts(facts)[k].confidence \in 1..100
<1> DEFINE n == Len(facts)
           out == SanitiseFacts(facts)
<1>1. n \in Nat /\ DOMAIN facts = 1..n
  BY LenProperties DEF Mined
<1>2. Whole(facts) \in SUBSET (1..n)
  BY <1>1 DEF Whole
<1>3. out = At(Filed(facts), Sift(Whole(facts), 8, n))
  BY DEF SanitiseFacts
<1>4. \A i \in 1..n : Filed(facts)[i] = FactOf(facts[i])
  BY <1>1 DEF Filed
<1>5. \A i \in 1..n : facts[i] \in [label : STRING, value : STRING, category : STRING, confidence : Int]
  BY ElementOfSeq DEF Mined
<1> HIDE DEF n, out
<1>6. 8 \in Nat
  OBVIOUS
<1>7. /\ FirstOf(out, Filed(facts), Whole(facts), 8)
      /\ \A k \in DOMAIN out : \E i \in Whole(facts) : out[k] = Filed(facts)[i]
  <2>1. Takes(out, Filed(facts), Whole(facts), 8)
    BY <1>1, <1>2, <1>3, <1>6, SiftTakesFirst, Zenon
  <2> QED
    BY <2>1 DEF Takes
<1>8. ASSUME NEW k \in DOMAIN out
      PROVE  out[k].category \in Category /\ out[k].confidence \in 1..100
  <2>1. PICK i \in Whole(facts) : out[k] = Filed(facts)[i]
    BY <1>7
  <2>2. i \in 1..n
    BY <1>2
  <2>3. out[k] = FactOf(facts[i]) /\
        facts[i] \in [label : STRING, value : STRING, category : STRING, confidence : Int]
    BY <1>4, <1>5, <2>1, <2>2
  <2> QED
    BY <2>3, FactIsFiled
<1> QED
  BY <1>7, <1>8 DEF out

\* The citations are of the conversations that were given, and three at most.
LEMMA CitesAreKnown ==
    ASSUME NEW refs \in Seq(STRING), NEW threads
    PROVE  Len(ReferencesOf(refs, threads)) <= 3 /\ ToSet(ReferencesOf(refs, threads)) \subseteq threads
<1> DEFINE cited == First(refs, 3)
           good == {i \in DOMAIN cited : cited[i] \in threads}
           n == Len(cited)
           out == ReferencesOf(refs, threads)
<1>1. cited \in Seq(STRING)
  BY FirstIsCut
<1>2. n \in Nat /\ good \in SUBSET (1..n)
  BY <1>1, LenProperties
<1>3. out = At(cited, Sift(good, 3, n))
  BY DEF ReferencesOf
<1>4. \A i \in good : cited[i] \in threads
  OBVIOUS
<1>5. 3 \in Nat
  OBVIOUS
<1> HIDE DEF cited, good, n, out
<1>6. Len(out) <= 3 /\ \A k \in DOMAIN out : \E i \in good : out[k] = cited[i]
  <2>1. Takes(out, cited, good, 3)
    BY <1>2, <1>3, <1>5, SiftTakesFirst, Zenon
  <2> QED
    BY <2>1 DEF Takes
<1>7. \A k \in DOMAIN out : out[k] \in threads
  BY <1>4, <1>6
<1>8. ToSet(out) \subseteq threads
  BY <1>7 DEF ToSet
<1> QED
  BY <1>6, <1>8 DEF out

-----------------------------------------------------------------------------
\* Sanitise cuts the comparison of a reply to what a client can draw.
LEMMA CardsAreCut ==
    ASSUME NEW raw \in Seq(Seq(Int))
    PROVE  CardsFit(raw, CardsOf(raw))
<1> DEFINE kept == First(raw, 3)
           row(i) == [j \in DOMAIN First(kept[i], 4) |-> Clamp(kept[i][j], 1, 5)]
           cut == [i \in DOMAIN kept |-> row(i)]
<1>1. /\ kept \in Seq(Seq(Int)) /\ Len(kept) = Least(Len(raw), 3)
      /\ \A i \in 1..Len(kept) : i \in 1..Len(raw) /\ kept[i] = raw[i]
  BY FirstIsCut
<1>2. Len(raw) \in Nat /\ Len(kept) \in Nat /\ DOMAIN kept = 1..Len(kept)
  BY <1>1, LenProperties
<1>3. CardsOf(raw) = IF Len(kept) = 1 THEN <<>> ELSE cut
  BY DEF CardsOf
<1> HIDE DEF kept
<1>4. ASSUME NEW i \in 1..Len(kept)
      PROVE  /\ Len(row(i)) = Least(Len(raw[i]), 4)
             /\ \A j \in DOMAIN row(i) :
                  row(i)[j] \in 1..5 /\ (raw[i][j] \in 1..5 => row(i)[j] = raw[i][j])
  <2> DEFINE card == raw[i]
             first == First(card, 4)
  <2>1. kept[i] = card /\ card \in Seq(Int)
    BY <1>1, <1>2, ElementOfSeq
  <2> HIDE DEF card
  <2>2. /\ first \in Seq(Int) /\ Len(first) = Least(Len(card), 4)
        /\ \A j \in 1..Len(first) : j \in 1..Len(card)
    BY <2>1, FirstIsCut
  <2> HIDE DEF first
  <2>3. DOMAIN first = 1..Len(first) /\ Len(first) \in Nat
    BY <2>2, LenProperties
  <2>4. row(i) = [j \in 1..Len(first) |-> Clamp(card[j], 1, 5)]
    BY <2>1, <2>3 DEF first
  <2>5. \A j \in 1..Len(first) : card[j] \in Int
    BY <2>1, <2>2, ElementOfSeq
  <2>6. \A j \in 1..Len(first) :
          Clamp(card[j], 1, 5) \in 1..5 /\ (card[j] \in 1..5 => Clamp(card[j], 1, 5) = card[j])
    BY <2>5, ClampIsBound, Zenon
  <2>7. Len([j \in 1..Len(first) |-> Clamp(card[j], 1, 5)]) = Len(first)
    BY <2>3
  <2> HIDE DEF row
  <2> QED
    BY <2>2, <2>4, <2>6, <2>7 DEF card
<1>5. CASE Len(kept) = 1
  <2>1. Len(raw) = 1
    BY <1>1, <1>2, <1>5, LeastIsBound, Zenon
  <2> QED
    BY <1>3, <1>5, <2>1 DEF CardsFit
<1>6. CASE Len(kept) # 1
  <2>1. Len(raw) # 1
    BY <1>1, <1>2, <1>6, LeastIsBound, Zenon
  <2> HIDE DEF row
  <2>2. cut = [i \in 1..Len(kept) |-> row(i)]
    BY <1>2
  <2>3. Len(cut) = Len(kept) /\ DOMAIN cut = 1..Len(kept)
    BY <1>2, <2>2
  <2>4. \A i \in 1..Len(kept) : cut[i] = row(i)
    BY <2>2
  <2> HIDE DEF cut
  <2> QED
    BY <1>1, <1>3, <1>4, <1>6, <2>1, <2>3, <2>4 DEF CardsFit
<1> QED
  BY <1>5, <1>6

\* Sanitise gives every part of a reply its shape.
LEMMA ReplyIsCut ==
    ASSUME NEW r \in RawReply, r.text # ""
    PROVE  ReplyShape(r, SanitiseReply(r))
<1> DEFINE out == SanitiseReply(r)
<1>1. /\ out.text = r.text /\ out.cards = CardsOf(r.cards) /\ out.decision = DecisionOf(r.decision)
      /\ out.action = IF r.action > 40 THEN 0 ELSE r.action
      /\ out.decided = TrimList(r.decided, 6) /\ out.open = TrimList(r.open, 6)
  BY DEF SanitiseReply
<1> HIDE DEF out
<1>2. CardsFit(r.cards, out.cards)
  BY <1>1, ChaosAssumption, CardsAreCut
<1>3. ASSUME out.decision # None
      PROVE  out.decision.asks /\ out.decision.options \in 2..4
  <2> DEFINE d == r.decision
             n == Least(d.options, 4)
  <2>1. d # None /\ d.asks /\ ~(n < 2) /\ out.decision = [d EXCEPT !.options = n]
    BY <1>1, <1>3 DEF DecisionOf
  <2>2. d \in [asks : BOOLEAN, options : Nat]
    BY <2>1, ChaosAssumption
  <2> HIDE DEF d
  <2>3. n \in 2..4
    <3>1. d.options \in Nat
      BY <2>2
    <3> QED
      BY <2>1, <3>1, LeastIsBound, Zenon
  <2> HIDE DEF n
  <2> QED
    BY <2>1, <2>2, <2>3
<1>4. out.action <= 40
  <2>1. r.action \in Nat
    BY ChaosAssumption
  <2> QED
    BY <1>1, <2>1, LeastIsBound, Zenon
<1>5. ReplyFits(r, out)
  BY <1>1, <1>2, <1>3, <1>4 DEF ReplyFits
<1>6. /\ FirstOf(out.decided, r.decided, NotBlank(r.decided), 6)
      /\ FirstOf(out.open, r.open, NotBlank(r.open), 6)
  <2>1. r.decided \in Seq(STRING) /\ r.open \in Seq(STRING) /\ 6 \in Nat
    BY ChaosAssumption
  <2> QED
    BY <1>1, <2>1, NotesAreFirst
<1> QED
  BY <1>5, <1>6 DEF out, ReplyShape

-----------------------------------------------------------------------------
\* A call that is let through is counted within a window, or not at all.
LEMMA CountStep ==
    ASSUME ChaosInv, NEW p \in Person, Spend(p)
    PROVE  /\ used' \in [Person -> 0..PerHour + 1] /\ ttl' \in [Person -> 0..Window]
           /\ Expires'
<1> USE ChaosAssumption DEF ChaosInv, ChaosTypeOK
<1>1. CASE UNCHANGED <<used, ttl>>
  BY <1>1 DEF Expires
<1>2. CASE Count(p)
  <2> DEFINE n == Least(used[p] + 1, PerHour + 1)
             t == IF ttl[p] = 0 THEN Window ELSE ttl[p]
  <2>1. used' = [used EXCEPT ![p] = n] /\ ttl' = [ttl EXCEPT ![p] = t]
    BY <1>2 DEF Count
  <2>2. n \in 0..PerHour + 1 /\ t \in 0..Window /\ t > 0
    BY DEF Least
  <2> HIDE DEF n, t
  <2> QED
    BY <2>1, <2>2 DEF Expires
<1> QED
  BY <1>1, <1>2 DEF Spend

\* With nothing used and nothing told nothing is violated.
LEMMA ChaosInitInv == ChaosInit => ChaosInv
BY ChaosAssumption DEF ChaosInit, ChaosInv, ChaosTypeOK, Expires, AnswersKeepShape

\* Time ends a window and its count together.
LEMMA TickStep ==
    ASSUME ChaosInv, Tick
    PROVE  ChaosInv'
<1>1. /\ used' \in [Person -> 0..PerHour + 1] /\ ttl' \in [Person -> 0..Window]
      /\ Expires'
  BY ChaosAssumption DEF ChaosInv, ChaosTypeOK, Expires, Tick
<1> QED
  BY <1>1 DEF ChaosInv, ChaosTypeOK, AnswersKeepShape, Tick

\* A call that keeps its promise, and the allowance its window, keeps the invariant.
LEMMA ToldStep ==
    ASSUME ChaosInv, NEW o, Outcome(o),
           o.call \in {"none", "refused", "failed", "shown", "reply", "facts", "answer", "name"},
           o.call = "reply" => ReplyShape(o.raw, o.reply),
           o.call = "facts" =>
             /\ FirstOf(o.facts, Filed(o.mined), Whole(o.mined), 8)
             /\ \A i \in DOMAIN o.facts :
                  o.facts[i].category \in Category /\ o.facts[i].confidence \in 1..100,
           o.call = "answer" => Len(o.cites) <= 3 /\ ToSet(o.cites) \subseteq o.threads,
           o.call = "name" => o.title \in 1..40,
           o.call = "shown" => o.shape.around \/ o.shape.body = "prose",
           used' \in [Person -> 0..PerHour + 1] /\ ttl' \in [Person -> 0..Window],
           Expires'
    PROVE  ChaosInv'
<1>1. told' = o
  BY DEF Outcome
<1>2. AnswersKeepShape'
  BY <1>1 DEF AnswersKeepShape
<1> QED
  BY <1>1, <1>2 DEF ChaosInv, ChaosTypeOK

\* Every call does.
LEMMA ChaosInvStep == ChaosInv /\ [ChaosNext]_chaosVars => ChaosInv'
<1> SUFFICES ASSUME ChaosInv, [ChaosNext]_chaosVars PROVE ChaosInv'
  OBVIOUS
<1>1. CASE UNCHANGED chaosVars
  BY <1>1 DEF chaosVars, ChaosInv, ChaosTypeOK, Expires, AnswersKeepShape
<1>2. CASE Tick
  BY <1>2, TickStep
<1>3. CASE Deliver
  BY <1>3 DEF Deliver, ChaosInv, ChaosTypeOK, Expires, AnswersKeepShape
<1>4. ASSUME NEW p \in Person, Refuse(p) PROVE ChaosInv'
  <2>1. Spend(p) /\ Outcome([call |-> "refused"])
    BY <1>4 DEF Refuse, Spend
  <2> QED
    BY <2>1, CountStep, ToldStep
<1>5. ASSUME NEW p \in Person, ChaosFails(p) PROVE ChaosInv'
  BY <1>5, CountStep, ToldStep DEF ChaosFails
<1>6. ASSUME NEW p \in Person, NEW s \in Shape, Unparsed(p, s) PROVE ChaosInv'
  <2>1. CASE Shown(s)
    <3>1. Outcome([call |-> "shown", shape |-> s])
      BY <1>6, <2>1 DEF Unparsed
    <3>2. s.around \/ s.body = "prose"
      BY <2>1 DEF Shown
    <3> QED
      BY <1>6, <3>1, <3>2, CountStep, ToldStep DEF Unparsed
  <2>2. CASE ~Shown(s)
    BY <1>6, <2>2, CountStep, ToldStep DEF Unparsed
  <2> QED
    BY <2>1, <2>2
<1>7. ASSUME NEW p \in Person, NEW r \in RawReply, ReplyCall(p, r) PROVE ChaosInv'
  <2>1. CASE r.text = ""
    BY <1>7, <2>1, CountStep, ToldStep DEF ReplyCall
  <2>2. CASE r.text # ""
    <3>1. ReplyShape(r, SanitiseReply(r))
      BY <2>2, ReplyIsCut
    <3>2. Outcome([call |-> "reply", raw |-> r, reply |-> SanitiseReply(r)]) /\ Spend(p)
      BY <1>7, <2>2 DEF ReplyCall
    <3> QED
      BY <3>1, <3>2, CountStep, ToldStep
  <2> QED
    BY <2>1, <2>2
<1>8. ASSUME NEW p \in Person, NEW facts \in RawFacts, ExtractCall(p, facts) PROVE ChaosInv'
  <2> DEFINE o == [call |-> "facts", mined |-> facts, facts |-> SanitiseFacts(facts)]
  <2>1. o.call = "facts" /\ o.mined = facts /\ o.facts = SanitiseFacts(facts)
    OBVIOUS
  <2>2. Spend(p) /\ Outcome(o)
    BY <1>8 DEF ExtractCall
  <2> HIDE DEF o
  <2>3. facts \in Mined
    BY ChaosAssumption DEF Mined
  <2>4. /\ FirstOf(o.facts, Filed(o.mined), Whole(o.mined), 8)
        /\ \A i \in DOMAIN o.facts :
             o.facts[i].category \in Category /\ o.facts[i].confidence \in 1..100
    BY <2>1, <2>3, FactsAreFirst
  <2> QED
    BY <2>1, <2>2, <2>4, CountStep, ToldStep
<1>9. ASSUME NEW p \in Person, NEW refs \in RawRefs, NEW threads \in SUBSET {"t1", "t2"},
             AskCall(p, refs, threads)
      PROVE  ChaosInv'
  <2> DEFINE o == [call |-> "answer", threads |-> threads, cites |-> ReferencesOf(refs, threads)]
  <2>1. o.call = "answer" /\ o.threads = threads /\ o.cites = ReferencesOf(refs, threads)
    OBVIOUS
  <2>2. Spend(p) /\ Outcome(o)
    BY <1>9 DEF AskCall
  <2> HIDE DEF o
  <2>3. refs \in Seq(STRING)
    BY ChaosAssumption
  <2>4. Len(o.cites) <= 3 /\ ToSet(o.cites) \subseteq o.threads
    BY <2>1, <2>3, CitesAreKnown
  <2> QED
    BY <2>1, <2>2, <2>4, CountStep, ToldStep
<1>10. ASSUME NEW n \in RawName, NameCall(n) PROVE ChaosInv'
  <2>1. Expires' /\ used' \in [Person -> 0..PerHour + 1] /\ ttl' \in [Person -> 0..Window]
    BY <1>10 DEF NameCall, ChaosInv, ChaosTypeOK, Expires
  <2>2. CASE n = 0
    BY <1>10, <2>1, <2>2, ToldStep DEF NameCall
  <2>3. CASE n # 0
    <3>1. NameOf(n) \in 1..40
      BY <2>3, ChaosAssumption DEF NameOf, Least
    <3> QED
      BY <1>10, <2>1, <2>3, <3>1, ToldStep DEF NameCall
  <2> QED
    BY <2>2, <2>3
<1> QED
  BY <1>1, <1>2, <1>3, <1>4, <1>5, <1>6, <1>7, <1>8, <1>9, <1>10 DEF ChaosNext

THEOREM ChaosInvHolds == ChaosSpec => []ChaosInv
BY ChaosInitInv, ChaosInvStep, PTL DEF ChaosSpec

\* Counts and windows stay within the hour's.
THEOREM ChaosTypes == ChaosSpec => []ChaosTypeOK
<1>1. ChaosInv => ChaosTypeOK
  BY DEF ChaosInv
<1> QED
  BY <1>1, ChaosInvHolds, PTL

\* Whoever has used some of the allowance has a window that will close: there is no
\* count without an expiry (AllowanceReturns without its fairness).
THEOREM AllowanceExpires == ChaosSpec => []Expires
<1>1. ChaosInv => Expires
  BY DEF ChaosInv
<1> QED
  BY <1>1, ChaosInvHolds, PTL

\* Every outcome of a call has the shape its caller is promised, whatever the model
\* sent: reply.go's Sanitise, sanitiseFacts, the citations of an ask, and a title.
THEOREM AnswersAreCut == ChaosSpec => []AnswersKeepShape
<1>1. ChaosInv => AnswersKeepShape
  BY DEF ChaosInv
<1> QED
  BY <1>1, ChaosInvHolds, PTL

-----------------------------------------------------------------------------
(***************************************************************************)
(* The parts together.  They share no state, so a step of one stutters in  *)
(* every other: what each promises alone, it promises in the whole.        *)
(***************************************************************************)
LEMMA OnePartMoves ==
    [MCNext]_mcVars =>
        /\ [PushNext]_pushVars /\ [MailNext]_mailVars /\ [AccNext]_accVars /\ [GroupNext]_grpVars
        /\ [ChaosNext]_chaosVars /\ [LinkNext]_linkVars /\ [HomeNext]_homeVars
<1> SUFFICES ASSUME [MCNext]_mcVars
             PROVE  /\ [PushNext]_pushVars /\ [MailNext]_mailVars /\ [AccNext]_accVars
                    /\ [GroupNext]_grpVars /\ [ChaosNext]_chaosVars /\ [LinkNext]_linkVars
                    /\ [HomeNext]_homeVars
  OBVIOUS
<1>1. CASE UNCHANGED mcVars
  BY <1>1 DEF mcVars
<1>2. ASSUME NEW p \in MCParts, Around(p)
      PROVE  /\ p # "push" => UNCHANGED pushVars
             /\ p # "mail" => UNCHANGED mailVars
             /\ p # "accounts" => UNCHANGED accVars
             /\ p # "groups" => UNCHANGED grpVars
             /\ p # "chaos" => UNCHANGED chaosVars
             /\ p # "links" => UNCHANGED linkVars
             /\ p # "home" => UNCHANGED homeVars
  BY <1>2 DEF Around
<1>3. CASE MCNext
  BY <1>2, <1>3 DEF MCNext, MCParts
<1> QED
  BY <1>1, <1>3

\* Every behaviour of the backend is one of each of its parts.
THEOREM PartsRun ==
    MCSpec => /\ PushSpec /\ MailSpec /\ AccSpec /\ GroupSpec /\ ChaosSpec /\ LinkSpec /\ HomeSpec
<1>1. MCInit => /\ PushInit /\ MailInit /\ AccInit /\ GroupInit /\ ChaosInit /\ LinkInit /\ HomeInit
  BY DEF MCInit
<1> QED
  BY <1>1, OnePartMoves, PTL
     DEF MCSpec, PushSpec, MailSpec, AccSpec, GroupSpec, ChaosSpec, LinkSpec, HomeSpec

\* Accounts, groups, devices, mails, links, allowances and lists are what the code
\* makes of them, in every state of the backend.
THEOREM TypesHold == MCSpec => []BackendTypes
<1>1. /\ PushTypeOK /\ MailTypeOK /\ AccTypeOK /\ GroupTypeOK
      /\ ChaosTypeOK /\ LinkTypeOK /\ HomeTypeOK
      => BackendTypes
  BY DEF BackendTypes
<1> QED
  BY <1>1, PartsRun, PushTypes, MailTypes, AccTypes, GroupTypes, ChaosTypes, LinkTypes, HomeTypes, PTL

\* And the parts keep their promises together.
COROLLARY PromisesHold ==
    MCSpec => [](/\ GoneIsSilent /\ LinksOverlap /\ ScrubStays /\ StaleHasCause
                 /\ DissolvedIsForgotten /\ PictureAlive /\ DotMatchesPreview
                 /\ Expires /\ AnswersKeepShape)
BY PartsRun, DeletedAreSilent, OneLink, Scrub, Cached, Forgotten, PicturesLive, DotsMatch,
   AllowanceExpires, AnswersAreCut, PTL

=============================================================================
