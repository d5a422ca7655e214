------------------------------ MODULE FetchProofs ------------------------------
(***************************************************************************)
(* Whatever is wanted, whoever is asked, and however many places there     *)
(* are: a source gives one answer, gives a part up only when every place   *)
(* was tried, and asks nobody it should not.                               *)
(***************************************************************************)
EXTENDS Fetch, WellFoundedInduction, TLAPS

-----------------------------------------------------------------------------
(* Going through places in order *)

LEMMA LeastPlace ==
  ASSUME NEW S \in SUBSET Nat, S # {}
  PROVE  \E k \in S : \A j \in S : k <= j
<1> DEFINE R == OpToRel(<, Nat)
<1>1. PICK k \in S : \A j \in S : ~(<<j, k>> \in R)
  <2>1. IsWellFoundedOn(R, Nat)
    BY NatLessThanWellFounded
  <2> HIDE DEF R
  <2> QED
    BY <2>1, WFMin
<1>2. \A j \in S : ~(j < k)
  BY <1>1 DEF OpToRel
<1> QED
  BY <1>2

\* While a place is left there is a first one.
LEMMA FirstIs ==
  ASSUME NEW S \in SUBSET Nat, S # {}
  PROVE  First(S) \in S /\ \A j \in S : First(S) <= j
BY LeastPlace DEF First

\* Dropping repetitions drops no element.
LEMMA DistinctKeeps ==
  ASSUME NEW S \in SUBSET Nat, NEW s, NEW k \in S
  PROVE  /\ Distinct(s, S) \subseteq S
         /\ \E j \in Distinct(s, S) : s[j] = s[k]
<1> DEFINE T == {j \in S : s[j] = s[k]}
<1>1. PICK j \in T : \A i \in T : j <= i
  BY LeastPlace
<1> QED
  BY <1>1 DEF Distinct

\* What a wanted part is made of.
LEMMA PartIs ==
  ASSUME part \in Wanted
  PROVE  /\ part.kind \in {"walrus", "piece", "folder"}
         /\ part.kind = "walrus" =>
              /\ part.named \in Seq(Addresses) /\ part.recorded \in Seq(Addresses)
              /\ part.allow \in BOOLEAN /\ part.chain \in DOMAIN OnChain
         /\ part.kind = "piece" => part.copies \in Seq([company : Companies, url : Addresses])
         /\ Defaults \in Seq(Addresses)
         /\ Nobody \notin Addresses /\ Https \subseteq Addresses
BY FetchAssumption DEF FetchAssumption, Parts

LEMMA CopiesAre ==
  ASSUME part \in Wanted, part.kind = "piece"
  PROVE  /\ DOMAIN part.copies \in SUBSET Nat
         /\ \A k \in DOMAIN part.copies :
              part.copies[k].company \in Companies /\ part.copies[k].url \in Addresses
<1> DEFINE T == [company : Companies, url : Addresses]
           c == part.copies
<1>1. c \in Seq(T)
  BY PartIs
<1>2. DOMAIN c \in SUBSET Nat /\ \A k \in DOMAIN c : c[k] \in T
  <2> HIDE DEF T, c
  <2> QED
    BY <1>1
<1> QED
  BY <1>2

\* The candidates are the built-in endpoints, twice, and the recorded ones.
LEMMA CandidatesAre ==
  ASSUME part \in Wanted, part.kind = "walrus"
  PROVE  /\ Len(Defaults) \in Nat /\ Len(part.recorded) \in Nat
         /\ Candidates(part) \in Seq(Addresses)
         /\ DOMAIN Defaults = 1 .. Len(Defaults)
         /\ DOMAIN part.recorded = 1 .. Len(part.recorded)
         /\ DOMAIN Candidates(part) = 1 .. Len(Defaults) + Len(Defaults) + Len(part.recorded)
         /\ \A k \in 1 .. Len(Defaults) :
              /\ Candidates(part)[k] = Defaults[k]
              /\ Candidates(part)[Len(Defaults) + k] = Defaults[k]
         /\ \A k \in 1 .. Len(part.recorded) :
              Candidates(part)[Len(Defaults) + Len(Defaults) + k] = part.recorded[k]
<1>1. Defaults \in Seq(Addresses) /\ part.recorded \in Seq(Addresses)
  BY PartIs
<1> DEFINE d == Defaults
           r == part.recorded
<1>2. Candidates(part) = d \o d \o r
  BY DEF Candidates
<1> HIDE DEF d, r
<1>3. d \in Seq(Addresses) /\ r \in Seq(Addresses)
  BY <1>1 DEF d, r
<1>4. /\ d \o d \in Seq(Addresses) /\ Len(d \o d) = Len(d) + Len(d)
      /\ \A k \in 1 .. Len(d) : (d \o d)[k] = d[k] /\ (d \o d)[Len(d) + k] = d[k]
  BY <1>3
<1> DEFINE e == d \o d
<1>5. /\ e \o r \in Seq(Addresses) /\ Len(e \o r) = Len(e) + Len(r)
      /\ \A k \in 1 .. Len(e) : (e \o r)[k] = e[k]
      /\ \A k \in 1 .. Len(r) : (e \o r)[Len(e) + k] = r[k]
  <2> HIDE DEF e
  <2> QED
    BY <1>3, <1>4 DEF e
<1>6. Candidates(part) = e \o r
  BY <1>2
<1>7. Len(d) \in Nat /\ Len(r) \in Nat /\ DOMAIN d = 1 .. Len(d) /\ DOMAIN r = 1 .. Len(r)
  BY <1>3
<1>8. Len(e) = Len(d) + Len(d) /\ \A k \in 1 .. Len(d) : e[k] = d[k] /\ e[Len(d) + k] = d[k]
  BY <1>4
<1> HIDE DEF e
<1>9. DOMAIN (e \o r) = 1 .. Len(d) + Len(d) + Len(r)
  BY <1>5, <1>8
<1>10. \A k \in 1 .. Len(d) : k \in 1 .. Len(e) /\ Len(d) + k \in 1 .. Len(e)
  BY <1>7, <1>8
<1> QED
  BY <1>5, <1>6, <1>7, <1>8, <1>9, <1>10 DEF d, r

-----------------------------------------------------------------------------
(* The invariant *)

\* The places of the addresses being gone through are places of it.
TypeOK ==
  /\ part \in Wanted /\ up \subseteq Addresses
  /\ registry \in [Companies -> Addresses \union {Nobody}]
  /\ due \subseteq Nat
  /\ firms \subseteq Nat
  /\ firms # {} => part.kind = "piece" /\ firms \subseteq DOMAIN part.copies
  /\ tried \subseteq Addresses /\ asked \subseteq Addresses
  /\ handed \in BOOLEAN /\ answer \in {"none", "taken", "rejected", "unavailable"}
  /\ \A k \in due : route[k] \in Addresses

\* Nothing is handed over before the answer is known, and no answer is taken
\* back: while the search goes on nothing was handed over.
NothingYet == answer = "none" => ~handed

\* No place is forgotten: one that may be asked was tried, or its turn comes, or
\* the company that is there is still to be looked up.
NoneForgotten ==
  \A a \in Places :
    \/ a \in tried
    \/ \E k \in due : route[k] = a
    \/ \E k \in firms : registry[part.copies[k].company] = a

\* What was tried and may be asked is of no use.
TriedInVain == \A a \in tried : MayAsk(a) => a \notin up

\* Giving up is for the end.
GivenUpLast == answer = "unavailable" => due = {} /\ firms = {}

\* Whom a Walrus part is asked for does not change on the way.
OnTheRoute ==
  part.kind = "walrus" =>
    /\ firms = {} /\ route = FirstAddresses(part) /\ due \subseteq EndpointsFor(part)
    /\ asked \subseteq {route[k] : k \in EndpointsFor(part)}

IInv ==
  /\ TypeOK /\ NothingYet
  /\ NoneForgotten /\ TriedInVain /\ GivenUpLast
  /\ OnTheRoute

LEMMA AddressIs ==
  ASSUME TypeOK, due # {}
  PROVE  First(due) \in due /\ First(due) \in Nat /\ Address \in Addresses
<1>1. due \in SUBSET Nat /\ \A k \in due : route[k] \in Addresses
  BY DEF TypeOK
<1>2. First(due) \in due
  BY <1>1, FirstIs
<1> QED
  BY <1>1, <1>2 DEF Address

\* The first company left is one of the part's, and its address an address.
LEMMA CurrentIs ==
  ASSUME TypeOK, firms # {}
  PROVE  /\ part.kind = "piece" /\ First(firms) \in firms
         /\ First(firms) \in DOMAIN part.copies
         /\ Current \in Addresses \union {Nobody}
<1>1. /\ part.kind = "piece" /\ firms \subseteq DOMAIN part.copies
      /\ firms \in SUBSET Nat /\ First(firms) \in firms
  <2>1. firms \in SUBSET Nat
    BY DEF TypeOK
  <2> QED
    BY <2>1, FirstIs DEF TypeOK
<1>2. part.copies[First(firms)].company \in Companies
  BY <1>1, CopiesAre DEF TypeOK
<1>3. registry \in [Companies -> Addresses \union {Nobody}]
  BY DEF TypeOK
<1> QED
  BY <1>1, <1>2, <1>3 DEF Current

\* The addresses a part is first looked for at.
LEMMA FirstRoute ==
  ASSUME part \in Wanted
  PROVE  /\ FirstPlaces(part) \subseteq Nat
         /\ \A k \in FirstPlaces(part) : FirstAddresses(part)[k] \in Addresses
         /\ part.kind = "piece" =>
              /\ FirstPlaces(part) = DOMAIN part.copies
              /\ \A k \in DOMAIN part.copies : FirstAddresses(part)[k] = part.copies[k].url
         /\ part.kind = "folder" =>
              FirstPlaces(part) = {1} /\ FirstAddresses(part)[1] = part.file
<1>1. CASE part.kind = "walrus" /\ part.named # <<>>
  <2>1. FirstAddresses(part) = part.named /\ FirstPlaces(part) = DOMAIN part.named
    BY <1>1 DEF FirstAddresses, FirstPlaces, EndpointsFor
  <2> QED
    BY <1>1, <2>1, PartIs
<1>2. CASE part.kind = "walrus" /\ part.named = <<>>
  <2>1. /\ FirstAddresses(part) = Candidates(part)
        /\ FirstPlaces(part) \subseteq DOMAIN Candidates(part)
    BY <1>2 DEF FirstAddresses, FirstPlaces, EndpointsFor, Distinct, Usable
  <2>2. Candidates(part) \in Seq(Addresses)
    BY <1>2, CandidatesAre
  <2> QED
    BY <1>2, <2>1, <2>2
<1>3. CASE part.kind = "piece"
  <2>1. FirstAddresses(part) = [k \in DOMAIN part.copies |-> part.copies[k].url]
    BY <1>3 DEF FirstAddresses
  <2>2. FirstPlaces(part) = DOMAIN part.copies
    BY <1>3, <2>1 DEF FirstPlaces
  <2> QED
    BY <1>3, <2>1, <2>2, CopiesAre
<1>4. CASE part.kind = "folder"
  <2>1. FirstAddresses(part) = <<part.file>> /\ part.file \in Addresses
    BY <1>4, FetchAssumption DEF FirstAddresses, FetchAssumption, Parts
  <2>2. DOMAIN <<part.file>> = {1}
    OBVIOUS
  <2> QED
    BY <1>4, <2>1, <2>2 DEF FirstPlaces
<1> QED
  BY <1>1, <1>2, <1>3, <1>4, PartIs

\* Every endpoint that was named, or that is built in, or that may be used, has
\* its place on the route.
LEMMA EndpointsAre ==
  ASSUME part \in Wanted, part.kind = "walrus", NEW a \in Places
  PROVE  \E k \in FirstPlaces(part) : FirstAddresses(part)[k] = a
<1>1. CASE part.named # <<>>
  BY <1>1 DEF FirstAddresses, FirstPlaces, EndpointsFor, Places, ToSet
<1>2. CASE part.named = <<>>
  <2> DEFINE n == Len(Defaults)
             m == Len(part.recorded)
             c == Candidates(part)
  <2>1. FirstAddresses(part) = c /\ FirstPlaces(part) = Distinct(c, Usable(part))
    BY <1>2 DEF FirstAddresses, FirstPlaces, EndpointsFor
  <2>2. Usable(part) \in SUBSET Nat
    <3>1. Usable(part) \subseteq DOMAIN c
      BY DEF Usable
    <3>2. c \in Seq(Addresses)
      BY CandidatesAre
    <3> HIDE DEF c
    <3> QED
      BY <3>1, <3>2
  <2>4. /\ n \in Nat /\ m \in Nat /\ DOMAIN c = 1 .. n + n + m
        /\ \A k \in 1 .. n : c[n + k] = Defaults[k]
        /\ \A k \in 1 .. m : c[n + n + k] = part.recorded[k]
    BY CandidatesAre
  <2>5. \A k \in DOMAIN c :
          (k <= n => Defaults[k] \in OnChain[part.chain]) /\ (k > 2 * n => part.allow)
            => k \in Usable(part)
    BY DEF Usable
  <2>3. \E k \in Usable(part) : c[k] = a
    <3>1. CASE a \in ToSet(Defaults)
      <4>1. PICK k \in 1 .. n : Defaults[k] = a
        BY <3>1, CandidatesAre DEF ToSet
      <4>2. c[n + k] = a
        BY <4>1, <2>4
      <4>3. n + k \in DOMAIN c /\ ~(n + k > 2 * n) /\ ~(n + k <= n)
        <5> HIDE DEF n, m, c
        <5> QED
          BY <4>1, <2>4
      <4> QED
        BY <2>5, <4>2, <4>3
    <3>2. CASE part.allow /\ a \in ToSet(part.recorded)
      <4>1. PICK k \in 1 .. m : part.recorded[k] = a
        BY <3>2, CandidatesAre DEF ToSet
      <4>2. c[n + n + k] = a
        BY <4>1, <2>4
      <4>3. n + n + k \in DOMAIN c /\ ~(n + n + k <= n)
        <5> HIDE DEF n, c, m
        <5> QED
          BY <4>1, <2>4
      <4> QED
        BY <2>5, <3>2, <4>2, <4>3
    <3> QED
      BY <1>2, <3>1, <3>2, PartIs DEF Places
  <2> QED
    BY <2>1, <2>2, <2>3, DistinctKeeps
<1> QED
  BY <1>1, <1>2

\* Each company has a copy that stands for it.
LEMMA CompaniesAre ==
  ASSUME part \in Wanted, part.kind = "piece"
  PROVE  /\ CompaniesOf(part.copies) \subseteq DOMAIN part.copies
         /\ \A k \in DOMAIN part.copies : \E j \in CompaniesOf(part.copies) :
              part.copies[j].company = part.copies[k].company
<1> DEFINE s == [k \in DOMAIN part.copies |-> part.copies[k].company]
           S == DOMAIN part.copies
<1>1. S \in SUBSET Nat
  BY PartIs
<1>2. CompaniesOf(part.copies) = Distinct(s, S)
  BY DEF CompaniesOf
<1>3. Distinct(s, S) \subseteq S
  BY DEF Distinct
<1>4. ASSUME NEW k \in S
      PROVE  \E j \in Distinct(s, S) : part.copies[j].company = part.copies[k].company
  <2>1. PICK j \in Distinct(s, S) : s[j] = s[k]
    <3> HIDE DEF s, S
    <3> QED
      BY <1>1, DistinctKeeps
  <2> QED
    BY <1>3, <2>1
<1> QED
  BY <1>2, <1>3, <1>4

LEMMA InitIs == FetchInit => IInv
<1> SUFFICES ASSUME FetchInit PROVE IInv
  OBVIOUS
<1>1. /\ part \in Wanted /\ route = FirstAddresses(part) /\ due = FirstPlaces(part)
      /\ firms = IF part.kind = "piece" /\ part.chain \in KnownChains
                 THEN CompaniesOf(part.copies) ELSE {}
      /\ tried = {} /\ asked = {} /\ answer = "none"
  BY DEF FetchInit
<1>2. firms # {} => part.kind = "piece" /\ firms \subseteq DOMAIN part.copies
  BY <1>1, CompaniesAre
<1>3. firms \subseteq Nat
  <2>1. part.kind = "piece" => DOMAIN part.copies \subseteq Nat
    BY <1>1, PartIs
  <2> QED
    BY <1>2, <2>1
<1>4. TypeOK
  BY <1>1, <1>2, <1>3, FirstRoute DEF FetchInit, TypeOK
<1>5. NoneForgotten
  <2> SUFFICES ASSUME NEW a \in Places
               PROVE  \/ \E k \in due : route[k] = a
                      \/ \E k \in firms : registry[part.copies[k].company] = a
    BY DEF NoneForgotten
  <2>1. CASE part.kind = "walrus"
    BY <1>1, <2>1, EndpointsAre
  <2>2. CASE part.kind = "folder"
    BY <1>1, <2>2, FirstRoute DEF Places
  <2>3. CASE part.kind = "piece"
    <3>1. CASE \E k \in DOMAIN part.copies : part.copies[k].url = a
      BY <1>1, <2>3, <3>1, FirstRoute
    <3>2. CASE /\ part.chain \in KnownChains
               /\ \E k \in DOMAIN part.copies : registry[part.copies[k].company] = a
      BY <1>1, <2>3, <3>2, CompaniesAre
    <3> QED
      BY <2>3, <3>1, <3>2 DEF Places
  <2> QED
    BY <1>1, <2>1, <2>2, <2>3, PartIs
<1>6. OnTheRoute
  BY <1>1 DEF OnTheRoute, FirstPlaces
<1> QED
  BY <1>1, <1>4, <1>5, <1>6 DEF FetchInit, IInv, NothingYet, TriedInVain, GivenUpLast

-----------------------------------------------------------------------------
(* The steps *)

LEMMA PlacesStay == ASSUME UNCHANGED <<outside, part>> PROVE Places' = Places
BY DEF outside, Places

\* An address that is of no use is done with: what may be asked of it was.
LEMMA OneIsTried ==
  ASSUME IInv, Turn, MayAsk(Address) => Address \notin up,
         due' = due \ {First(due)}, tried' = tried \union {Address},
         asked' = asked \union {Address} \/ asked' = asked,
         UNCHANGED <<outside, part, route, firms, handed, answer>>
  PROVE  IInv'
<1>1. First(due) \in due /\ First(due) \in Nat /\ Address \in Addresses
  BY AddressIs DEF IInv, Turn
<1>2. TypeOK'
  BY <1>1 DEF IInv, TypeOK, outside
<1>3. NoneForgotten'
  <2> SUFFICES ASSUME NEW a \in Places
               PROVE  \/ a \in tried'
                      \/ \E k \in due' : route[k] = a
                      \/ \E k \in firms : registry[part.copies[k].company] = a
    BY PlacesStay DEF NoneForgotten, outside
  <2>1. CASE \E k \in due : route[k] = a
    BY <2>1 DEF Address
  <2> QED
    BY <2>1 DEF IInv, NoneForgotten
<1>4. TriedInVain'
  BY DEF IInv, TriedInVain, MayAsk, outside
<1>5. OnTheRoute'
  BY <1>1 DEF IInv, OnTheRoute, Address
<1>6. GivenUpLast' /\ NothingYet'
  BY DEF IInv, GivenUpLast, NothingYet
<1> QED
  BY <1>2, <1>3, <1>4, <1>5, <1>6 DEF IInv

LEMMA HandsOverKeeps == ASSUME IInv, HandsOver PROVE IInv'
<1>1. First(due) \in due /\ First(due) \in Nat /\ Address \in Addresses
  BY AddressIs DEF IInv, HandsOver, Turn
<1>2. TypeOK'
  BY <1>1 DEF IInv, TypeOK, HandsOver, outside
<1>3. NoneForgotten'
  BY PlacesStay DEF IInv, NoneForgotten, HandsOver, outside
<1>4. TriedInVain' /\ GivenUpLast' /\ NothingYet'
  BY DEF IInv, TriedInVain, GivenUpLast, NothingYet, MayAsk, HandsOver, outside
<1>5. OnTheRoute'
  BY <1>1 DEF IInv, OnTheRoute, Address, HandsOver
<1> QED
  BY <1>2, <1>3, <1>4, <1>5 DEF IInv

LEMMA LookUpKeeps == ASSUME IInv, LookUp PROVE IInv'
<1>1. /\ answer = "none" /\ due = {} /\ firms # {}
      /\ firms' = firms \ {First(firms)} /\ route' = <<Current>>
      /\ due' = IF Current \in tried \union {Nobody} THEN {} ELSE {1}
      /\ UNCHANGED <<outside, part, tried, asked, handed, answer>>
  BY DEF LookUp
<1>2. /\ part.kind = "piece" /\ First(firms) \in firms
      /\ First(firms) \in DOMAIN part.copies /\ Current \in Addresses \union {Nobody}
  BY <1>1, CurrentIs DEF IInv
<1>3. route'[1] = Current
  BY <1>1
<1>4. TypeOK'
  <2>1. due' \subseteq Nat /\ \A k \in due' : route'[k] \in Addresses
    BY <1>1, <1>2, <1>3
  <2> QED
    BY <1>1, <1>2, <2>1 DEF IInv, TypeOK, outside
<1>5. NoneForgotten'
  <2> SUFFICES ASSUME NEW a \in Places
               PROVE  \/ a \in tried
                      \/ \E k \in due' : route'[k] = a
                      \/ \E k \in firms' : registry[part.copies[k].company] = a
    BY <1>1, PlacesStay DEF NoneForgotten, outside
  <2>1. CASE \E k \in firms : registry[part.copies[k].company] = a
    <3>1. a # Nobody
      BY <1>2, PartIs DEF Places, IInv, TypeOK
    <3>2. a = Current => a \in tried \/ \E k \in due' : route'[k] = a
      BY <1>1, <1>3, <3>1
    <3> QED
      BY <1>1, <2>1, <3>2 DEF Current
  <2> QED
    BY <1>1, <2>1 DEF IInv, NoneForgotten
<1>6. TriedInVain' /\ GivenUpLast' /\ NothingYet'
  BY <1>1 DEF IInv, TriedInVain, GivenUpLast, NothingYet, MayAsk, outside
<1>7. OnTheRoute'
  BY <1>1, <1>2 DEF OnTheRoute
<1> QED
  BY <1>4, <1>5, <1>6, <1>7 DEF IInv

LEMMA NobodyLeftKeeps == ASSUME IInv, NobodyLeft PROVE IInv'
<1>1. NoneForgotten'
  BY PlacesStay DEF IInv, NoneForgotten, NobodyLeft, outside
<1>2. TypeOK' /\ TriedInVain' /\ GivenUpLast' /\ NothingYet' /\ OnTheRoute'
  BY DEF IInv, TypeOK, TriedInVain, GivenUpLast, NothingYet, OnTheRoute, MayAsk, NobodyLeft, outside
<1> QED
  BY <1>1, <1>2 DEF IInv

\* The invariant: what is typed, what has been tried and what is still to come
\* together are everything a part may be asked for (HttpSource::open, fetch_piece).
THEOREM Invariant == FetchSpec => []IInv
<1>1. IInv /\ [FetchNext]_fetchvars => IInv'
  <2> SUFFICES ASSUME IInv, [FetchNext]_fetchvars PROVE IInv'
    OBVIOUS
  <2>1. CASE NotHttps
    BY <2>1, OneIsTried DEF NotHttps
  <2>2. CASE NoUse
    BY <2>2, OneIsTried DEF NoUse
  <2>3. CASE UNCHANGED fetchvars
    <3>1. Places' = Places
      BY <2>3, PlacesStay DEF fetchvars
    <3> QED
      BY <2>3, <3>1
      DEF fetchvars, outside, IInv, TypeOK, NothingYet, NoneForgotten, TriedInVain, GivenUpLast,
          OnTheRoute, MayAsk
  <2> QED
    BY <2>1, <2>2, <2>3, HandsOverKeeps, LookUpKeeps, NobodyLeftKeeps DEF FetchNext
<1> QED
  BY <1>1, InitIs, PTL DEF FetchSpec

\* A part is given up only if no place that may be asked for it has it: what is
\* left to be tried then is nothing, and what was tried was in vain.
THEOREM EveryPlaceIsTried == FetchSpec => []OnePlaceIsEnough
<1>1. IInv => OnePlaceIsEnough
  <2> SUFFICES ASSUME IInv, answer = "unavailable", NEW a \in up \intersect Places
               PROVE  FALSE
    BY DEF OnePlaceIsEnough
  <2>1. a \in tried /\ ~MayAsk(a)
    BY DEF IInv, NoneForgotten, GivenUpLast, TriedInVain
  <2>2. part.kind = "piece" /\ a \notin Https
    BY <2>1 DEF MayAsk
  <2> QED
    BY <2>2 DEF Places
<1> QED
  BY <1>1, Invariant, PTL

\* Only whom the person named is asked, if anyone; an endpoint that only the list
\* names is asked only if the person allowed it (endpoints_for).
THEOREM NobodyElseIsAsked == FetchSpec => []HeldBackIsNotAsked
<1>1. IInv => HeldBackIsNotAsked
  <2> SUFFICES ASSUME IInv, part.kind = "walrus", part.named # <<>> \/ ~part.allow
               PROVE  asked \subseteq ToSet(IF part.named # <<>> THEN part.named ELSE Defaults)
    BY DEF HeldBackIsNotAsked
  <2>1. /\ part \in Wanted /\ asked \subseteq {route[k] : k \in EndpointsFor(part)}
        /\ route = FirstAddresses(part)
    BY DEF IInv, TypeOK, OnTheRoute
  <2>2. CASE part.named # <<>>
    BY <2>1, <2>2 DEF FirstAddresses, EndpointsFor, ToSet
  <2>3. CASE part.named = <<>>
    <3> DEFINE n == Len(Defaults)
               c == Candidates(part)
    <3>1. route = c /\ EndpointsFor(part) \subseteq Usable(part)
      BY <2>1, <2>3 DEF FirstAddresses, EndpointsFor, Distinct
    <3>2. ASSUME NEW k \in Usable(part) PROVE c[k] \in ToSet(Defaults)
      <4>1. k \in DOMAIN c /\ ~(k > 2 * n)
        BY <2>3 DEF Usable
      <4>2. /\ n \in Nat /\ DOMAIN Defaults = 1 .. n
            /\ \A j \in 1 .. n : c[j] = Defaults[j] /\ c[n + j] = Defaults[j]
            /\ c \in Seq(Addresses)
        BY <2>1, CandidatesAre
      <4>3. \E j \in 1 .. n : k = j \/ k = n + j
        <5> HIDE DEF n, c
        <5>1. CASE k <= n
          BY <4>1, <4>2, <5>1
        <5>2. CASE k > n
          <6>1. k \in Nat /\ n \in Nat /\ k <= 2 * n
            <7>1. k \in Nat
              BY <4>1, <4>2
            <7> QED
              BY <7>1, <4>1, <4>2
          <6>2. k - n \in 1 .. n /\ k = n + (k - n)
            BY <6>1, <5>2
          <6> QED
            BY <6>2
        <5> QED
            BY <4>1, <4>2, <5>2, SMTT(30)
      <4> QED
        BY <4>2, <4>3 DEF ToSet
    <3> QED
      BY <2>1, <2>3, <3>1, <3>2
  <2> QED
    BY <2>2, <2>3
<1> QED
  BY <1>1, Invariant, PTL

\* HttpSource, DirSource and fetch_piece implement the contract of BlobSource:
\* bytes are handed to the caller at most once, its verdict on them is final, and
\* a part is called unavailable only if nothing was handed over.
THEOREM OneAnswerEach == FetchSpec => GivesOneAnswer
<1>1. FetchInit => Answer!Init
  BY DEF FetchInit, Answer!Init
<1>2. IInv /\ [FetchNext]_fetchvars
        => [Answer!HandOver \/ Answer!GiveUp]_<<handed, answer>>
  <2> SUFFICES ASSUME IInv, [FetchNext]_fetchvars
               PROVE  [Answer!HandOver \/ Answer!GiveUp]_<<handed, answer>>
    OBVIOUS
  <2>1. CASE NotHttps
    BY <2>1 DEF NotHttps
  <2>2. CASE NoUse
    BY <2>2 DEF NoUse
  <2>3. CASE HandsOver
    BY <2>3 DEF HandsOver, Turn, IInv, NothingYet, Answer!HandOver
  <2>4. CASE LookUp
    BY <2>4 DEF LookUp
  <2>5. CASE NobodyLeft
    BY <2>5 DEF NobodyLeft, IInv, NothingYet, Answer!GiveUp
  <2>6. CASE UNCHANGED fetchvars
    BY <2>6 DEF fetchvars
  <2> QED
    BY <2>1, <2>2, <2>3, <2>4, <2>5, <2>6 DEF FetchNext
<1> QED
  BY <1>1, <1>2, Invariant, PTL DEF FetchSpec, Answer!Spec, GivesOneAnswer
=============================================================================
