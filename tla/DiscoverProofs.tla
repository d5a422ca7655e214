----------------------------- MODULE DiscoverProofs -----------------------------
(***************************************************************************)
(* What a search finds, for any addresses, any ledgers, pages of any size, *)
(* any nodes of which the first is of the account's own network, and any   *)
(* aggregators of which one is.                                            *)
(***************************************************************************)
EXTENDS Discover, WellFoundedInduction, TLAPS

\* The first node is of the account's network, and an aggregator is: so it is
\* with the built-in ones for an account of the main network.
HomeFirst ==
  /\ Rpcs[1] = Home
  /\ \E k \in DOMAIN Aggregators : Aggregators[k] = Home

\* Every node is.  Where one is not a search may end with nothing to report and
\* nothing found.
OwnNodes == \A k \in DOMAIN Rpcs : Rpcs[k] = Home

\* The places of the bundles among what the address at position I owns.
Bundles(i) == {k \in DOMAIN ledger[Owners[i]] : ledger[Owners[i]][k] \in Quilts}

IsList(q) == Patch[q] # NoList /\ Patch[q].opens

\* What was kept is a list of this account, and the one of its bundle.
FoundIs ==
  \/ found = [quilt |-> NoList, list |-> NoList]
  \/ \E q \in Quilts : IsList(q) /\ found = [quilt |-> q, list |-> Patch[q]]

TypeOK ==
  /\ ledger \in Ledgers /\ steady \in Steadies
  /\ at \in {"ask", "fetch", "over"}
  /\ owner \in 1 .. Len(Owners) + 1 /\ (at = "over" <=> owner = Len(Owners) + 1)
  /\ rpc \in 1 .. Len(Rpcs) /\ agg \in 1 .. Len(Aggregators)
  /\ pages \in Nat /\ failed \in BOOLEAN /\ truncated \in BOOLEAN

\* What was read of the address being looked up, and what is left of it.
Place ==
  /\ at = "ask" =>
       /\ pages < MaxPages
       /\ IF Rpcs[rpc] = Home THEN ids = {k \in Bundles(owner) : k <= pages * PageSize}
                              ELSE ids = {} /\ Owners[owner] \notin steady
  /\ at = "fetch" => todo # {} /\ todo \subseteq Bundles(owner)

\* While no aggregator has failed to answer, those that were asked do not have
\* the bundle; one fails only for an address that may be failed for.
Asked ==
  at = "fetch" =>
    /\ failed => Owners[owner] \notin steady
    /\ ~failed => \A k \in 1 .. agg - 1 : Aggregators[k] = Home => Patch[Quilt] = NoList

\* The bundle was considered: the list kept is no worse, and a tie was told.
Considered(q) ==
  IsList(q) =>
    /\ found.list # NoList /\ ~Supersedes(Patch[q], found.list)
    /\ Patch[q].seq = found.list.seq /\ q # found.quilt => "tie" \in problems

Waiting(i, k) ==
  \/ owner < i
  \/ owner = i /\ at = "ask"
  \/ owner = i /\ at = "fetch" /\ k \in todo

\* What a bundle that was not considered is made up for by.
Excused(i) ==
  \/ truncated /\ MaxPages * PageSize < Len(ledger[Owners[i]])
  \/ /\ Owners[i] \notin steady
     /\ problems \intersect {"node", "patch"} # {} \/ ~OwnNodes

Settled ==
  \A i \in DOMAIN Owners : \A k \in Bundles(i) : \A q \in Quilts :
    ledger[Owners[i]][k] = q => Waiting(i, k) \/ Excused(i) \/ Considered(q)

IInv == TypeOK /\ FoundIs /\ Place /\ Asked /\ Settled

-----------------------------------------------------------------------------
(* The order of lists, and the first of some places *)

\* Which of two lists is the better one is never circular.
LEMMA SupersedesIs ==
  ASSUME NEW m \in Lists, NEW n \in Lists, NEW p \in Lists
  PROVE  /\ ~Supersedes(m, m)
         /\ Supersedes(m, n) /\ Supersedes(n, p) => Supersedes(m, p)
         /\ Supersedes(m, n) => m.seq >= n.seq
         /\ ~Supersedes(m, n) => m.seq <= n.seq
<1>1. /\ m.seq \in Nat /\ m.items \in Nat /\ m.at \in Nat
      /\ n.seq \in Nat /\ n.items \in Nat /\ n.at \in Nat
      /\ p.seq \in Nat /\ p.items \in Nat /\ p.at \in Nat
  BY DEF Lists
<1> QED
  BY <1>1 DEF Supersedes

LEMMA PatchIs ==
  ASSUME NEW q \in Quilts
  PROVE  /\ Patch[q] \in Lists \union {NoList} /\ NoList \notin Lists
         /\ IsList(q) => Patch[q] \in Lists
BY DiscoverAssumption DEF DiscoverAssumption, IsList

LEMMA LeastPlace ==
  ASSUME NEW S \in SUBSET Nat, S # {}
  PROVE  \E k \in S : \A j \in S : k <= j
<1> DEFINE R == OpToRel(<, Nat)
<1>1. PICK k \in S : \A j \in S : ~(<<j, k>> \in R)
  <2>1. IsWellFoundedOn(R, Nat)
    BY NatLessThanWellFounded
  <2> HIDE DEF R
  <2> QED
    BY <2>1, WFMin
<1>2. \A j \in S : ~(j < k)
  BY <1>1 DEF OpToRel
<1> QED
  BY <1>2

LEMMA Sizes ==
  /\ PageSize \in Nat \ {0} /\ MaxPages \in Nat \ {0}
  /\ Len(Owners) \in Nat \ {0} /\ DOMAIN Owners = 1 .. Len(Owners)
  /\ Len(Rpcs) \in Nat \ {0} /\ DOMAIN Rpcs = 1 .. Len(Rpcs)
  /\ Len(Aggregators) \in Nat \ {0} /\ DOMAIN Aggregators = 1 .. Len(Aggregators)
BY DiscoverAssumption DEF DiscoverAssumption

LEMMA BundlesAre ==
  ASSUME TypeOK, NEW i \in DOMAIN Owners
  PROVE  /\ Len(ledger[Owners[i]]) \in Nat
         /\ Bundles(i) = {k \in 1 .. Len(ledger[Owners[i]]) : ledger[Owners[i]][k] \in Quilts}
         /\ Bundles(i) \subseteq Nat
         /\ \A k \in Bundles(i) : ledger[Owners[i]][k] \in Quilts
BY DiscoverAssumption DEF DiscoverAssumption, TypeOK, Bundles

\* Where the search is.
LEMMA AtWork ==
  ASSUME TypeOK, at # "over"
  PROVE  owner \in DOMAIN Owners /\ owner \in 1 .. Len(Owners) /\ owner \in Nat
BY Sizes DEF TypeOK

\* The bundle that is being examined is one that is left.
LEMMA ThisIs ==
  ASSUME TypeOK, Place, at = "fetch"
  PROVE  /\ This \in todo /\ This \in Bundles(owner) /\ Quilt \in Quilts
         /\ Others \subseteq Bundles(owner)
<1>1. owner \in DOMAIN Owners /\ todo # {} /\ todo \subseteq Bundles(owner)
  BY AtWork DEF Place
<1>2. todo \in SUBSET Nat
  BY <1>1, BundlesAre
<1>3. \E k \in todo : \A j \in todo : k <= j
  BY <1>1, <1>2, LeastPlace
<1>4. This \in todo
  BY <1>3 DEF This
<1> QED
  BY <1>1, <1>4, BundlesAre DEF Quilt, Others

-----------------------------------------------------------------------------
(* What a step keeps *)

\* Nothing that was told is taken back.
Tells == problems \subseteq problems' /\ (truncated => truncated') /\ UNCHANGED world

\* Q's list is kept from now on, as a better one.
Takes(q) ==
  /\ IsList(q) /\ found' = [quilt |-> q, list |-> Patch[q]]
  /\ found.list = NoList \/ Supersedes(Patch[q], found.list)
  /\ found.list # NoList /\ Patch[q].seq = found.list.seq /\ q # found.quilt =>
       "tie" \in problems'

Keeps == UNCHANGED found \/ \E q \in Quilts : Takes(q)

\* What was considered stays considered.
LEMMA StaysConsidered ==
  ASSUME FoundIs, Tells, Keeps, NEW r \in Quilts, Considered(r)
  PROVE  Considered(r)'
<1> SUFFICES ASSUME IsList(r)
    PROVE  /\ found'.list # NoList /\ ~Supersedes(Patch[r], found'.list)
           /\ Patch[r].seq = found'.list.seq /\ r # found'.quilt => "tie" \in problems'
  BY DEF Considered, IsList
<1>1. /\ found.list # NoList /\ ~Supersedes(Patch[r], found.list)
      /\ Patch[r].seq = found.list.seq /\ r # found.quilt => "tie" \in problems
  BY DEF Considered
<1>2. CASE UNCHANGED found
  BY <1>1, <1>2 DEF Tells
<1>3. CASE found' # found
  <2>0. PICK q \in Quilts : Takes(q)
    BY <1>3 DEF Keeps
  <2>1. /\ IsList(q) /\ found'.list = Patch[q] /\ found'.quilt = q
        /\ Supersedes(Patch[q], found.list)
        /\ Patch[q].seq = found.list.seq /\ q # found.quilt => "tie" \in problems'
    BY <1>1, <2>0 DEF Takes
  <2>2. /\ Patch[q] \in Lists /\ Patch[r] \in Lists /\ NoList \notin Lists
        /\ found.list \in Lists /\ found.list = Patch[found.quilt]
    BY <1>1, <2>1, PatchIs DEF FoundIs
  <2>3. ~Supersedes(Patch[r], Patch[q])
    BY <1>1, <2>1, <2>2, SupersedesIs
  <2>4. Patch[r].seq <= found.list.seq /\ Patch[q].seq >= found.list.seq
    BY <1>1, <2>1, <2>2, SupersedesIs
  <2>5. q # found.quilt
    BY <2>1, <2>2, SupersedesIs
  <2>6. Patch[r].seq \in Nat /\ Patch[q].seq \in Nat /\ found.list.seq \in Nat
    BY <2>2 DEF Lists
  <2>7. Patch[r].seq = Patch[q].seq => Patch[q].seq = found.list.seq
    BY <2>4, <2>6
  <2> QED
    BY <2>1, <2>2, <2>3, <2>5, <2>7
<1> QED
  BY <1>2, <1>3

\* What was excused stays excused.
LEMMA StaysExcused ==
  ASSUME Tells, NEW i, Excused(i) PROVE Excused(i)'
BY DEF Tells, world, Excused

\* Nothing found was given up but for a better one.
LEMMA FoundStays ==
  ASSUME FoundIs, Keeps PROVE FoundIs'
BY DEF FoundIs, Keeps, Takes, IsList

\* The move to the next bundles, or to the next address.
LEMMA ExamineMoves ==
  ASSUME TypeOK, HomeFirst, at # "over", NEW places \in SUBSET Bundles(owner), Examine(places),
         UNCHANGED world, truncated' \in BOOLEAN
  PROVE  /\ TypeOK' /\ Place' /\ Asked'
         /\ \A i \in DOMAIN Owners : \A k : Waiting(i, k)' <=>
              \/ owner < i
              \/ owner = i /\ k \in places
<1>1. owner \in 1 .. Len(Owners) /\ owner \in DOMAIN Owners
  BY AtWork
<1>2. ledger' = ledger /\ steady' = steady
  BY DEF world
<1>3. CASE places = {}
  <2>1. /\ owner' = owner + 1 /\ at' = (IF owner = Len(Owners) THEN "over" ELSE "ask")
        /\ rpc' = 1 /\ pages' = 0 /\ ids' = {} /\ todo' = {} /\ agg' = 1 /\ failed' = FALSE
    BY <1>3 DEF Examine, NextOwner
  <2>2. TypeOK'
    <3>1. owner' \in 1 .. Len(Owners) + 1 /\ (at' = "over" <=> owner' = Len(Owners) + 1)
          /\ at' \in {"ask", "fetch", "over"}
      BY <1>1, <2>1, Sizes
    <3>2. rpc' \in 1 .. Len(Rpcs) /\ agg' \in 1 .. Len(Aggregators)
      BY <2>1, Sizes
    <3>3. pages' \in Nat /\ failed' \in BOOLEAN /\ ledger' \in Ledgers /\ steady' \in Steadies
      BY <1>2, <2>1 DEF TypeOK
    <3> QED
      BY <1>2, <2>1, <3>1, <3>2, <3>3 DEF TypeOK
  <2>3. Place'
    <3> SUFFICES ASSUME at' = "ask"
                 PROVE  pages' < MaxPages /\ ids' = {k \in Bundles(owner)' : k <= pages' * PageSize}
      BY <2>1 DEF Place, HomeFirst
    <3>1. owner' \in DOMAIN Owners
      BY <2>2, Sizes DEF TypeOK
    <3>2. \A k \in Bundles(owner)' : k \in Nat /\ k >= 1
      <4>1. Bundles(owner)' = {k \in 1 .. Len(ledger'[Owners[owner']]) :
                                 ledger'[Owners[owner']][k] \in Quilts}
        BY <1>2, <3>1, DiscoverAssumption DEF DiscoverAssumption, TypeOK, Bundles
      <4>2. Len(ledger'[Owners[owner']]) \in Nat
        BY <1>2, <3>1, DiscoverAssumption DEF DiscoverAssumption, TypeOK
      <4> QED
        BY <4>1, <4>2
    <3>3. pages' * PageSize = 0 /\ pages' < MaxPages
      BY <2>1, Sizes
    <3> QED
      BY <2>1, <3>2, <3>3
  <2>4. Asked'
    BY <2>1 DEF Asked
  <2>5. ASSUME NEW i \in DOMAIN Owners, NEW k PROVE Waiting(i, k)' <=> owner < i
    BY <1>1, <2>1, Sizes DEF Waiting
  <2> QED
    BY <1>3, <2>2, <2>3, <2>4, <2>5
<1>4. CASE places # {}
  <2>1. /\ owner' = owner /\ at' = "fetch" /\ todo' = places
        /\ rpc' = 1 /\ pages' = 0 /\ agg' = 1 /\ failed' = FALSE
    BY <1>4 DEF Examine
  <2>2. TypeOK'
    <3>1. owner' \in 1 .. Len(Owners) + 1 /\ ~(owner' = Len(Owners) + 1)
      BY <1>1, <2>1, Sizes
    <3>2. rpc' \in 1 .. Len(Rpcs) /\ agg' \in 1 .. Len(Aggregators)
      BY <2>1, Sizes
    <3>3. pages' \in Nat /\ failed' \in BOOLEAN /\ ledger' \in Ledgers /\ steady' \in Steadies
      BY <1>2, <2>1 DEF TypeOK
    <3> QED
      BY <1>2, <2>1, <3>1, <3>2, <3>3 DEF TypeOK
  <2>3. Place'
    BY <1>2, <1>4, <2>1 DEF Place, Bundles
  <2>4. Asked'
    BY <2>1 DEF Asked
  <2>5. ASSUME NEW i \in DOMAIN Owners, NEW k
        PROVE  Waiting(i, k)' <=>
                 \/ owner < i
                 \/ owner = i /\ k \in places
    BY <2>1 DEF Waiting
  <2> QED
    BY <2>2, <2>3, <2>4, <2>5
<1> QED
  BY <1>3, <1>4

\* Everything is settled after such a move, if what is no longer waiting is.
LEMMA ExamineSettles ==
  ASSUME IInv, HomeFirst, at # "over", NEW places \in SUBSET Bundles(owner), Examine(places),
         Tells, Keeps, truncated' \in BOOLEAN,
         NEW i0 \in DOMAIN Owners, i0 = owner,
         \A k \in Bundles(i0) \ places : \A r \in Quilts :
           ledger[Owners[i0]][k] = r /\ Waiting(i0, k) => Excused(i0)' \/ Considered(r)'
  PROVE  IInv'
<1>1. FoundIs' /\ UNCHANGED world /\ owner \in DOMAIN Owners
  BY FoundStays, AtWork DEF IInv, Tells
<1>2. /\ TypeOK' /\ Place' /\ Asked'
      /\ \A i \in DOMAIN Owners : \A k : Waiting(i, k)' <=>
           \/ owner < i
           \/ owner = i /\ k \in places
  BY <1>1, ExamineMoves DEF IInv
<1>3. \A i : Bundles(i)' = Bundles(i) /\ ledger' = ledger
  BY <1>1 DEF Bundles, world
<1>4. ASSUME NEW i \in DOMAIN Owners, NEW k \in Bundles(i), NEW r \in Quilts,
             ledger[Owners[i]][k] = r, ~Waiting(i, k)'
      PROVE  Excused(i)' \/ Considered(r)'
  <2>1. CASE ~Waiting(i, k)
    <3>1. Excused(i) \/ Considered(r)
      BY <1>4, <2>1 DEF IInv, Settled
    <3> QED
      BY <3>1, StaysConsidered, StaysExcused DEF IInv
  <2>2. CASE Waiting(i, k)
    <3>1. i = owner /\ k \notin places
      BY <1>1, <1>2, <1>4, <2>2 DEF Waiting
    <3>2. i = i0
      BY <3>1
    <3> QED
      BY <1>4, <2>2, <3>1, <3>2
  <2> QED
    BY <2>1, <2>2
<1>5. Settled'
  BY <1>3, <1>4 DEF Settled
<1> QED
  BY <1>1, <1>2, <1>5 DEF IInv

\* A step that asks on leaves what is settled settled.
LEMMA AskingSettles ==
  ASSUME IInv, Tells, Keeps, UNCHANGED <<at, owner, todo>>
  PROVE  Settled' /\ FoundIs'
<1>1. FoundIs'
  BY FoundStays DEF IInv
<1>2. \A i : Bundles(i)' = Bundles(i) /\ ledger' = ledger
  BY DEF Tells, Bundles, world
<1>3. \A i, k : Waiting(i, k)' <=> Waiting(i, k)
  BY DEF Waiting
<1>4. ASSUME NEW i \in DOMAIN Owners, NEW k \in Bundles(i), NEW r \in Quilts,
             ledger[Owners[i]][k] = r, ~Waiting(i, k)
      PROVE  Excused(i)' \/ Considered(r)'
  <2>1. Excused(i) \/ Considered(r)
    BY <1>4 DEF IInv, Settled
  <2> QED
    BY <2>1, StaysConsidered, StaysExcused DEF IInv
<1>5. Settled'
  BY <1>2, <1>3, <1>4 DEF Settled
<1> QED
  BY <1>1, <1>5

-----------------------------------------------------------------------------
(* The steps *)

LEMMA InitKeeps == ASSUME HomeFirst PROVE Init => IInv
<1> SUFFICES ASSUME Init PROVE IInv
  OBVIOUS
<1>1. TypeOK
  <2>1. owner \in 1 .. Len(Owners) + 1 /\ ~(owner = Len(Owners) + 1)
    BY Sizes DEF Init
  <2>2. rpc \in 1 .. Len(Rpcs) /\ agg \in 1 .. Len(Aggregators)
    BY Sizes DEF Init
  <2> QED
    BY <2>1, <2>2 DEF Init, TypeOK
<1>2. owner \in DOMAIN Owners /\ owner = 1
  BY Sizes DEF Init
<1>3. Place
  <2>1. \A k \in Bundles(owner) : k \in Nat /\ k >= 1
    BY <1>1, <1>2, BundlesAre
  <2>2. pages = 0 /\ 0 * PageSize = 0 /\ 0 < MaxPages /\ ids = {} /\ at = "ask"
    BY Sizes DEF Init
  <2>3. Rpcs[rpc] = Home
    BY DEF Init, HomeFirst
  <2> QED
    BY <2>1, <2>2, <2>3 DEF Place
<1>4. Asked /\ FoundIs
  BY DEF Init, Asked, FoundIs
<1>5. Settled
  <2>1. \A i \in DOMAIN Owners : \A k : Waiting(i, k)
    BY Sizes DEF Init, Waiting
  <2> QED
    BY <2>1 DEF Settled
<1> QED
  BY <1>1, <1>3, <1>4, <1>5 DEF IInv

\* A page more is the bundles as far as it reaches.
LEMMA PageIs ==
  ASSUME IInv, at = "ask", Rpcs[rpc] = Home
  PROVE  /\ Objects = ledger[Owners[owner]]
         /\ ids \union OnPage(Objects, pages + 1) =
              {k \in Bundles(owner) : k <= (pages + 1) * PageSize}
<1>1. owner \in DOMAIN Owners /\ pages \in Nat /\ TypeOK /\ rpc \in DOMAIN Rpcs
  BY AtWork, Sizes DEF IInv, TypeOK
<1> DEFINE objects == ledger[Owners[owner]]
<1>2. Objects = objects
  BY DEF Objects
<1>3. /\ Len(objects) \in Nat
      /\ Bundles(owner) = {k \in 1 .. Len(objects) : objects[k] \in Quilts}
  BY <1>1, BundlesAre
<1>4. ids = {k \in Bundles(owner) : k <= pages * PageSize}
  BY DEF IInv, Place
<1> DEFINE before == pages * PageSize
           until == (pages + 1) * PageSize
<1>5. before \in Nat /\ until = before + PageSize /\ PageSize \in Nat /\ until \in Nat
  BY <1>1, Sizes
<1>6. OnPage(objects, pages + 1) =
        {k \in before + 1 .. until : k <= Len(objects) /\ objects[k] \in Quilts}
  <2> DEFINE p == pages + 1
  <2>1. (p - 1) * PageSize + 1 = before + 1 /\ p * PageSize = until
    BY <1>1
  <2> HIDE DEF objects, before, until, p
  <2>2. OnPage(objects, p) =
          {k \in before + 1 .. until : k <= Len(objects) /\ objects[k] \in Quilts}
    BY <2>1 DEF OnPage
  <2> QED
    BY <2>2 DEF p
<1> HIDE DEF objects, before, until
<1>7. ids \union OnPage(objects, pages + 1) = {k \in Bundles(owner) : k <= until}
  <2>1. ids = {k \in Bundles(owner) : k <= before}
    BY <1>4 DEF before
  <2> QED
    BY <1>3, <1>5, <1>6, <2>1
<1> QED
  BY <1>2, <1>7 DEF objects, until

\* A node of another network has nothing, on its first page, and no more.
LEMMA ElsewhereIs ==
  ASSUME IInv, at = "ask", Rpcs[rpc] # Home
  PROVE  /\ ids \union OnPage(Objects, pages + 1) = {}
         /\ ~((pages + 1) * PageSize < Len(Objects))
         /\ Owners[owner] \notin steady /\ ~OwnNodes
<1>1. Objects = <<>> /\ Len(<<>>) = 0
  BY DEF Objects
<1>2. pages \in Nat /\ rpc \in DOMAIN Rpcs
  BY Sizes DEF IInv, TypeOK
<1>3. ids = {} /\ Owners[owner] \notin steady
  BY DEF IInv, Place
<1>4. (pages + 1) * PageSize \in Nat /\ pages * PageSize + 1 >= 1
  <2>1. \A a, b \in Nat : a * b \in Nat
    OBVIOUS
  <2>2. pages + 1 \in Nat /\ pages * PageSize \in Nat
    BY <1>2, <2>1, Sizes
  <2> QED
    BY <2>1, <2>2, Sizes
<1> DEFINE objects == Objects
           from == pages * PageSize + 1
           until == (pages + 1) * PageSize
<1> HIDE DEF objects, from, until
<1>5. OnPage(Objects, pages + 1) = {}
  <2>1. OnPage(objects, pages + 1) =
          {k \in from .. until : k <= Len(objects) /\ objects[k] \in Quilts}
    <3> DEFINE p == pages + 1
    <3>1. (p - 1) * PageSize + 1 = from /\ p * PageSize = until
      BY <1>2 DEF from, until
    <3> HIDE DEF p
    <3>2. OnPage(objects, p) =
            {k \in from .. until : k <= Len(objects) /\ objects[k] \in Quilts}
      BY <3>1 DEF OnPage
    <3> QED
      BY <3>2 DEF p
  <2>2. from \in Nat /\ from >= 1 /\ until \in Nat
    BY <1>2, <1>4, Sizes DEF from, until
  <2>3. Len(objects) = 0
    BY <1>1 DEF objects
  <2>4. \A k \in from .. until : ~(k <= 0)
    BY <2>2
  <2>5. OnPage(objects, pages + 1) = {}
    BY <2>1, <2>3, <2>4
  <2> QED
    BY <2>5 DEF objects
<1>6. ids \union OnPage(Objects, pages + 1) = {}
  BY <1>1, <1>3, <1>5
<1>7. ~((pages + 1) * PageSize < Len(Objects))
  <2>1. until \in Nat
    BY <1>4 DEF until
  <2>2. ~(until < Len(Objects))
    BY <1>1, <2>1
  <2> QED
    BY <2>2 DEF until
<1> QED
  BY <1>2, <1>3, <1>6, <1>7 DEF OwnNodes

LEMMA PageArrivesKeeps == ASSUME IInv, HomeFirst, PageArrives PROVE IInv'
<1> DEFINE got == ids \union OnPage(Objects, pages + 1)
           until == (pages + 1) * PageSize
           more == until < Len(Objects)
<1>1. at = "ask" /\ UNCHANGED <<world, found, problems>> /\ TypeOK
  BY DEF PageArrives, IInv
<1>2. owner \in DOMAIN Owners /\ pages \in Nat /\ pages < MaxPages /\ MaxPages \in Nat
  BY <1>1, AtWork, Sizes DEF IInv, TypeOK, Place
<1>3. \/ got = {k \in Bundles(owner) : k <= until} /\ Objects = ledger[Owners[owner]]
      \/ got = {} /\ ~more /\ Owners[owner] \notin steady /\ ~OwnNodes
  <2>1. CASE Rpcs[rpc] = Home
    BY <1>1, <2>1, PageIs
  <2>2. CASE Rpcs[rpc] # Home
    BY <1>1, <1>2, <2>2, ElsewhereIs
  <2> QED
    BY <2>1, <2>2
<1>4. Keeps
  BY <1>1 DEF Keeps
<1>5. CASE more /\ pages + 1 < MaxPages
  <2>1. /\ pages' = pages + 1 /\ ids' = got
        /\ UNCHANGED <<at, owner, rpc, todo, agg, failed, truncated>>
    BY <1>5 DEF PageArrives, fetching
  <2>0. got = {k \in Bundles(owner) : k <= until} /\ Rpcs[rpc] = Home
    BY <1>1, <1>2, <1>3, <1>5, ElsewhereIs
  <2>2. Tells
    BY <1>1, <2>1 DEF Tells
  <2>3. Settled' /\ FoundIs'
    BY <1>4, <2>1, <2>2, AskingSettles
  <2>4. TypeOK'
    <3>1. pages' \in Nat /\ ledger' = ledger /\ steady' = steady
      BY <1>1, <1>2, <2>1 DEF world
    <3> QED
      BY <1>1, <2>1, <3>1 DEF TypeOK
  <2>5. Place'
    <3>1. Bundles(owner)' = Bundles(owner)
      BY <1>1, <2>1 DEF Bundles, world
    <3>2. until = pages' * PageSize /\ pages' < MaxPages
      BY <1>5, <2>1
    <3> HIDE DEF until
    <3> QED
      BY <1>1, <2>0, <2>1, <3>1, <3>2 DEF Place
  <2>6. Asked'
    BY <1>1, <2>1 DEF Asked
  <2> QED
    BY <2>3, <2>4, <2>5, <2>6 DEF IInv
<1>6. CASE ~(more /\ pages + 1 < MaxPages)
  <2>1. Examine(got) /\ truncated' = (truncated \/ more)
    BY <1>6 DEF PageArrives
  <2>2. Tells /\ truncated' \in BOOLEAN
    BY <1>1, <2>1 DEF Tells
  <2>3. got \in SUBSET Bundles(owner)
    BY <1>3
  <2>0. PICK i \in DOMAIN Owners : i = owner
    BY <1>2
  <2>4. ASSUME NEW k \in Bundles(i) \ got PROVE Excused(i)'
    <3> SUFFICES ASSUME got = {j \in Bundles(owner) : j <= until},
                        Objects = ledger[Owners[owner]]
                 PROVE  Excused(i)'
      BY <1>1, <1>3, <2>0 DEF Excused, world
    <3>1. ~(k <= until) /\ k \in 1 .. Len(Objects) /\ Len(Objects) \in Nat
      <4>1. Bundles(owner) \subseteq 1 .. Len(ledger[Owners[owner]])
            /\ Len(ledger[Owners[owner]]) \in Nat
        BY <1>1, <1>2, BundlesAre
      <4> QED
        BY <2>0, <4>1
    <3>2. until \in Nat
      BY <1>2, Sizes
    <3>3. more
      BY <3>1, <3>2
    <3>4. pages + 1 = MaxPages
      BY <1>2, <1>6, <3>3
    <3>5. truncated' /\ MaxPages * PageSize < Len(Objects)
      BY <2>1, <3>3, <3>4
    <3> QED
      BY <1>1, <2>0, <3>5 DEF Excused, world
  <2> QED
    BY <1>1, <1>2, <1>4, <2>0, <2>1, <2>2, <2>3, <2>4, ExamineSettles
<1> QED
  BY <1>5, <1>6

LEMMA NodeFailsKeeps == ASSUME IInv, HomeFirst, NodeFails PROVE IInv'
<1>1. /\ at = "ask" /\ Owners[owner] \notin steady /\ UNCHANGED <<world, found, truncated>>
      /\ TypeOK /\ owner \in DOMAIN Owners
  BY AtWork DEF NodeFails, IInv
<1>2. Keeps
  BY <1>1 DEF Keeps
<1>3. CASE rpc < Len(Rpcs)
  <2>1. /\ rpc' = rpc + 1 /\ pages' = 0 /\ ids' = {}
        /\ UNCHANGED <<at, owner, todo, agg, failed, problems>>
    BY <1>3 DEF NodeFails, fetching
  <2>2. Settled' /\ FoundIs'
    BY <1>1, <1>2, <2>1, AskingSettles DEF Tells
  <2>3. TypeOK'
    <3>1. rpc' \in 1 .. Len(Rpcs) /\ pages' \in Nat
      BY <1>1, <1>3, <2>1, Sizes DEF TypeOK
    <3>2. ledger' = ledger /\ steady' = steady
      BY <1>1 DEF world
    <3> QED
      BY <1>1, <2>1, <3>1, <3>2 DEF TypeOK
  <2>4. Place'
    <3>1. Bundles(owner)' = Bundles(owner)
      BY <1>1, <2>1 DEF Bundles, world
    <3>2. \A k \in Bundles(owner) : k \in Nat /\ k >= 1
      BY <1>1, BundlesAre
    <3>3. pages' * PageSize = 0 /\ pages' < MaxPages
      BY <2>1, Sizes
    <3>4. ids' = {} /\ {k \in Bundles(owner)' : k <= pages' * PageSize} = {}
      BY <2>1, <3>1, <3>2, <3>3
    <3>5. Owners[owner]' \notin steady'
      BY <1>1, <2>1 DEF world
    <3> QED
      BY <1>1, <2>1, <3>3, <3>4, <3>5 DEF Place
  <2>5. Asked'
    BY <1>1, <2>1 DEF Asked
  <2> QED
    BY <2>2, <2>3, <2>4, <2>5 DEF IInv
<1>4. CASE ~(rpc < Len(Rpcs))
  <2>1. Examine({}) /\ problems' = problems \union {"node"}
    BY <1>4 DEF NodeFails, Examine, Note
  <2>2. Tells /\ truncated' \in BOOLEAN
    BY <1>1, <2>1 DEF Tells, TypeOK
  <2>3. PICK i \in DOMAIN Owners : i = owner
    BY <1>1
  <2>4. Excused(i)'
    BY <1>1, <2>1, <2>3 DEF Excused, world
  <2> QED
    BY <1>1, <1>2, <2>1, <2>2, <2>3, <2>4, ExamineSettles
<1> QED
  BY <1>3, <1>4

\* After the bundle that is examined, everything is settled if that one is.
LEMMA NextBundle ==
  ASSUME IInv, HomeFirst, at = "fetch", Examine(Others), Tells, Keeps, truncated' = truncated,
         NEW i \in DOMAIN Owners, i = owner, Excused(i)' \/ \A r \in Quilts : r = Quilt => Considered(r)'
  PROVE  IInv'
<1>1. /\ This \in todo /\ This \in Bundles(owner) /\ Quilt \in Quilts
      /\ Others \in SUBSET Bundles(owner)
  BY ThisIs DEF IInv
<1>2. truncated' \in BOOLEAN
  BY DEF IInv, TypeOK
<1>3. ASSUME NEW k \in Bundles(i) \ Others, NEW r \in Quilts,
             ledger[Owners[i]][k] = r, Waiting(i, k)
      PROVE  Excused(i)' \/ Considered(r)'
  <2>0. ~(owner < i)
    BY AtWork DEF IInv
  <2>1. k = This
    BY <1>3, <2>0 DEF Waiting, Others
  <2>2. r = Quilt
    BY <1>3, <2>1 DEF Quilt
  <2> QED
    BY <2>2
<1> QED
  BY <1>1, <1>2, <1>3, ExamineSettles

LEMMA LastOfThem == \A n \in Nat : \A k \in 1 .. n : ~(k < n) => k = n
OBVIOUS

\* Where nobody has the bundle that was asked for, the account has no list in it.
LEMMA NextAggregatorKeeps ==
  ASSUME IInv, HomeFirst, at = "fetch", NEW fails \in BOOLEAN, NextAggregator(fails),
         UNCHANGED <<world, found, truncated>>,
         fails => Owners[owner] \notin steady,
         ~fails => ~failed /\ ~Serves
  PROVE  IInv'
<1>1. TypeOK /\ owner \in DOMAIN Owners /\ Keeps /\ agg \in 1 .. Len(Aggregators)
  BY AtWork DEF IInv, Keeps, TypeOK
<1>2. ~fails => \A k \in 1 .. agg : Aggregators[k] = Home => Patch[Quilt] = NoList
  <2> SUFFICES ASSUME ~fails, NEW k \in 1 .. agg, Aggregators[k] = Home
               PROVE  Patch[Quilt] = NoList
    OBVIOUS
  <2>1. CASE k = agg
    BY <2>1 DEF Serves
  <2>2. CASE k # agg
    <3>1. k \in 1 .. agg - 1
      BY <1>1, <2>2
    <3> QED
      BY <3>1 DEF IInv, Asked
  <2> QED
    BY <2>1, <2>2
<1>3. CASE agg < Len(Aggregators)
  <2>1. /\ agg' = agg + 1 /\ failed' = fails
        /\ UNCHANGED <<at, owner, rpc, pages, ids, todo, problems>>
    BY <1>3 DEF NextAggregator, asking
  <2>2. Settled' /\ FoundIs'
    BY <1>1, <2>1, AskingSettles DEF Tells
  <2>3. ledger' = ledger /\ steady' = steady
    BY DEF world
  <2>4. TypeOK'
    <3>1. agg' \in 1 .. Len(Aggregators)
      BY <1>1, <1>3, <2>1, Sizes
    <3> QED
      BY <1>1, <2>1, <2>3, <3>1 DEF TypeOK
  <2>5. Place'
    BY <2>1, <2>3 DEF IInv, Place, Bundles
  <2>6. Asked'
    <3>1. Quilt' = Quilt
      BY <2>1, <2>3 DEF Quilt, This
    <3>2. 1 .. agg' - 1 = 1 .. agg
      BY <1>1, <2>1
    <3> QED
      BY <1>2, <2>1, <2>3, <3>1, <3>2 DEF Asked
  <2> QED
    BY <2>2, <2>4, <2>5, <2>6 DEF IInv
<1>4. CASE ~(agg < Len(Aggregators))
  <2>1. Examine(Others) /\ problems' = problems \union (IF fails THEN {"patch"} ELSE {})
    BY <1>4 DEF NextAggregator, Note
  <2>2. Tells
    BY <2>1 DEF Tells
  <2>3. PICK i \in DOMAIN Owners : i = owner
    BY <1>1
  <2>4. CASE fails
    <3>1. Excused(i)'
      BY <2>1, <2>3, <2>4 DEF Excused, world
    <3> QED
      BY <1>1, <2>1, <2>2, <2>3, <3>1, NextBundle
  <2>5. CASE ~fails
    <3>1. agg = Len(Aggregators)
      BY <1>1, <1>4, LastOfThem, Sizes
    <3>2. Patch[Quilt] = NoList
      BY <1>2, <2>5, <3>1, Sizes DEF HomeFirst
    <3>3. \A r \in Quilts : r = Quilt => Considered(r)'
      BY <3>2 DEF Considered, IsList
    <3> QED
      BY <1>1, <2>1, <2>2, <2>3, <3>3, NextBundle
  <2> QED
    BY <2>4, <2>5
<1> QED
  BY <1>3, <1>4

LEMMA NotThereKeeps == ASSUME IInv, HomeFirst, NotThere PROVE IInv'
<1>1. at = "fetch" /\ ~Serves /\ NextAggregator(failed) /\ UNCHANGED <<world, found, truncated>>
  BY DEF NotThere
<1>2. failed \in BOOLEAN /\ (failed => Owners[owner] \notin steady)
  BY <1>1 DEF IInv, TypeOK, Asked
<1> QED
  BY <1>1, <1>2, NextAggregatorKeeps

LEMMA AggregatorFailsKeeps == ASSUME IInv, HomeFirst, AggregatorFails PROVE IInv'
BY NextAggregatorKeeps DEF AggregatorFails

LEMMA CutShortKeeps == ASSUME IInv, HomeFirst, CutShort PROVE IInv'
<1>1. /\ at = "fetch" /\ Owners[owner] \notin steady /\ Examine(Others)
      /\ problems' = problems \union {"patch"} /\ UNCHANGED <<world, found, truncated>>
  BY DEF CutShort, Note
<1>2. Tells /\ Keeps /\ owner \in DOMAIN Owners
  BY <1>1, AtWork DEF Tells, Keeps, IInv
<1>3. PICK i \in DOMAIN Owners : i = owner
  BY <1>2
<1>4. Excused(i)'
  BY <1>1, <1>3 DEF Excused, world
<1> QED
  BY <1>1, <1>2, <1>3, <1>4, NextBundle

LEMMA PatchSealedKeeps == ASSUME IInv, HomeFirst, PatchSealed PROVE IInv'
<1>1. /\ at = "fetch" /\ ~Patch[Quilt].opens /\ Examine(Others)
      /\ problems' = problems \union {"seal"} /\ UNCHANGED <<world, found, truncated>>
  BY DEF PatchSealed, Note
<1>2. Tells /\ Keeps /\ owner \in DOMAIN Owners
  BY <1>1, AtWork DEF Tells, Keeps, IInv
<1>3. PICK i \in DOMAIN Owners : i = owner
  BY <1>2
<1>4. \A r \in Quilts : r = Quilt => Considered(r)'
  BY <1>1 DEF Considered, IsList
<1> QED
  BY <1>1, <1>2, <1>3, <1>4, NextBundle

\* A list that opens is kept, or the one that is kept is no worse; either way a
\* tie between two bundles is told.
LEMMA PatchOpensKeeps == ASSUME IInv, HomeFirst, PatchOpens PROVE IInv'
<1> DEFINE better == found.list = NoList \/ Supersedes(Patch[Quilt], found.list)
           tied == /\ found.list # NoList /\ Patch[Quilt].seq = found.list.seq
                   /\ Quilt # found.quilt
<1>1. /\ at = "fetch" /\ Serves /\ Patch[Quilt].opens /\ Examine(Others)
      /\ found' = (IF better THEN [quilt |-> Quilt, list |-> Patch[Quilt]] ELSE found)
      /\ problems' = problems \union (IF tied THEN {"tie"} ELSE {})
      /\ UNCHANGED <<world, truncated>>
  BY DEF PatchOpens, Note
<1>2. PICK q \in Quilts : q = Quilt
  BY <1>1, ThisIs DEF IInv
<1>3. IsList(q) /\ Patch[q] \in Lists /\ NoList \notin Lists
  BY <1>1, <1>2, PatchIs DEF IsList, Serves
<1>4. Keeps
  <2>1. CASE better
    BY <1>1, <1>2, <1>3, <2>1 DEF Keeps, Takes
  <2>2. CASE ~better
    BY <1>1, <2>2 DEF Keeps
  <2> QED
    BY <2>1, <2>2
<1>5. Tells /\ owner \in DOMAIN Owners
  BY <1>1, AtWork DEF Tells, IInv
<1>6. PICK i \in DOMAIN Owners : i = owner
  BY <1>5
<1>7. Considered(q)'
  <2>1. CASE better
    BY <1>1, <1>2, <1>3, <2>1, SupersedesIs DEF Considered
  <2>2. CASE ~better
    BY <1>1, <1>2, <1>3, <2>2 DEF Considered
  <2> QED
    BY <2>1, <2>2
<1>8. \A r \in Quilts : r = Quilt => Considered(r)'
  BY <1>2, <1>7
<1> QED
  BY <1>1, <1>4, <1>5, <1>6, <1>8, NextBundle

LEMMA Step == ASSUME IInv, HomeFirst, [Next]_vars PROVE IInv'
<1>1. CASE UNCHANGED vars
  <2>1. /\ UNCHANGED <<at, owner, rpc, pages, ids, todo, agg, failed, found, truncated, problems>>
        /\ UNCHANGED <<ledger, steady>>
    BY <1>1 DEF vars, world, asking, fetching
  <2> QED
    BY <2>1 DEF IInv, TypeOK, FoundIs, Place, Asked, Settled, Bundles, Waiting, Excused, Considered,
                Quilt, This
<1> QED
  BY <1>1, PageArrivesKeeps, NodeFailsKeeps, NotThereKeeps, AggregatorFailsKeeps, CutShortKeeps,
     PatchSealedKeeps, PatchOpensKeeps DEF Next

-----------------------------------------------------------------------------
(* The theorems *)

\* The invariant: every bundle of the account is still to come, or was considered,
\* or there is a reason why not that the search tells of (discover.rs, find).
THEOREM Invariant == HomeFirst => (Spec => []IInv)
<1> SUFFICES ASSUME HomeFirst PROVE Spec => []IInv
  OBVIOUS
<1>1. Init => IInv
  BY InitKeeps
<1>2. IInv /\ [Next]_vars => IInv'
  BY Step
<1> QED
  BY <1>1, <1>2, PTL DEF Spec

\* What a search that is over has considered of one address.
LEMMA AtTheEnd ==
  ASSUME IInv, at = "over", NEW a \in LookedUp, NEW q \in Owned(a)
  PROVE  /\ q \in Quilts
         /\ \/ Considered(q)
            \/ truncated /\ MaxPages * PageSize < Len(ledger[a])
            \/ a \notin steady /\ (problems \intersect {"node", "patch"} # {} \/ ~OwnNodes)
<1>1. PICK i \in DOMAIN Owners : a = Owners[i]
  BY DEF LookedUp
<1>2. PICK k \in DOMAIN ledger[a] : ledger[a][k] = q
  BY DEF Owned
<1>3. q \in Quilts /\ k \in Bundles(i)
  BY <1>1, <1>2 DEF Owned, Bundles
<1>4. ~Waiting(i, k)
  <2>1. owner = Len(Owners) + 1 /\ i \in 1 .. Len(Owners) /\ Len(Owners) \in Nat
    BY Sizes DEF IInv, TypeOK
  <2> QED
    BY <2>1 DEF Waiting
<1>5. Excused(i) \/ Considered(q)
  BY <1>1, <1>2, <1>3, <1>4 DEF IInv, Settled
<1> QED
  BY <1>1, <1>3, <1>5 DEF Excused

LEMMA ConsideredIsCovered == ASSUME NEW q, Considered(q) PROVE Covered(q)
BY DEF Considered, Covered, IsList

\* A search that has nothing to report but ties has found the best list of the
\* account, whatever failed and was made up for on the way: with nodes of the
\* account's own network only (discover.rs 169-248, 264-277, 364-397).
THEOREM SilenceMeansTheBest == HomeFirst /\ OwnNodes => (Spec => []SilenceMeansBest)
<1> SUFFICES ASSUME HomeFirst, OwnNodes PROVE Spec => []SilenceMeansBest
  OBVIOUS
<1>1. IInv => SilenceMeansBest
  BY AtTheEnd, ConsideredIsCovered DEF SilenceMeansBest
<1> QED
  BY <1>1, Invariant, PTL

\* An address or a bundle that cannot be read costs only its own lists: those of
\* the addresses that answered are considered (discover.rs 169-202).
THEOREM OthersAreConsidered == HomeFirst => (Spec => []OthersStillCount)
<1> SUFFICES ASSUME HomeFirst PROVE Spec => []OthersStillCount
  OBVIOUS
<1>1. ASSUME IInv PROVE OthersStillCount
  <2> SUFFICES ASSUME at = "over", NEW a \in LookedUp \intersect steady,
                      Len(ledger[a]) <= MaxPages * PageSize, NEW q \in Owned(a)
               PROVE  Covered(q)
    BY DEF OthersStillCount
  <2>1. Len(ledger[a]) \in Nat /\ MaxPages * PageSize \in Nat
    BY <1>1, Sizes, BundlesAre DEF IInv, LookedUp
  <2>2. Considered(q)
    BY <1>1, <2>1, AtTheEnd
  <2> QED
    BY <2>2, ConsideredIsCovered
<1> QED
  BY <1>1, Invariant, PTL

\* Two bundles with lists of one sequence are told of whichever of them is kept,
\* in whatever order they are read (discover.rs 222-237).
THEOREM TiesAreTold == HomeFirst => (Spec => []TieIsReported)
<1> SUFFICES ASSUME HomeFirst PROVE Spec => []TieIsReported
  OBVIOUS
<1>1. ASSUME IInv PROVE TieIsReported
  <2> SUFFICES ASSUME at = "over", NEW a \in LookedUp \intersect steady, NEW q \in Owned(a),
                      Len(ledger[a]) <= MaxPages * PageSize,
                      Patch[q] # NoList /\ Patch[q].opens,
                      Patch[q].seq = found.list.seq /\ q # found.quilt
               PROVE  "tie" \in problems
    BY DEF TieIsReported
  <2>1. Len(ledger[a]) \in Nat /\ MaxPages * PageSize \in Nat
    BY <1>1, Sizes, BundlesAre DEF IInv, LookedUp
  <2>2. Considered(q)
    BY <1>1, <2>1, AtTheEnd
  <2> QED
    BY <2>2 DEF Considered, IsList
<1> QED
  BY <1>1, Invariant, PTL

\* The list that is kept is given up for a better one only (discover.rs 218-245).
THEOREM OnlyBetterReplaces == Spec => OnlyForABetterOne
<1>1. ASSUME [Next]_vars, found.list # NoList, found' # found
      PROVE  Supersedes(found'.list, found.list)
  <2>1. PatchOpens
    BY <1>1 DEF Next, PageArrives, NodeFails, NotThere, AggregatorFails, CutShort, PatchSealed, vars
  <2>2. /\ Supersedes(Patch[Quilt], found.list)
        /\ found' = [quilt |-> Quilt, list |-> Patch[Quilt]]
    BY <1>1, <2>1 DEF PatchOpens
  <2> QED
    BY <2>2
<1>2. [Next]_vars => [found.list # NoList /\ found' # found =>
                        Supersedes(found'.list, found.list)]_vars
  BY <1>1
<1> QED
  BY <1>2, PTL DEF Spec, OnlyForABetterOne
============================================================================
