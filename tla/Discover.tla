------------------------------- MODULE Discover -------------------------------
(***************************************************************************)
(* Finding an account's recovery list with nothing but its key: find,      *)
(* owned_blob_ids and fetch_patch of recovery/src/discover.rs, as          *)
(* find_on_network (main.rs) calls them.                                   *)
(*                                                                         *)
(* Every address of the account is looked up at a Sui node, page by page;  *)
(* every bundle it owns is asked, aggregator by aggregator, for the patch  *)
(* that only this account's key can name; of the lists that open, one is   *)
(* kept.  Nodes and aggregators answer truthfully for their own network or *)
(* fail, in any way and at any point.                                      *)
(***************************************************************************)
EXTENDS Naturals, Sequences

CONSTANTS
  Owners,       \* the addresses to look under, in order
  Rpcs,         \* the Sui nodes, in order, each named by its network
  Aggregators,  \* the aggregators, in order, each named by its network
  Home,         \* the network the account's files are on
  Ledgers,      \* what its addresses may own there: sequences of objects
  Quilts,       \* the objects that are bundles; the others are not blobs
  Patch,        \* Patch[q]: the list in bundle q under this account's name
  PageSize, MaxPages,
  Steadies,     \* the sets of addresses for which no question may fail
  NoList

Lists == [opens : BOOLEAN, seq : Nat, items : Nat, at : Nat]

ASSUME DiscoverAssumption ==
  /\ \A list \in {Owners, Rpcs, Aggregators} :
       Len(list) \in Nat \ {0} /\ DOMAIN list = 1 .. Len(list)
  /\ \A owns \in Ledgers : \A k \in DOMAIN Owners :
       LET objects == owns[Owners[k]]
       IN  Len(objects) \in Nat /\ DOMAIN objects = 1 .. Len(objects)
  /\ PageSize \in Nat \ {0} /\ MaxPages \in Nat \ {0}
  /\ \A q \in Quilts : Patch[q] \in Lists \union {NoList}
  /\ NoList \notin Lists

VARIABLES
  \* The world, which stays as it is.
  ledger, steady,
  \* The search.
  at,         \* "ask" a node, "fetch" a patch, or "over"
  owner,      \* the address being looked up, by position
  rpc,        \* the node being asked, by position
  pages, ids, \* the pages it has given, and where on them the bundles are
  todo,       \* where the bundles still to be examined for this address are
  agg,        \* the aggregator being asked, by position
  failed,     \* one has failed to answer for the bundle being examined
  found,      \* the list to recover from, so far, and its bundle
  truncated, problems

world == <<ledger, steady>>
asking == <<rpc, pages, ids>>
fetching == <<agg, failed>>
vars == <<world, at, owner, asking, todo, fetching, found, truncated, problems>>

-----------------------------------------------------------------------------
\* Sequence first, then items, then the clock.
Supersedes(m, n) ==
  \/ m.seq > n.seq
  \/ m.seq = n.seq /\ m.items > n.items
  \/ m.seq = n.seq /\ m.items = n.items /\ m.at > n.at

\* A node of another network answers that the address owns nothing.
Objects == IF Rpcs[rpc] = Home THEN ledger[Owners[owner]] ELSE <<>>

\* Where on page P of what the address owns the bundles are: the rest is passed
\* over.
OnPage(objects, p) ==
  {k \in (p - 1) * PageSize + 1 .. p * PageSize :
     k <= Len(objects) /\ objects[k] \in Quilts}

NextOwner ==
  /\ owner' = owner + 1
  /\ at' = IF owner = Len(Owners) THEN "over" ELSE "ask"
  /\ rpc' = 1 /\ pages' = 0 /\ ids' = {} /\ todo' = {}
  /\ agg' = 1 /\ failed' = FALSE

\* Examining the bundles at PLACES, or the next address when there are none.
Examine(places) ==
  IF places = {} THEN NextOwner
  ELSE /\ at' = "fetch" /\ todo' = places
       /\ agg' = 1 /\ failed' = FALSE
       /\ rpc' = 1 /\ pages' = 0 /\ ids' = {}
       /\ UNCHANGED owner

Note(kinds) == problems' = problems \union kinds

-----------------------------------------------------------------------------
Init ==
  /\ ledger \in Ledgers /\ steady \in Steadies
  /\ at = "ask" /\ owner = 1
  /\ rpc = 1 /\ pages = 0 /\ ids = {}
  /\ todo = {} /\ agg = 1 /\ failed = FALSE
  /\ found = [quilt |-> NoList, list |-> NoList]
  /\ truncated = FALSE /\ problems = {}

\* Mistake: reaching the last page allowed is not told.
PageArrivesQuietly ==
  /\ at = "ask"
  /\ LET got == ids \union OnPage(Objects, pages + 1)
     IN  IF (pages + 1) * PageSize < Len(Objects) /\ pages + 1 < MaxPages
         THEN pages' = pages + 1 /\ ids' = got /\ UNCHANGED <<at, owner, rpc, todo, fetching>>
         ELSE Examine(got)
  /\ UNCHANGED <<world, truncated, found, problems>>

\* A page of the node's answer.  The address is done when there is no page after
\* it, and given up, out loud, when it is the last one a search will read.
PageArrives ==
  /\ at = "ask"
  /\ LET got == ids \union OnPage(Objects, pages + 1)
         more == (pages + 1) * PageSize < Len(Objects)
     IN  IF more /\ pages + 1 < MaxPages
         THEN /\ pages' = pages + 1 /\ ids' = got
              /\ UNCHANGED <<at, owner, rpc, todo, fetching, truncated>>
         ELSE Examine(got) /\ truncated' = (truncated \/ more)
  /\ UNCHANGED <<world, found, problems>>

\* The node cannot be reached, refuses, stops part way, does not say how the
\* answer ended, or gives a blob whose contents cannot be read.  What it gave is
\* dropped; what went wrong is told only when no node is left.
NodeFails ==
  /\ at = "ask" /\ Owners[owner] \notin steady
  /\ IF rpc < Len(Rpcs)
     THEN /\ rpc' = rpc + 1 /\ pages' = 0 /\ ids' = {}
          /\ UNCHANGED <<at, owner, todo, fetching, problems>>
     ELSE NextOwner /\ Note({"node"})
  /\ UNCHANGED <<world, found, truncated>>

\* They are examined in the order the node gave them.
This == CHOOSE k \in todo : \A j \in todo : k <= j

Others == todo \ {This}

Quilt == ledger[Owners[owner]][This]

\* The bundle is on the network aggregator AGG reads, with a patch by our name.
Serves == Aggregators[agg] = Home /\ Patch[Quilt] # NoList

\* Mistake: one aggregator that has never heard of it settles the question.
NextAggregatorUnlessKnown(fails) ==
  IF agg < Len(Aggregators) /\ fails
  THEN /\ agg' = agg + 1 /\ failed' = fails
       /\ UNCHANGED <<at, owner, asking, todo, problems>>
  ELSE /\ Examine(Others)
       /\ Note(IF fails THEN {"patch"} ELSE {})

\* On to the next aggregator; after the last, nobody has it, unless one of them
\* could not say.
NextAggregator(fails) ==
  IF agg < Len(Aggregators)
  THEN /\ agg' = agg + 1 /\ failed' = fails
       /\ UNCHANGED <<at, owner, asking, todo, problems>>
  ELSE /\ Examine(Others)
       /\ Note(IF fails THEN {"patch"} ELSE {})

NotThere ==
  /\ at = "fetch" /\ ~Serves
  /\ NextAggregator(failed)
  /\ UNCHANGED <<world, found, truncated>>

AggregatorFails ==
  /\ at = "fetch" /\ Owners[owner] \notin steady
  /\ NextAggregator(TRUE)
  /\ UNCHANGED <<world, found, truncated>>

\* An answer that stops part way is the end of this bundle: no other
\* aggregator is asked.
CutShort ==
  /\ at = "fetch" /\ Serves /\ Owners[owner] \notin steady
  /\ Examine(Others) /\ Note({"patch"})
  /\ UNCHANGED <<world, found, truncated>>

\* The patch is not a list this account's key opens.
PatchSealed ==
  /\ at = "fetch" /\ Serves /\ ~Patch[Quilt].opens
  /\ Examine(Others) /\ Note({"seal"})
  /\ UNCHANGED <<world, found, truncated>>

\* Mistake: a tie is told only when it changes the choice.
PatchOpensTieLost ==
  /\ at = "fetch" /\ Serves /\ Patch[Quilt].opens
  /\ IF found.list = NoList \/ Supersedes(Patch[Quilt], found.list)
     THEN /\ found' = [quilt |-> Quilt, list |-> Patch[Quilt]]
          /\ Note(IF found.list # NoList /\ Patch[Quilt].seq = found.list.seq
                  THEN {"tie"} ELSE {})
     ELSE UNCHANGED <<found, problems>>
  /\ Examine(Others)
  /\ UNCHANGED <<world, truncated>>

\* Mistake: of two lists with one sequence the last one read is kept.
PatchOpensLatest ==
  /\ at = "fetch" /\ Serves /\ Patch[Quilt].opens
  /\ IF found.list = NoList \/ Patch[Quilt].seq >= found.list.seq
     THEN found' = [quilt |-> Quilt, list |-> Patch[Quilt]]
     ELSE UNCHANGED found
  /\ Examine(Others)
  /\ UNCHANGED <<world, truncated, problems>>

\* A list of this account: kept if it supersedes the one kept so far.  Two
\* bundles with one sequence are told of, whichever is kept.
PatchOpens ==
  /\ at = "fetch" /\ Serves /\ Patch[Quilt].opens
  /\ IF found.list = NoList \/ Supersedes(Patch[Quilt], found.list)
     THEN found' = [quilt |-> Quilt, list |-> Patch[Quilt]]
     ELSE UNCHANGED found
  /\ Note(IF found.list # NoList /\ Patch[Quilt].seq = found.list.seq
             /\ Quilt # found.quilt THEN {"tie"} ELSE {})
  /\ Examine(Others)
  /\ UNCHANGED <<world, truncated>>

Next ==
  \/ PageArrives \/ NodeFails
  \/ NotThere \/ AggregatorFails \/ CutShort \/ PatchSealed \/ PatchOpens

\* Every question has a timeout, so every question is answered or fails.
Spec == Init /\ [][Next]_vars

-----------------------------------------------------------------------------
(* Properties *)

Owned(a) == {ledger[a][k] : k \in DOMAIN ledger[a]} \intersect Quilts

\* Nothing the account has in bundle Q is better than what was found.
Covered(q) ==
  Patch[q] # NoList /\ Patch[q].opens =>
    found.list # NoList /\ ~Supersedes(Patch[q], found.list)

LookedUp == {Owners[k] : k \in DOMAIN Owners}

\* "the difference between 'you have nothing' and 'one node was down'": a
\* search that ends with nothing to report but ties has found the best list of
\* the account, whatever failed and was made up for along the way.
SilenceMeansBest ==
  at = "over" /\ ~truncated /\ problems \subseteq {"tie"} =>
    \A a \in LookedUp : \A q \in Owned(a) : Covered(q)

\* One address or bundle that cannot be read does not cost the lists of the
\* others: what the addresses that answered own, as far as a search reads, has
\* been considered in the end.
OthersStillCount ==
  at = "over" =>
    \A a \in LookedUp \intersect steady :
      Len(ledger[a]) <= MaxPages * PageSize =>
        \A q \in Owned(a) : Covered(q)

\* "the tie is REPORTED either way": a list of another bundle with the sequence
\* of the one kept is told of, if the search has read it.
TieIsReported ==
  at = "over" =>
    \A a \in LookedUp \intersect steady : \A q \in Owned(a) :
      /\ Len(ledger[a]) <= MaxPages * PageSize
      /\ Patch[q] # NoList /\ Patch[q].opens
      /\ Patch[q].seq = found.list.seq /\ q # found.quilt
      => "tie" \in problems

\* The list kept is only ever given up for one that supersedes it, whatever
\* order the node lists the bundles in.
OnlyForABetterOne ==
  [][found.list # NoList /\ found' # found => Supersedes(found'.list, found.list)]_vars
=============================================================================
