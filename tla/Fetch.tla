--------------------------------- MODULE Fetch ---------------------------------
(***************************************************************************)
(* Getting one part: HttpSource and DirSource of recovery/src/source.rs,   *)
(* endpoints_for, which decides whom to ask, and fetch_piece of            *)
(* recovery/src/filecoin.rs, which asks the companies keeping a Filecoin   *)
(* piece, first where the list says they are, then where a registry says.  *)
(***************************************************************************)
EXTENDS Naturals, Sequences, SequencesExt

CONSTANTS
  Wanted,       \* the parts that may be asked for (see Parts)
  Addresses,    \* everything that may be asked for a part
  Https,        \* the addresses that are https addresses
  Defaults,     \* the built-in aggregators, in order
  OnChain,      \* OnChain[c]: those of them that are chain c's
  KnownChains,  \* the Filecoin networks with a registry this build knows
  Companies,
  Nobody        \* a company the registry has no address for, or no answer

\* A part and how it is asked for.  Walrus: the endpoints the person named, the
\* chain and the endpoints the list recorded, and the flag that lets those be
\* used.  Piece: its chain, and the companies keeping it with their addresses.
\* Folder: the name of the file in it.
Parts ==
  [kind : {"walrus"}, named : Seq(Addresses), chain : DOMAIN OnChain,
   recorded : Seq(Addresses), allow : BOOLEAN]
  \union [kind : {"piece"}, chain : STRING,
          copies : Seq([company : Companies, url : Addresses])]
  \union [kind : {"folder"}, file : Addresses]

ASSUME FetchAssumption ==
  /\ Wanted \subseteq Parts
  /\ Https \subseteq Addresses /\ Defaults \in Seq(Addresses)
  /\ \A c \in DOMAIN OnChain : OnChain[c] \subseteq ToSet(Defaults)
  /\ Nobody \notin Addresses

VARIABLES
  \* The world: the addresses that hold the part and answer, and the address
  \* the registry has for each company.
  up, registry,
  part,
  route,      \* the addresses being gone through
  due,        \* where on it the ones still to be asked are
  firms,      \* which of the part's copies are at a company still to be looked up
  tried,      \* addresses that were tried
  asked,      \* addresses that were sent a request
  handed,     \* bytes were handed to the caller
  answer

outside == <<up, registry>>
fetchvars == <<outside, part, route, due, firms, tried, asked, handed, answer>>

-----------------------------------------------------------------------------
\* The first of PLACES: everything is gone through in order.
First(places) == CHOOSE k \in places : \A j \in places : k <= j

\* PLACES of S without repetitions: the first of equal ones stays.
Distinct(s, places) ==
  {k \in places : \A j \in places : s[j] = s[k] => k <= j}

\* The built-in aggregators that are the chain's own, all of them, and what the
\* list recorded.
Candidates(p) == Defaults \o Defaults \o p.recorded

\* Mistake: what the list recorded is always among the endpoints.
UsableAll(p) ==
  {k \in DOMAIN Candidates(p) : k <= Len(Defaults) => Defaults[k] \in OnChain[p.chain]}

\* Those of them that are used, the recorded ones only if they are allowed.
Usable(p) ==
  {k \in DOMAIN Candidates(p) :
     /\ k <= Len(Defaults) => Defaults[k] \in OnChain[p.chain]
     /\ k > 2 * Len(Defaults) => p.allow}

\* Whom to ask: whoever the person named, else the candidates, each once.
EndpointsFor(p) ==
  IF p.named # <<>> THEN DOMAIN p.named ELSE Distinct(Candidates(p), Usable(p))

\* The different companies keeping a piece, by the first copy each has.
CompaniesOf(copies) ==
  Distinct([k \in DOMAIN copies |-> copies[k].company], DOMAIN copies)

\* Where a part is looked for first.
FirstAddresses(p) ==
  CASE p.kind = "walrus" -> IF p.named # <<>> THEN p.named ELSE Candidates(p)
    [] p.kind = "piece"  -> [k \in DOMAIN p.copies |-> p.copies[k].url]
    [] p.kind = "folder" -> <<p.file>>

FirstPlaces(p) ==
  IF p.kind = "walrus" THEN EndpointsFor(p) ELSE DOMAIN FirstAddresses(p)

-----------------------------------------------------------------------------
FetchInit ==
  /\ part \in Wanted
  /\ up \in SUBSET Addresses
  /\ registry \in [Companies -> Addresses \union {Nobody}]
  /\ route = FirstAddresses(part) /\ due = FirstPlaces(part)
  /\ firms = IF part.kind = "piece" /\ part.chain \in KnownChains
             THEN CompaniesOf(part.copies) ELSE {}
  /\ tried = {} /\ asked = {} /\ handed = FALSE /\ answer = "none"

\* Only a piece's addresses are looked at before they are used.
MayAsk(a) == part.kind = "piece" => a \in Https

Turn == answer = "none" /\ due # {}

\* The address whose turn it is.
Address == route[First(due)]

NotHttps ==
  /\ Turn /\ ~MayAsk(Address)
  /\ due' = due \ {First(due)} /\ tried' = tried \union {Address}
  /\ UNCHANGED <<outside, part, route, firms, asked, handed, answer>>

\* It cannot be reached, or answers anything but 200.
NoUse ==
  /\ Turn /\ MayAsk(Address) /\ Address \notin up
  /\ due' = due \ {First(due)}
  /\ tried' = tried \union {Address} /\ asked' = asked \union {Address}
  /\ UNCHANGED <<outside, part, route, firms, handed, answer>>

\* Mistake: bytes the caller rejects are asked for somewhere else.
HandsOverAgain ==
  /\ Turn /\ MayAsk(Address) /\ Address \in up
  /\ asked' = asked \union {Address} /\ tried' = tried \union {Address}
  /\ handed' = TRUE /\ due' = due \ {First(due)}
  /\ answer' \in {"taken", "none"}
  /\ UNCHANGED <<outside, part, route, firms>>

\* It answers: its bytes go to the caller, and what the caller makes of them is
\* the answer, also when it rejects them.
HandsOver ==
  /\ Turn /\ MayAsk(Address) /\ Address \in up
  /\ asked' = asked \union {Address}
  /\ handed' = TRUE
  /\ answer' \in {"taken", "rejected"}
  /\ UNCHANGED <<outside, part, route, due, firms, tried>>

\* Where the registry says the next company is.
Current == registry[part.copies[First(firms)].company]

\* Mistake: one company without an address ends the search.
LookUpOrStop ==
  /\ answer = "none" /\ due = {} /\ firms # {}
  /\ firms' = IF Current = Nobody THEN {} ELSE firms \ {First(firms)}
  /\ route' = <<Current>>
  /\ due' = IF Current \in tried \union {Nobody} THEN {} ELSE {1}
  /\ UNCHANGED <<outside, part, tried, asked, handed, answer>>

\* The recorded addresses are used up: the next company is looked up, and asked
\* where it is now unless that has been tried.
LookUp ==
  /\ answer = "none" /\ due = {} /\ firms # {}
  /\ firms' = firms \ {First(firms)}
  /\ route' = <<Current>>
  /\ due' = IF Current \in tried \union {Nobody} THEN {} ELSE {1}
  /\ UNCHANGED <<outside, part, tried, asked, handed, answer>>

\* Unavailable, or no copy: every attempt's reason is in the message.
NobodyLeft ==
  /\ answer = "none" /\ due = {} /\ firms = {}
  /\ answer' = "unavailable"
  /\ UNCHANGED <<outside, part, route, due, firms, tried, asked, handed>>

FetchNext == NotHttps \/ NoUse \/ HandsOver \/ LookUp \/ NobodyLeft

FetchSpec == FetchInit /\ [][FetchNext]_fetchvars

-----------------------------------------------------------------------------
(* Properties *)

\* Everywhere the part may lawfully be asked for: for a piece, https only, and
\* where the registry says its companies are; else whoever was named, or the
\* built-in aggregators and, if they are allowed, the recorded ones.
Places ==
  CASE part.kind = "piece" ->
         Https \intersect
           ({part.copies[k].url : k \in DOMAIN part.copies}
            \union IF part.chain \in KnownChains
                   THEN {registry[part.copies[k].company] : k \in DOMAIN part.copies}
                   ELSE {})
    [] part.kind = "walrus" ->
         IF part.named # <<>> THEN ToSet(part.named)
         ELSE ToSet(Defaults) \union IF part.allow THEN ToSet(part.recorded) ELSE {}
    [] part.kind = "folder" -> {part.file}

\* A part is given up only if no place that may be asked for it has it: one
\* company that moved, or one endpoint of four, is enough.
OnePlaceIsEnough == answer = "unavailable" => up \intersect Places = {}

\* "a request went out to a host the file chose": only the endpoints the person
\* named are asked, if any, and an endpoint that only the list names is not asked
\* unless the person allowed it.
HeldBackIsNotAsked ==
  part.kind = "walrus" /\ (part.named # <<>> \/ ~part.allow) =>
    asked \subseteq ToSet(IF part.named # <<>> THEN part.named ELSE Defaults)

Answer == INSTANCE OneAnswer

\* A source keeps to the one-answer contract restore_item is written against.
GivesOneAnswer == Answer!Spec
=============================================================================
