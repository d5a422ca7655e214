----------------------------- MODULE RecoveryList -----------------------------
(***************************************************************************)
(* The recovery list as a document, crypto/src/manifest.rs and             *)
(* manifest/filecoin.rs: the forms a part may take, the version that each  *)
(* form needs, the checks that writer and reader share (to_json,           *)
(* from_json), and the single envelope the list travels in (encrypt,       *)
(* decrypt).  A writer with some contents stamps a version and seals it;   *)
(* a reader is shown something and opens it or not.                        *)
(***************************************************************************)
EXTENDS Integers, Sequences, SequencesExt

CONSTANTS
  Contents,   \* the items a document may hold: sequences of items
  Stamps,     \* the versions a document may say it has
  Keys,       \* data keys, one per account
  Absent      \* an optional field that is not there

\* The first version with each form, and the newest this build writes.
WithPartIndex == 2
WithOwnQuilt == 3
WithPadding == 4
WithFilecoin == 5
ManifestVersion == 5
MaxFilecoinCopies == 12

Opt(S) == S \union {Absent}

\* What a part says.  Piece ids, numbers and addresses are as well formed as
\* is_piece_cid, is_u256_decimal and is_retrieval_url find them: piece says so
\* of blob, and a copy of its three numbers and its address.
Copies == [company : STRING, canonical : BOOLEAN, ownAddress : BOOLEAN]
Parts ==
  [index : Opt(Nat), blob : Opt(STRING), piece : BOOLEAN, len : Nat,
   padded : Opt(Nat), network : Opt(STRING), chain : Opt(STRING),
   copies : Opt(Seq(Copies))]

\* Which fields of a quilt record are there.
Quilts == [blob : BOOLEAN, patch : BOOLEAN, identifier : BOOLEAN]

ASSUME ListAssumption ==
  /\ Stamps \subseteq Nat /\ Absent \notin {"calibration", "mainnet"}
  /\ \A items \in Contents : \A i \in DOMAIN items :
       /\ items[i].parts \in Seq(Parts) /\ items[i].quilt \in Opt(Quilts)
       /\ items[i].size \in Nat

-----------------------------------------------------------------------------
(* What a part and an item mean *)

NetworkName(part) == IF part.network = Absent THEN "walrus" ELSE part.network

StreamPlaintextLen(part) == IF part.padded = Absent THEN part.len ELSE part.padded

OnFilecoin(part) == NetworkName(part) = "filecoin"

Carries(part) == part.chain # Absent \/ part.copies # Absent

\* Which of the two placements a quilt record is.
Placement(quilt) ==
  CASE quilt = Absent -> "none"
    [] quilt # Absent /\ quilt.blob /\ quilt.patch /\ ~quilt.identifier -> "absolute"
    [] quilt # Absent /\ ~quilt.blob /\ ~quilt.patch /\ quilt.identifier -> "own"
    [] OTHER -> "unclear"

PartsAddUp(item) ==
  FoldLeft(LAMBDA sum, part : sum + part.len, 0, item.parts) = item.size

SomePart(items, Test(_)) ==
  \E i \in DOMAIN items : \E k \in DOMAIN items[i].parts : Test(items[i].parts[k])

\* Mistake: padding is not looked for.
MinimumVersionUnpadded(items) ==
  IF SomePart(items, LAMBDA p : OnFilecoin(p) \/ Carries(p)) THEN WithFilecoin
  ELSE IF \E i \in DOMAIN items : items[i].quilt # Absent /\ items[i].quilt.identifier
       THEN WithOwnQuilt
       ELSE WithPartIndex

\* The lowest version a document holding these items may honestly declare.
MinimumVersion(items) ==
  IF SomePart(items, LAMBDA p : OnFilecoin(p) \/ Carries(p)) THEN WithFilecoin
  ELSE IF SomePart(items, LAMBDA p : p.padded # Absent) THEN WithPadding
  ELSE IF \E i \in DOMAIN items : items[i].quilt # Absent /\ items[i].quilt.identifier
       THEN WithOwnQuilt
       ELSE WithPartIndex

-----------------------------------------------------------------------------
(* The four checks of both sides *)

\* A part states its own position, and from version 2 on it states one.
CheckPartPlacement(v, item) ==
  \A k \in DOMAIN item.parts :
    IF item.parts[k].index = Absent THEN v < WithPartIndex
    ELSE item.parts[k].index = k - 1

\* Mistake: the rule that every other part names a blob is left out.
CheckQuiltPlacementLax(v, item) ==
  LET form == Placement(item.quilt) IN
  /\ form # "unclear"
  /\ form = "own" => v >= WithOwnQuilt /\ Len(item.parts) = 1
                     /\ item.parts[1].blob = Absent

\* One of the two forms, the own bundle only from version 3 on and for one part
\* that names no blob; every other part names one.
CheckQuiltPlacement(v, item) ==
  LET form == Placement(item.quilt) IN
  /\ form # "unclear"
  /\ IF form = "own"
     THEN v >= WithOwnQuilt /\ Len(item.parts) = 1 /\ item.parts[1].blob = Absent
     ELSE \A k \in DOMAIN item.parts : item.parts[k].blob # Absent

\* Padding from version 4 on, and strictly more than the part contributes.
CheckPadding(v, item) ==
  \A k \in DOMAIN item.parts :
    LET part == item.parts[k] IN
    part.padded # Absent => v >= WithPadding /\ part.padded > part.len

\* A Filecoin part, or anything that looks like one, from version 5 on; a whole
\* one names its chain, its piece and up to twelve well-formed copies, outside
\* any quilt.
CheckFilecoin(v, item) ==
  \A k \in DOMAIN item.parts :
    LET part == item.parts[k] IN
    /\ OnFilecoin(part) \/ Carries(part) => v >= WithFilecoin /\ OnFilecoin(part)
    /\ OnFilecoin(part) =>
         /\ item.quilt = Absent
         /\ part.chain \in {"calibration", "mainnet"}
         /\ part.blob # Absent /\ part.piece
         /\ part.copies # Absent /\ Len(part.copies) \in 1 .. MaxFilecoinCopies
         /\ \A c \in DOMAIN part.copies :
              part.copies[c].canonical /\ part.copies[c].ownAddress

\* from_json: what a reader takes.
Reads(v, items) ==
  \A i \in DOMAIN items :
    /\ CheckPartPlacement(v, items[i])
    /\ CheckQuiltPlacement(v, items[i])
    /\ CheckPadding(v, items[i])
    /\ CheckFilecoin(v, items[i])

\* Mistake: the writer leaves the shared checks to the reader.
WritesIfItAddsUp(v, items) == \A i \in DOMAIN items : PartsAddUp(items[i])

\* to_json: the same, and the parts of every item add up.
Writes(v, items) == Reads(v, items) /\ \A i \in DOMAIN items : PartsAddUp(items[i])

-----------------------------------------------------------------------------
(* The envelope *)

VARIABLES
  stage,    \* "write", "refused", "sealed", "shown", "unreadable", "opened"
  items,    \* the contents
  v,        \* the version stamped
  key,      \* the account's data key
  sealed,   \* the list as it was sealed
  shown     \* what the reader is shown in its place

listvars == <<stage, items, v, key, sealed, shown>>

\* Everything a storage or a file may hold for a list.  An envelope opens under
\* its key and label; magic says that its first bytes, which are its nonce, are
\* the four a stream begins with.
Envelope(k, label, magic, version, contents) ==
  [key |-> k, label |-> label, magic |-> magic, v |-> version, items |-> contents]

Broken == [broken |-> TRUE, magic |-> FALSE]
Stream == [broken |-> TRUE, magic |-> TRUE]

ListInit ==
  /\ stage = "write"
  /\ items \in Contents /\ v \in Stamps /\ key \in Keys
  /\ sealed = Absent /\ shown = Absent

\* encrypt: to_json, then one envelope under the label of recovery lists with a
\* nonce from the system's randomness.
Encrypt ==
  /\ stage = "write" /\ Writes(v, items)
  /\ \E magic \in BOOLEAN : sealed' = Envelope(key, "recovery-map", magic, v, items)
  /\ stage' = "sealed"
  /\ UNCHANGED <<items, v, key, shown>>

EncryptRefuses ==
  /\ stage = "write" /\ ~Writes(v, items)
  /\ stage' = "refused"
  /\ UNCHANGED <<items, v, key, sealed, shown>>

\* The list arrives, or something else does: the list of another account, an
\* envelope of this account made for something else, altered bytes, a stream; or
\* a list that was made by another program, which need not have checked it.
Show ==
  /\ stage \in {"sealed", "refused"}
  /\ \/ shown' \in {Broken, Stream}
     \/ sealed # Absent /\ shown' = sealed
     \/ \E k \in Keys, label \in {"recovery-map", "dek-wrap"} :
          shown' = Envelope(k, label, FALSE, v, items)
  /\ stage' = "shown"
  /\ UNCHANGED <<items, v, key, sealed>>

\* decrypt: not a stream, and an envelope of this key under this label.
Opens(k, e) ==
  ~e.magic /\ "broken" \notin DOMAIN e /\ e.key = k /\ e.label = "recovery-map"

Decrypt ==
  /\ stage = "shown" /\ Opens(key, shown) /\ Reads(shown.v, shown.items)
  /\ stage' = "opened"
  /\ UNCHANGED <<items, v, key, sealed, shown>>

DecryptRefuses ==
  /\ stage = "shown" /\ ~(Opens(key, shown) /\ Reads(shown.v, shown.items))
  /\ stage' = "unreadable"
  /\ UNCHANGED <<items, v, key, sealed, shown>>

ListNext == Encrypt \/ EncryptRefuses \/ Show \/ Decrypt \/ DecryptRefuses

ListSpec == ListInit /\ [][ListNext]_listvars

-----------------------------------------------------------------------------
(* Properties *)

\* "this crate can never seal a list it would then decline to open": a list that
\* encrypt sealed opens again with the account's key, unless chance gave its
\* envelope the four first bytes of a stream, which decrypt refuses unseen.
WhatIsSealedOpens ==
  stage = "unreadable" /\ sealed # Absent /\ shown = sealed => sealed.magic

\* The version minimum_version asks for is one the checks admit: contents that it
\* makes unwritable are unwritable under every version from 2 on, so nobody has
\* to stamp a higher one to save a list.
StampIsEnough ==
  stage = "refused" /\ v = MinimumVersion(items) =>
    \A w \in Stamps : w >= WithPartIndex => ~Writes(w, items)

===============================================================================
