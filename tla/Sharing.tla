------------------------------ MODULE Sharing ------------------------------
(***************************************************************************)
(* share.rs and share_at.rs: a file's key is sent to a person by address.  *)
(* The sender types the address, the server hands over a bundle of keys    *)
(* for it, the key is wrapped for that bundle and one row, and whoever is  *)
(* handed the row tries to open it.  The server may hand over any bundle   *)
(* and any mixture of rows.                                                *)
(*                                                                         *)
(* Keys, secrets and digests are the values they are made from: two are    *)
(* equal only if those are.  An identity stands for its three seeds.       *)
(***************************************************************************)
EXTENDS Codes, FiniteSets

CONSTANTS
  Identities,      \* [who, index]: the accounts' identities, by number
  Address,         \* of each identity's root, AddressLen bytes
  Texts,           \* what is typed for an identity's address
  Bundles,         \* what the server may hand over for an address
  Columns,         \* the rows that are shared: [item, name, hash]
  MaxSent,         \* bound on the envelopes
  Nobody, NoBundle,
  Undecodable,     \* an ML-KEM half that is none
  LowOrder         \* an X25519 half that agrees to nothing with everybody

AddressLen == 16
AddressSymbols == 26
IdentityVersion == 1

ASSUME IdentitiesDiffer ==
  /\ \A i, j \in Identities : i # j => Address[i] # Address[j]
  /\ Undecodable \notin Identities

ASSUME AddressesAreBytes ==
  \A id \in Identities :
    /\ Address[id] \in Seq(Nat) /\ Len(Address[id]) = AddressLen
    /\ \A i \in 1 .. AddressLen : Address[id][i] < 256

ASSUME NoneIsNoBundle == NoBundle \notin Bundles

VARIABLES
  meant,      \* whom the sender has in mind
  typed,      \* the address as typed, until the bundle is there
  address,    \* ShareAddress: its bytes, or none
  recipient,  \* SharePublicKey: the bundle that was handed over and read
  sent,       \* the envelopes
  outcome      \* what the last attempt to open a row gave

sharingvars == <<meant, typed, address, recipient, sent, outcome>>

Sender == <<meant, typed, address, recipient>>

Refused(why) == [why |-> why]

(***************************************************************************)
(* The bundle.  Its root is the number and the verification key; the       *)
(* signature of that key is over all that comes before it.                 *)
(***************************************************************************)
SignedPart(b) == <<b.version, b.root, b.epoch, b.kem, b.auth>>

PublicKeyAt(id) ==
  LET plain == [whole |-> TRUE, version |-> IdentityVersion, root |-> id, epoch |-> 0,
                kem |-> id, auth |-> id]
  IN  [whole |-> TRUE, version |-> IdentityVersion, root |-> id, epoch |-> 0, kem |-> id,
       auth |-> id, signature |-> [by |-> id, over |-> SignedPart(plain)]]

VerifySelfSignature(b) == b.signature = [by |-> b.root, over |-> SignedPart(b)]

\* Two halves are X25519 keys; b.auth stands for the check of both.
FromBytes(b) ==
  /\ b.whole
  /\ b.version = IdentityVersion
  /\ VerifySelfSignature(b)
  /\ b.kem \in Identities
  /\ b.auth # LowOrder

\* Nobody signs for another, and nobody publishes another's keys as his own.
OwnersSignTheirOwn ==
  \A b \in Bundles : VerifySelfSignature(b) =>
    b.kem \in {b.root, Undecodable} /\ b.auth \in {b.root, LowOrder}

AddressOfRoot(root) == Address[root]

\* Mistake: the server is taken at its word.
VerifyAddressNever(b, a) == b.whole

VerifyAddress(b, a) == AddressOfRoot(b.root) = a

(***************************************************************************)
(* The envelope.                                                           *)
(***************************************************************************)
Commits(row) == row.item # "" /\ row.name # "" /\ row.hash # ""

Encapsulate(kem) == [for |-> kem, coin |-> Cardinality(sent)]

\* A ciphertext made for another key gives some other secret, and no error.
Decapsulate(ct, kem) == IF ct.for = kem THEN <<ct>> ELSE <<ct, kem>>

DiffieHellman(mine, theirs) == {mine, theirs}

\* Mistake: the row is not part of the key.
WrapKeyWithoutRow(kem, auth, from, ct, root, row) == <<kem, auth, from, ct, root>>

WrapKey(kem, auth, from, ct, root, row) == <<kem, auth, from, ct, root, row>>

Wrap(from, b, row) ==
  LET ct == Encapsulate(b.kem)
      key == WrapKey(Decapsulate(ct, b.kem), DiffieHellman(from, b.auth), AddressOfRoot(from),
                     ct, b.root, row)
  IN  [whole |-> TRUE, sender |-> AddressOfRoot(from), ct |-> ct,
       sealed |-> [key |-> key, dek |-> [from |-> from, to |-> meant, row |-> row]]]

\* unwrap_dek_as, as the identity `by`, next to the columns `row`.
Unwrap(by, b, envelope, row) ==
  LET key == WrapKey(Decapsulate(envelope.ct, by), DiffieHellman(by, b.auth), envelope.sender,
                     envelope.ct, by, row)
  IN  IF ~envelope.whole THEN Refused("length")
      ELSE IF ~Commits(row) THEN Refused("empty column")
      ELSE IF ~VerifyAddress(b, envelope.sender) THEN Refused("address")
      ELSE IF envelope.sealed.key # key THEN Refused("auth")
      ELSE [why |-> "", by |-> by, sender |-> envelope.sender, row |-> row,
            dek |-> envelope.sealed.dek]

(***************************************************************************)
(* The sender.                                                             *)
(***************************************************************************)
Rest ==
  /\ meant = Nobody /\ typed = <<>> /\ address = <<>> /\ recipient = NoBundle

Rests ==
  /\ meant' = Nobody /\ typed' = <<>> /\ address' = <<>> /\ recipient' = NoBundle

\* A spelling with one symbol changed, with two neighbours swapped, or of another
\* length.
OneSlip(normal, code) ==
  \/ Len(normal) # Len(code)
  \/ \E i \in DOMAIN code : normal = [code EXCEPT ![i] = normal[i]]
  \/ \E i \in DOMAIN code : /\ i + 1 \in DOMAIN code
                            /\ normal = [code EXCEPT ![i] = code[i + 1], ![i + 1] = code[i]]

AtMostOneSlip ==
  \A id \in Identities : \A text \in Texts[id] :
    OneSlip(Normalize(text), Canonical(Address[id]))

SharingInit == Rest /\ sent = {} /\ outcome = Refused("not tried")

Type(id, text) ==
  /\ Rest
  /\ Cardinality(sent) < MaxSent
  /\ meant' = id
  /\ typed' = text
  /\ outcome' = Refused("not tried")
  /\ UNCHANGED <<address, recipient, sent>>

\* ShareAddress::parse.  Nothing is looked up for an address that is refused.
ParseAddress ==
  /\ typed # <<>> /\ address = <<>>
  /\ LET parsed == ParseChecked(typed, AddressSymbols)
     IN  IF parsed.why = ""
         THEN address' = parsed.bytes /\ UNCHANGED <<meant, typed, recipient>>
         ELSE Rests
  /\ UNCHANGED <<sent, outcome>>

Fetch(b) ==
  /\ address # <<>> /\ recipient = NoBundle
  /\ IF FromBytes(b)
     THEN recipient' = b /\ typed' = <<>> /\ UNCHANGED <<meant, address>>
     ELSE Rests
  /\ UNCHANGED <<sent, outcome>>

\* wrap_dek_for_as.
Send(from, row) ==
  /\ recipient # NoBundle
  /\ sent' = IF VerifyAddress(recipient, address) /\ Commits(row)
             THEN sent \union {Wrap(from, recipient, row)} ELSE sent
  /\ Rests
  /\ UNCHANGED outcome

(***************************************************************************)
(* The recipient: any columns with any halves of envelopes, and any bundle *)
(* for the sender it claims.  Of an envelope of another length nothing is  *)
(* read.                                                                   *)
(***************************************************************************)
Served ==
  {[whole |-> FALSE]}
  \union [whole : {TRUE}, sender : {Address[id] : id \in Identities},
          ct : {e.ct : e \in sent}, sealed : {e.sealed : e \in sent}]

Rows ==
  {[item |-> c.item, name |-> d.name, hash |-> e.hash] : c, d, e \in Columns}

\* unwrap_dek_as, with the number the recipient picks; a share that is being typed
\* has nothing in common with it.
OpenRow(b) ==
  /\ Rest
  /\ FromBytes(b)
  /\ \E by \in Identities, envelope \in Served, row \in Rows :
        outcome' = Unwrap(by, b, envelope, row)
  /\ UNCHANGED <<Sender, sent>>

SharingNext ==
  \/ \E id \in Identities : \E text \in Texts[id] : Type(id, text)
  \/ ParseAddress
  \/ \E b \in Bundles : Fetch(b) \/ OpenRow(b)
  \/ \E from \in Identities, row \in Columns : Send(from, row)

SharingSpec == SharingInit /\ [][SharingNext]_sharingvars
-----------------------------------------------------------------------------
(***************************************************************************)
(* A slip of the hand never names somebody else, and what was taken is the *)
(* address's own spelling, whatever the grouping (share.rs:764-767,        *)
(* codes.rs:129-145).                                                      *)
(***************************************************************************)
SlipIsTold ==
  address # <<>> /\ recipient = NoBundle =>
    /\ address = Address[meant]
    /\ Normalize(typed) = Canonical(address)

(***************************************************************************)
(* A key leaves the sender only for the one who is meant: neither secret   *)
(* it is wrapped under can be computed by anybody else (share.rs:785-791). *)
(***************************************************************************)
OnlyTheOneMeant ==
  \A e \in sent :
    /\ e.ct.for = e.sealed.dek.to
    /\ e.sealed.key[2] = {e.sealed.dek.from, e.sealed.dek.to}

(***************************************************************************)
(* It opened, the claimed sender really sent it, and these are the columns *)
(* it was sent with, are one fact (share_at.rs:158-163).                   *)
(***************************************************************************)
OpenedIsWhatWasSent ==
  outcome.why = "" =>
    /\ outcome.by = outcome.dek.to
    /\ outcome.sender = Address[outcome.dek.from]
    /\ outcome.row = outcome.dek.row
=============================================================================
