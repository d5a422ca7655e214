----------------------------- MODULE MCSharing -----------------------------
(***************************************************************************)
(* Two accounts, one of them with two identities, addresses of the real    *)
(* length; slips of one symbol in every place and neighbours swapped;      *)
(* bundles changed in every field, signed again by their owner or not.     *)
(***************************************************************************)
EXTENDS Sharing

Id(who, index) == [who |-> who, index |-> index]

MCIdentities == {Id("a", 0), Id("a", 1), Id("b", 0)}

\* Bytes without a pattern that a rotation would keep.
MCAddress ==
  (Id("a", 0) :> [i \in 1 .. 16 |-> (i * 37 + 11) % 256]) @@
  (Id("a", 1) :> [i \in 1 .. 16 |-> (i * i * 91 + 200) % 256]) @@
  (Id("b", 0) :> [i \in 1 .. 16 |-> IF i < 16 THEN 0 ELSE 255])

Swap(s, i) == [s EXCEPT ![i] = s[i + 1], ![i + 1] = s[i]]

Spelled(code) == [i \in DOMAIN code |-> CASE code[i] = 0 -> LetterO
                                          [] code[i] = 1 -> LetterI
                                          [] OTHER -> code[i]]

Grouped(code) ==
  SubSeq(code, 1, 9) \o <<Separator>> \o SubSeq(code, 10, 18) \o <<Separator>> \o SubSeq(code, 19, 27)

Slip(code, i, c) == [code EXCEPT ![i] = c]

\* Every symbol for each of the last two, two others for each of the rest.
Spellings(code) ==
  LET n == Len(code)
  IN  {Grouped(code), Spelled(code), Front(code), Append(code, 0), <<Separator>>}
      \union {Slip(code, i, c) : i \in {n - 1, n}, c \in CheckAlphabet \union {Stray}}
      \union {Slip(code, i, (code[i] + by) % 32) : i \in 1 .. n - 2, by \in {1, 16}}
      \union {Swap(code, i) : i \in 1 .. n - 1}

MCTexts == [id \in MCIdentities |-> Spellings(Canonical(MCAddress[id]))]

Resigned(b) == [b EXCEPT !.signature = [by |-> b.root, over |-> SignedPart(b)]]

Changed(b) ==
  {[b EXCEPT !.whole = FALSE], [b EXCEPT !.version = 2], [b EXCEPT !.epoch = 1],
   [b EXCEPT !.kem = Undecodable], [b EXCEPT !.auth = LowOrder]}
  \union {[b EXCEPT !.kem = id] : id \in MCIdentities}
  \union {[b EXCEPT !.auth = id] : id \in MCIdentities}
  \union {[b EXCEPT !.root = id] : id \in MCIdentities}

\* Only an owner signs, and puts no other's keys under the signature.
Own(b) == b.kem \in {b.root, Undecodable} /\ b.auth \in {b.root, LowOrder}

MCBundles ==
  LET honest == {PublicKeyAt(id) : id \in MCIdentities}
      changed == UNION {Changed(b) : b \in honest}
  IN  honest \union changed \union {Resigned(b) : b \in {c \in changed : Own(c)}}

MCColumns ==
  {[item |-> "item1", name |-> "name1", hash |-> "hash1"],
   [item |-> "item2", name |-> "name2", hash |-> "hash2"],
   [item |-> "item1", name |-> "name1", hash |-> ""]}

(***************************************************************************)
(* The code of codes.rs against its meaning: bit by bit.                   *)
(***************************************************************************)
Bit(bytes, i) == (bytes[(i \div 8) + 1] \div 2 ^ (7 - (i % 8))) % 2

BitOrZero(bytes, i) == IF i < 8 * Len(bytes) THEN Bit(bytes, i) ELSE 0

Reference(bytes) ==
  [k \in 1 .. (8 * Len(bytes) + 4) \div 5 |->
     LET b(j) == BitOrZero(bytes, 5 * (k - 1) + j)
     IN  16 * b(0) + 8 * b(1) + 4 * b(2) + 2 * b(3) + b(4)]

Samples ==
  {<<>>} \union {<<x>> : x \in 0 .. 255}
  \union [1 .. 2 -> {0, 1, 37, 128, 255}] \union [1 .. 3 -> {0, 90, 255}]
  \union [1 .. 5 -> {0, 171, 255}] \union {MCAddress[id] : id \in MCIdentities}

ASSUME EncodesBitByBit ==
  \A bytes \in Samples :
    /\ EncodeBase32(bytes) = Reference(bytes)
    /\ Decode32(EncodeBase32(bytes)) = [bytes |-> bytes, padded |-> TRUE]

\* Every symbol in the places of which Spellings has two.
ASSUME NoOtherSymbolIsTaken ==
  \A id \in MCIdentities :
    LET code == Canonical(MCAddress[id])
    IN  \A i \in 1 .. Len(code) - 2 : \A c \in CheckAlphabet \ {code[i]} :
          ParseChecked(Slip(code, i, c), AddressSymbols).why # ""

\* What SharingProofs assumes.
ASSUME Hypotheses == AtMostOneSlip /\ OwnersSignTheirOwn
=============================================================================
