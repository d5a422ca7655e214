-------------------------------- MODULE MCPlan --------------------------------
(***************************************************************************)
(* Documents with every form a part can take, each with the field that the *)
(* form needs and without it, and lists whose names meet on the disk.      *)
(***************************************************************************)
EXTENDS Plan, TLC

Part0 ==
  [index |-> 0, blob |-> "blob", piece |-> TRUE, len |-> 2, padded |-> Absent,
   network |-> Absent, chain |-> Absent, copies |-> Absent]

Copy(canonical, own) ==
  [company |-> "1", canonical |-> canonical, ownAddress |-> own]

Sealed(part) == [part EXCEPT !.network = "filecoin", !.chain = "mainnet",
                             !.copies = <<Copy(TRUE, TRUE)>>]

Absolute == [blob |-> TRUE, patch |-> TRUE, identifier |-> FALSE]
Own == [blob |-> FALSE, patch |-> FALSE, identifier |-> TRUE]
Mixed == [blob |-> TRUE, patch |-> FALSE, identifier |-> TRUE]

\* One part in every shape the checks tell apart.
OddParts ==
  {Part0,
   [Part0 EXCEPT !.index = Absent], [Part0 EXCEPT !.index = 1],
   [Part0 EXCEPT !.blob = Absent],
   [Part0 EXCEPT !.padded = 2], [Part0 EXCEPT !.padded = 3],
   [Part0 EXCEPT !.blob = Absent, !.padded = 3],
   [Part0 EXCEPT !.network = "other"],
   [Part0 EXCEPT !.chain = "mainnet"], [Part0 EXCEPT !.network = "filecoin"],
   Sealed(Part0), [Sealed(Part0) EXCEPT !.padded = 3],
   [Sealed(Part0) EXCEPT !.chain = "other"], [Sealed(Part0) EXCEPT !.piece = FALSE],
   [Sealed(Part0) EXCEPT !.blob = Absent], [Sealed(Part0) EXCEPT !.copies = <<>>],
   [Sealed(Part0) EXCEPT !.copies = <<Copy(FALSE, TRUE)>>],
   [Sealed(Part0) EXCEPT !.copies = <<Copy(TRUE, FALSE)>>],
   [Sealed(Part0) EXCEPT !.copies = [c \in 1 .. 13 |-> Copy(TRUE, TRUE)]]}

File(name, path, parts, quilt, size) ==
  [name |-> name, path |-> path, parts |-> parts, quilt |-> quilt, size |-> size]

Plain(name, path) == File(name, path, <<Part0>>, Absent, 2)

a == <<"a">>

CONSTANTS k1, k2

TwoKeys == Permutations({k1, k2})

Second(part) == [part EXCEPT !.index = IF @ = Absent THEN Absent ELSE 1]

\* Every odd part alone, under every quilt record, with a size that agrees and
\* one that does not; and in second place.
Odd ==
  {<<File(a, <<>>, <<part>>, quilt, size)>> :
      part \in OddParts, quilt \in {Absent, Absolute, Own, Mixed}, size \in {2, 3}}
  \union {<<File(a, <<>>, <<Part0, Second(part)>>, quilt, 4)>> :
             part \in OddParts, quilt \in {Absent, Absolute, Own}}

\* Names that meet: the same, the same after cleaning, and one that is called as
\* another would be numbered.
Named ==
  {<<".">>, <<"a", ".">>, <<"a", "space", ".", "b">>, <<":", "a">>, <<"underscore", "a">>,
   <<"CON">>, <<"CON", ".", "b">>, <<"a">>, <<"a", "space", "(2)">>, <<".", "a">>, <<>>}

Meeting ==
  {<<Plain(n, <<>>), Plain(m, <<>>), Plain(r, <<>>)>> :
      n \in Named, m \in Named, r \in {<<"underscore", "a">>, <<"a", "space", "(2)">>}}
  \union {<<Plain(n, <<<<".", ".">>>>), Plain(m, <<<<".">>>>), Plain(m, <<a>>)>> :
             n \in Named, m \in Named}

MCContents == Odd \union Meeting

MCNeedles == {<<"a">>, <<"/", ".", ".", "/">>}

MCTicks == {<<0, 0, 0>>, <<1, 0>>, <<2, 7>>}
===============================================================================
