------------------------------ MODULE MCRestore ------------------------------
(***************************************************************************)
(* Small restores.  FileA has two parts of the same stored length, the     *)
(* second padded, and no recorded hash; FileB has one part and a hash;     *)
(* FileC's recorded hash is that of another file; FileD is refused before  *)
(* anything is written.  The storage also holds a part of a three-part     *)
(* version of FileA, a longer stream under FileB's key and a stream that   *)
(* looks like FileB's under another key.                                   *)
(***************************************************************************)
EXTENDS Restore, TLC

CONSTANTS i1, i2, i3, i4, w1, w2

Hdr(key, index, total, len) ==
  [key |-> key, index |-> index, total |-> total, len |-> len]

MCHeaders ==
  {Hdr("a", 0, 2, 2), Hdr("a", 1, 2, 2), Hdr("a", 0, 3, 2),
   Hdr("b", 0, 1, 1), Hdr("b", 0, 1, 2), Hdr("c", 0, 1, 1)}

PartRec(index, start, keep, len) ==
  [index |-> index, start |-> start, keep |-> keep, len |-> len]

FileA == [tmp |-> "tmpA", dest |-> "A", key |-> "a", size |-> 3,
          hash |-> NoHash, problem |-> FALSE,
          parts |-> <<PartRec(0, 0, 2, 2), PartRec(1, 2, 1, 2)>>]

FileB == [tmp |-> "tmpB", dest |-> "B", key |-> "b", size |-> 1,
          hash |-> << <<Hdr("b", 0, 1, 1), 1>> >>, problem |-> FALSE,
          parts |-> <<PartRec(NoIndex, 0, 1, 1)>>]

FileC == [tmp |-> "tmpC", dest |-> "C", key |-> "c", size |-> 1,
          hash |-> << <<Hdr("b", 0, 1, 1), 1>> >>, problem |-> FALSE,
          parts |-> <<PartRec(0, 0, 1, 1)>>]

\* A list that names FileA's parts in the wrong order.
FileD == [FileA EXCEPT !.tmp = "tmpD", !.dest = "D",
          !.parts = <<PartRec(1, 0, 2, 2), PartRec(0, 2, 1, 2)>>]

MCPaths == {"A", "B", "C", "D", "tmpA", "tmpB", "tmpC", "tmpD"}

Empty == [p \in MCPaths |-> NoFile]

\* An empty folder, one where A exists, and one where a killed run left A's
\* temporary.
MCDirs == {Empty, [Empty EXCEPT !["A"] = i1], [Empty EXCEPT !["tmpA"] = i1]}

EmptyDirs == {Empty}

\* A folder where B exists.
DirsB == {Empty, [Empty EXCEPT !["B"] = i1]}

QueueADCB == (w1 :> <<FileA, FileD, FileC, FileB>>)
QueueAA == (w1 :> <<FileA>>) @@ (w2 :> <<FileA>>)
QueueAB == (w1 :> <<FileA>>) @@ (w2 :> <<FileB>>)
=============================================================================
