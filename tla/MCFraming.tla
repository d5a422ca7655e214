------------------------------ MODULE MCFraming -------------------------------
(***************************************************************************)
(* Chunks of two bytes and tags of one.  A file of two parts, the first    *)
(* ending with a full chunk and the second with half of one; the first     *)
(* part sealed once more; and an empty file under another key.             *)
(***************************************************************************)
EXTENDS Framing

Stream(nonce, dek, index, total, len) ==
  [nonce |-> nonce, dek |-> dek, index |-> index, total |-> total, len |-> len]

MCStreams ==
  {Stream("n1", "key", 0, 2, 4), Stream("n2", "key", 1, 2, 3),
   Stream("n3", "key", 0, 2, 4), Stream("n4", "other", 0, 1, 0)}

MCPlaces == {[index |-> 0, total |-> 2], [index |-> 1, total |-> 2],
             [index |-> 0, total |-> 1]}
=============================================================================
