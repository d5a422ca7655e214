--------------------------- MODULE MCControlWindow ---------------------------
(***************************************************************************)
(* Two lists, one of two files and one of one, so that a row of the first  *)
(* may be no row of the second.                                            *)
(***************************************************************************)
EXTENDS ControlWindow, TLC

CONSTANTS net, usb, s1, s2, r1, r2

MCSize == (net :> 2) @@ (usb :> 1)

\* Request threads are alike, and so are restore threads.
Alike == Permutations(Slots) \union Permutations(Threads)
=============================================================================
