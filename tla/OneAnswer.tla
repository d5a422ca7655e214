------------------------------- MODULE OneAnswer -------------------------------
(***************************************************************************)
(* What a restore relies on when it asks a source for a part (the trait    *)
(* BlobSource of recovery/src/source.rs): it is handed bytes at most once, *)
(* what it makes of them is the answer, and it is told that the part is    *)
(* not to be had only if it was handed none.                               *)
(***************************************************************************)
VARIABLES handed, answer

Init == handed = FALSE /\ answer = "none"

HandOver == ~handed /\ handed' = TRUE /\ answer' \in {"taken", "rejected"}

GiveUp == ~handed /\ answer = "none" /\ answer' = "unavailable" /\ UNCHANGED handed

Spec == Init /\ [][HandOver \/ GiveUp]_<<handed, answer>>
=============================================================================
