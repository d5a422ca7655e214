---------------------------- MODULE MCRestoreApart ----------------------------
(***************************************************************************)
(* The restores whose files are kept apart and whose healthy files can     *)
(* come back, as RestoreProofs assumes.                                    *)
(***************************************************************************)
EXTENDS MCRestore

ASSUME RunsAreApart == Apart

ASSUME HealthyAreRestorable == Restorable
===============================================================================
