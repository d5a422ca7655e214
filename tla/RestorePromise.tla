---------------------------- MODULE RestorePromise ----------------------------
(***************************************************************************)
(* What a restore promises to the person running it, with no parts, no     *)
(* temporaries and no network: every file is either put in place whole, in *)
(* one step, or reported as failed and left as it was.                     *)
(***************************************************************************)
CONSTANTS Files, Overwrite

VARIABLES
  file,      \* file[f]: what is at the destination of f
  verdict    \* verdict[f]: what the run has said of f

Init ==
  /\ file \in [Files -> {"absent", "old"}]
  /\ verdict = [f \in Files |-> "pending"]

\* The file comes back.  Without the flag it may only go where nothing is.
PutInPlace(f) ==
  /\ verdict[f] = "pending"
  /\ Overwrite \/ file[f] = "absent"
  /\ file' = [file EXCEPT ![f] = "whole"]
  /\ verdict' = [verdict EXCEPT ![f] = "restored"]

GiveUp(f) ==
  /\ verdict[f] = "pending"
  /\ verdict' = [verdict EXCEPT ![f] = "failed"]
  /\ UNCHANGED file

\* The program dies and is run again: the files stay, the verdicts do not.
StartAgain ==
  /\ verdict' = [f \in Files |-> "pending"]
  /\ UNCHANGED file

Next == (\E f \in Files : PutInPlace(f) \/ GiveUp(f)) \/ StartAgain

Spec == Init /\ [][Next]_<<file, verdict>>
=============================================================================
