------------------------------- MODULE MCCrypto -------------------------------
(***************************************************************************)
(* The two protocols of the crypto crate that are checked as processes: a  *)
(* part is sealed and read back, or a file's key is sent to a person.      *)
(* They share no state, so a behaviour is one of either, and the other     *)
(* stands where it began.                                                  *)
(***************************************************************************)
EXTENDS MCFraming, MCSharing

VARIABLE doing    \* "sealing" or "sharing"

CryptoInit == doing \in {"sealing", "sharing"} /\ Init /\ SharingInit

CryptoNext ==
  \/ doing = "sealing" /\ Next /\ UNCHANGED <<doing, sharingvars>>
  \/ doing = "sharing" /\ SharingNext /\ UNCHANGED <<doing, vars>>

CryptoSpec == CryptoInit /\ [][CryptoNext]_<<doing, vars, sharingvars>>
=============================================================================
