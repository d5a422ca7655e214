------------------------------- MODULE MCNetwork -------------------------------
(***************************************************************************)
(* What the program asks of the network: it searches for the list of an    *)
(* account, or it fetches a part a list names.  The two share no state, so *)
(* a behaviour is one of either, and the other stands where it began.      *)
(***************************************************************************)
EXTENDS MCDiscover, MCFetch

VARIABLE doing    \* "search" or "fetch"

SearchStands ==
  Init /\ ledger = [a1 |-> <<>>, a2 |-> <<>>, a3 |-> <<"coin", "q6", "q1">>] /\ steady = {}

FetchStands ==
  /\ FetchInit
  /\ part.kind = "folder" /\ up = {} /\ registry = [c \in Companies |-> Nobody]

NetworkInit ==
  \/ doing = "search" /\ FetchStands /\ Init
  \/ doing = "fetch" /\ SearchStands /\ FetchInit

NetworkNext ==
  \/ doing = "search" /\ Next /\ UNCHANGED <<doing, fetchvars>>
  \/ doing = "fetch" /\ FetchNext /\ UNCHANGED <<doing, vars>>

NetworkSpec == NetworkInit /\ [][NetworkNext]_<<doing, vars, fetchvars>>
=============================================================================
