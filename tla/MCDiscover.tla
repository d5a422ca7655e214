------------------------------ MODULE MCDiscover ------------------------------
(***************************************************************************)
(* Three addresses, pages of two objects, two pages at most.  The first    *)
(* owns up to three objects in any order, the second at most one, the      *)
(* third so many that the search stops short of the last, or fewer.  q1,   *)
(* q2 and q4 carry one sequence, q3 carries no list, q5 one that does not  *)
(* open, q6 the newest; the coin is not a blob.                            *)
(***************************************************************************)
EXTENDS Discover

List(opens, seq, items, when) ==
  [opens |-> opens, seq |-> seq, items |-> items, at |-> when]

MCOwners == <<"a1", "a2", "a3">>
MCQuilts == {"q1", "q2", "q3", "q4", "q5", "q6"}

MCPatch ==
  [q1 |-> List(TRUE, 2, 1, 1), q2 |-> List(TRUE, 2, 2, 0), q3 |-> NoList,
   q4 |-> List(TRUE, 2, 2, 1), q5 |-> List(FALSE, 0, 0, 0),
   q6 |-> List(TRUE, 3, 1, 0)]

UpTo(n, S) == UNION {[1 .. k -> S] : k \in 0 .. n}

MCLedgers ==
  [a1 : UpTo(3, {"q1", "q2", "q4", "coin"}), a2 : UpTo(1, {"q2", "q5", "q6"}),
   a3 : {<<"q4", "q3", "coin", "coin", "q6">>, <<"coin", "q6", "q1">>}]

MCSteadies == {{}, {"a1"}, {"a1", "a3"}}

OneNetwork == <<"main", "main">>
BothNetworks == <<"main", "test">>
TestFirst == <<"test", "main", "main">>
=============================================================================
