-------------------------------- MODULE MCFetch --------------------------------
(***************************************************************************)
(* Two built-in aggregators, one per chain, one the person may name, one   *)
(* the list records; two companies at two recorded places, one not https,  *)
(* and a third place one of them may have moved to.                        *)
(***************************************************************************)
EXTENDS Fetch

MCDefaults == <<"main", "test">>
MCOnChain == [main |-> {"main"}, test |-> {"test"}, unknown |-> {}]

Walrus(named, chain, recorded, allow) ==
  [kind |-> "walrus", named |-> named, chain |-> chain, recorded |-> recorded, allow |-> allow]

Piece(chain, copies) == [kind |-> "piece", chain |-> chain, copies |-> copies]

Copy(company, url) == [company |-> company, url |-> url]

MCWanted ==
  {Walrus(n, c, r, a) : n \in {<<>>, <<"mine">>}, c \in DOMAIN MCOnChain,
                        r \in {<<>>, <<"listed", "main">>}, a \in BOOLEAN}
  \union {Piece(c, s) : c \in {"calibration", "other"},
          s \in {<<Copy("c1", "old1"), Copy("c2", "plain2")>>,
                 <<Copy("c1", "old1"), Copy("c1", "plain2"), Copy("c2", "old1")>>}}
  \union {[kind |-> "folder", file |-> "listed"]}

MCAddresses == {"main", "test", "mine", "listed", "old1", "plain2", "new"}
=============================================================================
