------------------------------ MODULE MCApiKey ------------------------------
(***************************************************************************)
(* A small instance of ApiKey: two tenants, two keys whose secrets share   *)
(* their prefix, and two requests in flight. Ids and callers are only ever *)
(* compared, so permuting them changes nothing.                            *)
(***************************************************************************)
EXTENDS ApiKey, TLC

CONSTANTS x, y, k1, k2, c1, c2

SamePrefix == x :> "p" @@ y :> "p"

Symmetric == Permutations({k1, k2}) \union Permutations({c1, c2})

=============================================================================
