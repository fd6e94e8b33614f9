------------------------------- MODULE MCAuth -------------------------------
(***************************************************************************)
(* Small instances of Auth: two requests at a time for two users, sessions *)
(* that live for one tick. Requests, session ids, users and passwords are  *)
(* only ever compared, so permuting them changes nothing.                  *)
(***************************************************************************)
EXTENDS Auth, TLC

CONSTANTS c1, c2, i1, i2, u1, u2, p1, p2

Symmetric ==
    Permutations({c1, c2}) \union Permutations({i1, i2})
        \union Permutations({u1, u2}) \union Permutations({p1, p2})

=============================================================================
