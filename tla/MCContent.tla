----------------------------- MODULE MCContent -----------------------------
(***************************************************************************)
(* A small instance of Content: two tenants whose ids begin alike, two     *)
(* paths that differ in the kind, and so one id for all that is created at *)
(* one time. Requests, authors, tenants and ids are only ever compared.    *)
(***************************************************************************)
EXTENDS Content, TLC

CONSTANTS c1, c2, t1, t2, a1, a2, p1, p2, i1, i2

AnyId == [x \in Tenants \X Paths |-> Ids]

Symmetric ==
    Permutations(Requests) \union Permutations(Subjects) \union Permutations(Ids)
        \union Permutations(Tenants) \union Permutations(Paths)

=============================================================================
