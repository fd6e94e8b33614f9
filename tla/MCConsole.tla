----------------------------- MODULE MCConsole ------------------------------
(***************************************************************************)
(* A small instance of the console: three modules in it, of which two      *)
(* share a group and one has a page of its own, and two that are not; one  *)
(* tenant, two calls, two logos, and three instants in two seconds.        *)
(***************************************************************************)
EXTENDS Console, TLC

CONSTANTS c1, c2, l1, l2, t1

Asked == {<<Base>>, BrandingPage}

Symmetric == Permutations(Calls) \union Permutations(Logos)

=============================================================================
