---------------------------- MODULE MCDirectory ----------------------------
(***************************************************************************)
(* A small instance of Directory. Tenant t1 is "a" and t2 is "a:b", user   *)
(* n1 is "b:c" and n2 is "c": user n1 of the one and user n2 of the other  *)
(* get the same id, "a:b:c".                                               *)
(***************************************************************************)
EXTENDS Directory, TLC

CONSTANTS c1, c2, t1, t2, n1, n2, i1, i2, p1

Colons == (<<t1, n1>> :> i1) @@ (<<t1, n2>> :> i2) @@ (<<t2, n2>> :> i1)

SomeBodies ==
    { [tenant |-> t1, name |-> n1, active |-> Keep, pass |-> p1],
      [tenant |-> t1, name |-> n1, active |-> FALSE, pass |-> NoPass],
      [tenant |-> t1, name |-> n2, active |-> Keep, pass |-> NoPass],
      [tenant |-> t2, name |-> n2, active |-> Keep, pass |-> p1] }

Symmetric == Permutations(Requests)

=============================================================================
