--------------------------- MODULE MCNotification ---------------------------
(***************************************************************************)
(* A small instance of Notification and AuditLog: three calls for two      *)
(* users of two tenants over the in-app channel and one more, one reader   *)
(* of the trail, pages of one event or two.                                *)
(***************************************************************************)
EXTENDS Notification, TLC

CONSTANTS d1, d2, d3, i1, i2, i3, r1, t1, t2, u1, u2

Symmetric ==
    Permutations(Dispatches) \union Permutations(Ids)
        \union Permutations(Users) \union Permutations(Tenants)

=============================================================================
