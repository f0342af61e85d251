---------------------------- MODULE MCPermissions ----------------------------
(***************************************************************************)
(* Small instances of Permissions: two requests of the owner and of a user *)
(* who receives roles, a group, and a folder within the personal one.      *)
(***************************************************************************)
EXTENDS Permissions, TLC

CONSTANTS r1, r2, o, u, g1, f0, f1

Symmetry == Permutations(Req)
=============================================================================
