------------------------- MODULE MCGroupMembership --------------------------
(***************************************************************************)
(* A small instance of GroupHistory: two commands race on a group of two   *)
(* users; three memberships let a user leave and come back while an old    *)
(* command still names the first one.                                      *)
(***************************************************************************)
EXTENDS GroupHistory, TLC

CONSTANTS r1, r2, u1, u2, m1, m2, m3, i1, i2

Symmetry ==
  Permutations(Req) \cup Permutations(User) \cup Permutations(MemberId)
    \cup Permutations(InviteId)
=============================================================================
