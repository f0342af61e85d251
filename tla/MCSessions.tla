----------------------------- MODULE MCSessions -----------------------------
(***************************************************************************)
(* Small instances of Sessions: a limit of one session makes every login   *)
(* but the first evict, and a lifetime of one Ttl is outlived by a session  *)
(* that is extended once.                                                  *)
(***************************************************************************)
EXTENDS Sessions, TLC

CONSTANTS r1, r2, s1, s2

Symmetry == Permutations(Req) \cup Permutations(SessionId)
=============================================================================
