----------------------------- MODULE MCAccounts -----------------------------
(***************************************************************************)
(* Small instances of Accounts: two passwords tell an old one from a new   *)
(* one, two tokens allow one of each kind or one that replaces another.    *)
(***************************************************************************)
EXTENDS Accounts, TLC

CONSTANTS r1, r2, t1, t2, p1, p2

Symmetry == Permutations(Req) \cup Permutations(TokenId) \cup Permutations(Password)
=============================================================================
