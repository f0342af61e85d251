---------------------------- MODULE MCRateLimiter ----------------------------
(***************************************************************************)
(* A small instance of RateLimiter: four requests at a limit of two, over  *)
(* nearly two windows, with scripts late by up to a third of one, and two  *)
(* runs of the script for each.                                            *)
(***************************************************************************)
EXTENDS RateLimiter, TLC

CONSTANTS r1, r2, r3, r4, d1, d2

Symmetry == Permutations(Call) \cup Permutations(Draw)
=============================================================================
