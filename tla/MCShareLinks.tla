---------------------------- MODULE MCShareLinks ----------------------------
(***************************************************************************)
(* Small instances of ShareLinks: two accesses reach the limit of one or   *)
(* of two, and one tick takes a link past its time.                        *)
(***************************************************************************)
EXTENDS ShareLinks, TLC

CONSTANTS r1, r2, l1, p1

Symmetry == Permutations(Req)

\* What was asked, and whether a request failed, matters to no step, and to no
\* property once requests have overlapped.
View ==
  IF "overlap" \in past THEN <<now, link, accesses, req, served>>
                        ELSE <<now, link, accesses, req, history>>
=============================================================================
