------------------------------ MODULE MCUpload -----------------------------
(***************************************************************************)
(* A small instance of UploadHistory, with the fairness of Upload.  One    *)
(* file meets every race between handlers: they share nothing but a        *)
(* session.                                                                *)
(***************************************************************************)
EXTENDS UploadHistory, TLC

CONSTANTS r1, r2, f1

Single == [multipart |-> FALSE, total |-> 1]
Multi(n) == [multipart |-> TRUE, total |-> n]

AllPlans == {Single, Multi(2), Multi(3)}

FairHistory == HistorySpec /\ Fairness
=============================================================================
