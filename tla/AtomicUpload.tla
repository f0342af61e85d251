---------------------------- MODULE AtomicUpload ---------------------------
(***************************************************************************)
(* What the upload workflow promises, whatever its handlers do in between: *)
(* an upload is open until it is stored as a whole, its parts are ticked   *)
(* off in order, and what is stored stays.  Upload implements it, under    *)
(* the mapping Upload!AtomicState, Upload!AtomicMissing.                   *)
(*                                                                         *)
(* It is weaker than its documents in one respect: an abort is no promise. *)
(* A handler that read the session before the abort may still count its    *)
(* part, reopen the session or store the file.                             *)
(***************************************************************************)
EXTENDS Naturals

CONSTANTS
  FileId,
  Sizes      \* the numbers of parts an upload may have to record

VARIABLES
  state,    \* what has become of each upload
  missing   \* the parts that are not recorded yet

vars == <<state, missing>>

States == {"none", "open", "aborted", "stored"}

Init ==
  /\ state = [f \in FileId |-> "none"]
  /\ missing = [f \in FileId |-> {}]

Started(f) == state[f] \in {"open", "aborted"}

\* A small file has no parts to record.
Start(f) ==
  /\ state[f] = "none"
  /\ state' = [state EXCEPT ![f] = "open"]
  /\ \E n \in Sizes : missing' = [missing EXCEPT ![f] = 1..n]

\* Parts are counted in order, one at a time, on behalf of whichever part
\* arrived.
Record(f) ==
  /\ Started(f)
  /\ \E n \in missing[f] :
       /\ \A k \in missing[f] : n <= k
       /\ missing' = [missing EXCEPT ![f] = @ \ {n}]
  /\ UNCHANGED state

\* The only step that makes a file visible, and with nothing missing.
Store(f) ==
  /\ Started(f)
  /\ missing[f] = {}
  /\ state' = [state EXCEPT ![f] = "stored"]
  /\ UNCHANGED missing

Abort(f) ==
  /\ state[f] = "open"
  /\ state' = [state EXCEPT ![f] = "aborted"]
  /\ UNCHANGED missing

Reopen(f) ==
  /\ state[f] = "aborted"
  /\ state' = [state EXCEPT ![f] = "open"]
  /\ UNCHANGED missing

Next == \E f \in FileId : Start(f) \/ Record(f) \/ Store(f) \/ Abort(f) \/ Reopen(f)

Spec == Init /\ [][Next]_vars
=============================================================================
