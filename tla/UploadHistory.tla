--------------------------- MODULE UploadHistory ----------------------------
(***************************************************************************)
(* Upload with a history of deliveries: what a completed upload promises   *)
(* as long as no notice is handled twice.  A handler that fails or dies    *)
(* has not handled its notice, which is delivered again.                   *)
(***************************************************************************)
EXTENDS Upload

VARIABLES
  heard,      \* the notices a handler took and did not give back
  repeated    \* a notice was taken twice; nothing is remembered after that

Hear(e) ==
  /\ repeated' = (repeated \/ e \in heard)
  /\ heard' = IF repeated' THEN {} ELSE heard \cup {e}

GiveBack(r) ==
  /\ heard' = IF req[r].pc \in {"part", "progress", "complete"}
                THEN heard \ {req[r].notice} ELSE heard
  /\ UNCHANGED repeated

Keep == UNCHANGED <<heard, repeated>>

HistoryInit == Init /\ heard = {} /\ repeated = FALSE

\* Next, disjunct by disjunct.
HistoryNext ==
  \/ \E r \in Req :
       \/ Initiate(r) /\ Keep
       \/ \E e \in notices : WebhookReceive(r, e) /\ Hear(e)
       \/ RecordPart(r) /\ Keep
       \/ SaveProgress(r) /\ Keep
       \/ CompleteCommit(r) /\ Keep
       \/ WebhookFail(r) /\ GiveBack(r)
       \/ AbortSession(r) /\ Keep
       \/ Crash(r) /\ GiveBack(r)
  \/ \E f \in FileId :
       \/ (\E p \in Plan : \E n \in 1..p.total : PutPart(f, n)) /\ Keep
       \/ PassDeadline(f) /\ Keep

HistorySpec == HistoryInit /\ [][HistoryNext]_<<vars, heard, repeated>>

\* An active file has received every part of its upload, as long as MinIO
\* delivers no notification twice.  The notification requirements (R-MN003)
\* ask it of duplicated deliveries as well.
ActiveHasAll == ~repeated => ActiveHasAllParts
=============================================================================
