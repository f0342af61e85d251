------------------------------ MODULE Upload -------------------------------
(***************************************************************************)
(* The upload workflow: InitiateUpload, the notification handler           *)
(* CompleteUpload, and AbortUpload, running concurrently over PostgreSQL   *)
(* and MinIO.                                                              *)
(*                                                                         *)
(* A handler reads what it needs with statements of their own, decides on  *)
(* the entities it holds in memory, and writes them back later in a        *)
(* transaction.  Each handler is therefore a process that holds the rows   *)
(* it read; each of its transactions (and each autocommitted statement     *)
(* outside one) is an action.  A process may die between any two steps.    *)
(*                                                                         *)
(* MultipartService does not use the multipart uploads of MinIO.  Creating,*)
(* completing and aborting one are stubs that answer success, and a part   *)
(* is an object of its own, key.part<n>, which stays in the bucket.        *)
(***************************************************************************)
EXTENDS FileTable

CONSTANTS
  FileId,        \* identifiers uuid.New() may return for a file
  Slot,          \* (folder, name) pairs clients ask for
  Plan,          \* the upload plans the sizes of the requests lead to
  Req,           \* request handlers running at the same time
  AtLeastOnce,   \* TRUE: one PUT may be reported several times
  MayCrash       \* TRUE: a request may die or lose its database connection

\* A plan is what NewUploadSession derives from the announced size: below
\* 5 MB one PUT, otherwise CalculatePartCount(size) part uploads.
ASSUME PlanAssumption ==
  /\ Plan \subseteq [multipart: BOOLEAN, total: Nat \ {0}]
  /\ \A p \in Plan : ~p.multipart => p.total = 1

ASSUME SwitchAssumption == AtLeastOnce \in BOOLEAN /\ MayCrash \in BOOLEAN

VARIABLES
  files,       \* table files
  versions,    \* files with their row in table file_versions (version 1)
  sessions,    \* table upload_sessions, indexed by the file_id of the row
  parts,       \* table upload_parts: the part numbers of each session
  overdue,     \* sessions whose expires_at has passed
  urls,        \* the plan of each key whose presigned URLs a client has
  puts,        \* objects in the bucket: the parts of each key that were PUT,
               \* or 1, the key itself, for a single upload
  notices,     \* PUTs that still have to be reported
  req          \* the request handlers

tables == <<files, versions, sessions, parts>>
minio  == <<puts, notices>>
vars   == <<tables, overdue, minio, urls, req>>

SessionStatus == {"pending", "in_progress", "completed", "aborted", "expired"}

Session == [status: SessionStatus, uploaded: Nat, plan: Plan]

\* A report of a PUT, made by the client or on behalf of MinIO.  It names the
\* file's key: NewStorageKeyFromString refuses the key of a part object.
Notice == [file: FileId, part: Nat]

\* A handler between two steps: where it is, and the entities it read.
Idle == [pc |-> "idle"]
Initiating(f, slot, plan) ==
  [pc |-> "initiate", file |-> f, slot |-> slot, plan |-> plan]
Handling(pc, f, slot, s, e) ==
  [pc |-> pc, file |-> f, slot |-> slot, session |-> s, notice |-> e]
Aborting(f, s) == [pc |-> "abort", file |-> f, session |-> s]

Request ==
  [pc: {"initiate"}, file: FileId, slot: Slot, plan: Plan]
    \cup
  [pc: {"part", "progress", "complete"}, file: FileId, slot: Slot,
   session: Session, notice: Notice]
    \cup
  [pc: {"abort"}, file: FileId, session: Session]

TypeOK ==
  /\ files \in [FileId -> FileRow(Slot) \cup {NoRow}]
  /\ versions \subseteq FileId
  /\ sessions \in [FileId -> Session \cup {NoRow}]
  /\ parts \in [FileId -> SUBSET Nat]
  /\ overdue \subseteq FileId
  /\ urls \in [FileId -> Plan \cup {NoRow}]
  /\ puts \in [FileId -> SUBSET Nat]
  /\ notices \subseteq Notice
  /\ req \in [Req -> Request \cup {Idle}]

Init ==
  /\ files = [f \in FileId |-> NoRow]
  /\ versions = {}
  /\ sessions = [f \in FileId |-> NoRow]
  /\ parts = [f \in FileId |-> {}]
  /\ overdue = {}
  /\ urls = [f \in FileId |-> NoRow]
  /\ puts = [f \in FileId |-> {}]
  /\ notices = {}
  /\ req = [r \in Req |-> Idle]

-----------------------------------------------------------------------------
(* The entity UploadSession, as held in memory by a handler. *)

CanAcceptUpload(s, f) ==
  s.status \in {"pending", "in_progress"} /\ f \notin overdue

IncrementUploadedParts(s) ==
  [status   |-> IF s.status = "pending" THEN "in_progress" ELSE s.status,
   uploaded |-> s.uploaded + 1, plan |-> s.plan]

\* Mutant: off by one.
AllPartsUploadedEarly(s) == s.uploaded + 1 >= s.plan.total

AllPartsUploaded(s) == s.uploaded >= s.plan.total

\* Mutant: only a session that recorded parts may complete.
CanCompleteInProgress(s, f) == s.status = "in_progress" /\ f \notin overdue

CanComplete(s, f) ==
  s.status \notin {"completed", "aborted"} /\ f \notin overdue

\* A session that ran out may still be aborted.
CanAbort(s) == s.status \notin {"completed", "aborted"}

\* UploadSessionRepository.FindByStorageKey: the key is the file's identifier.
FindByStorageKey(e) == sessions[e.file]

\* UploadSessionRepository.FindByID: a file has one session.
FindByID(f) == sessions[f]

\* UploadSessionRepository.Create.
InsertSession(f, session) == sessions' = [sessions EXCEPT ![f] = session]

\* UploadPartRepository.Create.
InsertPart(f, n) == parts' = [parts EXCEPT ![f] = @ \cup {n}]

\* FileVersionRepository.Create.
InsertVersion(f) == versions' = versions \cup {f}

\* UploadSessionRepository.Update: status and counter as the entity has
\* them, whatever the row holds by now; an error when the row is gone.
SaveSession(f, s, status) ==
  /\ sessions[f] # NoRow
  /\ sessions' = [sessions EXCEPT ![f] =
       [status |-> status, uploaded |-> s.uploaded, plan |-> sessions[f].plan]]

NewFile(slot) == [status |-> "uploading", slot |-> slot]

NewUploadSession(plan) ==
  [status |-> "pending", uploaded |-> 0, plan |-> plan]

Become(r, state) == req' = [req EXCEPT ![r] = state]

-----------------------------------------------------------------------------
(* InitiateUpload *)

\* uuid.New() never repeats: an identifier is fresh if no table, URL or
\* handler knows it.
Fresh(f) ==
  /\ files[f] = NoRow
  /\ urls[f] = NoRow
  /\ \A r \in Req : req[r] # Idle => req[r].file # f

InitiateUpload(r, f, slot, plan) ==
  /\ req[r] = Idle
  /\ Fresh(f)
  /\ ~SlotTaken(files, slot)
  /\ Become(r, Initiating(f, slot, plan))
  /\ UNCHANGED <<tables, overdue, minio, urls>>

\* A URL for the key, or one for the object of each part.
Presigned(f, plan) == [urls EXCEPT ![f] = plan]

\* The transaction.  Presigning happens after it and may fail, which leaves
\* the rows without a client that can upload.
InitiateCommit(r) ==
  /\ req[r].pc = "initiate"
  /\ LET f == req[r].file IN
       /\ files' = [files EXCEPT ![f] = NewFile(req[r].slot)]
       /\ InsertSession(f, NewUploadSession(req[r].plan))
       /\ urls' \in {Presigned(f, req[r].plan), urls}
  /\ Become(r, Idle)
  /\ UNCHANGED <<versions, parts, overdue, minio>>

-----------------------------------------------------------------------------
(* The client and MinIO *)

\* A PUT to a presigned URL, which is then reported to the API.  An abort does
\* not invalidate URLs; they expire no later than the session.  PUTting a part
\* again is not modelled: its notice is a duplicate (AtLeastOnce).
PutPart(f, n) ==
  /\ f \notin overdue
  /\ urls[f] # NoRow
  /\ n \in 1..urls[f].total
  /\ n \notin puts[f]
  /\ puts' = [puts EXCEPT ![f] = @ \cup {n}]
  /\ notices' = notices \cup {[file |-> f, part |-> n]}
  /\ UNCHANGED <<tables, overdue, urls, req>>

PassDeadline(f) ==
  /\ sessions[f] # NoRow
  /\ f \notin overdue
  /\ overdue' = overdue \cup {f}
  /\ UNCHANGED <<tables, minio, urls, req>>

\* A notice is gone once handed over; a failed delivery puts it back.
Taken(e)    == IF AtLeastOnce THEN notices ELSE notices \ {e}
Returned(e) == notices \cup {e}

-----------------------------------------------------------------------------
(* CompleteUpload, the notification handler *)

\* FindByStorageKey, the state check, FindByID.  A session that is completed
\* answers success and changes nothing; any other refusal is an error to
\* the reporter, who keeps the notice: neither is a step.
WebhookReceive(r, e) ==
  LET f == e.file
      s == FindByStorageKey(e)
  IN /\ req[r] = Idle
     /\ e \in notices
     /\ s # NoRow
     /\ CanAcceptUpload(s, f)
     /\ files[f] # NoRow
     /\ notices' = Taken(e)
     /\ Become(r, Handling(IF s.plan.multipart THEN "part" ELSE "complete",
                           f, files[f].slot, s, e))
     /\ UNCHANGED <<tables, overdue, puts, urls>>

\* Mutant: the part that arrived instead of the counter.
NextPartOfNotice(r) == req[r].notice.part

\* The part row is inserted outside any transaction, numbered by the counter
\* the handler just incremented and not by the part that arrived.
NextPart(r) == req[r].session.uploaded + 1

\* Mutant: no UNIQUE (session_id, part_number).
PartConflictNoUnique(r) == sessions[req[r].file] = NoRow

PartConflict(r) ==
  sessions[req[r].file] = NoRow \/ NextPart(r) \in parts[req[r].file]

RecordPart(r) ==
  LET s == IncrementUploadedParts(req[r].session) IN
  /\ req[r].pc = "part"
  /\ ~PartConflict(r)
  /\ InsertPart(req[r].file, NextPart(r))
  /\ Become(r, Handling(IF AllPartsUploaded(s) THEN "complete" ELSE "progress",
                        req[r].file, req[r].slot, s, req[r].notice))
  /\ UNCHANGED <<files, versions, sessions, overdue, minio, urls>>

SaveProgress(r) ==
  /\ req[r].pc = "progress"
  /\ SaveSession(req[r].file, req[r].session, req[r].session.status)
  /\ Become(r, Idle)
  /\ UNCHANGED <<files, versions, parts, overdue, minio, urls>>

\* The transaction: version 1 (unique per file, and the file must exist),
\* the file row with the slot read earlier, its status, the session.
CanCommit(r) ==
  LET f == req[r].file IN
  /\ files[f] # NoRow
  /\ f \notin versions
  /\ sessions[f] # NoRow
  /\ CanComplete(req[r].session, f)

CompleteCommit(r) ==
  LET f == req[r].file IN
  /\ req[r].pc = "complete"
  /\ CanCommit(r)
  /\ InsertVersion(f)
  /\ files' = UpdateFile(files, f, req[r].slot, "active")
  /\ SaveSession(f, req[r].session, "completed")
  /\ Become(r, Idle)
  /\ UNCHANGED <<parts, overdue, minio, urls>>

\* Any error is answered as a failure, and the notice is sent again.
WebhookFail(r) ==
  /\ \/ req[r].pc = "part" /\ PartConflict(r)
     \/ req[r].pc = "progress" /\ sessions[req[r].file] = NoRow
     \/ req[r].pc = "complete" /\ ~CanCommit(r)
  /\ notices' = Returned(req[r].notice)
  /\ Become(r, Idle)
  /\ UNCHANGED <<tables, overdue, puts, urls>>

-----------------------------------------------------------------------------
(* AbortUpload *)

AbortUpload(r, f) ==
  /\ req[r] = Idle
  /\ FindByID(f) # NoRow
  /\ CanAbort(FindByID(f))
  /\ Become(r, Aborting(f, FindByID(f)))
  /\ UNCHANGED <<tables, overdue, minio, urls>>

CanMarkUploadFailed(f) == files[f].status = "uploading"

\* The transaction re-reads the file and marks the entity upload_failed, but
\* UPDATE files does not carry the status, so the row stays `uploading`.  What
\* was PUT stays in the bucket: AbortMultipartUpload, called next, is a stub.
AbortCommit(r) ==
  LET f == req[r].file IN
  /\ req[r].pc = "abort"
  /\ CanMarkUploadFailed(f)
  /\ SaveSession(f, req[r].session, "aborted")
  /\ files' = UpdateFile(files, f, files[f].slot, files[f].status)
  /\ Become(r, Idle)
  /\ UNCHANGED <<versions, parts, overdue, minio, urls>>

AbortFail(r) ==
  /\ req[r].pc = "abort"
  /\ sessions[req[r].file] = NoRow \/ ~CanMarkUploadFailed(req[r].file)
  /\ Become(r, Idle)
  /\ UNCHANGED <<tables, overdue, minio, urls>>

-----------------------------------------------------------------------------
\* The process dies, or its statement or transaction fails and rolls back; an
\* upload that cannot be initiated has nothing to undo.
Crash(r) ==
  /\ MayCrash
  /\ req[r] # Idle
  /\ notices' = IF req[r].pc \in {"part", "progress", "complete"}
                  THEN Returned(req[r].notice) ELSE notices
  /\ Become(r, Idle)
  /\ UNCHANGED <<tables, overdue, puts, urls>>

Webhook(r) ==
  \/ RecordPart(r)
  \/ SaveProgress(r)
  \/ CompleteCommit(r)
  \/ WebhookFail(r)

Abort(r) == AbortCommit(r) \/ AbortFail(r)

\* POST /files/upload and DELETE /files/upload/:sessionId, from the request to
\* its answer.
Initiate(r) ==
  \/ \E f \in FileId, slot \in Slot, plan \in Plan : InitiateUpload(r, f, slot, plan)
  \/ InitiateCommit(r)

AbortSession(r) == (\E f \in FileId : AbortUpload(r, f)) \/ Abort(r)

Next ==
  \/ \E r \in Req :
       \/ Initiate(r)
       \/ \E e \in notices : WebhookReceive(r, e)
       \/ Webhook(r)
       \/ AbortSession(r)
       \/ Crash(r)
  \/ \E f \in FileId :
       \/ \E p \in Plan : \E n \in 1..p.total : PutPart(f, n)
       \/ PassDeadline(f)

Spec == Init /\ [][Next]_vars

\* The server finishes the requests it accepted and, if a statement or a
\* transaction is tried for ever, it does not fail for ever; a PUT is
\* reported again until a handler takes the report.  Clients owe nothing
\* else: no fairness on uploads, aborts or deadlines.
Fairness ==
  /\ \A r \in Req : /\ WF_vars(InitiateCommit(r))
                    /\ WF_vars(Webhook(r))
                    /\ WF_vars(Abort(r))
  /\ \A f \in FileId :
       /\ SF_vars(\E r \in Req : req[r] # Idle /\ req[r].file = f /\ RecordPart(r))
       /\ SF_vars(\E r \in Req : req[r] # Idle /\ req[r].file = f /\ CompleteCommit(r))
  /\ \A e \in [file: FileId, part: UNION {1..p.total : p \in Plan}] :
       SF_vars(\E r \in Req : WebhookReceive(r, e))

FairSpec == Spec /\ Fairness

-----------------------------------------------------------------------------
\* An upload completes as a whole: the file is active exactly when its
\* version row exists and exactly when its session is completed, however
\* notifications, aborts and crashes interleave.
ActivationIsAtomic ==
  \A f \in FileId :
    /\ files[f].status = "active" <=> f \in versions
    /\ files[f].status = "active" <=> sessions[f].status = "completed"

-----------------------------------------------------------------------------
(* The inductive invariant behind ActivationIsAtomic, CompletedIsFinal and    *)
(* PartsFollowCounter (UploadProofs).  A "copy" is a session entity in the    *)
(* memory of a handler, a "writer" a handler that inserted a part row whose   *)
(* count is not yet in the session row.                                       *)

HasCopy(r) == req[r].pc \in {"part", "progress", "complete", "abort"}

Writer(r) == \/ req[r].pc = "progress"
             \/ req[r].pc = "complete" /\ req[r].session.plan.multipart

Open(f) == sessions[f].status \in {"pending", "in_progress"}

\* A file being initiated is known to nobody else.
InitiateIsAlone ==
  \A r \in Req : req[r].pc = "initiate" =>
    /\ sessions[req[r].file] = NoRow
    /\ \A q \in Req \ {r} : req[q] # Idle => req[q].file # req[r].file

RowsTogether ==
  \A f \in FileId : /\ files[f] = NoRow <=> sessions[f] = NoRow
                    /\ sessions[f] = NoRow => parts[f] = {}

CopiesHaveRows ==
  \A r \in Req : HasCopy(r) =>
    /\ sessions[req[r].file] # NoRow
    /\ req[r].session.plan = sessions[req[r].file].plan
    /\ req[r].pc \in {"part", "progress", "complete"} =>
         req[r].session.status \in {"pending", "in_progress"}
    /\ req[r].pc \in {"part", "progress"} => req[r].session.plan.multipart

\* Part numbers have no gap, and every counter anywhere is backed by rows.
CountersBacked ==
  /\ \A f \in FileId : \A n \in parts[f] : n > 0 /\ 1..n \subseteq parts[f]
  /\ \A f \in FileId : sessions[f] # NoRow => 1..sessions[f].uploaded \subseteq parts[f]
  /\ \A r \in Req : HasCopy(r) => 1..req[r].session.uploaded \subseteq parts[req[r].file]

\* A writer is strictly ahead of the row and of every other copy, which makes
\* it the only one.
WriterAhead ==
  \A r \in Req : Writer(r) =>
    LET u == req[r].session.uploaded IN
    /\ u > 0
    /\ parts[req[r].file] = 1..u
    /\ sessions[req[r].file].uploaded < u
    /\ \A q \in Req \ {r} :
         HasCopy(q) /\ req[q].file = req[r].file => req[q].session.uploaded < u
    /\ IF req[r].pc = "progress" THEN u < req[r].session.plan.total
                                 ELSE u >= req[r].session.plan.total

CompletedHasAll ==
  \A f \in FileId :
    sessions[f].status = "completed" /\ sessions[f].plan.multipart
      => sessions[f].uploaded >= sessions[f].plan.total

OpenFollows ==
  \A f \in FileId : Open(f) =>
    /\ \/ parts[f] = 1..sessions[f].uploaded
       \/ parts[f] = 1..(sessions[f].uploaded + 1)
    /\ \A r \in Req : HasCopy(r) /\ req[r].file = f /\ ~Writer(r)
                      => req[r].session.uploaded <= sessions[f].uploaded

IInv ==
  /\ TypeOK
  /\ ActivationIsAtomic
  /\ InitiateIsAlone
  /\ RowsTogether
  /\ CopiesHaveRows
  /\ CountersBacked
  /\ WriterAhead
  /\ CompletedHasAll
  /\ OpenFollows

-----------------------------------------------------------------------------
(* Properties *)

\* No handler holding an older copy of a session writes it over `completed`
\* (R-US004, the half the code keeps).  The unique part number is what makes
\* a handler that lost the race fail before it saves its stale counter.
CompletedIsFinal ==
  [][\A f \in FileId : sessions[f].status = "completed"
                         => sessions'[f].status = "completed"]_vars

\* While a session is open its part rows are 1..k with no gap, and the
\* counter of the session is behind them by at most the one handler that has
\* inserted its part and not yet saved the session.
PartsFollowCounter ==
  \A f \in FileId :
    sessions[f].status \in {"pending", "in_progress"} =>
      \E k \in {sessions[f].uploaded, sessions[f].uploaded + 1} :
        parts[f] = 1..k

\* An active file has received every part of its upload.  It holds when every
\* notification is delivered exactly once; the notification requirements
\* (R-MN003) ask it of duplicated deliveries as well.
ActiveHasAllParts ==
  \A f \in FileId :
    files[f].status = "active" => puts[f] = 1..sessions[f].plan.total

\* The part row of a handler that died before it saved the session: whoever
\* counts from the session row collides with it.
Wedged(f) ==
  /\ Open(f)
  /\ parts[f] = 1..(sessions[f].uploaded + 1)
  /\ ~\E r \in Req : Writer(r) /\ req[r].file = f

\* GetUploadStatusQuery, what a client polls.
GetUploadStatus(f) ==
  [status |-> FindByID(f).status, expired |-> f \in overdue]

\* An upload whose parts all reached MinIO ends, whatever crashes and however
\* often notifications are rejected and sent again: its file becomes active, or the
\* user aborts, or the session runs out, or a handler died between its part
\* row and its session row, which is the only way to block an upload.
UploadEnds ==
  \A f \in FileId :
    (urls[f] # NoRow /\ puts[f] = 1..urls[f].total)
      ~> \/ files[f].status = "active"
         \/ sessions[f] # NoRow /\ (\/ GetUploadStatus(f).status = "aborted"
                                   \/ GetUploadStatus(f).expired)
         \/ Wedged(f)

-----------------------------------------------------------------------------
(* Upload implements AtomicUpload *)

\* What a user sees of an upload: the file once it is active, else its session.
AtomicState ==
  [f \in FileId |->
     IF files[f] = NoRow THEN "none"
     ELSE IF files[f].status = "active" THEN "stored"
     ELSE IF sessions[f].status = "aborted" THEN "aborted" ELSE "open"]

\* The parts a multipart upload has no row for.
AtomicMissing ==
  [f \in FileId |->
     IF sessions[f] # NoRow /\ sessions[f].plan.multipart
       THEN 1..sessions[f].plan.total \ parts[f] ELSE {}]

Atomic == INSTANCE AtomicUpload WITH
  state <- AtomicState, missing <- AtomicMissing,
  Sizes <- {0} \cup {p.total : p \in Plan}

\* Handlers, duplicates and crashes together do no more than one atomic
\* upload per file: it becomes visible in one step, with every part recorded,
\* parts are recorded in order, and it is never seen to change afterwards.
IsAtomicUpload == Atomic!Spec
=============================================================================
