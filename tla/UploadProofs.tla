---------------------------- MODULE UploadProofs ---------------------------
(***************************************************************************)
(* Upload is type correct and atomic for every number of files, handlers   *)
(* and parts, with crashes and duplicated notifications: it implements     *)
(* AtomicUpload.  As long as no notice is handled twice, an active file    *)
(* has every part of its plan (UploadHistory).                             *)
(***************************************************************************)
EXTENDS UploadHistory, FiniteSetTheorems, TLAPS

LEMMA InitType == Init => TypeOK
BY DEF Init, TypeOK, NoRow, Idle

\* What a handler's record and the rows it names look like.
LEMMA ReqShape ==
  ASSUME TypeOK, NEW r \in Req
  PROVE  /\ req[r] # Idle => req[r].file \in FileId
         /\ req[r] = Idle => req[r].pc = "idle"
         /\ req[r].pc = "initiate" =>
              req[r].slot \in Slot /\ req[r].plan \in Plan /\ req[r] # Idle
         /\ req[r].pc \in {"part", "progress", "complete"} =>
              req[r].slot \in Slot /\ req[r].notice \in Notice
         /\ HasCopy(r) => /\ req[r] # Idle
                          /\ req[r].session.uploaded \in Nat
                          /\ req[r].session.plan \in Plan
                          /\ req[r].session.status \in SessionStatus
BY DEF TypeOK, Request, Idle, Session, HasCopy

LEMMA RowShape ==
  ASSUME TypeOK, NEW f \in FileId
  PROVE  /\ parts[f] \in SUBSET Nat
         /\ sessions[f] = NoRow => sessions[f].status = "none"
         /\ sessions[f] # NoRow => /\ sessions[f].status \in SessionStatus
                                   /\ sessions[f].uploaded \in Nat
                                   /\ sessions[f].plan \in Plan
                                   /\ sessions[f] \in Session
         /\ files[f] = NoRow => files[f].status = "none"
         /\ files[f] # NoRow => files[f].status \in FileStatus /\ files[f].slot \in Slot
BY DEF TypeOK, Session, FileRow, NoRow

LEMMA NextType == TypeOK /\ [Next]_vars => TypeOK'
<1> SUFFICES ASSUME TypeOK, [Next]_vars PROVE TypeOK'
  OBVIOUS
<1> USE DEF TypeOK
<1>1. ASSUME NEW r \in Req, NEW f \in FileId, NEW slot \in Slot, NEW plan \in Plan,
             InitiateUpload(r, f, slot, plan)
      PROVE  TypeOK'
  BY <1>1 DEF InitiateUpload, Become, Initiating, Request, tables, minio
<1>2. ASSUME NEW r \in Req, InitiateCommit(r)
      PROVE  TypeOK'
  BY <1>2, PlanAssumption DEF InitiateCommit, InsertSession, Presigned, Become, Request, Idle, NewFile, NewUploadSession, FileRow, Session, FileStatus, SessionStatus, minio
<1>3. ASSUME NEW r \in Req, NEW e \in notices, WebhookReceive(r, e)
      PROVE  TypeOK'
  BY <1>3 DEF WebhookReceive, FindByStorageKey, Become, Request, Handling, tables, Notice, Session, Taken, CanAcceptUpload, FileRow
<1>4. ASSUME NEW r \in Req, RecordPart(r)
      PROVE  TypeOK'
  BY <1>4 DEF RecordPart, InsertPart, Become, Request, Idle, Handling, IncrementUploadedParts, NextPart, minio, Session, SessionStatus
<1>5. ASSUME NEW r \in Req, SaveProgress(r)
      PROVE  TypeOK'
  BY <1>5 DEF SaveProgress, SaveSession, Become, Request, Idle, minio, Session, SessionStatus
<1>6. ASSUME NEW r \in Req, CompleteCommit(r)
      PROVE  TypeOK'
  BY <1>6 DEF CompleteCommit, InsertVersion, CanCommit, SaveSession, UpdateFile, FileRow, FileStatus, Become, Request, Idle, minio, Session, SessionStatus
<1>7. ASSUME NEW r \in Req, WebhookFail(r)
      PROVE  TypeOK'
  BY <1>7 DEF WebhookFail, Returned, Become, Request, Idle, tables, PartConflict
<1>8. ASSUME NEW r \in Req, NEW f \in FileId, AbortUpload(r, f)
      PROVE  TypeOK'
  BY <1>8 DEF AbortUpload, FindByID, CanAbort, Aborting, Become, Request, tables, minio, Session, NoRow
<1>9. ASSUME NEW r \in Req, AbortCommit(r)
      PROVE  TypeOK'
  BY <1>9 DEF NoRow, AbortCommit, CanMarkUploadFailed, SaveSession, UpdateFile, FileRow, FileStatus, Become, Request, Idle, minio, Session, SessionStatus
<1>10. ASSUME NEW r \in Req, AbortFail(r)
      PROVE  TypeOK'
  BY <1>10 DEF AbortFail, Become, tables, minio
<1>11. ASSUME NEW r \in Req, Crash(r)
      PROVE  TypeOK'
  BY <1>11 DEF Crash, Returned, Become, Request, Idle, tables
<1>12. ASSUME NEW f \in FileId, NEW p \in Plan, NEW n \in 1..p.total, PutPart(f, n)
      PROVE  TypeOK'
  BY <1>12, PlanAssumption DEF PutPart, Notice, tables
<1>13. ASSUME NEW f \in FileId, PassDeadline(f)
      PROVE  TypeOK'
  BY <1>13 DEF PassDeadline, tables, minio
<1>14. CASE UNCHANGED vars
  BY <1>14 DEF vars, tables, minio
<1> QED
  BY <1>1, <1>2, <1>3, <1>4, <1>5, <1>6, <1>7, <1>8, <1>9, <1>10,
     <1>11, <1>12, <1>13, <1>14 DEF Next, Webhook, Abort, Initiate, AbortSession

\* A handler that ends without touching a table disturbs nothing.
LEMMA IdleKeepsIInv ==
  ASSUME IInv, TypeOK', NEW r \in Req, UNCHANGED tables, req' = [req EXCEPT ![r] = Idle]
  PROVE  IInv'
<1> USE DEF IInv, TypeOK, Idle, NoRow, tables
<1>1. ActivationIsAtomic'
  BY DEF ActivationIsAtomic
<1>2. InitiateIsAlone'
  BY DEF InitiateIsAlone
<1>3. RowsTogether'
  BY DEF RowsTogether
<1>4. CopiesHaveRows'
  BY DEF CopiesHaveRows, HasCopy
<1>5. CountersBacked'
  BY DEF CountersBacked, HasCopy
<1>6. WriterAhead'
  BY DEF WriterAhead, Writer, HasCopy
<1>7. CompletedHasAll'
  BY DEF CompletedHasAll
<1>8. OpenFollows'
  BY DEF OpenFollows, Open, HasCopy, Writer
<1> QED
  BY <1>1, <1>2, <1>3, <1>4, <1>5, <1>6, <1>7, <1>8 DEF IInv

LEMMA InitiateUploadIInv ==
  ASSUME IInv, TypeOK', NEW r \in Req, NEW f \in FileId, NEW slot \in Slot, NEW plan \in Plan,
         InitiateUpload(r, f, slot, plan)
  PROVE  IInv'
<1> USE DEF IInv, TypeOK, Idle, NoRow, tables, Become, InitiateUpload, Initiating, Fresh
<1>1. ActivationIsAtomic'
  BY DEF ActivationIsAtomic
<1>2. InitiateIsAlone'
  <2>1. sessions[f] = NoRow
    BY DEF RowsTogether
  <2>2. \A q \in Req \ {r} : req'[q] = req[q] /\ (req[q] # Idle => req[q].file # f)
    OBVIOUS
  <2>3. req'[r] = [pc |-> "initiate", file |-> f, slot |-> slot, plan |-> plan]
    OBVIOUS
  <2> QED
    BY <2>1, <2>2, <2>3, ReqShape DEF InitiateIsAlone
<1>3. RowsTogether'
  BY DEF RowsTogether
<1>4. CopiesHaveRows'
  BY DEF CopiesHaveRows, HasCopy
<1>5. CountersBacked'
  BY DEF CountersBacked, HasCopy
<1>6. WriterAhead'
  BY DEF WriterAhead, Writer, HasCopy
<1>7. CompletedHasAll'
  BY DEF CompletedHasAll
<1>8. OpenFollows'
  BY DEF OpenFollows, Open, HasCopy, Writer
<1> QED
  BY <1>1, <1>2, <1>3, <1>4, <1>5, <1>6, <1>7, <1>8 DEF IInv

LEMMA InitiateCommitIInv ==
  ASSUME IInv, TypeOK', NEW r \in Req, InitiateCommit(r)
  PROVE  IInv'
<1> USE DEF IInv, TypeOK, Idle, NoRow, Become, InitiateCommit, InsertSession, NewFile, NewUploadSession, Request, Session
<1> DEFINE f == req[r].file
<1>f. f \in FileId /\ sessions[f] = NoRow /\ files[f] = NoRow /\ parts[f] = {}
  BY ReqShape, IInv DEF InitiateIsAlone, RowsTogether
<1>q. \A q \in Req : HasCopy(q) => req[q].file # f /\ q # r
  BY ReqShape DEF InitiateIsAlone, HasCopy
<1>1. ActivationIsAtomic'
  <2>1. f \notin versions
    BY <1>f DEF ActivationIsAtomic
  <2>2. \A g \in FileId : g # f => files'[g] = files[g] /\ sessions'[g] = sessions[g]
    OBVIOUS
  <2>3. files'[f].status = "uploading" /\ sessions'[f].status = "pending"
    BY <1>f
  <2> QED
    BY <2>1, <2>2, <2>3 DEF ActivationIsAtomic
<1>2. InitiateIsAlone'
  BY DEF InitiateIsAlone
<1>3. RowsTogether'
  BY DEF RowsTogether
<1>4. CopiesHaveRows'
  <2>1. \A q \in Req : HasCopy(q)' => q # r /\ HasCopy(q) /\ req'[q] = req[q]
    BY DEF HasCopy
  <2>2. \A q \in Req : HasCopy(q)' => sessions'[req[q].file] = sessions[req[q].file]
    BY <2>1, <1>q, ReqShape
  <2> QED
    BY <2>1, <2>2 DEF CopiesHaveRows
<1>5. CountersBacked'
  BY DEF CountersBacked, HasCopy
<1>6. WriterAhead'
  BY DEF WriterAhead, Writer, HasCopy
<1>7. CompletedHasAll'
  BY DEF CompletedHasAll
<1>8. OpenFollows'
  <2>1. \A q \in Req : HasCopy(q)' => q # r /\ HasCopy(q) /\ req'[q] = req[q]
    BY DEF HasCopy
  <2>2. \A g \in FileId : g # f => sessions'[g] = sessions[g]
    OBVIOUS
  <2>3. sessions'[f].uploaded = 0 /\ parts'[f] = 1..0
    BY <1>f
  <2>4. \A q \in Req : HasCopy(q) => Writer(q)' = Writer(q)
    BY <2>1, <1>q DEF Writer
  <2>5. UNCHANGED parts
    OBVIOUS
  <2>6. SUFFICES ASSUME NEW g \in FileId, Open(g)'
        PROVE  /\ \/ parts'[g] = 1..sessions'[g].uploaded
                  \/ parts'[g] = 1..(sessions'[g].uploaded + 1)
               /\ \A q \in Req : (HasCopy(q) /\ req[q].file = g /\ ~Writer(q))'
                                => req'[q].session.uploaded <= sessions'[g].uploaded
    BY DEF OpenFollows
  <2>7. CASE g = f
    BY <2>1, <2>3, <2>7, <1>q
  <2>8. CASE g # f
    <3>1. Open(g) /\ sessions'[g] = sessions[g]
      BY <2>2, <2>6, <2>8 DEF Open
    <3>2. \A q \in Req : (HasCopy(q) /\ req[q].file = g /\ ~Writer(q))'
                         => HasCopy(q) /\ req[q].file = g /\ ~Writer(q)
      BY <2>1, <2>4
    <3> QED
      BY <3>1, <3>2, <2>1, <2>5 DEF OpenFollows
  <2> QED
    BY <2>7, <2>8
<1> QED
  BY <1>1, <1>2, <1>3, <1>4, <1>5, <1>6, <1>7, <1>8 DEF IInv

\* A handler that takes a copy of a session row and has written nothing yet.
LEMMA CopyIInv ==
  ASSUME IInv, TypeOK', NEW r \in Req, NEW f \in FileId, sessions[f] # NoRow,
         UNCHANGED tables, req[r] = Idle, ~Writer(r)',
         req' = [req EXCEPT ![r] = req'[r]],
         HasCopy(r)', req'[r].file = f, req'[r].session = sessions[f],
         req'[r].pc \in {"part", "complete"} => Open(f),
         req'[r].pc # "progress",
         req'[r].pc = "part" => sessions[f].plan.multipart
  PROVE  IInv'
<1> USE DEF IInv, TypeOK, Idle, NoRow, tables
<1>1. ActivationIsAtomic'
  BY DEF ActivationIsAtomic
<1>q. \A q \in Req \ {r} : req'[q] = req[q]
  OBVIOUS
<1>2. InitiateIsAlone'
  BY <1>q DEF InitiateIsAlone, HasCopy
<1>3. RowsTogether'
  BY DEF RowsTogether
<1>4. CopiesHaveRows'
  <2>1. \A q \in Req \ {r} : HasCopy(q)' <=> HasCopy(q)
    BY <1>q DEF HasCopy
  <2> QED
    BY <2>1, <1>q DEF CopiesHaveRows, Open
<1>5. CountersBacked'
  BY DEF CountersBacked, HasCopy
<1>6. WriterAhead'
  BY DEF WriterAhead, Writer, HasCopy
<1>7. CompletedHasAll'
  BY DEF CompletedHasAll
<1>8. OpenFollows'
  <2>1. \A q \in Req \ {r} : (HasCopy(q)' <=> HasCopy(q)) /\ (Writer(q)' <=> Writer(q))
    BY <1>q DEF HasCopy, Writer
  <2>2. sessions[f].uploaded \in Nat
    BY RowShape
  <2> QED
    BY <2>1, <2>2, <1>q DEF OpenFollows, Open
<1> QED
  BY <1>1, <1>2, <1>3, <1>4, <1>5, <1>6, <1>7, <1>8 DEF IInv

\* A set of part numbers without gaps that lacks the next one ends there.
LEMMA GapFree ==
  ASSUME NEW P \in SUBSET Nat, NEW u \in Nat, 1..u \subseteq P, u + 1 \notin P,
         \A n \in P : n > 0 /\ 1..n \subseteq P
  PROVE  P = 1..u
<1>1. \A n \in P : n \in 1..u
  <2> SUFFICES ASSUME NEW n \in P, n > u PROVE FALSE
    OBVIOUS
  <2>1. u + 1 \in 1..n
    OBVIOUS
  <2> QED
    BY <2>1
<1> QED
  BY <1>1

LEMMA IntervalOrder ==
  ASSUME NEW a \in Nat, NEW b \in Nat, 1..a \subseteq 1..b
  PROVE  a <= b
<1>1. CASE a = 0
  BY <1>1
<1>2. CASE a # 0
  <2>1. a \in 1..a
    BY <1>2
  <2> QED
    BY <2>1
<1> QED
  BY <1>1, <1>2

\* The handler that succeeds in inserting its part is the only writer.
LEMMA RecordPartIInv ==
  ASSUME IInv, TypeOK', NEW r \in Req, RecordPart(r)
  PROVE  IInv'
<1> DEFINE f == req[r].file
           u == req[r].session.uploaded
<1>r. /\ HasCopy(r) /\ ~Writer(r) /\ req[r] # Idle /\ f \in FileId /\ u \in Nat
      /\ sessions[f] # NoRow /\ req[r].session.plan.multipart
      /\ req[r].session.status \in {"pending", "in_progress"}
      /\ req[r].session.plan = sessions[f].plan /\ sessions[f].uploaded \in Nat
      /\ req[r].session.plan.total \in Nat
      /\ parts[f] \in SUBSET Nat
  <2>1. req[r].pc = "part" /\ HasCopy(r) /\ ~Writer(r)
    BY DEF RecordPart, InsertPart, HasCopy, Writer
  <2> QED
    BY <2>1, ReqShape, RowShape, PlanAssumption DEF IInv, CopiesHaveRows
<1>s. /\ req' = [req EXCEPT ![r] = req'[r]]
      /\ req'[r].pc \in {"complete", "progress"} /\ req'[r].file = f
      /\ req'[r].session.uploaded = u + 1
      /\ req'[r].session.plan = req[r].session.plan
      /\ req'[r].session.status = "in_progress"
      /\ IF req'[r].pc = "progress" THEN u + 1 < req[r].session.plan.total
                                    ELSE u + 1 >= req[r].session.plan.total
      /\ \A q \in Req \ {r} : req'[q] = req[q]
      /\ UNCHANGED <<files, versions, sessions>>
  BY <1>r DEF RecordPart, InsertPart, Handling, Become, IncrementUploadedParts, AllPartsUploaded, IInv, TypeOK
<1>p. parts[f] = 1..u
  <2>1. 1..u \subseteq parts[f] /\ u + 1 \notin parts[f]
    BY <1>r DEF IInv, CountersBacked, RecordPart, InsertPart, PartConflict, NextPart
  <2>2. \A n \in parts[f] : n > 0 /\ 1..n \subseteq parts[f]
    BY <1>r DEF IInv, CountersBacked
  <2> QED
    BY <2>1, <2>2, <1>r, GapFree
<1>p2. parts' = [parts EXCEPT ![f] = 1..(u + 1)]
  <2>1. (1..u) \cup {u + 1} = 1..(u + 1)
    BY <1>r
  <2> QED
    BY <1>p, <2>1 DEF RecordPart, InsertPart, NextPart, IInv, TypeOK
<1>w. \A q \in Req : Writer(q) => req[q].file # f
  <2> SUFFICES ASSUME NEW q \in Req, Writer(q), req[q].file = f PROVE FALSE
    OBVIOUS
  <2>0. q # r /\ HasCopy(q)
    BY <1>r DEF Writer, HasCopy
  <2>1. u < req[q].session.uploaded /\ parts[f] = 1..req[q].session.uploaded
    BY <1>r, <2>0 DEF IInv, WriterAhead
  <2> QED
    BY <1>p, <1>r, <2>0, <2>1, ReqShape, IntervalOrder DEF IInv
<1>c. \A q \in Req : HasCopy(q) /\ req[q].file = f => req[q].session.uploaded <= u
  BY <1>p, <1>r, ReqShape, IntervalOrder DEF IInv, CountersBacked
<1>d. sessions[f].uploaded <= u
  BY <1>p, <1>r, IntervalOrder DEF IInv, CountersBacked
<1>h. \A q \in Req \ {r} : (HasCopy(q)' <=> HasCopy(q)) /\ (Writer(q)' <=> Writer(q))
  BY <1>s DEF HasCopy, Writer
<1>g. \A g \in FileId : g # f => parts'[g] = parts[g]
  BY <1>p2 DEF IInv, TypeOK
<1>f. parts'[f] = 1..(u + 1)
  BY <1>p2, <1>r DEF IInv, TypeOK
<1> HIDE DEF f, u
<1>1. ActivationIsAtomic'
  BY <1>s DEF IInv, ActivationIsAtomic
<1>2. InitiateIsAlone'
  <2>1. req[r] # Idle /\ req[r].file = f /\ req'[r] # Idle
    BY <1>r, <1>s DEF f, Idle
  <2> QED
    BY <2>1, <1>s DEF IInv, InitiateIsAlone
<1>3. RowsTogether'
  BY <1>s, <1>r, <1>g DEF IInv, RowsTogether
<1>4. CopiesHaveRows'
  BY <1>s, <1>r, <1>h DEF IInv, CopiesHaveRows
<1>5. CountersBacked'
  <2>1. \A g \in FileId : parts[g] \subseteq parts'[g]
    BY <1>f, <1>g, <1>p, <1>r
  <2>2. \A g \in FileId : \A n \in parts'[g] : n > 0 /\ 1..n \subseteq parts'[g]
    BY <1>f, <1>g, <1>r DEF IInv, CountersBacked
  <2>3. \A q \in Req \ {r} : HasCopy(q)' => HasCopy(q) /\ req'[q] = req[q] /\ req[q].file \in FileId
    BY <1>h, <1>s, ReqShape DEF IInv
  <2>4. \A q \in Req : HasCopy(q)' => 1..req'[q].session.uploaded \subseteq parts'[req'[q].file]
    BY <2>1, <2>3, <1>s, <1>f DEF IInv, CountersBacked
  <2>5. \A g \in FileId : sessions'[g] # NoRow
                            => 1..sessions'[g].uploaded \subseteq parts'[g]
    BY <2>1, <1>s DEF IInv, CountersBacked
  <2> QED
    BY <2>2, <2>4, <2>5 DEF CountersBacked, NoRow
<1>6. WriterAhead'
  <2>1. ASSUME NEW q \in Req, q # r, Writer(q)
        PROVE  req[q].file # f /\ req[q].file \in FileId
    BY <2>1, <1>w, ReqShape DEF IInv, Writer, HasCopy
  <2>2. \A q \in Req \ {r} : HasCopy(q)' /\ req'[q].file = f => req'[q].session.uploaded < u + 1
    BY <1>h, <1>s, <1>c, <1>r, ReqShape DEF f, u, IInv
  <2> QED
    BY <2>1, <2>2, <1>s, <1>h, <1>f, <1>g, <1>d, <1>r DEF IInv, WriterAhead, u
<1>7. CompletedHasAll'
  BY <1>s DEF IInv, CompletedHasAll
<1>8. OpenFollows'
  <2>1. Writer(r)'
    BY <1>s, <1>r DEF Writer
  <2>2. Open(f) => u = sessions[f].uploaded
    BY <1>r, <1>d DEF IInv, OpenFollows, f, u
  <2> QED
    BY <2>1, <2>2, <1>s, <1>h, <1>f, <1>g, <1>r DEF IInv, OpenFollows, Open
<1> QED
  BY <1>1, <1>2, <1>3, <1>4, <1>5, <1>6, <1>7, <1>8 DEF IInv

\* The progress of the only writer: the row it overwrites was not completed.
LEMMA SaveProgressIInv ==
  ASSUME IInv, TypeOK', NEW r \in Req, SaveProgress(r)
  PROVE  IInv'
<1> DEFINE f == req[r].file
           u == req[r].session.uploaded
<1>r. /\ HasCopy(r) /\ Writer(r) /\ req[r] # Idle /\ f \in FileId /\ u \in Nat
      /\ sessions[f] # NoRow /\ sessions[f].plan.multipart
      /\ sessions[f].uploaded \in Nat /\ sessions[f].plan.total \in Nat
      /\ req[r].session.status \in {"pending", "in_progress"}
      /\ parts[f] = 1..u /\ sessions[f].uploaded < u /\ u < sessions[f].plan.total
  <2>1. req[r].pc = "progress" /\ HasCopy(r) /\ Writer(r)
    BY DEF SaveProgress, HasCopy, Writer
  <2>2. req[r] # Idle /\ f \in FileId /\ u \in Nat
    BY <2>1, ReqShape DEF IInv
  <2>3. /\ sessions[f] # NoRow /\ req[r].session.plan = sessions[f].plan
        /\ req[r].session.status \in {"pending", "in_progress"}
        /\ sessions[f].plan.multipart
    BY <2>1 DEF IInv, CopiesHaveRows
  <2>4. sessions[f].uploaded \in Nat /\ sessions[f].plan.total \in Nat
    BY <2>2, <2>3, RowShape, PlanAssumption DEF IInv
  <2> QED
    BY <2>1, <2>2, <2>3, <2>4 DEF IInv, WriterAhead
<1>s. /\ req' = [req EXCEPT ![r] = Idle]
      /\ \A q \in Req \ {r} : req'[q] = req[q]
      /\ req'[r] = Idle
      /\ UNCHANGED <<files, versions, parts>>
  BY DEF SaveProgress, Become, IInv, TypeOK
<1>g. \A g \in FileId : g # f => sessions'[g] = sessions[g]
  BY DEF SaveProgress, SaveSession, IInv, TypeOK
<1>f. /\ sessions'[f].status = req[r].session.status /\ sessions'[f].uploaded = u
      /\ sessions'[f].plan = sessions[f].plan
      /\ sessions'[f].status \in {"pending", "in_progress"} /\ sessions'[f] # NoRow
  BY <1>r DEF SaveProgress, SaveSession, IInv, TypeOK, NoRow
<1>h. \A q \in Req : /\ HasCopy(q)' => q # r /\ HasCopy(q) /\ req'[q] = req[q]
                     /\ q # r => (Writer(q)' <=> Writer(q))
                     /\ Writer(q)' => HasCopy(q)'
  BY <1>s DEF HasCopy, Writer, Idle
<1>w. \A q \in Req \ {r} : Writer(q) => req[q].file # f
  <2> SUFFICES ASSUME NEW q \in Req \ {r}, Writer(q), req[q].file = f PROVE FALSE
    OBVIOUS
  <2>1. HasCopy(q) /\ req[q].session.uploaded \in Nat
    BY ReqShape DEF IInv, Writer, HasCopy
  <2>2. req[q].session.uploaded < u /\ u < req[q].session.uploaded
    BY <2>1, <1>r DEF IInv, WriterAhead
  <2> QED
    BY <2>1, <2>2, <1>r
<1>n. sessions[f].status # "completed"
  BY <1>r DEF IInv, CompletedHasAll
<1> HIDE DEF f, u
<1>1. ActivationIsAtomic'
  BY <1>s, <1>f, <1>g, <1>n, <1>r DEF IInv, ActivationIsAtomic
<1>2. InitiateIsAlone'
  <2>1. \A q \in Req : req'[q].pc = "initiate" => req[q].pc = "initiate" /\ req'[q] = req[q]
    BY <1>s DEF Idle
  <2>2. \A q \in Req : req[q].pc = "initiate" => req[q].file # f
    BY <1>r DEF IInv, InitiateIsAlone, f
  <2>3. \A q \in Req : req[q].pc = "initiate" => req[q].file \in FileId
    BY ReqShape DEF IInv
  <2> QED
    BY <2>1, <2>2, <2>3, <1>s, <1>g DEF IInv, InitiateIsAlone
<1>3. RowsTogether'
  BY <1>s, <1>f, <1>g, <1>r DEF IInv, RowsTogether
<1>4. CopiesHaveRows'
  <2>1. \A g \in FileId : sessions[g] # NoRow
          => sessions'[g] # NoRow /\ sessions'[g].plan = sessions[g].plan
    BY <1>f, <1>g
  <2> QED
    BY <2>1, <1>h, ReqShape DEF IInv, CopiesHaveRows
<1>5. CountersBacked'
  <2>1. \A g \in FileId : sessions'[g] # NoRow => 1..sessions'[g].uploaded \subseteq parts[g]
    BY <1>f, <1>g, <1>r DEF IInv, CountersBacked
  <2> QED
    BY <2>1, <1>h, <1>s DEF IInv, CountersBacked
<1>6. WriterAhead'
  <2>1. \A q \in Req : Writer(q)' => /\ q # r /\ Writer(q) /\ req'[q] = req[q]
                                     /\ req[q].file # f /\ req[q].file \in FileId
    BY <1>h, <1>w, ReqShape DEF IInv
  <2> QED
    BY <2>1, <1>h, <1>s, <1>g DEF IInv, WriterAhead
<1>7. CompletedHasAll'
  BY <1>f, <1>g DEF IInv, CompletedHasAll
<1>8. OpenFollows'
  <2>1. \A q \in Req : HasCopy(q)' /\ req'[q].file = f => req'[q].session.uploaded <= u
    <3> SUFFICES ASSUME NEW q \in Req, HasCopy(q)', req'[q].file = f
                 PROVE  req'[q].session.uploaded <= u
      OBVIOUS
    <3>1. q # r /\ HasCopy(q) /\ req'[q] = req[q] /\ req[q].session.uploaded \in Nat
      BY <1>h, ReqShape DEF IInv
    <3>2. req[q].session.uploaded < u
      BY <3>1, <1>r DEF IInv, WriterAhead, f, u
    <3> QED
      BY <3>1, <3>2, <1>r
  <2> QED
    BY <2>1, <1>h, <1>s, <1>f, <1>g, <1>r DEF IInv, OpenFollows, Open
<1> QED
  BY <1>1, <1>2, <1>3, <1>4, <1>5, <1>6, <1>7, <1>8 DEF IInv

LEMMA CompleteCommitIInv ==
  ASSUME IInv, TypeOK', NEW r \in Req, CompleteCommit(r)
  PROVE  IInv'
<1> USE DEF IInv, TypeOK, Idle, NoRow, Become, CompleteCommit, InsertVersion, SaveSession, CanCommit, UpdateFile, Request, Session
<1>1. ActivationIsAtomic'
  BY DEF ActivationIsAtomic
<1>2. InitiateIsAlone'
  BY DEF InitiateIsAlone
<1>3. RowsTogether'
  BY DEF RowsTogether
<1>4. CopiesHaveRows'
  BY DEF CopiesHaveRows, HasCopy
<1>5. CountersBacked'
  BY DEF CountersBacked, HasCopy
<1>6. WriterAhead'
  BY DEF WriterAhead, Writer, HasCopy
<1>7. CompletedHasAll'
  <2> DEFINE f == req[r].file
  <2>1. /\ HasCopy(r) /\ f \in FileId /\ req[r].session.plan = sessions[f].plan
        /\ sessions'[f].uploaded = req[r].session.uploaded
        /\ sessions'[f].plan = sessions[f].plan
    BY ReqShape DEF CopiesHaveRows, HasCopy
  <2>2. req[r].session.plan.multipart => req[r].session.uploaded >= req[r].session.plan.total
    BY DEF WriterAhead, Writer
  <2>3. \A g \in FileId : g # f => sessions'[g] = sessions[g]
    OBVIOUS
  <2> QED
    BY <2>1, <2>2, <2>3 DEF CompletedHasAll
<1>8. OpenFollows'
  BY DEF OpenFollows, Open, HasCopy, Writer
<1> QED
  BY <1>1, <1>2, <1>3, <1>4, <1>5, <1>6, <1>7, <1>8 DEF IInv

LEMMA AbortCommitIInv ==
  ASSUME IInv, TypeOK', NEW r \in Req, AbortCommit(r)
  PROVE  IInv'
<1> USE DEF IInv, TypeOK, Idle, NoRow, Become, AbortCommit, SaveSession, CanMarkUploadFailed, UpdateFile, Request, Session
<1>1. ActivationIsAtomic'
  BY DEF ActivationIsAtomic
<1>2. InitiateIsAlone'
  BY DEF InitiateIsAlone
<1>3. RowsTogether'
  BY DEF RowsTogether
<1>4. CopiesHaveRows'
  BY DEF CopiesHaveRows, HasCopy
<1>5. CountersBacked'
  BY DEF CountersBacked, HasCopy
<1>6. WriterAhead'
  BY DEF WriterAhead, Writer, HasCopy
<1>7. CompletedHasAll'
  BY DEF CompletedHasAll
<1>8. OpenFollows'
  BY DEF OpenFollows, Open, HasCopy, Writer
<1> QED
  BY <1>1, <1>2, <1>3, <1>4, <1>5, <1>6, <1>7, <1>8 DEF IInv

\* Steps of the client and of the clock.
LEMMA OutsideIInv ==
  ASSUME IInv, TypeOK', UNCHANGED tables, UNCHANGED req
  PROVE  IInv'
<1> USE DEF IInv, tables
<1>1. ActivationIsAtomic' /\ InitiateIsAlone' /\ RowsTogether' /\ CompletedHasAll'
  BY DEF ActivationIsAtomic, InitiateIsAlone, RowsTogether, CompletedHasAll
<1>2. CopiesHaveRows' /\ CountersBacked'
  BY DEF CopiesHaveRows, CountersBacked, HasCopy
<1>3. WriterAhead' /\ OpenFollows'
  BY DEF WriterAhead, OpenFollows, Open, Writer, HasCopy
<1> QED
  BY <1>1, <1>2, <1>3

LEMMA InitIInv == Init => IInv
<1> SUFFICES ASSUME Init PROVE IInv
  OBVIOUS
<1>1. TypeOK
  BY InitType
<1>2. ActivationIsAtomic /\ RowsTogether /\ CompletedHasAll
  BY DEF Init, ActivationIsAtomic, RowsTogether, CompletedHasAll, NoRow
<1>3. InitiateIsAlone /\ CopiesHaveRows /\ WriterAhead
  BY DEF Init, InitiateIsAlone, CopiesHaveRows, WriterAhead, Writer, HasCopy, Idle
<1>4. CountersBacked /\ OpenFollows
  BY DEF Init, CountersBacked, OpenFollows, Open, HasCopy, Idle, NoRow
<1> QED
  BY <1>1, <1>2, <1>3, <1>4 DEF IInv

LEMMA NextIInv == IInv /\ [Next]_vars => IInv'
<1> SUFFICES ASSUME IInv, [Next]_vars PROVE IInv'
  OBVIOUS
<1>t. TypeOK /\ TypeOK'
  BY NextType DEF IInv
<1>1. ASSUME NEW r \in Req, NEW f \in FileId, NEW slot \in Slot, NEW plan \in Plan,
             InitiateUpload(r, f, slot, plan)
      PROVE  IInv'
  BY <1>t, <1>1, InitiateUploadIInv
<1>2. ASSUME NEW r \in Req, InitiateCommit(r)
      PROVE  IInv'
  BY <1>t, <1>2, InitiateCommitIInv
<1>3. ASSUME NEW r \in Req, NEW e \in notices, WebhookReceive(r, e)
      PROVE  IInv'
  <2>1. e.file \in FileId /\ sessions[e.file] # NoRow /\ Open(e.file)
    BY <1>t, <1>3 DEF WebhookReceive, FindByStorageKey, TypeOK, Notice, CanAcceptUpload, Open
  <2>2. /\ UNCHANGED tables /\ req[r] = Idle
        /\ req' = [req EXCEPT ![r] = Handling(
                     IF sessions[e.file].plan.multipart THEN "part" ELSE "complete",
                     e.file, files[e.file].slot, sessions[e.file], e)]
    BY <1>3 DEF WebhookReceive, FindByStorageKey, Become
  <2>3. /\ req'[r].file = e.file /\ req'[r].session = sessions[e.file]
        /\ req'[r].pc = IF sessions[e.file].plan.multipart THEN "part" ELSE "complete"
        /\ req' = [req EXCEPT ![r] = req'[r]]
    BY <1>t, <2>2 DEF Handling, TypeOK
  <2>4. HasCopy(r)' /\ ~Writer(r)'
    BY <2>3 DEF HasCopy, Writer
  <2>5. /\ req'[r].pc # "progress"
        /\ req'[r].pc = "part" => sessions[e.file].plan.multipart
    BY <2>3
  <2> DEFINE f == e.file
  <2> HIDE DEF f
  <2>6. /\ f \in FileId /\ sessions[f] # NoRow /\ Open(f)
        /\ req'[r].file = f /\ req'[r].session = sessions[f]
        /\ req'[r].pc = "part" => sessions[f].plan.multipart
    BY <2>1, <2>3, <2>5 DEF f
  <2> QED
    BY <1>t, <2>2, <2>3, <2>4, <2>5, <2>6, CopyIInv
<1>4. ASSUME NEW r \in Req, RecordPart(r)
      PROVE  IInv'
  BY <1>t, <1>4, RecordPartIInv
<1>5. ASSUME NEW r \in Req, SaveProgress(r)
      PROVE  IInv'
  BY <1>t, <1>5, SaveProgressIInv
<1>6. ASSUME NEW r \in Req, CompleteCommit(r)
      PROVE  IInv'
  BY <1>t, <1>6, CompleteCommitIInv
<1>7. ASSUME NEW r \in Req, WebhookFail(r)
      PROVE  IInv'
  BY <1>t, <1>7, IdleKeepsIInv DEF WebhookFail, Become
<1>8. ASSUME NEW r \in Req, NEW f \in FileId, AbortUpload(r, f)
      PROVE  IInv'
  <2>1. /\ UNCHANGED tables /\ req[r] = Idle /\ sessions[f] # NoRow
        /\ req' = [req EXCEPT ![r] = Aborting(f, sessions[f])]
    BY <1>8 DEF AbortUpload, FindByID, CanAbort, Become
  <2>2. /\ req'[r].file = f /\ req'[r].session = sessions[f] /\ req'[r].pc = "abort"
        /\ req' = [req EXCEPT ![r] = req'[r]]
    BY <1>t, <2>1 DEF Aborting, TypeOK
  <2>3. HasCopy(r)' /\ ~Writer(r)'
    BY <2>2 DEF HasCopy, Writer
  <2> QED
    BY <1>t, <2>1, <2>2, <2>3, CopyIInv
<1>9. ASSUME NEW r \in Req, AbortCommit(r)
      PROVE  IInv'
  BY <1>t, <1>9, AbortCommitIInv
<1>10. ASSUME NEW r \in Req, AbortFail(r) \/ Crash(r)
      PROVE  IInv'
  BY <1>t, <1>10, IdleKeepsIInv DEF AbortFail, Crash, Become
<1>11. ASSUME NEW f \in FileId, NEW p \in Plan, NEW n \in 1..p.total, PutPart(f, n)
      PROVE  IInv'
  BY <1>t, <1>11, OutsideIInv DEF PutPart
<1>12. ASSUME NEW f \in FileId, PassDeadline(f)
      PROVE  IInv'
  BY <1>t, <1>12, OutsideIInv DEF PassDeadline
<1>13. CASE UNCHANGED vars
  BY <1>t, <1>13, OutsideIInv DEF vars
<1> QED
  BY <1>1, <1>2, <1>3, <1>4, <1>5, <1>6, <1>7, <1>8, <1>9, <1>10, <1>11,
     <1>12, <1>13 DEF Next, Webhook, Abort, Initiate, AbortSession

\* A completed session is written by nobody: a copy that could still be saved
\* is a writer, and a writer is ahead of its row.
LEMMA CompletedStays ==
  IInv /\ [Next]_vars
    => \A f \in FileId : sessions[f].status = "completed"
                          => sessions'[f].status = "completed"
<1> SUFFICES ASSUME IInv, [Next]_vars, NEW f \in FileId, sessions[f].status = "completed"
             PROVE  sessions'[f].status = "completed"
  OBVIOUS
<1>0. /\ TypeOK /\ sessions[f] # NoRow /\ f \in versions
      /\ sessions[f].uploaded \in Nat /\ sessions[f].plan.total \in Nat
      /\ sessions[f].plan.multipart => sessions[f].uploaded >= sessions[f].plan.total
      /\ files[f].status = "active"
  BY RowShape, PlanAssumption DEF IInv, CompletedHasAll, ActivationIsAtomic, NoRow
<1>1. ASSUME NEW r \in Req, InitiateCommit(r)
      PROVE  sessions'[f].status = "completed"
  BY <1>0, <1>1 DEF InitiateCommit, InsertSession, IInv, InitiateIsAlone, TypeOK
<1>2. ASSUME NEW r \in Req, SaveProgress(r)
      PROVE  sessions'[f].status = "completed"
  <2>1. CASE req[r].file = f
    <3>1. Writer(r) /\ HasCopy(r) /\ req[r].pc = "progress"
      BY <1>2 DEF SaveProgress, Writer, HasCopy
    <3>2. /\ sessions[f].uploaded < req[r].session.uploaded
          /\ req[r].session.uploaded < req[r].session.plan.total
          /\ req[r].session.plan = sessions[f].plan /\ req[r].session.plan.multipart
          /\ req[r].session.uploaded \in Nat
      BY <3>1, <2>1, ReqShape DEF IInv, WriterAhead, CopiesHaveRows
    <3> QED
      BY <3>2, <1>0
  <2>2. CASE req[r].file # f
    BY <1>0, <1>2, <2>2 DEF SaveProgress, SaveSession, TypeOK
  <2> QED
    BY <2>1, <2>2
<1>3. ASSUME NEW r \in Req, CompleteCommit(r)
      PROVE  sessions'[f].status = "completed"
  BY <1>0, <1>3 DEF CompleteCommit, InsertVersion, SaveSession, TypeOK
<1>4. ASSUME NEW r \in Req, AbortCommit(r)
      PROVE  sessions'[f].status = "completed"
  BY <1>0, <1>4 DEF AbortCommit, CanMarkUploadFailed, SaveSession, TypeOK
<1>5. CASE UNCHANGED sessions
  BY <1>5
<1> QED
  BY <1>1, <1>2, <1>3, <1>4, <1>5
  DEF Next, Webhook, Abort, Initiate, AbortSession, InitiateUpload, WebhookReceive, FindByStorageKey, RecordPart, InsertPart,
      WebhookFail, AbortUpload, FindByID, CanAbort, AbortFail, Crash, PutPart, PassDeadline,
      vars, tables

\* Every reachable state of an upload is well typed: sessions only ever hold
\* the five statuses of the table's CHECK constraint.
THEOREM TypeCorrect == Spec => []TypeOK
BY InitType, NextType, PTL DEF Spec

\* The inductive invariant of the upload workflow.
THEOREM Invariance == Spec => []IInv
BY InitIInv, NextIInv, PTL DEF Spec

\* File, version and session change together on completion (complete_upload.go,
\* the transaction), for any number of handlers, parts and crashes.
THEOREM UploadIsAtomic == Spec => []ActivationIsAtomic
<1>1. IInv => ActivationIsAtomic
  BY DEF IInv
<1> QED
  BY <1>1, Invariance, PTL

\* The part rows of an open session are 1..k, k at most one ahead of the counter.
THEOREM PartsInOrder == Spec => []PartsFollowCounter
<1>1. IInv => PartsFollowCounter
  BY DEF IInv, OpenFollows, Open, PartsFollowCounter
<1> QED
  BY <1>1, Invariance, PTL

\* No interleaving takes a completed session out of that status.
THEOREM CompletionIsFinal == Spec => CompletedIsFinal
<1>1. IInv /\ [Next]_vars
        => [\A f \in FileId : sessions[f].status = "completed"
                               => sessions'[f].status = "completed"]_vars
  BY CompletedStays
<1> QED
  BY <1>1, Invariance, PTL DEF Spec, CompletedIsFinal

-----------------------------------------------------------------------------
(* Upload implements AtomicUpload: each of its steps is one abstract step, or *)
(* changes nothing that AtomicUpload speaks of.                               *)

LEMMA InitAtomic == Init => Atomic!Init
BY DEF Init, Atomic!Init, AtomicState, AtomicMissing, NoRow

\* The mapping reads three tables.
LEMMA UnseenAtomic ==
  ASSUME UNCHANGED <<files, sessions, parts>>
  PROVE  UNCHANGED Atomic!vars
BY DEF Atomic!vars, AtomicState, AtomicMissing

\* A step that touches one file: what the mapping says of it, and of the others.
LEMMA OneFile ==
  ASSUME NEW f \in FileId,
         \A g \in FileId \ {f} : /\ files'[g] = files[g]
                                 /\ sessions'[g] = sessions[g]
                                 /\ parts'[g] = parts[g]
  PROVE  /\ AtomicState' = [AtomicState EXCEPT ![f] = AtomicState'[f]]
         /\ AtomicMissing' = [AtomicMissing EXCEPT ![f] = AtomicMissing'[f]]
<1>1. AtomicState' = [AtomicState EXCEPT ![f] = AtomicState'[f]]
  BY DEF AtomicState
<1>2. AtomicMissing' = [AtomicMissing EXCEPT ![f] = AtomicMissing'[f]]
  BY DEF AtomicMissing
<1> QED
  BY <1>1, <1>2

\* Saving a session changes no parts and not the plan.
LEMMA MissingKept ==
  ASSUME NEW f \in FileId, UNCHANGED parts,
         sessions[f] # NoRow, sessions'[f] # NoRow, sessions'[f].plan = sessions[f].plan,
         \A g \in FileId \ {f} : sessions'[g] = sessions[g]
  PROVE  AtomicMissing' = AtomicMissing
<1>1. ASSUME NEW g \in FileId
      PROVE  (IF sessions'[g] # NoRow /\ sessions'[g].plan.multipart
                THEN 1..sessions'[g].plan.total \ parts'[g] ELSE {})
             = (IF sessions[g] # NoRow /\ sessions[g].plan.multipart
                  THEN 1..sessions[g].plan.total \ parts[g] ELSE {})
  <2>1. CASE g = f
    BY <2>1
  <2>2. CASE g # f
    BY <2>2
  <2> QED
    BY <2>1, <2>2
<1> QED
  BY <1>1 DEF AtomicMissing

\* Mapped values of a file, in terms of its rows.
LEMMA AtomicShape ==
  ASSUME IInv, NEW f \in FileId
  PROVE  /\ AtomicState[f] = "none" <=> sessions[f] = NoRow
         /\ AtomicState[f] = "stored" <=> sessions[f].status = "completed"
         /\ AtomicState[f] = "aborted" <=> sessions[f].status = "aborted"
         /\ AtomicState[f] \in {"none", "open", "aborted", "stored"}
         /\ sessions[f] = NoRow => AtomicMissing[f] = {}
         /\ sessions[f] # NoRow =>
              AtomicMissing[f] = IF sessions[f].plan.multipart
                                   THEN 1..sessions[f].plan.total \ parts[f] ELSE {}
<1>1. TypeOK /\ (files[f] = NoRow <=> sessions[f] = NoRow)
      /\ (files[f].status = "active" <=> sessions[f].status = "completed")
  BY DEF IInv, RowsTogether, ActivationIsAtomic
<1> QED
  BY <1>1, RowShape DEF AtomicState, AtomicMissing, NoRow

\* InitiateUpload's transaction starts the upload, with all parts missing.
LEMMA InitiateCommitAtomic ==
  ASSUME IInv, IInv', NEW r \in Req, InitiateCommit(r)
  PROVE  [Atomic!Next]_Atomic!vars
<1> DEFINE f == req[r].file
           p == req[r].plan
<1>1. /\ f \in FileId /\ p \in Plan
      /\ sessions[f] = NoRow /\ parts[f] = {}
  BY ReqShape DEF IInv, InitiateCommit, InsertSession, InitiateIsAlone, RowsTogether
<1>2. /\ sessions'[f] = [status |-> "pending", uploaded |-> 0, plan |-> p]
      /\ parts' = parts
      /\ \A g \in FileId \ {f} : files'[g] = files[g] /\ sessions'[g] = sessions[g]
  BY <1>1 DEF InitiateCommit, InsertSession, NewUploadSession, IInv, TypeOK
<1>3. /\ AtomicState[f] = "none"
      /\ AtomicState'[f] = "open"
      /\ AtomicMissing'[f] = IF p.multipart THEN 1..p.total ELSE {}
  <2>1. AtomicState[f] = "none"
    BY <1>1, AtomicShape
  <2>2. AtomicState'[f] = "open"
    BY <1>1, <1>2 DEF AtomicState, InitiateCommit, InsertSession, NewFile, IInv, TypeOK, NoRow
  <2>3. AtomicMissing'[f] = IF p.multipart THEN 1..p.total ELSE {}
    <3>1. sessions'[f] # NoRow /\ sessions'[f].plan = p /\ parts'[f] = {}
      BY <1>1, <1>2 DEF NoRow
    <3> QED
      BY <1>1, <3>1 DEF AtomicMissing
  <2> QED
    BY <2>1, <2>2, <2>3
<1>4. \E n \in {0} \cup {q.total : q \in Plan} : AtomicMissing'[f] = 1..n
  <2>1. 1..0 = {}
    OBVIOUS
  <2>2. CASE p.multipart
    BY <1>1, <1>3, <2>2
  <2>3. CASE ~p.multipart
    BY <1>3, <2>1, <2>3
  <2> QED
    BY <2>2, <2>3
<1>5. Atomic!Start(f)
  <2>1. /\ AtomicState' = [AtomicState EXCEPT ![f] = AtomicState'[f]]
        /\ AtomicMissing' = [AtomicMissing EXCEPT ![f] = AtomicMissing'[f]]
    BY <1>1, <1>2, OneFile
  <2> QED
    BY <2>1, <1>3, <1>4 DEF Atomic!Start
<1> QED
  BY <1>1, <1>5 DEF Atomic!Next

\* A part row is the next missing part, or one beyond the plan of the upload.
LEMMA RecordPartAtomic ==
  ASSUME IInv, IInv', NEW r \in Req, RecordPart(r)
  PROVE  [Atomic!Next]_Atomic!vars
<1> DEFINE f == req[r].file
           n == NextPart(r)
           total == sessions[f].plan.total
<1>1. /\ f \in FileId /\ n \in Nat /\ n > 0 /\ total \in Nat
      /\ sessions[f] # NoRow /\ sessions[f].plan.multipart
      /\ 1..(n - 1) \subseteq parts[f] /\ n \notin parts[f]
      /\ parts[f] \in SUBSET Nat
  BY ReqShape, RowShape, PlanAssumption
  DEF IInv, RecordPart, InsertPart, PartConflict, NextPart, CopiesHaveRows, CountersBacked, HasCopy
<1>2. /\ parts'[f] = parts[f] \cup {n}
      /\ UNCHANGED <<files, sessions>>
      /\ \A g \in FileId \ {f} : parts'[g] = parts[g]
  BY <1>1 DEF RecordPart, InsertPart, IInv, TypeOK
<1>3. /\ AtomicState' = AtomicState
      /\ AtomicMissing[f] = 1..total \ parts[f]
      /\ AtomicMissing'[f] = AtomicMissing[f] \ {n}
      /\ AtomicMissing' = [AtomicMissing EXCEPT ![f] = AtomicMissing'[f]]
  <2>1. AtomicState' = AtomicState
    BY <1>2 DEF AtomicState
  <2>2. AtomicMissing[f] = 1..total \ parts[f]
    BY <1>1 DEF AtomicMissing
  <2>3. AtomicMissing'[f] = 1..total \ (parts[f] \cup {n})
    BY <1>1, <1>2 DEF AtomicMissing
  <2>4. AtomicMissing' = [AtomicMissing EXCEPT ![f] = AtomicMissing'[f]]
    BY <1>1, <1>2, OneFile
  <2> QED
    BY <2>1, <2>2, <2>3, <2>4
<1>4. CASE n \in AtomicMissing[f]
  <2>1. \A k \in AtomicMissing[f] : n <= k
    BY <1>1, <1>3
  <2>2. AtomicState[f] \in {"open", "aborted"}
    <3>1. sessions[f].status # "completed"
      BY <1>1, <1>3, <1>4, RowShape DEF IInv, CompletedHasAll, CountersBacked
    <3> QED
      BY <1>1, <3>1, AtomicShape
  <2> QED
    BY <1>1, <1>3, <1>4, <2>1, <2>2 DEF Atomic!Next, Atomic!Record, Atomic!Started
<1>5. CASE n \notin AtomicMissing[f]
  <2>1. AtomicMissing' = AtomicMissing
    <3>1. AtomicMissing'[f] = AtomicMissing[f]
      BY <1>3, <1>5
    <3> QED
      BY <1>1, <1>3, <3>1 DEF AtomicMissing
  <2> QED
    BY <1>3, <2>1 DEF Atomic!vars
<1> QED
  BY <1>4, <1>5

\* A handler that kept its session in memory may save it over an abort.
LEMMA SaveProgressAtomic ==
  ASSUME IInv, IInv', NEW r \in Req, SaveProgress(r)
  PROVE  [Atomic!Next]_Atomic!vars
<1> DEFINE f == req[r].file
<1>1. /\ f \in FileId /\ sessions[f] # NoRow
      /\ sessions[f].status # "completed"
      /\ req[r].session.status \in {"pending", "in_progress"}
  <2>1. /\ f \in FileId /\ HasCopy(r) /\ Writer(r) /\ req[r].pc = "progress"
        /\ req[r].session.uploaded \in Nat /\ req[r].session.plan \in Plan
    BY ReqShape DEF SaveProgress, IInv, HasCopy, Writer
  <2>2. /\ sessions[f] # NoRow /\ sessions[f].plan = req[r].session.plan
        /\ sessions[f].plan.multipart
        /\ req[r].session.status \in {"pending", "in_progress"}
        /\ sessions[f].uploaded < req[r].session.uploaded
        /\ req[r].session.uploaded < sessions[f].plan.total
    BY <2>1 DEF IInv, CopiesHaveRows, WriterAhead
  <2> QED
    BY <2>1, <2>2, RowShape, PlanAssumption DEF IInv, CompletedHasAll
<1>2. /\ UNCHANGED <<files, parts>>
      /\ sessions'[f] = [status |-> req[r].session.status,
                         uploaded |-> req[r].session.uploaded, plan |-> sessions[f].plan]
      /\ \A g \in FileId \ {f} : sessions'[g] = sessions[g]
  BY <1>1 DEF SaveProgress, SaveSession, IInv, TypeOK
<1>3. /\ AtomicMissing' = AtomicMissing
      /\ AtomicState[f] \in {"open", "aborted"}
      /\ AtomicState'[f] = "open"
      /\ AtomicState' = [AtomicState EXCEPT ![f] = AtomicState'[f]]
  <2>1. sessions'[f] # NoRow /\ sessions'[f].plan = sessions[f].plan
    BY <1>2 DEF NoRow
  <2>2. AtomicMissing' = AtomicMissing
    BY <1>1, <1>2, <2>1, MissingKept
  <2>3. AtomicState[f] \in {"open", "aborted"}
    BY <1>1, AtomicShape
  <2>4. AtomicState'[f] = "open"
    BY <1>1, <1>2, <2>3 DEF AtomicState
  <2> QED
    BY <1>1, <1>2, <2>2, <2>3, <2>4, OneFile
<1>4. CASE AtomicState[f] = "aborted"
  BY <1>1, <1>3, <1>4 DEF Atomic!Next, Atomic!Reopen
<1>5. CASE AtomicState[f] = "open"
  BY <1>3, <1>5 DEF Atomic!vars, AtomicState
<1> QED
  BY <1>3, <1>4, <1>5

\* A completion has a row for every part.
LEMMA CompleteCommitAtomic ==
  ASSUME IInv, IInv', NEW r \in Req, CompleteCommit(r)
  PROVE  [Atomic!Next]_Atomic!vars
<1> DEFINE f == req[r].file
<1>1. /\ f \in FileId /\ HasCopy(r) /\ req[r].pc = "complete"
      /\ sessions[f] # NoRow /\ sessions[f].plan = req[r].session.plan
      /\ files[f] # NoRow /\ f \notin versions
  BY ReqShape DEF CompleteCommit, InsertVersion, CanCommit, IInv, HasCopy, CopiesHaveRows
<1>2. /\ UNCHANGED parts
      /\ sessions'[f] = [status |-> "completed",
                         uploaded |-> req[r].session.uploaded, plan |-> sessions[f].plan]
      /\ \A g \in FileId \ {f} : sessions'[g] = sessions[g] /\ files'[g] = files[g]
  BY <1>1 DEF CompleteCommit, InsertVersion, SaveSession, UpdateFile, IInv, TypeOK
<1>3. AtomicMissing[f] = {}
  <2>1. CASE sessions[f].plan.multipart
    <3>1. /\ Writer(r)
          /\ req[r].session.uploaded \in Nat /\ sessions[f].plan.total \in Nat
      BY <1>1, <2>1, ReqShape, PlanAssumption DEF Writer, IInv, HasCopy
    <3>2. /\ parts[f] = 1..req[r].session.uploaded
          /\ req[r].session.uploaded >= sessions[f].plan.total
      BY <1>1, <3>1 DEF IInv, WriterAhead
    <3> QED
      BY <1>1, <3>1, <3>2 DEF AtomicMissing
  <2>2. CASE ~sessions[f].plan.multipart
    BY <1>1, <2>2 DEF AtomicMissing
  <2> QED
    BY <2>1, <2>2
<1>4. AtomicMissing' = AtomicMissing
  <2>1. sessions'[f] # NoRow /\ sessions'[f].plan = sessions[f].plan
    BY <1>2 DEF NoRow
  <2> QED
    BY <1>1, <1>2, <2>1, MissingKept
<1>5. AtomicState[f] \in {"open", "aborted"}
  BY <1>1, AtomicShape DEF IInv, ActivationIsAtomic
<1>6. AtomicState'[f] = "stored"
  BY <1>1 DEF AtomicState, CompleteCommit, InsertVersion, UpdateFile, IInv, TypeOK, NoRow
<1>7. AtomicState' = [AtomicState EXCEPT ![f] = AtomicState'[f]]
  BY <1>1, <1>2, OneFile
<1> QED
  BY <1>1, <1>3, <1>4, <1>5, <1>6, <1>7 DEF Atomic!Next, Atomic!Store, Atomic!Started

\* An abort reads the file again, so it never takes back what is stored.
LEMMA AbortCommitAtomic ==
  ASSUME IInv, IInv', NEW r \in Req, AbortCommit(r)
  PROVE  [Atomic!Next]_Atomic!vars
<1> DEFINE f == req[r].file
<1>1. /\ f \in FileId /\ sessions[f] # NoRow /\ files[f] # NoRow
      /\ files[f].status = "uploading"
  BY ReqShape DEF AbortCommit, CanMarkUploadFailed, SaveSession, IInv, HasCopy, NoRow
<1>2. /\ UNCHANGED parts
      /\ sessions'[f] = [status |-> "aborted",
                         uploaded |-> req[r].session.uploaded, plan |-> sessions[f].plan]
      /\ \A g \in FileId \ {f} : sessions'[g] = sessions[g] /\ files'[g] = files[g]
      /\ files'[f].status = "uploading"
  BY <1>1 DEF AbortCommit, SaveSession, UpdateFile, IInv, TypeOK
<1>3. /\ AtomicMissing' = AtomicMissing
      /\ AtomicState[f] \in {"open", "aborted"}
      /\ AtomicState'[f] = "aborted"
      /\ AtomicState' = [AtomicState EXCEPT ![f] = AtomicState'[f]]
  <2>1. sessions'[f] # NoRow /\ sessions'[f].plan = sessions[f].plan
    BY <1>2 DEF NoRow
  <2>2. AtomicMissing' = AtomicMissing
    BY <1>1, <1>2, <2>1, MissingKept
  <2>3. AtomicState[f] \in {"open", "aborted"}
    BY <1>1 DEF AtomicState
  <2>4. AtomicState'[f] = "aborted"
    BY <1>1, <1>2 DEF AtomicState, NoRow
  <2> QED
    BY <1>1, <1>2, <2>2, <2>3, <2>4, OneFile
<1>4. CASE AtomicState[f] = "open"
  BY <1>1, <1>3, <1>4 DEF Atomic!Next, Atomic!Abort
<1>5. CASE AtomicState[f] = "aborted"
  BY <1>3, <1>5 DEF Atomic!vars, AtomicState
<1> QED
  BY <1>3, <1>4, <1>5

LEMMA NextAtomic ==
  ASSUME IInv, IInv', [Next]_vars
  PROVE  [Atomic!Next]_Atomic!vars
<1>1. CASE UNCHANGED <<files, sessions, parts>>
  BY <1>1, UnseenAtomic
<1>2. ASSUME NEW r \in Req, InitiateCommit(r)
      PROVE  [Atomic!Next]_Atomic!vars
  BY <1>2, InitiateCommitAtomic
<1>3. ASSUME NEW r \in Req, RecordPart(r)
      PROVE  [Atomic!Next]_Atomic!vars
  BY <1>3, RecordPartAtomic
<1>4. ASSUME NEW r \in Req, SaveProgress(r)
      PROVE  [Atomic!Next]_Atomic!vars
  BY <1>4, SaveProgressAtomic
<1>5. ASSUME NEW r \in Req, CompleteCommit(r)
      PROVE  [Atomic!Next]_Atomic!vars
  BY <1>5, CompleteCommitAtomic
<1>6. ASSUME NEW r \in Req, AbortCommit(r)
      PROVE  [Atomic!Next]_Atomic!vars
  BY <1>6, AbortCommitAtomic
<1> QED
  BY <1>1, <1>2, <1>3, <1>4, <1>5, <1>6
  DEF Next, Webhook, Abort, Initiate, AbortSession, InitiateUpload, WebhookReceive, FindByStorageKey,
      WebhookFail, AbortUpload, FindByID, CanAbort, AbortFail, Crash, PutPart, PassDeadline,
      vars, tables

\* The upload workflow implements the atomic upload: initiate_upload.go,
\* complete_upload.go and abort_upload.go together make a file visible in one
\* step, when every part has its row, and never take it back.
THEOREM UploadImplements == Spec => IsAtomicUpload
BY InitAtomic, NextAtomic, Invariance, PTL DEF Spec, IsAtomicUpload, Atomic!Spec
-----------------------------------------------------------------------------
(* A completed upload has every part, unless a notice was handled twice *)

Handler(r) == req[r].pc \in {"part", "progress", "complete"}

\* The notices of a file that were counted: some handler took them, and none
\* still holds them uncounted.  A writer has counted its notice.
Counted(f) ==
  {e \in heard : e.file = f /\ \A r \in Req : Handler(r) /\ req[r].notice = e => Writer(r)}

\* A handler holds its notice alone, and what is reported has been PUT.
NoticesHeld ==
  /\ \A e \in notices \cup heard : e \in Notice /\ e.part \in puts[e.file]
  /\ \A r \in Req : Handler(r) => req[r].notice \in heard /\ req[r].notice.file = req[r].file
  /\ \A r, q \in Req : Handler(r) /\ Handler(q) /\ req[r].notice = req[q].notice => r = q

\* No counter of parts, in a row or in the memory of a handler, is ahead of the
\* notices that were counted.
CountersHeard ==
  \A f \in FileId :
    /\ sessions[f] # NoRow => sessions[f].uploaded <= Cardinality(Counted(f))
    /\ \A r \in Req : HasCopy(r) /\ req[r].file = f
                        => req[r].session.uploaded <= Cardinality(Counted(f))

ActiveHasOne == \A f \in FileId : files[f].status = "active" => puts[f] # {}

\* What was PUT belongs to the plan of the session.
PutsPlanned ==
  \A f \in FileId :
    /\ urls[f] # NoRow => sessions[f] # NoRow /\ urls[f] = sessions[f].plan
    /\ puts[f] # {} => urls[f] # NoRow
    /\ urls[f] # NoRow => puts[f] \subseteq 1..urls[f].total

HistoryInv ==
  /\ IInv
  /\ IsFiniteSet(heard)
  /\ PutsPlanned
  /\ ~repeated => NoticesHeld /\ CountersHeard /\ ActiveHasOne

LEMMA HistoryWatches == HistoryNext => Next
BY DEF HistoryNext, Next, Webhook

LEMMA HistoryInit0 == HistoryInit => HistoryInv
<1> SUFFICES ASSUME HistoryInit PROVE HistoryInv
  OBVIOUS
<1> USE DEF HistoryInit, Init
<1>1. IsFiniteSet(heard)
  BY FS_EmptySet
<1>2. PutsPlanned /\ ActiveHasOne
  BY DEF PutsPlanned, ActiveHasOne, NoRow
<1>3. \A r \in Req : ~Handler(r) /\ ~HasCopy(r)
  BY DEF Handler, HasCopy, Idle
<1>4. NoticesHeld /\ CountersHeard
  BY <1>3 DEF NoticesHeld, CountersHeard
<1> QED
  BY <1>1, <1>2, <1>4, InitIInv DEF HistoryInv


\* Steps that change neither URLs nor the bucket, and no plan.
LEMMA PlannedQuiet ==
  ASSUME PutsPlanned, UNCHANGED <<urls, puts>>,
         \A f \in FileId : sessions[f] # NoRow =>
           sessions'[f] # NoRow /\ sessions'[f].plan = sessions[f].plan
  PROVE  PutsPlanned'
BY DEF PutsPlanned

\* The plan of a session is never changed, and clients PUT under it.
LEMMA PlannedKept ==
  ASSUME HistoryInv, [Next]_vars
  PROVE  PutsPlanned'
<1>0. TypeOK /\ PutsPlanned /\ IInv
  BY DEF HistoryInv, IInv
<1>1. ASSUME NEW r \in Req, InitiateCommit(r) PROVE PutsPlanned'
  <2>1. PICK f, plan : f = req[r].file /\ plan = req[r].plan
    OBVIOUS
  <2>2. f \in FileId /\ plan \in Plan /\ sessions[f] = NoRow /\ plan # NoRow
    BY <1>0, <1>1, <2>1, ReqShape, PlanAssumption DEF InitiateCommit, IInv, InitiateIsAlone, NoRow
  <2>3. /\ sessions' = [sessions EXCEPT ![f] = NewUploadSession(plan)]
        /\ urls' \in {[urls EXCEPT ![f] = plan], urls} /\ puts' = puts
    BY <1>1, <2>1 DEF InitiateCommit, InsertSession, Presigned, minio
  <2>4. /\ sessions'[f].plan = plan /\ sessions'[f] # NoRow
        /\ \A g \in FileId \ {f} : sessions'[g] = sessions[g] /\ urls'[g] = urls[g]
    BY <1>0, <2>2, <2>3 DEF TypeOK, NewUploadSession, NoRow
  <2>5. urls[f] = NoRow /\ puts[f] = {}
    BY <1>0, <2>2 DEF PutsPlanned
  <2>6. urls'[f] \in {plan, NoRow}
    BY <1>0, <2>2, <2>3, <2>5 DEF TypeOK
  <2>7. ASSUME NEW g \in FileId
        PROVE  /\ urls'[g] # NoRow => sessions'[g] # NoRow /\ urls'[g] = sessions'[g].plan
               /\ puts'[g] # {} => urls'[g] # NoRow
               /\ urls'[g] # NoRow => puts'[g] \subseteq 1..urls'[g].total
    <3>1. CASE g = f
      BY <2>3, <2>4, <2>5, <2>6, <3>1
    <3>2. CASE g # f
      BY <1>0, <2>3, <2>4, <3>2 DEF PutsPlanned
    <3> QED
      BY <3>1, <3>2
  <2> QED
    BY <2>7 DEF PutsPlanned
<1>2. ASSUME NEW f \in FileId, NEW p \in Plan, NEW n \in 1..p.total, PutPart(f, n) PROVE PutsPlanned'
  <2>1. /\ urls[f] # NoRow /\ n \in 1..urls[f].total
        /\ puts' = [puts EXCEPT ![f] = puts[f] \cup {n}]
        /\ urls' = urls /\ sessions' = sessions
    BY <1>2 DEF PutPart, tables
  <2>2. \A g \in FileId : puts'[g] = IF g = f THEN puts[f] \cup {n} ELSE puts[g]
    BY <1>0, <2>1 DEF TypeOK
  <2> QED
    BY <1>0, <2>1, <2>2 DEF PutsPlanned
<1>3. ASSUME NEW r \in Req, SaveProgress(r) \/ CompleteCommit(r) \/ AbortCommit(r) PROVE PutsPlanned'
  <2>1. PICK f, s : /\ f = req[r].file /\ sessions[f] # NoRow /\ s.plan = sessions[f].plan
                    /\ s # NoRow /\ sessions' = [sessions EXCEPT ![f] = s]
    <3>1. ASSUME NEW status, SaveSession(req[r].file, req[r].session, status)
          PROVE  \E f, s : /\ f = req[r].file /\ sessions[f] # NoRow /\ s.plan = sessions[f].plan
                           /\ s # NoRow /\ sessions' = [sessions EXCEPT ![f] = s]
      <4>1. PICK f, s : f = req[r].file /\ s = [status |-> status, uploaded |-> req[r].session.uploaded,
                                                plan |-> sessions[f].plan]
        OBVIOUS
      <4>2. sessions[f] # NoRow /\ sessions' = [sessions EXCEPT ![f] = s]
        BY <3>1, <4>1 DEF SaveSession
      <4>3. s # NoRow /\ s.plan = sessions[f].plan
        BY <4>1 DEF NoRow
      <4> QED
        BY <4>1, <4>2, <4>3
    <3> QED
      BY <1>3, <3>1 DEF SaveProgress, CompleteCommit, AbortCommit
  <2>2. \A g \in FileId : sessions'[g] = IF g = f THEN s ELSE sessions[g]
    BY <1>0, <2>1 DEF TypeOK
  <2>3. UNCHANGED <<urls, puts>>
    BY <1>3 DEF SaveProgress, CompleteCommit, AbortCommit, minio
  <2> QED
    BY <1>0, <2>1, <2>2, <2>3, PlannedQuiet
<1>4. ASSUME UNCHANGED <<urls, puts, sessions>> PROVE PutsPlanned'
  BY <1>0, <1>4 DEF PutsPlanned
<1> QED
  BY <1>1, <1>2, <1>3, <1>4
  DEF Next, Webhook, Abort, Initiate, AbortSession, InitiateUpload, WebhookReceive, RecordPart,
      WebhookFail, AbortUpload, AbortFail, Crash, PassDeadline, vars, tables, minio

\* A number of parts that the row or a copy of the session of f knows.
Known(f, u) ==
  \/ u = 0
  \/ sessions[f] # NoRow /\ u = sessions[f].uploaded
  \/ \E q \in Req : HasCopy(q) /\ req[q].file = f /\ u = req[q].session.uploaded

LEMMA CountedFinite ==
  ASSUME IsFiniteSet(heard), NEW f
  PROVE  IsFiniteSet(Counted(f)) /\ Cardinality(Counted(f)) \in Nat
<1>1. Counted(f) \in SUBSET heard
  BY DEF Counted
<1> QED
  BY <1>1, FS_Subset, FS_CardinalityType

LEMMA KnownHeard ==
  ASSUME CountersHeard, IsFiniteSet(heard), NEW f \in FileId, NEW u, Known(f, u)
  PROVE  u <= Cardinality(Counted(f))
<1>1. Cardinality(Counted(f)) \in Nat
  BY CountedFinite
<1> QED
  BY <1>1 DEF Known, CountersHeard

\* A step that invents no counter, and after which no notice counts less.
LEMMA CountersKept ==
  ASSUME TypeOK, TypeOK', CountersHeard, IsFiniteSet(heard), IsFiniteSet(heard'),
         \A f \in FileId : Counted(f) \subseteq Counted(f)',
         \A f \in FileId : \A u : sessions'[f] # NoRow /\ sessions'[f].uploaded = u => Known(f, u),
         \A f \in FileId, r \in Req : \A u :
           HasCopy(r)' /\ req'[r].file = f /\ req'[r].session.uploaded = u => Known(f, u)
  PROVE  CountersHeard'
<1>1. ASSUME NEW f \in FileId, NEW u \in Nat, Known(f, u) PROVE u <= Cardinality(Counted(f)')
  <2>1. Counted(f)' \in SUBSET (heard')
    BY DEF Counted
  <2>2. IsFiniteSet(Counted(f)') /\ Counted(f) \in SUBSET (Counted(f)')
    BY <2>1, FS_Subset
  <2>3. Cardinality(Counted(f)) <= Cardinality(Counted(f)')
    BY <2>2, FS_Subset
  <2>4. Cardinality(Counted(f)) \in Nat /\ Cardinality(Counted(f)') \in Nat
    BY <2>2, CountedFinite, FS_CardinalityType
  <2>5. u <= Cardinality(Counted(f))
    BY <1>1, KnownHeard
  <2> QED
    BY <2>3, <2>4, <2>5
<1>2. ASSUME NEW f \in FileId, NEW u, sessions'[f] # NoRow, u = sessions'[f].uploaded
      PROVE  u <= Cardinality(Counted(f)')
  <2>1. u \in Nat /\ Known(f, u)
    BY <1>2 DEF TypeOK, Session
  <2> QED
    BY <1>1, <2>1
<1>3. ASSUME NEW f \in FileId, NEW r \in Req, NEW u,
             HasCopy(r)', req'[r].file = f, u = req'[r].session.uploaded
      PROVE  u <= Cardinality(Counted(f)')
  <2>1. u \in Nat /\ Known(f, u)
    BY <1>3 DEF TypeOK, Request, Idle, Session, HasCopy
  <2> QED
    BY <1>1, <2>1
<1> QED
  BY <1>2, <1>3 DEF CountersHeard

\* A step after which every handler stands where it stood, or has ended.
LEMMA HandlersKept ==
  ASSUME TypeOK, TypeOK', NoticesHeld, CountersHeard, IsFiniteSet(heard), heard' = heard,
         \A q \in Req : Handler(q)' => req'[q] = req[q],
         \A f \in FileId : puts[f] \subseteq puts'[f],
         \A e \in notices' : e \in Notice /\ e.part \in puts'[e.file],
         \A f \in FileId : \A u : sessions'[f] # NoRow /\ sessions'[f].uploaded = u => Known(f, u),
         \A f \in FileId, q \in Req : \A u :
           HasCopy(q)' /\ req'[q].file = f /\ req'[q].session.uploaded = u => Known(f, u)
  PROVE  NoticesHeld' /\ CountersHeard'
<1>1. \A q \in Req : Handler(q)' => Handler(q) /\ Writer(q)' = Writer(q)
  BY DEF Handler, Writer
<1>2. \A f \in FileId : Counted(f) \subseteq Counted(f)'
  BY <1>1 DEF Counted
<1>3. CountersHeard'
  BY <1>2, CountersKept
<1>4. \A e \in heard' : e \in Notice /\ e.part \in puts'[e.file]
  BY DEF NoticesHeld, Notice
<1>5. NoticesHeld'
  BY <1>1, <1>4 DEF NoticesHeld
<1> QED
  BY <1>3, <1>5

LEMMA OldCopies ==
  ASSUME NEW r \in Req, \A q \in Req : q # r => req'[q] = req[q], ~HasCopy(r)'
  PROVE  \A f \in FileId, q \in Req : \A u :
           HasCopy(q)' /\ req'[q].file = f /\ req'[q].session.uploaded = u => Known(f, u)
BY DEF Known, HasCopy

LEMMA KeepsHistory ==
  ASSUME HistoryInv, IInv', ~repeated, heard' = heard, NEW r \in Req,
         \/ \E f \in FileId, slot \in Slot, plan \in Plan : InitiateUpload(r, f, slot, plan)
         \/ InitiateCommit(r) \/ SaveProgress(r) \/ CompleteCommit(r)
         \/ \E f \in FileId : AbortUpload(r, f)
         \/ AbortCommit(r) \/ AbortFail(r)
  PROVE  NoticesHeld' /\ CountersHeard'
<1>0. TypeOK /\ TypeOK' /\ NoticesHeld /\ CountersHeard /\ IsFiniteSet(heard)
  BY DEF HistoryInv, IInv
<1>1. UNCHANGED <<puts, notices>>
  BY DEF InitiateUpload, InitiateCommit, SaveProgress, CompleteCommit, AbortUpload, AbortCommit,
         AbortFail, minio
<1>2. \A e \in notices' : e \in Notice /\ e.part \in puts'[e.file]
  BY <1>0, <1>1 DEF NoticesHeld
<1>3. PICK state : Become(r, state) /\ state.pc \in {"initiate", "idle", "abort"}
  <2>1. ASSUME NEW f \in FileId, NEW slot \in Slot, NEW plan \in Plan, InitiateUpload(r, f, slot, plan)
        PROVE  Become(r, Initiating(f, slot, plan)) /\ Initiating(f, slot, plan).pc = "initiate"
    BY <2>1 DEF InitiateUpload, Initiating
  <2>2. ASSUME NEW f \in FileId, AbortUpload(r, f)
        PROVE  Become(r, Aborting(f, FindByID(f))) /\ Aborting(f, FindByID(f)).pc = "abort"
    BY <2>2 DEF AbortUpload, Aborting
  <2>3. CASE InitiateCommit(r) \/ SaveProgress(r) \/ CompleteCommit(r) \/ AbortCommit(r) \/ AbortFail(r)
    <3>1. Become(r, Idle) /\ Idle.pc = "idle"
      BY <2>3 DEF InitiateCommit, SaveProgress, CompleteCommit, AbortCommit, AbortFail, Idle
    <3> QED
      BY <3>1
  <2> QED
    BY <2>1, <2>2, <2>3
<1>4. req'[r].pc \in {"initiate", "idle", "abort"} /\ \A q \in Req : q # r => req'[q] = req[q]
  BY <1>0, <1>3 DEF Become, TypeOK
<1>5. \A q \in Req : Handler(q)' => req'[q] = req[q]
  BY <1>4 DEF Handler
<1>6. \A f \in FileId : \A u : sessions'[f] # NoRow /\ sessions'[f].uploaded = u => Known(f, u)
  <2>1. CASE InitiateCommit(r)
    <3>1. PICK f, s : f = req[r].file /\ s = NewUploadSession(req[r].plan)
      OBVIOUS
    <3>2. \A g \in FileId : sessions'[g] = IF g = f THEN s ELSE sessions[g]
      BY <1>0, <2>1, <3>1 DEF InitiateCommit, InsertSession, TypeOK
    <3>3. s.uploaded = 0
      BY <3>1 DEF NewUploadSession
    <3> QED
      BY <3>2, <3>3 DEF Known
  <2>2. CASE SaveProgress(r) \/ CompleteCommit(r) \/ AbortCommit(r)
    <3>1. PICK f, u : f = req[r].file /\ u = req[r].session.uploaded
      OBVIOUS
    <3>2. HasCopy(r) /\ f \in FileId
      BY <1>0, <2>2, <3>1, ReqShape DEF HasCopy, SaveProgress, CompleteCommit, AbortCommit
    <3>3. PICK s : s.uploaded = u /\ sessions' = [sessions EXCEPT ![f] = s]
      BY <2>2, <3>1 DEF SaveProgress, CompleteCommit, AbortCommit, SaveSession
    <3>4. \A g \in FileId : sessions'[g] = IF g = f THEN s ELSE sessions[g]
      BY <1>0, <3>3 DEF TypeOK
    <3> QED
      BY <3>1, <3>2, <3>3, <3>4 DEF Known
  <2>3. CASE UNCHANGED sessions
    BY <2>3 DEF Known
  <2> QED
    BY <2>1, <2>2, <2>3 DEF InitiateUpload, AbortUpload, AbortFail, tables
<1>7. \A f \in FileId, q \in Req : \A u :
        HasCopy(q)' /\ req'[q].file = f /\ req'[q].session.uploaded = u => Known(f, u)
  <2>1. CASE ~HasCopy(r)'
    BY <1>4, <2>1, OldCopies
  <2>2. CASE HasCopy(r)'
    <3>1. PICK f \in FileId : AbortUpload(r, f)
      BY <1>0, <2>2 DEF HasCopy, InitiateUpload, InitiateCommit, SaveProgress, CompleteCommit,
         AbortCommit, AbortFail, Become, Initiating, Idle, TypeOK
    <3>2. req'[r] = [pc |-> "abort", file |-> f, session |-> sessions[f]] /\ sessions[f] # NoRow
      BY <1>0, <3>1 DEF AbortUpload, Become, Aborting, FindByID, TypeOK
    <3>3. req'[r].file = f /\ req'[r].session = sessions[f]
      BY <3>2
    <3> QED
      BY <1>4, <3>2, <3>3 DEF Known, HasCopy
  <2> QED
    BY <2>1, <2>2
<1> QED
  BY <1>0, <1>1, <1>2, <1>5, <1>6, <1>7, HandlersKept

LEMMA OutsideHistory ==
  ASSUME HistoryInv, IInv', ~repeated, heard' = heard, NEW f \in FileId,
         PassDeadline(f) \/ \E p \in Plan : \E n \in 1..p.total : PutPart(f, n)
  PROVE  NoticesHeld' /\ CountersHeard'
<1>0. TypeOK /\ TypeOK' /\ NoticesHeld /\ CountersHeard /\ IsFiniteSet(heard)
  BY DEF HistoryInv, IInv
<1>1. UNCHANGED <<sessions, req>>
  BY DEF PassDeadline, PutPart, tables
<1>2. /\ \A g \in FileId : puts[g] \subseteq puts'[g]
      /\ \A e \in notices' : e \in Notice /\ e.part \in puts'[e.file]
  <2>1. CASE PassDeadline(f)
    BY <1>0, <2>1 DEF PassDeadline, minio, NoticesHeld
  <2>2. ASSUME NEW n \in Nat, PutPart(f, n)
        PROVE  /\ \A g \in FileId : puts[g] \subseteq puts'[g]
               /\ \A e \in notices' : e \in Notice /\ e.part \in puts'[e.file]
    <3>1. \A g \in FileId : puts'[g] = IF g = f THEN puts[g] \cup {n} ELSE puts[g]
      BY <1>0, <2>2 DEF PutPart, TypeOK
    <3>2. PICK e : e = [file |-> f, part |-> n]
      OBVIOUS
    <3>3. e \in Notice /\ e.file = f /\ e.part = n /\ notices' = notices \cup {e}
      BY <2>2, <3>2 DEF PutPart, Notice
    <3>4. \A d \in notices : d.file \in FileId /\ d.part \in puts[d.file]
      BY <1>0 DEF NoticesHeld, Notice
    <3> QED
      BY <1>0, <3>1, <3>3, <3>4 DEF NoticesHeld
  <2>3. \A p \in Plan : 1..p.total \subseteq Nat
    BY PlanAssumption
  <2> QED
    BY <2>1, <2>2, <2>3
<1>3. /\ \A g \in FileId : \A u : sessions'[g] # NoRow /\ sessions'[g].uploaded = u => Known(g, u)
      /\ \A g \in FileId, q \in Req : \A u :
           HasCopy(q)' /\ req'[q].file = g /\ req'[q].session.uploaded = u => Known(g, u)
  BY <1>1 DEF Known, HasCopy
<1> QED
  BY <1>0, <1>1, <1>2, <1>3, HandlersKept

\* A handler takes a notice nobody has taken: it counts for nothing yet.
LEMMA HearsNotice ==
  ASSUME HistoryInv, IInv', ~repeated, NEW r \in Req, NEW e \in notices,
         WebhookReceive(r, e), Hear(e), ~repeated'
  PROVE  NoticesHeld' /\ CountersHeard' /\ IsFiniteSet(heard')
<1>0. TypeOK /\ TypeOK' /\ NoticesHeld /\ CountersHeard /\ IsFiniteSet(heard)
  BY DEF HistoryInv, IInv
<1>1. heard' = heard \cup {e} /\ e \notin heard
  BY DEF Hear
<1>2. IsFiniteSet(heard')
  BY <1>0, <1>1, FS_AddElement
<1>3. PICK f, s, pc : /\ f = e.file /\ s = sessions[f]
                      /\ pc = IF s.plan.multipart THEN "part" ELSE "complete"
  OBVIOUS
<1>4. /\ req'[r] = [pc |-> pc, file |-> f, slot |-> files[f].slot, session |-> s, notice |-> e]
      /\ \A q \in Req : q # r => req'[q] = req[q]
      /\ req[r] = Idle /\ s # NoRow /\ f \in FileId
      /\ UNCHANGED <<tables, puts>> /\ notices' \subseteq notices
  BY <1>0, <1>3 DEF WebhookReceive, FindByStorageKey, Become, Handling, TypeOK, Taken, Notice
<1>5. /\ req'[r].pc = pc /\ req'[r].file = f /\ req'[r].session = s /\ req'[r].notice = e
      /\ Handler(r)' /\ ~Writer(r)'
  BY <1>3, <1>4 DEF Handler, Writer
<1>6. \A q \in Req : q # r => /\ Handler(q)' = Handler(q) /\ Writer(q)' = Writer(q)
                              /\ (Handler(q) => req[q].notice # e)
  BY <1>0, <1>1, <1>4 DEF Handler, Writer, NoticesHeld
<1>7. \A g \in FileId : Counted(g) \subseteq Counted(g)'
  BY <1>1, <1>4, <1>5, <1>6 DEF Counted
<1>8. NoticesHeld'
  <2>1. \A d \in notices' \cup heard' : d \in Notice /\ d.part \in puts'[d.file]
    BY <1>0, <1>1, <1>4 DEF NoticesHeld
  <2>2. \A q \in Req : Handler(q)' => req'[q].notice \in heard' /\ req'[q].notice.file = req'[q].file
    BY <1>0, <1>1, <1>3, <1>4, <1>5, <1>6 DEF NoticesHeld
  <2>3. \A p, q \in Req : Handler(p)' /\ Handler(q)' /\ req'[p].notice = req'[q].notice => p = q
    BY <1>0, <1>4, <1>5, <1>6 DEF NoticesHeld
  <2> QED
    BY <2>1, <2>2, <2>3 DEF NoticesHeld
<1>9. \A g \in FileId : \A u : sessions'[g] # NoRow /\ sessions'[g].uploaded = u => Known(g, u)
  BY <1>4 DEF Known, tables
<1>10. \A g \in FileId, q \in Req : \A u :
         HasCopy(q)' /\ req'[q].file = g /\ req'[q].session.uploaded = u => Known(g, u)
  BY <1>3, <1>4, <1>5 DEF Known, HasCopy
<1> QED
  BY <1>0, <1>2, <1>7, <1>8, <1>9, <1>10, CountersKept

\* The handler that records a part counts its notice and itself one part more.
LEMMA RecordsHistory ==
  ASSUME HistoryInv, IInv', ~repeated, heard' = heard, NEW r \in Req, RecordPart(r)
  PROVE  NoticesHeld' /\ CountersHeard'
<1>0. TypeOK /\ TypeOK' /\ NoticesHeld /\ CountersHeard /\ IsFiniteSet(heard)
  BY DEF HistoryInv, IInv
<1>1. PICK f, e, s, t, pc :
        /\ f = req[r].file /\ e = req[r].notice /\ s = req[r].session
        /\ t = IncrementUploadedParts(s)
        /\ pc = IF AllPartsUploaded(t) THEN "complete" ELSE "progress"
  OBVIOUS
<1>2. /\ req[r].pc = "part" /\ HasCopy(r) /\ Handler(r) /\ ~Writer(r)
      /\ f \in FileId /\ e \in heard /\ e.file = f /\ s.uploaded \in Nat /\ s.plan.multipart
  BY <1>0, <1>1, ReqShape DEF RecordPart, HasCopy, Handler, Writer, NoticesHeld, HistoryInv, IInv, CopiesHaveRows
<1>3. /\ req'[r] = [pc |-> pc, file |-> f, slot |-> req[r].slot, session |-> t, notice |-> e]
      /\ \A q \in Req : q # r => req'[q] = req[q]
      /\ UNCHANGED <<sessions, puts, notices>>
  BY <1>0, <1>1 DEF RecordPart, Become, Handling, TypeOK, minio
<1>4. t.uploaded = s.uploaded + 1 /\ t.plan = s.plan /\ pc \in {"complete", "progress"}
  BY <1>1 DEF IncrementUploadedParts
<1>5. /\ req'[r].pc = pc /\ req'[r].file = f /\ req'[r].session = t /\ req'[r].notice = e
      /\ Handler(r)' /\ Writer(r)'
  BY <1>2, <1>3, <1>4 DEF Handler, Writer
<1>6. \A q \in Req : q # r => /\ Handler(q)' = Handler(q) /\ Writer(q)' = Writer(q)
                              /\ (Handler(q) => req[q].notice # e)
  BY <1>0, <1>1, <1>2, <1>3 DEF Handler, Writer, NoticesHeld
<1>7. NoticesHeld'
  BY <1>0, <1>1, <1>2, <1>3, <1>5, <1>6 DEF NoticesHeld
<1>8. \A g \in FileId : Counted(g) \subseteq Counted(g)'
  BY <1>3, <1>5, <1>6 DEF Counted
<1>9. e \in Counted(f)' /\ e \notin Counted(f)
  BY <1>1, <1>2, <1>3, <1>5, <1>6 DEF Counted
<1>10. \A g \in FileId : /\ Cardinality(Counted(g)) <= Cardinality(Counted(g)')
                         /\ Cardinality(Counted(g)) \in Nat /\ Cardinality(Counted(g)') \in Nat
  <2>1. ASSUME NEW g \in FileId
        PROVE  /\ Cardinality(Counted(g)) <= Cardinality(Counted(g)')
               /\ Cardinality(Counted(g)) \in Nat /\ Cardinality(Counted(g)') \in Nat
    <3>1. Counted(g)' \in SUBSET heard /\ Counted(g) \in SUBSET (Counted(g)')
      BY <1>8 DEF Counted
    <3>2. IsFiniteSet(Counted(g)')
      BY <1>0, <3>1, FS_Subset
    <3> QED
      BY <1>0, <3>1, <3>2, CountedFinite, FS_Subset, FS_CardinalityType
  <2> QED
    BY <2>1
<1>11. Cardinality(Counted(f)) + 1 <= Cardinality(Counted(f)')
  <2>1. Counted(f)' \in SUBSET heard /\ Counted(f) \cup {e} \in SUBSET (Counted(f)')
    BY <1>2, <1>8, <1>9 DEF Counted
  <2>2. IsFiniteSet(Counted(f)')
    BY <1>0, <2>1, FS_Subset
  <2>3. Cardinality(Counted(f) \cup {e}) <= Cardinality(Counted(f)')
    BY <2>1, <2>2, FS_Subset
  <2>4. Cardinality(Counted(f) \cup {e}) = Cardinality(Counted(f)) + 1
    BY <1>0, <1>9, CountedFinite, FS_AddElement
  <2> QED
    BY <2>3, <2>4
<1>12. \A g \in FileId : sessions'[g] # NoRow => sessions'[g].uploaded <= Cardinality(Counted(g)')
  <2>1. \A g \in FileId : sessions[g] # NoRow => sessions[g].uploaded \in Nat
    BY <1>0 DEF TypeOK, Session
  <2> QED
    BY <1>0, <1>3, <1>10, <2>1 DEF CountersHeard
<1>13. ASSUME NEW g \in FileId, NEW q \in Req, HasCopy(q)', req'[q].file = g
       PROVE  req'[q].session.uploaded <= Cardinality(Counted(g)')
  <2>1. CASE q = r
    <3>1. s.uploaded <= Cardinality(Counted(f))
      BY <1>0, <1>1, <1>2 DEF CountersHeard
    <3> QED
      BY <1>2, <1>4, <1>5, <1>10, <1>11, <1>13, <2>1, <3>1
  <2>2. CASE q # r
    <3>1. HasCopy(q) /\ req[q].file = g /\ req'[q] = req[q]
      BY <1>3, <1>13, <2>2 DEF HasCopy
    <3>2. req[q].session.uploaded \in Nat
      BY <1>0, <3>1, ReqShape
    <3> QED
      BY <1>0, <1>10, <3>1, <3>2 DEF CountersHeard
  <2> QED
    BY <2>1, <2>2
<1>14. CountersHeard'
  BY <1>12, <1>13 DEF CountersHeard
<1> QED
  BY <1>7, <1>14

\* A handler that ends without an effect gives its notice back.  If it was a
\* writer, it takes one notice off the count and the one higher counter with it.
LEMMA GivesBack ==
  ASSUME HistoryInv, IInv', ~repeated, NEW r \in Req, WebhookFail(r) \/ Crash(r), GiveBack(r)
  PROVE  NoticesHeld' /\ CountersHeard' /\ IsFiniteSet(heard')
<1>0. TypeOK /\ TypeOK' /\ NoticesHeld /\ CountersHeard /\ IsFiniteSet(heard) /\ WriterAhead
  BY DEF HistoryInv, IInv
<1>1. PICK f, e : f = req[r].file /\ e = req[r].notice
  OBVIOUS
<1>2. /\ req'[r] = Idle /\ \A q \in Req : q # r => req'[q] = req[q]
      /\ UNCHANGED <<tables, puts>>
  BY <1>0 DEF WebhookFail, Crash, Become, TypeOK
<1>3. ~Handler(r)' /\ ~HasCopy(r)'
  BY <1>2 DEF Handler, HasCopy, Idle
<1>4. Handler(r) => e \in heard /\ e.file = f /\ \A q \in Req : q # r /\ Handler(q) => req[q].notice # e
  BY <1>0, <1>1 DEF NoticesHeld
<1>5. heard' = IF Handler(r) THEN heard \ {e} ELSE heard
  BY <1>1 DEF GiveBack, Handler
<1>6. notices' \subseteq notices \cup heard
  BY <1>1, <1>4 DEF WebhookFail, Crash, Returned, Handler
<1>7. IsFiniteSet(heard') /\ heard' \subseteq heard
  BY <1>0, <1>5, FS_RemoveElement
<1>8. \A q \in Req : q # r => Handler(q)' = Handler(q) /\ Writer(q)' = Writer(q) /\ HasCopy(q)' = HasCopy(q)
  BY <1>2 DEF Handler, Writer, HasCopy
<1>9. NoticesHeld'
  <2>1. \A d \in notices' \cup heard' : d \in Notice /\ d.part \in puts'[d.file]
    BY <1>0, <1>2, <1>6, <1>7 DEF NoticesHeld
  <2>2. \A q \in Req : Handler(q)' => req'[q].notice \in heard' /\ req'[q].notice.file = req'[q].file
    BY <1>0, <1>2, <1>3, <1>4, <1>5, <1>8 DEF NoticesHeld
  <2>3. \A p, q \in Req : Handler(p)' /\ Handler(q)' /\ req'[p].notice = req'[q].notice => p = q
    BY <1>0, <1>2, <1>3, <1>8 DEF NoticesHeld
  <2> QED
    BY <2>1, <2>2, <2>3 DEF NoticesHeld
<1>10. \A g \in FileId : \A u : sessions'[g] # NoRow /\ sessions'[g].uploaded = u => Known(g, u)
  BY <1>2 DEF Known, tables
<1>11. CASE ~Writer(r)
  <2>1. \A g \in FileId : Counted(g) \subseteq Counted(g)'
    BY <1>1, <1>2, <1>3, <1>5, <1>8, <1>11 DEF Counted
  <2>2. \A g \in FileId, q \in Req : \A u :
          HasCopy(q)' /\ req'[q].file = g /\ req'[q].session.uploaded = u => Known(g, u)
    BY <1>2, <1>3, OldCopies
  <2> QED
    BY <1>0, <1>7, <1>9, <1>10, <2>1, <2>2, CountersKept
<1>12. CASE Writer(r)
  <2>1. PICK u : u = req[r].session.uploaded
    OBVIOUS
  <2>2. Handler(r) /\ HasCopy(r) /\ f \in FileId /\ u \in Nat /\ u <= Cardinality(Counted(f))
    BY <1>0, <1>1, <1>12, <2>1, ReqShape DEF Writer, Handler, HasCopy, CountersHeard
  <2>3. /\ sessions[f].uploaded < u
        /\ \A q \in Req : q # r /\ HasCopy(q) /\ req[q].file = f => req[q].session.uploaded < u
    BY <1>0, <1>1, <1>12, <2>1 DEF WriterAhead
  <2>4. \A g \in FileId : g # f => Counted(g) \subseteq Counted(g)'
    BY <1>2, <1>3, <1>4, <1>5, <1>8, <2>2 DEF Counted
  <2>5. e \in Counted(f) /\ Counted(f) \ {e} \subseteq Counted(f)'
    BY <1>2, <1>3, <1>4, <1>5, <1>8, <1>12, <2>2 DEF Counted
  <2>6. \A g \in FileId : /\ IsFiniteSet(Counted(g)) /\ Cardinality(Counted(g)) \in Nat
                          /\ IsFiniteSet(Counted(g)') /\ Cardinality(Counted(g)') \in Nat
    <3>1. ASSUME NEW g \in FileId
          PROVE  /\ IsFiniteSet(Counted(g)) /\ Cardinality(Counted(g)) \in Nat
                 /\ IsFiniteSet(Counted(g)') /\ Cardinality(Counted(g)') \in Nat
      <4>1. Counted(g)' \in SUBSET heard'
        BY DEF Counted
      <4> QED
        BY <1>0, <1>7, <4>1, CountedFinite, FS_Subset, FS_CardinalityType
    <3> QED
      BY <3>1
  <2>7. Cardinality(Counted(f)) - 1 <= Cardinality(Counted(f)')
    <3>1. IsFiniteSet(Counted(f)) /\ IsFiniteSet(Counted(f)')
      BY <2>2, <2>6
    <3>2. Cardinality(Counted(f) \ {e}) = Cardinality(Counted(f)) - 1
      BY <2>5, <3>1, FS_RemoveElement
    <3>3. Counted(f) \ {e} \in SUBSET (Counted(f)')
      BY <2>5
    <3>4. Cardinality(Counted(f) \ {e}) <= Cardinality(Counted(f)')
      BY <3>1, <3>3, FS_Subset
    <3> QED
      BY <3>2, <3>4
  <2>8. \A g \in FileId : g # f => Cardinality(Counted(g)) <= Cardinality(Counted(g)')
    <3>1. ASSUME NEW g \in FileId, g # f PROVE Cardinality(Counted(g)) <= Cardinality(Counted(g)')
      <4>1. Counted(g) \in SUBSET (Counted(g)') /\ IsFiniteSet(Counted(g)')
        BY <2>4, <2>6, <3>1
      <4> QED
        BY <4>1, FS_Subset
    <3> QED
      BY <3>1
  <2>9. ASSUME NEW g \in FileId, NEW v \in Nat, v <= Cardinality(Counted(g)), g = f => v < u
        PROVE  v <= Cardinality(Counted(g)')
    <3>1. CASE g = f
      <4>1. v <= Cardinality(Counted(f)) - 1
        BY <2>2, <2>6, <2>9, <3>1
      <4> QED
        BY <2>2, <2>6, <2>7, <3>1, <4>1
    <3>2. CASE g # f
      BY <2>6, <2>8, <2>9, <3>2
    <3> QED
      BY <3>1, <3>2
  <2>10. ASSUME NEW g \in FileId, sessions'[g] # NoRow
         PROVE  sessions'[g].uploaded <= Cardinality(Counted(g)')
    <3>1. PICK v : v = sessions[g].uploaded
      OBVIOUS
    <3>2. v \in Nat /\ v <= Cardinality(Counted(g)) /\ (g = f => v < u)
      BY <1>0, <1>2, <2>3, <2>10, <3>1, RowShape DEF CountersHeard, tables
    <3>3. v <= Cardinality(Counted(g)')
      BY <2>9, <3>2
    <3> QED
      BY <1>2, <3>1, <3>3 DEF tables
  <2>11. ASSUME NEW g \in FileId, NEW q \in Req, HasCopy(q)', req'[q].file = g
         PROVE  req'[q].session.uploaded <= Cardinality(Counted(g)')
    <3>1. PICK v : v = req[q].session.uploaded
      OBVIOUS
    <3>2. q # r /\ HasCopy(q) /\ req[q].file = g /\ req'[q] = req[q]
      BY <1>2, <1>3, <1>8, <2>11
    <3>3. v \in Nat /\ v <= Cardinality(Counted(g)) /\ (g = f => v < u)
      BY <1>0, <2>3, <3>1, <3>2, ReqShape DEF CountersHeard
    <3>4. v <= Cardinality(Counted(g)')
      BY <2>9, <3>3
    <3> QED
      BY <3>1, <3>2, <3>4
  <2>12. CountersHeard'
    BY <2>10, <2>11 DEF CountersHeard
  <2> QED
    BY <1>7, <1>9, <2>12
<1> QED
  BY <1>11, <1>12

LEMMA ActiveKept ==
  ASSUME HistoryInv, ~repeated, [Next]_vars
  PROVE  ActiveHasOne'
<1>0. TypeOK /\ NoticesHeld /\ ActiveHasOne
  BY DEF HistoryInv, IInv
<1>1. ASSUME puts' = puts, \A f \in FileId : files'[f].status = "active" => files[f].status = "active" \/ puts[f] # {}
      PROVE  ActiveHasOne'
  BY <1>0, <1>1 DEF ActiveHasOne
<1>2. ASSUME NEW r \in Req, InitiateCommit(r) PROVE ActiveHasOne'
  <2>1. \A f \in FileId : files'[f].status = "active" => files[f].status = "active"
    BY <1>0, <1>2 DEF InitiateCommit, NewFile, TypeOK
  <2> QED
    BY <1>1, <1>2, <2>1 DEF InitiateCommit, minio
<1>3. ASSUME NEW r \in Req, CompleteCommit(r) PROVE ActiveHasOne'
  <2>1. PICK f : f = req[r].file
    OBVIOUS
  <2>2. puts[f] # {}
    BY <1>0, <1>3, <2>1 DEF CompleteCommit, NoticesHeld, Handler
  <2>3. \A g \in FileId : g # f => files'[g] = files[g]
    BY <1>0, <1>3, <2>1 DEF CompleteCommit, UpdateFile, TypeOK
  <2> QED
    BY <1>1, <1>3, <2>2, <2>3 DEF CompleteCommit, minio
<1>4. ASSUME NEW r \in Req, AbortCommit(r) PROVE ActiveHasOne'
  <2>1. \A f \in FileId : files'[f].status = "active" => files[f].status = "active"
    BY <1>0, <1>4 DEF AbortCommit, UpdateFile, TypeOK
  <2> QED
    BY <1>1, <1>4, <2>1 DEF AbortCommit, minio
<1>5. ASSUME NEW f \in FileId, NEW n, PutPart(f, n) PROVE ActiveHasOne'
  <2>1. files' = files /\ \A g \in FileId : puts[g] \subseteq puts'[g]
    BY <1>0, <1>5 DEF PutPart, tables, TypeOK
  <2> QED
    BY <1>0, <2>1 DEF ActiveHasOne
<1>6. ASSUME UNCHANGED <<files, puts>> PROVE ActiveHasOne'
  BY <1>1, <1>6
<1> QED
  BY <1>2, <1>3, <1>4, <1>5, <1>6
  DEF Next, Webhook, Abort, Initiate, AbortSession, InitiateUpload, WebhookReceive, RecordPart,
      SaveProgress, WebhookFail, AbortUpload, AbortFail, Crash, PassDeadline, vars, tables, minio

LEMMA NextHistoryInv == HistoryInv /\ [HistoryNext]_<<vars, heard, repeated>> => HistoryInv'
<1> SUFFICES ASSUME HistoryInv, [HistoryNext]_<<vars, heard, repeated>> PROVE HistoryInv'
  OBVIOUS
<1>0. IInv /\ IInv' /\ [Next]_vars /\ IsFiniteSet(heard)
  BY HistoryWatches, NextIInv DEF HistoryInv
<1>1. PutsPlanned'
  BY <1>0, PlannedKept
<1>2. ~repeated => ActiveHasOne'
  BY <1>0, ActiveKept
<1> DEFINE Told == IsFiniteSet(heard') /\ (~repeated' => ~repeated /\ NoticesHeld' /\ CountersHeard')
<1>3. ASSUME Keep, ~repeated => NoticesHeld' /\ CountersHeard' PROVE Told
  BY <1>0, <1>3 DEF Keep
<1>4. ASSUME NEW r \in Req, Initiate(r) \/ AbortSession(r) \/ SaveProgress(r) \/ CompleteCommit(r), Keep
      PROVE  Told
  <2>1. ~repeated => NoticesHeld' /\ CountersHeard'
    BY <1>0, <1>4, KeepsHistory DEF Keep, Initiate, AbortSession, Abort
  <2> QED
    BY <1>3, <1>4, <2>1
<1>5. ASSUME NEW r \in Req, RecordPart(r), Keep PROVE Told
  BY <1>0, <1>3, <1>5, RecordsHistory DEF Keep
<1>6. ASSUME NEW f \in FileId, Keep,
             PassDeadline(f) \/ \E p \in Plan : \E n \in 1..p.total : PutPart(f, n)
      PROVE  Told
  BY <1>0, <1>3, <1>6, OutsideHistory DEF Keep
<1>7. ASSUME NEW r \in Req, NEW e \in notices, WebhookReceive(r, e), Hear(e) PROVE Told
  <2>1. CASE ~repeated'
    BY <1>0, <1>7, <2>1, HearsNotice DEF Hear
  <2>2. CASE repeated'
    BY <1>7, <2>2, FS_EmptySet DEF Hear
  <2> QED
    BY <2>1, <2>2
<1>8. ASSUME NEW r \in Req, WebhookFail(r) \/ Crash(r), GiveBack(r) PROVE Told
  <2>1. IsFiniteSet(heard') /\ repeated' = repeated
    BY <1>0, <1>8, FS_RemoveElement DEF GiveBack
  <2>2. ~repeated => NoticesHeld' /\ CountersHeard'
    BY <1>0, <1>8, GivesBack
  <2> QED
    BY <2>1, <2>2
<1>9. ASSUME UNCHANGED <<vars, heard, repeated>> PROVE Told
  <2>1. UNCHANGED <<tables, minio, req, heard, repeated>>
    BY <1>9 DEF vars
  <2>2. \A f \in FileId : Counted(f)' = Counted(f)
    BY <2>1 DEF Counted, Handler, Writer
  <2>3. NoticesHeld => NoticesHeld'
    BY <2>1 DEF NoticesHeld, Handler, minio
  <2>4. CountersHeard => CountersHeard'
    BY <2>1, <2>2 DEF CountersHeard, HasCopy, tables
  <2> QED
    BY <1>0, <2>1, <2>3, <2>4 DEF HistoryInv
<1>10. Told
  <2> HIDE DEF Told
  <2> QED
    BY <1>4, <1>5, <1>6, <1>7, <1>8, <1>9 DEF HistoryNext
<1> QED
  BY <1>0, <1>1, <1>2, <1>10 DEF HistoryInv

\* The same along every history, with what the first notifications have recorded.
THEOREM HistoryInvariance == HistorySpec => []HistoryInv
BY HistoryInit0, NextHistoryInv, PTL DEF HistorySpec

\* A file that became active has every part of its plan in the bucket, however
\* handlers fail, die and overlap, unless one notice was handled twice: every
\* part that was counted was counted for a notice of its own.
THEOREM ActiveIsWhole == HistorySpec => []ActiveHasAll
<1>1. HistoryInv => ActiveHasAll
  <2> SUFFICES ASSUME HistoryInv, ~repeated, NEW f \in FileId, files[f].status = "active"
               PROVE  puts[f] = 1..sessions[f].plan.total
    BY DEF ActiveHasAll, ActiveHasAllParts
  <2>1. PICK total : total = sessions[f].plan.total
    OBVIOUS
  <2>2. TypeOK /\ sessions[f].status = "completed" /\ puts[f] # {}
    BY DEF HistoryInv, IInv, ActivationIsAtomic, ActiveHasOne
  <2>3. /\ sessions[f] # NoRow /\ sessions[f].uploaded \in Nat /\ sessions[f].plan \in Plan
        /\ puts[f] \subseteq 1..total
    BY <2>1, <2>2, RowShape DEF HistoryInv, PutsPlanned
  <2>4. total \in Nat \ {0} /\ (~sessions[f].plan.multipart => total = 1)
    BY <2>1, <2>3, PlanAssumption
  <2>5. CASE ~sessions[f].plan.multipart
    <3>1. total = 1 /\ 1..total = {1}
      BY <2>4, <2>5
    <3>2. PICK done : done = puts[f]
      OBVIOUS
    <3>3. done \subseteq {1} /\ done # {}
      BY <2>2, <2>3, <3>1, <3>2
    <3>4. done = {1}
      BY <3>3
    <3> QED
      BY <2>1, <3>1, <3>2, <3>4
  <2>6. CASE sessions[f].plan.multipart
    <3> DEFINE part == [e \in Counted(f) |-> e.part]
    <3>1. /\ IsFiniteSet(Counted(f)) /\ Cardinality(Counted(f)) \in Nat
          /\ total <= Cardinality(Counted(f))
      <4>1. IsFiniteSet(Counted(f)) /\ Cardinality(Counted(f)) \in Nat
        BY CountedFinite DEF HistoryInv
      <4>2. sessions[f].uploaded >= total /\ sessions[f].uploaded <= Cardinality(Counted(f))
        BY <2>1, <2>2, <2>3, <2>6 DEF HistoryInv, IInv, CompletedHasAll, CountersHeard
      <4> QED
        BY <2>3, <2>4, <4>1, <4>2
    <3>2. IsFiniteSet(1..total) /\ Cardinality(1..total) = total
      BY <2>4, FS_Interval
    <3>3. IsFiniteSet(puts[f]) /\ Cardinality(puts[f]) \in Nat /\ Cardinality(puts[f]) <= total
      BY <2>3, <3>2, FS_Subset, FS_CardinalityType
    <3>4. \A e \in Counted(f) : e \in Notice /\ e.file = f /\ e.part \in puts[f]
      BY DEF HistoryInv, NoticesHeld, Counted
    <3>5. part \in Injection(Counted(f), puts[f])
      BY <3>4 DEF Injection, IsInjective, Notice
    <3>6. Cardinality(Counted(f)) <= Cardinality(puts[f])
      BY <3>3, <3>5, FS_Injection
    <3>7. Cardinality(1..total) = Cardinality(puts[f])
      BY <2>4, <3>1, <3>2, <3>3, <3>6
    <3>8. puts[f] \in SUBSET (1..total)
      BY <2>3
    <3>9. puts[f] = 1..total
      BY <3>2, <3>7, <3>8, FS_Subset
    <3> QED
      BY <2>1, <3>9
  <2> QED
    BY <2>5, <2>6
<1> QED
  BY <1>1, HistoryInvariance, PTL
=============================================================================
