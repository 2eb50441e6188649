------------------------- MODULE UploadSession_proofs -------------------------
(***************************************************************************)
(* Proofs about UploadSession, for any numbers of sessions, requests and   *)
(* faults and any limits: what a queued or answered job can count on, that *)
(* a settled one stays settled, and that the two limits of the upload      *)
(* admission hold in every interleaving of sessions, crashes and cleanup.  *)
(***************************************************************************)
EXTENDS UploadSession, JobTable_proofs, Sums_proofs

-----------------------------------------------------------------------------
(* The inductive invariant, by parts.                                      *)

\* TypeOK, but for the bound on the bytes of orphans: that is StorageBound.
TypeInv ==
  /\ jobs \in [Requests -> Row]
  /\ session \in [Sessions -> Session]
  /\ lock \in [Requests -> Sessions \cup {NoSession}]
  /\ input \in [Requests -> File \cup {NoFile}]
  /\ entered \subseteq Requests /\ dirs \subseteq Requests
  /\ orphans \in [Requests -> Nat]
  /\ stale \in Nat
  /\ cleaner \in [pc  : {"idle", "input", "partials", "rmdir"},
                  req : Requests \cup {NoRequest}]
  /\ answered \subseteq Requests
  /\ faults \in 0 .. MaxFaults

\* What the place of a session says of its partial file.
PartShape(s) ==
  /\ s.pc = "idle" <=> s.req = NoRequest
  /\ s.linked => s.part # NoFile
  /\ s.linked => s.pc \in {"stream", "sync", "rename", "undo", "refuse"}
  /\ s.pc \in {"stream", "sync", "rename"} => s.part # NoFile
  /\ s.pc = "sync" => s.part.whole
  /\ s.pc = "rename" => s.part.whole /\ s.part.synced
  /\ s.token => s.pc \in {"stream", "sync", "undo", "refuse"}
  /\ s.pc = "stream" => s.token

PartInv == \A u \in Sessions : PartShape(session[u])

Deleted(r) == jobs[r].status = "deleted"

\* An input is complete from its first moment on, and in the directory as long
\* as the job may need it; what a session is about to rely on is there, unless
\* the job was deleted meanwhile.
InputInv ==
  /\ \A r \in Requests : input[r] # NoFile => input[r].whole /\ input[r].synced
  /\ \A r \in entered : input[r] # NoFile \/ Deleted(r)
  /\ \A r \in Requests : Pending(jobs[r]) => r \in entered
  /\ \A u \in Sessions : At(u, "dirsync") => input[Req(u)] # NoFile \/ Deleted(Req(u))
  /\ \A u \in Sessions : At(u, "queue") => Req(u) \in entered \/ Deleted(Req(u))
  /\ cleaner.pc # "idle" => cleaner.req \in Requests /\ Deleted(cleaner.req)

\* The upload of the job is over.
Past(row) == ~Uploading(row) /\ row.status # "absent"

AnswerInv ==
  /\ \A u \in Sessions : session[u].ok => ~At(u, "idle") /\ Past(jobs[Req(u)])
  /\ \A r \in answered : Past(jobs[r])

UploadInv == TypeInv /\ PartInv /\ InputInv /\ AnswerInv

-----------------------------------------------------------------------------
(* What a step does to the rows of jobs.                                   *)

\* The statements of the uploads, of clients and of cleanup write rows.
LEMMA UploadRows ==
  ASSUME NEW row \in Row
  PROVE  /\ AbsentRow \in Row /\ CreateSet \in Row /\ DeletedRow \in Row
         /\ MarkDownloadingSet(row) \in Row /\ MarkQueuedSet(row) \in Row
         /\ EndFailedSet(row) \in Row /\ FailSet(row, FALSE) \in Row
         /\ AckSet(row) \in Row /\ [row EXCEPT !.status = "done"] \in Row
<1>1. AbsentRow \in Row
  BY WrittenValues DEF AbsentRow, Row
<1>2. CreateSet \in Row /\ DeletedRow \in Row
  BY <1>1, WrittenValues DEF CreateSet, DeletedRow, Row
<1>3. /\ MarkDownloadingSet(row) \in Row /\ MarkQueuedSet(row) \in Row
      /\ EndFailedSet(row) \in Row
      /\ AckSet(row) \in Row /\ [row EXCEPT !.status = "done"] \in Row
  BY WrittenValues DEF Row, MarkDownloadingSet, MarkQueuedSet, EndFailedSet, AckSet
<1> QED
  BY <1>1, <1>2, <1>3, FinalFailure

\* What becomes of a row: nothing brings a job back to its upload, let alone
\* one that has ended, and only what is pending or uploaded gets pending.
RowMove(old, new) ==
  /\ new \in Row
  /\ Past(old) => Past(new)
  /\ old.status \in {"done", "failed", "deleted"}
       => new.status \in {old.status, "deleted"}
  /\ Pending(new) => Pending(old) \/ Uploading(old)

\* The statements on rows are such moves.
LEMMA RowMoves ==
  ASSUME NEW row \in Row
  PROVE  /\ RowMove(row, row)
         /\ row.status = "absent" => RowMove(row, CreateSet)
         /\ Uploading(row) => RowMove(row, MarkDownloadingSet(row))
         /\ Uploading(row) => RowMove(row, MarkQueuedSet(row))
         /\ Uploading(row) => RowMove(row, FailSet(row, FALSE))
         /\ CancelWhere(row) => RowMove(row, EndFailedSet(row))
         /\ AckWhere(row) => RowMove(row, AckSet(row))
         /\ Pending(row) => RowMove(row, [row EXCEPT !.status = "done"])
         /\ Terminal(row) => RowMove(row, DeletedRow)
         /\ ~ Pending(CreateSet) /\ ~ Pending(DeletedRow)
         /\ ~ Pending(MarkDownloadingSet(row)) /\ ~ Pending(FailSet(row, FALSE))
         /\ ~ Pending(EndFailedSet(row)) /\ ~ Pending([row EXCEPT !.status = "done"])
         /\ Pending(AckSet(row)) => Pending(row)
<1>1. /\ AbsentRow \in Row /\ CreateSet \in Row /\ DeletedRow \in Row
      /\ MarkDownloadingSet(row) \in Row /\ MarkQueuedSet(row) \in Row
      /\ EndFailedSet(row) \in Row /\ FailSet(row, FALSE) \in Row
      /\ AckSet(row) \in Row /\ [row EXCEPT !.status = "done"] \in Row
  BY UploadRows
<1>2. CreateSet.status = "accepted" /\ DeletedRow.status = "deleted"
  BY DEF CreateSet, AbsentRow, DeletedRow
<1>3. /\ MarkDownloadingSet(row).status = "downloading"
      /\ MarkQueuedSet(row).status = "queued"
      /\ AckSet(row).status = row.status
      /\ [row EXCEPT !.status = "done"].status = "done"
  BY DEF Row, MarkDownloadingSet, MarkQueuedSet, AckSet
<1>4. EndFailedSet(row).status = "failed" /\ FailSet(row, FALSE) = EndFailedSet(row)
  BY FinalFailure DEF Row, EndFailedSet
<1> QED
  BY <1>1, <1>2, <1>3, <1>4
     DEF RowMove, Past, Uploading, Pending, Terminal, Exists, CancelWhere, AckWhere

\* A step moves the rows so, and brings a job to its workers only through a
\* session that is about to queue it.
JobsMove ==
  /\ jobs' \in [Requests -> Row]
  /\ \A r \in Requests : RowMove(jobs[r], jobs'[r])
  /\ \A r \in Requests : Pending(jobs'[r]) =>
       Pending(jobs[r]) \/ \E u \in Sessions : At(u, "queue") /\ Req(u) = r

\* One row goes on, the others stay.
LEMMA OneRowMoves ==
  ASSUME jobs \in [Requests -> Row], NEW r \in Requests, NEW row,
         RowMove(jobs[r], row), jobs' = [jobs EXCEPT ![r] = row],
         \/ Pending(row) => Pending(jobs[r])
         \/ \E u \in Sessions : At(u, "queue") /\ Req(u) = r
  PROVE  JobsMove
BY RowMoves DEF JobsMove, RowMove

\* So is a step that leaves the rows alone.
LEMMA NoRowMoves ==
  ASSUME jobs \in [Requests -> Row], jobs' = jobs
  PROVE  JobsMove
BY RowMoves DEF JobsMove

\* The request of a session that is under way.
LEMMA Busy ==
  ASSUME session \in [Sessions -> Session], PartInv, NEW u \in Sessions, ~At(u, "idle")
  PROVE  Req(u) \in Requests
BY DEF Session, PartInv, PartShape, At, Req

\* Every step moves the rows so.
LEMMA JobsStep ==
  ASSUME TypeInv, PartInv, [Next]_vars
  PROVE  JobsMove
<1>. jobs \in [Requests -> Row] /\ session \in [Sessions -> Session]
  BY DEF TypeInv
<1>1. ASSUME NEW u \in Sessions, Lookup(u)
      PROVE  JobsMove
  BY <1>1, NoRowMoves DEF Lookup
<1>2. ASSUME NEW u \in Sessions, Create(u)
      PROVE  JobsMove
  <2>1. Req(u) \in Requests
    BY <1>2, Busy DEF Create, At
  <2>2. CASE jobs[Req(u)].status = "absent"
    <3>1. RowMove(jobs[Req(u)], CreateSet) /\ ~ Pending(CreateSet)
      BY <2>1, <2>2, RowMoves
    <3>2. jobs' = [jobs EXCEPT ![Req(u)] = CreateSet]
      BY <1>2, <2>2 DEF Create
    <3> QED
      BY <2>1, <3>1, <3>2, OneRowMoves
  <2> QED
    BY <1>2, <2>2, NoRowMoves DEF Create
<1>3. ASSUME NEW u \in Sessions, MarkDownloading(u)
      PROVE  JobsMove
  <2>1. Req(u) \in Requests
    BY <1>3, Busy DEF MarkDownloading, At
  <2>2. CASE Uploading(jobs[Req(u)])
    <3>1. RowMove(jobs[Req(u)], MarkDownloadingSet(jobs[Req(u)]))
      BY <2>1, <2>2, RowMoves
    <3>2. jobs' = [jobs EXCEPT ![Req(u)] = MarkDownloadingSet(jobs[Req(u)])]
      BY <1>3, <2>2 DEF MarkDownloading
    <3> QED
      BY <1>3, <2>1, <3>1, <3>2, OneRowMoves, RowMoves DEF MarkDownloading
  <2> QED
    BY <1>3, <2>2, NoRowMoves DEF MarkDownloading
<1>4. ASSUME NEW u \in Sessions, ClearPartials(u)
      PROVE  JobsMove
  BY <1>4, NoRowMoves DEF ClearPartials
<1>5. ASSUME NEW u \in Sessions, Admit(u)
      PROVE  JobsMove
  BY <1>5, NoRowMoves DEF Admit
<1>6. ASSUME NEW u \in Sessions, Write(u)
      PROVE  JobsMove
  BY <1>6, NoRowMoves DEF Write
<1>7. ASSUME NEW u \in Sessions, StreamEnds(u)
      PROVE  JobsMove
  BY <1>7, NoRowMoves DEF StreamEnds
<1>8. ASSUME NEW u \in Sessions, Sync(u)
      PROVE  JobsMove
  BY <1>8, NoRowMoves DEF Sync
<1>9. ASSUME NEW u \in Sessions, Rename(u)
      PROVE  JobsMove
  BY <1>9, NoRowMoves DEF Rename
<1>10. ASSUME NEW u \in Sessions, SyncDirectory(u)
      PROVE  JobsMove
  BY <1>10, NoRowMoves DEF SyncDirectory
<1>11. ASSUME NEW u \in Sessions, MarkQueued(u)
      PROVE  JobsMove
  <2>1. Req(u) \in Requests
    BY <1>11, Busy DEF MarkQueued, At
  <2>2. CASE Uploading(jobs[Req(u)])
    <3>1. RowMove(jobs[Req(u)], MarkQueuedSet(jobs[Req(u)]))
      BY <2>1, <2>2, RowMoves
    <3>2. jobs' = [jobs EXCEPT ![Req(u)] = MarkQueuedSet(jobs[Req(u)])]
      BY <1>11, <2>2 DEF MarkQueued
    <3> QED
      BY <1>11, <2>1, <3>1, <3>2, OneRowMoves, RowMoves DEF MarkQueued
  <2> QED
    BY <1>11, <2>2, NoRowMoves DEF MarkQueued
<1>12. ASSUME NEW u \in Sessions, Undo(u)
      PROVE  JobsMove
  BY <1>12, NoRowMoves DEF Undo
<1>13. ASSUME NEW u \in Sessions, Settle(u)
      PROVE  JobsMove
  <2>1. Req(u) \in Requests
    BY <1>13, Busy DEF Settle, At
  <2>2. CASE At(u, "failed") /\ FailWhere(jobs[Req(u)], 0, FALSE)
    <3>1. Uploading(jobs[Req(u)])
      BY <2>2 DEF FailWhere
    <3>2. /\ RowMove(jobs[Req(u)], FailSet(jobs[Req(u)], FALSE))
          /\ ~ Pending(FailSet(jobs[Req(u)], FALSE))
      BY <2>1, <3>1, RowMoves
    <3>3. jobs' = [jobs EXCEPT ![Req(u)] = FailSet(jobs[Req(u)], FALSE)]
      BY <1>13, <2>2 DEF Settle
    <3> QED
      BY <2>1, <3>2, <3>3, OneRowMoves
  <2> QED
    BY <1>13, <2>2, NoRowMoves DEF Settle
<1>14. ASSUME NEW u \in Sessions, Release(u)
      PROVE  JobsMove
  BY <1>14, NoRowMoves DEF Release
<1>15. ASSUME NEW u \in Sessions, StreamCut(u)
      PROVE  JobsMove
  BY <1>15, NoRowMoves DEF StreamCut
<1>16. ASSUME NEW u \in Sessions, StepFails(u)
      PROVE  JobsMove
  BY <1>16, NoRowMoves DEF StepFails
<1>17. ASSUME NEW u \in Sessions, Crash(u)
      PROVE  JobsMove
  BY <1>17, NoRowMoves DEF Crash
<1>18. ASSUME NEW u \in Sessions, NEW r \in Requests, Reserve(u, r)
      PROVE  JobsMove
  BY <1>18, NoRowMoves DEF Reserve
<1>19. ASSUME NEW r \in Requests, LoseLock(r)
      PROVE  JobsMove
  BY <1>19, NoRowMoves DEF LoseLock
<1>20. ASSUME NEW r \in Requests, CancelJob(r)
      PROVE  JobsMove
  <2>1. /\ CancelWhere(jobs[r])
        /\ jobs' = [jobs EXCEPT ![r] = EndFailedSet(jobs[r])]
    BY <1>20 DEF CancelJob, Change
  <2>2. /\ RowMove(jobs[r], EndFailedSet(jobs[r]))
        /\ Pending(EndFailedSet(jobs[r])) => Pending(jobs[r])
    BY <2>1, RowMoves
  <2> QED
    BY <2>1, <2>2, OneRowMoves
<1>21. ASSUME NEW r \in Requests, AcknowledgeJob(r)
      PROVE  JobsMove
  <2>1. /\ AckWhere(jobs[r])
        /\ jobs' = [jobs EXCEPT ![r] = AckSet(jobs[r])]
    BY <1>21 DEF AcknowledgeJob, Change
  <2>2. /\ RowMove(jobs[r], AckSet(jobs[r]))
        /\ Pending(AckSet(jobs[r])) => Pending(jobs[r])
    BY <2>1, RowMoves
  <2> QED
    BY <2>1, <2>2, OneRowMoves
<1>22. ASSUME NEW r \in Requests, JobEnds(r)
      PROVE  JobsMove
  <2>1. /\ Pending(jobs[r])
        /\ jobs' = [jobs EXCEPT ![r] = [jobs[r] EXCEPT !.status = "done"]]
    BY <1>22 DEF JobEnds, Change
  <2>2. /\ RowMove(jobs[r], [jobs[r] EXCEPT !.status = "done"])
        /\ Pending([jobs[r] EXCEPT !.status = "done"]) => Pending(jobs[r])
    BY <2>1, RowMoves
  <2> QED
    BY <2>1, <2>2, OneRowMoves
<1>23. ASSUME NEW r \in Requests, CleanupRow(r)
      PROVE  JobsMove
  <2>1. /\ Terminal(jobs[r])
        /\ jobs' = [jobs EXCEPT ![r] = DeletedRow]
    BY <1>23 DEF CleanupRow, CleanupWhere
  <2>2. /\ RowMove(jobs[r], DeletedRow)
        /\ Pending(DeletedRow) => Pending(jobs[r])
    BY <2>1, RowMoves
  <2> QED
    BY <2>1, <2>2, OneRowMoves
<1>24. ASSUME PowerLoss
      PROVE  JobsMove
  BY <1>24, NoRowMoves DEF PowerLoss
<1>25. ASSUME CleanupInput
      PROVE  JobsMove
  BY <1>25, NoRowMoves DEF CleanupInput
<1>26. ASSUME CleanupPartials
      PROVE  JobsMove
  BY <1>26, NoRowMoves DEF CleanupPartials
<1>27. ASSUME CleanupDirectory
      PROVE  JobsMove
  BY <1>27, NoRowMoves DEF CleanupDirectory
<1>28. CASE UNCHANGED vars
  BY <1>28, NoRowMoves DEF vars
<1> QED
  BY <1>1, <1>2, <1>3, <1>4, <1>5, <1>6, <1>7, <1>8, <1>9, <1>10, <1>11,
     <1>12, <1>13, <1>14, <1>15, <1>16, <1>17, <1>18, <1>19, <1>20, <1>21,
     <1>22, <1>23, <1>24, <1>25, <1>26, <1>27, <1>28
     DEF Next, SessionStep, FaultStep

-----------------------------------------------------------------------------
(* The sessions and their partial files.                                   *)

\* A session that is over.
LEMMA EmptySession == NoUpload \in Session /\ PartShape(NoUpload)
<1>1. "idle" \in SessionStates /\ FALSE \in BOOLEAN
  BY DEF SessionStates
<1> QED
  BY <1>1, UploadAssumption DEF NoUpload, Session, PartShape

\* The writes into a partial file.
LEMMA FileWrites ==
  ASSUME NEW f \in File
  PROVE  /\ [f EXCEPT !.whole = TRUE] \in File
         /\ [f EXCEPT !.whole = TRUE].whole
         /\ [f EXCEPT !.synced = TRUE] \in File
         /\ [f EXCEPT !.synced = TRUE].synced
         /\ [f EXCEPT !.synced = TRUE].whole = f.whole
         /\ f.size \in Nat /\ f.size <= AudioBytes
<1>1. [f EXCEPT !.whole = TRUE] \in File /\ [f EXCEPT !.synced = TRUE] \in File
  <2>1. TRUE \in BOOLEAN
    OBVIOUS
  <2> QED
    BY <2>1 DEF File
<1>0. /\ [f EXCEPT !.whole = TRUE].whole /\ [f EXCEPT !.synced = TRUE].synced
      /\ [f EXCEPT !.synced = TRUE].whole = f.whole
  BY DEF File
<1>2. AudioBytes \in Nat
  BY UploadAssumption
<1>3. f.size \in 0 .. AudioBytes
  BY DEF File
<1>6. f.size \in Nat /\ f.size <= AudioBytes
  BY <1>2, <1>3
<1> QED
  BY <1>0, <1>1, <1>6

SessionsMove == session' \in [Sessions -> Session] /\ PartInv'

\* One session goes on, the others stay.
LEMMA OneSessionMoves ==
  ASSUME session \in [Sessions -> Session], PartInv, NEW u \in Sessions,
         session' = [session EXCEPT ![u] = session'[u]],
         session'[u] \in Session, PartShape(session'[u])
  PROVE  SessionsMove
BY DEF SessionsMove, PartInv

\* So do they where partial files lose their names and nothing else changes.
LEMMA UnlinkedSession ==
  ASSUME NEW s \in Session, PartShape(s)
  PROVE  /\ [s EXCEPT !.linked = FALSE] \in Session
         /\ PartShape([s EXCEPT !.linked = FALSE])
<1>1. FALSE \in BOOLEAN
  OBVIOUS
<1> QED
  BY <1>1 DEF Session, PartShape

\* Every step keeps the sessions in their type and their files where their
\* places say.
LEMMA SessionsStep ==
  ASSUME TypeInv, PartInv, [Next]_vars
  PROVE  SessionsMove
<1>. session \in [Sessions -> Session]
  BY DEF TypeInv
<1>1. ASSUME NEW u \in Sessions, Lookup(u)
      PROVE  SessionsMove
  <2>. DEFINE row == jobs[Req(u)]
              p == CASE ~Exists(row)   -> "create"
                     [] Uploading(row) -> "mark"
                     [] OTHER          -> "release"
              b == Exists(row) /\ ~Uploading(row)
  <2>1. p \in {"create", "mark", "release"} /\ b \in BOOLEAN
    OBVIOUS
  <2>2. session' = [session EXCEPT ![u] = [session[u] EXCEPT !.pc = p, !.ok = b]]
    <3>1. session' = [session EXCEPT ![u].pc = p, ![u].ok = b]
      BY <1>1, Zenon DEF Lookup
    <3>. HIDE DEF p, b
    <3> QED
      BY <3>1
  <2>3. session[u] \in Session /\ PartShape(session[u]) /\ session[u].pc = "lookup"
    BY <1>1 DEF PartInv, Lookup, At
  <2>. HIDE DEF p, b
  <2>4. p \in SessionStates
    BY <2>1 DEF SessionStates
  <2>5. session'[u] = [session[u] EXCEPT !.pc = p, !.ok = b]
    BY <2>2
  <2>6. session'[u] \in Session
    BY <2>1, <2>3, <2>4, <2>5 DEF Session
  <2>7. PartShape(session'[u])
    BY <2>1, <2>3, <2>5 DEF PartShape, Session
  <2> QED
    BY <2>2, <2>5, <2>6, <2>7, OneSessionMoves
<1>2. ASSUME NEW u \in Sessions, Create(u)
      PROVE  SessionsMove
  <2>1. PICK p \in {"mark", "release"} :
          session' = [session EXCEPT ![u] = [session[u] EXCEPT !.pc = p]]
    BY <1>2 DEF Create, Goto
  <2>2. session[u] \in Session /\ PartShape(session[u]) /\ session[u].pc = "create"
    BY <1>2 DEF PartInv, Create, At
  <2>3. p \in SessionStates
    BY <2>1 DEF SessionStates
  <2>4. session'[u] = [session[u] EXCEPT !.pc = p]
    BY <2>1
  <2>5. session'[u] \in Session
    BY <2>2, <2>3, <2>4 DEF Session
  <2>6. PartShape(session'[u])
    BY <2>1, <2>2, <2>4 DEF PartShape, Session
  <2> QED
    BY <2>1, <2>4, <2>5, <2>6, OneSessionMoves
<1>3. ASSUME NEW u \in Sessions, MarkDownloading(u)
      PROVE  SessionsMove
  <2>1. session' = [session EXCEPT ![u] = session'[u]]
    BY <1>3 DEF MarkDownloading, Goto
  <2>2. session'[u] \in Session
    BY <1>3 DEF MarkDownloading, Goto, At, Session, SessionStates, File
  <2>3. PartShape(session'[u])
    BY <1>3 DEF MarkDownloading, Goto, At, Session, File, PartInv, PartShape
  <2> QED
    BY <2>1, <2>2, <2>3, OneSessionMoves
<1>4. ASSUME NEW u \in Sessions, ClearPartials(u)
      PROVE  SessionsMove
  <2>1. session' = [PartialsRemoved(Req(u)) EXCEPT ![u].pc = "admit"]
    BY <1>4 DEF ClearPartials
  <2>2. session[u] \in Session /\ PartShape(session[u]) /\ session[u].pc = "clear"
    BY <1>4 DEF PartInv, ClearPartials, At
  <2>3. ASSUME NEW v \in Sessions
        PROVE  /\ PartialsRemoved(Req(u))[v] \in Session
               /\ PartShape(PartialsRemoved(Req(u))[v])
    BY UnlinkedSession DEF PartialsRemoved, PartInv
  <2>4. "admit" \in SessionStates
    BY DEF SessionStates
  <2>. DEFINE g == PartialsRemoved(Req(u))
              s == [g[u] EXCEPT !.pc = "admit"]
  <2>5. g[u] = [session[u] EXCEPT !.linked = FALSE] /\ g[u].pc = "clear"
    BY <2>2 DEF PartialsRemoved, Session
  <2>6. s \in Session
    BY <2>3, <2>4 DEF Session
  <2>7. PartShape(s)
    BY <2>2, <2>3, <2>5 DEF PartShape, Session
  <2>8. g \in [Sessions -> Session] /\ session' = [g EXCEPT ![u] = s]
    BY <2>1, <2>3 DEF PartialsRemoved
  <2>. HIDE DEF g, s
  <2> QED
    BY <2>3, <2>6, <2>7, <2>8 DEF SessionsMove, PartInv, g
<1>5. ASSUME NEW u \in Sessions, Admit(u)
      PROVE  SessionsMove
  <2>1. session' = [session EXCEPT ![u] = session'[u]]
    BY <1>5 DEF Admit, Goto
  <2>2. session'[u] \in Session
    BY <1>5 DEF Admit, Goto, At, Session, SessionStates, File
  <2>3. PartShape(session'[u])
    BY <1>5 DEF Admit, Goto, At, Session, File, PartInv, PartShape
  <2> QED
    BY <2>1, <2>2, <2>3, OneSessionMoves
<1>6. ASSUME NEW u \in Sessions, Write(u)
      PROVE  SessionsMove
  <2>1. session[u] \in Session /\ PartShape(session[u]) /\ session[u].pc = "stream"
    BY <1>6 DEF PartInv, Write, At
  <2>2. session[u].part \in File
    BY <2>1 DEF Session, PartShape
  <2>3. CASE \E p \in {"refuse", "undo"} :
             session' = [session EXCEPT ![u] = [session[u] EXCEPT !.pc = p]]
    <3>1. PICK p \in {"refuse", "undo"} :
            session' = [session EXCEPT ![u] = [session[u] EXCEPT !.pc = p]]
      BY <2>3
    <3>2. p \in SessionStates
      BY <3>1 DEF SessionStates
    <3>3. session'[u] = [session[u] EXCEPT !.pc = p]
      BY <3>1
    <3>4. session'[u] \in Session
      BY <2>1, <3>2, <3>3 DEF Session
    <3>5. PartShape(session'[u])
      BY <2>1, <3>1, <3>3 DEF PartShape, Session
    <3> QED
      BY <3>1, <3>3, <3>4, <3>5, OneSessionMoves
  <2>4. CASE session[u].part.size # AudioBytes /\ Fits
    <3>. DEFINE n == session[u].part.size + 1
                f == [session[u].part EXCEPT !.size = n]
    <3>1. session' = [session EXCEPT ![u] = [session[u] EXCEPT !.part = f]]
      BY <1>6, <2>4 DEF Write
    <3>2. f \in File
      <4>1. AudioBytes \in Nat /\ session[u].part.size \in 0 .. AudioBytes
        BY <2>2, UploadAssumption DEF File
      <4>2. n \in 0 .. AudioBytes
        BY <2>4, <4>1
      <4>. HIDE DEF n
      <4> QED
        BY <2>2, <4>2 DEF File
    <3>. HIDE DEF f
    <3>3. session'[u] = [session[u] EXCEPT !.part = f]
      BY <3>1
    <3>4. session'[u] \in Session
      BY <2>1, <3>2, <3>3 DEF Session
    <3>5. f # NoFile
      BY <3>2, NoFileAssumption
    <3>6. PartShape(session'[u])
      BY <2>1, <3>3, <3>5 DEF PartShape, Session
    <3> QED
      BY <3>1, <3>3, <3>4, <3>6, OneSessionMoves
  <2>5. CASE session[u].part.size = AudioBytes
    <3>1. session' = [session EXCEPT ![u] = [session[u] EXCEPT !.pc = "refuse"]]
      BY <1>6, <2>5 DEF Write, Goto
    <3> QED
      BY <2>3, <3>1
  <2>6. CASE session[u].part.size # AudioBytes /\ ~Fits
    <3>1. session' = [session EXCEPT ![u] = [session[u] EXCEPT !.pc = "undo"]]
      BY <1>6, <2>6 DEF Write, Goto
    <3> QED
      BY <2>3, <3>1
  <2> QED
    BY <2>4, <2>5, <2>6
<1>7. ASSUME NEW u \in Sessions, StreamEnds(u)
      PROVE  SessionsMove
  <2>1. session[u] \in Session /\ PartShape(session[u]) /\ session[u].pc = "stream"
    BY <1>7 DEF PartInv, StreamEnds, At
  <2>2. session[u].part \in File
    BY <2>1 DEF Session, PartShape
  <2>. DEFINE f == [session[u].part EXCEPT !.whole = TRUE]
  <2>3. session' = [session EXCEPT ![u] = [session[u] EXCEPT !.pc = "sync", !.part = f]]
    BY <1>7 DEF StreamEnds
  <2>4. f \in File /\ f.whole
    BY <2>2, FileWrites
  <2>. HIDE DEF f
  <2>5. session'[u] = [session[u] EXCEPT !.pc = "sync", !.part = f]
    BY <2>3
  <2>6. "sync" \in SessionStates /\ f # NoFile
    BY <2>4, NoFileAssumption DEF SessionStates
  <2>7. session'[u] \in Session
    BY <2>1, <2>4, <2>5, <2>6 DEF Session
  <2>8. PartShape(session'[u])
    BY <2>1, <2>4, <2>5, <2>6 DEF PartShape, Session
  <2> QED
    BY <2>3, <2>5, <2>7, <2>8, OneSessionMoves
<1>8. ASSUME NEW u \in Sessions, Sync(u)
      PROVE  SessionsMove
  <2>1. session[u] \in Session /\ PartShape(session[u]) /\ session[u].pc = "sync"
    BY <1>8 DEF PartInv, Sync, At
  <2>2. session[u].part \in File
    BY <2>1 DEF Session, PartShape
  <2>. DEFINE f == [session[u].part EXCEPT !.synced = TRUE]
  <2>3. session' = [session EXCEPT ![u] =
                      [session[u] EXCEPT !.pc = "rename", !.part = f, !.token = FALSE]]
    BY <1>8 DEF Sync
  <2>4. f \in File /\ f.synced /\ f.whole
    BY <2>1, <2>2, FileWrites DEF PartShape
  <2>. HIDE DEF f
  <2>5. session'[u] = [session[u] EXCEPT !.pc = "rename", !.part = f, !.token = FALSE]
    BY <2>3
  <2>6. "rename" \in SessionStates /\ f # NoFile /\ FALSE \in BOOLEAN
    BY <2>4, NoFileAssumption DEF SessionStates
  <2>7. session'[u] \in Session
    BY <2>1, <2>4, <2>5, <2>6 DEF Session
  <2>8. PartShape(session'[u])
    BY <2>1, <2>4, <2>5, <2>6 DEF PartShape, Session
  <2> QED
    BY <2>3, <2>5, <2>7, <2>8, OneSessionMoves
<1>9. ASSUME NEW u \in Sessions, Rename(u)
      PROVE  SessionsMove
  <2>1. session' = [session EXCEPT ![u] = session'[u]]
    BY <1>9 DEF Rename, Goto
  <2>2. session'[u] \in Session
    BY <1>9 DEF Rename, Goto, At, Session, SessionStates, File
  <2>3. PartShape(session'[u])
    BY <1>9 DEF Rename, Goto, At, Session, File, PartInv, PartShape
  <2> QED
    BY <2>1, <2>2, <2>3, OneSessionMoves
<1>10. ASSUME NEW u \in Sessions, SyncDirectory(u)
      PROVE  SessionsMove
  <2>1. session' = [session EXCEPT ![u] = session'[u]]
    BY <1>10 DEF SyncDirectory, Goto
  <2>2. session'[u] \in Session
    BY <1>10 DEF SyncDirectory, Goto, At, Session, SessionStates, File
  <2>3. PartShape(session'[u])
    BY <1>10 DEF SyncDirectory, Goto, At, Session, File, PartInv, PartShape
  <2> QED
    BY <2>1, <2>2, <2>3, OneSessionMoves
<1>11. ASSUME NEW u \in Sessions, MarkQueued(u)
      PROVE  SessionsMove
  <2>. DEFINE b == Uploading(jobs[Req(u)])
  <2>1. b \in BOOLEAN
    BY DEF Uploading
  <2>2. session' = [session EXCEPT ![u] = [session[u] EXCEPT !.pc = "release", !.ok = b]]
    BY <1>11 DEF MarkQueued
  <2>3. session[u] \in Session /\ PartShape(session[u]) /\ session[u].pc = "queue"
    BY <1>11 DEF PartInv, MarkQueued, At
  <2>. HIDE DEF b
  <2>4. "release" \in SessionStates
    BY DEF SessionStates
  <2>5. session'[u] = [session[u] EXCEPT !.pc = "release", !.ok = b]
    BY <2>2
  <2>6. session'[u] \in Session
    BY <2>1, <2>3, <2>4, <2>5 DEF Session
  <2>7. PartShape(session'[u])
    BY <2>1, <2>3, <2>5 DEF PartShape, Session
  <2> QED
    BY <2>2, <2>5, <2>6, <2>7, OneSessionMoves
<1>12. ASSUME NEW u \in Sessions, Undo(u)
      PROVE  SessionsMove
  <2>1. PICK p \in {"interrupted", "failed"} :
          session' = [session EXCEPT ![u] =
            [session[u] EXCEPT !.pc = p, !.part = NoFile, !.linked = FALSE,
                               !.token = FALSE]]
    BY <1>12 DEF Undo
  <2>2. session[u] \in Session /\ PartShape(session[u]) /\ session[u].pc # "idle"
    BY <1>12 DEF PartInv, Undo
  <2>3. p \in SessionStates /\ FALSE \in BOOLEAN /\ NoFile \in File \cup {NoFile}
    BY <2>1 DEF SessionStates
  <2>4. session'[u] = [session[u] EXCEPT !.pc = p, !.part = NoFile, !.linked = FALSE,
                                         !.token = FALSE]
    BY <2>1
  <2>5. session'[u] \in Session
    BY <2>2, <2>3, <2>4 DEF Session
  <2>6. PartShape(session'[u])
    BY <2>1, <2>2, <2>4 DEF PartShape, Session
  <2> QED
    BY <2>1, <2>4, <2>5, <2>6, OneSessionMoves
<1>13. ASSUME NEW u \in Sessions, Settle(u)
      PROVE  SessionsMove
  <2>1. session' = [session EXCEPT ![u] = session'[u]]
    BY <1>13 DEF Settle, Goto
  <2>2. session'[u] \in Session
    BY <1>13 DEF Settle, Goto, At, Session, SessionStates, File
  <2>3. PartShape(session'[u])
    BY <1>13 DEF Settle, Goto, At, Session, File, PartInv, PartShape
  <2> QED
    BY <2>1, <2>2, <2>3, OneSessionMoves
<1>14. ASSUME NEW u \in Sessions, Release(u)
      PROVE  SessionsMove
  <2>1. session' = [session EXCEPT ![u] = NoUpload]
    BY <1>14 DEF Release
  <2> QED
    BY <2>1, EmptySession, OneSessionMoves
<1>15. ASSUME NEW u \in Sessions, StreamCut(u)
      PROVE  SessionsMove
  <2>1. session' = [session EXCEPT ![u] = session'[u]]
    BY <1>15 DEF StreamCut, Goto
  <2>2. session'[u] \in Session
    BY <1>15 DEF StreamCut, Goto, At, Session, SessionStates, File
  <2>3. PartShape(session'[u])
    BY <1>15 DEF StreamCut, Goto, At, Session, File, PartInv, PartShape
  <2> QED
    BY <2>1, <2>2, <2>3, OneSessionMoves
<1>16. ASSUME NEW u \in Sessions, StepFails(u)
      PROVE  SessionsMove
  <2>1. session' = [session EXCEPT ![u] = session'[u]]
    BY <1>16 DEF StepFails, Goto
  <2>2. session'[u] \in Session
    BY <1>16 DEF StepFails, Goto, At, Session, SessionStates, File
  <2>3. PartShape(session'[u])
    BY <1>16 DEF StepFails, Goto, At, Session, File, PartInv, PartShape
  <2> QED
    BY <2>1, <2>2, <2>3, OneSessionMoves
<1>17. ASSUME NEW u \in Sessions, Crash(u)
      PROVE  SessionsMove
  <2>1. session' = [session EXCEPT ![u] = NoUpload]
    BY <1>17 DEF Crash, Killed
  <2> QED
    BY <2>1, EmptySession, OneSessionMoves
<1>18. ASSUME NEW u \in Sessions, NEW r \in Requests, Reserve(u, r)
      PROVE  SessionsMove
  <2>. DEFINE s == [NoUpload EXCEPT !.pc = "lookup", !.req = r]
  <2>1. session' = [session EXCEPT ![u] = s]
    BY <1>18 DEF Reserve
  <2>2. s.pc = "lookup" /\ s.req = r /\ ~s.linked /\ ~s.token
    BY DEF NoUpload
  <2>3. s \in Session
    <3>1. "lookup" \in SessionStates
      BY DEF SessionStates
    <3> QED
      BY <3>1, EmptySession DEF Session
  <2>4. PartShape(s)
    BY <2>2, UploadAssumption DEF PartShape
  <2>. HIDE DEF s
  <2>5. session'[u] = s
    BY <2>1
  <2> QED
    BY <2>1, <2>3, <2>4, <2>5, OneSessionMoves
<1>19. ASSUME NEW r \in Requests, LoseLock(r)
      PROVE  SessionsMove
  BY <1>19 DEF LoseLock, SessionsMove, PartInv
<1>20. ASSUME NEW r \in Requests, CancelJob(r)
      PROVE  SessionsMove
  BY <1>20 DEF CancelJob, Change, SessionsMove, PartInv
<1>21. ASSUME NEW r \in Requests, AcknowledgeJob(r)
      PROVE  SessionsMove
  BY <1>21 DEF AcknowledgeJob, Change, SessionsMove, PartInv
<1>22. ASSUME NEW r \in Requests, JobEnds(r)
      PROVE  SessionsMove
  BY <1>22 DEF JobEnds, Change, SessionsMove, PartInv
<1>23. ASSUME NEW r \in Requests, CleanupRow(r)
      PROVE  SessionsMove
  BY <1>23 DEF CleanupRow, SessionsMove, PartInv
<1>24. ASSUME PowerLoss
      PROVE  SessionsMove
  <2>1. session' = [u \in Sessions |-> NoUpload]
    BY <1>24 DEF PowerLoss, Killed
  <2> QED
    BY <2>1, EmptySession DEF SessionsMove, PartInv
<1>25. ASSUME CleanupInput
      PROVE  SessionsMove
  BY <1>25 DEF CleanupInput, SessionsMove, PartInv
<1>26. ASSUME CleanupPartials
      PROVE  SessionsMove
  <2>1. session' = PartialsRemoved(cleaner.req)
    BY <1>26 DEF CleanupPartials
  <2> QED
    BY <2>1, UnlinkedSession DEF PartialsRemoved, SessionsMove, PartInv
<1>27. ASSUME CleanupDirectory
      PROVE  SessionsMove
  BY <1>27 DEF CleanupDirectory, SessionsMove, PartInv
<1>28. CASE UNCHANGED vars
  BY <1>28 DEF vars, SessionsMove, PartInv
<1> QED
  BY <1>1, <1>2, <1>3, <1>4, <1>5, <1>6, <1>7, <1>8, <1>9, <1>10, <1>11,
     <1>12, <1>13, <1>14, <1>15, <1>16, <1>17, <1>18, <1>19, <1>20, <1>21,
     <1>22, <1>23, <1>24, <1>25, <1>26, <1>27, <1>28
     DEF Next, SessionStep, FaultStep

-----------------------------------------------------------------------------
(* Types.                                                                  *)

\* TypeInv, but for the rows and the sessions.
RestTyped ==
  /\ lock \in [Requests -> Sessions \cup {NoSession}]
  /\ input \in [Requests -> File \cup {NoFile}]
  /\ entered \subseteq Requests /\ dirs \subseteq Requests
  /\ orphans \in [Requests -> Nat]
  /\ stale \in Nat
  /\ cleaner \in [pc  : {"idle", "input", "partials", "rmdir"},
                  req : Requests \cup {NoRequest}]
  /\ answered \subseteq Requests
  /\ faults \in 0 .. MaxFaults

\* The bytes a session has in a named partial file.
Written(u) == IF session[u].linked THEN session[u].part.size ELSE 0

\* They are a number.
LEMMA WrittenType ==
  ASSUME session \in [Sessions -> Session], PartInv, NEW u \in Sessions
  PROVE  Written(u) \in Nat
<1>1. CASE session[u].linked
  <2>1. session[u].part \in File
    BY <1>1 DEF PartInv, PartShape, Session
  <2> QED
    BY <1>1, <2>1, FileWrites DEF Written
<1>2. CASE ~session[u].linked
  BY <1>2 DEF Written
<1> QED
  BY <1>1, <1>2

\* What dead sessions leave behind is in its type.
LEMMA KilledType ==
  ASSUME TypeInv, PartInv, NEW dead, dead \subseteq Sessions, Killed(dead)
  PROVE  /\ lock' \in [Requests -> Sessions \cup {NoSession}]
         /\ orphans' \in [Requests -> Nat]
         /\ stale' \in Nat
<1>1. IsFiniteSet(dead) /\ IsFiniteSet(dead \cap Active)
  BY UploadAssumption, FS_Subset
<1>2. lock' \in [Requests -> Sessions \cup {NoSession}]
  BY DEF Killed, TypeInv
<1>3. ASSUME NEW r \in Requests
      PROVE  orphans'[r] \in Nat
  <2>. DEFINE f == [u \in dead |-> IF session[u].linked /\ Req(u) = r
                                     THEN session[u].part.size ELSE 0]
  <2>1. \A u \in dead : f[u] \in Nat
    <3>1. \A u \in dead : Written(u) \in Nat
      BY WrittenType DEF TypeInv
    <3> QED
      BY <3>1 DEF Written
  <2>2. orphans'[r] = orphans[r] + SumFunctionOnSet(f, dead)
    BY DEF Killed, SumFunction
  <2>. HIDE DEF f
  <2>3. SumFunctionOnSet(f, dead) \in Nat
    BY ONLY <1>1, <2>1, SumNat
  <2>4. orphans[r] \in Nat
    BY DEF TypeInv
  <2> QED
    BY <2>2, <2>3, <2>4
<1>4. orphans' \in [Requests -> Nat]
  BY <1>3 DEF Killed
<1>5. stale' \in Nat
  <2>1. Cardinality(dead \cap Active) \in Nat
    BY <1>1, FS_CardinalityType
  <2>2. stale' = stale + Cardinality(dead \cap Active)
    BY DEF Killed
  <2> QED
    BY <2>1, <2>2 DEF TypeInv
<1> QED
  BY <1>2, <1>4, <1>5

\* A fault is counted within its bound.
LEMMA FaultCounted == ASSUME TypeInv, Fault PROVE faults' \in 0 .. MaxFaults
BY UploadAssumption DEF TypeInv, Fault

\* Every step keeps the other variables in their types.
LEMMA RestStep ==
  ASSUME TypeInv, PartInv, [Next]_vars
  PROVE  RestTyped'
<1>. session \in [Sessions -> Session]
  BY DEF TypeInv
<1>1. ASSUME NEW u \in Sessions, Lookup(u)
      PROVE  RestTyped'
  BY <1>1 DEF Lookup, fileVars, TypeInv, RestTyped
<1>2. ASSUME NEW u \in Sessions, Create(u)
      PROVE  RestTyped'
  <2>1. Req(u) \in Requests
    BY <1>2, Busy DEF Create, At
  <2> QED
    BY <1>2, <2>1 DEF Create, fileVars, TypeInv, RestTyped
<1>3. ASSUME NEW u \in Sessions, MarkDownloading(u)
      PROVE  RestTyped'
  BY <1>3 DEF MarkDownloading, fileVars, TypeInv, RestTyped
<1>4. ASSUME NEW u \in Sessions, ClearPartials(u)
      PROVE  RestTyped'
  <2>1. Req(u) \in Requests
    BY <1>4, Busy DEF ClearPartials, At
  <2> QED
    BY <1>4, <2>1 DEF ClearPartials, fileVars, TypeInv, RestTyped
<1>5. ASSUME NEW u \in Sessions, Admit(u)
      PROVE  RestTyped'
  BY <1>5 DEF Admit, fileVars, TypeInv, RestTyped
<1>6. ASSUME NEW u \in Sessions, Write(u)
      PROVE  RestTyped'
  BY <1>6 DEF Write, fileVars, TypeInv, RestTyped
<1>7. ASSUME NEW u \in Sessions, StreamEnds(u)
      PROVE  RestTyped'
  BY <1>7 DEF StreamEnds, fileVars, TypeInv, RestTyped
<1>8. ASSUME NEW u \in Sessions, Sync(u)
      PROVE  RestTyped'
  BY <1>8 DEF Sync, fileVars, TypeInv, RestTyped
<1>9. ASSUME NEW u \in Sessions, Rename(u)
      PROVE  RestTyped'
  <2>1. Req(u) \in Requests
    BY <1>9, Busy DEF Rename, At
  <2>2. session[u].part \in File \cup {NoFile}
    BY DEF Session
  <2>3. input' \in [Requests -> File \cup {NoFile}]
    BY <1>9, <2>1, <2>2 DEF Rename, TypeInv
  <2> QED
    BY <1>9, <2>3 DEF Rename, TypeInv, RestTyped
<1>10. ASSUME NEW u \in Sessions, SyncDirectory(u)
      PROVE  RestTyped'
  <2>1. Req(u) \in Requests
    BY <1>10, Busy DEF SyncDirectory, At
  <2> QED
    BY <1>10, <2>1 DEF SyncDirectory, fileVars, TypeInv, RestTyped
<1>11. ASSUME NEW u \in Sessions, MarkQueued(u)
      PROVE  RestTyped'
  BY <1>11 DEF MarkQueued, fileVars, TypeInv, RestTyped
<1>12. ASSUME NEW u \in Sessions, Undo(u)
      PROVE  RestTyped'
  BY <1>12 DEF Undo, fileVars, TypeInv, RestTyped
<1>13. ASSUME NEW u \in Sessions, Settle(u)
      PROVE  RestTyped'
  BY <1>13 DEF Settle, fileVars, TypeInv, RestTyped
<1>14. ASSUME NEW u \in Sessions, Release(u)
      PROVE  RestTyped'
  <2>1. Req(u) \in Requests
    BY <1>14, Busy DEF Release, At
  <2> QED
    BY <1>14, <2>1 DEF Release, fileVars, TypeInv, RestTyped
<1>15. ASSUME NEW u \in Sessions, StreamCut(u)
      PROVE  RestTyped'
  BY <1>15, FaultCounted DEF StreamCut, fileVars, TypeInv, RestTyped
<1>16. ASSUME NEW u \in Sessions, StepFails(u)
      PROVE  RestTyped'
  BY <1>16, FaultCounted DEF StepFails, fileVars, TypeInv, RestTyped
<1>17. ASSUME NEW u \in Sessions, Crash(u)
      PROVE  RestTyped'
  BY <1>17, FaultCounted, KilledType DEF Crash, TypeInv, RestTyped
<1>18. ASSUME NEW u \in Sessions, NEW r \in Requests, Reserve(u, r)
      PROVE  RestTyped'
  BY <1>18 DEF Reserve, fileVars, TypeInv, RestTyped
<1>19. ASSUME NEW r \in Requests, LoseLock(r)
      PROVE  RestTyped'
  BY <1>19, FaultCounted DEF LoseLock, fileVars, TypeInv, RestTyped
<1>20. ASSUME NEW r \in Requests, CancelJob(r)
      PROVE  RestTyped'
  BY <1>20 DEF CancelJob, Change, fileVars, TypeInv, RestTyped
<1>21. ASSUME NEW r \in Requests, AcknowledgeJob(r)
      PROVE  RestTyped'
  BY <1>21 DEF AcknowledgeJob, Change, fileVars, TypeInv, RestTyped
<1>22. ASSUME NEW r \in Requests, JobEnds(r)
      PROVE  RestTyped'
  BY <1>22 DEF JobEnds, Change, fileVars, TypeInv, RestTyped
<1>23. ASSUME NEW r \in Requests, CleanupRow(r)
      PROVE  RestTyped'
  BY <1>23 DEF CleanupRow, fileVars, TypeInv, RestTyped
<1>24. ASSUME PowerLoss
      PROVE  RestTyped'
  <2>1. input' \in [Requests -> File \cup {NoFile}]
    BY <1>24 DEF PowerLoss
  <2> QED
    BY <1>24, <2>1, FaultCounted, KilledType DEF PowerLoss, TypeInv, RestTyped
<1>25. ASSUME CleanupInput
      PROVE  RestTyped'
  BY <1>25 DEF CleanupInput, fileVars, TypeInv, RestTyped
<1>26. ASSUME CleanupPartials
      PROVE  RestTyped'
  BY <1>26 DEF CleanupPartials, fileVars, TypeInv, RestTyped
<1>27. ASSUME CleanupDirectory
      PROVE  RestTyped'
  BY <1>27 DEF CleanupDirectory, fileVars, TypeInv, RestTyped
<1>28. CASE UNCHANGED vars
  BY <1>28 DEF vars, fileVars, TypeInv, RestTyped
<1> QED
  BY <1>1, <1>2, <1>3, <1>4, <1>5, <1>6, <1>7, <1>8, <1>9, <1>10, <1>11,
     <1>12, <1>13, <1>14, <1>15, <1>16, <1>17, <1>18, <1>19, <1>20, <1>21,
     <1>22, <1>23, <1>24, <1>25, <1>26, <1>27, <1>28
     DEF Next, SessionStep, FaultStep

\* Every step keeps the variables and the partial files in their types.
LEMMA TypeStep ==
  ASSUME TypeInv, PartInv, [Next]_vars
  PROVE  TypeInv' /\ PartInv'
<1>1. jobs' \in [Requests -> Row]
  BY JobsStep DEF JobsMove
<1>2. session' \in [Sessions -> Session] /\ PartInv'
  BY SessionsStep DEF SessionsMove
<1>3. RestTyped'
  BY RestStep
<1> QED
  BY <1>1, <1>2, <1>3 DEF RestTyped, TypeInv

-----------------------------------------------------------------------------
(* Inputs.                                                                 *)

\* A step completes what it enters, loses an input only with its job or, in a
\* power loss, before its directory was synced, and goes on to rely on what is
\* there.
InputsMove ==
  /\ \A r \in Requests : input'[r] # NoFile => input'[r].whole /\ input'[r].synced
  /\ \A r \in Requests : input[r] # NoFile /\ input'[r] = NoFile
       => \/ Deleted(r)
          \/ r \notin entered /\ \A u \in Sessions : session'[u].pc # "dirsync"
  /\ entered \subseteq entered'
  /\ \A r \in entered' : r \in entered \/ input'[r] # NoFile
  /\ \A u \in Sessions : session'[u].pc = "dirsync" =>
       \/ At(u, "dirsync") /\ session'[u].req = Req(u)
       \/ input'[session'[u].req] # NoFile
  /\ \A u \in Sessions : session'[u].pc = "queue" =>
       \/ At(u, "queue") /\ session'[u].req = Req(u)
       \/ session'[u].req \in entered'
       \/ Deleted(session'[u].req)
  /\ cleaner'.pc # "idle" =>
       \/ cleaner.pc # "idle" /\ cleaner'.req = cleaner.req
       \/ cleaner'.req \in Requests /\ jobs'[cleaner'.req].status = "deleted"

\* Where no file changes, the sessions and the cleanup worker count.
LEMMA InputsStay ==
  ASSUME InputInv, input' = input, entered' = entered,
         \A u \in Sessions : session'[u].pc \in {"dirsync", "queue"} =>
           session'[u].pc = session[u].pc /\ session'[u].req = session[u].req,
         cleaner'.pc # "idle" => cleaner.pc # "idle" /\ cleaner'.req = cleaner.req
  PROVE  InputsMove
BY DEF InputInv, InputsMove, At, Req

\* Every step is such a move of the inputs.
LEMMA InputsStep ==
  ASSUME TypeInv, PartInv, InputInv, [Next]_vars
  PROVE  InputsMove
<1>. /\ session \in [Sessions -> Session] /\ input \in [Requests -> File \cup {NoFile}]
     /\ jobs \in [Requests -> Row]
  BY DEF TypeInv
<1>1. ASSUME NEW u \in Sessions, Lookup(u)
      PROVE  InputsMove
  <2>1. /\ input' = input /\ entered' = entered
        /\ cleaner'.pc # "idle" => cleaner.pc # "idle" /\ cleaner'.req = cleaner.req
    BY <1>1 DEF Lookup, fileVars
  <2>2. \A v \in Sessions : session'[v].pc \in {"dirsync", "queue"} =>
          session'[v].pc = session[v].pc /\ session'[v].req = session[v].req
    BY <1>1 DEF Lookup, At, Session
  <2> QED
    BY <2>1, <2>2, InputsStay
<1>2. ASSUME NEW u \in Sessions, Create(u)
      PROVE  InputsMove
  <2>1. /\ input' = input /\ entered' = entered
        /\ cleaner'.pc # "idle" => cleaner.pc # "idle" /\ cleaner'.req = cleaner.req
    BY <1>2 DEF Create, fileVars
  <2>2. \A v \in Sessions : session'[v].pc \in {"dirsync", "queue"} =>
          session'[v].pc = session[v].pc /\ session'[v].req = session[v].req
    BY <1>2 DEF Create, At, Goto, Session
  <2> QED
    BY <2>1, <2>2, InputsStay
<1>3. ASSUME NEW u \in Sessions, MarkDownloading(u)
      PROVE  InputsMove
  <2>1. /\ input' = input /\ entered' = entered
        /\ cleaner'.pc # "idle" => cleaner.pc # "idle" /\ cleaner'.req = cleaner.req
    BY <1>3 DEF MarkDownloading, fileVars
  <2>2. \A v \in Sessions : session'[v].pc \in {"dirsync", "queue"} =>
          session'[v].pc = session[v].pc /\ session'[v].req = session[v].req
    BY <1>3 DEF MarkDownloading, At, Goto, Session
  <2> QED
    BY <2>1, <2>2, InputsStay
<1>4. ASSUME NEW u \in Sessions, ClearPartials(u)
      PROVE  InputsMove
  <2>1. /\ input' = input /\ entered' = entered
        /\ cleaner'.pc # "idle" => cleaner.pc # "idle" /\ cleaner'.req = cleaner.req
    BY <1>4 DEF ClearPartials, fileVars
  <2>2. \A v \in Sessions : session'[v].pc \in {"dirsync", "queue"} =>
          session'[v].pc = session[v].pc /\ session'[v].req = session[v].req
    BY <1>4 DEF ClearPartials, At, PartialsRemoved, Session
  <2> QED
    BY <2>1, <2>2, InputsStay
<1>5. ASSUME NEW u \in Sessions, Admit(u)
      PROVE  InputsMove
  <2>1. /\ input' = input /\ entered' = entered
        /\ cleaner'.pc # "idle" => cleaner.pc # "idle" /\ cleaner'.req = cleaner.req
    BY <1>5 DEF Admit, fileVars
  <2>2. \A v \in Sessions : session'[v].pc \in {"dirsync", "queue"} =>
          session'[v].pc = session[v].pc /\ session'[v].req = session[v].req
    BY <1>5 DEF Admit, At, Goto, Session
  <2> QED
    BY <2>1, <2>2, InputsStay
<1>6. ASSUME NEW u \in Sessions, Write(u)
      PROVE  InputsMove
  <2>1. /\ input' = input /\ entered' = entered
        /\ cleaner'.pc # "idle" => cleaner.pc # "idle" /\ cleaner'.req = cleaner.req
    BY <1>6 DEF Write, fileVars
  <2>2. \A v \in Sessions : session'[v].pc \in {"dirsync", "queue"} =>
          session'[v].pc = session[v].pc /\ session'[v].req = session[v].req
    BY <1>6 DEF Write, At, Goto, Session
  <2> QED
    BY <2>1, <2>2, InputsStay
<1>7. ASSUME NEW u \in Sessions, StreamEnds(u)
      PROVE  InputsMove
  <2>1. /\ input' = input /\ entered' = entered
        /\ cleaner'.pc # "idle" => cleaner.pc # "idle" /\ cleaner'.req = cleaner.req
    BY <1>7 DEF StreamEnds, fileVars
  <2>2. \A v \in Sessions : session'[v].pc \in {"dirsync", "queue"} =>
          session'[v].pc = session[v].pc /\ session'[v].req = session[v].req
    BY <1>7 DEF StreamEnds, At, Session
  <2> QED
    BY <2>1, <2>2, InputsStay
<1>8. ASSUME NEW u \in Sessions, Sync(u)
      PROVE  InputsMove
  <2>1. /\ input' = input /\ entered' = entered
        /\ cleaner'.pc # "idle" => cleaner.pc # "idle" /\ cleaner'.req = cleaner.req
    BY <1>8 DEF Sync, fileVars
  <2>2. \A v \in Sessions : session'[v].pc \in {"dirsync", "queue"} =>
          session'[v].pc = session[v].pc /\ session'[v].req = session[v].req
    BY <1>8 DEF Sync, At, Session
  <2> QED
    BY <2>1, <2>2, InputsStay
<1>9. ASSUME NEW u \in Sessions, Rename(u)
      PROVE  InputsMove
  <2>1. Req(u) \in Requests /\ session[u].pc = "rename"
    BY <1>9, Busy DEF Rename, At
  <2>2. CASE ~session[u].linked
    <3>1. /\ input' = input /\ entered' = entered /\ cleaner' = cleaner
          /\ session' = [session EXCEPT ![u].pc = "undo"]
      BY <1>9, <2>2 DEF Rename, Goto
    <3> QED
      BY <3>1, InputsStay DEF Session
  <2>3. CASE session[u].linked
    <3>. DEFINE file == session[u].part
    <3>1. file # NoFile /\ file.whole /\ file.synced
      BY <2>1 DEF PartInv, PartShape
    <3>2. /\ input' = [input EXCEPT ![Req(u)] = file]
          /\ entered' = entered /\ cleaner' = cleaner
          /\ session' = [session EXCEPT ![u] = [session[u] EXCEPT
               !.pc = "dirsync", !.part = NoFile, !.linked = FALSE]]
      BY <1>9, <2>3 DEF Rename
    <3>. HIDE DEF file
    <3>3. \A v \in Sessions : session'[v].req = Req(v)
            /\ (v # u => session'[v].pc = session[v].pc) /\ session'[u].pc = "dirsync"
      BY <3>2 DEF Session, Req
    <3>4. input'[Req(u)] = file /\ \A r \in Requests \ {Req(u)} : input'[r] = input[r]
      BY <2>1, <3>2
    <3> QED
      BY <2>1, <3>1, <3>2, <3>3, <3>4 DEF InputInv, InputsMove, At
  <2> QED
    BY <2>2, <2>3
<1>10. ASSUME NEW u \in Sessions, SyncDirectory(u)
      PROVE  InputsMove
  <2>1. Req(u) \in Requests /\ session[u].pc = "dirsync"
    BY <1>10, Busy DEF SyncDirectory, At
  <2>2. /\ input' = input /\ cleaner' = cleaner
        /\ entered' = IF input[Req(u)] = NoFile THEN entered ELSE entered \cup {Req(u)}
        /\ \E pc \in {"queue", "undo"} :
             session' = [session EXCEPT ![u] = [session[u] EXCEPT !.pc = pc]]
    BY <1>10 DEF SyncDirectory, Goto
  <2>3. \A v \in Sessions : session'[v].req = Req(v)
          /\ (v # u => session'[v].pc = session[v].pc)
          /\ session'[u].pc \in {"queue", "undo"}
    BY <2>2 DEF Session, Req
  <2>4. input[Req(u)] # NoFile \/ Deleted(Req(u))
    BY <2>1 DEF InputInv, At
  <2> QED
    BY <2>1, <2>2, <2>3, <2>4 DEF InputInv, InputsMove, At
<1>11. ASSUME NEW u \in Sessions, MarkQueued(u)
      PROVE  InputsMove
  <2>1. /\ input' = input /\ entered' = entered
        /\ cleaner'.pc # "idle" => cleaner.pc # "idle" /\ cleaner'.req = cleaner.req
    BY <1>11 DEF MarkQueued, fileVars
  <2>2. \A v \in Sessions : session'[v].pc \in {"dirsync", "queue"} =>
          session'[v].pc = session[v].pc /\ session'[v].req = session[v].req
    BY <1>11 DEF MarkQueued, At, Session
  <2> QED
    BY <2>1, <2>2, InputsStay
<1>12. ASSUME NEW u \in Sessions, Undo(u)
      PROVE  InputsMove
  <2>1. /\ input' = input /\ entered' = entered
        /\ cleaner'.pc # "idle" => cleaner.pc # "idle" /\ cleaner'.req = cleaner.req
    BY <1>12 DEF Undo, fileVars
  <2>2. \A v \in Sessions : session'[v].pc \in {"dirsync", "queue"} =>
          session'[v].pc = session[v].pc /\ session'[v].req = session[v].req
    BY <1>12 DEF Undo, At, Session
  <2> QED
    BY <2>1, <2>2, InputsStay
<1>13. ASSUME NEW u \in Sessions, Settle(u)
      PROVE  InputsMove
  <2>1. /\ input' = input /\ entered' = entered
        /\ cleaner'.pc # "idle" => cleaner.pc # "idle" /\ cleaner'.req = cleaner.req
    BY <1>13 DEF Settle, fileVars
  <2>2. \A v \in Sessions : session'[v].pc \in {"dirsync", "queue"} =>
          session'[v].pc = session[v].pc /\ session'[v].req = session[v].req
    BY <1>13 DEF Settle, At, Goto, Session
  <2> QED
    BY <2>1, <2>2, InputsStay
<1>14. ASSUME NEW u \in Sessions, Release(u)
      PROVE  InputsMove
  <2>1. /\ input' = input /\ entered' = entered
        /\ cleaner'.pc # "idle" => cleaner.pc # "idle" /\ cleaner'.req = cleaner.req
    BY <1>14 DEF Release, fileVars
  <2>2. \A v \in Sessions : session'[v].pc \in {"dirsync", "queue"} =>
          session'[v].pc = session[v].pc /\ session'[v].req = session[v].req
    BY <1>14 DEF Release, At, NoUpload, Session
  <2> QED
    BY <2>1, <2>2, InputsStay
<1>15. ASSUME NEW u \in Sessions, StreamCut(u)
      PROVE  InputsMove
  <2>1. /\ input' = input /\ entered' = entered
        /\ cleaner'.pc # "idle" => cleaner.pc # "idle" /\ cleaner'.req = cleaner.req
    BY <1>15 DEF StreamCut, fileVars
  <2>2. \A v \in Sessions : session'[v].pc \in {"dirsync", "queue"} =>
          session'[v].pc = session[v].pc /\ session'[v].req = session[v].req
    BY <1>15 DEF StreamCut, At, Goto, Session
  <2> QED
    BY <2>1, <2>2, InputsStay
<1>16. ASSUME NEW u \in Sessions, StepFails(u)
      PROVE  InputsMove
  <2>1. /\ input' = input /\ entered' = entered
        /\ cleaner'.pc # "idle" => cleaner.pc # "idle" /\ cleaner'.req = cleaner.req
    BY <1>16 DEF StepFails, fileVars
  <2>2. \A v \in Sessions : session'[v].pc \in {"dirsync", "queue"} =>
          session'[v].pc = session[v].pc /\ session'[v].req = session[v].req
    BY <1>16 DEF StepFails, At, Goto, Session
  <2> QED
    BY <2>1, <2>2, InputsStay
<1>17. ASSUME NEW u \in Sessions, Crash(u)
      PROVE  InputsMove
  <2>1. /\ input' = input /\ entered' = entered
        /\ cleaner'.pc # "idle" => cleaner.pc # "idle" /\ cleaner'.req = cleaner.req
    BY <1>17 DEF Crash, Killed, fileVars
  <2>2. \A v \in Sessions : session'[v].pc \in {"dirsync", "queue"} =>
          session'[v].pc = session[v].pc /\ session'[v].req = session[v].req
    BY <1>17 DEF Crash, Killed, At, NoUpload, Session
  <2> QED
    BY <2>1, <2>2, InputsStay
<1>18. ASSUME NEW u \in Sessions, NEW r \in Requests, Reserve(u, r)
      PROVE  InputsMove
  <2>1. /\ input' = input /\ entered' = entered
        /\ cleaner'.pc # "idle" => cleaner.pc # "idle" /\ cleaner'.req = cleaner.req
    BY <1>18 DEF Reserve, fileVars
  <2>2. \A v \in Sessions : session'[v].pc \in {"dirsync", "queue"} =>
          session'[v].pc = session[v].pc /\ session'[v].req = session[v].req
    BY <1>18 DEF Reserve, At, NoUpload, Session
  <2> QED
    BY <2>1, <2>2, InputsStay
<1>19. ASSUME NEW r \in Requests, LoseLock(r)
      PROVE  InputsMove
  <2>1. /\ input' = input /\ entered' = entered
        /\ cleaner'.pc # "idle" => cleaner.pc # "idle" /\ cleaner'.req = cleaner.req
    BY <1>19 DEF LoseLock, fileVars
  <2>2. \A v \in Sessions : session'[v].pc \in {"dirsync", "queue"} =>
          session'[v].pc = session[v].pc /\ session'[v].req = session[v].req
    BY <1>19 DEF LoseLock, At, Session
  <2> QED
    BY <2>1, <2>2, InputsStay
<1>20. ASSUME NEW r \in Requests, CancelJob(r)
      PROVE  InputsMove
  <2>1. /\ input' = input /\ entered' = entered
        /\ cleaner'.pc # "idle" => cleaner.pc # "idle" /\ cleaner'.req = cleaner.req
    BY <1>20 DEF CancelJob, Change, fileVars
  <2>2. \A v \in Sessions : session'[v].pc \in {"dirsync", "queue"} =>
          session'[v].pc = session[v].pc /\ session'[v].req = session[v].req
    BY <1>20 DEF CancelJob, Change, At, Session
  <2> QED
    BY <2>1, <2>2, InputsStay
<1>21. ASSUME NEW r \in Requests, AcknowledgeJob(r)
      PROVE  InputsMove
  <2>1. /\ input' = input /\ entered' = entered
        /\ cleaner'.pc # "idle" => cleaner.pc # "idle" /\ cleaner'.req = cleaner.req
    BY <1>21 DEF AcknowledgeJob, Change, fileVars
  <2>2. \A v \in Sessions : session'[v].pc \in {"dirsync", "queue"} =>
          session'[v].pc = session[v].pc /\ session'[v].req = session[v].req
    BY <1>21 DEF AcknowledgeJob, Change, At, Session
  <2> QED
    BY <2>1, <2>2, InputsStay
<1>22. ASSUME NEW r \in Requests, JobEnds(r)
      PROVE  InputsMove
  <2>1. /\ input' = input /\ entered' = entered
        /\ cleaner'.pc # "idle" => cleaner.pc # "idle" /\ cleaner'.req = cleaner.req
    BY <1>22 DEF JobEnds, Change, fileVars
  <2>2. \A v \in Sessions : session'[v].pc \in {"dirsync", "queue"} =>
          session'[v].pc = session[v].pc /\ session'[v].req = session[v].req
    BY <1>22 DEF JobEnds, Change, At, Session
  <2> QED
    BY <2>1, <2>2, InputsStay
<1>23. ASSUME NEW r \in Requests, CleanupRow(r)
      PROVE  InputsMove
  <2>1. /\ input' = input /\ entered' = entered /\ session' = session
        /\ cleaner' = [pc |-> "input", req |-> r]
        /\ jobs' = [jobs EXCEPT ![r] = DeletedRow]
    BY <1>23 DEF CleanupRow, fileVars
  <2>2. cleaner'.req = r /\ jobs'[r].status = "deleted"
    BY <2>1 DEF DeletedRow
  <2> QED
    BY <2>1, <2>2 DEF InputInv, InputsMove, At, Req
<1>24. ASSUME PowerLoss
      PROVE  InputsMove
  <2>1. /\ session' = [u \in Sessions |-> NoUpload]
        /\ cleaner'.pc = "idle" /\ entered' = entered
    BY <1>24 DEF PowerLoss, Killed
  <2>2. \A u \in Sessions : session'[u].pc = "idle"
    BY <2>1 DEF NoUpload
  <2>3. \A r \in Requests : \/ input'[r] = input[r]
                            \/ r \notin entered /\ input'[r] = NoFile
    BY <1>24 DEF PowerLoss, InputInv
  <2> QED
    BY <2>1, <2>2, <2>3 DEF InputInv, InputsMove
<1>25. ASSUME CleanupInput
      PROVE  InputsMove
  <2>1. /\ cleaner.pc = "input" /\ entered' = entered /\ session' = session
        /\ input' = [input EXCEPT ![cleaner.req] = NoFile]
        /\ cleaner' = [cleaner EXCEPT !.pc = "partials"]
    BY <1>25 DEF CleanupInput
  <2>2. cleaner.req \in Requests /\ Deleted(cleaner.req) /\ cleaner'.req = cleaner.req
    BY <2>1 DEF InputInv, TypeInv
  <2> QED
    BY <2>1, <2>2 DEF InputInv, InputsMove, At, Req
<1>26. ASSUME CleanupPartials
      PROVE  InputsMove
  <2>1. /\ input' = input /\ entered' = entered
        /\ cleaner.pc = "partials" /\ cleaner' = [cleaner EXCEPT !.pc = "rmdir"]
        /\ session' = PartialsRemoved(cleaner.req)
    BY <1>26 DEF CleanupPartials
  <2>2. cleaner'.req = cleaner.req
    BY <2>1 DEF TypeInv
  <2>3. \A v \in Sessions :
          session'[v].pc = session[v].pc /\ session'[v].req = session[v].req
    BY <2>1 DEF PartialsRemoved, Session
  <2> QED
    BY <2>1, <2>2, <2>3, InputsStay
<1>27. ASSUME CleanupDirectory
      PROVE  InputsMove
  <2>1. /\ input' = input /\ entered' = entered
        /\ cleaner'.pc # "idle" => cleaner.pc # "idle" /\ cleaner'.req = cleaner.req
    BY <1>27 DEF CleanupDirectory, fileVars
  <2>2. \A v \in Sessions : session'[v].pc \in {"dirsync", "queue"} =>
          session'[v].pc = session[v].pc /\ session'[v].req = session[v].req
    BY <1>27 DEF CleanupDirectory, At, Session
  <2> QED
    BY <2>1, <2>2, InputsStay
<1>28. CASE UNCHANGED vars
  <2>1. /\ input' = input /\ entered' = entered
        /\ cleaner' = cleaner /\ session' = session
    BY <1>28 DEF vars, fileVars
  <2> QED
    BY <2>1, InputsStay
<1> QED
  BY <1>1, <1>2, <1>3, <1>4, <1>5, <1>6, <1>7, <1>8, <1>9, <1>10, <1>11,
     <1>12, <1>13, <1>14, <1>15, <1>16, <1>17, <1>18, <1>19, <1>20, <1>21,
     <1>22, <1>23, <1>24, <1>25, <1>26, <1>27, <1>28
     DEF Next, SessionStep, FaultStep

\* Every step keeps the inputs of the jobs.
LEMMA InputStep ==
  ASSUME TypeInv, PartInv, InputInv, [Next]_vars
  PROVE  InputInv'
<1>1. JobsMove /\ InputsMove /\ TypeInv'
  BY JobsStep, InputsStep, TypeStep
<1>2. \A r \in Requests : Deleted(r) => Deleted(r)'
  BY <1>1 DEF JobsMove, RowMove, Deleted
<1>3. \A r \in Requests : input'[r] # NoFile => input'[r].whole /\ input'[r].synced
  BY <1>1 DEF InputsMove
<1>4. \A r \in entered' : input'[r] # NoFile \/ Deleted(r)'
  BY <1>1, <1>2 DEF InputsMove, InputInv, TypeInv
<1>5. ASSUME NEW r \in Requests, Pending(jobs'[r])
      PROVE  r \in entered'
  <2>1. ~Deleted(r)
    BY <1>2, <1>5 DEF Deleted, Pending
  <2>2. Pending(jobs[r]) \/ \E u \in Sessions : At(u, "queue") /\ Req(u) = r
    BY <1>1, <1>5 DEF JobsMove
  <2>3. r \in entered
    BY <2>1, <2>2 DEF InputInv
  <2> QED
    BY <1>1, <2>3 DEF InputsMove
<1>6. ASSUME NEW u \in Sessions, session'[u].pc = "dirsync"
      PROVE  \/ input'[session'[u].req] # NoFile
             \/ jobs'[session'[u].req].status = "deleted"
  <2>1. CASE input'[session'[u].req] # NoFile
    BY <2>1
  <2>2. CASE At(u, "dirsync") /\ session'[u].req = Req(u)
    <3>1. input[Req(u)] # NoFile \/ Deleted(Req(u))
      BY <2>2 DEF InputInv
    <3>2. Req(u) \in Requests
      BY <2>2, Busy DEF TypeInv, At
    <3> QED
      BY <1>1, <1>2, <1>6, <2>2, <3>1, <3>2 DEF InputsMove, Deleted
  <2> QED
    BY <1>1, <1>6, <2>1, <2>2 DEF InputsMove
<1>7. ASSUME NEW u \in Sessions, session'[u].pc = "queue"
      PROVE  session'[u].req \in entered' \/ jobs'[session'[u].req].status = "deleted"
  <2>1. session'[u].req \in Requests
    BY <1>1, <1>7, TypeStep DEF TypeInv, Session, PartInv, PartShape
  <2>2. session'[u].req \in entered' \/ Deleted(session'[u].req)
    BY <1>1, <1>7 DEF InputsMove, InputInv, TypeInv
  <2> QED
    BY <1>2, <2>1, <2>2 DEF Deleted
<1>8. cleaner'.pc # "idle" => /\ cleaner'.req \in Requests
                              /\ jobs'[cleaner'.req].status = "deleted"
  BY <1>1, <1>2 DEF InputsMove, InputInv, Deleted
<1> QED
  BY <1>3, <1>4, <1>5, <1>6, <1>7, <1>8 DEF InputInv, At, Req, Deleted

-----------------------------------------------------------------------------
(* Answers.                                                                *)

\* A session that will answer was told that the upload is over, and one that
\* answers was about to.
AnswersMove ==
  /\ \A u \in Sessions : session'[u].ok =>
       /\ session'[u].pc # "idle"
       /\ \/ session[u].ok /\ session'[u].req = Req(u)
          \/ session'[u].req \in Requests /\ Past(jobs'[session'[u].req])
  /\ \A r \in answered' : r \in answered \/ Past(jobs[r])

\* Where no session is told anything, nothing is to be shown.
LEMMA AnswersStay ==
  ASSUME AnswerInv, answered' = answered,
         \A u \in Sessions : session'[u].ok =>
           /\ session'[u].pc # "idle"
           /\ session[u].ok /\ session'[u].req = session[u].req
  PROVE  AnswersMove
BY DEF AnswersMove, Req

\* Every step is such a move of the answers.
LEMMA AnswersStep ==
  ASSUME TypeInv, PartInv, AnswerInv, [Next]_vars
  PROVE  AnswersMove
<1>. session \in [Sessions -> Session] /\ jobs \in [Requests -> Row]
  BY DEF TypeInv
<1>0. \A u \in Sessions : session[u].ok => session[u].pc # "idle"
  BY DEF AnswerInv, At
<1>1. ASSUME NEW u \in Sessions, Lookup(u)
      PROVE  AnswersMove
  <2>. DEFINE row == jobs[Req(u)]
              p == CASE ~Exists(row)   -> "create"
                     [] Uploading(row) -> "mark"
                     [] OTHER          -> "release"
              b == Exists(row) /\ ~Uploading(row)
  <2>1. p # "idle" /\ (b => Past(row))
    BY DEF Past, Exists
  <2>2. session' = [session EXCEPT ![u].pc = p, ![u].ok = b]
    BY <1>1, Zenon DEF Lookup
  <2>3. jobs' = jobs /\ answered' = answered /\ Req(u) \in Requests
    BY <1>1, Busy DEF Lookup, At
  <2>. HIDE DEF p, b
  <2>4. /\ session'[u].pc = p /\ session'[u].ok = b /\ session'[u].req = Req(u)
        /\ \A v \in Sessions : v # u => session'[v] = session[v]
    BY <2>2 DEF Session, Req
  <2> QED
    BY <1>0, <2>1, <2>3, <2>4 DEF AnswersMove, Req
<1>2. ASSUME NEW u \in Sessions, Create(u)
      PROVE  AnswersMove
  <2>1. \A v \in Sessions : session'[v].ok =>
          session'[v].pc # "idle" /\ session[v].ok /\ session'[v].req = session[v].req
    BY <1>2, <1>0 DEF Create, At, Goto, Session
  <2> QED
    BY <1>2, <2>1, AnswersStay DEF Create
<1>3. ASSUME NEW u \in Sessions, MarkDownloading(u)
      PROVE  AnswersMove
  <2>1. \A v \in Sessions : session'[v].ok =>
          session'[v].pc # "idle" /\ session[v].ok /\ session'[v].req = session[v].req
    BY <1>3, <1>0 DEF MarkDownloading, At, Goto, Session
  <2> QED
    BY <1>3, <2>1, AnswersStay DEF MarkDownloading
<1>4. ASSUME NEW u \in Sessions, ClearPartials(u)
      PROVE  AnswersMove
  <2>1. \A v \in Sessions : session'[v].ok =>
          session'[v].pc # "idle" /\ session[v].ok /\ session'[v].req = session[v].req
    BY <1>4, <1>0 DEF ClearPartials, At, PartialsRemoved, Session
  <2> QED
    BY <1>4, <2>1, AnswersStay DEF ClearPartials
<1>5. ASSUME NEW u \in Sessions, Admit(u)
      PROVE  AnswersMove
  <2>1. \A v \in Sessions : session'[v].ok =>
          session'[v].pc # "idle" /\ session[v].ok /\ session'[v].req = session[v].req
    BY <1>5, <1>0 DEF Admit, At, Goto, Session
  <2> QED
    BY <1>5, <2>1, AnswersStay DEF Admit
<1>6. ASSUME NEW u \in Sessions, Write(u)
      PROVE  AnswersMove
  <2>1. \A v \in Sessions : session'[v].ok =>
          session'[v].pc # "idle" /\ session[v].ok /\ session'[v].req = session[v].req
    BY <1>6, <1>0 DEF Write, At, Goto, Session
  <2> QED
    BY <1>6, <2>1, AnswersStay DEF Write
<1>7. ASSUME NEW u \in Sessions, StreamEnds(u)
      PROVE  AnswersMove
  <2>1. \A v \in Sessions : session'[v].ok =>
          session'[v].pc # "idle" /\ session[v].ok /\ session'[v].req = session[v].req
    BY <1>7, <1>0 DEF StreamEnds, At, Session
  <2> QED
    BY <1>7, <2>1, AnswersStay DEF StreamEnds
<1>8. ASSUME NEW u \in Sessions, Sync(u)
      PROVE  AnswersMove
  <2>1. \A v \in Sessions : session'[v].ok =>
          session'[v].pc # "idle" /\ session[v].ok /\ session'[v].req = session[v].req
    BY <1>8, <1>0 DEF Sync, At, Session
  <2> QED
    BY <1>8, <2>1, AnswersStay DEF Sync
<1>9. ASSUME NEW u \in Sessions, Rename(u)
      PROVE  AnswersMove
  <2>1. \A v \in Sessions : session'[v].ok =>
          session'[v].pc # "idle" /\ session[v].ok /\ session'[v].req = session[v].req
    BY <1>9, <1>0 DEF Rename, At, Goto, Session
  <2> QED
    BY <1>9, <2>1, AnswersStay DEF Rename
<1>10. ASSUME NEW u \in Sessions, SyncDirectory(u)
      PROVE  AnswersMove
  <2>1. \A v \in Sessions : session'[v].ok =>
          session'[v].pc # "idle" /\ session[v].ok /\ session'[v].req = session[v].req
    BY <1>10, <1>0 DEF SyncDirectory, At, Goto, Session
  <2> QED
    BY <1>10, <2>1, AnswersStay DEF SyncDirectory
<1>11. ASSUME NEW u \in Sessions, MarkQueued(u)
      PROVE  AnswersMove
  <2>. DEFINE row == jobs[Req(u)]
              b == Uploading(row)
  <2>1. session' = [session EXCEPT ![u].pc = "release", ![u].ok = b]
    BY <1>11, Zenon DEF MarkQueued
  <2>2. answered' = answered /\ Req(u) \in Requests
    BY <1>11, Busy DEF MarkQueued, At
  <2>3. b => Past(jobs'[Req(u)])
    <3>1. b => jobs' = [jobs EXCEPT ![Req(u)] = MarkQueuedSet(row)]
      BY <1>11 DEF MarkQueued
    <3>2. MarkQueuedSet(row).status = "queued"
      BY <2>2 DEF MarkQueuedSet, Row
    <3> QED
      BY <2>2, <3>1, <3>2 DEF Past, Uploading
  <2>. HIDE DEF b
  <2>4. /\ session'[u].pc = "release" /\ session'[u].ok = b /\ session'[u].req = Req(u)
        /\ \A v \in Sessions : v # u => session'[v] = session[v]
    BY <2>1 DEF Session, Req
  <2> QED
    BY <1>0, <2>2, <2>3, <2>4 DEF AnswersMove, Req
<1>12. ASSUME NEW u \in Sessions, Undo(u)
      PROVE  AnswersMove
  <2>1. PICK p \in {"interrupted", "failed"} :
          session' = [session EXCEPT ![u].pc = p, ![u].part = NoFile,
                                     ![u].linked = FALSE, ![u].token = FALSE]
    BY <1>12 DEF Undo
  <2>2. \A v \in Sessions : session'[v].ok =>
          session'[v].pc # "idle" /\ session[v].ok /\ session'[v].req = session[v].req
    BY <1>0, <2>1 DEF Session
  <2> QED
    BY <1>12, <2>2, AnswersStay DEF Undo
<1>13. ASSUME NEW u \in Sessions, Settle(u)
      PROVE  AnswersMove
  <2>1. \A v \in Sessions : session'[v].ok =>
          session'[v].pc # "idle" /\ session[v].ok /\ session'[v].req = session[v].req
    BY <1>13, <1>0 DEF Settle, At, Goto, Session
  <2> QED
    BY <1>13, <2>1, AnswersStay DEF Settle
<1>14. ASSUME NEW u \in Sessions, Release(u)
      PROVE  AnswersMove
  <2>1. /\ answered' = IF session[u].ok THEN answered \cup {Req(u)} ELSE answered
        /\ session' = [session EXCEPT ![u] = NoUpload]
    BY <1>14 DEF Release
  <2>2. \A v \in Sessions : session'[v].ok =>
          session'[v].pc # "idle" /\ session[v].ok /\ session'[v].req = session[v].req
    BY <1>0, <2>1 DEF NoUpload
  <2>3. session[u].ok => Past(jobs[Req(u)])
    BY DEF AnswerInv
  <2> QED
    BY <2>1, <2>2, <2>3 DEF AnswersMove, Req
<1>15. ASSUME NEW u \in Sessions, StreamCut(u)
      PROVE  AnswersMove
  <2>1. \A v \in Sessions : session'[v].ok =>
          session'[v].pc # "idle" /\ session[v].ok /\ session'[v].req = session[v].req
    BY <1>15, <1>0 DEF StreamCut, At, Goto, Session
  <2> QED
    BY <1>15, <2>1, AnswersStay DEF StreamCut
<1>16. ASSUME NEW u \in Sessions, StepFails(u)
      PROVE  AnswersMove
  <2>1. \A v \in Sessions : session'[v].ok =>
          session'[v].pc # "idle" /\ session[v].ok /\ session'[v].req = session[v].req
    BY <1>16, <1>0 DEF StepFails, At, Goto, Session
  <2> QED
    BY <1>16, <2>1, AnswersStay DEF StepFails
<1>17. ASSUME NEW u \in Sessions, Crash(u)
      PROVE  AnswersMove
  <2>1. \A v \in Sessions : session'[v].ok =>
          session'[v].pc # "idle" /\ session[v].ok /\ session'[v].req = session[v].req
    BY <1>17, <1>0 DEF Crash, Killed, At, NoUpload, Session
  <2> QED
    BY <1>17, <2>1, AnswersStay DEF Crash, Killed
<1>18. ASSUME NEW u \in Sessions, NEW r \in Requests, Reserve(u, r)
      PROVE  AnswersMove
  <2>1. session' = [session EXCEPT ![u] = [NoUpload EXCEPT !.pc = "lookup", !.req = r]]
    BY <1>18 DEF Reserve
  <2>2. ~session'[u].ok
    BY <2>1, EmptySession DEF NoUpload, Session
  <2>3. \A v \in Sessions : session'[v].ok =>
          session'[v].pc # "idle" /\ session[v].ok /\ session'[v].req = session[v].req
    BY <1>0, <2>1, <2>2
  <2> QED
    BY <1>18, <2>3, AnswersStay DEF Reserve
<1>19. ASSUME NEW r \in Requests, LoseLock(r)
      PROVE  AnswersMove
  <2>1. \A v \in Sessions : session'[v].ok =>
          session'[v].pc # "idle" /\ session[v].ok /\ session'[v].req = session[v].req
    BY <1>19, <1>0 DEF LoseLock, At, Session
  <2> QED
    BY <1>19, <2>1, AnswersStay DEF LoseLock
<1>20. ASSUME NEW r \in Requests, CancelJob(r)
      PROVE  AnswersMove
  <2>1. \A v \in Sessions : session'[v].ok =>
          session'[v].pc # "idle" /\ session[v].ok /\ session'[v].req = session[v].req
    BY <1>20, <1>0 DEF CancelJob, Change, At, Session
  <2> QED
    BY <1>20, <2>1, AnswersStay DEF CancelJob, Change
<1>21. ASSUME NEW r \in Requests, AcknowledgeJob(r)
      PROVE  AnswersMove
  <2>1. \A v \in Sessions : session'[v].ok =>
          session'[v].pc # "idle" /\ session[v].ok /\ session'[v].req = session[v].req
    BY <1>21, <1>0 DEF AcknowledgeJob, Change, At, Session
  <2> QED
    BY <1>21, <2>1, AnswersStay DEF AcknowledgeJob, Change
<1>22. ASSUME NEW r \in Requests, JobEnds(r)
      PROVE  AnswersMove
  <2>1. \A v \in Sessions : session'[v].ok =>
          session'[v].pc # "idle" /\ session[v].ok /\ session'[v].req = session[v].req
    BY <1>22, <1>0 DEF JobEnds, Change, At, Session
  <2> QED
    BY <1>22, <2>1, AnswersStay DEF JobEnds, Change
<1>23. ASSUME NEW r \in Requests, CleanupRow(r)
      PROVE  AnswersMove
  <2>1. \A v \in Sessions : session'[v].ok =>
          session'[v].pc # "idle" /\ session[v].ok /\ session'[v].req = session[v].req
    BY <1>23, <1>0 DEF CleanupRow, At, Session
  <2> QED
    BY <1>23, <2>1, AnswersStay DEF CleanupRow
<1>24. ASSUME PowerLoss
      PROVE  AnswersMove
  <2>1. \A v \in Sessions : session'[v].ok =>
          session'[v].pc # "idle" /\ session[v].ok /\ session'[v].req = session[v].req
    BY <1>24, <1>0 DEF PowerLoss, Killed, At, NoUpload, Session
  <2> QED
    BY <1>24, <2>1, AnswersStay DEF PowerLoss, Killed
<1>25. ASSUME CleanupInput
      PROVE  AnswersMove
  <2>1. \A v \in Sessions : session'[v].ok =>
          session'[v].pc # "idle" /\ session[v].ok /\ session'[v].req = session[v].req
    BY <1>25, <1>0 DEF CleanupInput, At, Session
  <2> QED
    BY <1>25, <2>1, AnswersStay DEF CleanupInput
<1>26. ASSUME CleanupPartials
      PROVE  AnswersMove
  <2>1. \A v \in Sessions : session'[v].ok =>
          session'[v].pc # "idle" /\ session[v].ok /\ session'[v].req = session[v].req
    BY <1>26, <1>0 DEF CleanupPartials, At, PartialsRemoved, Session
  <2> QED
    BY <1>26, <2>1, AnswersStay DEF CleanupPartials
<1>27. ASSUME CleanupDirectory
      PROVE  AnswersMove
  <2>1. \A v \in Sessions : session'[v].ok =>
          session'[v].pc # "idle" /\ session[v].ok /\ session'[v].req = session[v].req
    BY <1>27, <1>0 DEF CleanupDirectory, At, Session
  <2> QED
    BY <1>27, <2>1, AnswersStay DEF CleanupDirectory
<1>28. CASE UNCHANGED vars
  BY <1>28, <1>0, AnswersStay DEF vars
<1> QED
  BY <1>1, <1>2, <1>3, <1>4, <1>5, <1>6, <1>7, <1>8, <1>9, <1>10, <1>11,
     <1>12, <1>13, <1>14, <1>15, <1>16, <1>17, <1>18, <1>19, <1>20, <1>21,
     <1>22, <1>23, <1>24, <1>25, <1>26, <1>27, <1>28
     DEF Next, SessionStep, FaultStep

\* No step answers for an upload that is not over.
LEMMA AnswerStep ==
  ASSUME TypeInv, PartInv, AnswerInv, [Next]_vars
  PROVE  AnswerInv'
<1>1. JobsMove /\ AnswersMove
  BY JobsStep, AnswersStep
<1>2. \A r \in Requests : Past(jobs[r]) => Past(jobs'[r])
  BY <1>1 DEF JobsMove, RowMove
<1>3. ASSUME NEW u \in Sessions, session'[u].ok
      PROVE  session'[u].pc # "idle" /\ Past(jobs'[session'[u].req])
  <2>1. CASE session[u].ok /\ session'[u].req = Req(u)
    <3>1. Past(jobs[Req(u)]) /\ Req(u) \in Requests
      BY <2>1, Busy DEF AnswerInv, TypeInv
    <3> QED
      BY <1>1, <1>2, <1>3, <2>1, <3>1 DEF AnswersMove
  <2> QED
    BY <1>1, <1>3, <2>1 DEF AnswersMove
<1>4. \A r \in answered' : Past(jobs'[r])
  <2>1. answered' \subseteq Requests
    BY TypeStep DEF TypeInv
  <2> QED
    BY <1>1, <1>2, <2>1 DEF AnswersMove, AnswerInv
<1> QED
  BY <1>3, <1>4 DEF AnswerInv, At, Req

-----------------------------------------------------------------------------
(* The invariant.                                                          *)

\* The start.
LEMMA UploadInvInit ==
  ASSUME Init
  PROVE  UploadInv
<1>1. AbsentRow \in Row
  BY WrittenValues DEF AbsentRow, Row
<1>2. TypeInv
  <2>1. 0 \in Nat /\ 0 \in 0 .. MaxFaults
    BY UploadAssumption
  <2>2. [pc |-> "idle", req |-> NoRequest] \in
          [pc : {"idle", "input", "partials", "rmdir"}, req : Requests \cup {NoRequest}]
    OBVIOUS
  <2> QED
    BY <1>1, <2>1, <2>2, EmptySession DEF Init, TypeInv
<1>3. PartInv
  BY EmptySession DEF Init, PartInv
<1>4. InputInv
  <2>1. AbsentRow.status = "absent" /\ NoUpload.pc = "idle"
    BY DEF AbsentRow, NoUpload
  <2> QED
    BY <2>1 DEF Init, InputInv, At, Req, Pending
<1>5. AnswerInv
  BY DEF Init, AnswerInv, NoUpload
<1> QED
  BY <1>2, <1>3, <1>4, <1>5 DEF UploadInv

\* It is inductive.
LEMMA UploadInvStep ==
  ASSUME UploadInv, [Next]_vars
  PROVE  UploadInv'
BY TypeStep, InputStep, AnswerStep DEF UploadInv

\* The invariant is inductive.
LEMMA UploadInvariant == Spec => []UploadInv
BY UploadInvInit, UploadInvStep, PTL DEF Spec

\* What some worker may take has its whole input on stable storage: the
\* directory of a queued job was synced, with the input in it, before the job
\* was queued, no step of another session takes it away again, and a power
\* loss leaves what was synced.
THEOREM QueuedJobsHaveInput == Spec => []QueuedHasInput
<1>1. ASSUME UploadInv
      PROVE  QueuedHasInput
  BY <1>1 DEF UploadInv, InputInv, QueuedHasInput, Pending, Deleted
<1> QED
  BY <1>1, UploadInvariant, PTL

\* A job whose ID was returned has left its upload behind for good, whatever
\* other sessions of the same request do.
THEOREM AnswersAreFinal == Spec => []AnsweredIsQueued
<1>1. ASSUME UploadInv
      PROVE  AnsweredIsQueued
  BY <1>1 DEF UploadInv, AnswerInv, AnsweredIsQueued, Past
<1> QED
  BY <1>1, UploadInvariant, PTL

\* No session, however late, brings an ended job back.
THEOREM EndsAreFinal == Spec => NeverReopened
<1>1. ASSUME UploadInv, [Next]_vars
      PROVE  \A r \in Requests :
               jobs[r].status \in {"done", "failed", "deleted"}
                 => jobs'[r].status \in {jobs[r].status, "deleted"}
  BY <1>1, JobsStep DEF UploadInv, JobsMove, RowMove
<1> QED
  BY <1>1, UploadInvariant, PTL DEF Spec, NeverReopened

-----------------------------------------------------------------------------
(* The number of active uploads.                                           *)

TokenInv == Cardinality(Active) <= ConcurrentUploads

\* A step gives at most one session a token, and only while one is free.
ActiveMove ==
  \/ Active' \subseteq Active
  \/ \E u \in Sessions : /\ Active' \subseteq Active \cup {u}
                         /\ Cardinality(Active) < ConcurrentUploads

\* Where no session is admitted, none gets a token.
LEMMA NoToken ==
  ASSUME \A u \in Sessions : session'[u].token => session[u].token
  PROVE  ActiveMove
BY DEF ActiveMove, Active

\* Every step is such a move of the tokens.
LEMMA ActiveStep ==
  ASSUME TypeInv, [Next]_vars
  PROVE  ActiveMove
<1>. session \in [Sessions -> Session]
  BY DEF TypeInv
<1>1. ASSUME NEW u \in Sessions, Lookup(u)
      PROVE  ActiveMove
  <2>. DEFINE row == jobs[Req(u)]
              p == CASE ~Exists(row)   -> "create"
                     [] Uploading(row) -> "mark"
                     [] OTHER          -> "release"
              b == Exists(row) /\ ~Uploading(row)
  <2>1. session' = [session EXCEPT ![u].pc = p, ![u].ok = b]
    BY <1>1, Zenon DEF Lookup
  <2>. HIDE DEF p, b
  <2>2. \A v \in Sessions : session'[v].token => session[v].token
    BY <2>1 DEF Session
  <2> QED
    BY <2>2, NoToken
<1>2. ASSUME NEW u \in Sessions, Create(u)
      PROVE  ActiveMove
  <2>1. \A v \in Sessions : session'[v].token => session[v].token
    BY <1>2 DEF Create, Goto, Session
  <2> QED
    BY <2>1, NoToken
<1>3. ASSUME NEW u \in Sessions, MarkDownloading(u)
      PROVE  ActiveMove
  <2>1. \A v \in Sessions : session'[v].token => session[v].token
    BY <1>3 DEF MarkDownloading, Goto, Session
  <2> QED
    BY <2>1, NoToken
<1>4. ASSUME NEW u \in Sessions, ClearPartials(u)
      PROVE  ActiveMove
  <2>1. \A v \in Sessions : session'[v].token => session[v].token
    BY <1>4 DEF ClearPartials, PartialsRemoved, Session
  <2> QED
    BY <2>1, NoToken
<1>5. ASSUME NEW u \in Sessions, Admit(u)
      PROVE  ActiveMove
  <2>1. \A v \in Sessions : v # u => session'[v] = session[v]
    BY <1>5 DEF Admit, Goto
  <2>2. CASE Cardinality(Active) < ConcurrentUploads
    BY <2>1, <2>2 DEF ActiveMove, Active
  <2>3. CASE ~(Cardinality(Active) < ConcurrentUploads)
    <3>1. session' = [session EXCEPT ![u].pc = "undo"]
      BY <1>5, <2>3 DEF Admit, Goto
    <3>2. \A v \in Sessions : session'[v].token => session[v].token
      BY <3>1 DEF Session
    <3> QED
      BY <3>2, NoToken
  <2> QED
    BY <2>2, <2>3
<1>6. ASSUME NEW u \in Sessions, Write(u)
      PROVE  ActiveMove
  <2>1. \A v \in Sessions : session'[v].token => session[v].token
    BY <1>6 DEF Write, Goto, Session
  <2> QED
    BY <2>1, NoToken
<1>7. ASSUME NEW u \in Sessions, StreamEnds(u)
      PROVE  ActiveMove
  <2>1. \A v \in Sessions : session'[v].token => session[v].token
    BY <1>7 DEF StreamEnds, Session
  <2> QED
    BY <2>1, NoToken
<1>8. ASSUME NEW u \in Sessions, Sync(u)
      PROVE  ActiveMove
  <2>1. \A v \in Sessions : session'[v].token => session[v].token
    BY <1>8 DEF Sync, Session
  <2> QED
    BY <2>1, NoToken
<1>9. ASSUME NEW u \in Sessions, Rename(u)
      PROVE  ActiveMove
  <2>1. \A v \in Sessions : session'[v].token => session[v].token
    BY <1>9 DEF Rename, Goto, Session
  <2> QED
    BY <2>1, NoToken
<1>10. ASSUME NEW u \in Sessions, SyncDirectory(u)
      PROVE  ActiveMove
  <2>1. \A v \in Sessions : session'[v].token => session[v].token
    BY <1>10 DEF SyncDirectory, Goto, Session
  <2> QED
    BY <2>1, NoToken
<1>11. ASSUME NEW u \in Sessions, MarkQueued(u)
      PROVE  ActiveMove
  <2>1. PICK b : session' = [session EXCEPT ![u].pc = "release", ![u].ok = b]
    BY <1>11 DEF MarkQueued
  <2>2. \A v \in Sessions : session'[v].token => session[v].token
    BY <2>1 DEF Session
  <2> QED
    BY <2>2, NoToken
<1>12. ASSUME NEW u \in Sessions, Undo(u)
      PROVE  ActiveMove
  <2>1. PICK p \in {"interrupted", "failed"} :
          session' = [session EXCEPT ![u].pc = p, ![u].part = NoFile,
                                     ![u].linked = FALSE, ![u].token = FALSE]
    BY <1>12 DEF Undo
  <2>2. \A v \in Sessions : session'[v].token => session[v].token
    BY <2>1 DEF Session
  <2> QED
    BY <2>2, NoToken
<1>13. ASSUME NEW u \in Sessions, Settle(u)
      PROVE  ActiveMove
  <2>1. \A v \in Sessions : session'[v].token => session[v].token
    BY <1>13 DEF Settle, Goto, Session
  <2> QED
    BY <2>1, NoToken
<1>14. ASSUME NEW u \in Sessions, Release(u)
      PROVE  ActiveMove
  <2>1. \A v \in Sessions : session'[v].token => session[v].token
    BY <1>14 DEF Release, NoUpload, Session
  <2> QED
    BY <2>1, NoToken
<1>15. ASSUME NEW u \in Sessions, StreamCut(u)
      PROVE  ActiveMove
  <2>1. \A v \in Sessions : session'[v].token => session[v].token
    BY <1>15 DEF StreamCut, Goto, Session
  <2> QED
    BY <2>1, NoToken
<1>16. ASSUME NEW u \in Sessions, StepFails(u)
      PROVE  ActiveMove
  <2>1. \A v \in Sessions : session'[v].token => session[v].token
    BY <1>16 DEF StepFails, Goto, Session
  <2> QED
    BY <2>1, NoToken
<1>17. ASSUME NEW u \in Sessions, Crash(u)
      PROVE  ActiveMove
  <2>1. \A v \in Sessions : session'[v].token => session[v].token
    BY <1>17 DEF Crash, Killed, NoUpload, Session
  <2> QED
    BY <2>1, NoToken
<1>18. ASSUME NEW u \in Sessions, NEW r \in Requests, Reserve(u, r)
      PROVE  ActiveMove
  <2>1. session' = [session EXCEPT ![u] = [NoUpload EXCEPT !.pc = "lookup", !.req = r]]
    BY <1>18 DEF Reserve
  <2>2. \A v \in Sessions : session'[v].token => session[v].token
    BY <2>1, EmptySession DEF NoUpload, Session
  <2> QED
    BY <2>2, NoToken
<1>19. ASSUME NEW r \in Requests, LoseLock(r)
      PROVE  ActiveMove
  <2>1. \A v \in Sessions : session'[v].token => session[v].token
    BY <1>19 DEF LoseLock, Session
  <2> QED
    BY <2>1, NoToken
<1>20. ASSUME NEW r \in Requests, CancelJob(r)
      PROVE  ActiveMove
  <2>1. \A v \in Sessions : session'[v].token => session[v].token
    BY <1>20 DEF CancelJob, Change, Session
  <2> QED
    BY <2>1, NoToken
<1>21. ASSUME NEW r \in Requests, AcknowledgeJob(r)
      PROVE  ActiveMove
  <2>1. \A v \in Sessions : session'[v].token => session[v].token
    BY <1>21 DEF AcknowledgeJob, Change, Session
  <2> QED
    BY <2>1, NoToken
<1>22. ASSUME NEW r \in Requests, JobEnds(r)
      PROVE  ActiveMove
  <2>1. \A v \in Sessions : session'[v].token => session[v].token
    BY <1>22 DEF JobEnds, Change, Session
  <2> QED
    BY <2>1, NoToken
<1>23. ASSUME NEW r \in Requests, CleanupRow(r)
      PROVE  ActiveMove
  <2>1. \A v \in Sessions : session'[v].token => session[v].token
    BY <1>23 DEF CleanupRow, Session
  <2> QED
    BY <2>1, NoToken
<1>24. ASSUME PowerLoss
      PROVE  ActiveMove
  <2>1. \A v \in Sessions : session'[v].token => session[v].token
    BY <1>24 DEF PowerLoss, Killed, NoUpload, Session
  <2> QED
    BY <2>1, NoToken
<1>25. ASSUME CleanupInput
      PROVE  ActiveMove
  <2>1. \A v \in Sessions : session'[v].token => session[v].token
    BY <1>25 DEF CleanupInput, Session
  <2> QED
    BY <2>1, NoToken
<1>26. ASSUME CleanupPartials
      PROVE  ActiveMove
  <2>1. \A v \in Sessions : session'[v].token => session[v].token
    BY <1>26 DEF CleanupPartials, PartialsRemoved, Session
  <2> QED
    BY <2>1, NoToken
<1>27. ASSUME CleanupDirectory
      PROVE  ActiveMove
  <2>1. \A v \in Sessions : session'[v].token => session[v].token
    BY <1>27 DEF CleanupDirectory, Session
  <2> QED
    BY <2>1, NoToken
<1>28. CASE UNCHANGED vars
  BY <1>28, NoToken DEF vars
<1> QED
  BY <1>1, <1>2, <1>3, <1>4, <1>5, <1>6, <1>7, <1>8, <1>9, <1>10, <1>11,
     <1>12, <1>13, <1>14, <1>15, <1>16, <1>17, <1>18, <1>19, <1>20, <1>21,
     <1>22, <1>23, <1>24, <1>25, <1>26, <1>27, <1>28
     DEF Next, SessionStep, FaultStep

\* No step gives out more tokens than the configuration allows.
LEMMA TokenStep ==
  ASSUME TypeInv, TokenInv, [Next]_vars
  PROVE  TokenInv'
<1>1. IsFiniteSet(Active) /\ Cardinality(Active) \in Nat /\ ConcurrentUploads \in Nat
  BY UploadAssumption, FS_Subset, FS_CardinalityType DEF Active
<1>2. CASE Active' \subseteq Active
  <2>1. Cardinality(Active') \in Nat /\ Cardinality(Active') <= Cardinality(Active)
    BY <1>1, <1>2, FS_Subset, FS_CardinalityType
  <2> QED
    BY <1>1, <2>1 DEF TokenInv
<1>3. CASE \E u \in Sessions : /\ Active' \subseteq Active \cup {u}
                               /\ Cardinality(Active) < ConcurrentUploads
  <2>1. PICK u \in Sessions : /\ Active' \subseteq Active \cup {u}
                              /\ Cardinality(Active) < ConcurrentUploads
    BY <1>3
  <2>2. /\ IsFiniteSet(Active \cup {u})
        /\ Cardinality(Active \cup {u}) \in Nat
        /\ Cardinality(Active \cup {u}) <= Cardinality(Active) + 1
    <3>1. /\ IsFiniteSet(Active \cup {u})
          /\ Cardinality(Active \cup {u})
               = IF u \in Active THEN Cardinality(Active) ELSE Cardinality(Active) + 1
      BY <1>1, FS_AddElement
    <3> QED
      BY <1>1, <3>1
  <2>3. Cardinality(Active') \in Nat
        /\ Cardinality(Active') <= Cardinality(Active \cup {u})
    BY <2>1, <2>2, FS_Subset, FS_CardinalityType
  <2>4. Cardinality(Active') <= ConcurrentUploads
    BY <1>1, <2>1, <2>2, <2>3
  <2> QED
    BY <2>4 DEF TokenInv
<1> QED
  BY <1>2, <1>3, ActiveStep DEF ActiveMove

\* No more sessions stream at once than MAX_CONCURRENT_UPLOADS: each holds a
\* token from before its first chunk to after its last one, and a token is given
\* only while fewer are held - by the living, the dead ones' do not count.
THEOREM UploadsBounded == Spec => []UploadBound
<1>1. Init => TokenInv
  <2>1. SUFFICES ASSUME Init PROVE TokenInv
    OBVIOUS
  <2>2. Active = {}
    BY <2>1 DEF Init, Active, NoUpload
  <2>3. Cardinality({}) = 0
    BY FS_EmptySet
  <2> QED
    BY <2>2, <2>3, UploadAssumption DEF TokenInv
<1>2. UploadInv /\ TokenInv /\ [Next]_vars => TokenInv'
  BY TokenStep DEF UploadInv
<1>3. UploadInv /\ TokenInv => UploadBound
  <2>1. SUFFICES ASSUME UploadInv, TokenInv PROVE UploadBound
    OBVIOUS
  <2>2. {u \in Sessions : At(u, "stream")} \subseteq Active
    BY <2>1 DEF UploadInv, PartInv, PartShape, At, Active
  <2>3. IsFiniteSet(Active) /\ Cardinality(Active) \in Nat /\ ConcurrentUploads \in Nat
    BY UploadAssumption, FS_Subset, FS_CardinalityType DEF Active
  <2>. DEFINE T == {u \in Sessions : At(u, "stream")}
  <2>4. T \subseteq Active
    BY <2>2
  <2>. HIDE DEF T
  <2>5. Cardinality(T) \in Nat /\ Cardinality(T) <= Cardinality(Active)
    BY <2>3, <2>4, FS_Subset, FS_CardinalityType
  <2>6. Cardinality(T) <= ConcurrentUploads
    BY <2>1, <2>3, <2>5 DEF TokenInv
  <2> QED
    BY <2>6 DEF UploadBound, T
<1> QED
  BY <1>1, <1>2, <1>3, UploadInvariant, PTL DEF Spec

-----------------------------------------------------------------------------
(* The storage quota.                                                      *)

\* What each request and each session keeps below the root.
Kept == [r \in Requests |-> SizeOf(input[r]) + orphans[r]]

Parts == [u \in Sessions |-> Written(u)]

\* These are numbers, and Used is their sum.
KeptInv ==
  /\ \A r \in Requests : SizeOf(input[r]) \in Nat /\ Kept[r] \in Nat
  /\ \A u \in Sessions : Parts[u] \in Nat
  /\ SumFunctionOnSet(Kept, Requests) \in Nat
  /\ SumFunctionOnSet(Parts, Sessions) \in Nat
  /\ Used = SumFunctionOnSet(Kept, Requests) + SumFunctionOnSet(Parts, Sessions)

\* This follows from the types.
LEMMA KeptTypes == TypeInv /\ PartInv => KeptInv
<1>. SUFFICES ASSUME TypeInv, PartInv
              PROVE  KeptInv
  OBVIOUS
<1>1. ASSUME NEW r \in Requests
      PROVE  SizeOf(input[r]) \in Nat /\ Kept[r] \in Nat
  <2>1. input[r] \in File \/ input[r] = NoFile
    BY DEF TypeInv
  <2>2. SizeOf(input[r]) \in Nat
    BY <2>1, FileWrites DEF SizeOf
  <2>3. orphans[r] \in Nat
    BY DEF TypeInv
  <2> QED
    BY <2>2, <2>3 DEF Kept
<1>2. \A u \in Sessions : Parts[u] \in Nat
  BY WrittenType DEF TypeInv, Parts
<1>3. IsFiniteSet(Requests) /\ IsFiniteSet(Sessions)
  BY UploadAssumption
<1>4. SumFunctionOnSet(Kept, Requests) \in Nat
  BY ONLY <1>1, <1>3, SumNat
<1>5. SumFunctionOnSet(Parts, Sessions) \in Nat
  BY ONLY <1>2, <1>3, SumNat
<1>6. Used = SumFunctionOnSet(Kept, Requests) + SumFunctionOnSet(Parts, Sessions)
  BY DEF Used, Kept, Parts, Written, SumFunction
<1> QED
  BY <1>1, <1>2, <1>4, <1>5, <1>6 DEF KeptInv

\* A step makes no more of the volume used, or one chunk that fits.
UsedMove == Used' <= Used \/ (Used' = Used + 1 /\ Fits)

\* Nothing grows.
LEMMA NothingGrows ==
  ASSUME TypeInv, PartInv, TypeInv', PartInv',
         \A r \in Requests : Kept'[r] <= Kept[r],
         \A u \in Sessions : Parts'[u] <= Parts[u]
  PROVE  UsedMove
<1>1. IsFiniteSet(Requests) /\ IsFiniteSet(Sessions)
  BY UploadAssumption
<1>0. KeptInv /\ KeptInv'
  <2>1. KeptInv
    BY KeptTypes
  <2>2. KeptInv'
    BY KeptTypes, TypeInv', PartInv', PTL
  <2> QED
    BY <2>1, <2>2
<1>2. /\ \A r \in Requests : Kept[r] \in Int /\ Kept'[r] \in Int
      /\ \A u \in Sessions : Parts[u] \in Int /\ Parts'[u] \in Int
  BY <1>0 DEF KeptInv
<1>3. SumFunctionOnSet(Kept', Requests) <= SumFunctionOnSet(Kept, Requests)
  BY <1>1, <1>2, SumMonotone
<1>4. SumFunctionOnSet(Parts', Sessions) <= SumFunctionOnSet(Parts, Sessions)
  BY <1>1, <1>2, SumMonotone
<1> QED
  BY <1>0, <1>3, <1>4 DEF UsedMove, KeptInv

\* Partial files do not grow, and new ones are empty.
PartsStay ==
  \A v \in Sessions : session'[v].linked =>
    \/ session[v].linked /\ session'[v].part.size = session[v].part.size
    \/ session'[v].part.size = 0

\* Then no session has written more than before.
LEMMA PartsShrink ==
  ASSUME TypeInv, PartInv, PartsStay
  PROVE  \A u \in Sessions : Parts'[u] <= Parts[u]
<1>. SUFFICES ASSUME NEW u \in Sessions
              PROVE  Parts'[u] <= Parts[u]
  OBVIOUS
<1>1. Written(u) \in Nat
  BY WrittenType DEF TypeInv
<1>2. Parts[u] = Written(u)
  BY DEF Parts
<1>3. Parts'[u] = IF session'[u].linked THEN session'[u].part.size ELSE 0
  BY DEF Parts, Written
<1>4. \/ Parts'[u] = 0
      \/ session[u].linked /\ Parts'[u] = session[u].part.size
  BY <1>3 DEF PartsStay
<1> QED
  BY <1>1, <1>2, <1>4 DEF Written

\* Partial files stay, and the other files too.
LEMMA SizesStay ==
  ASSUME TypeInv, PartInv, TypeInv', PartInv',
         input' = input, orphans' = orphans, PartsStay
  PROVE  UsedMove
<1>1. Kept' = Kept
  BY DEF Kept, SizeOf
<1>2. KeptInv
  BY KeptTypes
<1>3. \A r \in Requests : Kept'[r] <= Kept[r]
  BY <1>1, <1>2 DEF KeptInv
<1> QED
  BY <1>3, PartsShrink, NothingGrows

\* Inputs may be lost, and the orphans of a request.
LEMMA FilesShrink ==
  ASSUME TypeInv, PartInv, TypeInv', PartInv', PartsStay,
         \A r \in Requests : input'[r] = input[r] \/ input'[r] = NoFile,
         \A r \in Requests : orphans'[r] = orphans[r] \/ orphans'[r] = 0
  PROVE  UsedMove
<1>1. ASSUME NEW r \in Requests
      PROVE  Kept'[r] <= Kept[r]
  <2>1. SizeOf(input[r]) \in Nat /\ orphans[r] \in Nat
    BY KeptTypes DEF KeptInv, TypeInv
  <2>2. Kept[r] = SizeOf(input[r]) + orphans[r]
    BY DEF Kept
  <2>3. Kept'[r] = (IF input'[r] = NoFile THEN 0 ELSE input'[r].size) + orphans'[r]
    BY DEF Kept, SizeOf
  <2>. DEFINE a == SizeOf(input[r])
              b == IF input'[r] = NoFile THEN 0 ELSE input'[r].size
  <2>4. b = a \/ b = 0
    BY DEF SizeOf
  <2>. HIDE DEF a, b
  <2>5. a \in Nat /\ Kept[r] = a + orphans[r] /\ Kept'[r] = b + orphans'[r]
    BY <2>1, <2>2, <2>3 DEF a, b
  <2> QED
    BY <2>1, <2>4, <2>5
<1> QED
  BY <1>1, PartsShrink, NothingGrows

\* What dead sessions wrote changes its owner: it is among the orphans now.
LEMMA KilledStay ==
  ASSUME TypeInv, PartInv, TypeInv', PartInv', NEW dead, dead \subseteq Sessions,
         Killed(dead), \A r \in Requests : SizeOf(input[r])' <= SizeOf(input[r])
  PROVE  UsedMove
<1>. DEFINE w == [u \in Sessions |-> Written(u)]
            k == [u \in Sessions |-> Req(u)]
            s == ByKind(w, k, dead, Requests, dead)
            f == [r \in Requests |-> Kept[r] + s[r]]
            p == [u \in Sessions |-> IF u \in dead THEN Parts[u] ELSE 0]
            q == [u \in Sessions |-> IF u \in dead THEN 0 ELSE Parts[u]]
<1>1. KeptInv /\ KeptInv'
  <2>1. KeptInv
    BY KeptTypes
  <2>2. KeptInv'
    BY KeptTypes, TypeInv', PartInv', PTL
  <2> QED
    BY <2>1, <2>2
<1>2. IsFiniteSet(Requests) /\ IsFiniteSet(Sessions) /\ IsFiniteSet(dead)
  BY UploadAssumption, FS_Subset
<1>3. \A u \in dead : w[u] \in Int /\ (w[u] # 0 => k[u] \in Requests)
  <2>. SUFFICES ASSUME NEW u \in dead
                PROVE  w[u] \in Int /\ (w[u] # 0 => k[u] \in Requests)
    OBVIOUS
  <2>1. Written(u) \in Nat
    BY WrittenType DEF TypeInv
  <2>2. Written(u) # 0 => session[u].linked
    BY DEF Written
  <2>3. session[u].linked => ~At(u, "idle")
    BY DEF PartInv, PartShape, At
  <2>4. Written(u) # 0 => Req(u) \in Requests
    BY <2>2, <2>3, Busy DEF TypeInv
  <2> QED
    BY <2>1, <2>4
<1>4. SumFunctionOnSet(s, Requests) = SumFunctionOnSet(w, dead)
  BY <1>2, <1>3, SumByKind
<1>5. ASSUME NEW r \in Requests
      PROVE  /\ s[r] \in Int
             /\ Kept'[r] <= f[r]
  <2>. DEFINE g == [u \in dead |-> IF session[u].linked /\ Req(u) = r
                                     THEN session[u].part.size ELSE 0]
  <2>1. g = OfKind(w, k, dead, r)
    BY DEF OfKind, Written
  <2>2. s[r] = SumFunctionOnSet(g, dead)
    BY <2>1 DEF ByKind
  <2>3. orphans'[r] = orphans[r] + SumFunctionOnSet(g, dead)
    BY DEF Killed, SumFunction
  <2>4. \A u \in dead : g[u] \in Nat
    <3>1. \A u \in dead : Written(u) \in Nat
      BY WrittenType DEF TypeInv
    <3> QED
      BY <3>1 DEF Written
  <2>. HIDE DEF g, s
  <2>5. SumFunctionOnSet(g, dead) \in Nat
    BY ONLY <1>2, <2>4, SumNat
  <2>6. SizeOf(input[r]) \in Nat /\ SizeOf(input[r])' \in Nat /\ orphans[r] \in Nat
    BY <1>1 DEF KeptInv, TypeInv
  <2>7. Kept[r] = SizeOf(input[r]) + orphans[r]
    BY DEF Kept
  <2>8. Kept'[r] = SizeOf(input[r])' + orphans'[r]
    BY DEF Kept
  <2>9. SizeOf(input[r])' <= SizeOf(input[r])
    OBVIOUS
  <2>10. Kept'[r] <= Kept[r] + s[r] /\ s[r] \in Int
    BY ONLY <2>2, <2>3, <2>5, <2>6, <2>7, <2>8, <2>9
  <2> QED
    BY <2>10
<1>6. \A u \in Sessions : Parts[u] \in Int /\ Parts'[u] \in Int
  BY <1>1 DEF KeptInv
<1>7. \A u \in Sessions : Parts'[u] = q[u]
  <2>. SUFFICES ASSUME NEW u \in Sessions
                PROVE  Parts'[u] = q[u]
    OBVIOUS
  <2>1. Parts'[u] = IF session'[u].linked THEN session'[u].part.size ELSE 0
    BY DEF Parts, Written
  <2>2. CASE u \in dead
    <3>1. session'[u] = NoUpload
      BY <2>2 DEF Killed
    <3> QED
      BY <2>1, <2>2, <3>1 DEF NoUpload
  <2>3. CASE u \notin dead
    <3>1. session'[u] = session[u]
      BY <2>3 DEF Killed
    <3> QED
      BY <2>1, <2>3, <3>1 DEF Parts, Written
  <2> QED
    BY <2>2, <2>3
<1>8. SumFunctionOnSet(Parts, Sessions)
        = SumFunctionOnSet(p, Sessions) + SumFunctionOnSet(q, Sessions)
  BY <1>2, <1>6, SumSides
<1>9. /\ \A u \in Sessions : p[u] \in Int /\ q[u] \in Int
      /\ \A u \in Sessions \ dead : p[u] = 0
      /\ \A u \in dead : p[u] = w[u]
  BY <1>6 DEF Parts
<1>10. \A r \in Requests : Kept[r] \in Int /\ f[r] \in Int /\ Kept'[r] \in Int
                             /\ f[r] = Kept[r] + s[r]
  BY <1>1, <1>5 DEF KeptInv
<1>. HIDE DEF w, k, s, f, p, q
<1>11. SumFunctionOnSet(p, Sessions) = SumFunctionOnSet(w, dead)
  <2>1. SumFunctionOnSet(p, Sessions) = SumFunctionOnSet(p, dead)
    BY <1>2, <1>9, SumOnPart
  <2>2. SumFunctionOnSet(p, dead) = SumFunctionOnSet(w, dead)
    BY <1>2, <1>9, SumSame
  <2> QED
    BY <2>1, <2>2
<1>12. SumFunctionOnSet(Parts', Sessions) = SumFunctionOnSet(q, Sessions)
  BY <1>2, <1>7, SumSame
<1>13. SumFunctionOnSet(Kept', Requests) <= SumFunctionOnSet(f, Requests)
  BY <1>2, <1>5, <1>10, SumMonotone
<1>14. SumFunctionOnSet(f, Requests)
         = SumFunctionOnSet(Kept, Requests) + SumFunctionOnSet(s, Requests)
  BY <1>2, <1>5, <1>10, SumPlus
<1>15. SumFunctionOnSet(w, dead) \in Int /\ SumFunctionOnSet(q, Sessions) \in Int
  <2>1. \A u \in Sessions : q[u] \in Int
    BY <1>9
  <2>2. \A u \in dead : w[u] \in Int
    BY <1>3
  <2>3. SumFunctionOnSet(w, dead) \in Int
    BY ONLY <1>2, <2>2, SumInt
  <2>4. SumFunctionOnSet(q, Sessions) \in Int
    BY ONLY <1>2, <2>1, SumInt
  <2> QED
    BY <2>3, <2>4
<1>. DEFINE A == SumFunctionOnSet(Kept, Requests)
            B == SumFunctionOnSet(Parts, Sessions)
            A2 == SumFunctionOnSet(Kept', Requests)
            B2 == SumFunctionOnSet(Parts', Sessions)
            W == SumFunctionOnSet(w, dead)
            F == SumFunctionOnSet(f, Requests)
            Q == SumFunctionOnSet(q, Sessions)
<1>16. Used = A + B /\ Used' = A2 + B2 /\ A \in Nat /\ B \in Nat /\ A2 \in Nat
       /\ B2 \in Nat
  BY <1>1 DEF KeptInv
<1>17. /\ B = W + Q /\ B2 = Q /\ A2 <= F /\ F = A + W /\ W \in Int /\ Q \in Int
  BY <1>4, <1>8, <1>11, <1>12, <1>13, <1>14, <1>15
<1>. HIDE DEF A, B, A2, B2, W, F, Q
<1>18. Used' <= Used
  BY ONLY <1>16, <1>17
<1> QED
  BY <1>18 DEF UsedMove

\* A chunk is written, by one session, where it fits.
LEMMA ChunkWritten ==
  ASSUME TypeInv, PartInv, TypeInv', PartInv', NEW u \in Sessions,
         input' = input, orphans' = orphans, Fits,
         Parts'[u] = Parts[u] \/ Parts'[u] = Parts[u] + 1,
         \A v \in Sessions \ {u} : Parts'[v] = Parts[v]
  PROVE  UsedMove
<1>1. KeptInv /\ KeptInv'
  <2>1. KeptInv
    BY KeptTypes
  <2>2. KeptInv'
    BY KeptTypes, TypeInv', PartInv', PTL
  <2> QED
    BY <2>1, <2>2
<1>2. IsFiniteSet(Sessions)
  BY UploadAssumption
<1>3. /\ \A v \in Sessions : Parts[v] \in Int
      /\ Parts[u] \in Nat /\ Parts'[u] \in Int
  BY <1>1 DEF KeptInv
<1>4. SumFunctionOnSet(Parts', Sessions)
        = SumFunctionOnSet(Parts, Sessions) + Parts'[u] - Parts[u]
  BY <1>2, <1>3, SumChange
<1>5. Kept' = Kept
  BY DEF Kept, SizeOf
<1>. DEFINE A == SumFunctionOnSet(Kept, Requests)
            B == SumFunctionOnSet(Parts, Sessions)
            B2 == SumFunctionOnSet(Parts', Sessions)
<1>6. /\ Used = A + B /\ Used' = A + B2 /\ A \in Nat /\ B \in Nat
      /\ B2 = B + Parts'[u] - Parts[u]
  BY <1>1, <1>4, <1>5 DEF KeptInv
<1>. HIDE DEF A, B, B2
<1>7. Used' = Used \/ Used' = Used + 1
  BY <1>3, <1>6
<1>8. Used \in Nat
  BY <1>6
<1> QED
  BY <1>7, <1>8 DEF UsedMove

\* A partial file becomes the input of its request; an older input is replaced.
LEMMA PartRenamed ==
  ASSUME TypeInv, PartInv, TypeInv', PartInv', NEW u \in Sessions, NEW r \in Requests,
         Kept'[r] <= Kept[r] + Parts[u], Parts'[u] = 0,
         \A x \in Requests \ {r} : Kept'[x] = Kept[x],
         \A v \in Sessions \ {u} : Parts'[v] = Parts[v]
  PROVE  UsedMove
<1>1. KeptInv /\ KeptInv'
  <2>1. KeptInv
    BY KeptTypes
  <2>2. KeptInv'
    BY KeptTypes, TypeInv', PartInv', PTL
  <2> QED
    BY <2>1, <2>2
<1>2. IsFiniteSet(Sessions) /\ IsFiniteSet(Requests)
  BY UploadAssumption
<1>3. /\ \A v \in Sessions : Parts[v] \in Int
      /\ Parts[u] \in Nat /\ Parts'[u] \in Int
  BY <1>1 DEF KeptInv
<1>0. /\ \A x \in Requests : Kept[x] \in Int
      /\ Kept[r] \in Int /\ Kept'[r] \in Int
  BY <1>1 DEF KeptInv
<1>4. SumFunctionOnSet(Parts', Sessions)
        = SumFunctionOnSet(Parts, Sessions) + Parts'[u] - Parts[u]
  BY ONLY <1>2, <1>3, SumChange, u \in Sessions,
          \A v \in Sessions \ {u} : Parts'[v] = Parts[v]
<1>5. SumFunctionOnSet(Kept', Requests)
        = SumFunctionOnSet(Kept, Requests) + Kept'[r] - Kept[r]
  BY ONLY <1>0, <1>2, SumChange, r \in Requests,
          \A x \in Requests \ {r} : Kept'[x] = Kept[x]
<1>. DEFINE A == SumFunctionOnSet(Kept, Requests)
            B == SumFunctionOnSet(Parts, Sessions)
            A2 == SumFunctionOnSet(Kept', Requests)
            B2 == SumFunctionOnSet(Parts', Sessions)
<1>6. /\ Used = A + B /\ Used' = A2 + B2 /\ A \in Nat /\ B \in Nat
      /\ B2 = B + Parts'[u] - Parts[u] /\ A2 = A + Kept'[r] - Kept[r]
  BY <1>1, <1>4, <1>5 DEF KeptInv
<1>. HIDE DEF A, B, A2, B2
<1>7. Used' <= Used
  BY <1>0, <1>3, <1>6
<1> QED
  BY <1>7 DEF UsedMove

\* Every step keeps to UsedMove.
LEMMA UsedStep ==
  ASSUME TypeInv, PartInv, TypeInv', PartInv', [Next]_vars
  PROVE  UsedMove
<1>. session \in [Sessions -> Session]
  BY DEF TypeInv
<1>1. ASSUME NEW u \in Sessions, Lookup(u)
      PROVE  UsedMove
  <2>. DEFINE row == jobs[Req(u)]
              p == CASE ~Exists(row)   -> "create"
                     [] Uploading(row) -> "mark"
                     [] OTHER          -> "release"
              b == Exists(row) /\ ~Uploading(row)
  <2>1. session' = [session EXCEPT ![u].pc = p, ![u].ok = b]
    BY <1>1, Zenon DEF Lookup
  <2>. HIDE DEF p, b
  <2>2. PartsStay
    BY <2>1 DEF PartsStay, Session
  <2> QED
    BY <1>1, <2>2, SizesStay DEF Lookup, fileVars
<1>2. ASSUME NEW u \in Sessions, Create(u)
      PROVE  UsedMove
  <2>1. PartsStay
    BY <1>2 DEF Create, Goto, PartsStay, Session
  <2> QED
    BY <1>2, <2>1, SizesStay DEF Create
<1>3. ASSUME NEW u \in Sessions, MarkDownloading(u)
      PROVE  UsedMove
  <2>1. PartsStay
    BY <1>3 DEF MarkDownloading, Goto, PartsStay, Session
  <2> QED
    BY <1>3, <2>1, SizesStay DEF MarkDownloading, fileVars
<1>4. ASSUME NEW u \in Sessions, ClearPartials(u)
      PROVE  UsedMove
  <2>1. PartsStay
    BY <1>4 DEF ClearPartials, PartialsRemoved, PartsStay, Session
  <2>2. \A r \in Requests : orphans'[r] = orphans[r] \/ orphans'[r] = 0
    BY <1>4 DEF ClearPartials, TypeInv
  <2> QED
    BY <1>4, <2>1, <2>2, FilesShrink DEF ClearPartials
<1>5. ASSUME NEW u \in Sessions, Admit(u)
      PROVE  UsedMove
  <2>1. PartsStay
    BY <1>5 DEF Admit, Goto, PartsStay, Session
  <2> QED
    BY <1>5, <2>1, SizesStay DEF Admit, fileVars
<1>6. ASSUME NEW u \in Sessions, Write(u)
      PROVE  UsedMove
  <2>. input' = input /\ orphans' = orphans
    BY <1>6 DEF Write, fileVars
  <2>1. CASE session[u].part.size # AudioBytes /\ Fits
    <3>. DEFINE n == session[u].part.size + 1
    <3>1. session' = [session EXCEPT ![u].part.size = n]
      BY <1>6, <2>1 DEF Write
    <3>. HIDE DEF n
    <3>2. \A v \in Sessions \ {u} : session'[v] = session[v]
      BY <3>1
    <3>3. session'[u] = [session[u] EXCEPT !.part.size = n]
      BY <3>1
    <3>4. session'[u].linked = session[u].linked
      BY <3>3 DEF Session
    <3>5. session'[u].part = [session[u].part EXCEPT !.size = n]
      BY <3>3 DEF Session
    <3>6. session[u].part \in File
      BY <1>6 DEF Write, At, PartInv, PartShape, Session
    <3>7. session'[u].part.size = n
      BY <3>5, <3>6 DEF File
    <3>8. Parts'[u] = Parts[u] \/ Parts'[u] = Parts[u] + 1
      <4>1. Parts'[u] = IF session'[u].linked THEN session'[u].part.size ELSE 0
        BY DEF Parts, Written
      <4>2. Parts[u] = IF session[u].linked THEN session[u].part.size ELSE 0
        BY DEF Parts, Written
      <4> QED
        BY <3>4, <3>7, <4>1, <4>2 DEF n
    <3>9. \A v \in Sessions \ {u} : Parts'[v] = Parts[v]
      BY <3>2 DEF Parts, Written
    <3> QED
      BY <2>1, <3>8, <3>9, ChunkWritten
  <2>2. CASE ~(session[u].part.size # AudioBytes /\ Fits)
    <3>1. PartsStay
      BY <1>6, <2>2 DEF Write, Goto, PartsStay, Session
    <3> QED
      BY <3>1, SizesStay
  <2> QED
    BY <2>1, <2>2
<1>7. ASSUME NEW u \in Sessions, StreamEnds(u)
      PROVE  UsedMove
  <2>1. PartsStay
    BY <1>7 DEF StreamEnds, Goto, PartsStay, Session
  <2> QED
    BY <1>7, <2>1, SizesStay DEF StreamEnds, fileVars
<1>8. ASSUME NEW u \in Sessions, Sync(u)
      PROVE  UsedMove
  <2>1. PartsStay
    BY <1>8 DEF Sync, Goto, PartsStay, Session
  <2> QED
    BY <1>8, <2>1, SizesStay DEF Sync, fileVars
<1>9. ASSUME NEW u \in Sessions, Rename(u)
      PROVE  UsedMove
  <2>. orphans' = orphans
    BY <1>9 DEF Rename
  <2>1. CASE session[u].linked
    <3>. DEFINE r == Req(u)
    <3>1. r \in Requests
      BY <1>9, Busy DEF Rename, At
    <3>2. /\ input' = [input EXCEPT ![r] = session[u].part]
          /\ session' = [session EXCEPT ![u].pc = "dirsync", ![u].part = NoFile,
                                        ![u].linked = FALSE]
      BY <1>9, <2>1 DEF Rename
    <3>3. session[u].part \in File
      BY <2>1 DEF PartInv, PartShape, Session
    <3>. HIDE DEF r
    <3>4. /\ input'[r] = session[u].part
          /\ \A x \in Requests \ {r} : input'[x] = input[x]
      BY <3>1, <3>2 DEF TypeInv
    <3>5. Parts'[u] = 0 /\ Parts[u] = session[u].part.size
      <4>1. ~session'[u].linked
        BY <3>2 DEF Session
      <4> QED
        BY <2>1, <4>1 DEF Parts, Written
    <3>6. \A v \in Sessions \ {u} : Parts'[v] = Parts[v]
      <4>1. \A v \in Sessions \ {u} : session'[v] = session[v]
        BY <3>2
      <4> QED
        BY <4>1 DEF Parts, Written
    <3>7. \A x \in Requests \ {r} : Kept'[x] = Kept[x]
      BY <3>4 DEF Kept, SizeOf
    <3>8. Kept'[r] <= Kept[r] + Parts[u]
      <4>1. Kept'[r] = session[u].part.size + orphans[r]
        BY <3>1, <3>3, <3>4, NoFileAssumption DEF Kept, SizeOf
      <4>2. Kept[r] = SizeOf(input[r]) + orphans[r]
        BY <3>1 DEF Kept
      <4>3. SizeOf(input[r]) \in Nat /\ orphans[r] \in Nat
        BY <3>1, KeptTypes DEF KeptInv, TypeInv
      <4>4. session[u].part.size \in Nat
        BY <3>3, FileWrites
      <4> QED
        BY <3>5, <4>1, <4>2, <4>3, <4>4
    <3> QED
      BY <3>1, <3>5, <3>6, <3>7, <3>8, PartRenamed
  <2>2. CASE ~session[u].linked
    <3>1. session' = [session EXCEPT ![u].pc = "undo"] /\ input' = input
      BY <1>9, <2>2 DEF Rename, Goto
    <3>2. PartsStay
      BY <3>1 DEF PartsStay, Session
    <3> QED
      BY <3>1, <3>2, SizesStay
  <2> QED
    BY <2>1, <2>2
<1>10. ASSUME NEW u \in Sessions, SyncDirectory(u)
      PROVE  UsedMove
  <2>1. PartsStay
    BY <1>10 DEF SyncDirectory, Goto, PartsStay, Session
  <2> QED
    BY <1>10, <2>1, SizesStay DEF SyncDirectory
<1>11. ASSUME NEW u \in Sessions, MarkQueued(u)
      PROVE  UsedMove
  <2>1. PICK b : session' = [session EXCEPT ![u].pc = "release", ![u].ok = b]
    BY <1>11 DEF MarkQueued
  <2>2. PartsStay
    BY <2>1 DEF PartsStay, Session
  <2> QED
    BY <1>11, <2>2, SizesStay DEF MarkQueued, fileVars
<1>12. ASSUME NEW u \in Sessions, Undo(u)
      PROVE  UsedMove
  <2>1. PICK p \in {"interrupted", "failed"} :
          session' = [session EXCEPT ![u].pc = p, ![u].part = NoFile,
                                     ![u].linked = FALSE, ![u].token = FALSE]
    BY <1>12 DEF Undo
  <2>2. PartsStay
    BY <2>1 DEF PartsStay, Session
  <2> QED
    BY <1>12, <2>2, SizesStay DEF Undo, fileVars
<1>13. ASSUME NEW u \in Sessions, Settle(u)
      PROVE  UsedMove
  <2>1. PartsStay
    BY <1>13 DEF Settle, Goto, PartsStay, Session
  <2> QED
    BY <1>13, <2>1, SizesStay DEF Settle, fileVars
<1>14. ASSUME NEW u \in Sessions, Release(u)
      PROVE  UsedMove
  <2>1. PartsStay
    BY <1>14, EmptySession DEF Release, NoUpload, PartsStay, Session
  <2> QED
    BY <1>14, <2>1, SizesStay DEF Release, fileVars
<1>15. ASSUME NEW u \in Sessions, StreamCut(u)
      PROVE  UsedMove
  <2>1. PartsStay
    BY <1>15 DEF StreamCut, Goto, PartsStay, Session
  <2> QED
    BY <1>15, <2>1, SizesStay DEF StreamCut, fileVars
<1>16. ASSUME NEW u \in Sessions, StepFails(u)
      PROVE  UsedMove
  <2>1. PartsStay
    BY <1>16 DEF StepFails, Goto, PartsStay, Session
  <2> QED
    BY <1>16, <2>1, SizesStay DEF StepFails, fileVars
<1>17. ASSUME NEW u \in Sessions, Crash(u)
      PROVE  UsedMove
  <2>1. Killed({u}) /\ input' = input
    BY <1>17 DEF Crash
  <2>2. \A r \in Requests : SizeOf(input[r])' <= SizeOf(input[r])
    BY <2>1, KeptTypes DEF KeptInv, SizeOf
  <2> QED
    BY <2>1, <2>2, KilledStay
<1>18. ASSUME NEW u \in Sessions, NEW r \in Requests, Reserve(u, r)
      PROVE  UsedMove
  <2>1. session' = [session EXCEPT ![u] = [NoUpload EXCEPT !.pc = "lookup", !.req = r]]
    BY <1>18 DEF Reserve
  <2>2. PartsStay
    BY <2>1, EmptySession DEF NoUpload, PartsStay, Session
  <2> QED
    BY <1>18, <2>2, SizesStay DEF Reserve, fileVars
<1>19. ASSUME NEW r \in Requests, LoseLock(r)
      PROVE  UsedMove
  <2>1. PartsStay
    BY <1>19 DEF LoseLock, Goto, PartsStay, Session
  <2> QED
    BY <1>19, <2>1, SizesStay DEF LoseLock, fileVars
<1>20. ASSUME NEW r \in Requests, CancelJob(r)
      PROVE  UsedMove
  <2>1. PartsStay
    BY <1>20 DEF CancelJob, Change, Goto, PartsStay, Session
  <2> QED
    BY <1>20, <2>1, SizesStay DEF CancelJob, Change, fileVars
<1>21. ASSUME NEW r \in Requests, AcknowledgeJob(r)
      PROVE  UsedMove
  <2>1. PartsStay
    BY <1>21 DEF AcknowledgeJob, Change, Goto, PartsStay, Session
  <2> QED
    BY <1>21, <2>1, SizesStay DEF AcknowledgeJob, Change, fileVars
<1>22. ASSUME NEW r \in Requests, JobEnds(r)
      PROVE  UsedMove
  <2>1. PartsStay
    BY <1>22 DEF JobEnds, Change, Goto, PartsStay, Session
  <2> QED
    BY <1>22, <2>1, SizesStay DEF JobEnds, Change, fileVars
<1>23. ASSUME NEW r \in Requests, CleanupRow(r)
      PROVE  UsedMove
  <2>1. PartsStay
    BY <1>23 DEF CleanupRow, Goto, PartsStay, Session
  <2> QED
    BY <1>23, <2>1, SizesStay DEF CleanupRow, fileVars
<1>24. ASSUME PowerLoss
      PROVE  UsedMove
  <2>1. Killed(Sessions)
    BY <1>24 DEF PowerLoss
  <2>2. ASSUME NEW r \in Requests
        PROVE  SizeOf(input[r])' <= SizeOf(input[r])
    <3>1. SizeOf(input[r]) \in Nat
      BY KeptTypes DEF KeptInv
    <3>2. \/ input'[r] = input[r]
          \/ input[r] # NoFile /\ input'[r] = [input[r] EXCEPT !.whole = FALSE]
          \/ input'[r] = NoFile
      BY <1>24 DEF PowerLoss
    <3>3. CASE input'[r] = input[r]
      BY <3>1, <3>3 DEF SizeOf
    <3>4. CASE input[r] # NoFile /\ input'[r] = [input[r] EXCEPT !.whole = FALSE]
      <4>1. input[r] \in File
        BY <3>4 DEF TypeInv
      <4>2. input'[r].size = input[r].size
        BY <3>4, <4>1 DEF File
      <4>3. input'[r] # NoFile
        <5>1. input'[r] \in File
          BY <3>4, <4>1, FALSE \in BOOLEAN DEF File
        <5> QED
          BY <5>1, NoFileAssumption
      <4> QED
        BY <3>1, <3>4, <4>2, <4>3 DEF SizeOf
    <3>5. CASE input'[r] = NoFile
      BY <3>1, <3>5 DEF SizeOf
    <3> QED
      BY <3>2, <3>3, <3>4, <3>5
  <2> QED
    BY <2>1, <2>2, KilledStay
<1>25. ASSUME CleanupInput
      PROVE  UsedMove
  <2>1. PartsStay
    BY <1>25 DEF CleanupInput, PartsStay, Session
  <2>2. \A r \in Requests : input'[r] = input[r] \/ input'[r] = NoFile
    BY <1>25 DEF CleanupInput, TypeInv
  <2> QED
    BY <1>25, <2>1, <2>2, FilesShrink DEF CleanupInput
<1>26. ASSUME CleanupPartials
      PROVE  UsedMove
  <2>1. PartsStay
    BY <1>26 DEF CleanupPartials, PartialsRemoved, PartsStay, Session
  <2>2. \A r \in Requests : orphans'[r] = orphans[r] \/ orphans'[r] = 0
    BY <1>26 DEF CleanupPartials, TypeInv
  <2> QED
    BY <1>26, <2>1, <2>2, FilesShrink DEF CleanupPartials
<1>27. ASSUME CleanupDirectory
      PROVE  UsedMove
  <2>1. PartsStay
    BY <1>27 DEF CleanupDirectory, Goto, PartsStay, Session
  <2> QED
    BY <1>27, <2>1, SizesStay DEF CleanupDirectory
<1>28. CASE UNCHANGED vars
  <2>1. PartsStay
    BY <1>28 DEF vars, PartsStay
  <2> QED
    BY <1>28, <2>1, SizesStay DEF vars, fileVars
<1> QED
  BY <1>1, <1>2, <1>3, <1>4, <1>5, <1>6, <1>7, <1>8, <1>9, <1>10, <1>11,
     <1>12, <1>13, <1>14, <1>15, <1>16, <1>17, <1>18, <1>19, <1>20, <1>21,
     <1>22, <1>23, <1>24, <1>25, <1>26, <1>27, <1>28
     DEF Next, SessionStep, FaultStep

\* The files on the volume never exceed MAX_JOB_STORAGE_BYTES: a chunk is
\* written only if it fits beside all that has a name below the root, and
\* neither a rename, a crash nor a cleanup makes more of it.
THEOREM StorageBounded == Spec => []StorageBound
<1>1. Init => StorageBound
  <2>1. SUFFICES ASSUME Init PROVE StorageBound
    OBVIOUS
  <2>2. IsFiniteSet(Requests) /\ IsFiniteSet(Sessions)
    BY UploadAssumption
  <2>3. (\A r \in Requests : Kept[r] = 0) /\ (\A u \in Sessions : Parts[u] = 0)
    BY <2>1 DEF Init, Kept, Parts, Written, SizeOf, NoUpload
  <2>4. SumFunctionOnSet(Kept, Requests) = 0
    BY ONLY <2>2, <2>3, SumZero
  <2>5. SumFunctionOnSet(Parts, Sessions) = 0
    BY ONLY <2>2, <2>3, SumZero
  <2>6. KeptInv
    <3>1. UploadInv
      BY <2>1, UploadInvInit
    <3> QED
      BY <3>1, KeptTypes DEF UploadInv
  <2> QED
    BY <2>4, <2>5, <2>6, UploadAssumption DEF KeptInv, StorageBound
<1>2. UploadInv /\ UploadInv' /\ StorageBound /\ [Next]_vars => StorageBound'
  <2>1. SUFFICES ASSUME UploadInv, UploadInv', StorageBound, [Next]_vars
                 PROVE  StorageBound'
    OBVIOUS
  <2>2. UsedMove
    BY <2>1, UsedStep DEF UploadInv
  <2>3. KeptInv /\ KeptInv'
    <3>1. KeptInv
      BY <2>1, KeptTypes DEF UploadInv
    <3>2. TypeInv' /\ PartInv'
      BY <2>1 DEF UploadInv
    <3>3. KeptInv'
      BY <3>2, KeptTypes, PTL
    <3> QED
      BY <3>1, <3>3
  <2>4. Used \in Nat /\ Used' \in Nat /\ StorageBytes \in Nat
    BY <2>3, UploadAssumption DEF KeptInv
  <2> QED
    BY <2>1, <2>2, <2>4 DEF UsedMove, Fits, StorageBound
<1> QED
  BY <1>1, <1>2, UploadInvariant, PTL DEF Spec

\* Every variable keeps its type; that the orphans of a request stay below the
\* budget of the volume is a consequence of StorageBound.
THEOREM TypeCorrect == Spec => []TypeOK
<1>1. UploadInv /\ StorageBound => TypeOK
  <2>1. SUFFICES ASSUME UploadInv, StorageBound PROVE TypeOK
    OBVIOUS
  <2>2. KeptInv
    BY <2>1, KeptTypes DEF UploadInv
  <2>3. ASSUME NEW r \in Requests
        PROVE  orphans[r] \in 0 .. StorageBytes
    <3>1. IsFiniteSet(Requests) /\ StorageBytes \in Nat
      BY UploadAssumption
    <3>2. \A x \in Requests : Kept[x] \in Nat
      BY <2>2 DEF KeptInv
    <3>3. Kept[r] <= SumFunctionOnSet(Kept, Requests)
      BY ONLY <3>1, <3>2, TermBound, r \in Requests
    <3>4. Kept[r] = SizeOf(input[r]) + orphans[r]
      BY DEF Kept
    <3>5. SizeOf(input[r]) \in Nat /\ orphans[r] \in Nat
      BY <2>1, <2>2 DEF KeptInv, UploadInv, TypeInv
    <3>6. Used <= StorageBytes
      BY <2>1 DEF StorageBound
    <3>7. /\ Used = SumFunctionOnSet(Kept, Requests) + SumFunctionOnSet(Parts, Sessions)
          /\ SumFunctionOnSet(Kept, Requests) \in Nat
          /\ SumFunctionOnSet(Parts, Sessions) \in Nat
      BY <2>2 DEF KeptInv
    <3> QED
      BY <3>1, <3>3, <3>4, <3>5, <3>6, <3>7
  <2>4. orphans \in [Requests -> 0 .. StorageBytes]
    BY <2>1, <2>3 DEF UploadInv, TypeInv
  <2> QED
    BY <2>1, <2>4 DEF UploadInv, TypeInv, TypeOK
<1> QED
  BY <1>1, UploadInvariant, StorageBounded, PTL

=============================================================================
