---------------------------- MODULE UploadSession ----------------------------
(***************************************************************************)
(* Submit: concurrent upload sessions of ingress processes, the request    *)
(* lock in PostgreSQL, the job directory, admission to the shared volume,  *)
(* and the cleanup of expired jobs.                                        *)
(*                                                                         *)
(* A session is one Submit call; sessions may belong to processes of their *)
(* own.  A request stands for its identity, its row and its directory: a   *)
(* named one has a request_id and may be submitted again, an anonymous one *)
(* is submitted once.  Once its row is deleted a request is over: a new job*)
(* under its old identity would be another request.  Sizes are numbers of  *)
(* chunks.  The attempts of a queued job belong to other modules: here it  *)
(* is settled in one step.                                                 *)
(***************************************************************************)
EXTENDS JobTable, FiniteSets, FiniteSetsExt

CONSTANTS
  Sessions,
  NoSession,
  Requests,
  Named,              \* requests that carry a request_id
  RetainedJobs,       \* requests with retain_until_ack
  AudioBytes,         \* MAX_AUDIO_BYTES
  StorageBytes,       \* MAX_JOB_STORAGE_BYTES
  ConcurrentUploads,  \* MAX_CONCURRENT_UPLOADS
  SmallestAudio,      \* bound: the least that a client sends, 0 for no bound
  NoRequest, NoFile,
  MaxFaults           \* bound on the faults of one behaviour

ASSUME UploadAssumption ==
  /\ NoSession \notin Sessions /\ IsFiniteSet(Sessions)
  /\ Named \subseteq Requests /\ RetainedJobs \subseteq Requests
  /\ NoRequest \notin Requests /\ IsFiniteSet(Requests)
  /\ AudioBytes \in Nat \ {0} /\ StorageBytes \in Nat \ {0}
  /\ SmallestAudio \in 0 .. AudioBytes
  /\ ConcurrentUploads \in Nat \ {0} /\ MaxFaults \in Nat

File == [size : 0 .. AudioBytes, whole : BOOLEAN, synced : BOOLEAN]

ASSUME NoFileAssumption == NoFile \notin File

VARIABLES
  jobs,      \* transcription_jobs
  session,   \* the Submit calls
  lock,      \* the session that holds the advisory lock of a request
  input,     \* input.<format> in the directory of a request
  entered,   \* requests whose directory was synced with an input in it
  orphans,   \* bytes of upload-*.part files no session writes any more
  dirs,      \* requests whose directory exists
  stale,     \* token files whose process is dead
  cleaner,   \* the cleanup worker, after it deleted a row
  answered,  \* history: requests some Submit returned the job ID of
  faults     \* faults so far

vars == <<jobs, session, lock, input, entered, orphans, dirs, stale, cleaner,
          answered, faults>>

fileVars == <<input, entered, orphans, dirs>>

\* "undo", "refuse": the upload failed, recoverably or for good; "interrupted",
\* "failed": the partial file is gone and the row is to be updated; "release":
\* the reservation is left.
SessionStates == {"idle", "lookup", "create", "mark", "clear", "admit", "stream",
                  "sync", "rename", "dirsync", "queue", "undo", "refuse",
                  "interrupted", "failed", "release"}

\* part: the upload-*.part file; linked: its name still exists; token: the
\* session counts as an active upload; ok: Submit will return the job ID.
Session == [pc : SessionStates, req : Requests \cup {NoRequest},
            part : File \cup {NoFile}, linked : BOOLEAN, token : BOOLEAN,
            ok : BOOLEAN]

NoUpload == [pc |-> "idle", req |-> NoRequest, part |-> NoFile,
             linked |-> FALSE, token |-> FALSE, ok |-> FALSE]

Init ==
  /\ jobs = [r \in Requests |-> AbsentRow]
  /\ session = [u \in Sessions |-> NoUpload]
  /\ lock = [r \in Requests |-> NoSession]
  /\ input = [r \in Requests |-> NoFile]
  /\ entered = {}
  /\ orphans = [r \in Requests |-> 0]
  /\ dirs = {}
  /\ stale = 0
  /\ cleaner = [pc |-> "idle", req |-> NoRequest]
  /\ answered = {}
  /\ faults = 0

-----------------------------------------------------------------------------
(* Helpers.                                                                *)

Fault == faults < MaxFaults /\ faults' = faults + 1

At(u, pc) == session[u].pc = pc

Req(u) == session[u].req

\* Session u goes on at pc and nothing else of it changes.
Goto(u, pc) == session' = [session EXCEPT ![u].pc = pc]

SizeOf(file) == IF file = NoFile THEN 0 ELSE file.size

\* storage_bytes: everything that has a name below the root.
Used == SumFunction([r \in Requests |-> SizeOf(input[r]) + orphans[r]])
        + SumFunction([u \in Sessions |-> IF session[u].linked
                                            THEN session[u].part.size ELSE 0])

\* Takes a token for stale when its request is no longer locked.
MutantActive == {u \in Sessions : /\ session[u].token
                                  /\ Req(u) \in Named => lock[Req(u)] = u}

\* _active_uploads, once the stale tokens are gone.
Active == {u \in Sessions : session[u].token}

\* The partial files of request r lose their names.
PartialsRemoved(r) ==
  [u \in Sessions |-> IF Req(u) = r THEN [session[u] EXCEPT !.linked = FALSE]
                      ELSE session[u]]

-----------------------------------------------------------------------------
(* reserve_upload.                                                         *)

\* A lock that is taken ends Submit at once (UploadBusy).
Reserve(u, r) ==
  /\ At(u, "idle")
  /\ jobs[r].status # "deleted"
  /\ IF r \in Named
       THEN lock[r] = NoSession /\ lock' = [lock EXCEPT ![r] = u]
       ELSE /\ ~Exists(jobs[r]) /\ \A v \in Sessions : Req(v) # r
            /\ UNCHANGED lock
  /\ session' = [session EXCEPT ![u] =
                   [NoUpload EXCEPT !.pc = "lookup", !.req = r]]
  /\ UNCHANGED <<jobs, fileVars, stale, cleaner, answered, faults>>

MutantLookup(u) ==   \* a row that is being uploaded is answered
  /\ At(u, "lookup")
  /\ LET row == jobs[Req(u)] IN
       session' = [session EXCEPT
         ![u].pc = CASE ~Exists(row)             -> "create"
                     [] row.status = "accepted"  -> "mark"
                     [] OTHER                    -> "release",
         ![u].ok = Exists(row) /\ row.status # "accepted"]
  /\ UNCHANGED <<jobs, lock, fileVars, stale, cleaner, answered, faults>>

\* upload_lookup.sql; a job that needs no upload is answered.
Lookup(u) ==
  /\ At(u, "lookup")
  /\ LET row == jobs[Req(u)] IN
       session' = [session EXCEPT
         ![u].pc = CASE ~Exists(row)   -> "create"
                     [] Uploading(row) -> "mark"
                     [] OTHER          -> "release",
         ![u].ok = Exists(row) /\ ~Uploading(row)]
  /\ UNCHANGED <<jobs, lock, fileVars, stale, cleaner, answered, faults>>

\* create_job.  The unique index refuses a second row, and with it Submit; so
\* does, here, a deleted row.
Create(u) ==
  /\ At(u, "create")
  /\ dirs' = dirs \cup {Req(u)}
  /\ IF jobs[Req(u)].status = "absent"
       THEN /\ jobs' = [jobs EXCEPT ![Req(u)] = CreateSet]
            /\ Goto(u, "mark")
       ELSE UNCHANGED jobs /\ Goto(u, "release")
  /\ UNCHANGED <<lock, input, entered, orphans, stale, cleaner, answered, faults>>

\* The reservation is left: the lock is released, the reply is sent.
Release(u) ==
  /\ At(u, "release")
  /\ lock' = IF lock[Req(u)] = u THEN [lock EXCEPT ![Req(u)] = NoSession]
             ELSE lock
  /\ answered' = IF session[u].ok THEN answered \cup {Req(u)} ELSE answered
  /\ session' = [session EXCEPT ![u] = NoUpload]
  /\ UNCHANGED <<jobs, fileVars, stale, cleaner, faults>>

-----------------------------------------------------------------------------
(* _submit_reserved and UploadAdmission.                                   *)

MarkDownloading(u) ==
  /\ At(u, "mark")
  /\ jobs' = IF Uploading(jobs[Req(u)])
               THEN [jobs EXCEPT ![Req(u)] = MarkDownloadingSet(@)] ELSE jobs
  /\ Goto(u, "clear")
  /\ UNCHANGED <<lock, fileVars, stale, cleaner, answered, faults>>

\* Partial files left in the directory are removed, also those of a session
\* that has lost its lock and writes on.
ClearPartials(u) ==
  /\ At(u, "clear")
  /\ session' = [PartialsRemoved(Req(u)) EXCEPT ![u].pc = "admit"]
  /\ orphans' = [orphans EXCEPT ![Req(u)] = 0]
  /\ UNCHANGED <<jobs, lock, input, entered, dirs, stale, cleaner, answered,
                 faults>>

\* The token of a dead process still counts.
MutantAdmit(u) ==
  /\ At(u, "admit")
  /\ IF Cardinality(Active) + stale < ConcurrentUploads
          /\ Used <= StorageBytes /\ Req(u) \in dirs
       THEN session' = [session EXCEPT
              ![u].pc = "stream", ![u].token = TRUE, ![u].linked = TRUE,
              ![u].part = [size |-> 0, whole |-> FALSE, synced |-> FALSE]]
       ELSE Goto(u, "undo")
  /\ UNCHANGED <<jobs, lock, fileVars, stale, cleaner, answered, faults>>

\* admission.upload(), and the partial file is opened.  Tokens that no process
\* holds are removed first; a missing directory fails like a full volume.
Admit(u) ==
  /\ At(u, "admit")
  /\ stale' = 0
  /\ IF Cardinality(Active) < ConcurrentUploads /\ Used <= StorageBytes
          /\ Req(u) \in dirs
       THEN session' = [session EXCEPT
              ![u].pc = "stream", ![u].token = TRUE, ![u].linked = TRUE,
              ![u].part = [size |-> 0, whole |-> FALSE, synced |-> FALSE]]
       ELSE Goto(u, "undo")
  /\ UNCHANGED <<jobs, lock, fileVars, cleaner, answered, faults>>

MutantFits == Used <= StorageBytes   \* without the chunk to be written

Fits == Used + 1 <= StorageBytes

MutantWrite(u) ==   \* the limit is tested one chunk late
  /\ At(u, "stream")
  /\ IF session[u].part.size > AudioBytes THEN Goto(u, "refuse")
     ELSE IF ~Fits THEN Goto(u, "undo")
     ELSE session' = [session EXCEPT ![u].part.size = @ + 1]
  /\ UNCHANGED <<jobs, lock, fileVars, stale, cleaner, answered, faults>>

\* One chunk arrives, and is written under the admission lock.
Write(u) ==
  /\ At(u, "stream")
  /\ IF session[u].part.size = AudioBytes THEN Goto(u, "refuse")
     ELSE IF ~Fits THEN Goto(u, "undo")
     ELSE session' = [session EXCEPT ![u].part.size = @ + 1]
  /\ UNCHANGED <<jobs, lock, fileVars, stale, cleaner, answered, faults>>

\* The client has sent everything; an empty upload is not refused.
StreamEnds(u) ==
  /\ At(u, "stream")
  /\ session[u].part.size >= SmallestAudio
  /\ session' = [session EXCEPT ![u].pc = "sync", ![u].part.whole = TRUE]
  /\ UNCHANGED <<jobs, lock, fileVars, stale, cleaner, answered, faults>>

MutantStreamCut(u) ==   \* the iterator just ends
  /\ At(u, "stream")
  /\ Fault
  /\ Goto(u, "sync")
  /\ UNCHANGED <<jobs, lock, fileVars, stale, cleaner, answered>>

\* The call is cancelled or breaks: the iterator raises, or ends and the
\* context is found inactive.
StreamCut(u) ==
  /\ At(u, "stream")
  /\ Fault
  /\ Goto(u, "undo")
  /\ UNCHANGED <<jobs, lock, fileVars, stale, cleaner, answered>>

\* fsync, and the token is given back.
Sync(u) ==
  /\ At(u, "sync")
  /\ session' = [session EXCEPT ![u].pc = "rename", ![u].part.synced = TRUE,
                                ![u].token = FALSE]
  /\ UNCHANGED <<jobs, lock, fileVars, stale, cleaner, answered, faults>>

\* os.replace; it fails when the partial file has lost its name.
Rename(u) ==
  /\ At(u, "rename")
  /\ IF session[u].linked
       THEN /\ input' = [input EXCEPT ![Req(u)] = session[u].part]
            /\ session' = [session EXCEPT ![u].pc = "dirsync", ![u].part = NoFile,
                                          ![u].linked = FALSE]
       ELSE UNCHANGED input /\ Goto(u, "undo")
  /\ UNCHANGED <<jobs, lock, entered, orphans, dirs, stale, cleaner, answered,
                 faults>>

\* fsync of the directory, which cannot be opened once cleanup removed it.
SyncDirectory(u) ==
  /\ At(u, "dirsync")
  /\ entered' = IF input[Req(u)] = NoFile THEN entered
                ELSE entered \cup {Req(u)}
  /\ Goto(u, IF Req(u) \in dirs THEN "queue" ELSE "undo")
  /\ UNCHANGED <<jobs, lock, input, orphans, dirs, stale, cleaner, answered,
                 faults>>

MutantMarkQueued(u) ==   \* whatever became of the job meanwhile
  /\ At(u, "queue")
  /\ jobs' = IF Exists(jobs[Req(u)])
               THEN [jobs EXCEPT ![Req(u)] = MarkQueuedSet(@)] ELSE jobs
  /\ session' = [session EXCEPT ![u].pc = "release",
                                ![u].ok = Exists(jobs[Req(u)])]
  /\ UNCHANGED <<lock, fileVars, stale, cleaner, answered, faults>>

\* mark_queued; a job that was cancelled or queued meanwhile aborts Submit.
MarkQueued(u) ==
  /\ At(u, "queue")
  /\ jobs' = IF Uploading(jobs[Req(u)])
               THEN [jobs EXCEPT ![Req(u)] = MarkQueuedSet(@)] ELSE jobs
  /\ session' = [session EXCEPT ![u].pc = "release",
                                ![u].ok = Uploading(jobs[Req(u)])]
  /\ UNCHANGED <<lock, fileVars, stale, cleaner, answered, faults>>

\* The except clause: the token was given back, the partial file is unlinked.
Undo(u) ==
  /\ session[u].pc \in {"undo", "refuse"}
  /\ session' = [session EXCEPT
       ![u].pc = IF At(u, "undo") /\ Req(u) \in Named THEN "interrupted"
                 ELSE "failed",
       ![u].part = NoFile, ![u].linked = FALSE, ![u].token = FALSE]
  /\ UNCHANGED <<jobs, lock, fileVars, stale, cleaner, answered, faults>>

\* mark_upload_interrupted leaves the job recoverable; fail_job ends it.
Settle(u) ==
  /\ session[u].pc \in {"interrupted", "failed"}
  /\ jobs' = IF At(u, "failed") /\ FailWhere(jobs[Req(u)], 0, FALSE)
               THEN [jobs EXCEPT ![Req(u)] = FailSet(@, FALSE)] ELSE jobs
  /\ Goto(u, "release")
  /\ UNCHANGED <<lock, fileVars, stale, cleaner, answered, faults>>

-----------------------------------------------------------------------------
(* Faults.                                                                 *)

\* A statement fails, or the disk does.  Before the partial file is opened and
\* after the rename this leaves the reservation, in between it is undone.
StepFails(u) ==
  /\ session[u].pc \in {"lookup", "create", "mark", "clear", "stream", "sync",
                        "rename", "dirsync", "queue", "interrupted", "failed"}
  /\ Fault
  /\ Goto(u, IF session[u].pc \in {"stream", "sync", "rename", "dirsync"}
               THEN "undo" ELSE "release")
  /\ UNCHANGED <<jobs, lock, fileVars, stale, cleaner, answered>>

\* The connection that holds the advisory lock breaks; the upload goes on.
LoseLock(r) ==
  /\ lock[r] # NoSession
  /\ Fault
  /\ lock' = [lock EXCEPT ![r] = NoSession]
  /\ UNCHANGED <<jobs, session, fileVars, stale, cleaner, answered>>

\* What the sessions in dead leave behind when their processes die.
Killed(dead) ==
  /\ session' = [u \in Sessions |-> IF u \in dead THEN NoUpload ELSE session[u]]
  /\ lock' = [r \in Requests |-> IF lock[r] \in dead THEN NoSession ELSE lock[r]]
  /\ orphans' = [r \in Requests |-> orphans[r] +
       SumFunction([u \in dead |-> IF session[u].linked /\ Req(u) = r
                                      THEN session[u].part.size ELSE 0])]
  /\ stale' = stale + Cardinality(dead \cap Active)

Crash(u) ==
  /\ ~At(u, "idle")
  /\ Fault
  /\ Killed({u})
  /\ UNCHANGED <<jobs, input, entered, dirs, cleaner, answered>>

\* The machine goes down: what was not synced may be lost.
PowerLoss ==
  /\ Fault
  /\ Killed(Sessions)
  /\ \E after \in [Requests -> File \cup {NoFile}] :
       /\ \A r \in Requests :
            \/ after[r] = input[r] /\ (input[r] # NoFile => input[r].synced)
            \/ input[r] # NoFile /\ ~input[r].synced
                 /\ after[r] = [input[r] EXCEPT !.whole = FALSE]
            \/ r \notin entered /\ after[r] = NoFile
       /\ input' = after
  /\ cleaner' = [pc |-> "idle", req |-> NoRequest]
  /\ UNCHANGED <<jobs, entered, dirs, answered>>

-----------------------------------------------------------------------------
(* Clients, workers and the cleanup worker.                                *)

Change(r, row) ==
  /\ jobs' = [jobs EXCEPT ![r] = row]
  /\ UNCHANGED <<session, lock, fileVars, stale, cleaner, answered, faults>>

CancelJob(r) == CancelWhere(jobs[r]) /\ Change(r, EndFailedSet(jobs[r]))

AcknowledgeJob(r) == AckWhere(jobs[r]) /\ Change(r, AckSet(jobs[r]))

\* Some worker takes the job to its end.
JobEnds(r) == Pending(jobs[r]) /\ Change(r, [jobs[r] EXCEPT !.status = "done"])

\* The row is deleted; its files follow in three steps.
CleanupRow(r) ==
  /\ cleaner.pc = "idle"
  /\ CleanupWhere(jobs[r], r \in RetainedJobs)
  /\ jobs' = [jobs EXCEPT ![r] = DeletedRow]
  /\ cleaner' = [pc |-> "input", req |-> r]
  /\ UNCHANGED <<session, lock, fileVars, stale, answered, faults>>

CleanupInput ==
  /\ cleaner.pc = "input"
  /\ input' = [input EXCEPT ![cleaner.req] = NoFile]
  /\ cleaner' = [cleaner EXCEPT !.pc = "partials"]
  /\ UNCHANGED <<jobs, session, lock, entered, orphans, dirs, stale, answered,
                 faults>>

CleanupPartials ==
  /\ cleaner.pc = "partials"
  /\ session' = PartialsRemoved(cleaner.req)
  /\ orphans' = [orphans EXCEPT ![cleaner.req] = 0]
  /\ cleaner' = [cleaner EXCEPT !.pc = "rmdir"]
  /\ UNCHANGED <<jobs, lock, input, entered, dirs, stale, answered, faults>>

\* rmdir fails, silently, if a session has put a file there meanwhile.
CleanupDirectory ==
  /\ cleaner.pc = "rmdir"
  /\ LET r == cleaner.req IN
       dirs' = IF input[r] = NoFile /\ orphans[r] = 0
                    /\ ~\E u \in Sessions : Req(u) = r /\ session[u].linked
                 THEN dirs \ {r} ELSE dirs
  /\ cleaner' = [pc |-> "idle", req |-> NoRequest]
  /\ UNCHANGED <<jobs, session, lock, input, entered, orphans, stale, answered,
                 faults>>

-----------------------------------------------------------------------------

SessionStep(u) ==
  \/ Lookup(u) \/ Create(u) \/ MarkDownloading(u) \/ ClearPartials(u)
  \/ Admit(u) \/ Write(u) \/ StreamEnds(u) \/ Sync(u) \/ Rename(u)
  \/ SyncDirectory(u) \/ MarkQueued(u) \/ Undo(u) \/ Settle(u) \/ Release(u)

FaultStep ==
  \/ \E u \in Sessions : StreamCut(u) \/ StepFails(u) \/ Crash(u)
  \/ \E r \in Requests : LoseLock(r)
  \/ PowerLoss

Next ==
  \/ \E u \in Sessions : SessionStep(u) \/ \E r \in Requests : Reserve(u, r)
  \/ FaultStep
  \/ \E r \in Requests : \/ CancelJob(r) \/ AcknowledgeJob(r) \/ JobEnds(r)
                         \/ CleanupRow(r)
  \/ CleanupInput \/ CleanupPartials \/ CleanupDirectory

Spec == Init /\ [][Next]_vars

\* Handlers and the streams of clients go on, and a client that has no answer
\* submits a named request again, as README.md asks of durable clients.
Fairness ==
  /\ \A u \in Sessions : WF_vars(SessionStep(u))
  /\ \A r \in Named : SF_vars(\E u \in Sessions : Reserve(u, r))

FairSpec == Spec /\ Fairness

-----------------------------------------------------------------------------
(* Properties.                                                             *)

\* Every variable stays in its type.
TypeOK ==
  /\ jobs \in [Requests -> Row]
  /\ session \in [Sessions -> Session]
  /\ lock \in [Requests -> Sessions \cup {NoSession}]
  /\ input \in [Requests -> File \cup {NoFile}]
  /\ entered \subseteq Requests /\ dirs \subseteq Requests
  /\ orphans \in [Requests -> 0 .. StorageBytes]
  /\ stale \in Nat
  /\ cleaner \in [pc  : {"idle", "input", "partials", "rmdir"},
                  req : Requests \cup {NoRequest}]
  /\ answered \subseteq Requests
  /\ faults \in 0 .. MaxFaults

\* README.md: after fsync, atomic rename publishes the complete audio before
\* the job becomes queued: a job some worker may take has its whole input on
\* stable storage, whoever else uploads under its identity with or without the
\* lock, and whatever crashed.
QueuedHasInput ==
  \A r \in Requests :
    Pending(jobs[r]) =>
      input[r] # NoFile /\ input[r].whole /\ input[r].synced /\ r \in entered

\* A client that was given the job ID need not upload again: its job is queued
\* or beyond, never open.
AnsweredIsQueued ==
  \A r \in answered : ~Uploading(jobs[r]) /\ jobs[r].status # "absent"

\* "Only the holder of this request's session lock can touch partials"
\* (server.py:154): a session whose partial file another one removes does not
\* hold the lock at that moment, unless cleanup has deleted the job.
PartialsArePrivate ==
  [][\A u \in Sessions :
       session[u].linked /\ ~session'[u].linked /\ session'[u].pc = session[u].pc
         => \/ Req(u) \in Named /\ lock[Req(u)] # u
            \/ jobs[Req(u)].status = "deleted"]_vars

\* A job that ended, by cancellation during its upload for instance, stays
\* ended: no session, retry or duplicate brings it back.
NeverReopened ==
  [][\A r \in Requests :
       jobs[r].status \in {"done", "failed", "deleted"}
         => jobs'[r].status \in {jobs[r].status, "deleted"}]_vars

\* The files on the volume never exceed the budget, whichever sessions write
\* at once and whatever crashed ones left behind.
StorageBound == Used <= StorageBytes

\* No more sessions stream at once than the configuration allows.
UploadBound == Cardinality({u \in Sessions : At(u, "stream")}) <= ConcurrentUploads

\* A named upload gets through in the end if its client goes on submitting it:
\* partial files, locks and tokens of dead sessions do not stand in its way.
UploadsSettle == \A r \in Named : Uploading(jobs[r]) ~> ~Uploading(jobs[r])

=============================================================================
