------------------------- MODULE BrokerLeases_proofs -------------------------
(***************************************************************************)
(* Theorems about the attempts of BrokerDelivery: verdicts are those of    *)
(* the newest attempt, a token is told to one slot, the execution limits   *)
(* hold, and clients see what JobLifecycle promises.                       *)
(*                                                                         *)
(* They rest on one lemma, RowsMove: a step begins an attempt of one job,  *)
(* takes the verdict on one job, or leaves every row to a quiet statement. *)
(***************************************************************************)
EXTENDS BrokerDelivery_proofs, FiniteSetTheorems

-----------------------------------------------------------------------------
(* What a step does to the rows.                                           *)

RowsQuiet ==
  \A j \in Jobs : QuietMove(jobs[j], jobs'[j], j \in RetainedJobs)

Others(j) == \A i \in Jobs \ {j} : jobs'[i] = jobs[i]

RowStarts(j, s) ==
  /\ \E d : StartMove(jobs[j], jobs'[j], s, d)
  /\ CapacityFor(s)
  /\ Others(j)

RowSettles(j) ==
  /\ VerdictMove(jobs[j], jobs'[j])
  /\ \E r \in rpc \ rpc' : r.job = j /\ r.token = jobs[j].attempts
  /\ Others(j)

RowsMoved == \/ RowsQuiet
             \/ \E j \in Jobs, s \in Instances : RowStarts(j, s)
             \/ \E j \in Jobs : RowSettles(j)

\* Rows that stay are quiet.
LEMMA RowsStay ==
  ASSUME UNCHANGED jobs
  PROVE  RowsQuiet
BY DEF RowsQuiet, QuietMove

\* One row changes quietly.
LEMMA OneQuiet ==
  ASSUME JobsInv, NEW j \in Jobs, NEW row,
         QuietMove(jobs[j], row, j \in RetainedJobs),
         jobs' = [jobs EXCEPT ![j] = row]
  PROVE  RowsQuiet
<1>1. \A i \in Jobs : i # j => jobs'[i] = jobs[i]
  BY DEF JobsInv
<1>2. jobs'[j] = row
  BY DEF JobsInv
<1>3. \A i \in Jobs : i # j => QuietMove(jobs[i], jobs'[i], i \in RetainedJobs)
  BY <1>1 DEF QuietMove
<1> QED
  BY <1>2, <1>3 DEF RowsQuiet

\* What clients and the cleanup worker do to the rows is quiet.
LEMMA ClientMoves ==
  ASSUME TypeInv, ClientStep
  PROVE  RowsQuiet
<1>. USE DEF TypeInv
<1>1. ASSUME NEW j \in Jobs, CreateJob(j)
      PROVE  RowsQuiet
  <2>1. QuietMove(jobs[j], CreateSet, j \in RetainedJobs)
    BY <1>1 DEF CreateJob, QuietMove
  <2> QED
    BY <1>1, <2>1, OneQuiet DEF CreateJob
<1>2. ASSUME NEW j \in Jobs, MarkDownloading(j)
      PROVE  RowsQuiet
  <2>1. QuietMove(jobs[j], MarkDownloadingSet(jobs[j]), j \in RetainedJobs)
    BY <1>2 DEF MarkDownloading, QuietMove, Uploading
  <2> QED
    BY <1>2, <2>1, OneQuiet DEF MarkDownloading
<1>3. ASSUME NEW j \in Jobs, MarkQueued(j)
      PROVE  RowsQuiet
  <2>1. QuietMove(jobs[j], DispatchSet(MarkQueuedSet(jobs[j])), j \in RetainedJobs)
    BY <1>3 DEF MarkQueued, QuietMove, Uploading
  <2> QED
    BY <1>3, <2>1, OneQuiet DEF MarkQueued
<1>4. ASSUME NEW j \in Jobs, FailUpload(j)
      PROVE  RowsQuiet
  <2>1. Uploading(jobs[j])
    <3>1. RowInv(jobs[j], reconciles, 1)
      BY DEF JobsInv
    <3> QED
      BY <1>4, <3>1 DEF FailUpload, FailWhere, RowInv, RowShape
  <2>2. QuietMove(jobs[j], FailSet(jobs[j], FALSE), j \in RetainedJobs)
    BY <2>1, FinalFailure DEF QuietMove
  <2> QED
    BY <1>4, <2>2, OneQuiet DEF FailUpload
<1>5. ASSUME NEW j \in Jobs, CancelJob(j)
      PROVE  RowsQuiet
  <2>1. Uploading(jobs[j]) \/ Pending(jobs[j])
    BY <1>5 DEF CancelJob, CancelWhere, Exists, Terminal, Uploading, Pending,
                JobsInv, Row, Statuses
  <2>2. QuietMove(jobs[j], EndFailedSet(jobs[j]), j \in RetainedJobs)
    BY <2>1 DEF QuietMove
  <2> QED
    BY <1>5, <2>2, OneQuiet DEF CancelJob
<1>6. ASSUME NEW j \in Jobs, AcknowledgeJob(j)
      PROVE  RowsQuiet
  <2>1. QuietMove(jobs[j], AckSet(jobs[j]), j \in RetainedJobs)
    BY <1>6 DEF AcknowledgeJob, AckWhere, QuietMove
  <2> QED
    BY <1>6, <2>1, OneQuiet DEF AcknowledgeJob
<1>7. ASSUME NEW reaped \in SUBSET Jobs, NEW gone \in SUBSET Jobs,
             CleanupExpiredJobs(reaped, gone)
      PROVE  RowsQuiet
  <2>. SUFFICES ASSUME NEW j \in Jobs
                PROVE  QuietMove(jobs[j], jobs'[j], j \in RetainedJobs)
    BY DEF RowsQuiet
  <2>1. CASE j \in gone
    BY <1>7, <2>1 DEF CleanupExpiredJobs, QuietMove
  <2>2. CASE j \in reaped \ gone
    <3>1. Pending(jobs[j])
      BY <1>7, <2>2 DEF CleanupExpiredJobs, ReapWhere, Pending
    <3>2. jobs'[j] = EndFailedSet(jobs[j])
      BY <1>7, <2>2 DEF CleanupExpiredJobs
    <3> QED
      BY <3>1, <3>2 DEF QuietMove
  <2>3. CASE j \notin reaped \cup gone
    <3>1. jobs'[j] = jobs[j]
      BY <1>7, <2>3 DEF CleanupExpiredJobs
    <3> QED
      BY <3>1 DEF QuietMove
  <2> QED
    BY <2>1, <2>2, <2>3
<1> QED
  BY <1>1, <1>2, <1>3, <1>4, <1>5, <1>6, <1>7 DEF ClientStep

\* Of the steps of a slot, only a heartbeat writes a row.
LEMMA SlotRows ==
  ASSUME TypeInv, NEW s \in Instances, SlotStep(s)
  PROVE  RowsQuiet
<1>1. CASE Heartbeat(s)
  <2>. DEFINE j == slot[s].msg.job
  <2>1. j \in Jobs
    <3>1. slot[s].pc \in Working
      BY <1>1 DEF Heartbeat, Working, SlotStates
    <3>2. slot[s].msg \in Messages
      BY <3>1 DEF TypeInv, SlotsInv, SlotInv
    <3> QED
      BY <3>2 DEF Messages
  <2>2. Live(jobs[j])
    BY <1>1 DEF Heartbeat, HeartbeatWhere, Live
  <2>3. QuietMove(jobs[j], [jobs[j] EXCEPT !.lease = "live"], j \in RetainedJobs)
    BY <2>2 DEF QuietMove
  <2>4. jobs' = [jobs EXCEPT ![j] = [jobs[j] EXCEPT !.lease = "live"]]
    BY <1>1, <2>1 DEF Heartbeat, TypeInv, JobsInv
  <2> HIDE DEF j
  <2> QED
    BY <2>1, <2>3, <2>4, OneQuiet DEF TypeInv
<1>2. CASE ~Heartbeat(s)
  <2>1. UNCHANGED jobs
    BY <1>2 DEF SlotStep, ReportAvailability, RegisterConsumer, BecomeUnwilling,
         Withdraw, AvailabilityExpires, Subscribe, CloseConsumer, BeginAttempt,
         RpcTimeout, Finish, StopWork, AckDelivery, Crash, PublishRetry,
         PublishRetryFails
  <2> QED
    BY <2>1, RowsStay
<1> QED
  BY <1>1, <1>2

\* One row changes and the others stay.
LEMMA OneRow ==
  ASSUME JobsInv, NEW j \in Jobs, NEW row, jobs' = [jobs EXCEPT ![j] = row]
  PROVE  jobs'[j] = row /\ Others(j)
BY DEF JobsInv, Others

\* The job of a request, and what a lease owner's token says.
LEMMA RequestRow ==
  ASSUME JobsInv, RpcInv, NEW r \in rpc
  PROVE  /\ r.job \in Jobs /\ r.slot \in Instances
         /\ RowInv(jobs[r.job], reconciles, 1)
         /\ r.op # "begin" => r.token # 0
         /\ jobs[r.job].status = "running"
              => jobs[r.job].lease_owner = jobs[r.job].attempts
BY DEF JobsInv, RpcInv, GoodRequest, Request, RowInv, RowShape

\* BeginAttempt and the other handlers.
LEMMA HandlerRows ==
  ASSUME TypeInv, NEW r \in rpc, Handle(r)
  PROVE  RowsMoved
<1>. USE DEF TypeInv
<1>0. /\ r.job \in Jobs /\ r.slot \in Instances
      /\ RowInv(jobs[r.job], reconciles, 1)
      /\ r.op # "begin" => r.token # 0
      /\ jobs[r.job].status = "running"
           => jobs[r.job].lease_owner = jobs[r.job].attempts
  BY RequestRow
<1>1. CASE \/ BeginDiscards(r) \/ BeginBusy(r) \/ BeginReplays(r)
           \/ ReplayFindsNoInput(r)
  BY <1>1, RowsStay DEF BeginDiscards, BeginBusy, BeginReplays,
                        ReplayFindsNoInput, RowsMoved
<1>2. CASE BeginExhausts(r)
  <2>1. QuietMove(jobs[r.job], EndFailedSet(jobs[r.job]), r.job \in RetainedJobs)
    BY <1>2 DEF BeginExhausts, Startable, Obsolete, QuietMove
  <2>2. jobs' = [jobs EXCEPT ![r.job] = EndFailedSet(jobs[r.job])]
    BY <1>2 DEF BeginExhausts
  <2> QED
    BY <1>0, <2>1, <2>2, OneQuiet DEF RowsMoved
<1>3. ASSUME CanStart(r), jobs' = [jobs EXCEPT ![r.job] = StartSet(@, r.slot, r.did)]
      PROVE  RowsMoved
  <2>1. /\ jobs'[r.job] = StartSet(jobs[r.job], r.slot, r.did)
        /\ Others(r.job)
    BY <1>0, <1>3, OneRow
  <2>2. jobs[r.job].attempts < MaxAttempts
    BY <1>0, <1>3, MaxAttemptsAssumption
       DEF CanStart, Exhausted, RowInv, Row, Tokens
  <2>3. StartMove(jobs[r.job], jobs'[r.job], r.slot, r.did)
    BY <1>3, <2>1, <2>2 DEF StartMove, CanStart, Startable, Obsolete
  <2>4. RowStarts(r.job, r.slot)
    BY <1>3, <2>1, <2>3 DEF RowStarts, CanStart
  <2> QED
    BY <1>0, <2>4 DEF RowsMoved
<1>4. CASE BeginStarts(r) \/ BeginFindsNoInput(r)
  BY <1>3, <1>4 DEF BeginStarts, BeginFindsNoInput
<1>5. CASE FailMissingInput(r)
  <2>1. PICK seen \in SeenLive(jobs[r.job]) :
          jobs' = IF FailWhere(jobs[r.job], r.token, seen)
                    THEN [jobs EXCEPT ![r.job] = FailSet(@, FALSE)] ELSE jobs
    BY <1>5 DEF FailMissingInput
  <2>2. CASE ~FailWhere(jobs[r.job], r.token, seen)
    BY <2>1, <2>2, RowsStay DEF RowsMoved
  <2>3. CASE FailWhere(jobs[r.job], r.token, seen)
    <3>1. r.token # 0
      BY <1>0, <1>5 DEF FailMissingInput, Run
    <3>2. Pending(jobs[r.job])
      BY <2>3, <3>1 DEF FailWhere, Pending
    <3>3. QuietMove(jobs[r.job], FailSet(jobs[r.job], FALSE), r.job \in RetainedJobs)
      BY <3>2, FinalFailure DEF QuietMove
    <3>4. jobs' = [jobs EXCEPT ![r.job] = FailSet(jobs[r.job], FALSE)]
      BY <2>1, <2>3
    <3> QED
      BY <1>0, <3>3, <3>4, OneQuiet DEF RowsMoved
  <2> QED
    BY <2>2, <2>3
<1>6. CASE Complete(r)
  <2>1. PICK seen \in SeenLive(jobs[r.job]) :
          IF CompleteWhere(jobs[r.job], r.token, seen)
            THEN jobs' = [jobs EXCEPT ![r.job] = CompleteSet(@)]
            ELSE UNCHANGED jobs
    BY <1>6 DEF Complete
  <2>2. CASE ~CompleteWhere(jobs[r.job], r.token, seen)
    BY <2>1, <2>2, RowsStay DEF RowsMoved
  <2>3. CASE CompleteWhere(jobs[r.job], r.token, seen)
    <3>1. jobs[r.job].status = "running" /\ r.token = jobs[r.job].attempts
      BY <1>0, <2>3 DEF CompleteWhere
    <3>2. jobs'[r.job] = CompleteSet(jobs[r.job]) /\ Others(r.job)
      BY <1>0, <2>1, <2>3, OneRow
    <3>3. r \in rpc \ rpc'
      BY <1>6 DEF Complete
    <3>4. RowSettles(r.job)
      BY <3>1, <3>2, <3>3 DEF RowSettles, VerdictMove
    <3> QED
      BY <1>0, <3>4 DEF RowsMoved
  <2> QED
    BY <2>2, <2>3
<1>7. CASE Fail(r)
  <2>1. PICK seen \in SeenLive(jobs[r.job]) :
          IF FailWhere(jobs[r.job], r.token, seen)
            THEN FailAccepted(r, r.op = "failRetry") ELSE UNCHANGED jobs
    BY <1>7 DEF Fail
  <2>2. CASE ~FailWhere(jobs[r.job], r.token, seen)
    BY <2>1, <2>2, RowsStay DEF RowsMoved
  <2>3. CASE FailWhere(jobs[r.job], r.token, seen)
    <3>1. r.token # 0
      BY <1>0, <1>7 DEF Fail
    <3>2. jobs[r.job].status = "running" /\ r.token = jobs[r.job].attempts
      BY <1>0, <2>3, <3>1 DEF FailWhere
    <3>. DEFINE row == FailSet(jobs[r.job], r.op = "failRetry")
    <3>3. \/ jobs' = [jobs EXCEPT ![r.job] = row]
          \/ jobs' = [jobs EXCEPT ![r.job] = DispatchSet(row)]
      BY <2>1, <2>3 DEF FailAccepted
    <3>4. jobs'[r.job] \in {row, DispatchSet(row)} /\ Others(r.job)
      BY <1>0, <3>3, OneRow
    <3>5. VerdictMove(jobs[r.job], jobs'[r.job])
      BY <3>2, <3>4 DEF VerdictMove
    <3>6. r \in rpc \ rpc'
      BY <1>7 DEF Fail
    <3>7. RowSettles(r.job)
      BY <3>2, <3>4, <3>5, <3>6 DEF RowSettles
    <3> QED
      BY <1>0, <3>7 DEF RowsMoved
  <2> QED
    BY <2>2, <2>3
<1> QED
  BY <1>1, <1>2, <1>4, <1>5, <1>6, <1>7 DEF Handle

\* Every step.
LEMMA RowsMove == TypeInv /\ [Next]_vars => RowsMoved
<1>. SUFFICES ASSUME TypeInv, [Next]_vars PROVE RowsMoved
  OBVIOUS
<1>1. CASE ClientStep
  BY <1>1, ClientMoves DEF RowsMoved
<1>2. CASE BrokerStep
  <2>1. UNCHANGED jobs
    BY <1>2 DEF BrokerStep, PublishSend, RetryExpires, Deliver, PublishCommit,
         PublishAbort, LoseBrokerStorage, LoseConnection
  <2> QED
    BY <2>1, RowsStay DEF RowsMoved
<1>3. ASSUME NEW s \in Instances, SlotStep(s)
      PROVE  RowsMoved
  BY <1>3, SlotRows DEF RowsMoved
<1>4. ASSUME NEW r \in rpc, Handle(r)
      PROVE  RowsMoved
  BY <1>4, HandlerRows
<1>5. ASSUME NEW j \in Jobs, LeaseLapses(j) \/ LeaseExpires(j)
      PROVE  RowsMoved
  <2>1. \E phase \in {"lapsed", "expired"} :
          jobs' = [jobs EXCEPT ![j] = [jobs[j] EXCEPT !.lease = phase]]
    BY <1>5 DEF LeaseLapses, LeaseExpires, TypeInv, JobsInv
  <2>2. \A phase \in {"lapsed", "expired"} :
          QuietMove(jobs[j], [jobs[j] EXCEPT !.lease = phase], j \in RetainedJobs)
    BY DEF QuietMove
  <2> QED
    BY <2>1, <2>2, OneQuiet DEF RowsMoved, TypeInv
<1>6. CASE Reconcile
  <2>1. \A j \in Jobs : \/ Pending(jobs[j]) /\ jobs'[j] = DispatchSet(jobs[j])
                        \/ jobs'[j] = jobs[j]
    BY <1>6 DEF Reconcile, Adopted
  <2> QED
    BY <2>1 DEF RowsMoved, RowsQuiet, QuietMove
<1>7. CASE UNCHANGED vars
  BY <1>7, RowsStay DEF vars, RowsMoved
<1> QED
  BY <1>1, <1>2, <1>3, <1>4, <1>5, <1>6, <1>7 DEF Next

-----------------------------------------------------------------------------
(* Fencing.                                                                *)

\* The consequences of RowsMove for the newest attempt of each job.
LEMMA MovesFence ==
  ASSUME TypeInv, RowsMoved
  PROVE  \A j \in Jobs :
           jobs[j].status = "running" /\ jobs'[j].status \in {"queued", "done"}
             => /\ \E r \in rpc \ rpc' :
                     r.job = j /\ r.token = jobs[j].attempts
                /\ jobs'[j].status = "done" => jobs'[j].result = jobs[j].attempts
<1>. SUFFICES ASSUME NEW j \in Jobs,
                     jobs[j].status = "running", jobs'[j].status \in {"queued", "done"}
              PROVE  /\ \E r \in rpc \ rpc' :
                          r.job = j /\ r.token = jobs[j].attempts
                     /\ jobs'[j].status = "done"
                          => jobs'[j].result = jobs[j].attempts
  OBVIOUS
<1>1. /\ RowInv(jobs[j], reconciles, 1) /\ reconciles \in Nat
      /\ jobs[j].attempts \in Nat
  BY WrittenValues DEF TypeInv, JobsInv, BoundsInv, RowInv, Row
<1>2. CASE QuietMove(jobs[j], jobs'[j], j \in RetainedJobs)
  BY <1>1, <1>2, QuietMoves
<1>3. CASE \E s \in Instances : RowStarts(j, s)
  BY <1>1, <1>3, StartMoves DEF RowStarts
<1>4. CASE RowSettles(j)
  <2>1. /\ jobs'[j].attempts = jobs[j].attempts
        /\ jobs'[j].status = "done" => jobs'[j].result = jobs[j].attempts
    BY <1>1, <1>4, VerdictMoves DEF RowSettles
  <2> QED
    BY <1>1, <1>4, <2>1 DEF RowSettles
<1>5. CASE jobs'[j] = jobs[j]
  BY <1>2, <1>5 DEF QuietMove
<1> QED
  BY <1>2, <1>3, <1>4, <1>5 DEF RowsMoved, RowsQuiet, RowStarts, RowSettles, Others

\* Only the handler that runs a request takes it away.
LEMMA RequestsHandled ==
  ASSUME [Next]_vars, NEW r \in rpc \ rpc'
  PROVE  Handle(r)
<1>1. ASSUME NEW q \in rpc, Handle(q)
      PROVE  r = q
  BY <1>1 DEF Handle, BeginDiscards, BeginExhausts, BeginBusy, BeginReplays,
              BeginStarts, BeginFindsNoInput, ReplayFindsNoInput, NoInputFor,
              FailMissingInput, Complete, Fail
<1>2. ~ClientStep
  BY DEF ClientStep, CreateJob, MarkDownloading, MarkQueued, FailUpload,
         CancelJob, AcknowledgeJob, CleanupExpiredJobs
<1>3. ~BrokerStep
  BY DEF BrokerStep, PublishSend, PublishCommit, PublishAbort, RetryExpires,
         Deliver, LoseBrokerStorage, LoseConnection
<1>4. ASSUME NEW s \in Instances, SlotStep(s)
      PROVE  FALSE
  BY <1>4 DEF SlotStep, ReportAvailability, RegisterConsumer, BecomeUnwilling,
              Withdraw, AvailabilityExpires, Subscribe, CloseConsumer,
              BeginAttempt, RpcTimeout, RpcError, Finish, StopWork,
              Heartbeat, AckDelivery, Crash, PublishRetry,
              PublishRetryFails, Send
<1>5. \A j \in Jobs : ~LeaseLapses(j) /\ ~LeaseExpires(j)
  BY DEF LeaseLapses, LeaseExpires
<1>6. ~Reconcile /\ ~UNCHANGED vars
  BY DEF Reconcile, vars
<1> QED
  BY <1>1, <1>2, <1>3, <1>4, <1>5, <1>6 DEF Next

\* A late verdict finds that its token does not own the job any more.
LEMMA LateVerdict ==
  ASSUME TypeInv, NEW r \in rpc, Handle(r), Superseded(r)
  PROVE  UNCHANGED jobs
<1>1. /\ r.op # "begin" /\ r.token # 0
      /\ ~(jobs[r.job].status = "running" /\ jobs[r.job].lease_owner = r.token)
  BY RequestRow DEF Superseded, TypeInv
<1>2. \A seen : /\ ~CompleteWhere(jobs[r.job], r.token, seen)
                /\ ~FailWhere(jobs[r.job], r.token, seen)
  BY <1>1 DEF CompleteWhere, FailWhere
<1>3. FailMissingInput(r) \/ Complete(r) \/ Fail(r)
  BY <1>1 DEF Handle, BeginDiscards, BeginExhausts, BeginBusy, BeginReplays,
              BeginStarts, BeginFindsNoInput, ReplayFindsNoInput, NoInputFor, Run
<1> QED
  BY <1>2, <1>3 DEF FailMissingInput, Complete, Fail

\* Complete and Fail are obeyed only under the token of the newest attempt, a
\* stored result is that attempt's, and a late verdict, a final failure too,
\* leaves the row of its job as it is (the WHERE clauses of complete_job and
\* fail_job).
THEOREM NewestAttemptSettles == Spec => OnlyNewestAttemptSettles
<1>1. Spec => []TypeInv
  BY TypeInvInit, TypeInvStep, PTL DEF Spec
<1>2. TypeInv /\ [Next]_vars =>
        [/\ \A j \in Jobs :
              jobs[j].status = "running" /\ jobs'[j].status \in {"queued", "done"}
                => /\ \E r \in rpc \ rpc' :
                        r.job = j /\ r.token = jobs[j].attempts
                   /\ jobs'[j].status = "done"
                        => jobs'[j].result = jobs[j].attempts
         /\ \A r \in rpc \ rpc' :
              Superseded(r) => jobs'[r.job] = jobs[r.job]
        ]_vars
  <2>1. TypeInv /\ [Next]_vars =>
          \A r \in rpc \ rpc' : Superseded(r) => jobs'[r.job] = jobs[r.job]
    BY RequestsHandled, LateVerdict
  <2> QED
    BY <2>1, RowsMove, MovesFence
<1> QED
  BY <1>1, <1>2, PTL DEF Spec, OnlyNewestAttemptSettles

-----------------------------------------------------------------------------
(* The promise of JobLifecycle.                                            *)

\* Rows that keep their promises one by one make a step of JobLifecycle.
LEMMA PromiseStep ==
  ASSUME JobsInv', \A j \in Jobs : Keeps(jobs[j], jobs'[j], j \in RetainedJobs)
  PROVE  Lifecycle!Next
<1>. DEFINE old(j) == PromiseOf(jobs[j])
            new(j) == PromiseOf(jobs'[j])
<1>1. [j \in Jobs |-> new(j)] \in [Jobs -> Lifecycle!Promise]
  BY PromiseType DEF JobsInv, Lifecycle!Promise, Promises
<1>2. ASSUME NEW j \in Jobs
      PROVE  Lifecycle!Step(j)
               \/ Lifecycle!Becomes(j, [i \in Jobs |-> old(i)][j])
  <2>. DEFINE p == old(j)
              q == new(j)
  <2>1. PromiseMove(p, q, j \in RetainedJobs)
    BY DEF Keeps
  <2>2. [i \in Jobs |-> old(i)][j] = p /\ [i \in Jobs |-> new(i)][j] = q
    OBVIOUS
  <2> HIDE DEF p, q
  <2>3. CASE q = p
    BY <2>2, <2>3 DEF Lifecycle!Becomes
  <2>4. CASE p.phase = "absent" /\ q = NewPromise("open")
    BY <2>2, <2>4
       DEF Lifecycle!Step, Lifecycle!Submit, Lifecycle!Becomes,
           Lifecycle!NewJob, NewPromise
  <2>5. CASE p.phase = "open" /\ q = [p EXCEPT !.phase = "pending"]
    BY <2>2, <2>5 DEF Lifecycle!Step, Lifecycle!Queue, Lifecycle!Becomes
  <2>6. CASE /\ p.phase = "pending" /\ p.attempts < MaxAttempts
             /\ q = [p EXCEPT !.attempts = @ + 1]
    BY <2>2, <2>6 DEF Lifecycle!Step, Lifecycle!Attempt, Lifecycle!Becomes
  <2>7. CASE /\ p.phase = "pending" /\ p.attempts > 0
             /\ q = [p EXCEPT !.phase = "done", !.result = p.attempts]
    BY <2>2, <2>7 DEF Lifecycle!Step, Lifecycle!Finish, Lifecycle!Becomes
  <2>8. CASE p.phase \in {"open", "pending"} /\ q = [p EXCEPT !.phase = "failed"]
    BY <2>2, <2>8 DEF Lifecycle!Step, Lifecycle!Fail, Lifecycle!Becomes
  <2>9. CASE p.phase \in {"done", "failed"} /\ q = [p EXCEPT !.acked = TRUE]
    BY <2>2, <2>9 DEF Lifecycle!Step, Lifecycle!Acknowledge, Lifecycle!Becomes
  <2>10. CASE /\ p.phase \in {"done", "failed"}
              /\ (j \in RetainedJobs => p.acked)
              /\ q = NewPromise("deleted")
    BY <2>2, <2>10
       DEF Lifecycle!Step, Lifecycle!Purge, Lifecycle!Becomes,
           Lifecycle!NewJob, NewPromise
  <2> QED
    BY <2>1, <2>3, <2>4, <2>5, <2>6, <2>7, <2>8, <2>9, <2>10 DEF PromiseMove
<1> QED
  BY <1>1, <1>2 DEF Lifecycle!Next

\* Nothing has been promised about a job that does not exist.
LEMMA PromiseInit == Init => Lifecycle!Init
<1>1. PromiseOf(AbsentRow) = NewPromise("absent")
  BY DEF PromiseOf, AbsentRow, NewPromise, Uploading, Pending
<1>2. Init => \A j \in Jobs : jobs[j] = AbsentRow
  BY DEF Init
<1> QED
  BY <1>1, <1>2 DEF Lifecycle!Init, Lifecycle!NewJob, NewPromise

\* Every step keeps the promise of every job.
LEMMA MovesKeep ==
  ASSUME TypeInv, RowsMoved
  PROVE  \A j \in Jobs : Keeps(jobs[j], jobs'[j], j \in RetainedJobs)
<1>. SUFFICES ASSUME NEW j \in Jobs
              PROVE  Keeps(jobs[j], jobs'[j], j \in RetainedJobs)
  OBVIOUS
<1>1. RowInv(jobs[j], reconciles, 1) /\ reconciles \in Nat
  BY DEF TypeInv, JobsInv, BoundsInv
<1>2. CASE QuietMove(jobs[j], jobs'[j], j \in RetainedJobs)
  BY <1>1, <1>2, QuietMoves
<1>3. CASE \E s \in Instances : RowStarts(j, s)
  BY <1>1, <1>3, StartMoves DEF RowStarts
<1>4. CASE RowSettles(j)
  BY <1>1, <1>4, VerdictMoves DEF RowSettles
<1>5. CASE jobs'[j] = jobs[j]
  BY <1>2, <1>5 DEF QuietMove
<1> QED
  BY <1>2, <1>3, <1>4, <1>5 DEF RowsMoved, RowsQuiet, RowStarts, RowSettles, Others

\* What clients see of the table is a behaviour of JobLifecycle, through all
\* duplicates, late handlers, crashes and cleanups.
THEOREM PromiseKept == Spec => KeepsPromise
<1>1. Spec => []TypeInv
  BY TypeInvInit, TypeInvStep, PTL DEF Spec
<1>2. TypeInv /\ TypeInv' /\ [Next]_vars => Lifecycle!Next
  <2>1. TypeInv' => JobsInv'
    BY DEF TypeInv
  <2> QED
    BY <2>1, RowsMove, MovesKeep, PromiseStep
<1> QED
  BY <1>1, <1>2, PromiseInit, PTL DEF Spec, KeepsPromise, Lifecycle!Spec

-----------------------------------------------------------------------------
(* The execution limits.                                                   *)

LimitsInv ==
  /\ \A p \in Pools : /\ IsFiniteSet(Active(p))
                      /\ Cardinality(Active(p)) <= MaxConcurrency[p]
  /\ \A i, j \in Jobs :
       Live(jobs[i]) /\ Live(jobs[j]) /\ jobs[i].instance = jobs[j].instance
         => i = j

\* Where no lease comes to life nothing is added.
LEMMA FewerKeepLimits ==
  ASSUME LimitsInv,
         \A j \in Jobs : Live(jobs'[j]) =>
           Live(jobs[j]) /\ jobs'[j].instance = jobs[j].instance
  PROVE  LimitsInv'
<1>1. ASSUME NEW p \in Pools
      PROVE  IsFiniteSet(Active(p)') /\ Cardinality(Active(p)') <= MaxConcurrency[p]
  <2>1. Active(p)' \subseteq Active(p)
    BY DEF Active
  <2>2. /\ IsFiniteSet(Active(p)')
        /\ Cardinality(Active(p)') <= Cardinality(Active(p))
    BY <2>1, FS_Subset DEF LimitsInv
  <2>3. Cardinality(Active(p)') \in Nat /\ Cardinality(Active(p)) \in Nat
    BY <2>2, FS_CardinalityType DEF LimitsInv
  <2> QED
    BY <2>2, <2>3, BrokerAssumption DEF LimitsInv
<1> QED
  BY <1>1 DEF LimitsInv

\* An attempt begins within the capacity that CapacityFor found.
LEMMA StartKeepsLimits ==
  ASSUME TypeInv, LimitsInv, NEW j \in Jobs, NEW s \in Instances, RowStarts(j, s)
  PROVE  LimitsInv'
<1>1. /\ ~Live(jobs[j]) /\ Live(jobs'[j]) /\ jobs'[j].instance = s
      /\ \A i \in Jobs \ {j} : jobs'[i] = jobs[i]
  <2>1. RowInv(jobs[j], reconciles, 1) /\ reconciles \in Nat
    BY DEF TypeInv, JobsInv, BoundsInv
  <2> QED
    BY <2>1, StartMoves DEF RowStarts, Others
<1>2. /\ PoolOf[s] \in Pools
      /\ \A i \in Active(PoolOf[s]) : jobs[i].instance # s
      /\ Cardinality(Active(PoolOf[s])) < MaxConcurrency[PoolOf[s]]
  BY BrokerAssumption DEF RowStarts, CapacityFor
<1>3. ASSUME NEW p \in Pools
      PROVE  IsFiniteSet(Active(p)') /\ Cardinality(Active(p)') <= MaxConcurrency[p]
  <2>1. IsFiniteSet(Active(p)) /\ Cardinality(Active(p)) \in Nat
    BY FS_CardinalityType DEF LimitsInv
  <2>2. CASE p = PoolOf[s]
    <3>1. Active(p)' = Active(p) \cup {j} /\ j \notin Active(p)
      BY <1>1, <2>2 DEF Active
    <3>2. /\ IsFiniteSet(Active(p)')
          /\ Cardinality(Active(p)') = Cardinality(Active(p)) + 1
      BY <2>1, <3>1, FS_AddElement
    <3> QED
      BY <1>2, <2>1, <2>2, <3>2, BrokerAssumption
  <2>3. CASE p # PoolOf[s]
    <3>1. Active(p)' = Active(p)
      BY <1>1, <2>3 DEF Active
    <3> QED
      BY <3>1 DEF LimitsInv
  <2> QED
    BY <2>2, <2>3
<1>4. ASSUME NEW i \in Jobs, NEW k \in Jobs, Live(jobs'[i]), Live(jobs'[k]),
             jobs'[i].instance = jobs'[k].instance
      PROVE  i = k
  <2>1. \A o \in Jobs \ {j} : Live(jobs'[o]) => jobs'[o].instance # s
    BY <1>1, <1>2 DEF Active
  <2> QED
    BY <1>1, <1>4, <2>1 DEF LimitsInv
<1> QED
  BY <1>3, <1>4 DEF LimitsInv

\* Initially no attempt is live.
LEMMA LimitsInvInit == Init => LimitsInv
<1>. SUFFICES ASSUME Init PROVE LimitsInv
  OBVIOUS
<1>1. \A j \in Jobs : ~Live(jobs[j])
  BY DEF Init, AbsentRow, Live
<1>2. \A p \in Pools : Active(p) = {}
  BY <1>1 DEF Active
<1>3. IsFiniteSet({}) /\ Cardinality({}) = 0
  BY FS_EmptySet
<1> QED
  BY <1>1, <1>2, <1>3, BrokerAssumption DEF LimitsInv

\* No step lets a worker ID or a slot have more live attempts than it may.
LEMMA LimitsInvStep == TypeInv /\ LimitsInv /\ [Next]_vars => LimitsInv'
<1>. SUFFICES ASSUME TypeInv, LimitsInv, RowsMoved PROVE LimitsInv'
  BY RowsMove
<1>0. /\ \A j \in Jobs : RowInv(jobs[j], reconciles, 1)
      /\ reconciles \in Nat
  BY DEF TypeInv, JobsInv, BoundsInv
<1>1. CASE RowsQuiet
  <2>1. \A j \in Jobs : Live(jobs'[j]) =>
          Live(jobs[j]) /\ jobs'[j].instance = jobs[j].instance
    BY <1>0, <1>1, QuietMoves DEF RowsQuiet
  <2> QED
    BY <2>1, FewerKeepLimits
<1>2. ASSUME NEW j \in Jobs, RowSettles(j)
      PROVE  LimitsInv'
  <2>1. ~Live(jobs'[j])
    BY <1>0, <1>2, VerdictMoves DEF RowSettles
  <2>2. \A i \in Jobs \ {j} : jobs'[i] = jobs[i]
    BY <1>2 DEF RowSettles, Others
  <2> QED
    BY <2>1, <2>2, FewerKeepLimits
<1> QED
  BY <1>1, <1>2, StartKeepsLimits DEF RowsMoved

\* The leases that the table holds stay within the execution limit of each
\* worker ID and one job for each slot (broker_capacity.sql under the policy
\* lock), however many consumers were admitted and whatever was redelivered.
THEOREM LimitsHold == Spec => []ExecutionLimits
<1>1. Spec => []TypeInv
  BY TypeInvInit, TypeInvStep, PTL DEF Spec
<1>2. LimitsInv => ExecutionLimits
  BY DEF LimitsInv, ExecutionLimits
<1> QED
  BY <1>1, <1>2, LimitsInvInit, LimitsInvStep, PTL DEF Spec

-----------------------------------------------------------------------------
(* Tokens.  A token that a slot holds was made by an attempt of its job: it *)
(* is not newer than the newest one, and while the newest one runs under    *)
(* it, the row names the slot.                                              *)

TokenPlace(s) ==
  slot[s].token # 0 =>
    /\ slot[s].msg \in Messages
    /\ LET row == jobs[slot[s].msg.job] IN
         \/ row.status = "deleted"
         \/ /\ slot[s].token <= row.attempts
            /\ row.status = "running" /\ slot[s].token = row.attempts
                 => row.instance = s

TokenInv == (\A s \in Instances : TokenPlace(s)) /\ TokenHeldOnce

\* No slot is told a token.
SlotsKeep ==
  \A s \in Instances :
    \/ slot'[s].token = 0
    \/ slot'[s].token = slot[s].token /\ slot'[s].msg = slot[s].msg

\* Slot s is told the token of job j: that of an attempt which begins now, or,
\* once more, that of the running attempt it was given before.
Told(s, j) ==
  /\ slot[s].msg \in Messages /\ slot[s].msg.job = j
  /\ slot'[s].msg = slot[s].msg
  /\ \A t \in Instances \ {s} : slot'[t] = slot[t]
  /\ Pending(jobs[j])
  /\ slot'[s].token = jobs'[j].attempts
  /\ jobs'[j].status = "running" /\ jobs'[j].instance = s
  /\ \/ jobs'[j].attempts = jobs[j].attempts + 1
     \/ UNCHANGED jobs
  /\ Others(j)

\* The token and the message of one slot are reset or stay.
LEMMA OneSlotKeeps ==
  ASSUME SlotsInv, NEW s \in Instances, NEW st, slot' = [slot EXCEPT ![s] = st],
         st.token = 0 \/ (st.token = slot[s].token /\ st.msg = slot[s].msg)
  PROVE  SlotsKeep
BY DEF SlotsInv, SlotsKeep

\* Steps that only move the loop of a slot.
LEMMA GotoKeeps ==
  ASSUME SlotsInv
  PROVE  /\ \A s \in Instances, pc \in SlotStates : Goto(s, pc) => SlotsKeep
         /\ \A r \in Request, pc \in SlotStates : Reply(r, pc) => SlotsKeep
         /\ UNCHANGED slot => SlotsKeep
<1>1. ASSUME NEW s \in Instances, NEW pc \in SlotStates, Goto(s, pc)
      PROVE  SlotsKeep
  <2>1. slot' = [slot EXCEPT ![s] = [slot[s] EXCEPT !.pc = pc]]
    BY <1>1 DEF Goto, SlotsInv
  <2>2. /\ [slot[s] EXCEPT !.pc = pc].token = slot[s].token
        /\ [slot[s] EXCEPT !.pc = pc].msg = slot[s].msg
    BY DEF SlotsInv, Slot
  <2> QED
    BY <2>1, <2>2, OneSlotKeeps
<1>2. UNCHANGED slot => SlotsKeep
  BY DEF SlotsKeep
<1>3. ASSUME NEW r \in Request, NEW pc \in SlotStates, Reply(r, pc)
      PROVE  SlotsKeep
  <2>1. r.slot \in Instances
    BY DEF Request
  <2> QED
    BY <1>1, <1>2, <1>3, <2>1 DEF Reply
<1> QED
  BY <1>1, <1>2, <1>3

\* Steps that send: the state sent from keeps the token and the message.
LEMMA SendKeeps ==
  ASSUME SlotsInv, NEW s \in Instances, NEW st, Send(s, st),
         st.token = slot[s].token, st.msg = slot[s].msg
  PROVE  SlotsKeep
BY OneSlotKeeps DEF Send

\* What the broker does resets tokens or keeps them.
LEMMA BrokerKeeps ==
  ASSUME TypeInv, BrokerStep
  PROVE  SlotsKeep
<1>. USE DEF TypeInv
<1>1. ASSUME NEW s \in Instances, NEW m \in Messages, Deliver(s, m)
      PROVE  SlotsKeep
  <2>1. [OffSlot EXCEPT !.pc = "got", !.msg = m, !.held = TRUE].token = 0
    BY DEF OffSlot
  <2> QED
    BY <1>1, <2>1, OneSlotKeeps DEF Deliver
<1>2. ASSUME NEW s \in Instances, LoseConnection(s)
      PROVE  SlotsKeep
  <2>1. /\ OffSlot.token = 0
        /\ [slot[s] EXCEPT !.held = FALSE].token = slot[s].token
        /\ [slot[s] EXCEPT !.held = FALSE].msg = slot[s].msg
    BY DEF OffSlot, SlotsInv, Slot
  <2>2. slot' = [slot EXCEPT ![s] = IF slot[s].pc \in {"idle", "got"} THEN OffSlot
                                    ELSE [slot[s] EXCEPT !.held = FALSE]]
    BY <1>2 DEF LoseConnection, SlotsInv
  <2> QED
    BY <2>1, <2>2, OneSlotKeeps
<1>3. CASE LoseBrokerStorage
  <2>1. \A s \in Instances :
          /\ OffSlot.token = 0
          /\ [slot[s] EXCEPT !.held = FALSE].token = slot[s].token
          /\ [slot[s] EXCEPT !.held = FALSE].msg = slot[s].msg
    BY DEF OffSlot, SlotsInv, Slot
  <2>2. \A s \in Instances : \/ slot'[s] = OffSlot
                             \/ slot'[s] = [slot[s] EXCEPT !.held = FALSE]
    BY <1>3 DEF LoseBrokerStorage
  <2> QED
    BY <2>1, <2>2 DEF SlotsKeep
<1>4. CASE UNCHANGED slot
  BY <1>4, GotoKeeps
<1> QED
  BY <1>1, <1>2, <1>3, <1>4
     DEF BrokerStep, PublishSend, RetryExpires, PublishCommit, PublishAbort

\* So does every step of the loop of a slot.
LEMMA SlotKeeps ==
  ASSUME TypeInv, NEW s \in Instances, SlotStep(s)
  PROVE  SlotsKeep
<1>. USE DEF TypeInv
<1>1. OffSlot.token = 0 /\ [OffSlot EXCEPT !.pc = "idle"].token = 0
        /\ [OffSlot EXCEPT !.pc = "dead"].token = 0
  BY DEF OffSlot
<1>2. CASE CloseConsumer(s) \/ AckDelivery(s) \/ Crash(s)
  BY <1>1, <1>2, OneSlotKeeps DEF CloseConsumer, AckDelivery, Crash
<1>3. {"idle", "close", "ack"} \subseteq SlotStates
  BY DEF SlotStates
<1>4. CASE \/ Subscribe(s) \/ StopWork(s) \/ PublishRetry(s)
           \/ \E taken \in BOOLEAN : PublishRetryFails(s, taken)
  <2>1. Goto(s, "idle") \/ Goto(s, "close") \/ Goto(s, "ack")
    BY <1>4 DEF Subscribe, StopWork, PublishRetry, PublishRetryFails, Goto
  <2> QED
    BY <1>3, <2>1, GotoKeeps
<1>5. CASE BeginAttempt(s)
  <2>1. PICK d \in UnusedDeliveryIds :
          Send(s, [slot[s] EXCEPT !.pc = "begin", !.did = d, !.try = 1])
    BY <1>5 DEF BeginAttempt
  <2>2. /\ [slot[s] EXCEPT !.pc = "begin", !.did = d, !.try = 1].token
             = slot[s].token
        /\ [slot[s] EXCEPT !.pc = "begin", !.did = d, !.try = 1].msg
             = slot[s].msg
    BY DEF SlotsInv, Slot
  <2> QED
    BY <2>1, <2>2, SendKeeps
<1>6. CASE RpcTimeout(s)
  <2>1. /\ [slot[s] EXCEPT !.try = 2].token = slot[s].token
        /\ [slot[s] EXCEPT !.try = 2].msg = slot[s].msg
    BY DEF SlotsInv, Slot
  <2>2. Send(s, [slot[s] EXCEPT !.try = 2]) \/ Goto(s, "close")
    BY <1>6 DEF RpcTimeout, RpcError
  <2> QED
    BY <1>3, <2>1, <2>2, SendKeeps, GotoKeeps
<1>7. ASSUME NEW op \in {"complete", "failRetry", "failFinal"}, Finish(s, op)
      PROVE  SlotsKeep
  <2>1. /\ [slot[s] EXCEPT !.pc = op].token = slot[s].token
        /\ [slot[s] EXCEPT !.pc = op].msg = slot[s].msg
    BY DEF SlotsInv, Slot
  <2> QED
    BY <1>7, <2>1, SendKeeps DEF Finish
<1>8. CASE UNCHANGED slot
  BY <1>8, GotoKeeps
<1> QED
  BY <1>2, <1>4, <1>5, <1>6, <1>7, <1>8
     DEF SlotStep, ReportAvailability, RegisterConsumer, BecomeUnwilling,
         Withdraw, AvailabilityExpires, Heartbeat

\* BeginAttempt tells its caller a token, if it still waits.
LEMMA StartTells ==
  ASSUME TypeInv, NEW r \in rpc, NEW t, r.op = "begin", ReplyStarted(r, t),
         Pending(jobs[r.job]), t = jobs'[r.job].attempts,
         jobs'[r.job].status = "running", jobs'[r.job].instance = r.slot,
         \/ jobs'[r.job].attempts = jobs[r.job].attempts + 1
         \/ UNCHANGED jobs,
         Others(r.job)
  PROVE  SlotsKeep \/ \E s \in Instances, j \in Jobs : Told(s, j)
<1>1. r \in Request /\ r.job \in Jobs /\ r.slot \in Instances
  BY DEF TypeInv, RpcInv, GoodRequest, Request
<1>2. CASE ~Waiting(r)
  BY <1>2, GotoKeeps DEF ReplyStarted, TypeInv
<1>3. CASE Waiting(r)
  <2>1. slot[r.slot].pc \in Working /\ slot[r.slot].msg.job = r.job
    BY <1>1, <1>3, WaitingCaller, WorkingStates
  <2>2. slot[r.slot].msg \in Messages
    BY <1>1, <2>1 DEF TypeInv, SlotsInv, SlotInv
  <2>3. slot' = [slot EXCEPT ![r.slot] =
                   [slot[r.slot] EXCEPT !.pc = "work", !.token = t]]
    BY <1>1, <1>3 DEF ReplyStarted, TypeInv, SlotsInv
  <2>4. /\ slot'[r.slot].token = t /\ slot'[r.slot].msg = slot[r.slot].msg
        /\ \A i \in Instances \ {r.slot} : slot'[i] = slot[i]
    BY <1>1, <2>3 DEF TypeInv, SlotsInv, Slot
  <2>5. Told(r.slot, r.job)
    BY <2>1, <2>2, <2>4 DEF Told
  <2> QED
    BY <1>1, <2>5
<1> QED
  BY <1>2, <1>3

\* A handler may tell its caller the token of the attempt it has begun.
LEMMA HandlerTells ==
  ASSUME TypeInv, NEW r \in rpc, Handle(r)
  PROVE  SlotsKeep \/ \E s \in Instances, j \in Jobs : Told(s, j)
<1>0. /\ r \in Request /\ r.job \in Jobs /\ r.slot \in Instances
      /\ RowInv(jobs[r.job], reconciles, 1) /\ reconciles \in Nat
      /\ {"ack", "busy", "close"} \subseteq SlotStates
      /\ SlotsInv /\ JobsInv
  BY RequestRow DEF TypeInv, RpcInv, GoodRequest, BoundsInv, SlotStates
<1>1. CASE \/ BeginDiscards(r) \/ BeginExhausts(r) \/ BeginBusy(r)
           \/ Complete(r) \/ Fail(r)
  <2>1. Reply(r, "ack") \/ Reply(r, "busy") \/ Reply(r, "close")
    BY <1>1 DEF BeginDiscards, BeginExhausts, BeginBusy, Complete, Fail
  <2> QED
    BY <1>0, <2>1, GotoKeeps
<1>2. CASE BeginFindsNoInput(r) \/ ReplayFindsNoInput(r)
  BY <1>0, <1>2, GotoKeeps DEF BeginFindsNoInput, ReplayFindsNoInput, NoInputFor
<1>3. CASE FailMissingInput(r)
  <2>1. /\ [slot[r.slot] EXCEPT !.try = 2].token = slot[r.slot].token
        /\ [slot[r.slot] EXCEPT !.try = 2].msg = slot[r.slot].msg
    BY <1>0 DEF SlotsInv, Slot
  <2>2. \/ slot' = [slot EXCEPT ![r.slot] = [slot[r.slot] EXCEPT !.try = 2]]
        \/ Goto(r.slot, "close")
        \/ UNCHANGED slot
    BY <1>3 DEF FailMissingInput
  <2> QED
    BY <1>0, <2>1, <2>2, OneSlotKeeps, GotoKeeps
<1>4. CASE BeginReplays(r)
  <2>1. /\ r.op = "begin" /\ ReplyStarted(r, jobs[r.job].lease_owner)
        /\ Pending(jobs[r.job]) /\ jobs[r.job].status = "running"
        /\ jobs[r.job].instance = r.slot
        /\ UNCHANGED jobs
    BY <1>4 DEF BeginReplays, Run, Obsolete, Replayed, Live
  <2>2. jobs[r.job].lease_owner = jobs'[r.job].attempts
    BY <1>0, <2>1 DEF RowInv, RowShape
  <2>3. Others(r.job)
    BY <2>1 DEF Others
  <2> QED
    BY <2>1, <2>2, <2>3, StartTells
<1>5. CASE BeginStarts(r)
  <2>1. /\ r.op = "begin" /\ ReplyStarted(r, jobs[r.job].attempts + 1)
        /\ Pending(jobs[r.job])
    BY <1>5 DEF BeginStarts, Run, CanStart, Startable, Obsolete
  <2>2. jobs'[r.job] = StartSet(jobs[r.job], r.slot, r.did) /\ Others(r.job)
    BY <1>0, <1>5, OneRow DEF BeginStarts
  <2>3. /\ jobs'[r.job].attempts = jobs[r.job].attempts + 1
        /\ jobs'[r.job].status = "running" /\ jobs'[r.job].instance = r.slot
    BY <1>0, <2>2 DEF StartSet, RowInv, Row
  <2> QED
    BY <2>1, <2>2, <2>3, StartTells
<1> QED
  BY <1>1, <1>2, <1>3, <1>4, <1>5 DEF Handle

\* A step tells one slot its token, or leaves all tokens alone.
LEMMA StepTells ==
  TypeInv /\ [Next]_vars
    => SlotsKeep \/ \E s \in Instances, j \in Jobs : Told(s, j)
<1>. SUFFICES ASSUME TypeInv, [Next]_vars
              PROVE  SlotsKeep \/ \E s \in Instances, j \in Jobs : Told(s, j)
  OBVIOUS
<1>1. CASE UNCHANGED slot
  BY <1>1, GotoKeeps DEF TypeInv
<1>2. CASE ClientStep
  <2>1. UNCHANGED slot
    BY <1>2 DEF ClientStep, CreateJob, MarkDownloading, MarkQueued, FailUpload,
         CancelJob, AcknowledgeJob, CleanupExpiredJobs
  <2> QED
    BY <1>1, <2>1
<1>3. \A j \in Jobs : LeaseLapses(j) \/ LeaseExpires(j) => UNCHANGED slot
  BY DEF LeaseLapses, LeaseExpires
<1>4. Reconcile \/ UNCHANGED vars => UNCHANGED slot
  BY DEF Reconcile, vars
<1>5. CASE BrokerStep
  BY <1>5, BrokerKeeps
<1>6. ASSUME NEW s \in Instances, SlotStep(s)
      PROVE  SlotsKeep
  BY <1>6, SlotKeeps
<1>7. ASSUME NEW r \in rpc, Handle(r)
      PROVE  SlotsKeep \/ \E s \in Instances, j \in Jobs : Told(s, j)
  BY <1>7, HandlerTells
<1> QED
  BY <1>1, <1>2, <1>3, <1>4, <1>5, <1>6, <1>7 DEF Next

\* A row that moved leaves the tokens of its job in their place.
LEMMA MovesLast ==
  ASSUME TypeInv, RowsMoved, NEW j \in Jobs
  PROVE  \/ jobs'[j].status = "deleted"
         \/ /\ jobs[j].status # "deleted"
            /\ jobs'[j].attempts >= jobs[j].attempts
            /\ jobs'[j].status = "running" /\ jobs'[j].attempts = jobs[j].attempts
                 => /\ jobs[j].status = "running"
                    /\ jobs'[j].instance = jobs[j].instance
<1>1. /\ RowInv(jobs[j], reconciles, 1) /\ reconciles \in Nat
      /\ jobs[j].attempts \in Nat
  BY WrittenValues DEF TypeInv, JobsInv, BoundsInv, RowInv, Row
<1>2. CASE QuietMove(jobs[j], jobs'[j], j \in RetainedJobs)
  <2>1. \/ jobs'[j].status = "deleted" /\ jobs'[j].attempts = 0
        \/ /\ jobs'[j].attempts = jobs[j].attempts
           /\ jobs[j].status = "deleted" => jobs'[j].status = "deleted"
           /\ jobs'[j].status = "running" =>
                 /\ jobs[j].status = "running"
                 /\ jobs'[j].instance = jobs[j].instance
    BY <1>1, <1>2, QuietMoves
  <2> QED
    BY <1>1, <2>1
<1>3. CASE \E s \in Instances : RowStarts(j, s)
  <2>1. jobs'[j].attempts = jobs[j].attempts + 1
    BY <1>1, <1>3, StartMoves DEF RowStarts
  <2>2. jobs[j].status # "deleted"
    BY <1>3 DEF RowStarts, StartMove, Pending
  <2> QED
    BY <1>1, <2>1, <2>2
<1>4. CASE RowSettles(j)
  <2>1. jobs'[j].attempts = jobs[j].attempts /\ jobs'[j].status # "running"
    BY <1>1, <1>4, VerdictMoves DEF RowSettles
  <2>2. jobs[j].status # "deleted"
    BY <1>4 DEF RowSettles, VerdictMove
  <2> QED
    BY <1>1, <2>1, <2>2
<1>5. CASE jobs'[j] = jobs[j]
  BY <1>2, <1>5 DEF QuietMove
<1> QED
  BY <1>2, <1>3, <1>4, <1>5 DEF RowsMoved, RowsQuiet, RowStarts, RowSettles, Others

\* A token that a slot keeps stays in its place.
LEMMA PlaceKept ==
  ASSUME TypeInv, TypeInv', RowsMoved, NEW s \in Instances, TokenPlace(s),
         \/ slot'[s].token = 0
         \/ slot'[s].token = slot[s].token /\ slot'[s].msg = slot[s].msg
  PROVE  TokenPlace(s)'
<1>. SUFFICES ASSUME slot'[s].token # 0, slot'[s].token = slot[s].token,
                     slot'[s].msg = slot[s].msg
              PROVE  TokenPlace(s)'
  BY DEF TokenPlace
<1>. DEFINE j == slot[s].msg.job
<1>1. slot[s].msg \in Messages /\ j \in Jobs
  BY DEF TokenPlace, Messages
<1>2. slot[s].token \in Nat /\ jobs[j].attempts \in Nat /\ jobs'[j].attempts \in Nat
  <2>1. /\ slot[s].token \in Tokens
        /\ jobs[j].attempts \in Tokens /\ jobs'[j].attempts \in Tokens
    BY <1>1 DEF TypeInv, SlotsInv, Slot, JobsInv, Row
  <2> QED
    BY <2>1, WrittenValues
<1> QED
  BY <1>1, <1>2, MovesLast DEF TokenPlace

\* Initially no slot holds a token.
LEMMA TokenInvInit == Init => TokenInv
<1>. SUFFICES ASSUME Init PROVE \A s \in Instances : slot[s].token = 0
  BY DEF TokenInv, TokenPlace, TokenHeldOnce
<1> QED
  BY DEF Init, OffSlot

\* A token that is told is newer than every other of its job, or the row says
\* that it is the slot's own.
LEMMA ToldOnce ==
  ASSUME TypeInv, TypeInv', RowsMoved, TokenInv,
         NEW s \in Instances, NEW j \in Jobs, Told(s, j)
  PROVE  TokenInv'
<1>1. \A t \in Instances \ {s} : slot'[t] = slot[t] /\ TokenPlace(t)'
  BY PlaceKept DEF TokenInv, Told
<1>2. TokenPlace(s)'
  <2>1. jobs'[j].attempts \in Tokens
    BY DEF TypeInv, JobsInv, Row
  <2>2. jobs'[j].attempts \in Nat
    BY <2>1, WrittenValues
  <2> QED
    BY <2>2 DEF TokenPlace, Told
<1>3. ASSUME NEW t \in Instances \ {s}, slot[t].token # 0,
             slot[t].token = slot'[s].token, slot[t].msg.job = j
      PROVE  FALSE
  <2>1. /\ slot[t].token = jobs'[j].attempts
        /\ jobs[j].status # "deleted"
        /\ slot[t].token <= jobs[j].attempts
        /\ jobs[j].status = "running" /\ slot[t].token = jobs[j].attempts
             => jobs[j].instance = t
    BY <1>3 DEF TokenInv, TokenPlace, Told, Pending
  <2>2. jobs[j].attempts \in Tokens
    BY DEF TypeInv, JobsInv, Row
  <2>3. jobs[j].attempts \in Nat
    BY <2>2, WrittenValues
  <2>4. CASE jobs'[j].attempts = jobs[j].attempts + 1
    BY <2>1, <2>3, <2>4
  <2>5. CASE UNCHANGED jobs
    BY <2>1, <2>5 DEF Told
  <2> QED
    BY <2>4, <2>5 DEF Told
<1>4. slot'[s].msg.job = j
  BY DEF Told
<1>5. TokenHeldOnce'
  <2>. SUFFICES ASSUME NEW t \in Instances, NEW u \in Instances, t # u,
                       slot'[t].token # 0, slot'[t].token = slot'[u].token,
                       slot'[t].msg.job = slot'[u].msg.job
                PROVE  FALSE
    BY DEF TokenHeldOnce
  <2>1. CASE t # s /\ u # s
    BY <1>1, <2>1 DEF TokenInv, TokenHeldOnce
  <2>2. CASE t = s
    <3>1. /\ u \in Instances \ {s} /\ slot[u].token # 0
          /\ slot[u].token = slot'[s].token /\ slot[u].msg.job = j
      BY <1>1, <1>4, <2>2
    <3> QED
      BY <1>3, <3>1
  <2>3. CASE u = s
    <3>1. /\ t \in Instances \ {s} /\ slot[t].token # 0
          /\ slot[t].token = slot'[s].token /\ slot[t].msg.job = j
      BY <1>1, <1>4, <2>3
    <3> QED
      BY <1>3, <3>1
  <2> QED
    BY <2>1, <2>2, <2>3
<1> QED
  BY <1>1, <1>2, <1>5 DEF TokenInv

\* No step gives the token of an attempt a second holder.
LEMMA TokenInvStep == TypeInv /\ TypeInv' /\ TokenInv /\ [Next]_vars => TokenInv'
<1>. SUFFICES ASSUME TypeInv, TypeInv', TokenInv, [Next]_vars PROVE TokenInv'
  OBVIOUS
<1>1. RowsMoved
  BY RowsMove
<1>2. CASE SlotsKeep
  <2>1. \A s \in Instances : TokenPlace(s)'
    BY <1>1, <1>2, PlaceKept DEF TokenInv, SlotsKeep
  <2>2. TokenHeldOnce'
    BY <1>2 DEF TokenInv, TokenHeldOnce, SlotsKeep
  <2> QED
    BY <2>1, <2>2 DEF TokenInv
<1> QED
  BY <1>1, <1>2, StepTells, ToldOnce

\* No two slots ever compute under the same lease token of a job: only the
\* delivery that started an attempt is told its token, and only while its slot
\* waits for the answer (the replayed delivery of begin_attempt).
THEOREM TokensHeldOnce == Spec => []TokenHeldOnce
<1>1. Spec => []TypeInv
  BY TypeInvInit, TypeInvStep, PTL DEF Spec
<1>2. TokenInv => TokenHeldOnce
  BY DEF TokenInv
<1> QED
  BY <1>1, <1>2, TokenInvInit, TokenInvStep, PTL DEF Spec

=============================================================================
