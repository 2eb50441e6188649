------------------------- MODULE SqlScheduler_proofs -------------------------
(***************************************************************************)
(* Theorems about SqlScheduler for every value of its constants: type      *)
(* correctness, the execution limits of a scheduler with policies, fencing *)
(* of verdicts, and the promise of JobLifecycle.                           *)
(*                                                                         *)
(* As in BrokerLeases_proofs, one lemma says what a step does to the rows: *)
(* it begins an attempt of one job, takes the verdict on one job, or       *)
(* leaves every row to a quiet statement.  Here a claim also reaps, so the *)
(* rows beside the one that is leased may end.                             *)
(***************************************************************************)
EXTENDS SqlScheduler, JobTable_proofs, FiniteSetTheorems

-----------------------------------------------------------------------------
(* The type invariant.  The serial of a slot counts faults, so it is bound  *)
(* by them; every call but Claim names a job and the token of an attempt.   *)

Processing == {"work", "complete", "failRetry", "failFinal"}

SlotInv(st) == /\ st \in Slot
               /\ st.serial <= faults
               /\ st.pc \in Processing => st.job \in Jobs /\ st.token # 0

GoodRequest(r) == /\ r \in Request
                  /\ r.op # "claim" => r.job \in Jobs /\ r.token # 0

JobsInv == /\ jobs \in [Jobs -> Row]
           /\ \A j \in Jobs : RowInv(jobs[j], 0, 0)

SlotsInv == /\ slot \in [Instances -> Slot]
            /\ \A s \in Instances : SlotInv(slot[s])
            /\ faults \in 0 .. MaxFaults

AdmissionInv == avail \in [Instances -> AvailPhases] /\ demand \subseteq Instances

RpcInv == \A r \in rpc : GoodRequest(r)

TypeInv == JobsInv /\ SlotsInv /\ AdmissionInv /\ RpcInv

-----------------------------------------------------------------------------
(* What a step does to the rows.                                           *)

QuietRow(j) == QuietMove(jobs[j], jobs'[j], j \in RetainedJobs)

RowsQuiet == \A j \in Jobs : QuietRow(j)

\* Room for an attempt in slot s, which a scheduler with policies has found.
RoomFor(s) ==
  ~legacy => /\ \A i \in Active(PoolOf[s]) : jobs[i].instance # s
             /\ Cardinality(Active(PoolOf[s])) < MaxConcurrency[PoolOf[s]]

RowStarts(j, s) == /\ \E d : StartMove(jobs[j], jobs'[j], s, d)
                   /\ RoomFor(s)
                   /\ \A i \in Jobs \ {j} : QuietRow(i)

RowSettles(j) == /\ VerdictMove(jobs[j], jobs'[j])
                 /\ \E r \in rpc \ rpc' : r.job = j /\ r.token = jobs[j].attempts
                 /\ \A i \in Jobs \ {j} : jobs'[i] = jobs[i]

RowsMoved == \/ RowsQuiet
             \/ \E j \in Jobs, s \in Instances : RowStarts(j, s)
             \/ \E j \in Jobs : RowSettles(j)

\* Rows that stay are quiet.
LEMMA RowsStay ==
  ASSUME JobsInv, UNCHANGED jobs
  PROVE  RowsMoved /\ JobsInv'
BY DEF RowsMoved, RowsQuiet, QuietRow, QuietMove, JobsInv

\* One row changes.
LEMMA OneRow ==
  ASSUME JobsInv, NEW j \in Jobs, NEW row, RowInv(row, 0, 0),
         jobs' = [jobs EXCEPT ![j] = row]
  PROVE  /\ JobsInv'
         /\ jobs'[j] = row /\ \A i \in Jobs \ {j} : jobs'[i] = jobs[i]
BY DEF JobsInv, RowInv

\* One row changes quietly.
LEMMA OneQuiet ==
  ASSUME JobsInv, NEW j \in Jobs, NEW row, RowInv(row, 0, 0),
         QuietMove(jobs[j], row, j \in RetainedJobs),
         jobs' = [jobs EXCEPT ![j] = row]
  PROVE  RowsMoved /\ JobsInv'
<1>1. /\ JobsInv' /\ jobs'[j] = row
      /\ \A i \in Jobs \ {j} : jobs'[i] = jobs[i]
  BY OneRow
<1>2. \A i \in Jobs \ {j} : QuietRow(i)
  BY <1>1 DEF QuietRow, QuietMove
<1>3. QuietRow(j)
  BY <1>1 DEF QuietRow
<1> QED
  BY <1>1, <1>2, <1>3 DEF RowsMoved, RowsQuiet

\* The rows that reap.sql leaves.
LEMMA ReapedRows ==
  ASSUME JobsInv, NEW over, NEW j \in Jobs
  PROVE  /\ RowInv(Reap(over)[j], 0, 0)
         /\ QuietMove(jobs[j], Reap(over)[j], j \in RetainedJobs)
         /\ jobs[j].attempts < MaxAttempts => Reap(over)[j] = jobs[j]
         /\ Terminal(jobs[j]) => Reap(over)[j] = jobs[j]
<1>1. RowInv(jobs[j], 0, 0) /\ jobs[j].attempts \in Nat /\ MaxAttempts \in Nat
  BY WrittenValues, MaxAttemptsAssumption DEF JobsInv, RowInv, Row
<1>2. RowInv(EndFailedSet(jobs[j]), 0, 0)
  BY <1>1, ClientRows
<1>3. \/ /\ ReapWhere(jobs[j], j \notin over)
         /\ Reap(over)[j] = EndFailedSet(jobs[j])
      \/ Reap(over)[j] = jobs[j]
  BY DEF Reap
<1>4. CASE Reap(over)[j] = jobs[j]
  BY <1>1, <1>4 DEF QuietMove
<1>5. CASE /\ ReapWhere(jobs[j], j \notin over)
           /\ Reap(over)[j] = EndFailedSet(jobs[j])
  <2>1. Pending(jobs[j]) /\ ~Terminal(jobs[j]) /\ ~(jobs[j].attempts < MaxAttempts)
    BY <1>1, <1>5 DEF ReapWhere, Pending, Terminal
  <2> QED
    BY <1>2, <1>5, <2>1 DEF QuietMove
<1> QED
  BY <1>3, <1>4, <1>5

\* The public API and the cleanup worker.
LEMMA ClientMoves ==
  ASSUME TypeInv, ClientStep
  PROVE  RowsMoved /\ JobsInv'
<1>. USE DEF TypeInv, Change
<1>0. /\ \A j \in Jobs : RowInv(jobs[j], 0, 0)
      /\ 0 \in Nat /\ 0 \in {0, 1}
  BY DEF JobsInv
<1>1. ASSUME NEW j \in Jobs, CreateJob(j)
      PROVE  RowsMoved /\ JobsInv'
  <2>1. RowInv(CreateSet, 0, 0)
    BY <1>0, FixedRows
  <2>2. QuietMove(jobs[j], CreateSet, j \in RetainedJobs)
    BY <1>1 DEF CreateJob, QuietMove
  <2> QED
    BY <1>1, <2>1, <2>2, OneQuiet DEF CreateJob
<1>2. ASSUME NEW j \in Jobs, MarkDownloading(j)
      PROVE  RowsMoved /\ JobsInv'
  <2>1. Uploading(jobs[j])
    BY <1>2 DEF MarkDownloading, Uploading
  <2>2. RowInv(MarkDownloadingSet(jobs[j]), 0, 0)
    BY <1>0, <2>1, ClientRows
  <2>3. QuietMove(jobs[j], MarkDownloadingSet(jobs[j]), j \in RetainedJobs)
    BY <2>1 DEF QuietMove
  <2> QED
    BY <1>2, <2>2, <2>3, OneQuiet DEF MarkDownloading
<1>3. ASSUME NEW j \in Jobs, MarkQueued(j)
      PROVE  RowsMoved /\ JobsInv'
  <2>1. Uploading(jobs[j])
    BY <1>3 DEF MarkQueued, Uploading
  <2>2. RowInv(MarkQueuedSet(jobs[j]), 0, 0)
    BY <1>0, <2>1, SqlRows
  <2>3. QuietMove(jobs[j], MarkQueuedSet(jobs[j]), j \in RetainedJobs)
    BY <2>1 DEF QuietMove
  <2> QED
    BY <1>3, <2>2, <2>3, OneQuiet DEF MarkQueued
<1>4. ASSUME NEW j \in Jobs, FailUpload(j) \/ CancelJob(j)
      PROVE  RowsMoved /\ JobsInv'
  <2>1. Uploading(jobs[j]) \/ Pending(jobs[j])
    <3>1. CASE FailUpload(j)
      BY <1>0, <3>1 DEF FailUpload, FailWhere, RowInv, RowShape
    <3>2. CASE CancelJob(j)
      BY <3>2 DEF CancelJob, CancelWhere, Exists, Terminal, Uploading, Pending,
                  JobsInv, Row, Statuses
    <3> QED
      BY <1>4, <3>1, <3>2
  <2>2. jobs' = [jobs EXCEPT ![j] = EndFailedSet(jobs[j])]
    BY <1>4, FinalFailure DEF FailUpload, CancelJob
  <2>3. RowInv(EndFailedSet(jobs[j]), 0, 0)
    BY <1>0, ClientRows
  <2>4. QuietMove(jobs[j], EndFailedSet(jobs[j]), j \in RetainedJobs)
    BY <2>1 DEF QuietMove
  <2> QED
    BY <2>2, <2>3, <2>4, OneQuiet
<1>5. ASSUME NEW j \in Jobs, AcknowledgeJob(j)
      PROVE  RowsMoved /\ JobsInv'
  <2>1. Terminal(jobs[j])
    BY <1>5 DEF AcknowledgeJob, AckWhere
  <2>2. RowInv(AckSet(jobs[j]), 0, 0)
    BY <1>0, <2>1, ClientRows
  <2>3. QuietMove(jobs[j], AckSet(jobs[j]), j \in RetainedJobs)
    BY <2>1 DEF QuietMove
  <2> QED
    BY <1>5, <2>2, <2>3, OneQuiet DEF AcknowledgeJob
<1>6. ASSUME NEW over \in Views, NEW gone \in SUBSET Jobs,
             CleanupExpiredJobs(over, gone)
      PROVE  RowsMoved /\ JobsInv'
  <2>1. ASSUME NEW j \in Jobs
        PROVE  QuietRow(j) /\ RowInv(jobs'[j], 0, 0)
    <3>1. RowInv(DeletedRow, 0, 0)
      BY <1>0, FixedRows
    <3>2. CASE j \in gone
      BY <1>6, <3>1, <3>2 DEF CleanupExpiredJobs, QuietRow, QuietMove
    <3>3. CASE j \notin gone
      <4>1. jobs'[j] = Reap(over)[j]
        BY <1>6, <3>3 DEF CleanupExpiredJobs
      <4> QED
        BY <4>1, ReapedRows DEF QuietRow
    <3> QED
      BY <3>2, <3>3
  <2>2. jobs' = [j \in Jobs |-> jobs'[j]]
    BY <1>6 DEF CleanupExpiredJobs
  <2>3. JobsInv'
    BY <2>1, <2>2 DEF JobsInv, RowInv
  <2> QED
    BY <2>1, <2>3 DEF RowsMoved, RowsQuiet
<1> QED
  BY <1>1, <1>2, <1>3, <1>4, <1>5, <1>6 DEF ClientStep

\* Of the steps of a slot, only a heartbeat writes a row.
LEMMA SlotMoves ==
  ASSUME TypeInv, NEW s \in Instances, SlotStep(s)
  PROVE  RowsMoved /\ JobsInv'
<1>. USE DEF TypeInv
<1>1. CASE Heartbeat(s)
  <2>. DEFINE j == slot[s].job
              row == [jobs[j] EXCEPT !.lease = "live"]
  <2>1. j \in Jobs
    BY <1>1 DEF Heartbeat, SlotsInv, SlotInv, Processing
  <2>2. Live(jobs[j]) /\ jobs[j].status = "running"
    BY <1>1 DEF Heartbeat, HeartbeatWhere, Live
  <2>3. RowInv(jobs[j], 0, 0) /\ 0 \in Nat /\ 0 \in {0, 1}
    BY <2>1 DEF JobsInv
  <2>4. RowInv(row, 0, 0)
    BY <2>2, <2>3, ClientRows
  <2>5. QuietMove(jobs[j], row, j \in RetainedJobs)
    BY <2>2 DEF QuietMove
  <2>6. jobs' = [jobs EXCEPT ![j] = row]
    BY <1>1 DEF Heartbeat, Change
  <2> HIDE DEF j, row
  <2> QED
    BY <2>1, <2>4, <2>5, <2>6, OneQuiet
<1>2. CASE ~Heartbeat(s)
  <2>1. UNCHANGED jobs
    BY <1>2 DEF SlotStep, ReportAvailability, AvailabilityExpires,
         DemandExpires, Claim, Finish, Send, RpcTimeout, StopWork, Leave, Crash,
         Hang, Drain, Resume, Fall
  <2> QED
    BY <2>1, RowsStay
<1> QED
  BY <1>1, <1>2

\* What the type invariant says of the job of a call that is not Claim.
LEMMA RequestRow ==
  ASSUME TypeInv, NEW r \in rpc
  PROVE  /\ r \in Request /\ r.slot \in Instances
         /\ r.op # "claim" =>
              /\ r.job \in Jobs /\ r.token # 0
              /\ RowInv(jobs[r.job], 0, 0)
              /\ jobs[r.job].status = "running"
                   => jobs[r.job].lease_owner = jobs[r.job].attempts
BY DEF TypeInv, RpcInv, GoodRequest, Request, JobsInv, RowInv, RowShape

\* A verdict writes one row.
LEMMA OneVerdict ==
  ASSUME TypeInv, NEW r \in rpc, r.job \in Jobs, r \notin rpc',
         r.token = jobs[r.job].attempts, NEW row, RowInv(row, 0, 0),
         VerdictMove(jobs[r.job], row), jobs' = [jobs EXCEPT ![r.job] = row]
  PROVE  RowsMoved /\ JobsInv'
<1>1. /\ JobsInv' /\ jobs'[r.job] = row
      /\ \A i \in Jobs \ {r.job} : jobs'[i] = jobs[i]
  BY OneRow DEF TypeInv
<1>2. RowSettles(r.job)
  BY <1>1 DEF RowSettles
<1> QED
  BY <1>1, <1>2 DEF RowsMoved

\* Claim leases the job only where there is room for it, and reaps others.
LEMMA GrantMoves ==
  ASSUME TypeInv, NEW r \in rpc, NEW over \in Views, NEW j \in Jobs,
         Grant(r, over, j)
  PROVE  RowsMoved /\ JobsInv' /\ jobs[j].attempts + 1 \in Tokens \ {0}
<1>1. /\ RowInv(jobs[j], 0, 0) /\ jobs[j].attempts \in Tokens
      /\ jobs[j].attempts \in Nat
      /\ r.slot \in Instances /\ 0 \in Nat /\ 0 \in {0, 1}
  BY WrittenValues, RequestRow DEF TypeInv, JobsInv, RowInv, Row
<1>2. j \in Candidates(r.slot, over)
  BY DEF Grant
<1>3. /\ Pending(jobs[j]) /\ jobs[j].attempts < MaxAttempts
      /\ ~Live(jobs[j])
  BY <1>2 DEF Candidates, Claimable, Live, Views
<1>4. RoomFor(r.slot)
  BY <1>2 DEF Candidates, Selected, EligibleFor, RoomFor
<1>5. Reap(over)[j] = jobs[j]
  BY <1>3, ReapedRows DEF TypeInv
<1>6. /\ jobs'[j] = StartSet(jobs[j], r.slot, 0)
      /\ \A i \in Jobs \ {j} : jobs'[i] = Reap(over)[i]
      /\ jobs' = [i \in Jobs |-> jobs'[i]]
  BY <1>5 DEF Grant, Reap
<1>7. StartMove(jobs[j], jobs'[j], r.slot, 0)
  BY <1>3, <1>6 DEF StartMove
<1>8. RowInv(jobs'[j], 0, 0)
  BY <1>1, <1>3, <1>6, AttemptRows
<1>9. \A i \in Jobs \ {j} : QuietRow(i) /\ RowInv(jobs'[i], 0, 0)
  BY <1>6, ReapedRows DEF TypeInv, QuietRow
<1>10. JobsInv'
  BY <1>6, <1>8, <1>9 DEF JobsInv, RowInv
<1>11. RowStarts(j, r.slot)
  BY <1>4, <1>7, <1>9 DEF RowStarts
<1> QED
  BY <1>1, <1>3, <1>10, <1>11, WrittenValues DEF RowsMoved

\* The coordinator's handlers.
LEMMA HandlerMoves ==
  ASSUME TypeInv, NEW r \in rpc, Handle(r)
  PROVE  RowsMoved /\ JobsInv'
<1>0. /\ r \in Request /\ r.slot \in Instances /\ JobsInv
      /\ 0 \in Nat /\ 0 \in {0, 1}
  BY RequestRow DEF TypeInv
<1>1. ASSUME NEW over \in Views, ClaimNothing(r, over)
      PROVE  RowsMoved /\ JobsInv'
  <2>1. jobs' = Reap(over)
    BY <1>1 DEF ClaimNothing
  <2>2. \A j \in Jobs : QuietRow(j) /\ RowInv(jobs'[j], 0, 0)
    BY <1>0, <2>1, ReapedRows DEF QuietRow
  <2>3. jobs' = [j \in Jobs |-> jobs'[j]]
    BY <2>1 DEF Reap
  <2>4. JobsInv'
    BY <2>2, <2>3 DEF JobsInv, RowInv
  <2> QED
    BY <2>2, <2>4 DEF RowsMoved, RowsQuiet
<1>2. ASSUME NEW over \in Views, NEW j \in Jobs,
             ClaimStarts(r, over, j) \/ ClaimFindsNoInput(r, over, j)
      PROVE  RowsMoved /\ JobsInv'
  BY <1>2, GrantMoves DEF ClaimStarts, ClaimFindsNoInput
<1>3. CASE FailMissingInput(r)
  <2>1. PICK seen \in SeenLive(jobs[r.job]) :
          jobs' = IF FailWhere(jobs[r.job], r.token, seen)
                    THEN [jobs EXCEPT ![r.job] = FailSet(@, FALSE)] ELSE jobs
    BY <1>3 DEF FailMissingInput
  <2>2. r.job \in Jobs /\ r.token # 0 /\ RowInv(jobs[r.job], 0, 0)
    BY <1>3, RequestRow DEF FailMissingInput, Run
  <2>3. CASE ~FailWhere(jobs[r.job], r.token, seen)
    BY <1>0, <2>1, <2>3, RowsStay
  <2>4. CASE FailWhere(jobs[r.job], r.token, seen)
    <3>1. Pending(jobs[r.job])
      BY <2>2, <2>4 DEF FailWhere, Pending
    <3>2. QuietMove(jobs[r.job], EndFailedSet(jobs[r.job]), r.job \in RetainedJobs)
      BY <3>1 DEF QuietMove
    <3>3. RowInv(EndFailedSet(jobs[r.job]), 0, 0)
      BY <1>0, <2>2, ClientRows
    <3>4. jobs' = [jobs EXCEPT ![r.job] = EndFailedSet(jobs[r.job])]
      BY <2>1, <2>4, FinalFailure
    <3> QED
      BY <1>0, <2>2, <3>2, <3>3, <3>4, OneQuiet
  <2> QED
    BY <2>3, <2>4
<1>4. CASE Complete(r)
  <2>1. PICK seen \in SeenLive(jobs[r.job]) :
          jobs' = IF CompleteWhere(jobs[r.job], r.token, seen)
                    THEN [jobs EXCEPT ![r.job] = CompleteSet(@)] ELSE jobs
    BY <1>4 DEF Complete
  <2>2. CASE ~CompleteWhere(jobs[r.job], r.token, seen)
    BY <1>0, <2>1, <2>2, RowsStay
  <2>3. CASE CompleteWhere(jobs[r.job], r.token, seen)
    <3>1. /\ r.job \in Jobs /\ RowInv(jobs[r.job], 0, 0)
          /\ jobs[r.job].status = "running"
          /\ r.token = jobs[r.job].attempts
      BY <1>4, <2>3, RequestRow DEF Complete, CompleteWhere, Run
    <3>2. RowInv(CompleteSet(jobs[r.job]), 0, 0)
      BY <1>0, <3>1, AttemptRows
    <3>3. VerdictMove(jobs[r.job], CompleteSet(jobs[r.job]))
      BY <3>1 DEF VerdictMove
    <3>4. jobs' = [jobs EXCEPT ![r.job] = CompleteSet(jobs[r.job])]
      BY <2>1, <2>3
    <3>5. r \notin rpc'
      BY <1>4 DEF Complete, Handled
    <3> QED
      BY <3>1, <3>2, <3>3, <3>4, <3>5, OneVerdict
  <2> QED
    BY <2>2, <2>3
<1>5. CASE Fail(r)
  <2>. DEFINE b == r.op = "failRetry"
  <2>1. PICK seen \in SeenLive(jobs[r.job]) :
          jobs' = IF FailWhere(jobs[r.job], r.token, seen)
                    THEN [jobs EXCEPT ![r.job] = FailSet(@, b)] ELSE jobs
    BY <1>5 DEF Fail
  <2>2. CASE ~FailWhere(jobs[r.job], r.token, seen)
    BY <1>0, <2>1, <2>2, RowsStay
  <2>3. CASE FailWhere(jobs[r.job], r.token, seen)
    <3>1. /\ r.job \in Jobs /\ RowInv(jobs[r.job], 0, 0)
          /\ jobs[r.job].status = "running"
          /\ r.token = jobs[r.job].attempts
      BY <1>5, <2>3, RequestRow DEF Fail, FailWhere
    <3>2. /\ RowInv(FailSet(jobs[r.job], TRUE), 0, 0)
          /\ RowInv(FailSet(jobs[r.job], FALSE), 0, 0)
      BY <1>0, <3>1, AttemptRows, SqlRows
    <3>3. b \in BOOLEAN
      OBVIOUS
    <3> HIDE DEF b
    <3>4. RowInv(FailSet(jobs[r.job], b), 0, 0)
      BY <3>2, <3>3
    <3>5. VerdictMove(jobs[r.job], FailSet(jobs[r.job], b))
      BY <3>1, <3>3 DEF VerdictMove
    <3>6. jobs' = [jobs EXCEPT ![r.job] = FailSet(jobs[r.job], b)]
      BY <2>1, <2>3
    <3>7. r \notin rpc'
      BY <1>5 DEF Fail, Handled
    <3> QED
      BY <3>1, <3>4, <3>5, <3>6, <3>7, OneVerdict
  <2> QED
    BY <2>2, <2>3
<1> QED
  BY <1>1, <1>2, <1>3, <1>4, <1>5 DEF Handle

\* Every step.
LEMMA RowsMove ==
  TypeInv /\ [Next]_<<vars, legacy>> => RowsMoved /\ JobsInv'
<1>. SUFFICES ASSUME TypeInv, [Next]_<<vars, legacy>> PROVE RowsMoved /\ JobsInv'
  OBVIOUS
<1>1. CASE ClientStep
  BY <1>1, ClientMoves
<1>2. ASSUME NEW s \in Instances, SlotStep(s)
      PROVE  RowsMoved /\ JobsInv'
  BY <1>2, SlotMoves
<1>3. ASSUME NEW r \in rpc, Handle(r)
      PROVE  RowsMoved /\ JobsInv'
  BY <1>3, HandlerMoves
<1>4. ASSUME NEW j \in Jobs, LeaseLapses(j) \/ LeaseExpires(j)
      PROVE  RowsMoved /\ JobsInv'
  <2>1. PICK phase \in {"lapsed", "expired"} :
          jobs' = [jobs EXCEPT ![j] = [jobs[j] EXCEPT !.lease = phase]]
    BY <1>4 DEF LeaseLapses, LeaseExpires, Change
  <2>2. RowInv(jobs[j], 0, 0) /\ 0 \in Nat /\ 0 \in {0, 1} /\ JobsInv
    BY DEF TypeInv, JobsInv
  <2>3. RowInv([jobs[j] EXCEPT !.lease = phase], 0, 0)
    BY <2>2, ClientRows
  <2>4. QuietMove(jobs[j], [jobs[j] EXCEPT !.lease = phase], j \in RetainedJobs)
    BY DEF QuietMove
  <2> QED
    BY <2>1, <2>2, <2>3, <2>4, OneQuiet
<1>5. CASE UNCHANGED <<vars, legacy>>
  BY <1>5, RowsStay DEF vars, TypeInv
<1> QED
  BY <1>1, <1>2, <1>3, <1>4, <1>5 DEF Next

-----------------------------------------------------------------------------
(* The other parts of the type invariant.                                  *)

\* A slot takes a state that fits it, perhaps with a fault.
LEMMA SlotUpdate ==
  ASSUME SlotsInv, NEW s \in Instances, NEW st, st \in Slot,
         slot' = [slot EXCEPT ![s] = st],
         st.pc \in Processing => st.job \in Jobs /\ st.token # 0,
         \/ Fault /\ st.serial <= faults + 1
         \/ UNCHANGED faults /\ st.serial <= faults
  PROVE  SlotsInv'
<1>1. /\ faults \in Nat /\ faults' \in 0 .. MaxFaults
      /\ faults' \in Nat /\ faults <= faults' /\ st.serial <= faults'
  BY SchedulerAssumption DEF SlotsInv, Fault
<1>2. slot' \in [Instances -> Slot]
  BY DEF SlotsInv
<1>3. ASSUME NEW t \in Instances
      PROVE  SlotInv(slot[t])'
  <2>1. slot[t].serial \in Nat /\ slot[t].serial <= faults /\ slot[t] \in Slot
    BY DEF SlotsInv, SlotInv, Slot
  <2>2. CASE t = s
    BY <1>1, <2>2 DEF SlotInv, SlotsInv
  <2>3. CASE t # s
    BY <1>1, <2>1, <2>3 DEF SlotInv, SlotsInv
  <2> QED
    BY <2>2, <2>3
<1> QED
  BY <1>1, <1>2, <1>3 DEF SlotsInv

\* Slots stay while a fault may be counted.
LEMMA SlotsStay ==
  ASSUME SlotsInv, UNCHANGED slot, Fault \/ UNCHANGED faults
  PROVE  SlotsInv'
<1>1. /\ faults \in Nat /\ faults' \in 0 .. MaxFaults
      /\ faults' \in Nat /\ faults <= faults'
  BY SchedulerAssumption DEF SlotsInv, Fault
<1>2. ASSUME NEW t \in Instances
      PROVE  SlotInv(slot[t])'
  <2>1. slot[t].serial \in Nat /\ slot[t].serial <= faults /\ slot[t] \in Slot
    BY DEF SlotsInv, SlotInv, Slot
  <2> QED
    BY <1>1, <2>1 DEF SlotInv, SlotsInv
<1> QED
  BY <1>1, <1>2 DEF SlotsInv

\* The states that the loop leaves a slot in.
LEMMA SlotStatesType ==
  ASSUME SlotsInv, NEW s \in Instances
  PROVE  /\ Idle(s) \in Slot /\ Idle(s).pc = "idle"
         /\ Idle(s).serial = slot[s].serial
         /\ \A pc \in {"stuck", "drained", "dead"} :
              /\ [Idle(s) EXCEPT !.pc = pc] \in Slot
              /\ [Idle(s) EXCEPT !.pc = pc].pc = pc
              /\ [Idle(s) EXCEPT !.pc = pc].serial = slot[s].serial
         /\ faults < MaxFaults =>
              /\ [Idle(s) EXCEPT !.serial = @ + 1] \in Slot
              /\ [Idle(s) EXCEPT !.serial = @ + 1].pc = "idle"
              /\ [Idle(s) EXCEPT !.serial = @ + 1].serial <= faults + 1
<1>1. /\ slot[s].serial \in 0 .. MaxFaults /\ slot[s].serial <= faults
      /\ faults \in Nat /\ MaxFaults \in Nat
  BY SchedulerAssumption DEF SlotsInv, SlotInv, Slot
<1>2. /\ Idle(s) = [pc |-> "idle", job |-> NoJob, token |-> 0,
                    serial |-> slot[s].serial]
      /\ Idle(s) \in Slot
  BY <1>1, WrittenValues DEF Idle, IdleSlot, Slot, SlotStates
<1>3. \A pc \in {"stuck", "drained", "dead"} :
        /\ [Idle(s) EXCEPT !.pc = pc] \in Slot
        /\ [Idle(s) EXCEPT !.pc = pc].pc = pc
        /\ [Idle(s) EXCEPT !.pc = pc].serial = slot[s].serial
  BY <1>2 DEF Slot, SlotStates
<1>4. faults < MaxFaults =>
        /\ [Idle(s) EXCEPT !.serial = @ + 1] \in Slot
        /\ [Idle(s) EXCEPT !.serial = @ + 1].pc = "idle"
        /\ [Idle(s) EXCEPT !.serial = @ + 1].serial <= faults + 1
  <2>1. faults < MaxFaults => slot[s].serial + 1 \in 0 .. MaxFaults
    BY <1>1
  <2> QED
    BY <1>1, <1>2, <2>1 DEF Slot
<1> QED
  BY <1>2, <1>3, <1>4

\* A call is sent.
LEMMA SendType ==
  ASSUME SlotsInv, RpcInv, NEW s \in Instances, NEW pc \in RpcKinds \ {"missing"},
         pc # "claim" => slot[s].pc \in Processing,
         Send(s, [slot[s] EXCEPT !.pc = pc]), UNCHANGED faults
  PROVE  SlotsInv' /\ RpcInv'
<1>. DEFINE st == [slot[s] EXCEPT !.pc = pc]
<1>1. /\ slot[s] \in Slot /\ slot[s].serial <= faults
      /\ slot[s].pc \in Processing => slot[s].job \in Jobs /\ slot[s].token # 0
  BY DEF SlotsInv, SlotInv
<1>2. /\ st \in Slot /\ st.pc = pc /\ st.serial = slot[s].serial
      /\ st.job = slot[s].job /\ st.token = slot[s].token
  BY <1>1 DEF Slot, SlotStates, RpcKinds
<1>3. SlotsInv'
  <2>1. st.pc \in Processing => st.job \in Jobs /\ st.token # 0
    BY <1>1, <1>2 DEF Processing
  <2> QED
    BY <1>1, <1>2, <2>1, SlotUpdate DEF Send
<1>4. GoodRequest(RequestOf(s, st))
  <2>1. st.serial \in 0 .. MaxFaults /\ st.token \in Tokens /\ st.job \in Jobs \cup {NoJob}
    BY <1>2 DEF Slot
  <2> HIDE DEF st
  <2> QED
    BY <1>1, <1>2, <2>1 DEF RequestOf, GoodRequest, Request
<1> QED
  BY <1>3, <1>4 DEF Send, RpcInv

\* A reply sends its caller back to its next claim.
LEMMA ReplyType ==
  ASSUME SlotsInv, NEW r, r.slot \in Instances, Reply(r), UNCHANGED faults
  PROVE  SlotsInv'
<1>1. CASE Waiting(r)
  <2>1. slot[r.slot].serial <= faults
    BY DEF SlotsInv, SlotInv
  <2>2. Idle(r.slot).pc \notin Processing
    BY SlotStatesType DEF Processing
  <2> QED
    BY <1>1, <2>1, <2>2, SlotStatesType, SlotUpdate DEF Reply
<1>2. CASE ~Waiting(r)
  BY <1>2, SlotsStay DEF Reply
<1> QED
  BY <1>1, <1>2

\* The reports of a slot, and its loop.
LEMMA SlotTypes ==
  ASSUME TypeInv, NEW s \in Instances, SlotStep(s)
  PROVE  SlotsInv' /\ AdmissionInv' /\ RpcInv'
<1>. USE DEF TypeInv
<1>1. /\ UNCHANGED availVars => AdmissionInv'
      /\ UNCHANGED rpc => RpcInv'
      /\ \A old, phase : /\ old \subseteq Instances /\ phase \in AvailPhases
                         /\ Written(s, old, phase)
                         => AdmissionInv'
  <2>1. "absent" \in AvailPhases
    BY DEF AvailPhases
  <2>2. ASSUME NEW old, NEW phase, old \subseteq Instances, phase \in AvailPhases,
               Written(s, old, phase)
        PROVE  AdmissionInv'
    BY <2>1, <2>2 DEF AdmissionInv, Written
  <2> QED
    BY <2>2 DEF AdmissionInv, RpcInv, availVars
<1>2. /\ Idle(s).pc \notin Processing
      /\ \A pc \in {"stuck", "drained", "dead"} :
           [Idle(s) EXCEPT !.pc = pc].pc \notin Processing
      /\ faults < MaxFaults => [Idle(s) EXCEPT !.serial = @ + 1].pc \notin Processing
      /\ slot[s].serial <= faults /\ slot[s].serial <= faults + 1
  <2>1. slot[s].serial \in 0 .. MaxFaults /\ slot[s].serial <= faults
          /\ faults \in 0 .. MaxFaults
    BY DEF SlotsInv, SlotInv, Slot
  <2>2. slot[s].serial <= faults /\ slot[s].serial <= faults + 1
    BY <2>1, SchedulerAssumption
  <2>3. Idle(s).pc \notin Processing
    BY SlotStatesType DEF Processing
  <2>4. \A pc \in {"stuck", "drained", "dead"} :
          [Idle(s) EXCEPT !.pc = pc].pc \notin Processing
    BY SlotStatesType DEF Processing
  <2>5. faults < MaxFaults => [Idle(s) EXCEPT !.serial = @ + 1].pc \notin Processing
    BY SlotStatesType DEF Processing
  <2> QED
    BY <2>2, <2>3, <2>4, <2>5
<1>3. /\ {"ready", "past"} \subseteq AvailPhases
      /\ {"claim", "complete", "failRetry", "failFinal"}
           \subseteq RpcKinds \ {"missing"}
      /\ "work" \in Processing
  BY DEF AvailPhases, RpcKinds, Processing
<1>4. ASSUME NEW old \in SUBSET Instances, ReportAvailability(s, old)
      PROVE  SlotsInv' /\ AdmissionInv' /\ RpcInv'
  BY <1>1, <1>3, <1>4, SlotsStay DEF ReportAvailability
<1>5. CASE AvailabilityExpires(s)
  <2>1. AdmissionInv'
    BY <1>3, <1>5 DEF AvailabilityExpires, AdmissionInv
  <2> QED
    BY <1>1, <1>5, <2>1, SlotsStay DEF AvailabilityExpires
<1>6. CASE DemandExpires(s)
  <2>1. AdmissionInv'
    BY <1>6 DEF DemandExpires, AdmissionInv
  <2> QED
    BY <1>1, <1>6, <2>1, SlotsStay DEF DemandExpires
<1>7. CASE Claim(s)
  BY <1>1, <1>3, <1>7, SendType DEF Claim, Send, availVars
<1>8. ASSUME NEW op \in {"complete", "failRetry", "failFinal"}, Finish(s, op)
      PROVE  SlotsInv' /\ AdmissionInv' /\ RpcInv'
  BY <1>1, <1>3, <1>8, SendType DEF Finish, Send, availVars
<1>9. CASE RpcTimeout(s)
  <2>1. SlotsInv'
    BY <1>2, <1>9, SlotStatesType, SlotUpdate DEF RpcTimeout, Leave, Fault
  <2> QED
    BY <1>1, <1>9, <2>1 DEF RpcTimeout, Leave
<1>10. CASE StopWork(s)
  <2>1. SlotsInv'
    BY <1>2, <1>10, SlotStatesType, SlotUpdate DEF StopWork, Leave
  <2> QED
    BY <1>1, <1>10, <2>1 DEF StopWork, Leave
<1>11. CASE Heartbeat(s)
  BY <1>1, <1>11, SlotsStay DEF Heartbeat, Change, availVars
<1>12. ASSUME NEW pc \in {"stuck", "drained", "dead"}, Fall(s, pc)
       PROVE  SlotsInv' /\ RpcInv'
  <2>1. SlotsInv'
    BY <1>2, <1>12, SlotStatesType, SlotUpdate DEF Fall, Leave
  <2> QED
    BY <1>1, <1>12, <2>1 DEF Fall, Leave
<1>13. CASE Crash(s) \/ Hang(s) \/ Drain(s)
  BY <1>1, <1>3, <1>12, <1>13 DEF Crash, Hang, Drain
<1>14. CASE Resume(s)
  <2>1. SlotsInv'
    BY <1>2, <1>14, SlotStatesType, SlotUpdate DEF Resume, Leave
  <2> QED
    BY <1>1, <1>3, <1>14, <2>1 DEF Resume, Leave
<1> QED
  BY <1>4, <1>5, <1>6, <1>7, <1>8, <1>9, <1>10, <1>11, <1>13, <1>14 DEF SlotStep

\* The coordinator's handlers.
LEMMA HandlerTypes ==
  ASSUME TypeInv, NEW r \in rpc, Handle(r)
  PROVE  SlotsInv' /\ AdmissionInv' /\ RpcInv'
<1>. USE DEF TypeInv
<1>0. r \in Request /\ r.slot \in Instances
  BY RequestRow
<1>1. /\ Prepare(r) => AdmissionInv'
      /\ UNCHANGED <<avail, demand>> => AdmissionInv'
      /\ Handled(r) => RpcInv'
  BY <1>0 DEF Prepare, Asking, AdmissionInv, Handled, RpcInv
<1>2. ASSUME NEW over \in Views, ClaimNothing(r, over)
      PROVE  SlotsInv' /\ AdmissionInv' /\ RpcInv'
  BY <1>0, <1>1, <1>2, ReplyType DEF ClaimNothing
<1>3. ASSUME NEW over \in Views, NEW j \in Jobs, ClaimStarts(r, over, j)
      PROVE  SlotsInv' /\ AdmissionInv' /\ RpcInv'
  <2>. DEFINE st == [slot[r.slot] EXCEPT !.pc = "work", !.job = j,
                                         !.token = jobs[j].attempts + 1]
  <2>1. jobs[j].attempts + 1 \in Tokens \ {0}
    BY <1>3, GrantMoves DEF ClaimStarts
  <2>2. slot[r.slot] \in Slot /\ slot[r.slot].serial <= faults
    BY <1>0 DEF SlotsInv, SlotInv
  <2>3. /\ st \in Slot /\ st.job = j /\ st.token # 0
        /\ st.serial = slot[r.slot].serial
    BY <2>1, <2>2 DEF Slot, SlotStates
  <2>4. slot' = [slot EXCEPT ![r.slot] = st] \/ UNCHANGED slot
    BY <1>0, <1>3 DEF ClaimStarts, SlotsInv
  <2>5. UNCHANGED faults
    BY <1>3 DEF ClaimStarts
  <2> HIDE DEF st
  <2>6. SlotsInv'
    BY <1>0, <2>2, <2>3, <2>4, <2>5, SlotUpdate, SlotsStay
  <2> QED
    BY <1>1, <1>3, <2>6 DEF ClaimStarts, Grant
<1>4. ASSUME NEW over \in Views, NEW j \in Jobs, ClaimFindsNoInput(r, over, j)
      PROVE  SlotsInv' /\ AdmissionInv' /\ RpcInv'
  <2>. DEFINE m == [r EXCEPT !.op = "missing", !.job = j,
                             !.token = jobs[j].attempts + 1]
  <2>1. jobs[j].attempts + 1 \in Tokens \ {0}
    BY <1>4, GrantMoves DEF ClaimFindsNoInput
  <2>2. GoodRequest(m)
    BY <1>0, <2>1 DEF GoodRequest, Request, RpcKinds
  <2>3. rpc' = (rpc \ {r}) \cup {m}
    BY <1>4 DEF ClaimFindsNoInput
  <2> HIDE DEF m
  <2>4. RpcInv'
    BY <2>2, <2>3 DEF RpcInv
  <2> QED
    BY <1>1, <1>4, <2>4, SlotsStay DEF ClaimFindsNoInput, Grant
<1>5. CASE FailMissingInput(r)
  <2>. DEFINE call == [r EXCEPT !.op = "claim", !.job = NoJob, !.token = 0]
  <2>1. call.slot \in Instances
    BY <1>0 DEF Request
  <2>2. Reply(call)
    BY <1>5 DEF FailMissingInput
  <2> HIDE DEF call
  <2> QED
    BY <1>1, <1>5, <2>1, <2>2, ReplyType DEF FailMissingInput
<1>6. CASE Complete(r) \/ Fail(r)
  BY <1>0, <1>1, <1>6, ReplyType DEF Complete, Fail
<1> QED
  BY <1>2, <1>3, <1>4, <1>5, <1>6 DEF Handle

\* The type invariant holds initially.
LEMMA TypeInvInit == Init => TypeInv
<1>. SUFFICES ASSUME Init PROVE TypeInv
  OBVIOUS
<1>1. RowInv(AbsentRow, 0, 0)
  BY FixedRows
<1>2. JobsInv
  BY <1>1 DEF Init, JobsInv, RowInv
<1>3. IdleSlot \in Slot
  BY WrittenValues, SchedulerAssumption DEF IdleSlot, Slot, SlotStates
<1>4. SlotInv(IdleSlot)
  BY <1>3 DEF SlotInv, IdleSlot, Processing, Init
<1>5. SlotsInv
  BY <1>3, <1>4, SchedulerAssumption DEF Init, SlotsInv
<1> QED
  BY <1>2, <1>5 DEF Init, TypeInv, AdmissionInv, AvailPhases, RpcInv

\* Every step keeps the type invariant.
LEMMA TypeInvStep == TypeInv /\ [Next]_<<vars, legacy>> => TypeInv'
<1>. SUFFICES ASSUME TypeInv, [Next]_<<vars, legacy>>
              PROVE  SlotsInv' /\ AdmissionInv' /\ RpcInv'
  BY RowsMove DEF TypeInv
<1>1. CASE UNCHANGED <<slot, avail, demand, rpc, faults>>
  <2>1. SlotsInv'
    BY <1>1, SlotsStay DEF TypeInv
  <2> QED
    BY <1>1, <2>1 DEF TypeInv, AdmissionInv, RpcInv
<1>2. CASE ClientStep
  BY <1>1, <1>2
     DEF ClientStep, CreateJob, MarkDownloading, MarkQueued, FailUpload,
         CancelJob, AcknowledgeJob, CleanupExpiredJobs, Change
<1>3. \A j \in Jobs : LeaseLapses(j) \/ LeaseExpires(j)
        => UNCHANGED <<slot, avail, demand, rpc, faults>>
  BY DEF LeaseLapses, LeaseExpires, Change
<1>4. UNCHANGED <<vars, legacy>> => UNCHANGED <<slot, avail, demand, rpc, faults>>
  BY DEF vars
<1> QED
  BY <1>1, <1>2, <1>3, <1>4, SlotTypes, HandlerTypes DEF Next

\* TypeOK of SqlScheduler is an invariant: in particular attempts never
\* exceed JOB_MAX_ATTEMPTS, whatever is claimed, reaped and retried.
THEOREM TypeCorrect == Spec => []TypeOK
<1>1. TypeInv => TypeOK
  BY DEF TypeInv, JobsInv, SlotsInv, AdmissionInv, RpcInv, GoodRequest, TypeOK
<1> QED
  BY <1>1, TypeInvInit, TypeInvStep, PTL DEF Spec

-----------------------------------------------------------------------------
(* Fencing.                                                                *)

\* A running job ends, or is given back, by the answer to a call that has
\* the token of its newest attempt, and a result is that attempt's.
LEMMA MovesFence ==
  ASSUME TypeInv, RowsMoved
  PROVE  \A j \in Jobs :
           jobs[j].status = "running" /\ jobs'[j].status \in {"queued", "done"}
             => /\ \E r \in rpc \ rpc' :
                     r.job = j /\ r.token = jobs[j].attempts
                /\ jobs'[j].status = "done" => jobs'[j].result = jobs[j].attempts
<1>. SUFFICES ASSUME NEW j \in Jobs
              PROVE
           jobs[j].status = "running" /\ jobs'[j].status \in {"queued", "done"}
             => /\ \E r \in rpc \ rpc' :
                     r.job = j /\ r.token = jobs[j].attempts
                /\ jobs'[j].status = "done" => jobs'[j].result = jobs[j].attempts
  OBVIOUS
<1>1. RowInv(jobs[j], 0, 0) /\ 0 \in Nat /\ 0 \in {0, 1}
  BY DEF TypeInv, JobsInv
<1>2. CASE QuietRow(j)
  <2>1. jobs[j].status = "running" => jobs'[j].status \notin {"queued", "done"}
    BY <1>1, <1>2, QuietMoves DEF QuietRow
  <2> QED
    BY <2>1
<1>3. CASE \E s \in Instances : RowStarts(j, s)
  <2>1. jobs'[j].status = "running"
    BY <1>1, <1>3, StartMoves DEF RowStarts
  <2> QED
    BY <2>1
<1>4. CASE RowSettles(j)
  <2>1. jobs'[j].status = "done" => jobs'[j].result = jobs[j].attempts
    BY <1>1, <1>4, VerdictMoves DEF RowSettles
  <2> QED
    BY <1>4, <2>1 DEF RowSettles
<1>5. CASE jobs'[j] = jobs[j]
  BY <1>2, <1>5 DEF QuietRow, QuietMove
<1> QED
  BY <1>2, <1>3, <1>4, <1>5 DEF RowsMoved, RowsQuiet, RowStarts, RowSettles

\* Only the handler that runs a request takes it away.
LEMMA RequestsHandled ==
  ASSUME [Next]_<<vars, legacy>>, NEW r \in rpc \ rpc'
  PROVE  Handle(r)
<1>1. ASSUME NEW q \in rpc, Handle(q)
      PROVE  r = q
  BY <1>1 DEF Handle, Handled, ClaimNothing, ClaimStarts, ClaimFindsNoInput,
              FailMissingInput, Complete, Fail
<1>2. ~ClientStep
  BY DEF ClientStep, CreateJob, MarkDownloading, MarkQueued, FailUpload,
         CancelJob, AcknowledgeJob, CleanupExpiredJobs, Change
<1>3. ASSUME NEW s \in Instances, SlotStep(s)
      PROVE  FALSE
  BY <1>3 DEF SlotStep, ReportAvailability, AvailabilityExpires, DemandExpires,
              Claim, Finish, Send, RpcTimeout, StopWork, Leave, Heartbeat,
              Change, Crash, Hang, Drain, Resume, Fall
<1>4. \A j \in Jobs : ~LeaseLapses(j) /\ ~LeaseExpires(j)
  BY DEF LeaseLapses, LeaseExpires, Change
<1>5. ~UNCHANGED <<vars, legacy>>
  BY DEF vars
<1> QED
  BY <1>1, <1>2, <1>3, <1>4, <1>5 DEF Next

\* A late verdict finds that its token does not own the job any more.
LEMMA LateVerdict ==
  ASSUME TypeInv, NEW r \in rpc, Handle(r), Superseded(r)
  PROVE  UNCHANGED jobs
<1>1. /\ r.op # "claim" /\ r.token # 0
      /\ ~(jobs[r.job].status = "running" /\ jobs[r.job].lease_owner = r.token)
  BY RequestRow DEF Superseded
<1>2. \A seen : /\ ~CompleteWhere(jobs[r.job], r.token, seen)
                /\ ~FailWhere(jobs[r.job], r.token, seen)
  BY <1>1 DEF CompleteWhere, FailWhere
<1>3. FailMissingInput(r) \/ Complete(r) \/ Fail(r)
  BY <1>1 DEF Handle, ClaimNothing, ClaimStarts, ClaimFindsNoInput, Grant, Run
<1> QED
  BY <1>2, <1>3 DEF FailMissingInput, Complete, Fail

\* Slots that lost their lease, and calls that were given up, settle nothing:
\* Complete and Fail are obeyed only under the token of the newest attempt, and
\* a late one, a final failure too, leaves the row of its job as it is.
THEOREM NewestAttemptSettles == Spec => OnlyNewestAttemptSettles
<1>1. Spec => []TypeInv
  BY TypeInvInit, TypeInvStep, PTL DEF Spec
<1>2. TypeInv /\ [Next]_<<vars, legacy>> =>
        [/\ \A j \in Jobs :
              jobs[j].status = "running" /\ jobs'[j].status \in {"queued", "done"}
                => /\ \E r \in rpc \ rpc' :
                        r.job = j /\ r.token = jobs[j].attempts
                   /\ jobs'[j].status = "done"
                        => jobs'[j].result = jobs[j].attempts
         /\ \A r \in rpc \ rpc' :
              Superseded(r) => jobs'[r.job] = jobs[r.job]
        ]_vars
  <2>1. TypeInv /\ [Next]_<<vars, legacy>> =>
          \A r \in rpc \ rpc' : Superseded(r) => jobs'[r.job] = jobs[r.job]
    BY RequestsHandled, LateVerdict
  <2> QED
    BY <2>1, RowsMove, MovesFence
<1> QED
  BY <1>1, <1>2, PTL DEF Spec, OnlyNewestAttemptSettles

-----------------------------------------------------------------------------
(* The promise of JobLifecycle.                                            *)

\* Rows that keep their promises one by one make a step of JobLifecycle.
LEMMA PromiseStep ==
  ASSUME JobsInv', \A j \in Jobs : Keeps(jobs[j], jobs'[j], j \in RetainedJobs)
  PROVE  Lifecycle!Next
<1>. DEFINE old(j) == PromiseOf(jobs[j])
            new(j) == PromiseOf(jobs'[j])
<1>1. [j \in Jobs |-> new(j)] \in [Jobs -> Lifecycle!Promise]
  BY PromiseType DEF JobsInv, Lifecycle!Promise, Promises
<1>2. ASSUME NEW j \in Jobs
      PROVE  Lifecycle!Step(j)
               \/ Lifecycle!Becomes(j, [i \in Jobs |-> old(i)][j])
  <2>. DEFINE p == old(j)
              q == new(j)
  <2>1. PromiseMove(p, q, j \in RetainedJobs)
    BY DEF Keeps
  <2>2. [i \in Jobs |-> old(i)][j] = p /\ [i \in Jobs |-> new(i)][j] = q
    OBVIOUS
  <2> HIDE DEF p, q
  <2>3. CASE q = p
    BY <2>2, <2>3 DEF Lifecycle!Becomes
  <2>4. CASE p.phase = "absent" /\ q = NewPromise("open")
    BY <2>2, <2>4
       DEF Lifecycle!Step, Lifecycle!Submit, Lifecycle!Becomes,
           Lifecycle!NewJob, NewPromise
  <2>5. CASE p.phase = "open" /\ q = [p EXCEPT !.phase = "pending"]
    BY <2>2, <2>5 DEF Lifecycle!Step, Lifecycle!Queue, Lifecycle!Becomes
  <2>6. CASE /\ p.phase = "pending" /\ p.attempts < MaxAttempts
             /\ q = [p EXCEPT !.attempts = @ + 1]
    BY <2>2, <2>6 DEF Lifecycle!Step, Lifecycle!Attempt, Lifecycle!Becomes
  <2>7. CASE /\ p.phase = "pending" /\ p.attempts > 0
             /\ q = [p EXCEPT !.phase = "done", !.result = p.attempts]
    BY <2>2, <2>7 DEF Lifecycle!Step, Lifecycle!Finish, Lifecycle!Becomes
  <2>8. CASE p.phase \in {"open", "pending"} /\ q = [p EXCEPT !.phase = "failed"]
    BY <2>2, <2>8 DEF Lifecycle!Step, Lifecycle!Fail, Lifecycle!Becomes
  <2>9. CASE p.phase \in {"done", "failed"} /\ q = [p EXCEPT !.acked = TRUE]
    BY <2>2, <2>9 DEF Lifecycle!Step, Lifecycle!Acknowledge, Lifecycle!Becomes
  <2>10. CASE /\ p.phase \in {"done", "failed"}
              /\ (j \in RetainedJobs => p.acked)
              /\ q = NewPromise("deleted")
    BY <2>2, <2>10
       DEF Lifecycle!Step, Lifecycle!Purge, Lifecycle!Becomes,
           Lifecycle!NewJob, NewPromise
  <2> QED
    BY <2>1, <2>3, <2>4, <2>5, <2>6, <2>7, <2>8, <2>9, <2>10 DEF PromiseMove
<1> QED
  BY <1>1, <1>2 DEF Lifecycle!Next

\* Nothing has been promised about a job that does not exist.
LEMMA PromiseInit == Init => Lifecycle!Init
<1>1. PromiseOf(AbsentRow) = NewPromise("absent")
  BY DEF PromiseOf, AbsentRow, NewPromise, Uploading, Pending
<1>2. Init => \A j \in Jobs : jobs[j] = AbsentRow
  BY DEF Init
<1> QED
  BY <1>1, <1>2 DEF Lifecycle!Init, Lifecycle!NewJob, NewPromise

\* Every step keeps the promise of every job.
LEMMA MovesKeep ==
  ASSUME TypeInv, RowsMoved
  PROVE  \A j \in Jobs : Keeps(jobs[j], jobs'[j], j \in RetainedJobs)
<1>. SUFFICES ASSUME NEW j \in Jobs
              PROVE  Keeps(jobs[j], jobs'[j], j \in RetainedJobs)
  OBVIOUS
<1>1. RowInv(jobs[j], 0, 0) /\ 0 \in Nat /\ 0 \in {0, 1}
  BY DEF TypeInv, JobsInv
<1>2. CASE QuietRow(j)
  BY <1>1, <1>2, QuietMoves DEF QuietRow
<1>3. CASE \E s \in Instances : RowStarts(j, s)
  BY <1>1, <1>3, StartMoves DEF RowStarts
<1>4. CASE RowSettles(j)
  BY <1>1, <1>4, VerdictMoves DEF RowSettles
<1>5. CASE jobs'[j] = jobs[j]
  BY <1>2, <1>5 DEF QuietRow, QuietMove
<1> QED
  BY <1>2, <1>3, <1>4, <1>5 DEF RowsMoved, RowsQuiet, RowStarts, RowSettles

\* The SQL backend keeps the promise of JobLifecycle, with policies or without:
\* claims, reaping, lost replies and crashes show clients nothing else.
THEOREM PromiseKept == Spec => KeepsPromise
<1>1. Spec => []TypeInv
  BY TypeInvInit, TypeInvStep, PTL DEF Spec
<1>2. TypeInv /\ [Next]_<<vars, legacy>> => Lifecycle!Next
  BY RowsMove, MovesKeep, PromiseStep
<1> QED
  BY <1>1, <1>2, PromiseInit, PTL DEF Spec, KeepsPromise, Lifecycle!Spec

-----------------------------------------------------------------------------
(* The execution limits.                                                   *)

\* What a scheduler with policies promises of the leases.
Limits ==
  /\ \A p \in Pools : Cardinality(Active(p)) <= MaxConcurrency[p]
  /\ \A i, j \in Jobs :
       Live(jobs[i]) /\ Live(jobs[j]) /\ jobs[i].instance = jobs[j].instance
         => i = j

\* Any part of the table can be counted.
LEMMA ActiveFinite ==
  ASSUME NEW p
  PROVE  IsFiniteSet(Active(p)) /\ Cardinality(Active(p)) \in Nat
<1>1. Active(p) \subseteq Jobs /\ IsFiniteSet(Jobs)
  BY SchedulerAssumption DEF Active
<1> QED
  BY <1>1, FS_Subset, FS_CardinalityType

\* A row keeps no lease of another slot and takes none, unless an attempt of
\* its job begins.
LEMMA MovesLive ==
  ASSUME TypeInv, NEW j \in Jobs,
         QuietRow(j) \/ VerdictMove(jobs[j], jobs'[j]) \/ jobs'[j] = jobs[j],
         Live(jobs'[j])
  PROVE  Live(jobs[j]) /\ jobs'[j].instance = jobs[j].instance
<1>1. RowInv(jobs[j], 0, 0) /\ 0 \in Nat /\ 0 \in {0, 1}
  BY DEF TypeInv, JobsInv
<1>2. CASE QuietRow(j)
  BY <1>1, <1>2, QuietMoves DEF QuietRow
<1>3. CASE VerdictMove(jobs[j], jobs'[j])
  BY <1>1, <1>3, VerdictMoves
<1> QED
  BY <1>2, <1>3

\* Where no lease comes to life nothing is added.
LEMMA FewerKeepLimits ==
  ASSUME Limits,
         \A j \in Jobs : Live(jobs'[j]) =>
           Live(jobs[j]) /\ jobs'[j].instance = jobs[j].instance
  PROVE  Limits'
<1>1. ASSUME NEW p \in Pools
      PROVE  Cardinality(Active(p)') <= MaxConcurrency[p]
  <2>1. Active(p)' \subseteq Active(p)
    BY DEF Active
  <2>2. /\ IsFiniteSet(Active(p)')
        /\ Cardinality(Active(p)') <= Cardinality(Active(p))
    BY <2>1, ActiveFinite, FS_Subset
  <2>3. Cardinality(Active(p)') \in Nat /\ Cardinality(Active(p)) \in Nat
    BY <2>2, FS_CardinalityType, ActiveFinite
  <2> QED
    BY <2>2, <2>3, SchedulerAssumption DEF Limits
<1> QED
  BY <1>1 DEF Limits

\* An attempt begins where EligibleFor found room, and the rows that the same
\* claim reaped only make more.
LEMMA StartKeepsLimits ==
  ASSUME TypeInv, Limits, ~legacy, NEW j \in Jobs, NEW s \in Instances,
         RowStarts(j, s)
  PROVE  Limits'
<1>1. /\ ~Live(jobs[j]) /\ jobs'[j].instance = s
      /\ \A i \in Jobs \ {j} : Live(jobs'[i]) =>
           Live(jobs[i]) /\ jobs'[i].instance = jobs[i].instance
  <2>1. RowInv(jobs[j], 0, 0) /\ 0 \in Nat /\ 0 \in {0, 1}
    BY DEF TypeInv, JobsInv
  <2>2. ~Live(jobs[j]) /\ jobs'[j].instance = s
    BY <2>1, StartMoves DEF RowStarts
  <2> QED
    BY <2>2, MovesLive DEF RowStarts
<1>2. /\ PoolOf[s] \in Pools
      /\ \A i \in Active(PoolOf[s]) : jobs[i].instance # s
      /\ Cardinality(Active(PoolOf[s])) < MaxConcurrency[PoolOf[s]]
  BY SchedulerAssumption DEF RowStarts, RoomFor
<1>3. ASSUME NEW p \in Pools
      PROVE  Cardinality(Active(p)') <= MaxConcurrency[p]
  <2>1. /\ IsFiniteSet(Active(p)) /\ Cardinality(Active(p)) \in Nat
        /\ MaxConcurrency[p] \in Nat
    BY ActiveFinite, SchedulerAssumption
  <2>2. CASE p = PoolOf[s]
    <3>1. Active(p)' \subseteq Active(p) \cup {j} /\ j \notin Active(p)
      BY <1>1 DEF Active
    <3>2. /\ IsFiniteSet(Active(p) \cup {j})
          /\ Cardinality(Active(p) \cup {j}) = Cardinality(Active(p)) + 1
      BY <2>1, <3>1, FS_AddElement
    <3>3. /\ IsFiniteSet(Active(p)')
          /\ Cardinality(Active(p)') <= Cardinality(Active(p) \cup {j})
      BY <3>1, <3>2, FS_Subset
    <3>4. Cardinality(Active(p)') \in Nat
      BY <3>3, FS_CardinalityType
    <3> QED
      BY <1>2, <2>1, <2>2, <3>2, <3>3, <3>4
  <2>3. CASE p # PoolOf[s]
    <3>1. Active(p)' \subseteq Active(p)
      BY <1>1, <2>3 DEF Active
    <3>2. /\ IsFiniteSet(Active(p)')
          /\ Cardinality(Active(p)') <= Cardinality(Active(p))
      BY <2>1, <3>1, FS_Subset
    <3>3. Cardinality(Active(p)') \in Nat
      BY <3>2, FS_CardinalityType
    <3> QED
      BY <2>1, <3>2, <3>3 DEF Limits
  <2> QED
    BY <2>2, <2>3
<1>4. ASSUME NEW i \in Jobs, NEW k \in Jobs, Live(jobs'[i]), Live(jobs'[k]),
             jobs'[i].instance = jobs'[k].instance
      PROVE  i = k
  <2>1. \A o \in Jobs \ {j} : Live(jobs'[o]) => jobs'[o].instance # s
    BY <1>1, <1>2 DEF Active
  <2> QED
    BY <1>1, <1>4, <2>1 DEF Limits
<1> QED
  BY <1>3, <1>4 DEF Limits

\* Initially no attempt is live.
LEMMA LimitsInit == Init => Limits
<1>. SUFFICES ASSUME Init PROVE Limits
  OBVIOUS
<1>1. \A j \in Jobs : ~Live(jobs[j])
  BY DEF Init, AbsentRow, Live
<1>2. \A p \in Pools : Active(p) = {}
  BY <1>1 DEF Active
<1>3. Cardinality({}) = 0
  BY FS_EmptySet
<1>4. \A p \in Pools : MaxConcurrency[p] \in Nat
  BY SchedulerAssumption
<1>5. \A p \in Pools : Cardinality(Active(p)) <= MaxConcurrency[p]
  BY <1>2, <1>3, <1>4
<1> QED
  BY <1>1, <1>5 DEF Limits

\* With policies, no step exceeds the limits.
LEMMA LimitsStep ==
  TypeInv /\ (~legacy => Limits) /\ [Next]_<<vars, legacy>>
    => (~legacy => Limits)'
<1>. SUFFICES ASSUME TypeInv, Limits, ~legacy, RowsMoved PROVE Limits'
  <2>1. [Next]_<<vars, legacy>> => UNCHANGED legacy
    BY DEF Next
  <2> QED
    BY <2>1, RowsMove
<1>1. CASE RowsQuiet
  BY <1>1, MovesLive, FewerKeepLimits DEF RowsQuiet
<1>2. ASSUME NEW j \in Jobs, RowSettles(j)
      PROVE  Limits'
  BY <1>2, MovesLive, FewerKeepLimits DEF RowSettles
<1> QED
  BY <1>1, <1>2, StartKeepsLimits DEF RowsMoved

\* With policies the limit of a worker ID holds over all its slots, those that
\* no longer report included, and no slot leases a job beside another one: also
\* when the reply of a claim was lost and its slot claims again.
THEOREM LimitsHold == Spec => []ExecutionLimits
<1>1. Spec => []TypeInv
  BY TypeInvInit, TypeInvStep, PTL DEF Spec
<1>2. (~legacy => Limits) => ExecutionLimits
  BY DEF Limits, ExecutionLimits
<1>3. Init => (~legacy => Limits)
  BY LimitsInit
<1> QED
  BY <1>1, <1>2, <1>3, LimitsStep, PTL DEF Spec

=============================================================================
