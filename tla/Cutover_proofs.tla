---------------------------- MODULE Cutover_proofs ----------------------------
(***************************************************************************)
(* Theorems about Cutover for every value of its constants: type           *)
(* correctness, that no unfinished job is without a message while the      *)
(* broker is the queue, that neither backend starts an attempt over the    *)
(* live one of the other, the promise of JobLifecycle, and that the        *)
(* counters of Observations account for every job and every attempt.       *)
(*                                                                         *)
(* As in SqlScheduler_proofs, one lemma says what a step does to the rows: *)
(* it begins an attempt of one job, takes the verdict on one job, or       *)
(* leaves every row to a quiet statement.                                  *)
(***************************************************************************)
EXTENDS Cutover, JobTable_proofs, Sums_proofs

-----------------------------------------------------------------------------
(* The counters.                                                           *)

\* Any part of the table can be counted.
LEMMA JobsCounted ==
  ASSUME NEW S, S \subseteq Jobs
  PROVE  IsFiniteSet(S) /\ Cardinality(S) \in Nat
BY ObservationsAssumption, FS_Subset, FS_CardinalityType

\* Counters stay numbers.
LEMMA CountedType ==
  ASSUME NEW counts \in [Creditors -> [Events -> Nat]], NEW old, NEW new,
         NEW texts
  PROVE  Counted(counts, old, new, texts) \in [Creditors -> [Events -> Nat]]
<1>. DEFINE seen == [j \in Jobs |-> Observed(old[j], new[j], texts[j])]
<1>1. ASSUME NEW w \in Creditors, NEW e \in Events
      PROVE  counts[w][e] + Cardinality({j \in Jobs : <<w, e>> \in seen[j]}) \in Nat
  <2>1. Cardinality({j \in Jobs : <<w, e>> \in seen[j]}) \in Nat
    BY JobsCounted
  <2> QED
    BY <2>1
<1>2. Counted(counts, old, new, texts) =
        [w \in Creditors |-> [e \in Events |->
           counts[w][e] + Cardinality({j \in Jobs : <<w, e>> \in seen[j]})]]
  BY DEF Counted
<1> HIDE DEF seen
<1> QED
  BY <1>1, <1>2

-----------------------------------------------------------------------------
(* The type invariant.                                                     *)

JobsInv == /\ jobs \in [Jobs -> Row]
           /\ \A j \in Jobs : RowInv(jobs[j], reconciles, 0)
           /\ reconciles \in 0 .. MaxReconciles

TrackInv == /\ error \in [Jobs -> Errors]
            /\ obs \in [Creditors -> [Events -> Nat]]

\* What a slot holds at each stage.  A delivery under way is of the job that
\* is worked on, and a slot that claims in SQL never has one.
SlotInv(s, st) ==
  /\ st \in Slot
  /\ st.pc = "work" => st.job \in Jobs /\ st.token # 0
  /\ st.pc \in {"got", "ack"} => st.msg \in Messages
  /\ st.pc \in {"off", "on"} => st.msg = NoMessage
  /\ st.pc = "work" /\ st.msg # NoMessage => st.msg.job = st.job
  /\ s \in SqlSlots => st.msg = NoMessage /\ st.pc \in {"on", "work"}
  /\ s \in BrokerSlots => st.own = FALSE

SlotsInv == /\ slot \in [Instances -> Slot]
            /\ \A s \in Instances : SlotInv(s, slot[s])

MessagesInv == outbox \subseteq Messages /\ queue \subseteq Messages

SwitchInv == /\ backend \in Backends /\ migrated \in BOOLEAN
             /\ faults \in 0 .. MaxFaults /\ restarts \in 0 .. MaxRestarts
             /\ stranded \subseteq Jobs

TypeInv == JobsInv /\ TrackInv /\ SlotsInv /\ MessagesInv /\ SwitchInv

-----------------------------------------------------------------------------
(* What a step does to the rows.                                           *)

QuietRow(j) == QuietMove(jobs[j], jobs'[j], FALSE)

RowsQuiet == \A j \in Jobs : QuietRow(j)

RowStarts(j, s) == /\ \E d : StartMove(jobs[j], jobs'[j], s, d)
                   /\ \A i \in Jobs \ {j} : QuietRow(i)

RowSettles(j) == /\ VerdictMove(jobs[j], jobs'[j])
                 /\ \A i \in Jobs \ {j} : jobs'[i] = jobs[i]

RowsMoved == \/ RowsQuiet
             \/ \E j \in Jobs, s \in Instances : RowStarts(j, s)
             \/ \E j \in Jobs : RowSettles(j)

\* The parts of the constants' assumptions that proofs keep needing.
LEMMA Constants ==
  /\ 0 \in Nat /\ 0 \in {0, 1}
  /\ Jobs \subseteq Nat /\ MaxReconciles \in Nat /\ MaxFaults \in Nat
  /\ MaxRestarts \in Nat
  /\ \A s \in SqlSlots : s \in Instances /\ s \notin BrokerSlots
  /\ \A s \in BrokerSlots : s \in Instances /\ s \notin SqlSlots
  /\ \A s \in Instances : s \in SqlSlots \/ s \in BrokerSlots
  /\ NoMessage \notin Messages /\ NoJob \notin Jobs
BY CutoverAssumption, NoMessageAssumption

\* The number of reconciliations.
LEMMA Reconciled ==
  ASSUME JobsInv
  PROVE  reconciles \in Nat /\ \A j \in Jobs : RowInv(jobs[j], reconciles, 0)
BY Constants DEF JobsInv

\* Rows that stay are quiet.
LEMMA RowsStay ==
  ASSUME JobsInv, UNCHANGED <<jobs, reconciles>>
  PROVE  RowsMoved /\ JobsInv'
BY DEF RowsMoved, RowsQuiet, QuietRow, QuietMove, JobsInv

\* Each row moves by itself.
LEMMA AllRows ==
  ASSUME JobsInv, UNCHANGED reconciles, NEW new,
         jobs' = [j \in Jobs |-> new[j]],
         \A j \in Jobs : RowInv(new[j], reconciles, 0)
  PROVE  JobsInv' /\ \A j \in Jobs : jobs'[j] = new[j]
BY DEF JobsInv, RowInv

\* One row changes.
LEMMA OneRow ==
  ASSUME JobsInv, UNCHANGED reconciles, NEW j \in Jobs, NEW row,
         RowInv(row, reconciles, 0), jobs' = [jobs EXCEPT ![j] = row]
  PROVE  /\ JobsInv'
         /\ jobs'[j] = row /\ \A i \in Jobs \ {j} : jobs'[i] = jobs[i]
BY DEF JobsInv, RowInv

\* One row changes quietly.
LEMMA OneQuiet ==
  ASSUME JobsInv, UNCHANGED reconciles, NEW j \in Jobs, NEW row,
         RowInv(row, reconciles, 0), QuietMove(jobs[j], row, FALSE),
         jobs' = [jobs EXCEPT ![j] = row]
  PROVE  RowsMoved /\ JobsInv'
<1>1. /\ JobsInv' /\ jobs'[j] = row
      /\ \A i \in Jobs \ {j} : jobs'[i] = jobs[i]
  BY OneRow
<1>2. \A i \in Jobs \ {j} : QuietRow(i)
  BY <1>1 DEF QuietRow, QuietMove
<1>3. QuietRow(j)
  BY <1>1 DEF QuietRow
<1> QED
  BY <1>1, <1>2, <1>3 DEF RowsMoved, RowsQuiet

\* A verdict changes one row.
LEMMA OneVerdict ==
  ASSUME JobsInv, UNCHANGED reconciles, NEW j \in Jobs, NEW row,
         RowInv(row, reconciles, 0), VerdictMove(jobs[j], row),
         jobs' = [jobs EXCEPT ![j] = row]
  PROVE  RowsMoved /\ JobsInv'
<1>1. /\ JobsInv' /\ jobs'[j] = row
      /\ \A i \in Jobs \ {j} : jobs'[i] = jobs[i]
  BY OneRow
<1>2. RowSettles(j)
  BY <1>1 DEF RowSettles
<1> QED
  BY <1>1, <1>2 DEF RowsMoved

\* The rows that reap.sql leaves.
LEMMA Reaped ==
  ASSUME JobsInv, NEW j \in Jobs
  PROVE  /\ RowInv(ReapedRows[j], reconciles, 0)
         /\ QuietMove(jobs[j], ReapedRows[j], FALSE)
         /\ jobs[j].attempts < MaxAttempts => ReapedRows[j] = jobs[j]
<1>1. /\ RowInv(jobs[j], reconciles, 0) /\ reconciles \in Nat
      /\ jobs[j].attempts \in Nat /\ MaxAttempts \in Nat
  BY Reconciled, WrittenValues, MaxAttemptsAssumption DEF RowInv, Row
<1>2. RowInv(EndFailedSet(jobs[j]), reconciles, 0)
  BY <1>1, Constants, ClientRows
<1>3. CASE j \in Reapable
  <2>1. Pending(jobs[j]) /\ ~(jobs[j].attempts < MaxAttempts)
    BY <1>1, <1>3 DEF Reapable, ReapWhere, Pending
  <2>2. ReapedRows[j] = EndFailedSet(jobs[j])
    BY <1>3 DEF ReapedRows
  <2> QED
    BY <1>2, <2>1, <2>2 DEF QuietMove
<1>4. CASE j \notin Reapable
  BY <1>1, <1>4 DEF ReapedRows, QuietMove
<1> QED
  BY <1>3, <1>4

-----------------------------------------------------------------------------
(* The steps of the rows, one lemma per group of actions.                   *)

\* The public API and the cleanup worker.
LEMMA ClientMoves ==
  ASSUME TypeInv, ClientStep
  PROVE  RowsMoved /\ JobsInv'
<1>. USE DEF TypeInv, Write, Update
<1>0. /\ \A j \in Jobs : RowInv(jobs[j], reconciles, 0)
      /\ reconciles \in Nat /\ 0 \in {0, 1} /\ JobsInv
  BY Reconciled, Constants
<1>1. ASSUME NEW j \in Jobs, CreateJob(j)
      PROVE  RowsMoved /\ JobsInv'
  <2>1. RowInv(CreateSet, reconciles, 0)
    BY <1>0, FixedRows
  <2>2. QuietMove(jobs[j], CreateSet, FALSE)
    BY <1>1 DEF CreateJob, QuietMove
  <2> QED
    BY <1>0, <1>1, <2>1, <2>2, OneQuiet DEF CreateJob, others, switches
<1>2. ASSUME NEW j \in Jobs, MarkDownloading(j)
      PROVE  RowsMoved /\ JobsInv'
  <2>1. Uploading(jobs[j])
    BY <1>2 DEF MarkDownloading, Uploading
  <2>2. RowInv(MarkDownloadingSet(jobs[j]), reconciles, 0)
    BY <1>0, <2>1, ClientRows
  <2>3. QuietMove(jobs[j], MarkDownloadingSet(jobs[j]), FALSE)
    BY <2>1 DEF QuietMove
  <2> QED
    BY <1>0, <1>2, <2>2, <2>3, OneQuiet DEF MarkDownloading, others, switches
<1>3. ASSUME NEW j \in Jobs, MarkQueued(j)
      PROVE  RowsMoved /\ JobsInv'
  <2>1. Uploading(jobs[j])
    BY <1>3 DEF MarkQueued, Uploading
  <2>2. /\ RowInv(MarkQueuedSet(jobs[j]), reconciles, 0)
        /\ RowInv(DispatchSet(MarkQueuedSet(jobs[j])), reconciles, 0)
    BY <1>0, <2>1, SqlRows, ClientRows
  <2>3. /\ QuietMove(jobs[j], MarkQueuedSet(jobs[j]), FALSE)
        /\ QuietMove(jobs[j], DispatchSet(MarkQueuedSet(jobs[j])), FALSE)
    BY <2>1 DEF QuietMove
  <2>4. UNCHANGED reconciles
    BY <1>3 DEF MarkQueued, others, switches
  <2>5. CASE backend = "rabbitmq"
    BY <1>0, <1>3, <2>2, <2>3, <2>4, <2>5, OneQuiet DEF MarkQueued
  <2>6. CASE backend # "rabbitmq"
    BY <1>0, <1>3, <2>2, <2>3, <2>4, <2>6, OneQuiet DEF MarkQueued
  <2> QED
    BY <2>5, <2>6
<1>4. ASSUME NEW j \in Jobs, FailUpload(j) \/ CancelJob(j)
      PROVE  RowsMoved /\ JobsInv'
  <2>1. Uploading(jobs[j]) \/ Pending(jobs[j])
    <3>1. CASE FailUpload(j)
      BY <1>0, <3>1 DEF FailUpload, FailWhere, RowInv, RowShape
    <3>2. CASE CancelJob(j)
      BY <1>0, <3>2 DEF CancelJob, CancelWhere, Exists, Terminal, Uploading,
                        Pending, RowInv, Row, Statuses
    <3> QED
      BY <1>4, <3>1, <3>2
  <2>2. /\ jobs' = [jobs EXCEPT ![j] = EndFailedSet(jobs[j])]
        /\ UNCHANGED reconciles
    BY <1>4, FinalFailure DEF FailUpload, CancelJob, others, switches
  <2>3. RowInv(EndFailedSet(jobs[j]), reconciles, 0)
    BY <1>0, ClientRows
  <2>4. QuietMove(jobs[j], EndFailedSet(jobs[j]), FALSE)
    BY <2>1 DEF QuietMove
  <2> QED
    BY <1>0, <2>2, <2>3, <2>4, OneQuiet
<1>5. ASSUME NEW gone \in SUBSET Jobs, CleanupExpiredJobs(gone)
      PROVE  RowsMoved /\ JobsInv'
  <2>. DEFINE new == [j \in Jobs |-> IF j \in gone THEN DeletedRow
                                     ELSE ReapedRows[j]]
  <2>1. jobs' = new /\ UNCHANGED reconciles
    BY <1>5 DEF CleanupExpiredJobs, others, switches
  <2>2. ASSUME NEW j \in Jobs
        PROVE  QuietMove(jobs[j], new[j], FALSE) /\ RowInv(new[j], reconciles, 0)
    <3>1. RowInv(DeletedRow, reconciles, 0)
      BY <1>0, FixedRows
    <3>2. CASE j \in gone
      BY <1>5, <3>1, <3>2 DEF CleanupExpiredJobs, QuietMove
    <3>3. CASE j \notin gone
      BY <1>0, <3>3, Reaped
    <3> QED
      BY <3>2, <3>3
  <2>3. new = [j \in Jobs |-> new[j]]
    OBVIOUS
  <2> HIDE DEF new
  <2>4. JobsInv' /\ \A j \in Jobs : jobs'[j] = new[j]
    BY <1>0, <2>1, <2>2, <2>3, AllRows
  <2> QED
    BY <2>2, <2>4 DEF RowsMoved, RowsQuiet, QuietRow
<1> QED
  BY <1>1, <1>2, <1>3, <1>4, <1>5 DEF ClientStep

\* A restart gives a generation to jobs without, reconcile.py to any that
\* wait.
LEMMA AdoptMoves ==
  ASSUME TypeInv, Reconcile \/ \E b \in Backends : Restart(b)
  PROVE  RowsMoved /\ JobsInv'
<1>. USE DEF TypeInv
<1>0. /\ \A j \in Jobs : RowInv(jobs[j], reconciles, 0)
      /\ reconciles \in Nat /\ MaxReconciles \in Nat /\ 0 \in {0, 1} /\ JobsInv
  BY Reconciled, Constants
<1>1. ASSUME NEW js, Adopt(js), \A j \in js \cap Jobs : Pending(jobs[j])
      PROVE  RowsMoved
  <2>1. \A j \in Jobs : jobs'[j] \in {jobs[j], DispatchSet(jobs[j])}
          /\ (j \notin js => jobs'[j] = jobs[j])
    BY <1>1 DEF Adopt
  <2> QED
    BY <1>1, <2>1 DEF RowsMoved, RowsQuiet, QuietRow, QuietMove
<1>2. ASSUME NEW b \in Backends, Restart(b)
      PROVE  RowsMoved /\ JobsInv'
  <2>. DEFINE js == {j \in Jobs : Unadopted(jobs[j])
                                   /\ (~migrated \/ b = "rabbitmq")}
              new == [j \in Jobs |-> IF j \in js THEN DispatchSet(jobs[j])
                                     ELSE jobs[j]]
  <2>1. \A j \in js : j \in Jobs /\ Pending(jobs[j]) /\ jobs[j].dispatch = 0
    BY DEF Unadopted
  <2>2. Adopt(js) /\ UNCHANGED reconciles
    BY <1>2 DEF Restart
  <2>3. \A j \in Jobs : RowInv(new[j], reconciles, 0)
    BY <1>0, <2>1, SqlRows
  <2>4. jobs' = new /\ new = [j \in Jobs |-> new[j]]
    BY <2>2 DEF Adopt
  <2> HIDE DEF js, new
  <2> QED
    BY <1>0, <1>1, <2>1, <2>2, <2>3, <2>4, AllRows
<1>3. CASE Reconcile
  <2>. DEFINE js == {j \in Jobs : \/ Unadopted(jobs[j])
                                  \/ Pending(jobs[j]) /\ ~Live(jobs[j])}
              new == [j \in Jobs |-> IF j \in js THEN DispatchSet(jobs[j])
                                     ELSE jobs[j]]
  <2>1. \A j \in js : j \in Jobs /\ Pending(jobs[j])
    BY DEF Unadopted
  <2>2. Adopt(js) /\ reconciles' = reconciles + 1 /\ reconciles < MaxReconciles
    BY <1>3 DEF Reconcile
  <2>3. \A j \in Jobs : RowInv(new[j], reconciles + 1, 0)
    BY <1>0, <2>1, ReconciledRows
  <2>4. jobs' = new /\ new = [j \in Jobs |-> new[j]]
    BY <2>2 DEF Adopt
  <2> HIDE DEF js, new
  <2>5. reconciles' \in 0 .. MaxReconciles
    BY <1>0, <2>2
  <2>6. JobsInv'
    BY <2>2, <2>3, <2>4, <2>5 DEF JobsInv, RowInv
  <2> QED
    BY <1>1, <2>1, <2>2, <2>6
<1> QED
  BY <1>2, <1>3

\* Starting an attempt of one job while reaping others.
LEMMA OneStart ==
  ASSUME JobsInv, UNCHANGED reconciles, NEW j \in Jobs, NEW s \in Instances,
         Pending(jobs[j]), ~Live(jobs[j]), jobs[j].attempts < MaxAttempts,
         NEW old, old = jobs \/ old = ReapedRows,
         jobs' = [old EXCEPT ![j] = StartedRow(s, jobs[j])]
  PROVE  RowsMoved /\ JobsInv'
<1>. DEFINE row == StartedRow(s, jobs[j])
<1>1. /\ \A i \in Jobs : RowInv(jobs[i], reconciles, 0)
      /\ reconciles \in Nat /\ 0 \in {0, 1} /\ jobs[j].delivery \in Nat
  BY Reconciled, Constants DEF RowInv, Row
<1>2. StartMove(jobs[j], row, s, jobs[j].delivery)
  BY DEF StartedRow, StartMove
<1>3. RowInv(row, reconciles, 0)
  BY <1>1, AttemptRows DEF StartedRow
<1>4. old = [i \in Jobs |-> old[i]]
  BY DEF JobsInv, ReapedRows
<1> HIDE DEF row
<1>5. jobs' = [i \in Jobs |-> IF i = j THEN row ELSE old[i]]
  BY <1>4 DEF row
<1>6. \A i \in Jobs \ {j} : /\ RowInv(old[i], reconciles, 0)
                            /\ QuietMove(jobs[i], old[i], FALSE)
  BY <1>1, Reaped DEF QuietMove
<1>7. RowStarts(j, s)
  BY <1>2, <1>5, <1>6 DEF RowStarts, QuietRow
<1>8. JobsInv'
  BY <1>3, <1>5, <1>6 DEF JobsInv, RowInv
<1> QED
  BY <1>7, <1>8 DEF RowsMoved

\* claim_next_job.
LEMMA ClaimMoves ==
  ASSUME TypeInv, NEW s \in SqlSlots, NEW own \in BOOLEAN, Claim(s, own)
  PROVE  RowsMoved /\ JobsInv'
<1>. USE DEF TypeInv
<1>. DEFINE open == {j \in Jobs : Claimable(jobs[j])}
<1>1. JobsInv /\ UNCHANGED reconciles /\ s \in Instances
  BY Constants DEF Claim, switches
<1>2. CASE open = {}
  <2>1. jobs' = ReapedRows /\ ReapedRows = [j \in Jobs |-> ReapedRows[j]]
    BY <1>2 DEF Claim, Write, ReapedRows
  <2>2. JobsInv' /\ \A j \in Jobs : jobs'[j] = ReapedRows[j]
    BY <1>1, <2>1, Reaped, AllRows
  <2> QED
    BY <1>1, <2>2, Reaped DEF RowsMoved, RowsQuiet, QuietRow
<1>3. CASE open # {}
  <2>. DEFINE first == Min(open)
  <2>1. first \in open
    BY <1>3, MinMember, Constants
  <2>2. jobs' = [ReapedRows EXCEPT ![first] = StartedRow(s, @)]
    BY <1>3 DEF Claim, Write
  <2>3. /\ first \in Jobs /\ Pending(jobs[first]) /\ ~Live(jobs[first])
        /\ jobs[first].attempts < MaxAttempts
    BY <2>1 DEF Claimable
  <2> HIDE DEF first
  <2>4. ReapedRows[first] = jobs[first]
    BY <1>1, <2>3, Reaped
  <2>5. jobs' = [ReapedRows EXCEPT ![first] = StartedRow(s, jobs[first])]
    BY <2>2, <2>4
  <2> QED
    BY <1>1, <2>3, <2>5, OneStart
<1> QED
  BY <1>2, <1>3

\* begin_attempt.
LEMMA BeginMoves ==
  ASSUME TypeInv, NEW s \in BrokerSlots, BeginAttempt(s)
  PROVE  RowsMoved /\ JobsInv'
<1>. USE DEF TypeInv
<1>. DEFINE m   == slot[s].msg
            row == jobs[m.job]
<1>1. /\ JobsInv /\ UNCHANGED reconciles /\ s \in Instances /\ m.job \in Jobs
      /\ RowInv(row, reconciles, 0) /\ row.attempts \in Nat
      /\ MaxAttempts \in Nat /\ reconciles \in Nat /\ 0 \in {0, 1}
  <2>1. s \in Instances /\ m \in Messages
    BY Constants DEF BeginAttempt, SlotsInv, SlotInv
  <2>2. RowInv(row, reconciles, 0)
    BY <2>1, Reconciled DEF Messages
  <2> QED
    BY <2>1, <2>2, Reconciled, Constants, WrittenValues, MaxAttemptsAssumption
       DEF BeginAttempt, switches, Messages, RowInv, Row
<1>2. \/ UNCHANGED jobs
      \/ /\ Pending(row) /\ ~Live(row)
         /\ IF Exhausted(row)
              THEN jobs' = [jobs EXCEPT ![m.job] = EndFailedSet(row)]
              ELSE jobs' = [jobs EXCEPT ![m.job] = StartedRow(s, row)]
  <2>1. CASE backend = "postgres"
    BY <2>1 DEF BeginAttempt, rows
  <2>2. CASE backend = "rabbitmq" /\ Obsolete(m)
    BY <2>2 DEF BeginAttempt, rows
  <2>3. CASE backend = "rabbitmq" /\ ~Obsolete(m) /\ Live(row)
    BY <2>3 DEF BeginAttempt, rows
  <2>4. CASE backend = "rabbitmq" /\ ~Obsolete(m) /\ ~Live(row)
    BY <2>4 DEF BeginAttempt, Update, Write, Obsolete
  <2> QED
    BY <2>1, <2>2, <2>3, <2>4 DEF SwitchInv, Backends
<1> HIDE DEF m, row
<1>3. CASE UNCHANGED jobs
  BY <1>1, <1>3, RowsStay
<1>4. CASE /\ Pending(row)
           /\ jobs' = [jobs EXCEPT ![m.job] = EndFailedSet(row)]
  <2>1. RowInv(EndFailedSet(row), reconciles, 0)
    BY <1>1, ClientRows
  <2>2. QuietMove(row, EndFailedSet(row), FALSE)
    BY <1>4 DEF QuietMove
  <2> QED
    BY <1>1, <1>4, <2>1, <2>2, OneQuiet DEF row
<1>5. CASE /\ Pending(row) /\ ~Live(row) /\ ~Exhausted(row)
           /\ jobs' = [jobs EXCEPT ![m.job] = StartedRow(s, row)]
  <2>1. row.attempts < MaxAttempts
    BY <1>1, <1>5 DEF Exhausted
  <2> QED
    BY <1>1, <1>5, <2>1, OneStart DEF row
<1> QED
  BY <1>2, <1>3, <1>4, <1>5

\* complete_job and fail_job.
LEMMA VerdictRow ==
  ASSUME TypeInv, NEW s \in Instances, NEW v \in Verdicts, Verdict(s, v),
         Accepted(s, v)
  PROVE  LET j   == slot[s].job
             row == FailSet(jobs[j], v = "failRetry")
         IN /\ j \in Jobs
            /\ jobs[j].status = "running" /\ Live(jobs[j])
            /\ jobs[j].lease_owner = slot[s].token
            /\ \/ v = "complete" /\ jobs' = [jobs EXCEPT ![j] = CompleteSet(jobs[j])]
               \/ /\ v # "complete"
                  /\ row.status # "queued" \/ BackendOf(s) = "postgres"
                  /\ jobs' = [jobs EXCEPT ![j] = row]
               \/ /\ v = "failRetry" /\ row.status = "queued"
                  /\ BackendOf(s) = "rabbitmq"
                  /\ jobs' = [jobs EXCEPT ![j] = DispatchSet(row)]
<1>. DEFINE j   == slot[s].job
            row == FailSet(jobs[j], v = "failRetry")
<1>1. j \in Jobs /\ slot[s].token # 0
  BY DEF Verdict, TypeInv, SlotsInv, SlotInv
<1>2. /\ jobs[j].status = "running" /\ Live(jobs[j])
      /\ jobs[j].lease_owner = slot[s].token
  BY <1>1 DEF Accepted, CompleteWhere, FailWhere
<1>3. BackendOf(s) \in {"postgres", "rabbitmq"}
  BY DEF BackendOf, TypeInv, SwitchInv, Backends
<1>4. CASE v = "complete"
  <2>1. jobs' = [jobs EXCEPT ![j] = CompleteSet(jobs[j])]
    BY <1>4 DEF Verdict, Update, Write
  <2> QED
    BY <1>1, <1>2, <1>4, <2>1
<1>5. CASE v # "complete" /\ row.status # "queued"
  <2>1. jobs' = [jobs EXCEPT ![j] = row]
    BY <1>5 DEF Verdict, Update, Write
  <2> QED
    BY <1>1, <1>2, <1>5, <2>1
<1>6. CASE v # "complete" /\ row.status = "queued"
  <2>1. QueueAgain(s, j, row)
    BY <1>6 DEF Verdict
  <2>2. v = "failRetry"
    BY <1>6 DEF FailSet, TypeInv, JobsInv, Row, Verdicts
  <2>3. CASE BackendOf(s) = "rabbitmq"
    <3>1. jobs' = [jobs EXCEPT ![j] = DispatchSet(row)]
      BY <2>1, <2>3 DEF QueueAgain, Update, Write
    <3> QED
      BY <1>1, <1>2, <1>6, <2>2, <2>3, <3>1
  <2>4. CASE BackendOf(s) = "postgres"
    <3>1. jobs' = [jobs EXCEPT ![j] = row]
      BY <2>1, <2>4 DEF QueueAgain, Update, Write
    <3> QED
      BY <1>1, <1>2, <1>6, <2>4, <3>1
  <2> QED
    BY <1>3, <2>3, <2>4
<1> QED
  BY <1>4, <1>5, <1>6

\* A verdict moves one row, or none.
LEMMA VerdictMoveRows ==
  ASSUME TypeInv, NEW s \in Instances, NEW v \in Verdicts, Verdict(s, v)
  PROVE  RowsMoved /\ JobsInv'
<1>1. JobsInv /\ UNCHANGED reconciles
  BY DEF TypeInv, Verdict, switches
<1>2. CASE ~Accepted(s, v)
  <2>1. UNCHANGED jobs
    BY <1>2 DEF Verdict, tables, rows
  <2> QED
    BY <1>1, <2>1, RowsStay
<1>3. CASE Accepted(s, v)
  <2>. DEFINE j == slot[s].job
              b == v = "failRetry"
              row == FailSet(jobs[j], b)
  <2>1. /\ j \in Jobs /\ jobs[j].status = "running" /\ b \in BOOLEAN
        /\ \/ jobs' = [jobs EXCEPT ![j] = CompleteSet(jobs[j])]
           \/ jobs' = [jobs EXCEPT ![j] = row]
           \/ b /\ row.status = "queued"
                /\ jobs' = [jobs EXCEPT ![j] = DispatchSet(row)]
    BY <1>3, VerdictRow
  <2>2. RowInv(jobs[j], reconciles, 0) /\ reconciles \in Nat /\ 0 \in {0, 1}
    BY <1>1, <2>1, Reconciled, Constants
  <2>3. /\ RowInv(CompleteSet(jobs[j]), reconciles, 0)
        /\ RowInv(FailSet(jobs[j], FALSE), reconciles, 0)
        /\ RowInv(FailSet(jobs[j], TRUE), reconciles, 0)
        /\ FailSet(jobs[j], TRUE).status = "queued"
             => RowInv(DispatchSet(FailSet(jobs[j], TRUE)), reconciles, 0)
    BY <2>1, <2>2, AttemptRows, SqlRows
  <2> HIDE DEF j, b
  <2>4. /\ VerdictMove(jobs[j], CompleteSet(jobs[j]))
        /\ VerdictMove(jobs[j], row)
        /\ VerdictMove(jobs[j], DispatchSet(row))
    BY <2>1 DEF VerdictMove
  <2>5. /\ RowInv(row, reconciles, 0)
        /\ b /\ row.status = "queued" => RowInv(DispatchSet(row), reconciles, 0)
    BY <2>1, <2>3
  <2> HIDE DEF row
  <2> QED
    BY <1>1, <2>1, <2>3, <2>4, <2>5, OneVerdict
<1> QED
  BY <1>2, <1>3

\* Every step.
LEMMA RowsMove ==
  TypeInv /\ [Next]_vars => RowsMoved /\ JobsInv'
<1>. SUFFICES ASSUME TypeInv, [Next]_vars PROVE RowsMoved /\ JobsInv'
  OBVIOUS
<1>1. CASE UNCHANGED <<jobs, reconciles>>
  BY <1>1, RowsStay DEF TypeInv
<1>2. CASE ClientStep
  BY <1>2, ClientMoves
<1>3. CASE Reconcile \/ \E b \in Backends : Restart(b)
  BY <1>3, AdoptMoves
<1>4. ASSUME NEW m \in outbox, Publish(m)
      PROVE  RowsMoved /\ JobsInv'
  BY <1>1, <1>4 DEF Publish, rows, switches
<1>5. CASE SlotStep
  <2>1. ASSUME NEW s \in SqlSlots, NEW own \in BOOLEAN, Claim(s, own)
        PROVE  RowsMoved /\ JobsInv'
    BY <2>1, ClaimMoves
  <2>2. ASSUME NEW s \in BrokerSlots, BeginAttempt(s)
        PROVE  RowsMoved /\ JobsInv'
    BY <2>2, BeginMoves
  <2>3. ASSUME NEW s \in BrokerSlots,
               \/ TurnOn(s) \/ TurnOff(s) \/ \E m \in queue : Deliver(s, m)
               \/ LoseConnection(s) \/ AckDelivery(s)
        PROVE  RowsMoved /\ JobsInv'
    BY <1>1, <2>3 DEF TurnOn, TurnOff, Deliver, LoseConnection, AckDelivery,
                      tables, rows, switches
  <2>4. ASSUME NEW s \in Instances, NEW v \in Verdicts, Verdict(s, v)
        PROVE  RowsMoved /\ JobsInv'
    BY <2>4, VerdictMoveRows
  <2>5. ASSUME NEW s \in Instances, Abandon(s)
        PROVE  RowsMoved /\ JobsInv'
    BY <1>1, <2>5 DEF Abandon, tables, rows, switches
  <2> QED
    BY <1>5, <2>1, <2>2, <2>3, <2>4, <2>5 DEF SlotStep
<1>6. ASSUME NEW j \in Jobs, LeaseExpires(j)
      PROVE  RowsMoved /\ JobsInv'
  <2>. DEFINE row == [jobs[j] EXCEPT !.lease = "expired"]
  <2>1. /\ jobs' = [jobs EXCEPT ![j] = row]
        /\ UNCHANGED reconciles /\ JobsInv
    BY <1>6 DEF LeaseExpires, switches, TypeInv
  <2>2. RowInv(row, reconciles, 0)
    BY <2>1, Reconciled, Constants, ClientRows
  <2>3. QuietMove(jobs[j], row, FALSE)
    BY DEF QuietMove
  <2> HIDE DEF row
  <2> QED
    BY <2>1, <2>2, <2>3, OneQuiet
<1>7. CASE UNCHANGED vars
  BY <1>1, <1>7 DEF vars, rows
<1> QED
  BY <1>2, <1>3, <1>4, <1>5, <1>6, <1>7 DEF Next

-----------------------------------------------------------------------------
(* The other parts of the type invariant.                                  *)

\* A statement writes a text to one job or more, and counts.
LEMMA TrackWrite ==
  ASSUME TrackInv, NEW new, NEW texts \in [Jobs -> Errors], Write(new, texts)
  PROVE  TrackInv'
BY CountedType DEF TrackInv, Write

\* An update is counted, and leaves a text the trigger knows.
LEMMA TrackUpdate ==
  ASSUME TrackInv, NEW j \in Jobs, NEW row, NEW text \in Errors,
         Update(j, row, text)
  PROVE  TrackInv'
<1>1. [error EXCEPT ![j] = text] \in [Jobs -> Errors]
  BY DEF TrackInv
<1> QED
  BY <1>1, TrackWrite DEF Update

\* The texts that reap.sql leaves.
LEMMA ReapedTexts ==
  ASSUME TrackInv
  PROVE  /\ ReapedErrors \in [Jobs -> Errors]
         /\ \A j : [ReapedErrors EXCEPT ![j] = "none"] \in [Jobs -> Errors]
<1>1. {"none", "attempts_exhausted"} \subseteq Errors
  BY DEF Errors
<1>2. ReapedErrors \in [Jobs -> Errors]
  BY <1>1 DEF ReapedErrors, TrackInv
<1> QED
  BY <1>1, <1>2

\* Every step counts, or leaves the counters alone.
LEMMA TrackStep ==
  ASSUME TypeInv, [Next]_vars
  PROVE  TrackInv'
<1>. USE DEF TypeInv
<1>0. {"none", "cancelled", "attempts_exhausted", "other"} \subseteq Errors
  BY DEF Errors
<1>1. CASE UNCHANGED <<error, obs>>
  BY <1>1 DEF TrackInv
<1>2. ASSUME NEW j \in Jobs,
             \/ CreateJob(j) \/ MarkDownloading(j) \/ MarkQueued(j)
             \/ FailUpload(j) \/ CancelJob(j)
      PROVE  TrackInv'
  <2>1. error[j] \in Errors
    BY DEF TrackInv
  <2>2. \A row : \A text \in Errors : Update(j, row, text) => TrackInv'
    BY TrackUpdate
  <2> QED
    BY <1>0, <1>2, <2>1, <2>2
       DEF CreateJob, MarkDownloading, MarkQueued, FailUpload, CancelJob
<1>3. ASSUME NEW gone \in SUBSET Jobs, CleanupExpiredJobs(gone)
      PROVE  TrackInv'
  BY <1>3, ReapedTexts, TrackWrite DEF CleanupExpiredJobs
<1>4. ASSUME NEW s \in SqlSlots, NEW own \in BOOLEAN, Claim(s, own)
      PROVE  TrackInv'
  <2>1. \A new : \A texts \in [Jobs -> Errors] : Write(new, texts) => TrackInv'
    BY TrackWrite
  <2> QED
    BY <1>4, <2>1, ReapedTexts DEF Claim
<1>5. ASSUME NEW s \in BrokerSlots, BeginAttempt(s)
      PROVE  TrackInv'
  <2>1. slot[s].msg.job \in Jobs
    BY <1>5, Constants DEF BeginAttempt, SlotsInv, SlotInv, Messages
  <2>2. \A row : \A text \in Errors :
          Update(slot[s].msg.job, row, text) => TrackInv'
    BY <2>1, TrackUpdate
  <2>3. UNCHANGED rows => TrackInv'
    BY <1>1 DEF rows
  <2>4. backend \in {"postgres", "rabbitmq"}
    BY DEF SwitchInv, Backends
  <2> QED
    BY <1>0, <1>5, <2>2, <2>3, <2>4 DEF BeginAttempt
<1>6. ASSUME NEW s \in Instances, NEW v \in Verdicts, Verdict(s, v)
      PROVE  TrackInv'
  <2>1. slot[s].job \in Jobs /\ error[slot[s].job] \in Errors
    BY <1>6 DEF Verdict, SlotsInv, SlotInv, TrackInv
  <2>2. \A row : \A text \in Errors :
          Update(slot[s].job, row, text) => TrackInv'
    BY <2>1, TrackUpdate
  <2>3. UNCHANGED tables => TrackInv'
    BY <1>1 DEF tables, rows
  <2> QED
    BY <1>0, <1>6, <2>1, <2>2, <2>3 DEF Verdict, QueueAgain
<1>7. CASE \/ Reconcile \/ \E b \in Backends : Restart(b)
           \/ \E m \in outbox : Publish(m)
           \/ \E j \in Jobs : LeaseExpires(j)
  BY <1>1, <1>7 DEF Reconcile, Restart, Adopt, Publish, LeaseExpires, vars, rows
<1>8. ASSUME NEW s \in BrokerSlots,
             \/ TurnOn(s) \/ TurnOff(s) \/ \E m \in queue : Deliver(s, m)
             \/ LoseConnection(s) \/ AckDelivery(s)
      PROVE  TrackInv'
  BY <1>1, <1>8 DEF TurnOn, TurnOff, Deliver, LoseConnection, AckDelivery,
                    tables, rows
<1>9. ASSUME NEW s \in Instances, Abandon(s)
      PROVE  TrackInv'
  BY <1>1, <1>9 DEF Abandon, tables, rows
<1>10. CASE UNCHANGED vars
  BY <1>1, <1>10 DEF vars, rows
<1> QED
  BY <1>2, <1>3, <1>4, <1>5, <1>6, <1>7, <1>8, <1>9, <1>10
     DEF Next, ClientStep, SlotStep

\* The states that a loop leaves its slot in.
LEMMA SlotUpdate ==
  ASSUME SlotsInv, NEW s \in Instances, NEW st, SlotInv(s, st),
         slot' = [slot EXCEPT ![s] = st]
  PROVE  SlotsInv'
BY DEF SlotsInv, SlotInv

\* A slot without a job is in its shape.
LEMMA EmptySlots ==
  ASSUME NEW s \in Instances
  PROVE  /\ SlotInv(s, Resting(s))
         /\ SlotInv(s, Empty("on"))
         /\ s \in BrokerSlots => SlotInv(s, Empty("off"))
<1>1. \A pc \in {"on", "off"} : Empty(pc) \in Slot
  BY WrittenValues DEF Empty, Slot
<1> QED
  BY <1>1, Constants DEF Empty, SlotInv, Resting

\* What is known of the slot that takes a step.
LEMMA OneSlot ==
  ASSUME SlotsInv, NEW s \in Instances
  PROVE  /\ slot[s] \in Slot /\ SlotInv(s, slot[s])
         /\ slot[s].msg \in Messages \/ slot[s].msg = NoMessage
BY DEF SlotsInv, Slot

\* Starting an attempt.
LEMMA StartedType ==
  ASSUME SlotsInv, NEW s \in Instances, NEW st \in Slot,
         st.job \in Jobs, st.token # 0,
         st.msg # NoMessage => s \in BrokerSlots /\ st.msg.job = st.job,
         s \in BrokerSlots => st.own = FALSE,
         Started(s, st)
  PROVE  SlotsInv'
<1>1. CASE Release(s)
  BY <1>1, EmptySlots, SlotUpdate DEF Release
<1>2. CASE Goto(s, [st EXCEPT !.pc = "work"])
  <2>. DEFINE new == [st EXCEPT !.pc = "work"]
  <2>1. /\ new \in Slot /\ new.pc = "work" /\ new.job = st.job
        /\ new.token = st.token /\ new.msg = st.msg /\ new.own = st.own
    BY DEF Slot
  <2>2. slot' = [slot EXCEPT ![s] = new]
    BY <1>2 DEF Goto
  <2> HIDE DEF new
  <2>3. SlotInv(s, new)
    BY <2>1, Constants DEF SlotInv
  <2> QED
    BY <2>2, <2>3, SlotUpdate
<1> QED
  BY <1>1, <1>2 DEF Started

\* A slot that goes on to acknowledge its delivery.
LEMMA AckType ==
  ASSUME SlotsInv, NEW s \in BrokerSlots, slot[s].msg \in Messages,
         Goto(s, [slot[s] EXCEPT !.pc = "ack"])
  PROVE  SlotsInv'
<1>. DEFINE new == [slot[s] EXCEPT !.pc = "ack"]
<1>1. s \in Instances /\ slot[s] \in Slot /\ SlotInv(s, slot[s])
  BY Constants, OneSlot
<1>2. /\ new \in Slot /\ new.pc = "ack"
      /\ new.msg = slot[s].msg /\ new.own = slot[s].own
  BY <1>1 DEF Slot
<1>3. slot' = [slot EXCEPT ![s] = new]
  BY DEF Goto
<1> HIDE DEF new
<1>4. SlotInv(s, new)
  BY <1>1, <1>2, Constants DEF SlotInv
<1> QED
  BY <1>1, <1>3, <1>4, SlotUpdate

\* The steps of one slot.
LEMMA SlotTypes ==
  ASSUME TypeInv, SlotStep
  PROVE  SlotsInv'
<1>. USE DEF TypeInv
<1>1. ASSUME NEW s \in SqlSlots, NEW own \in BOOLEAN, Claim(s, own)
      PROVE  SlotsInv'
  <2>. DEFINE open == {j \in Jobs : Claimable(jobs[j])}
              first == Min(open)
              st == [slot[s] EXCEPT !.job = first, !.own = own,
                                    !.token = jobs[first].attempts + 1]
  <2>1. CASE open = {}
    BY <1>1, <2>1 DEF Claim, SlotsInv
  <2>2. CASE open # {}
    <3>1. first \in open
      BY <2>2, MinMember, Constants
    <3>2. Started(s, st)
      BY <1>1, <2>2 DEF Claim
    <3>3. first \in Jobs /\ jobs[first].attempts + 1 \in Tokens \ {0}
      <4>1. first \in Jobs /\ jobs[first].attempts < MaxAttempts
        BY <3>1 DEF Claimable
      <4>2. jobs[first].attempts \in Tokens
        BY <4>1 DEF JobsInv, Row
      <4> QED
        BY <4>1, <4>2, WrittenValues
    <3>4. s \in Instances /\ slot[s] \in Slot /\ SlotInv(s, slot[s])
      BY Constants, OneSlot
    <3> HIDE DEF first
    <3>5. /\ st \in Slot /\ st.job = first /\ st.msg = slot[s].msg
          /\ st.token = jobs[first].attempts + 1
      BY <3>3, <3>4 DEF Slot
    <3>6. st.msg = NoMessage /\ s \notin BrokerSlots
      BY <3>4, <3>5, Constants DEF SlotInv
    <3> HIDE DEF st
    <3> QED
      BY <3>2, <3>3, <3>4, <3>5, <3>6, StartedType
  <2> QED
    BY <2>1, <2>2
<1>2. ASSUME NEW s \in BrokerSlots, TurnOn(s) \/ TurnOff(s) \/ AckDelivery(s)
      PROVE  SlotsInv'
  BY <1>2, EmptySlots, SlotUpdate, Constants
     DEF TurnOn, TurnOff, AckDelivery, Goto
<1>3. ASSUME NEW s \in BrokerSlots, NEW m \in queue, Deliver(s, m)
      PROVE  SlotsInv'
  <2>. DEFINE st == [Empty("got") EXCEPT !.msg = m]
  <2>1. m \in Messages /\ s \in Instances
    BY Constants DEF MessagesInv
  <2>2. SlotInv(s, st)
    BY <2>1, Constants, WrittenValues DEF SlotInv, Empty, Slot
  <2> QED
    BY <1>3, <2>1, <2>2, SlotUpdate DEF Deliver
<1>4. ASSUME NEW s \in BrokerSlots, BeginAttempt(s)
      PROVE  SlotsInv'
  <2>. DEFINE m   == slot[s].msg
              row == jobs[m.job]
              st  == [slot[s] EXCEPT !.job = m.job, !.token = row.attempts + 1]
  <2>1. /\ s \in Instances /\ slot[s] \in Slot /\ SlotInv(s, slot[s])
        /\ m \in Messages /\ m.job \in Jobs
    <3>1. s \in Instances /\ slot[s] \in Slot /\ SlotInv(s, slot[s])
      BY Constants, OneSlot
    <3> QED
      BY <1>4, <3>1 DEF BeginAttempt, SlotInv, Messages
  <2>2. Release(s) => SlotsInv'
    BY <2>1, EmptySlots, SlotUpdate DEF Release
  <2>3. Goto(s, [slot[s] EXCEPT !.pc = "ack"]) => SlotsInv'
    BY <2>1, AckType
  <2>4. slot' = [slot EXCEPT ![s] = Empty("on")] => SlotsInv'
    BY <2>1, EmptySlots, SlotUpdate
  <2>5. ~Exhausted(row) /\ Started(s, st) => SlotsInv'
    <3>. SUFFICES ASSUME ~Exhausted(row), Started(s, st) PROVE SlotsInv'
      OBVIOUS
    <3>1. row.attempts + 1 \in Tokens \ {0}
      <4>1. row.attempts \in Tokens
        BY <2>1 DEF JobsInv, Row
      <4>2. row.attempts < MaxAttempts
        BY <4>1, WrittenValues, MaxAttemptsAssumption DEF Exhausted
      <4> QED
        BY <4>1, <4>2, WrittenValues
    <3>2. /\ st \in Slot /\ st.job = m.job /\ st.msg = m
          /\ st.token = row.attempts + 1 /\ st.own = slot[s].own
      BY <2>1, <3>1 DEF Slot
    <3>3. st.own = FALSE
      BY <2>1, <3>2 DEF SlotInv
    <3> HIDE DEF st
    <3> QED
      BY <2>1, <3>1, <3>2, <3>3, StartedType
  <2>6. backend \in {"postgres", "rabbitmq"}
    BY DEF SwitchInv, Backends
  <2> QED
    BY <1>4, <2>2, <2>3, <2>4, <2>5, <2>6 DEF BeginAttempt
<1>5. ASSUME NEW s \in BrokerSlots, LoseConnection(s)
      PROVE  SlotsInv'
  <2>. DEFINE st == [slot[s] EXCEPT !.msg = NoMessage]
  <2>1. s \in Instances /\ slot[s] \in Slot /\ SlotInv(s, slot[s])
    BY Constants, OneSlot
  <2>2. /\ st \in Slot /\ st.msg = NoMessage /\ st.pc = slot[s].pc
        /\ st.job = slot[s].job /\ st.token = slot[s].token
        /\ st.own = slot[s].own
    BY <2>1 DEF Slot
  <2>3. slot' = [slot EXCEPT ![s] = st]
    BY <1>5 DEF LoseConnection
  <2>4. slot[s].pc = "work"
    BY <1>5 DEF LoseConnection
  <2> HIDE DEF st
  <2>5. SlotInv(s, st)
    BY <2>1, <2>2, <2>4 DEF SlotInv
  <2> QED
    BY <2>1, <2>3, <2>5, SlotUpdate
<1>6. ASSUME NEW s \in Instances, NEW v \in Verdicts, Verdict(s, v)
      PROVE  SlotsInv'
  <2>1. Release(s) => SlotsInv'
    BY EmptySlots, SlotUpdate DEF Release
  <2>2. Held(s) /\ Goto(s, [slot[s] EXCEPT !.pc = "ack"]) => SlotsInv'
    <3>1. Held(s) => s \in BrokerSlots /\ slot[s].msg \in Messages
      BY OneSlot, Constants DEF Held, SlotInv
    <3> QED
      BY <3>1, AckType
  <2> QED
    BY <1>6, <2>1, <2>2 DEF Verdict
<1>7. ASSUME NEW s \in Instances, Abandon(s)
      PROVE  SlotsInv'
  BY <1>7, EmptySlots, SlotUpdate DEF Abandon, Release
<1> QED
  BY <1>1, <1>2, <1>3, <1>4, <1>5, <1>6, <1>7 DEF SlotStep

\* The generations of a job are bounded, and so are the messages.
LEMMA Generation ==
  ASSUME NEW recs \in 0 .. MaxReconciles, NEW row, RowInv(row, recs, 0),
         Pending(row), row.dispatch # 0, NEW j \in Jobs
  PROVE  Message(j, row.dispatch) \in Messages
<1>1. /\ row.dispatch \in Nat /\ row.attempts \in Nat
      /\ row.attempts <= MaxAttempts /\ MaxAttempts \in Nat
      /\ MaxReconciles \in Nat /\ recs \in Nat /\ recs <= MaxReconciles
  BY Constants, MaxAttemptsAssumption DEF RowInv, Row, Tokens
<1>2. CASE row.status = "running"
  <2>1. row.dispatch \in 0 .. (row.attempts + recs)
    BY <1>2 DEF RowInv, RowShape
  <2>2. row.dispatch <= MaxAttempts + MaxReconciles
    BY <1>1, <2>1
  <2> QED
    BY <1>1, <2>2 DEF Message, Messages, MaxGeneration
<1>3. CASE row.status = "queued"
  <2>1. /\ row.attempts < MaxAttempts
        /\ row.dispatch \in 0 .. (row.attempts + 1 + recs)
    BY <1>3 DEF RowInv, RowShape
  <2>2. row.dispatch <= MaxAttempts + MaxReconciles
    BY <1>1, <2>1
  <2> QED
    BY <1>1, <2>2 DEF Message, Messages, MaxGeneration
<1> QED
  BY <1>2, <1>3 DEF Pending

\* What enters the outbox is the current generation of an unfinished job.
NewMessage(m) ==
  \E j \in Jobs : /\ Pending(jobs'[j]) /\ jobs'[j].dispatch # 0
                  /\ m = Message(j, jobs'[j].dispatch)

OutboxMoved == \A m \in outbox' : m \in outbox \/ NewMessage(m)

\* A renumbered row.
LEMMA Renumbered ==
  ASSUME NEW row \in Row
  PROVE  /\ DispatchSet(row).dispatch = row.dispatch + 1
         /\ row.dispatch + 1 # 0
         /\ Pending(DispatchSet(row)) <=> Pending(row)
BY DEF Row, DispatchSet, Pending

\* What enters the outbox with one renumbered row.
LEMMA OneMessage ==
  ASSUME JobsInv, NEW j \in Jobs, NEW row \in Row, row.dispatch = jobs[j].dispatch,
         Pending(row), jobs' = [jobs EXCEPT ![j] = DispatchSet(row)],
         outbox' = outbox \cup {Message(j, row.dispatch + 1)}
  PROVE  OutboxMoved
<1>1. jobs'[j] = DispatchSet(row)
  BY DEF JobsInv
<1> QED
  BY <1>1, Renumbered DEF OutboxMoved, NewMessage

\* What enters it with all the rows that a statement renumbers at once.
LEMMA AdoptMessages ==
  ASSUME JobsInv, NEW js, js \subseteq Jobs, Adopt(js),
         \A j \in js : Pending(jobs[j])
  PROVE  /\ OutboxMoved
         /\ \A j \in js : /\ jobs'[j].dispatch # 0
                          /\ Message(j, jobs'[j].dispatch) \in outbox'
<1>1. \A j \in js : /\ jobs'[j] = DispatchSet(jobs[j]) /\ jobs[j] \in Row
  BY DEF Adopt, JobsInv
<1>2. outbox' = outbox \cup {Message(j, jobs[j].dispatch + 1) : j \in js}
  BY DEF Adopt
<1> QED
  BY <1>1, <1>2, Renumbered DEF OutboxMoved, NewMessage

\* The rows that FailSet leaves, for the statements about their dispatch_id.
LEMMA FailedRow ==
  ASSUME NEW row \in Row, NEW b
  PROVE  FailSet(row, b) \in Row /\ FailSet(row, b).dispatch = row.dispatch
BY WrittenValues DEF Row, FailSet

\* Nothing else enters it.
LEMMA OutboxStep ==
  ASSUME TypeInv, [Next]_vars
  PROVE  OutboxMoved
<1>. USE DEF TypeInv
<1>1. CASE outbox' \subseteq outbox
  BY <1>1 DEF OutboxMoved
<1>2. ASSUME NEW j \in Jobs, MarkQueued(j)
      PROVE  OutboxMoved
  <2>. DEFINE row == MarkQueuedSet(jobs[j])
  <2>1. row \in Row /\ row.dispatch = jobs[j].dispatch /\ Pending(row)
    BY WrittenValues DEF JobsInv, Row, MarkQueuedSet, Pending
  <2> HIDE DEF row
  <2>2. CASE backend = "rabbitmq"
    <3>1. /\ jobs' = [jobs EXCEPT ![j] = DispatchSet(row)]
          /\ outbox' = outbox \cup {Message(j, jobs[j].dispatch + 1)}
      BY <1>2, <2>2 DEF MarkQueued, Update, Write, row
    <3> QED
      BY <2>1, <3>1, OneMessage
  <2>3. CASE backend # "rabbitmq"
    BY <1>1, <1>2, <2>3 DEF MarkQueued
  <2> QED
    BY <2>2, <2>3
<1>3. ASSUME NEW b \in Backends, Restart(b)
      PROVE  OutboxMoved
  BY <1>3, AdoptMessages DEF Restart, Unadopted
<1>4. CASE Reconcile
  BY <1>4, AdoptMessages DEF Reconcile, Unadopted
<1>5. ASSUME NEW s \in Instances, NEW v \in Verdicts, Verdict(s, v)
      PROVE  OutboxMoved
  <2>. DEFINE j   == slot[s].job
              row == FailSet(jobs[j], v = "failRetry")
  <2>1. j \in Jobs
    BY <1>5 DEF Verdict, SlotsInv, SlotInv
  <2>2. row \in Row /\ row.dispatch = jobs[j].dispatch
    BY <2>1, FailedRow DEF JobsInv
  <2>3. \/ UNCHANGED outbox
        \/ /\ row.status = "queued"
           /\ jobs' = [jobs EXCEPT ![j] = DispatchSet(row)]
           /\ outbox' = outbox \cup {Message(j, row.dispatch + 1)}
    <3>1. CASE UNCHANGED outbox
      BY <3>1
    <3>2. CASE row.status = "queued" /\ QueueAgain(s, j, row)
      BY <3>2 DEF QueueAgain, Update, Write
    <3>3. \/ UNCHANGED outbox
          \/ row.status = "queued" /\ QueueAgain(s, j, row)
      BY <1>5 DEF Verdict, tables
    <3> QED
      BY <3>1, <3>2, <3>3
  <2> HIDE DEF j, row
  <2> QED
    BY <1>1, <2>1, <2>2, <2>3, OneMessage DEF Pending
<1>6. CASE ClientStep
  BY <1>1, <1>2, <1>6 DEF ClientStep, CreateJob, MarkDownloading, FailUpload,
                          CancelJob, CleanupExpiredJobs
<1>7. ASSUME NEW m \in outbox, Publish(m)
      PROVE  OutboxMoved
  BY <1>1, <1>7 DEF Publish
<1>8. CASE SlotStep
  BY <1>1, <1>5, <1>8
     DEF SlotStep, Claim, TurnOn, TurnOff, Deliver, BeginAttempt, LoseConnection,
         AckDelivery, Abandon, tables
<1>9. ASSUME NEW j \in Jobs, LeaseExpires(j)
      PROVE  OutboxMoved
  BY <1>1, <1>9 DEF LeaseExpires
<1>10. CASE UNCHANGED vars
  BY <1>1, <1>10 DEF vars
<1> QED
  BY <1>3, <1>4, <1>6, <1>7, <1>8, <1>9, <1>10 DEF Next

\* Messages only move from the outbox to the broker, and in and out of slots.
LEMMA MessagesStep ==
  ASSUME TypeInv, [Next]_vars
  PROVE  MessagesInv'
<1>. USE DEF TypeInv
<1>1. outbox' \subseteq Messages
  <2>1. OutboxMoved /\ JobsInv'
    BY OutboxStep, RowsMove
  <2>2. \A m : NewMessage(m) => m \in Messages
    BY <2>1, Generation DEF NewMessage, JobsInv
  <2> QED
    BY <2>1, <2>2 DEF OutboxMoved, MessagesInv
<1>2. queue' \subseteq Messages
  <2>1. \A s \in Instances : Returned(s) \subseteq Messages
    BY OneSlot DEF Returned, Held, MessagesInv
  <2>2. CASE queue' \subseteq Messages
    BY <2>2
  <2>3. CASE UNCHANGED queue
    BY <2>3 DEF MessagesInv
  <2>4. CASE ClientStep
    BY <2>3, <2>4 DEF ClientStep, CreateJob, MarkDownloading, MarkQueued,
                      FailUpload, CancelJob, CleanupExpiredJobs, others
  <2>5. CASE Reconcile \/ \E b \in Backends : Restart(b)
    BY <2>3, <2>5 DEF Reconcile, Restart
  <2>6. ASSUME NEW m \in outbox, Publish(m)
        PROVE  queue' \subseteq Messages
    BY <2>6 DEF Publish, MessagesInv
  <2>7. ASSUME NEW s \in SqlSlots, NEW own \in BOOLEAN, Claim(s, own)
        PROVE  queue' \subseteq Messages
    <3>1. UNCHANGED queue \/ queue' = Returned(s)
      BY <2>7 DEF Claim, Started, Goto, Release
    <3> QED
      BY <2>1, <2>3, <3>1, Constants
  <2>8. ASSUME NEW s \in BrokerSlots,
               \/ TurnOn(s) \/ TurnOff(s) \/ \E m \in queue : Deliver(s, m)
               \/ LoseConnection(s) \/ AckDelivery(s)
        PROVE  queue' \subseteq Messages
    <3>1. queue' \subseteq queue \/ queue' = Returned(s)
      BY <2>8 DEF TurnOn, TurnOff, Deliver, LoseConnection, AckDelivery, Goto
    <3> QED
      BY <2>1, <3>1, Constants DEF MessagesInv
  <2>9. ASSUME NEW s \in BrokerSlots, BeginAttempt(s)
        PROVE  queue' \subseteq Messages
    <3>1. slot[s].msg \in Messages
      BY <2>9, Constants DEF BeginAttempt, SlotsInv, SlotInv
    <3>2. \/ UNCHANGED queue \/ queue' = Returned(s)
          \/ queue' = queue \cup {slot[s].msg}
      <4>1. backend \in {"postgres", "rabbitmq"}
        BY DEF SwitchInv, Backends
      <4> QED
        BY <2>9, <4>1 DEF BeginAttempt, Started, Goto, Release
    <3> QED
      BY <2>1, <3>1, <3>2, Constants DEF MessagesInv
  <2>10. ASSUME NEW s \in Instances,
                Abandon(s) \/ \E v \in Verdicts : Verdict(s, v)
         PROVE  queue' \subseteq Messages
    <3>1. UNCHANGED queue \/ queue' = Returned(s)
      BY <2>10 DEF Abandon, Verdict, Goto, Release
    <3> QED
      BY <2>1, <2>3, <3>1
  <2>11. ASSUME NEW j \in Jobs, LeaseExpires(j)
         PROVE  queue' \subseteq Messages
    BY <2>3, <2>11 DEF LeaseExpires
  <2>12. CASE UNCHANGED vars
    BY <2>3, <2>12 DEF vars
  <2> QED
    BY <2>4, <2>5, <2>6, <2>7, <2>8, <2>9, <2>10, <2>11, <2>12
       DEF Next, SlotStep
<1> QED
  BY <1>1, <1>2 DEF MessagesInv

\* The counters of the environment keep their bounds, and only known jobs are
\* ever stranded.
LEMMA SwitchStep ==
  ASSUME TypeInv, [Next]_vars
  PROVE  SwitchInv'
<1>. USE DEF TypeInv
<1>1. faults' \in 0 .. MaxFaults
  <2>1. Fault => faults' \in 0 .. MaxFaults
    BY Constants DEF Fault, SwitchInv
  <2>2. UNCHANGED faults => faults' \in 0 .. MaxFaults
    BY DEF SwitchInv
  <2>3. backend \in {"postgres", "rabbitmq"}
    BY DEF SwitchInv, Backends
  <2>4. ClientStep => UNCHANGED faults
    BY DEF ClientStep, CreateJob, MarkDownloading, MarkQueued, FailUpload,
           CancelJob, CleanupExpiredJobs, others
  <2>5. SlotStep => UNCHANGED faults \/ Fault
    BY <2>3 DEF SlotStep, Claim, TurnOn, TurnOff, Deliver, BeginAttempt,
                LoseConnection, AckDelivery, Abandon, Verdict, Started
  <2>6. \/ Reconcile \/ \E b \in Backends : Restart(b)
        \/ \E m \in outbox : Publish(m)
        \/ \E j \in Jobs : LeaseExpires(j)
        => UNCHANGED faults \/ Fault
    BY DEF Reconcile, Restart, Publish, LeaseExpires
  <2>7. UNCHANGED vars => UNCHANGED faults
    BY DEF vars
  <2> QED
    BY <2>1, <2>2, <2>4, <2>5, <2>6, <2>7 DEF Next
<1>2. /\ backend' \in Backends /\ migrated' \in BOOLEAN
      /\ restarts' \in 0 .. MaxRestarts
  <2>1. UNCHANGED <<backend, migrated, restarts>>
          => /\ backend' \in Backends /\ migrated' \in BOOLEAN
             /\ restarts' \in 0 .. MaxRestarts
    BY DEF SwitchInv
  <2>2. ClientStep => UNCHANGED <<backend, migrated, restarts>>
    BY DEF ClientStep, CreateJob, MarkDownloading, MarkQueued, FailUpload,
           CancelJob, CleanupExpiredJobs, others, switches
  <2>3. SlotStep => UNCHANGED <<backend, migrated, restarts>>
    BY DEF SlotStep, Claim, TurnOn, TurnOff, Deliver, BeginAttempt,
           LoseConnection, AckDelivery, Abandon, Verdict, switches
  <2>4. ASSUME NEW b \in Backends, Restart(b)
        PROVE  /\ backend' \in Backends /\ migrated' \in BOOLEAN
               /\ restarts' \in 0 .. MaxRestarts
    BY <2>4, Constants DEF Restart, SwitchInv
  <2>5. \/ Reconcile \/ \E m \in outbox : Publish(m)
        \/ \E j \in Jobs : LeaseExpires(j)
        => UNCHANGED <<backend, migrated, restarts>>
    BY DEF Reconcile, Publish, LeaseExpires, switches
  <2>6. UNCHANGED vars => UNCHANGED <<backend, migrated, restarts>>
    BY DEF vars
  <2> QED
    BY <2>1, <2>2, <2>3, <2>4, <2>5, <2>6 DEF Next
<1>3. stranded' \subseteq Jobs
  <2>1. stranded' \subseteq stranded => stranded' \subseteq Jobs
    BY DEF SwitchInv
  <2>2. ClientStep => UNCHANGED stranded
    BY DEF ClientStep, CreateJob, MarkDownloading, MarkQueued, FailUpload,
           CancelJob, CleanupExpiredJobs, others
  <2>3. ASSUME NEW s \in Instances, NEW v \in Verdicts, Verdict(s, v)
        PROVE  stranded' \subseteq Jobs
    <3>1. slot[s].job \in Jobs
      BY <2>3 DEF Verdict, SlotsInv, SlotInv
    <3>2. stranded' \subseteq stranded \cup {slot[s].job}
      BY <2>3 DEF Verdict, QueueAgain, tables
    <3> QED
      BY <3>1, <3>2 DEF SwitchInv
  <2>4. SlotStep /\ ~(\E s \in Instances, v \in Verdicts : Verdict(s, v))
          => UNCHANGED stranded
    BY DEF SlotStep, Claim, TurnOn, TurnOff, Deliver, BeginAttempt,
           LoseConnection, AckDelivery, Abandon, tables
  <2>5. \/ Reconcile \/ \E b \in Backends : Restart(b)
        \/ \E m \in outbox : Publish(m)
        \/ \E j \in Jobs : LeaseExpires(j)
        => stranded' \subseteq stranded
    BY DEF Reconcile, Restart, Adopt, Publish, LeaseExpires
  <2>6. UNCHANGED vars => UNCHANGED stranded
    BY DEF vars
  <2> QED
    BY <2>1, <2>2, <2>3, <2>4, <2>5, <2>6 DEF Next
<1> QED
  BY <1>1, <1>2, <1>3 DEF SwitchInv

\* The type invariant holds initially.
LEMMA TypeInvInit == Init => TypeInv
<1>. SUFFICES ASSUME Init PROVE TypeInv
  OBVIOUS
<1>1. RowInv(AbsentRow, reconciles, 0) /\ reconciles \in 0 .. MaxReconciles
  BY Constants, FixedRows DEF Init
<1>2. JobsInv
  BY <1>1 DEF Init, JobsInv, RowInv
<1>3. TrackInv
  <2>1. "none" \in Errors /\ 0 \in Nat
    BY DEF Errors
  <2> QED
    BY <2>1 DEF Init, TrackInv, NoObservations
<1>4. SlotsInv
  BY EmptySlots DEF Init, SlotsInv, SlotInv
<1>5. SwitchInv
  <2>1. backend \in Backends /\ stranded \subseteq Jobs
    BY DEF Init, Backends
  <2>2. migrated \in BOOLEAN
    BY DEF Init
  <2>3. faults \in 0 .. MaxFaults /\ restarts \in 0 .. MaxRestarts
    BY Constants DEF Init
  <2> QED
    BY <2>1, <2>2, <2>3 DEF SwitchInv
<1> QED
  BY <1>2, <1>3, <1>4, <1>5 DEF Init, TypeInv, MessagesInv

\* Every step keeps the type invariant.
LEMMA TypeInvStep == TypeInv /\ [Next]_vars => TypeInv'
<1>. SUFFICES ASSUME TypeInv, [Next]_vars PROVE SlotsInv'
  BY RowsMove, TrackStep, MessagesStep, SwitchStep DEF TypeInv
<1>1. SlotStep => SlotsInv'
  BY SlotTypes
<1>2. ClientStep => UNCHANGED slot
  BY DEF ClientStep, CreateJob, MarkDownloading, MarkQueued, FailUpload,
         CancelJob, CleanupExpiredJobs, others
<1>3. \/ Reconcile \/ \E b \in Backends : Restart(b)
      \/ \E m \in outbox : Publish(m)
      \/ \E j \in Jobs : LeaseExpires(j)
      => UNCHANGED slot
  BY DEF Reconcile, Restart, Publish, LeaseExpires
<1>4. UNCHANGED vars => UNCHANGED slot
  BY DEF vars
<1>5. UNCHANGED slot => SlotsInv'
  BY DEF TypeInv, SlotsInv
<1> QED
  BY <1>1, <1>2, <1>3, <1>4, <1>5 DEF Next

\* TypeOK of Cutover is an invariant: through switches, adoptions and
\* reconciliations the generations of a job stay within MaxGeneration.
THEOREM TypeCorrect == Spec => []TypeOK
<1>1. TypeInv => TypeOK
  BY DEF TypeInv, JobsInv, TrackInv, SlotsInv, MessagesInv, SwitchInv, TypeOK
<1> QED
  BY <1>1, TypeInvInit, TypeInvStep, PTL DEF Spec

-----------------------------------------------------------------------------
(* Leases.                                                                 *)

\* An attempt begins only where no other is live.
LEMMA MovesBegin ==
  ASSUME TypeInv, RowsMoved
  PROVE  \A j \in Jobs : jobs'[j].attempts > jobs[j].attempts => ~Live(jobs[j])
<1>. SUFFICES ASSUME NEW j \in Jobs
              PROVE  jobs'[j].attempts > jobs[j].attempts => ~Live(jobs[j])
  OBVIOUS
<1>1. /\ RowInv(jobs[j], reconciles, 0) /\ reconciles \in Nat /\ 0 \in {0, 1}
      /\ jobs[j].attempts \in Nat
  BY Reconciled, Constants, WrittenValues DEF TypeInv, RowInv, Row
<1>2. CASE QuietRow(j)
  <2>1. PICK retained : QuietMove(jobs[j], jobs'[j], retained)
    BY <1>2 DEF QuietRow
  <2>2. \/ jobs'[j].attempts = 0
        \/ jobs'[j].attempts = jobs[j].attempts
    BY <1>1, <2>1, QuietMoves
  <2> QED
    BY <1>1, <2>2
<1>3. CASE \E s \in Instances : RowStarts(j, s)
  BY <1>1, <1>3, StartMoves DEF RowStarts
<1>4. CASE RowSettles(j)
  <2>1. jobs'[j].attempts = jobs[j].attempts
    BY <1>1, <1>4, VerdictMoves DEF RowSettles
  <2> QED
    BY <1>1, <2>1
<1>5. CASE jobs'[j] = jobs[j]
  BY <1>1, <1>5
<1> QED
  BY <1>2, <1>3, <1>4, <1>5 DEF RowsMoved, RowsQuiet, RowStarts, RowSettles

\* Neither backend starts an attempt over the live one of the other, whatever
\* claims, deliveries and restarts come between.
THEOREM LiveAttemptsAlone == Spec => NoAttemptOverLive
<1>1. TypeInv /\ RowsMoved =>
        \A j \in Jobs : jobs'[j].attempts > jobs[j].attempts => ~Live(jobs[j])
  BY MovesBegin
<1>2. TypeInv /\ [Next]_vars =>
        [\A j \in Jobs :
           jobs'[j].attempts > jobs[j].attempts => ~Live(jobs[j])]_vars
  BY <1>1, RowsMove
<1> QED
  BY <1>2, TypeInvInit, TypeInvStep, PTL DEF Spec, NoAttemptOverLive

-----------------------------------------------------------------------------
(* The promise of JobLifecycle.                                            *)

\* Rows that keep their promises one by one make a step of JobLifecycle.
LEMMA PromiseStep ==
  ASSUME JobsInv', \A j \in Jobs : Keeps(jobs[j], jobs'[j], FALSE)
  PROVE  Lifecycle!Next
<1>. DEFINE old(j) == PromiseOf(jobs[j])
            new(j) == PromiseOf(jobs'[j])
<1>1. [j \in Jobs |-> new(j)] \in [Jobs -> Lifecycle!Promise]
  BY PromiseType DEF JobsInv, Lifecycle!Promise, Promises
<1>2. ASSUME NEW j \in Jobs
      PROVE  Lifecycle!Step(j)
               \/ Lifecycle!Becomes(j, [i \in Jobs |-> old(i)][j])
  <2>. DEFINE p == old(j)
              q == new(j)
  <2>1. PromiseMove(p, q, FALSE)
    BY DEF Keeps
  <2>2. [i \in Jobs |-> old(i)][j] = p /\ [i \in Jobs |-> new(i)][j] = q
    OBVIOUS
  <2> HIDE DEF p, q
  <2>3. CASE q = p
    BY <2>2, <2>3 DEF Lifecycle!Becomes
  <2>4. CASE p.phase = "absent" /\ q = NewPromise("open")
    BY <2>2, <2>4
       DEF Lifecycle!Step, Lifecycle!Submit, Lifecycle!Becomes,
           Lifecycle!NewJob, NewPromise
  <2>5. CASE p.phase = "open" /\ q = [p EXCEPT !.phase = "pending"]
    BY <2>2, <2>5 DEF Lifecycle!Step, Lifecycle!Queue, Lifecycle!Becomes
  <2>6. CASE /\ p.phase = "pending" /\ p.attempts < MaxAttempts
             /\ q = [p EXCEPT !.attempts = @ + 1]
    BY <2>2, <2>6 DEF Lifecycle!Step, Lifecycle!Attempt, Lifecycle!Becomes
  <2>7. CASE /\ p.phase = "pending" /\ p.attempts > 0
             /\ q = [p EXCEPT !.phase = "done", !.result = p.attempts]
    BY <2>2, <2>7 DEF Lifecycle!Step, Lifecycle!Finish, Lifecycle!Becomes
  <2>8. CASE p.phase \in {"open", "pending"} /\ q = [p EXCEPT !.phase = "failed"]
    BY <2>2, <2>8 DEF Lifecycle!Step, Lifecycle!Fail, Lifecycle!Becomes
  <2>9. CASE p.phase \in {"done", "failed"} /\ q = [p EXCEPT !.acked = TRUE]
    BY <2>2, <2>9 DEF Lifecycle!Step, Lifecycle!Acknowledge, Lifecycle!Becomes
  <2>10. CASE p.phase \in {"done", "failed"} /\ q = NewPromise("deleted")
    BY <2>2, <2>10
       DEF Lifecycle!Step, Lifecycle!Purge, Lifecycle!Becomes,
           Lifecycle!NewJob, NewPromise
  <2> QED
    BY <2>1, <2>3, <2>4, <2>5, <2>6, <2>7, <2>8, <2>9, <2>10 DEF PromiseMove
<1> QED
  BY <1>1, <1>2 DEF Lifecycle!Next

\* Nothing has been promised about a job that does not exist.
LEMMA PromiseInit == Init => Lifecycle!Init
<1>1. PromiseOf(AbsentRow) = NewPromise("absent")
  BY DEF PromiseOf, AbsentRow, NewPromise, Uploading, Pending
<1>2. Init => \A j \in Jobs : jobs[j] = AbsentRow
  BY DEF Init
<1> QED
  BY <1>1, <1>2 DEF Lifecycle!Init, Lifecycle!NewJob, NewPromise

\* Every step keeps the promise of every job.
LEMMA MovesKeep ==
  ASSUME TypeInv, RowsMoved
  PROVE  \A j \in Jobs : Keeps(jobs[j], jobs'[j], FALSE)
<1>. SUFFICES ASSUME NEW j \in Jobs
              PROVE  Keeps(jobs[j], jobs'[j], FALSE)
  OBVIOUS
<1>1. RowInv(jobs[j], reconciles, 0) /\ reconciles \in Nat /\ 0 \in {0, 1}
  BY Reconciled, Constants DEF TypeInv
<1>2. CASE QuietRow(j)
  BY <1>1, <1>2, QuietMoves DEF QuietRow
<1>3. CASE \E s \in Instances : RowStarts(j, s)
  BY <1>1, <1>3, StartMoves DEF RowStarts
<1>4. CASE RowSettles(j)
  BY <1>1, <1>4, VerdictMoves DEF RowSettles
<1>5. CASE jobs'[j] = jobs[j]
  BY <1>2, <1>5 DEF QuietRow, QuietMove
<1> QED
  BY <1>2, <1>3, <1>4, <1>5 DEF RowsMoved, RowsQuiet, RowStarts, RowSettles

\* The promise of JobLifecycle outlives every change of the backend, each
\* adoption and each reconciliation.
THEOREM PromiseKept == Spec => KeepsPromise
<1>1. TypeInv /\ [Next]_vars => Lifecycle!Next
  BY RowsMove, MovesKeep, PromiseStep
<1> QED
  BY <1>1, TypeInvInit, TypeInvStep, PromiseInit, PTL
     DEF Spec, KeepsPromise, Lifecycle!Spec

-----------------------------------------------------------------------------
(* No lost job.  NoLostJob speaks of the time under RabbitMQ only.  What a  *)
(* switch finds is decided before it, so the invariant follows each         *)
(* generation through both eras: a job that has one keeps its message, or   *)
(* was stranded, also while the coordinator uses SQL.                       *)

Safe(j) ==
  Pending(jobs[j]) =>
    IF jobs[j].dispatch = 0
      THEN backend = "postgres"
      ELSE Carried(Message(j, jobs[j].dispatch)) \/ j \in stranded

CarryInv == \A j \in Jobs : Safe(j)

\* The job has no new generation, and did not begin to wait.
RowKept(j) ==
  Pending(jobs'[j]) => /\ Pending(jobs[j])
                       /\ jobs'[j].dispatch = jobs[j].dispatch

\* A message that was carried still is.
Kept(m) == Carried(m) => Carried(m)'

\* A job whose row and messages are kept stays safe.
LEMMA KeptSafe ==
  ASSUME TypeInv, NEW j \in Jobs, Safe(j), RowKept(j),
         backend' \in {backend, "postgres"},
         j \in stranded => j \in stranded',
         \A m \in Messages : m.job = j => Kept(m)
  PROVE  Safe(j)'
<1>. SUFFICES ASSUME Pending(jobs'[j]) PROVE Safe(j)'
  BY DEF Safe
<1>1. Pending(jobs[j]) /\ jobs'[j].dispatch = jobs[j].dispatch
  BY DEF RowKept
<1>2. CASE jobs[j].dispatch = 0
  BY <1>1, <1>2 DEF Safe
<1>3. CASE jobs[j].dispatch # 0
  <2>1. PICK m \in Messages : m = Message(j, jobs[j].dispatch) /\ m.job = j
    <3>1. Message(j, jobs[j].dispatch) \in Messages
      BY <1>1, <1>3, Generation DEF TypeInv, JobsInv
    <3>2. Message(j, jobs[j].dispatch).job = j
      BY DEF Message
    <3> QED
      BY <3>1, <3>2
  <2>2. Carried(m) \/ j \in stranded
    BY <1>1, <1>3, <2>1 DEF Safe
  <2>3. Message(j, jobs'[j].dispatch) = m
    BY <1>1, <2>1
  <2>4. Carried(m)' \/ j \in stranded'
    BY <2>1, <2>2 DEF Kept
  <2> QED
    BY <1>1, <1>3, <2>3, <2>4 DEF Safe
<1> QED
  BY <1>2, <1>3

\* So does one with a new generation.
LEMMA FreshSafe ==
  ASSUME NEW j \in Jobs, jobs'[j].dispatch # 0,
         Message(j, jobs'[j].dispatch) \in outbox'
  PROVE  Safe(j)'
BY DEF Safe, Carried

\* Where the slots stay, so do the messages outside the table of the outbox.
LEMMA TablesKeep ==
  ASSUME NEW m, UNCHANGED <<queue, slot>>, m \in outbox => m \in outbox'
  PROVE  Kept(m)
BY DEF Kept, Carried

\* One slot moves.
LEMMA SlotKeeps ==
  ASSUME SlotsInv, NEW m \in Messages, NEW s \in Instances, NEW st,
         slot' = [slot EXCEPT ![s] = st],
         m \in outbox => m \in outbox' \cup queue',
         m \in queue => \/ m \in queue'
                        \/ s \in BrokerSlots /\ st.msg = m /\ st.pc # "ack",
         slot[s].msg = m /\ slot[s].pc # "ack"
           => m \in queue' \/ (st.msg = m /\ st.pc # "ack")
  PROVE  Kept(m)
<1>1. /\ slot'[s] = st /\ \A t \in Instances \ {s} : slot'[t] = slot[t]
      /\ BrokerSlots \subseteq Instances
  BY Constants DEF SlotsInv
<1>2. ASSUME m \in outbox \cup queue
      PROVE  Carried(m)'
  BY <1>1, <1>2 DEF Carried
<1>3. ASSUME NEW t \in BrokerSlots, slot[t].msg = m, slot[t].pc # "ack"
      PROVE  Carried(m)'
  <2>1. CASE t = s
    BY <1>1, <1>3, <2>1 DEF Carried
  <2>2. CASE t # s
    BY <1>1, <1>3, <2>2 DEF Carried
  <2> QED
    BY <2>1, <2>2
<1> QED
  BY <1>2, <1>3 DEF Kept, Carried

\* A slot that gives up returns its delivery.
LEMMA ReleaseKeeps ==
  ASSUME SlotsInv, NEW s \in Instances, Release(s), outbox \subseteq outbox'
  PROVE  \A m \in Messages : Kept(m)
<1>. SUFFICES ASSUME NEW m \in Messages PROVE Kept(m)
  OBVIOUS
<1>1. /\ slot' = [slot EXCEPT ![s] = Resting(s)]
      /\ queue \subseteq queue'
      /\ slot[s].msg = m => m \in queue'
  BY Constants DEF Release, Returned, Held
<1> QED
  BY <1>1, SlotKeeps

\* One row moves.
LEMMA OneKept ==
  ASSUME JobsInv, NEW j \in Jobs, NEW row, jobs' = [jobs EXCEPT ![j] = row],
         Pending(row) => Pending(jobs[j]) /\ row.dispatch = jobs[j].dispatch
  PROVE  \A i \in Jobs : RowKept(i)
BY DEF RowKept, JobsInv

\* The rows that statements leave.
LEMMA WrittenRows ==
  ASSUME NEW row \in Row
  PROVE  /\ ~Pending(CreateSet) /\ ~Pending(MarkDownloadingSet(row))
         /\ ~Pending(EndFailedSet(row)) /\ ~Pending(CompleteSet(row))
         /\ ~Pending(FailSet(row, FALSE)) /\ ~Pending(DeletedRow)
         /\ \A s : StartedRow(s, row).dispatch = row.dispatch
         /\ \A b : FailSet(row, b).dispatch = row.dispatch
         /\ MarkQueuedSet(row).dispatch = row.dispatch
         /\ \A phase : LET new == [row EXCEPT !.lease = phase]
                       IN  /\ new.dispatch = row.dispatch
                           /\ Pending(new) <=> Pending(row)
BY DEF Row, Pending, CreateSet, DeletedRow, AbsentRow, MarkDownloadingSet,
       EndFailedSet, CompleteSet, FailSet, StartedRow, StartSet, MarkQueuedSet

\* The rows that reap.sql leaves.
LEMMA ReapedKept ==
  ASSUME JobsInv, NEW j \in Jobs
  PROVE  Pending(ReapedRows[j]) => ReapedRows[j] = jobs[j]
BY WrittenRows DEF ReapedRows, JobsInv

\* Most steps leave every job where it was.
LEMMA AllKept ==
  ASSUME TypeInv, CarryInv, \A j \in Jobs : RowKept(j),
         \A m \in Messages : Kept(m),
         UNCHANGED backend, stranded \subseteq stranded'
  PROVE  CarryInv'
BY KeptSafe DEF CarryInv

\* Where no row changes, every row is kept.
LEMMA RowsKept ==
  ASSUME UNCHANGED jobs
  PROVE  \A j \in Jobs : RowKept(j)
BY DEF RowKept

\* The public API and the cleanup worker.
LEMMA ClientCarries ==
  ASSUME TypeInv, CarryInv, ClientStep
  PROVE  CarryInv'
<1>. USE DEF TypeInv, Update, Write
<1>0. \A j \in Jobs : jobs[j] \in Row /\ RowInv(jobs[j], reconciles, 0)
  BY DEF JobsInv
<1>1. /\ UNCHANGED <<queue, slot, backend, stranded>>
      /\ \A m : (m \in outbox => m \in outbox') => Kept(m)
  <2>1. UNCHANGED <<queue, slot, backend, stranded>>
    BY DEF ClientStep, CreateJob, MarkDownloading, MarkQueued, FailUpload,
           CancelJob, CleanupExpiredJobs, others, switches
  <2> QED
    BY <2>1, TablesKeep
<1>2. ASSUME outbox \subseteq outbox', \A j \in Jobs : RowKept(j)
      PROVE  CarryInv'
  <2>1. \A m \in Messages : Kept(m)
    BY <1>1, <1>2, TablesKeep
  <2> QED
    BY <1>1, <1>2, <2>1, AllKept
<1>3. ASSUME NEW j \in Jobs,
             CreateJob(j) \/ MarkDownloading(j) \/ FailUpload(j) \/ CancelJob(j)
      PROVE  CarryInv'
  <2>1. \A row : jobs' = [jobs EXCEPT ![j] = row] /\ ~Pending(row)
                  => \A i \in Jobs : RowKept(i)
    BY OneKept
  <2>2. \A i \in Jobs : RowKept(i)
    <3>0. /\ ~Pending(CreateSet) /\ ~Pending(MarkDownloadingSet(jobs[j]))
          /\ ~Pending(EndFailedSet(jobs[j])) /\ ~Pending(FailSet(jobs[j], FALSE))
      BY <1>0, WrittenRows
    <3>1. CASE CreateJob(j)
      BY <2>1, <3>0, <3>1 DEF CreateJob
    <3>2. CASE MarkDownloading(j)
      BY <2>1, <3>0, <3>2 DEF MarkDownloading
    <3>3. CASE FailUpload(j)
      BY <2>1, <3>0, <3>3 DEF FailUpload
    <3>4. CASE CancelJob(j)
      BY <2>1, <3>0, <3>4 DEF CancelJob
    <3> QED
      BY <1>3, <3>1, <3>2, <3>3, <3>4
  <2>3. UNCHANGED outbox
    BY <1>3 DEF CreateJob, MarkDownloading, FailUpload, CancelJob
  <2> QED
    BY <1>2, <2>2, <2>3
<1>4. ASSUME NEW j \in Jobs, MarkQueued(j)
      PROVE  CarryInv'
  <2>1. jobs[j].dispatch = 0
    BY <1>0, <1>4 DEF MarkQueued, RowInv, RowShape, Uploading
  <2>2. \A i \in Jobs \ {j} : RowKept(i)
    BY <1>4 DEF MarkQueued, RowKept, JobsInv
  <2>3. outbox \subseteq outbox'
    BY <1>4 DEF MarkQueued
  <2>4. \A i \in Jobs \ {j} : Safe(i)'
    <3>1. \A m \in Messages : Kept(m)
      BY <1>1, <2>3, TablesKeep
    <3> QED
      BY <1>1, <2>2, <3>1, KeptSafe DEF CarryInv
  <2>5. Safe(j)'
    <3>1. CASE backend = "rabbitmq"
      <4>1. /\ jobs'[j] = DispatchSet(MarkQueuedSet(jobs[j]))
            /\ MarkQueuedSet(jobs[j]) \in Row
            /\ MarkQueuedSet(jobs[j]).dispatch = jobs[j].dispatch
            /\ Message(j, jobs[j].dispatch + 1) \in outbox'
        BY <1>0, <1>4, <3>1, WrittenValues
           DEF MarkQueued, JobsInv, MarkQueuedSet, Row
      <4> QED
        BY <4>1, Renumbered, FreshSafe
    <3>2. CASE backend = "postgres"
      <4>1. jobs'[j] = MarkQueuedSet(jobs[j])
        BY <1>4, <3>2 DEF MarkQueued, JobsInv
      <4>2. jobs'[j].dispatch = 0
        BY <1>0, <2>1, <4>1, WrittenRows
      <4> QED
        BY <1>1, <3>2, <4>2 DEF Safe
    <3> QED
      BY <3>1, <3>2 DEF SwitchInv, Backends
  <2> QED
    BY <2>4, <2>5 DEF CarryInv
<1>5. ASSUME NEW gone \in SUBSET Jobs, CleanupExpiredJobs(gone)
      PROVE  CarryInv'
  <2>. SUFFICES ASSUME NEW j \in Jobs PROVE Safe(j)'
    BY DEF CarryInv
  <2>1. /\ jobs'[j] = IF j \in gone THEN DeletedRow ELSE ReapedRows[j]
        /\ outbox' = {m \in outbox : m.job \notin gone}
    BY <1>5 DEF CleanupExpiredJobs
  <2>2. CASE j \in gone
    BY <1>0, <2>1, <2>2, WrittenRows DEF Safe
  <2>3. CASE j \notin gone
    <3>1. RowKept(j)
      BY <2>1, <2>3, ReapedKept DEF RowKept
    <3>2. \A m \in Messages : m.job = j => Kept(m)
      BY <1>1, <2>1, <2>3, TablesKeep
    <3> QED
      BY <1>1, <3>1, <3>2, KeptSafe DEF CarryInv
  <2> QED
    BY <2>2, <2>3
<1> QED
  BY <1>3, <1>4, <1>5 DEF ClientStep

\* Adoption gives a message to each job without, and every job it leaves has
\* one or waits in SQL.
LEMMA AdoptCarries ==
  ASSUME TypeInv, CarryInv, Reconcile \/ \E b \in Backends : Restart(b)
  PROVE  CarryInv'
<1>. USE DEF TypeInv
<1>1. ASSUME NEW js, js \subseteq Jobs, Adopt(js), UNCHANGED <<queue, slot>>,
             \A j \in js : Pending(jobs[j])
      PROVE  /\ \A j \in js : Safe(j)'
             /\ \A j \in Jobs \ js : backend' \in {backend, "postgres"} => Safe(j)'
             /\ \A j \in Jobs \ js : /\ jobs'[j] = jobs[j]
                                     /\ j \in stranded => j \in stranded'
             /\ \A m \in Messages : Kept(m)
  <2>1. \A j \in js : Safe(j)'
    BY <1>1, AdoptMessages, FreshSafe
  <2>2. \A m \in Messages : Kept(m)
    BY <1>1, TablesKeep DEF Adopt
  <2>3. \A j \in Jobs \ js : /\ RowKept(j) /\ jobs'[j] = jobs[j]
                             /\ j \in stranded => j \in stranded'
    BY <1>1 DEF Adopt, RowKept
  <2>4. ASSUME NEW j \in Jobs \ js, backend' \in {backend, "postgres"}
        PROVE  Safe(j)'
    BY <2>2, <2>3, <2>4, KeptSafe DEF CarryInv
  <2> QED
    BY <2>1, <2>2, <2>3, <2>4
<1>2. ASSUME NEW b \in Backends, Restart(b)
      PROVE  CarryInv'
  <2>. DEFINE js == {j \in Jobs : Unadopted(jobs[j])
                                   /\ (~migrated \/ b = "rabbitmq")}
  <2>1. Adopt(js) /\ UNCHANGED <<queue, slot>> /\ backend' = b
    BY <1>2 DEF Restart
  <2>2. js \subseteq Jobs /\ \A j \in js : Pending(jobs[j])
    BY DEF Unadopted
  <2>3. CASE b = "postgres"
    <3> HIDE DEF js
    <3> QED
      BY <1>1, <2>1, <2>2, <2>3 DEF CarryInv
  <2>4. CASE b = "rabbitmq"
    <3>1. \A j \in Jobs \ js : Pending(jobs[j]) => jobs[j].dispatch # 0
      BY <2>4 DEF Unadopted
    <3> HIDE DEF js
    <3>2. ASSUME NEW j \in Jobs \ js
          PROVE  Safe(j)'
      <4>1. /\ jobs'[j] = jobs[j]
            /\ j \in stranded => j \in stranded'
            /\ \A m \in Messages : Kept(m)
        BY <1>1, <2>1, <2>2
      <4>. SUFFICES ASSUME Pending(jobs[j])
                    PROVE  \/ Carried(Message(j, jobs[j].dispatch))'
                           \/ j \in stranded'
        BY <3>1, <4>1 DEF Safe
      <4>2. PICK m \in Messages : m = Message(j, jobs[j].dispatch)
        BY <3>1, Generation DEF JobsInv
      <4>3. Carried(m) \/ j \in stranded
        BY <3>1, <4>2 DEF CarryInv, Safe
      <4>4. Carried(m)' \/ j \in stranded'
        BY <4>1, <4>3 DEF Kept
      <4>5. Message(j, jobs'[j].dispatch) = m
        BY <4>1, <4>2
      <4> QED
        BY <4>4, <4>5
    <3> QED
      BY <1>1, <2>1, <2>2, <3>2 DEF CarryInv
  <2> QED
    BY <2>3, <2>4 DEF Backends
<1>3. CASE Reconcile
  <2>. DEFINE js == {j \in Jobs : \/ Unadopted(jobs[j])
                                  \/ Pending(jobs[j]) /\ ~Live(jobs[j])}
  <2>1. Adopt(js) /\ UNCHANGED <<queue, slot, backend>>
    BY <1>3 DEF Reconcile
  <2>2. js \subseteq Jobs /\ \A j \in js : Pending(jobs[j])
    BY DEF Unadopted
  <2> HIDE DEF js
  <2> QED
    BY <1>1, <2>1, <2>2 DEF CarryInv
<1> QED
  BY <1>2, <1>3

\* claim_next_job moves no message and renumbers no job.
LEMMA ClaimCarries ==
  ASSUME TypeInv, CarryInv, NEW s \in SqlSlots, NEW own \in BOOLEAN, Claim(s, own)
  PROVE  CarryInv'
<1>. USE DEF TypeInv
<1>. DEFINE open == {j \in Jobs : Claimable(jobs[j])}
            first == Min(open)
<1>1. \A j \in Jobs : RowKept(j)
  <2>1. CASE open = {}
    <3>1. \A j \in Jobs : jobs'[j] = ReapedRows[j]
      BY <2>1 DEF Claim, Write
    <3> QED
      BY <3>1, ReapedKept DEF RowKept
  <2>2. CASE open # {}
    <3>1. first \in open
      BY <2>2, MinMember, Constants
    <3>2. jobs' = [ReapedRows EXCEPT ![first] = StartedRow(s, @)]
      BY <2>2 DEF Claim, Write
    <3>3. /\ first \in Jobs /\ Pending(jobs[first]) /\ jobs[first] \in Row
          /\ jobs[first].attempts < MaxAttempts
      BY <3>1 DEF Claimable, JobsInv
    <3> HIDE DEF first
    <3>4. ReapedRows[first] = jobs[first]
      BY <3>3, Reaped
    <3>5. /\ jobs'[first] = StartedRow(s, jobs[first])
          /\ \A j \in Jobs \ {first} : jobs'[j] = ReapedRows[j]
      BY <3>2, <3>3, <3>4 DEF ReapedRows
    <3>6. StartedRow(s, jobs[first]).dispatch = jobs[first].dispatch
      BY <3>3, WrittenRows
    <3> QED
      BY <3>3, <3>5, <3>6, ReapedKept DEF RowKept
  <2> QED
    BY <2>1, <2>2
<1>2. UNCHANGED <<outbox, stranded, backend>> /\ s \in Instances
  BY Constants DEF Claim, switches
<1>3. \A m \in Messages : Kept(m)
  <2>1. CASE UNCHANGED <<queue, slot>>
    BY <1>2, <2>1, TablesKeep
  <2>2. CASE Release(s)
    BY <1>2, <2>2, ReleaseKeeps
  <2>3. ASSUME NEW st, Goto(s, st)
        PROVE  \A m \in Messages : Kept(m)
    <3>1. slot[s].msg = NoMessage
      BY <1>2, OneSlot DEF SlotInv
    <3>2. /\ slot' = [slot EXCEPT ![s] = st] /\ UNCHANGED <<outbox, queue>>
          /\ \A m \in Messages : slot[s].msg # m
      BY <1>2, <2>3, <3>1, Constants DEF Goto
    <3> QED
      BY <1>2, <3>2, SlotKeeps
  <2> QED
    BY <2>1, <2>2, <2>3 DEF Claim, Started
<1> QED
  BY <1>1, <1>2, <1>3, AllKept

\* begin_attempt renumbers no job: it moves a message on with its slot, back to
\* the broker, or drops it when its job is over or has a newer one.
LEMMA BeginCarries ==
  ASSUME TypeInv, CarryInv, NEW s \in BrokerSlots, BeginAttempt(s)
  PROVE  CarryInv'
<1>. USE DEF TypeInv
<1>. DEFINE d   == slot[s].msg
            row == jobs[d.job]
            st  == [slot[s] EXCEPT !.job = d.job, !.token = row.attempts + 1]
            ack == [slot[s] EXCEPT !.pc = "ack"]
<1>1. /\ s \in Instances /\ slot[s] \in Slot
      /\ d \in Messages /\ d.job \in Jobs /\ row \in Row
      /\ UNCHANGED <<outbox, stranded, backend>>
      /\ backend \in {"postgres", "rabbitmq"}
  <2>1. s \in Instances /\ slot[s] \in Slot /\ SlotInv(s, slot[s])
    BY Constants, OneSlot
  <2>2. d \in Messages
    BY <2>1 DEF BeginAttempt, SlotInv
  <2> QED
    BY <2>1, <2>2
       DEF BeginAttempt, switches, SwitchInv, Backends, Messages, JobsInv
<1>2. ASSUME NEW m \in Messages, Goto(s, ack), m # d
      PROVE  Kept(m)
  <2>1. slot' = [slot EXCEPT ![s] = ack] /\ UNCHANGED queue
    BY <1>2 DEF Goto
  <2> QED
    BY <1>1, <1>2, <2>1, SlotKeeps
<1>3. CASE backend = "postgres"
  <2>1. Release(s) /\ UNCHANGED jobs
    BY <1>3 DEF BeginAttempt, rows
  <2> QED
    BY <1>1, <2>1, RowsKept, ReleaseKeeps, AllKept
<1>4. CASE backend = "rabbitmq" /\ Obsolete(d)
  <2>1. Goto(s, ack) /\ UNCHANGED jobs
    BY <1>4 DEF BeginAttempt, rows
  <2>. SUFFICES ASSUME NEW j \in Jobs, Pending(jobs'[j]) PROVE Safe(j)'
    BY DEF CarryInv, Safe
  <2>2. Pending(jobs[j]) /\ jobs'[j] = jobs[j]
    BY <2>1
  <2>3. jobs[j].dispatch # 0
    BY <1>4, <2>2 DEF CarryInv, Safe
  <2>4. PICK m \in Messages : m = Message(j, jobs[j].dispatch) /\ m.job = j
                              /\ m.gen = jobs[j].dispatch
    <3>1. Message(j, jobs[j].dispatch) \in Messages
      BY <2>2, <2>3, Generation DEF JobsInv
    <3>2. /\ Message(j, jobs[j].dispatch).job = j
          /\ Message(j, jobs[j].dispatch).gen = jobs[j].dispatch
      BY DEF Message
    <3> QED
      BY <3>1, <3>2
  <2>5. m # d
    BY <1>4, <2>2, <2>4 DEF Obsolete
  <2>6. Kept(m)
    BY <1>2, <2>1, <2>5
  <2>7. Carried(m)' \/ j \in stranded'
    BY <1>1, <2>2, <2>3, <2>4, <2>6 DEF CarryInv, Safe, Kept
  <2>8. m = Message(j, jobs'[j].dispatch)
    BY <2>2, <2>4
  <2> QED
    BY <2>2, <2>3, <2>7, <2>8 DEF Safe
<1>5. CASE backend = "rabbitmq" /\ ~Obsolete(d) /\ Live(row)
  <2>1. /\ queue' = queue \cup {d} /\ UNCHANGED jobs
        /\ slot' = [slot EXCEPT ![s] = Empty("on")]
    BY <1>5 DEF BeginAttempt, rows
  <2>2. \A m \in Messages : Kept(m)
    BY <1>1, <2>1, SlotKeeps
  <2> QED
    BY <1>1, <2>1, <2>2, RowsKept, AllKept
<1>6. CASE backend = "rabbitmq" /\ ~Obsolete(d) /\ ~Live(row) /\ Exhausted(row)
  <2>1. /\ jobs' = [jobs EXCEPT ![d.job] = EndFailedSet(row)]
        /\ Goto(s, ack)
    BY <1>6 DEF BeginAttempt, Update, Write
  <2>2. ~Pending(EndFailedSet(row))
    BY <1>1, WrittenRows
  <2>3. (\A i \in Jobs : RowKept(i)) /\ jobs'[d.job] = EndFailedSet(row)
    BY <1>1, <2>1, <2>2, OneKept DEF JobsInv
  <2>4. ASSUME NEW j \in Jobs
        PROVE  Safe(j)'
    <3>1. CASE j = d.job
      BY <2>2, <2>3, <3>1 DEF Safe
    <3>2. CASE j # d.job
      <4>1. \A m \in Messages : m.job = j => Kept(m)
        BY <1>2, <2>1, <3>2
      <4> QED
        BY <1>1, <2>3, <4>1, KeptSafe DEF CarryInv
    <3> QED
      BY <3>1, <3>2
  <2> QED
    BY <2>4 DEF CarryInv
<1>7. CASE backend = "rabbitmq" /\ ~Obsolete(d) /\ ~Live(row) /\ ~Exhausted(row)
  <2>1. /\ jobs' = [jobs EXCEPT ![d.job] = StartedRow(s, row)]
        /\ Started(s, st)
    BY <1>7 DEF BeginAttempt, Update, Write
  <2>2. Pending(row) /\ StartedRow(s, row).dispatch = row.dispatch
    BY <1>1, <1>7, WrittenRows DEF Obsolete
  <2>3. \A i \in Jobs : RowKept(i)
    BY <1>1, <2>1, <2>2, OneKept
  <2>4. \A m \in Messages : Kept(m)
    <3>1. CASE Release(s)
      BY <1>1, <3>1, ReleaseKeeps
    <3>2. CASE Goto(s, [st EXCEPT !.pc = "work"])
      <4>. DEFINE new == [st EXCEPT !.pc = "work"]
      <4>1. new.pc = "work" /\ new.msg = d
        BY <1>1 DEF Slot
      <4>2. slot' = [slot EXCEPT ![s] = new] /\ UNCHANGED queue
        BY <3>2 DEF Goto
      <4> HIDE DEF new
      <4> QED
        BY <1>1, <4>1, <4>2, SlotKeeps
    <3> QED
      BY <2>1, <3>1, <3>2 DEF Started
  <2> QED
    BY <1>1, <2>3, <2>4, AllKept
<1> QED
  BY <1>1, <1>3, <1>4, <1>5, <1>6, <1>7

\* complete_job and fail_job drop only the message of a job that is over, has
\* a new one, or is stranded.
LEMMA VerdictCarries ==
  ASSUME TypeInv, CarryInv, NEW s \in Instances, NEW v \in Verdicts, Verdict(s, v)
  PROVE  CarryInv'
<1>. USE DEF TypeInv
<1>0. PICK j \in Jobs : j = slot[s].job
  BY DEF Verdict, SlotsInv, SlotInv
<1>. DEFINE row == FailSet(jobs[j], v = "failRetry")
            ack == [slot[s] EXCEPT !.pc = "ack"]
<1>1. /\ UNCHANGED backend /\ JobsInv
      /\ jobs[j] \in Row /\ slot[s].pc = "work"
      /\ slot[s].msg # NoMessage => slot[s].msg.job = j
      /\ slot[s].msg # NoMessage => s \in BrokerSlots /\ ~slot[s].own
  <2>1. slot[s] \in Slot /\ SlotInv(s, slot[s]) /\ slot[s].pc = "work"
    BY OneSlot DEF Verdict
  <2> QED
    BY <1>0, <2>1, Constants DEF SlotInv, JobsInv, Verdict, switches
<1>2. CASE ~Accepted(s, v)
  <2>1. Release(s) /\ UNCHANGED <<jobs, outbox, stranded>>
    BY <1>2 DEF Verdict, tables, rows
  <2> QED
    BY <1>1, <2>1, RowsKept, ReleaseKeeps, AllKept
<1>3. CASE Accepted(s, v)
  <2>1. outbox \subseteq outbox'
    BY <1>3 DEF Verdict, QueueAgain
  <2>2. \A m \in Messages : m.job # j => Kept(m)
    <3>1. CASE Release(s)
      BY <2>1, <3>1, ReleaseKeeps
    <3>2. CASE Goto(s, ack)
      <4>1. slot' = [slot EXCEPT ![s] = ack] /\ UNCHANGED queue
        BY <3>2 DEF Goto
      <4>2. \A m \in Messages : m.job # j => slot[s].msg # m
        BY <1>1, Constants
      <4> QED
        BY <2>1, <4>1, <4>2, SlotKeeps
    <3> QED
      BY <1>3, <3>1, <3>2 DEF Verdict
  <2>3. ~Held(s) => \A m \in Messages : Kept(m)
    <3>1. ~Held(s) => Release(s)
      BY <1>3 DEF Verdict
    <3> QED
      BY <2>1, <3>1, ReleaseKeeps
  <2>4. /\ Pending(jobs[j])
        /\ \/ jobs' = [jobs EXCEPT ![j] = CompleteSet(jobs[j])]
           \/ row.status # "queued" /\ jobs' = [jobs EXCEPT ![j] = row]
           \/ /\ row.status = "queued" /\ QueueAgain(s, j, row)
              /\ BackendOf(s) = "postgres" /\ jobs' = [jobs EXCEPT ![j] = row]
           \/ /\ row.status = "queued" /\ QueueAgain(s, j, row)
              /\ BackendOf(s) = "rabbitmq"
              /\ jobs' = [jobs EXCEPT ![j] = DispatchSet(row)]
    <3>1. /\ Pending(jobs[j])
          /\ \/ jobs' = [jobs EXCEPT ![j] = CompleteSet(jobs[j])]
             \/ /\ v # "complete"
                /\ row.status # "queued" \/ BackendOf(s) = "postgres"
                /\ jobs' = [jobs EXCEPT ![j] = row]
             \/ /\ v # "complete" /\ row.status = "queued"
                /\ BackendOf(s) = "rabbitmq"
                /\ jobs' = [jobs EXCEPT ![j] = DispatchSet(row)]
      BY <1>0, <1>3, VerdictRow DEF Pending
    <3>2. v # "complete" /\ row.status = "queued" => QueueAgain(s, j, row)
      BY <1>0, <1>3 DEF Verdict
    <3> QED
      BY <3>1, <3>2
  <2>5. \A i \in Jobs \ {j} : RowKept(i)
    BY <1>1, <2>4 DEF RowKept, JobsInv
  <2>6. \A i \in Jobs \ {j} : i \in stranded => i \in stranded'
    BY <1>0, <1>3 DEF Verdict, QueueAgain
  <2>7. \A i \in Jobs \ {j} : Safe(i)'
    BY <1>1, <2>2, <2>5, <2>6, KeptSafe DEF CarryInv
  <2>8. Safe(j)'
    <3>1. CASE jobs' = [jobs EXCEPT ![j] = CompleteSet(jobs[j])]
      <4>1. jobs'[j] = CompleteSet(jobs[j]) /\ ~Pending(CompleteSet(jobs[j]))
        BY <1>1, <3>1, WrittenRows DEF JobsInv
      <4> QED
        BY <4>1 DEF Safe
    <3>2. CASE row.status # "queued" /\ jobs' = [jobs EXCEPT ![j] = row]
      <4>1. jobs'[j] = row /\ row.status \in {"queued", "failed"}
        BY <1>1, <3>2 DEF JobsInv, FailSet, Row
      <4> QED
        BY <3>2, <4>1 DEF Safe, Pending
    <3>3. CASE /\ row.status = "queued" /\ QueueAgain(s, j, row)
               /\ BackendOf(s) = "rabbitmq"
               /\ jobs' = [jobs EXCEPT ![j] = DispatchSet(row)]
      <4>1. jobs'[j] = DispatchSet(row) /\ row \in Row
        BY <1>1, <3>3, FailedRow DEF JobsInv
      <4>2. Message(j, row.dispatch + 1) \in outbox'
        BY <3>3 DEF QueueAgain
      <4> QED
        BY <4>1, <4>2, Renumbered, FreshSafe
    <3>4. CASE /\ row.status = "queued" /\ QueueAgain(s, j, row)
               /\ BackendOf(s) = "postgres" /\ jobs' = [jobs EXCEPT ![j] = row]
      <4>1. jobs'[j] = row /\ row.dispatch = jobs[j].dispatch
        BY <1>1, <3>4, FailedRow DEF JobsInv
      <4>2. RowKept(j)
        BY <2>4, <4>1 DEF RowKept
      <4>4. CASE Held(s)
        <5>1. j \in stranded' /\ backend = "postgres"
          BY <1>1, <3>4, <4>4 DEF QueueAgain, BackendOf, Held
        <5> QED
          BY <4>1, <5>1, <1>1 DEF Safe, CarryInv
      <4>5. CASE ~Held(s)
        <5>1. UNCHANGED stranded
          BY <3>4, <4>5 DEF QueueAgain
        <5> QED
          BY <1>1, <2>3, <4>2, <4>5, <5>1, KeptSafe DEF CarryInv
      <4> QED
        BY <4>4, <4>5
    <3> QED
      BY <2>4, <3>1, <3>2, <3>3, <3>4
  <2> QED
    BY <2>7, <2>8 DEF CarryInv
<1> QED
  BY <1>2, <1>3

\* The other steps of slots leave every job as it is.
LEMMA LoopCarries ==
  ASSUME TypeInv, CarryInv, NEW s \in Instances,
         \/ /\ s \in BrokerSlots
            /\ \/ TurnOn(s) \/ TurnOff(s) \/ \E m \in queue : Deliver(s, m)
               \/ LoseConnection(s) \/ AckDelivery(s)
         \/ Abandon(s)
  PROVE  CarryInv'
<1>. USE DEF TypeInv
<1>1. UNCHANGED <<jobs, outbox, stranded, backend>>
  BY DEF TurnOn, TurnOff, Deliver, LoseConnection, AckDelivery, Abandon,
         tables, rows, switches
<1>2. /\ slot[s] \in Slot /\ SlotInv(s, slot[s])
      /\ slot[s].pc \in {"off", "on"} => slot[s].msg = NoMessage
  BY OneSlot DEF SlotInv
<1>3. CASE TurnOn(s) \/ TurnOff(s) \/ AckDelivery(s)
  <2>1. /\ \E pc \in {"on", "off"} : slot' = [slot EXCEPT ![s] = Empty(pc)]
        /\ UNCHANGED queue
        /\ slot[s].pc = "ack" \/ slot[s].msg = NoMessage
    BY <1>2, <1>3 DEF TurnOn, TurnOff, AckDelivery, Goto
  <2>2. \A m \in Messages : Kept(m)
    BY <1>1, <2>1, SlotKeeps, Constants
  <2> QED
    BY <1>1, <2>2, RowsKept, AllKept
<1>4. ASSUME NEW d \in queue, Deliver(s, d), s \in BrokerSlots
      PROVE  CarryInv'
  <2>. DEFINE st == [Empty("got") EXCEPT !.msg = d]
  <2>1. /\ slot' = [slot EXCEPT ![s] = st] /\ queue' = queue \ {d}
        /\ st.msg = d /\ st.pc = "got" /\ slot[s].msg = NoMessage
    BY <1>2, <1>4 DEF Deliver, Empty
  <2> HIDE DEF st
  <2>2. \A m \in Messages : Kept(m)
    BY <1>1, <1>4, <2>1, SlotKeeps, Constants
  <2> QED
    BY <1>1, <2>2, RowsKept, AllKept
<1>5. CASE LoseConnection(s)
  <2>1. /\ \E st : slot' = [slot EXCEPT ![s] = st]
        /\ queue' = queue \cup {slot[s].msg}
    BY <1>5 DEF LoseConnection, Returned
  <2>2. \A m \in Messages : Kept(m)
    BY <1>1, <2>1, SlotKeeps
  <2> QED
    BY <1>1, <2>2, RowsKept, AllKept
<1>6. CASE Abandon(s)
  <2>1. Release(s)
    BY <1>6 DEF Abandon
  <2> QED
    BY <1>1, <2>1, ReleaseKeeps, RowsKept, AllKept
<1> QED
  BY <1>3, <1>4, <1>5, <1>6

\* Every step keeps the messages of the unfinished jobs under way.
LEMMA CarryStep == TypeInv /\ CarryInv /\ [Next]_vars => CarryInv'
<1>. SUFFICES ASSUME TypeInv, CarryInv, [Next]_vars PROVE CarryInv'
  OBVIOUS
<1>. USE DEF TypeInv
<1>1. CASE ClientStep
  BY <1>1, ClientCarries
<1>2. CASE Reconcile \/ \E b \in Backends : Restart(b)
  BY <1>2, AdoptCarries
<1>3. ASSUME NEW d \in outbox, Publish(d)
      PROVE  CarryInv'
  <2>1. /\ UNCHANGED <<jobs, slot, stranded, backend>>
        /\ queue' = queue \cup {d} /\ (outbox' = outbox \ {d} \/ UNCHANGED outbox)
    BY <1>3 DEF Publish, rows, switches
  <2>2. \A m \in Messages : Kept(m)
    BY <2>1 DEF Kept, Carried
  <2> QED
    BY <2>1, <2>2, RowsKept, AllKept
<1>4. CASE SlotStep
  BY <1>4, ClaimCarries, BeginCarries, VerdictCarries, LoopCarries, Constants
     DEF SlotStep
<1>5. ASSUME NEW j \in Jobs, LeaseExpires(j)
      PROVE  CarryInv'
  <2>. DEFINE row == [jobs[j] EXCEPT !.lease = "expired"]
  <2>1. /\ jobs' = [jobs EXCEPT ![j] = row]
        /\ UNCHANGED <<outbox, stranded, queue, slot, backend>>
    BY <1>5 DEF LeaseExpires, switches
  <2>2. row.dispatch = jobs[j].dispatch /\ (Pending(row) <=> Pending(jobs[j]))
    BY WrittenRows DEF JobsInv
  <2> HIDE DEF row
  <2>3. \A i \in Jobs : RowKept(i)
    BY <2>1, <2>2, OneKept
  <2> QED
    BY <2>1, <2>3, TablesKeep, AllKept
<1>6. CASE UNCHANGED vars
  <2>1. UNCHANGED <<jobs, outbox, stranded, queue, slot, backend>>
    BY <1>6 DEF vars
  <2> QED
    BY <2>1, RowsKept, TablesKeep, AllKept
<1> QED
  BY <1>1, <1>2, <1>3, <1>4, <1>5, <1>6 DEF Next

\* While the broker is the queue an unfinished job is on its way to a
\* consumer, whatever it went through before, unless a consumer gave it back
\* to a coordinator that had gone back to SQL.
THEOREM NoJobLost == Spec => []NoLostJob
<1>1. Init => CarryInv
  BY DEF Init, CarryInv, Safe, Pending, AbsentRow
<1>2. CarryInv => NoLostJob
  BY DEF CarryInv, Safe, NoLostJob
<1> QED
  BY <1>1, <1>2, CarryStep, TypeInvInit, TypeInvStep, PTL DEF Spec

-----------------------------------------------------------------------------
(* What the trigger sees.                                                  *)

Spent == "attempts_exhausted"

\* How a statement may change what the trigger reads of a row.
Submits(old, new) == /\ old.status = "absent" /\ new.status = "accepted"
                     /\ new.lease_owner = 0

Waits(old, new) == /\ Uploading(old) /\ new.status \in {"downloading", "queued"}
                   /\ new.attempts = old.attempts
                   /\ new.lease_owner = old.lease_owner

Starts(old, new) == /\ Pending(old) /\ new.status = "running"
                    /\ new.attempts = old.attempts + 1 /\ new.lease_owner # 0
                    /\ new.instance \in Instances

Ends(old, new) == /\ \/ Uploading(old) \/ Pending(old)
                  /\ \/ new.status = "failed"
                     \/ old.status = "running" /\ new.status \in {"done", "queued"}
                  /\ new.attempts = old.attempts /\ new.lease_owner = 0

Goes(old, new) == Terminal(old) /\ new.status = "deleted" /\ new.lease_owner = 0

Stays(old, new) == /\ new.status = old.status /\ new.attempts = old.attempts
                   /\ new.lease_owner = old.lease_owner
                   /\ new.instance = old.instance

TallyMove(old, new) ==
  \/ Submits(old, new) \/ Waits(old, new) \/ Starts(old, new)
  \/ Ends(old, new) \/ Goes(old, new) \/ Stays(old, new)

\* No statement makes another change.
LEMMA TallyMoves ==
  ASSUME TypeInv, NEW j \in Jobs, RowsMoved
  PROVE  TallyMove(jobs[j], jobs'[j])
<1>. DEFINE old == jobs[j]
            new == jobs'[j]
<1>1. old \in Row /\ RowShape(old, reconciles, 0) /\ old.attempts \in Nat
  BY WrittenValues DEF TypeInv, JobsInv, RowInv, Row
<1>2. \/ QuietMove(old, new, FALSE) \/ VerdictMove(old, new)
      \/ \E s \in Instances : \E d : StartMove(old, new, s, d)
  BY DEF RowsMoved, RowsQuiet, QuietRow, RowStarts, RowSettles, QuietMove
<1>. HIDE DEF old, new
<1>3. ASSUME QuietMove(old, new, FALSE)
      PROVE  TallyMove(old, new)
  <2>1. old.status = "absent" /\ new = CreateSet => Submits(old, new)
    BY DEF Submits, CreateSet, AbsentRow
  <2>2. Uploading(old) /\ new \in {MarkDownloadingSet(old), MarkQueuedSet(old),
                                   DispatchSet(MarkQueuedSet(old))}
          => Waits(old, new)
    BY <1>1 DEF Waits, MarkDownloadingSet, MarkQueuedSet, DispatchSet, Row
  <2>3. (Uploading(old) \/ Pending(old)) /\ new = EndFailedSet(old)
          => Ends(old, new)
    BY <1>1 DEF Ends, EndFailedSet, Row
  <2>4. CleanupWhere(old, FALSE) /\ new = DeletedRow => Goes(old, new)
    BY DEF Goes, CleanupWhere, DeletedRow, AbsentRow
  <2>5. new = DispatchSet(old) \/ new = AckSet(old) \/ new = old
          => Stays(old, new)
    BY <1>1 DEF Stays, DispatchSet, AckSet, Row
  <2>6. \A phase : new = [old EXCEPT !.lease = phase] => Stays(old, new)
    BY <1>1 DEF Stays, Row
  <2> QED
    BY <1>3, <2>1, <2>2, <2>3, <2>4, <2>5, <2>6 DEF QuietMove, TallyMove
<1>4. ASSUME VerdictMove(old, new)
      PROVE  TallyMove(old, new)
  <2>1. old.status = "running" => Pending(old)
    BY DEF Pending
  <2>2. old.status = "running" /\ new = CompleteSet(old) => Ends(old, new)
    BY <1>1, <2>1 DEF Ends, CompleteSet, Row
  <2>3. \A b \in BOOLEAN :
          old.status = "running"
            /\ (new = FailSet(old, b) \/ new = DispatchSet(FailSet(old, b)))
          => Ends(old, new)
    BY <1>1, <2>1 DEF Ends, FailSet, DispatchSet, Row
  <2> QED
    BY <1>4, <2>2, <2>3 DEF VerdictMove, TallyMove
<1>5. ASSUME NEW s \in Instances, NEW d, StartMove(old, new, s, d)
      PROVE  Starts(old, new)
  BY <1>1, <1>5 DEF StartMove, Starts, StartSet, Row
<1> QED
  BY <1>2, <1>3, <1>4, <1>5 DEF TallyMove, old, new

\* What it may write into error.
TextMove(old, new, t, u) ==
  /\ u = Spent => t = Spent \/ (old.status = "running" /\ new.status = "failed")
  /\ t = Spent => u = Spent
  /\ old.status = "running" /\ new.status = "queued" => u # "cancelled"

\* Only a running row has an owner, and only a row at its end spent its attempts.
AccountInv ==
  \A j \in Jobs :
    /\ jobs[j].status # "running" => jobs[j].lease_owner = 0
    /\ error[j] = Spent => jobs[j].status \in {"failed", "deleted"}

\* The trigger runs with every statement.
Counts == obs' = Counted(obs, jobs, jobs', error')

TextsMove == \A j \in Jobs : TextMove(jobs[j], jobs'[j], error[j], error'[j])

\* A row that stays is not counted.
LEMMA NothingSeen ==
  ASSUME NEW old, NEW new, NEW u, new.status = old.status,
         new.attempts = old.attempts, old.attempts \in Nat
  PROVE  Observed(old, new, u) = {}
<1>1. ~ Begins(old, new)
  BY DEF Begins
<1>2. ~ Expires(old, new, u) /\ ~ Fails(old, new, u)
  BY <1>1 DEF Expires, Fails
<1>3. Closing(old, new, u) = {}
  BY DEF Closing, Completes, Terminal
<1> QED
  BY <1>1, <1>2, <1>3 DEF Observed

\* Where no status and no attempt changes, nothing is counted.
LEMMA CountedSame ==
  ASSUME TypeInv, NEW new, NEW texts,
         \A j \in Jobs : new[j].status = jobs[j].status
                         /\ new[j].attempts = jobs[j].attempts
  PROVE  Counted(obs, jobs, new, texts) = obs
<1>1. \A j \in Jobs : Observed(jobs[j], new[j], texts[j]) = {}
  <2>1. \A j \in Jobs : jobs[j].attempts \in Nat
    BY WrittenValues DEF TypeInv, JobsInv, Row
  <2> QED
    BY <2>1, NothingSeen
<1>. DEFINE seen == [j \in Jobs |-> Observed(jobs[j], new[j], texts[j])]
<1>2. \A w, e : {j \in Jobs : <<w, e>> \in seen[j]} = {}
  BY <1>1
<1>3. Counted(obs, jobs, new, texts) =
        [w \in Creditors |-> [e \in Events |->
           obs[w][e] + Cardinality({j \in Jobs : <<w, e>> \in seen[j]})]]
  BY DEF Counted
<1>. HIDE DEF seen
<1>4. \A w \in Creditors : \A e \in Events :
        obs[w][e] + Cardinality({j \in Jobs : <<w, e>> \in seen[j]}) = obs[w][e]
  <2>1. SUFFICES ASSUME NEW w \in Creditors, NEW e \in Events
                 PROVE  obs[w][e] + Cardinality({j \in Jobs : <<w, e>> \in seen[j]})
                          = obs[w][e]
    OBVIOUS
  <2>2. obs[w][e] \in Nat
    BY DEF TypeInv, TrackInv
  <2>3. Cardinality({j \in Jobs : <<w, e>> \in seen[j]}) = 0
    BY <1>2, FS_EmptySet
  <2> QED
    BY <2>2, <2>3
<1>5. obs = [w \in Creditors |-> [e \in Events |-> obs[w][e]]]
  BY DEF TypeInv, TrackInv
<1>6. \A w \in Creditors :
        [e \in Events |->
           obs[w][e] + Cardinality({j \in Jobs : <<w, e>> \in seen[j]})]
        = [e \in Events |-> obs[w][e]]
  BY <1>4
<1> QED
  BY <1>3, <1>5, <1>6

\* A statement on any rows runs the trigger.
LEMMA WriteCounts ==
  ASSUME NEW new, NEW texts, Write(new, texts)
  PROVE  Counts /\ jobs' = new /\ error' = texts
BY DEF Write, Counts

\* What changes no status, no attempts and no text is counted as nothing.
LEMMA QuietCounts ==
  ASSUME TypeInv, UNCHANGED <<error, obs>>,
         \A j \in Jobs : jobs'[j].status = jobs[j].status
                         /\ jobs'[j].attempts = jobs[j].attempts
  PROVE  Counts /\ TextsMove
<1>1. Counts
  BY CountedSame DEF Counts
<1>2. TextsMove
  BY DEF TextsMove, TextMove
<1> QED
  BY <1>1, <1>2

\* A statement on one row.
LEMMA UpdateCounts ==
  ASSUME TypeInv, NEW j \in Jobs, NEW row, NEW text, Update(j, row, text),
         TextMove(jobs[j], row, error[j], text)
  PROVE  Counts /\ TextsMove
<1>1. /\ jobs' = [jobs EXCEPT ![j] = row] /\ error' = [error EXCEPT ![j] = text]
      /\ Counts
  BY WriteCounts DEF Update
<1>2. /\ jobs'[j] = row /\ error'[j] = text
      /\ \A i \in Jobs \ {j} : jobs'[i] = jobs[i] /\ error'[i] = error[i]
  BY <1>1 DEF TypeInv, JobsInv, TrackInv
<1>3. \A i \in Jobs \ {j} : TextMove(jobs[i], jobs'[i], error[i], error'[i])
  BY <1>2 DEF TextMove
<1> QED
  BY <1>1, <1>2, <1>3 DEF TextsMove

\* reap.sql writes the text of a spent job to running rows.
LEMMA ReapedText ==
  ASSUME TypeInv, AccountInv, NEW j \in Jobs
  PROVE  /\ TextMove(jobs[j], ReapedRows[j], error[j], ReapedErrors[j])
         /\ jobs[j].attempts < MaxAttempts =>
              ReapedRows[j] = jobs[j] /\ ReapedErrors[j] = error[j]
         /\ Terminal(jobs[j]) => ReapedErrors[j] = error[j]
<1>1. jobs[j].attempts \in Nat /\ MaxAttempts \in Nat
  BY WrittenValues, MaxAttemptsAssumption DEF TypeInv, JobsInv, Row
<1>2. CASE j \in Reapable
  <2>1. jobs[j].status = "running" /\ ~ (jobs[j].attempts < MaxAttempts)
    BY <1>1, <1>2 DEF Reapable, ReapWhere
  <2>2. ReapedRows[j].status = "failed"
    BY <1>2 DEF ReapedRows, EndFailedSet, TypeInv, JobsInv, Row
  <2>3. ReapedErrors[j] = Spent
    BY <1>2 DEF ReapedErrors, Spent
  <2> QED
    BY <2>1, <2>2, <2>3 DEF TextMove, Terminal, AccountInv, Spent
<1>3. CASE j \notin Reapable
  BY <1>3 DEF ReapedRows, ReapedErrors, TextMove
<1> QED
  BY <1>2, <1>3

\* The client's statements.
LEMMA ClientCounts ==
  ASSUME TypeInv, AccountInv, ClientStep
  PROVE  Counts /\ TextsMove
<1>1. \A j \in Jobs : jobs[j] \in Row /\ (Uploading(jobs[j]) \/ Pending(jobs[j])
                        \/ jobs[j].status = "absent" => error[j] # Spent)
  BY DEF TypeInv, JobsInv, AccountInv, Uploading, Pending
<1>2. \A j \in Jobs : \A row, text :
        Update(j, row, text) /\ TextMove(jobs[j], row, error[j], text)
          => Counts /\ TextsMove
  BY UpdateCounts
<1>3. ASSUME NEW j \in Jobs, CreateJob(j)
      PROVE  Counts /\ TextsMove
  <2>1. TextMove(jobs[j], CreateSet, error[j], "none")
    BY <1>1, <1>3 DEF CreateJob, TextMove, Spent
  <2> QED
    BY <1>2, <1>3, <2>1 DEF CreateJob
<1>4. ASSUME NEW j \in Jobs, MarkDownloading(j)
      PROVE  Counts /\ TextsMove
  <2>1. TextMove(jobs[j], MarkDownloadingSet(jobs[j]), error[j], error[j])
    BY <1>4 DEF MarkDownloading, TextMove
  <2> QED
    BY <1>2, <1>4, <2>1 DEF MarkDownloading
<1>5. ASSUME NEW j \in Jobs, MarkQueued(j)
      PROVE  Counts /\ TextsMove
  <2>1. \A row : TextMove(jobs[j], row, error[j], "none")
    BY <1>1, <1>5 DEF MarkQueued, TextMove, Spent, Uploading
  <2> QED
    BY <1>2, <1>5, <2>1 DEF MarkQueued
<1>6. ASSUME NEW j \in Jobs, FailUpload(j)
      PROVE  Counts /\ TextsMove
  <2>1. Uploading(jobs[j]) /\ jobs[j].status # "running"
    BY <1>6 DEF FailUpload, FailWhere, Uploading
  <2>2. \A row : TextMove(jobs[j], row, error[j], "other")
    BY <1>1, <2>1 DEF TextMove, Spent
  <2> QED
    BY <1>2, <1>6, <2>2 DEF FailUpload
<1>7. ASSUME NEW j \in Jobs, CancelJob(j)
      PROVE  Counts /\ TextsMove
  <2>1. Uploading(jobs[j]) \/ Pending(jobs[j])
    BY <1>1, <1>7 DEF CancelJob, CancelWhere, Exists, Terminal, Uploading,
                      Pending, Row, Statuses
  <2>2. EndFailedSet(jobs[j]).status = "failed"
    BY <1>1 DEF EndFailedSet, Row
  <2>3. TextMove(jobs[j], EndFailedSet(jobs[j]), error[j], "cancelled")
    BY <1>1, <2>1, <2>2 DEF TextMove, Spent
  <2> QED
    BY <1>2, <1>7, <2>3 DEF CancelJob
<1>8. ASSUME NEW gone \in SUBSET Jobs, CleanupExpiredJobs(gone)
      PROVE  Counts /\ TextsMove
  <2>. DEFINE new == [j \in Jobs |-> IF j \in gone THEN DeletedRow
                                     ELSE ReapedRows[j]]
  <2>1. Counts /\ jobs' = new /\ error' = ReapedErrors
    BY <1>8, WriteCounts DEF CleanupExpiredJobs
  <2>2. ASSUME NEW j \in Jobs
        PROVE  TextMove(jobs[j], new[j], error[j], ReapedErrors[j])
    <3>1. CASE j \in gone
      <4>1. Terminal(jobs[j])
        BY <1>8, <3>1 DEF CleanupExpiredJobs, CleanupWhere
      <4>2. ReapedErrors[j] = error[j] /\ jobs[j].status # "running"
        BY <4>1, ReapedText DEF Terminal
      <4> QED
        BY <4>2 DEF TextMove
    <3>2. CASE j \notin gone
      BY <3>2, ReapedText
    <3> QED
      BY <3>1, <3>2
  <2> QED
    BY <2>1, <2>2 DEF TextsMove
<1> QED
  BY <1>3, <1>4, <1>5, <1>6, <1>7, <1>8 DEF ClientStep

\* claim_next_job.
LEMMA ClaimCounts ==
  ASSUME TypeInv, AccountInv, NEW s \in SqlSlots, NEW own \in BOOLEAN,
         Claim(s, own)
  PROVE  Counts /\ TextsMove
<1>. DEFINE open == {j \in Jobs : Claimable(jobs[j])}
            first == Min(open)
<1>1. CASE open = {}
  <2>1. Counts /\ jobs' = ReapedRows /\ error' = ReapedErrors
    BY <1>1, WriteCounts DEF Claim
  <2> QED
    BY <2>1, ReapedText DEF TextsMove
<1>2. CASE open # {}
  <2>1. first \in open
    BY <1>2, MinMember, Constants
  <2>. DEFINE new == [ReapedRows EXCEPT ![first] = StartedRow(s, @)]
              texts == [ReapedErrors EXCEPT ![first] = "none"]
  <2>2. Counts /\ jobs' = new /\ error' = texts
    BY <1>2, WriteCounts DEF Claim
  <2>3. first \in Jobs /\ Pending(jobs[first]) /\ jobs[first].attempts < MaxAttempts
    BY <2>1 DEF Claimable
  <2>. HIDE DEF first
  <2>4. ReapedRows[first] = jobs[first] /\ error[first] # Spent
    BY <2>3, ReapedText DEF AccountInv, Pending
  <2>5. /\ new[first] = StartedRow(s, jobs[first]) /\ texts[first] = "none"
        /\ \A i \in Jobs \ {first} : new[i] = ReapedRows[i]
                                     /\ texts[i] = ReapedErrors[i]
    BY <2>3, <2>4 DEF ReapedRows, ReapedErrors
  <2>6. new[first].status = "running"
    BY <2>3, <2>5 DEF StartedRow, StartSet, TypeInv, JobsInv, Row
  <2>7. TextMove(jobs[first], new[first], error[first], texts[first])
    BY <2>4, <2>5, <2>6 DEF TextMove, Spent
  <2>8. \A i \in Jobs \ {first} : TextMove(jobs[i], new[i], error[i], texts[i])
    BY <2>5, ReapedText
  <2> QED
    BY <2>2, <2>7, <2>8 DEF TextsMove
<1> QED
  BY <1>1, <1>2

\* begin_attempt.
LEMMA BeginCounts ==
  ASSUME TypeInv, AccountInv, NEW s \in BrokerSlots, BeginAttempt(s)
  PROVE  Counts /\ TextsMove
<1>. DEFINE m   == slot[s].msg
            row == jobs[m.job]
<1>1. m.job \in Jobs /\ row \in Row /\ RowShape(row, reconciles, 0)
  <2>1. m \in Messages
    BY Constants DEF BeginAttempt, TypeInv, SlotsInv, SlotInv
  <2> QED
    BY <2>1 DEF Messages, TypeInv, JobsInv, RowInv
<1>2. \/ UNCHANGED rows
      \/ /\ Pending(row) /\ Exhausted(row)
         /\ Update(m.job, EndFailedSet(row), Spent)
      \/ /\ Pending(row)
         /\ Update(m.job, StartedRow(s, row), "none")
  <2>1. CASE backend = "postgres"
    BY <2>1 DEF BeginAttempt
  <2>2. CASE backend = "rabbitmq" /\ Obsolete(m)
    BY <2>2 DEF BeginAttempt
  <2>3. CASE backend = "rabbitmq" /\ ~Obsolete(m) /\ Live(row)
    BY <2>3 DEF BeginAttempt
  <2>4. CASE backend = "rabbitmq" /\ ~Obsolete(m) /\ ~Live(row)
    BY <2>4 DEF BeginAttempt, Obsolete, Spent
  <2> QED
    BY <2>1, <2>2, <2>3, <2>4 DEF TypeInv, SwitchInv, Backends
<1>3. Pending(row) => error[m.job] # Spent
  BY <1>1 DEF AccountInv, Pending
<1>. HIDE DEF m, row
<1>4. CASE UNCHANGED rows
  <2>1. UNCHANGED <<jobs, error, obs>>
    BY <1>4 DEF rows
  <2> QED
    BY <2>1, QuietCounts
<1>5. CASE Pending(row) /\ Exhausted(row)
           /\ Update(m.job, EndFailedSet(row), Spent)
  <2>1. row.attempts \in Nat /\ MaxAttempts \in Nat
    BY <1>1, WrittenValues, MaxAttemptsAssumption DEF Row
  <2>2. row.status = "running"
    BY <1>1, <1>5, <2>1 DEF RowShape, Exhausted, Pending
  <2>3. EndFailedSet(row).status = "failed"
    BY <1>1 DEF EndFailedSet, Row
  <2>4. TextMove(row, EndFailedSet(row), error[m.job], Spent)
    BY <2>2, <2>3 DEF TextMove
  <2> QED
    BY <1>1, <1>5, <2>4, UpdateCounts DEF row
<1>6. CASE Pending(row) /\ Update(m.job, StartedRow(s, row), "none")
  <2>1. StartedRow(s, row).status = "running"
    BY <1>1 DEF StartedRow, StartSet, Row
  <2>2. TextMove(row, StartedRow(s, row), error[m.job], "none")
    BY <1>3, <1>6, <2>1 DEF TextMove, Spent
  <2> QED
    BY <1>1, <1>6, <2>2, UpdateCounts DEF row
<1> QED
  BY <1>2, <1>4, <1>5, <1>6

\* complete_job and fail_job.
LEMMA VerdictCounts ==
  ASSUME TypeInv, AccountInv, NEW s \in Instances, NEW v \in Verdicts,
         Verdict(s, v)
  PROVE  Counts /\ TextsMove
<1>1. CASE ~Accepted(s, v)
  <2>1. UNCHANGED <<jobs, error, obs>>
    BY <1>1 DEF Verdict, tables, rows
  <2> QED
    BY <2>1, QuietCounts
<1>2. CASE Accepted(s, v)
  <2>. DEFINE j == slot[s].job
              row == FailSet(jobs[j], v = "failRetry")
  <2>1. j \in Jobs /\ jobs[j].status = "running" /\ jobs[j] \in Row
    BY <1>2, VerdictRow DEF TypeInv, JobsInv
  <2>2. error[j] # Spent
    BY <2>1 DEF AccountInv
  <2>3. \A new : TextMove(jobs[j], new, error[j], "other")
    BY <2>2 DEF TextMove, Spent
  <2>4. TextMove(jobs[j], CompleteSet(jobs[j]), error[j], error[j])
    BY <2>1 DEF TextMove, CompleteSet, Row
  <2>5. \/ Update(j, CompleteSet(jobs[j]), error[j])
        \/ \E new : Update(j, new, "other")
    BY <1>2 DEF Verdict, QueueAgain
  <2>. HIDE DEF j
  <2> QED
    BY <2>1, <2>3, <2>4, <2>5, UpdateCounts
<1> QED
  BY <1>1, <1>2

\* Every step runs the trigger, or changes nothing it counts.
LEMMA CountsStep ==
  TypeInv /\ AccountInv /\ [Next]_vars => Counts /\ TextsMove
<1>. SUFFICES ASSUME TypeInv, AccountInv, [Next]_vars
              PROVE  Counts /\ TextsMove
  OBVIOUS
<1>1. CASE UNCHANGED <<jobs, error, obs>>
  BY <1>1, QuietCounts
<1>2. ASSUME NEW js, Adopt(js)
      PROVE  Counts /\ TextsMove
  <2>1. \A j \in Jobs : jobs'[j] = jobs[j] \/ jobs'[j] = DispatchSet(jobs[j])
    BY <1>2 DEF Adopt
  <2>2. \A j \in Jobs : /\ DispatchSet(jobs[j]).status = jobs[j].status
                        /\ DispatchSet(jobs[j]).attempts = jobs[j].attempts
    BY DEF DispatchSet, TypeInv, JobsInv, Row
  <2>3. UNCHANGED <<error, obs>>
    BY <1>2 DEF Adopt
  <2> QED
    BY <2>1, <2>2, <2>3, QuietCounts
<1>3. CASE Reconcile \/ \E b \in Backends : Restart(b)
  BY <1>2, <1>3 DEF Reconcile, Restart
<1>4. ASSUME NEW j \in Jobs, LeaseExpires(j)
      PROVE  Counts /\ TextsMove
  <2>1. /\ jobs' = [jobs EXCEPT ![j].lease = "expired"]
        /\ UNCHANGED <<error, obs>>
    BY <1>4 DEF LeaseExpires
  <2>2. \A i \in Jobs : jobs'[i].status = jobs[i].status
                        /\ jobs'[i].attempts = jobs[i].attempts
    BY <2>1 DEF TypeInv, JobsInv, Row
  <2> QED
    BY <2>1, <2>2, QuietCounts
<1>5. ASSUME NEW m \in outbox, Publish(m)
      PROVE  Counts /\ TextsMove
  BY <1>1, <1>5 DEF Publish, rows
<1>6. CASE SlotStep
  <2>1. ASSUME NEW s \in BrokerSlots,
               \/ TurnOn(s) \/ TurnOff(s) \/ \E m \in queue : Deliver(s, m)
               \/ LoseConnection(s) \/ AckDelivery(s)
        PROVE  Counts /\ TextsMove
    BY <1>1, <2>1 DEF TurnOn, TurnOff, Deliver, LoseConnection, AckDelivery,
                      tables, rows
  <2>2. ASSUME NEW s \in Instances, Abandon(s)
        PROVE  Counts /\ TextsMove
    BY <1>1, <2>2 DEF Abandon, tables, rows
  <2> QED
    BY <1>6, <2>1, <2>2, ClaimCounts, BeginCounts, VerdictCounts DEF SlotStep
<1>7. CASE UNCHANGED vars
  BY <1>1, <1>7 DEF vars, rows
<1> QED
  BY <1>3, <1>4, <1>5, <1>6, <1>7, ClientCounts DEF Next

-----------------------------------------------------------------------------
(* What each statement adds to the counters.                               *)

\* The row is at the end of its job.
Closes(old, new) == /\ new.status = "failed"
                    /\ Uploading(old) \/ Pending(old)

\* Which counters of the properties a change of a row adds to, and of whom.
Tallies(w, old, new, u, seen) ==
  /\ <<w, "submitted">> \in seen <=> w = Ingress /\ Submits(old, new)
  /\ <<w, "attempts">> \in seen <=> w = Owner(new) /\ Starts(old, new)
  /\ <<w, "completed">> \in seen <=>
       w = Owner(old) /\ old.status = "running" /\ new.status = "done"
  /\ <<w, "failed">> \in seen <=>
       w = Owner(old) /\ Closes(old, new) /\ u # "cancelled"
  /\ <<w, "cancelled">> \in seen <=>
       w = Owner(old) /\ Closes(old, new) /\ u = "cancelled"
  /\ <<w, "attempt_failures">> \in seen <=>
       /\ w = Owner(old) /\ old.status = "running" /\ u # "cancelled"
       /\ new.status \in {"queued", "failed"}
  /\ <<w, "lease_expirations">> \in seen <=>
       /\ w = Owner(old) /\ old.status = "running"
       /\ Starts(old, new) \/ (new.status = "failed" /\ u = Spent)

\* Pairs of one owner.
LEMMA OwnedPairs ==
  \A o, w, e, E : <<w, e>> \in {<<o, x>> : x \in E} <=> w = o /\ e \in E
OBVIOUS

\* The counters hold what their names say.
LEMMA SeenTallies ==
  ASSUME NEW old, NEW new, NEW u, NEW w, TallyMove(old, new),
         old.attempts \in Nat
  PROVE  Tallies(w, old, new, u, Observed(old, new, u))
<1>. DEFINE begun == IF Begins(old, new)
                       THEN {"attempts", IF new.attempts > 1 THEN "retries"
                                         ELSE "queue_wait"}
                       ELSE {}
            ended == (IF Expires(old, new, u) THEN {"lease_expirations"} ELSE {})
                       \cup (IF Fails(old, new, u) THEN {"attempt_failures"} ELSE {})
                       \cup Closing(old, new, u)
            seen  == Observed(old, new, u)
<1>1. CASE Submits(old, new)
  <2>1. seen = {<<Ingress, "submitted">>}
    BY <1>1 DEF Observed, Submits
  <2>2. ~Starts(old, new) /\ ~Closes(old, new) /\ old.status # "running"
    BY <1>1 DEF Submits, Starts, Closes, Uploading, Pending
  <2> QED
    BY <1>1, <2>1, <2>2 DEF Tallies
<1>2. CASE Goes(old, new) \/ (Stays(old, new) /\ new.status = "deleted")
  <2>1. seen = {}
    BY <1>2 DEF Observed, Goes, Stays, Terminal
  <2>2. /\ ~Submits(old, new) /\ ~Starts(old, new) /\ ~Closes(old, new)
        /\ old.status # "running"
    BY <1>2 DEF Goes, Stays, Submits, Starts, Closes, Uploading, Pending, Terminal
  <2> QED
    BY <2>1, <2>2 DEF Tallies
<1>3. CASE \/ Waits(old, new) \/ Starts(old, new) \/ Ends(old, new)
           \/ Stays(old, new) /\ new.status # "deleted"
  <2>1. ~(old.status = "absent" /\ new.status # "absent") /\ new.status # "deleted"
    BY <1>3 DEF Waits, Starts, Ends, Stays, Uploading, Pending
  <2>2. seen = {<<Owner(new), x>> : x \in begun} \cup {<<Owner(old), x>> : x \in ended}
    BY <2>1 DEF Observed
  <2>. HIDE DEF begun, ended, seen
  <2>3. \A e : <<w, e>> \in seen <=>
          \/ w = Owner(new) /\ e \in begun
          \/ w = Owner(old) /\ e \in ended
    BY <2>2, OwnedPairs
  <2>4. ~Submits(old, new)
    BY <2>1 DEF Submits
  <2>5. Begins(old, new) <=> Starts(old, new)
    BY <1>3 DEF Begins, Starts, Waits, Ends, Stays
  <2>6. Expires(old, new, u) <=>
          /\ old.status = "running"
          /\ Starts(old, new) \/ (new.status = "failed" /\ u = Spent)
    BY <2>5 DEF Expires, Spent
  <2>7. Completes(old, new) <=> old.status = "running" /\ new.status = "done"
    BY <1>3 DEF Completes, Starts, Waits, Ends, Stays
  <2>8. new.status = "failed" /\ ~Terminal(old) <=> Closes(old, new)
    BY <1>3 DEF Closes, Starts, Waits, Ends, Stays, Uploading, Pending, Terminal
  <2>9. Closing(old, new, u) =
          IF old.status = "running" /\ new.status = "done"
            THEN {"completed", "processing", "turnaround"}
          ELSE IF Closes(old, new)
            THEN {IF u = "cancelled" THEN "cancelled" ELSE "failed"}
          ELSE {}
    BY <2>7, <2>8 DEF Closing
  <2>10. \A e : e \in begun <=>
           /\ Starts(old, new)
           /\ e \in {"attempts", IF new.attempts > 1 THEN "retries" ELSE "queue_wait"}
    BY <2>5 DEF begun
  <2>11. \A e : e \in ended <=>
           \/ e = "lease_expirations" /\ Expires(old, new, u)
           \/ e = "attempt_failures" /\ Fails(old, new, u)
           \/ e \in Closing(old, new, u)
    BY DEF ended
  <2>12. /\ "attempts" \in begun <=> Starts(old, new)
         /\ \A e \in {"submitted", "completed", "failed", "cancelled",
                      "attempt_failures", "lease_expirations"} : e \notin begun
    BY <2>10
  <2>13. /\ "completed" \in Closing(old, new, u) <=>
              old.status = "running" /\ new.status = "done"
         /\ "failed" \in Closing(old, new, u) <=>
              Closes(old, new) /\ u # "cancelled"
         /\ "cancelled" \in Closing(old, new, u) <=>
              Closes(old, new) /\ u = "cancelled"
         /\ \A e \in {"submitted", "attempts", "attempt_failures",
                      "lease_expirations"} : e \notin Closing(old, new, u)
    BY <2>9 DEF Closes
  <2>14. /\ "submitted" \notin ended /\ "attempts" \notin ended
         /\ "completed" \in ended <=> old.status = "running" /\ new.status = "done"
         /\ "failed" \in ended <=> Closes(old, new) /\ u # "cancelled"
         /\ "cancelled" \in ended <=> Closes(old, new) /\ u = "cancelled"
         /\ "attempt_failures" \in ended <=> Fails(old, new, u)
         /\ "lease_expirations" \in ended <=> Expires(old, new, u)
    BY <2>11, <2>13
  <2>15. Tallies(w, old, new, u, seen)
    BY <2>3, <2>4, <2>6, <2>12, <2>14 DEF Tallies, Fails
  <2> QED
    BY <2>15 DEF seen
<1> QED
  BY <1>1, <1>2, <1>3 DEF TallyMove

\* What jobs the trigger counts for w in a step.
Seen(w, e) ==
  {j \in Jobs : <<w, e>> \in Observed(jobs[j], jobs'[j], error'[j])}

\* The counter of w grows by these.
LEMMA CounterGrows ==
  ASSUME TypeInv, Counts, NEW w \in Creditors, NEW e \in Events
  PROVE  /\ obs'[w][e] = obs[w][e] + Cardinality(Seen(w, e))
         /\ obs[w][e] \in Nat /\ Cardinality(Seen(w, e)) \in Nat
<1>. DEFINE seen == [j \in Jobs |-> Observed(jobs[j], jobs'[j], error'[j])]
<1>1. obs' = [v \in Creditors |-> [f \in Events |->
                obs[v][f] + Cardinality({j \in Jobs : <<v, f>> \in seen[j]})]]
  BY DEF Counts, Counted
<1>2. {j \in Jobs : <<w, e>> \in seen[j]} = Seen(w, e)
  BY DEF Seen
<1>. HIDE DEF seen
<1>3. obs[w][e] \in Nat
  BY DEF TypeInv, TrackInv
<1>4. Cardinality(Seen(w, e)) \in Nat
  BY JobsCounted DEF Seen
<1> QED
  BY <1>1, <1>2, <1>3, <1>4

\* The sum of a counter over some worker IDs, and who is counted in it.
Summed(o, e, W) == SumFunctionOnSet([w \in W |-> o[w][e]], W)

SeenIn(e, W) == {j \in Jobs : \E w \in W : j \in Seen(w, e)}

\* The sum grows by the jobs that are counted for any of them.
LEMMA SumGrows ==
  ASSUME TypeInv, Counts, NEW W, W \subseteq Creditors, NEW e \in Events,
         \A v, w \in W : \A j \in Jobs :
           j \in Seen(v, e) /\ j \in Seen(w, e) => v = w
  PROVE  /\ Summed(obs', e, W) = Summed(obs, e, W) + Cardinality(SeenIn(e, W))
         /\ Summed(obs, e, W) \in Nat
<1>. DEFINE f == [w \in W |-> obs[w][e]]
            g == [w \in W |-> Cardinality(Seen(w, e))]
            h == [w \in W |-> obs'[w][e]]
            p == [w \in W |-> Seen(w, e)]
<1>1. IsFiniteSet(W) /\ IsFiniteSet(Jobs)
  <2>1. IsFiniteSet(Creditors)
    BY ObservationsAssumption, FS_AddElement DEF Creditors
  <2> QED
    BY <2>1, ObservationsAssumption, FS_Subset
<1>2. \A w \in W : /\ f[w] \in Nat /\ g[w] \in Nat /\ h[w] = f[w] + g[w]
  BY CounterGrows
<1>3. p \in [W -> SUBSET Jobs]
  BY DEF Seen
<1>4. \A w \in W : p[w] = Seen(w, e)
  OBVIOUS
<1>5. \A v, w \in W : \A j \in Jobs : j \in p[v] /\ j \in p[w] => v = w
  BY <1>4
<1>6. SeenIn(e, W) = {j \in Jobs : \E w \in W : j \in p[w]}
  BY <1>4 DEF SeenIn
<1>7. [w \in W |-> Cardinality(p[w])] = g
  BY <1>4
<1>. HIDE DEF f, g, h, p
<1>8. Cardinality(SeenIn(e, W)) = SumFunctionOnSet([w \in W |-> Cardinality(p[w])], W)
  BY ONLY <1>1, <1>3, <1>5, <1>6, CountParts
<1>9. SumFunctionOnSet(h, W) = SumFunctionOnSet(f, W) + SumFunctionOnSet(g, W)
  BY ONLY <1>1, <1>2, SumPlus
<1>10. SumFunctionOnSet(f, W) \in Nat
  BY ONLY <1>1, <1>2, SumNat
<1>11. /\ Summed(obs', e, W) = SumFunctionOnSet(h, W)
       /\ Summed(obs, e, W) = SumFunctionOnSet(f, W)
  BY DEF Summed, f, h
<1> QED
  BY ONLY <1>7, <1>8, <1>9, <1>10, <1>11

-----------------------------------------------------------------------------
(* Whom a job is counted for.                                              *)

\* Running jobs have the worker ID of their slot, others the ingress.
LEMMA Owners ==
  ASSUME TypeInv, AccountInv, NEW j \in Jobs
  PROVE  /\ Owner(jobs[j]) \in Creditors
         /\ Owner(jobs[j]) \in Pools <=> jobs[j].status = "running"
         /\ jobs[j].status # "running" => Owner(jobs[j]) = Ingress
<1>1. RowShape(jobs[j], reconciles, 0)
  BY DEF TypeInv, JobsInv, RowInv
<1>2. CASE jobs[j].status = "running"
  BY <1>1, <1>2, ObservationsAssumption DEF RowShape, Owner, Creditors
<1>3. CASE jobs[j].status # "running"
  BY <1>3, ObservationsAssumption DEF AccountInv, Owner, Creditors
<1> QED
  BY <1>2, <1>3

\* An attempt belongs to a worker ID.
LEMMA StartOwner ==
  ASSUME NEW old, NEW new, Starts(old, new)
  PROVE  Owner(new) \in Pools /\ Owner(new) \in Creditors
BY ObservationsAssumption DEF Starts, Owner, Creditors

Counters == {"submitted", "attempts", "completed", "failed", "cancelled",
             "attempt_failures", "lease_expirations"}

\* No job is counted for two at once.
LEMMA OneOwner ==
  ASSUME TypeInv, NEW e \in Counters, NEW j \in Jobs, NEW v, NEW w,
         TallyMove(jobs[j], jobs'[j]), j \in Seen(v, e), j \in Seen(w, e)
  PROVE  v = w
<1>. DEFINE seen == Observed(jobs[j], jobs'[j], error'[j])
<1>1. jobs[j].attempts \in Nat
  BY WrittenValues DEF TypeInv, JobsInv, Row
<1>2. /\ Tallies(v, jobs[j], jobs'[j], error'[j], seen)
      /\ Tallies(w, jobs[j], jobs'[j], error'[j], seen)
  BY <1>1, SeenTallies
<1>3. <<v, e>> \in seen /\ <<w, e>> \in seen
  BY DEF Seen
<1>. HIDE DEF seen
<1> QED
  BY <1>2, <1>3 DEF Tallies, Counters

\* A step in which every row moves as it may, and is counted.
Accounted == /\ TypeInv /\ AccountInv /\ TypeInv' /\ AccountInv'
             /\ Counts /\ TextsMove
             /\ \A j \in Jobs : TallyMove(jobs[j], jobs'[j])

\* Sums over all of them, and over the worker IDs, grow by what is seen.
LEMMA SumsGrow ==
  ASSUME Accounted, NEW e \in Counters, NEW W, W \in {Creditors, Pools}
  PROVE  /\ Summed(obs', e, W) = Summed(obs, e, W) + Cardinality(SeenIn(e, W))
         /\ Summed(obs, e, W) \in Nat
<1>1. W \subseteq Creditors /\ e \in Events
  BY DEF Creditors, Counters, Events
<1>2. \A v, w \in W : \A j \in Jobs :
        j \in Seen(v, e) /\ j \in Seen(w, e) => v = w
  BY OneOwner DEF Accounted
<1> QED
  BY <1>1, <1>2, SumGrows DEF Accounted

\* What the trigger counts of a job.
LEMMA SeenJobs ==
  ASSUME Accounted, NEW j \in Jobs
  PROVE  LET old == jobs[j]
             new == jobs'[j]
             u   == error'[j]
         IN /\ j \in SeenIn("submitted", Creditors) <=> Submits(old, new)
            /\ j \in SeenIn("attempts", Creditors) <=> Starts(old, new)
            /\ \A W \in {Creditors, Pools} :
                 j \in SeenIn("completed", W) <=>
                   old.status = "running" /\ new.status = "done"
            /\ j \in SeenIn("failed", Creditors) <=>
                 Closes(old, new) /\ u # "cancelled"
            /\ j \in SeenIn("cancelled", Creditors) <=>
                 Closes(old, new) /\ u = "cancelled"
            /\ j \in SeenIn("cancelled", Pools) <=>
                 old.status = "running" /\ Closes(old, new) /\ u = "cancelled"
            /\ j \in SeenIn("attempt_failures", Pools) <=>
                 /\ old.status = "running" /\ u # "cancelled"
                 /\ new.status \in {"queued", "failed"}
            /\ j \in SeenIn("lease_expirations", Pools) <=>
                 /\ old.status = "running"
                 /\ Starts(old, new) \/ (new.status = "failed" /\ u = Spent)
<1>. DEFINE old  == jobs[j]
            new  == jobs'[j]
            u    == error'[j]
            seen == Observed(old, new, u)
<1>1. \A w : Tallies(w, old, new, u, seen)
  <2>1. old.attempts \in Nat
    BY WrittenValues DEF Accounted, TypeInv, JobsInv, Row
  <2> QED
    BY <2>1, SeenTallies DEF Accounted
<1>2. \A e, W : j \in SeenIn(e, W) <=> \E w \in W : <<w, e>> \in seen
  BY DEF SeenIn, Seen
<1>3. /\ Owner(old) \in Creditors /\ (Owner(old) \in Pools <=> old.status = "running")
      /\ Ingress \in Creditors
      /\ Starts(old, new) => Owner(new) \in Creditors
  BY Owners, StartOwner DEF Accounted, Creditors
<1>. HIDE DEF old, new, u, seen
<1>4. /\ j \in SeenIn("submitted", Creditors) <=> Submits(old, new)
      /\ j \in SeenIn("attempts", Creditors) <=> Starts(old, new)
  BY <1>1, <1>2, <1>3 DEF Tallies
<1>5. \A W \in {Creditors, Pools} :
        j \in SeenIn("completed", W) <=>
          old.status = "running" /\ new.status = "done"
  BY <1>1, <1>2, <1>3 DEF Tallies
<1>6. /\ j \in SeenIn("failed", Creditors) <=>
           Closes(old, new) /\ u # "cancelled"
      /\ j \in SeenIn("cancelled", Creditors) <=>
           Closes(old, new) /\ u = "cancelled"
  BY <1>1, <1>2, <1>3 DEF Tallies
<1>7. j \in SeenIn("cancelled", Pools) <=>
        old.status = "running" /\ Closes(old, new) /\ u = "cancelled"
  BY <1>1, <1>2, <1>3 DEF Tallies
<1>8. j \in SeenIn("attempt_failures", Pools) <=>
        /\ old.status = "running" /\ u # "cancelled"
        /\ new.status \in {"queued", "failed"}
  BY <1>1, <1>2, <1>3 DEF Tallies
<1>9. j \in SeenIn("lease_expirations", Pools) <=>
        /\ old.status = "running"
        /\ Starts(old, new) \/ (new.status = "failed" /\ u = Spent)
  BY <1>1, <1>2, <1>3 DEF Tallies
<1> QED
  BY <1>4, <1>5, <1>6, <1>7, <1>8, <1>9 DEF old, new, u

-----------------------------------------------------------------------------
(* Each submitted job.                                                     *)

\* The jobs that did not end yet.
Open == {j \in Jobs : Exists(jobs[j]) /\ ~Terminal(jobs[j])}

\* A job is counted at its end, and is open until then.
LEMMA OpenMoves ==
  ASSUME Accounted, NEW j \in Jobs
  PROVE  In3(j, Open, SeenIn("submitted", Creditors), {})
           = In6(j, Open', SeenIn("completed", Creditors),
                 SeenIn("failed", Creditors), SeenIn("cancelled", Creditors),
                 {}, {})
<1>. DEFINE old == jobs[j]
            new == jobs'[j]
            u   == error'[j]
            done == old.status = "running" /\ new.status = "done"
<1>1. /\ j \in SeenIn("submitted", Creditors) <=> Submits(old, new)
      /\ j \in SeenIn("completed", Creditors) <=> done
      /\ j \in SeenIn("failed", Creditors) <=> Closes(old, new) /\ u # "cancelled"
      /\ j \in SeenIn("cancelled", Creditors) <=> Closes(old, new) /\ u = "cancelled"
  BY SeenJobs
<1>2. /\ j \in Open <=> Exists(old) /\ ~Terminal(old)
      /\ j \in Open' <=> Exists(new) /\ ~Terminal(new)
  BY DEF Open
<1>3. TallyMove(old, new)
  BY DEF Accounted
<1>. HIDE DEF old, new, u
<1>4. IF Submits(old, new)
        THEN j \notin Open /\ j \in Open' /\ ~done /\ ~Closes(old, new)
      ELSE IF done \/ Closes(old, new)
        THEN j \in Open /\ j \notin Open' /\ ~(done /\ Closes(old, new))
      ELSE j \in Open <=> j \in Open'
  <2>1. CASE Submits(old, new)
    BY <1>2, <2>1 DEF Submits, Closes, Exists, Terminal, Uploading, Pending
  <2>2. CASE Ends(old, new)
    BY <1>2, <2>2 DEF Ends, Submits, Closes, Exists, Terminal, Uploading, Pending
  <2>3. CASE Waits(old, new) \/ Starts(old, new) \/ Goes(old, new) \/ Stays(old, new)
    BY <1>2, <2>3 DEF Waits, Starts, Goes, Stays, Submits, Closes, Exists,
                      Terminal, Uploading, Pending
  <2> QED
    BY <1>3, <2>1, <2>2, <2>3 DEF TallyMove
<1>. HIDE DEF done
<1> QED
  BY <1>1, <1>4 DEF In, In3, In6

\* The equation is kept.
LEMMA JobsBalance ==
  ASSUME Accounted, JobsAccounted
  PROVE  JobsAccounted'
<1>. DEFINE C == Creditors
<1>1. \A e \in Counters :
        /\ Summed(obs', e, C) = Summed(obs, e, C) + Cardinality(SeenIn(e, C))
        /\ Summed(obs, e, C) \in Nat
  BY SumsGrow
<1>2. /\ Open \subseteq Jobs /\ Open' \subseteq Jobs /\ {} \subseteq Jobs
      /\ \A e : SeenIn(e, C) \subseteq Jobs
  BY DEF Open, SeenIn
<1>3. IsFiniteSet(Jobs)
  BY ObservationsAssumption
<1>4. Count3(Open, SeenIn("submitted", C), {})
        = Count6(Open', SeenIn("completed", C), SeenIn("failed", C),
                 SeenIn("cancelled", C), {}, {})
  <2>1. \A j \in Jobs : In3(j, Open, SeenIn("submitted", C), {})
          = In6(j, Open', SeenIn("completed", C), SeenIn("failed", C),
                SeenIn("cancelled", C), {}, {})
    BY OpenMoves
  <2> QED
    BY ONLY <1>2, <1>3, <2>1, CountBalance
<1>5. /\ Cardinality({}) = 0 /\ Cardinality(Open) \in Nat /\ Cardinality(Open') \in Nat
      /\ \A e : Cardinality(SeenIn(e, C)) \in Nat
  BY <1>2, FS_EmptySet, JobsCounted
<1>6. Summed(obs, "submitted", C) =
        Cardinality(Open) + Summed(obs, "completed", C)
          + Summed(obs, "failed", C) + Summed(obs, "cancelled", C)
  BY DEF JobsAccounted, Total, SumFunction, Summed, Open
<1>7. {"submitted", "completed", "failed", "cancelled"} \subseteq Counters
  BY DEF Counters
<1>8. Summed(obs', "submitted", C) =
        Cardinality(Open') + Summed(obs', "completed", C)
          + Summed(obs', "failed", C) + Summed(obs', "cancelled", C)
  BY ONLY <1>1, <1>4, <1>5, <1>6, <1>7 DEF Count3, Count6
<1> QED
  BY <1>8 DEF JobsAccounted, Total, SumFunction, Summed, Open

-----------------------------------------------------------------------------
(* The steps of the accounts.                                              *)

\* No row is owned, and none is spent.
LEMMA AccountInit == Init => AccountInv
BY DEF Init, AccountInv, AbsentRow, Spent

\* Owners and texts stay where they belong.
LEMMA AccountStep ==
  ASSUME AccountInv, TextsMove, \A j \in Jobs : TallyMove(jobs[j], jobs'[j])
  PROVE  AccountInv'
<1>1. SUFFICES ASSUME NEW j \in Jobs
               PROVE  /\ jobs'[j].status # "running" => jobs'[j].lease_owner = 0
                      /\ error'[j] = Spent => jobs'[j].status \in {"failed", "deleted"}
  BY DEF AccountInv
<1>. DEFINE old == jobs[j]
            new == jobs'[j]
            t   == error[j]
            u   == error'[j]
<1>2. TallyMove(old, new) /\ TextMove(old, new, t, u)
  BY DEF TextsMove
<1>3. /\ old.status # "running" => old.lease_owner = 0
      /\ t = Spent => old.status \in {"failed", "deleted"}
  BY DEF AccountInv
<1>. HIDE DEF old, new, t, u
<1>4. new.status # "running" => new.lease_owner = 0
  BY <1>2, <1>3 DEF TallyMove, Submits, Waits, Starts, Ends, Goes, Stays, Uploading
<1>5. old.status \in {"failed", "deleted"} => new.status \in {"failed", "deleted"}
  BY <1>2 DEF TallyMove, Submits, Waits, Starts, Ends, Goes, Stays, Uploading, Pending
<1>6. u = Spent => new.status \in {"failed", "deleted"}
  BY <1>2, <1>3, <1>5 DEF TextMove
<1> QED
  BY <1>4, <1>6 DEF old, new, u

\* Every step is accounted for.
LEMMA AccountedStep == TypeInv /\ AccountInv /\ [Next]_vars => Accounted
<1>. SUFFICES ASSUME TypeInv, AccountInv, [Next]_vars PROVE Accounted
  OBVIOUS
<1>1. Counts /\ TextsMove /\ TypeInv'
  BY CountsStep, TypeInvStep
<1>2. \A j \in Jobs : TallyMove(jobs[j], jobs'[j])
  BY RowsMove, TallyMoves
<1>3. AccountInv'
  BY <1>1, <1>2, AccountStep
<1> QED
  BY <1>1, <1>2, <1>3 DEF Accounted

\* Nothing is counted at first.
LEMMA NothingSummed ==
  ASSUME Init, NEW e \in Counters, NEW W, W \subseteq Creditors
  PROVE  Summed(obs, e, W) = 0
<1>1. IsFiniteSet(W)
  <2>1. IsFiniteSet(Creditors)
    BY ObservationsAssumption, FS_AddElement DEF Creditors
  <2> QED
    BY <2>1, FS_Subset
<1>2. \A w \in W : [v \in W |-> obs[v][e]][w] = 0
  BY DEF Init, NoObservations, Counters, Events
<1> QED
  BY <1>1, <1>2, SumZero DEF Summed

\* There are no jobs yet.
LEMMA JobsBalanced == Init => JobsAccounted
<1>. SUFFICES ASSUME Init PROVE JobsAccounted
  OBVIOUS
<1>1. \A e \in Counters : Total(obs, e) = 0
  BY NothingSummed DEF Total, SumFunction, Summed
<1>2. Open = {} /\ Cardinality({}) = 0
  BY FS_EmptySet DEF Open, Init, AbsentRow, Exists
<1>3. {"submitted", "completed", "failed", "cancelled"} \subseteq Counters
  BY DEF Counters
<1> QED
  BY <1>1, <1>2, <1>3 DEF JobsAccounted, Open

\* Each submitted job is counted once more at its end, whichever statement of
\* either backend ends it.
THEOREM JobsAreAccounted == Spec => []JobsAccounted
<1>1. TypeInv /\ AccountInv /\ JobsAccounted /\ [Next]_vars
        => AccountInv' /\ JobsAccounted'
  BY AccountedStep, JobsBalance DEF Accounted
<1> QED
  BY <1>1, AccountInit, JobsBalanced, TypeInvInit, TypeInvStep, PTL DEF Spec

-----------------------------------------------------------------------------
(* Each attempt.                                                           *)

Running == {j \in Jobs : jobs[j].status = "running"}

\* The running jobs of a worker ID.
RunBy(w) == {j \in Jobs : jobs[j].status = "running" /\ Owner(jobs[j]) = w}

SpentJobs == {j \in Jobs : error[j] = Spent}

\* The first half of AttemptsAccounted.
Covered == \A w \in Pools : obs[w]["attempts"] <= Attempted(w)

\* All attempts are running, or counted where they ended; a spent one twice.
AttemptsInv ==
  Summed(obs, "attempts", Creditors) + Cardinality(SpentJobs) =
    Cardinality(Running)
      + Summed(obs, "completed", Pools) + Summed(obs, "cancelled", Pools)
      + Summed(obs, "attempt_failures", Pools)
      + Summed(obs, "lease_expirations", Pools)

\* The end of an attempt is the end of a running row.
LEMMA AttemptMoves ==
  ASSUME NEW old, NEW new, TallyMove(old, new)
  PROVE  /\ Starts(old, new) => new.status = "running" /\ ~Closes(old, new)
         /\ old.status = "running" =>
              \/ Starts(old, new) \/ new.status \in {"done", "queued"}
              \/ Closes(old, new)
              \/ new.status = "running" /\ Owner(new) = Owner(old)
         /\ old.status # "running" /\ ~Starts(old, new) => new.status # "running"
         /\ Closes(old, new) => new.status = "failed"
<1>1. Starts(old, new) => new.status = "running" /\ ~Closes(old, new)
  BY DEF Starts, Closes
<1>2. Stays(old, new) => Owner(new) = Owner(old) /\ new.status = old.status
  BY DEF Stays, Owner
<1>3. Ends(old, new) /\ old.status = "running" =>
        new.status \in {"done", "queued"} \/ Closes(old, new)
  BY DEF Ends, Closes
<1>4. old.status = "running" => ~Submits(old, new) /\ ~Waits(old, new) /\ ~Goes(old, new)
  BY DEF Submits, Waits, Goes, Uploading, Terminal
<1>5. old.status # "running" /\ ~Starts(old, new) => new.status # "running"
  BY <1>2 DEF TallyMove, Submits, Waits, Ends, Goes
<1>6. Closes(old, new) => new.status = "failed"
  BY DEF Closes
<1> QED
  BY <1>1, <1>2, <1>3, <1>4, <1>5, <1>6 DEF TallyMove

\* What changes of the text of a job.
LEMMA SpentMoves ==
  ASSUME Accounted, NEW j \in Jobs
  PROVE  /\ jobs[j].status = "running" => j \notin SpentJobs
         /\ jobs[j].status = "running" /\ j \in SpentJobs' => Closes(jobs[j], jobs'[j])
         /\ jobs[j].status = "running" /\ jobs'[j].status = "queued"
              => error'[j] # "cancelled"
         /\ jobs[j].status # "running" => (j \in SpentJobs <=> j \in SpentJobs')
         /\ j \in SpentJobs' <=> error'[j] = Spent
<1>1. TextMove(jobs[j], jobs'[j], error[j], error'[j])
  BY DEF Accounted, TextsMove
<1>2. error[j] = Spent => jobs[j].status \in {"failed", "deleted"}
  BY DEF Accounted, AccountInv
<1>3. /\ j \in SpentJobs <=> error[j] = Spent
      /\ j \in SpentJobs' <=> error'[j] = Spent
  BY DEF SpentJobs, Spent
<1> QED
  BY <1>1, <1>2, <1>3 DEF TextMove, Closes, Pending

\* A job runs, or its attempt is counted.
LEMMA RunMoves ==
  ASSUME Accounted, NEW j \in Jobs
  PROVE  In3(j, SeenIn("attempts", Creditors), Running, SpentJobs')
           = In6(j, Running', SeenIn("completed", Pools),
                 SeenIn("cancelled", Pools), SeenIn("attempt_failures", Pools),
                 SeenIn("lease_expirations", Pools), SpentJobs)
<1>. DEFINE old == jobs[j]
            new == jobs'[j]
            u   == error'[j]
<1>1. /\ j \in SeenIn("attempts", Creditors) <=> Starts(old, new)
      /\ j \in SeenIn("completed", Pools) <=>
           old.status = "running" /\ new.status = "done"
      /\ j \in SeenIn("cancelled", Pools) <=>
           old.status = "running" /\ Closes(old, new) /\ u = "cancelled"
      /\ j \in SeenIn("attempt_failures", Pools) <=>
           /\ old.status = "running" /\ u # "cancelled"
           /\ new.status \in {"queued", "failed"}
      /\ j \in SeenIn("lease_expirations", Pools) <=>
           /\ old.status = "running"
           /\ Starts(old, new) \/ (new.status = "failed" /\ u = Spent)
  BY SeenJobs
<1>2. /\ j \in Running <=> old.status = "running"
      /\ j \in Running' <=> new.status = "running"
  BY DEF Running
<1>3. /\ Starts(old, new) => new.status = "running" /\ ~Closes(old, new)
      /\ old.status = "running" =>
           \/ Starts(old, new) \/ new.status \in {"done", "queued"}
           \/ Closes(old, new)
           \/ new.status = "running"
      /\ old.status # "running" /\ ~Starts(old, new) => new.status # "running"
      /\ Closes(old, new) => new.status = "failed"
  BY AttemptMoves DEF Accounted
<1>4. /\ old.status = "running" => j \notin SpentJobs
      /\ old.status = "running" /\ j \in SpentJobs' => Closes(old, new)
      /\ old.status = "running" /\ new.status = "queued" => u # "cancelled"
      /\ old.status # "running" => (j \in SpentJobs <=> j \in SpentJobs')
      /\ j \in SpentJobs' <=> u = Spent
  BY SpentMoves
<1>5. Spent # "cancelled"
  BY DEF Spent
<1>. DEFINE a == SeenIn("attempts", Creditors)
            c == SeenIn("completed", Pools)
            d == SeenIn("cancelled", Pools)
            f == SeenIn("attempt_failures", Pools)
            x == SeenIn("lease_expirations", Pools)
            run  == Running
            run2 == Running'
            sp   == SpentJobs
            sp2  == SpentJobs'
<1>6. SUFFICES In3(j, a, run, sp2) = In6(j, run2, c, d, f, x, sp)
  OBVIOUS
<1>. HIDE DEF old, new, u, a, c, d, f, x, run, run2, sp, sp2
<1>7. ASSUME old.status # "running"
      PROVE  In3(j, a, run, sp2) = In6(j, run2, c, d, f, x, sp)
  <2>1. /\ j \notin run /\ j \notin c /\ j \notin d /\ j \notin f /\ j \notin x
        /\ j \in a <=> j \in run2
        /\ j \in sp <=> j \in sp2
    BY <1>1, <1>2, <1>3, <1>4, <1>7 DEF a, c, d, f, x, run, run2, sp, sp2
  <2> QED
    BY <2>1 DEF In, In3, In6
<1>8. ASSUME old.status = "running"
      PROVE  In3(j, a, run, sp2) = In6(j, run2, c, d, f, x, sp)
  <2>1. j \in run /\ j \notin sp
    BY <1>2, <1>4, <1>8 DEF run, sp
  <2>2. CASE Starts(old, new)
    <3>1. /\ j \in a /\ j \in run2 /\ j \notin c /\ j \notin d /\ j \notin f
          /\ j \in x /\ j \notin sp2
      BY <1>1, <1>2, <1>3, <1>4, <1>8, <2>2 DEF a, c, d, f, x, run2, sp2
    <3> QED
      BY <2>1, <3>1 DEF In, In3, In6
  <2>3. CASE new.status = "done" /\ ~Starts(old, new)
    <3>1. /\ j \notin a /\ j \notin run2 /\ j \in c /\ j \notin d /\ j \notin f
          /\ j \notin x /\ j \notin sp2
      BY <1>1, <1>2, <1>3, <1>4, <1>8, <2>3 DEF a, c, d, f, x, run2, sp2
    <3> QED
      BY <2>1, <3>1 DEF In, In3, In6
  <2>4. CASE new.status = "queued" /\ ~Starts(old, new)
    <3>1. /\ j \notin a /\ j \notin run2 /\ j \notin c /\ j \notin d /\ j \in f
          /\ j \notin x /\ j \notin sp2
      BY <1>1, <1>2, <1>3, <1>4, <1>8, <2>4 DEF a, c, d, f, x, run2, sp2
    <3> QED
      BY <2>1, <3>1 DEF In, In3, In6
  <2>5. CASE Closes(old, new) /\ u = "cancelled"
    <3>1. /\ j \notin a /\ j \notin run2 /\ j \notin c /\ j \in d /\ j \notin f
          /\ j \notin x /\ j \notin sp2
      BY <1>1, <1>2, <1>3, <1>4, <1>5, <1>8, <2>5 DEF a, c, d, f, x, run2, sp2
    <3> QED
      BY <2>1, <3>1 DEF In, In3, In6
  <2>6. CASE Closes(old, new) /\ u # "cancelled"
    <3>1. /\ j \notin a /\ j \notin run2 /\ j \notin c /\ j \notin d /\ j \in f
          /\ j \in x <=> j \in sp2
      BY <1>1, <1>2, <1>3, <1>4, <1>8, <2>6 DEF a, c, d, f, x, run2, sp2
    <3> QED
      BY <2>1, <3>1 DEF In, In3, In6
  <2>7. CASE new.status = "running" /\ ~Starts(old, new)
    <3>1. /\ j \notin a /\ j \in run2 /\ j \notin c /\ j \notin d /\ j \notin f
          /\ j \notin x /\ j \notin sp2
      BY <1>1, <1>2, <1>3, <1>4, <1>8, <2>7 DEF a, c, d, f, x, run2, sp2
    <3> QED
      BY <2>1, <3>1 DEF In, In3, In6
  <2> QED
    BY <1>3, <1>8, <2>2, <2>3, <2>4, <2>5, <2>6, <2>7
<1> QED
  BY <1>7, <1>8

\* The same for one worker ID, where one attempt may be counted twice.
LEMMA RunByMoves ==
  ASSUME Accounted, NEW j \in Jobs, NEW w \in Pools
  PROVE  In3(j, Seen(w, "attempts"), RunBy(w), {})
           <= In6(j, RunBy(w)', Seen(w, "completed"), Seen(w, "cancelled"),
                  Seen(w, "attempt_failures"), Seen(w, "lease_expirations"), {})
<1>. DEFINE old == jobs[j]
            new == jobs'[j]
            u   == error'[j]
            a == Seen(w, "attempts")
            c == Seen(w, "completed")
            d == Seen(w, "cancelled")
            f == Seen(w, "attempt_failures")
            x == Seen(w, "lease_expirations")
            run  == RunBy(w)
            run2 == RunBy(w)'
<1>1. Tallies(w, old, new, u, Observed(old, new, u))
  <2>1. old.attempts \in Nat
    BY WrittenValues DEF Accounted, TypeInv, JobsInv, Row
  <2> QED
    BY <2>1, SeenTallies DEF Accounted
<1>2. \A e : j \in Seen(w, e) <=> <<w, e>> \in Observed(old, new, u)
  BY DEF Seen
<1>3. /\ j \in a <=> w = Owner(new) /\ Starts(old, new)
      /\ j \in c <=> w = Owner(old) /\ old.status = "running" /\ new.status = "done"
      /\ j \in d <=> w = Owner(old) /\ Closes(old, new) /\ u = "cancelled"
      /\ j \in f <=> /\ w = Owner(old) /\ old.status = "running" /\ u # "cancelled"
                     /\ new.status \in {"queued", "failed"}
      /\ j \in x <=> /\ w = Owner(old) /\ old.status = "running"
                     /\ Starts(old, new) \/ (new.status = "failed" /\ u = Spent)
  BY <1>1, <1>2 DEF Tallies
<1>4. /\ j \in run <=> old.status = "running" /\ Owner(old) = w
      /\ j \in run2 <=> new.status = "running" /\ Owner(new) = w
  BY DEF RunBy
<1>5. /\ Starts(old, new) => new.status = "running" /\ ~Closes(old, new)
      /\ old.status = "running" =>
           \/ Starts(old, new) \/ new.status \in {"done", "queued"}
           \/ Closes(old, new)
           \/ new.status = "running" /\ Owner(new) = Owner(old)
      /\ Closes(old, new) => new.status = "failed"
  BY AttemptMoves DEF Accounted
<1>6. old.status = "running" /\ new.status = "queued" => u # "cancelled"
  BY SpentMoves
<1>7. SUFFICES In3(j, a, run, {}) <= In6(j, run2, c, d, f, x, {})
  OBVIOUS
<1>. HIDE DEF old, new, u, a, c, d, f, x, run, run2
<1>8. j \in a => j \in run2
  BY <1>3, <1>4, <1>5
<1>9. j \in run => \/ j \in x \/ j \in c \/ j \in d \/ j \in f
                   \/ j \in run2 /\ j \notin a
  <2>1. CASE Starts(old, new)
    BY <1>3, <1>4, <2>1
  <2>2. CASE ~Starts(old, new)
    BY <1>3, <1>4, <1>5, <1>6, <2>2
  <2> QED
    BY <2>1, <2>2
<1> QED
  BY <1>8, <1>9 DEF In, In3, In6

\* The equation of all attempts is kept.
LEMMA AttemptsStep ==
  ASSUME Accounted, AttemptsInv
  PROVE  AttemptsInv'
<1>. DEFINE C == Creditors
            P == Pools
            ended == {"completed", "cancelled", "attempt_failures", "lease_expirations"}
<1>1. /\ Summed(obs', "attempts", C) = Summed(obs, "attempts", C)
                                         + Cardinality(SeenIn("attempts", C))
      /\ Summed(obs, "attempts", C) \in Nat
  BY SumsGrow DEF Counters
<1>2. \A e \in ended :
        /\ Summed(obs', e, P) = Summed(obs, e, P) + Cardinality(SeenIn(e, P))
        /\ Summed(obs, e, P) \in Nat
  BY SumsGrow DEF Counters
<1>3. /\ Running \subseteq Jobs /\ Running' \subseteq Jobs
      /\ SpentJobs \subseteq Jobs /\ SpentJobs' \subseteq Jobs
      /\ \A e, W : SeenIn(e, W) \subseteq Jobs
  BY DEF Running, SpentJobs, SeenIn
<1>4. IsFiniteSet(Jobs)
  BY ObservationsAssumption
<1>5. Count3(SeenIn("attempts", C), Running, SpentJobs')
        = Count6(Running', SeenIn("completed", P), SeenIn("cancelled", P),
                 SeenIn("attempt_failures", P), SeenIn("lease_expirations", P),
                 SpentJobs)
  <2>1. \A j \in Jobs : In3(j, SeenIn("attempts", C), Running, SpentJobs')
          = In6(j, Running', SeenIn("completed", P), SeenIn("cancelled", P),
                SeenIn("attempt_failures", P), SeenIn("lease_expirations", P),
                SpentJobs)
    BY RunMoves
  <2> QED
    BY ONLY <1>3, <1>4, <2>1, CountBalance
<1>6. /\ Cardinality(Running) \in Nat /\ Cardinality(Running') \in Nat
      /\ Cardinality(SpentJobs) \in Nat /\ Cardinality(SpentJobs') \in Nat
      /\ \A e, W : Cardinality(SeenIn(e, W)) \in Nat
  BY <1>3, JobsCounted
<1>7. Summed(obs, "attempts", C) + Cardinality(SpentJobs) =
        Cardinality(Running)
          + Summed(obs, "completed", P) + Summed(obs, "cancelled", P)
          + Summed(obs, "attempt_failures", P)
          + Summed(obs, "lease_expirations", P)
  BY DEF AttemptsInv
<1>8. Summed(obs', "attempts", C) + Cardinality(SpentJobs') =
        Cardinality(Running')
          + Summed(obs', "completed", P) + Summed(obs', "cancelled", P)
          + Summed(obs', "attempt_failures", P)
          + Summed(obs', "lease_expirations", P)
  <2>1. /\ Summed(obs', "completed", P) = Summed(obs, "completed", P)
                                             + Cardinality(SeenIn("completed", P))
        /\ Summed(obs, "completed", P) \in Nat
    BY ONLY <1>2
  <2>2. /\ Summed(obs', "cancelled", P) = Summed(obs, "cancelled", P)
                                             + Cardinality(SeenIn("cancelled", P))
        /\ Summed(obs, "cancelled", P) \in Nat
    BY ONLY <1>2
  <2>3. /\ Summed(obs', "attempt_failures", P)
             = Summed(obs, "attempt_failures", P)
                 + Cardinality(SeenIn("attempt_failures", P))
        /\ Summed(obs, "attempt_failures", P) \in Nat
    BY ONLY <1>2
  <2>4. /\ Summed(obs', "lease_expirations", P)
             = Summed(obs, "lease_expirations", P)
                 + Cardinality(SeenIn("lease_expirations", P))
        /\ Summed(obs, "lease_expirations", P) \in Nat
    BY ONLY <1>2
  <2>5. Cardinality(SeenIn("attempts", C)) + Cardinality(Running)
          + Cardinality(SpentJobs')
        = Cardinality(Running') + Cardinality(SeenIn("completed", P))
            + Cardinality(SeenIn("cancelled", P))
            + (Cardinality(SeenIn("attempt_failures", P))
                 + Cardinality(SeenIn("lease_expirations", P))
                 + Cardinality(SpentJobs))
    BY ONLY <1>5 DEF Count3, Count6
  <2>. DEFINE a == Summed(obs, "attempts", C)
              c == Summed(obs, "completed", P)
              d == Summed(obs, "cancelled", P)
              f == Summed(obs, "attempt_failures", P)
              x == Summed(obs, "lease_expirations", P)
              da == Cardinality(SeenIn("attempts", C))
              dc == Cardinality(SeenIn("completed", P))
              dd == Cardinality(SeenIn("cancelled", P))
              df == Cardinality(SeenIn("attempt_failures", P))
              dx == Cardinality(SeenIn("lease_expirations", P))
              r  == Cardinality(Running)
              r2 == Cardinality(Running')
              s  == Cardinality(SpentJobs)
              s2 == Cardinality(SpentJobs')
  <2>6. /\ a \in Nat /\ c \in Nat /\ d \in Nat /\ f \in Nat /\ x \in Nat
        /\ da \in Nat /\ dc \in Nat /\ dd \in Nat /\ df \in Nat /\ dx \in Nat
        /\ r \in Nat /\ r2 \in Nat /\ s \in Nat /\ s2 \in Nat
    BY ONLY <1>1, <1>6, <2>1, <2>2, <2>3, <2>4
  <2>7. da + r + s2 = r2 + dc + dd + (df + dx + s)
    BY ONLY <2>5
  <2>8. a + s = r + c + d + f + x
    BY ONLY <1>7
  <2>. HIDE DEF a, c, d, f, x, da, dc, dd, df, dx, r, r2, s, s2
  <2>9. (a + da) + s2 = r2 + (c + dc) + (d + dd) + (f + df) + (x + dx)
    BY ONLY <2>6, <2>7, <2>8
  <2>10. /\ Summed(obs', "attempts", C) = a + da
         /\ Summed(obs', "completed", P) = c + dc
         /\ Summed(obs', "cancelled", P) = d + dd
         /\ Summed(obs', "attempt_failures", P) = f + df
         /\ Summed(obs', "lease_expirations", P) = x + dx
         /\ Cardinality(Running') = r2 /\ Cardinality(SpentJobs') = s2
    BY ONLY <1>1, <2>1, <2>2, <2>3, <2>4 DEF a, c, d, f, x, da, dc, dd, df, dx, r2, s2
  <2> QED
    BY ONLY <2>9, <2>10
<1> QED
  BY <1>8 DEF AttemptsInv

\* The bound of every worker ID is kept.
LEMMA CoveredStep ==
  ASSUME Accounted, Covered
  PROVE  Covered'
<1>1. SUFFICES ASSUME NEW w \in Pools
               PROVE  obs'[w]["attempts"] <= Attempted(w)'
  BY DEF Covered
<1>2. \A e \in Counters :
        /\ obs'[w][e] = obs[w][e] + Cardinality(Seen(w, e))
        /\ obs[w][e] \in Nat /\ Cardinality(Seen(w, e)) \in Nat
  <2>1. w \in Creditors /\ Counters \subseteq Events
    BY DEF Creditors, Counters, Events
  <2> QED
    BY <2>1, CounterGrows DEF Accounted
<1>3. /\ RunBy(w) \subseteq Jobs /\ RunBy(w)' \subseteq Jobs /\ {} \subseteq Jobs
      /\ \A e : Seen(w, e) \subseteq Jobs
  BY DEF RunBy, Seen
<1>4. IsFiniteSet(Jobs)
  BY ObservationsAssumption
<1>5. Count3(Seen(w, "attempts"), RunBy(w), {})
        <= Count6(RunBy(w)', Seen(w, "completed"), Seen(w, "cancelled"),
                  Seen(w, "attempt_failures"), Seen(w, "lease_expirations"), {})
  <2>1. \A j \in Jobs : In3(j, Seen(w, "attempts"), RunBy(w), {})
          <= In6(j, RunBy(w)', Seen(w, "completed"), Seen(w, "cancelled"),
                 Seen(w, "attempt_failures"), Seen(w, "lease_expirations"), {})
    BY RunByMoves
  <2> QED
    BY ONLY <1>3, <1>4, <2>1, CountBound
<1>6. /\ Cardinality(RunBy(w)) \in Nat /\ Cardinality(RunBy(w)') \in Nat
      /\ Cardinality({}) = 0
  BY <1>3, JobsCounted, FS_EmptySet
<1>7. /\ RunningUnder(w) = Cardinality(RunBy(w))
      /\ RunningUnder(w)' = Cardinality(RunBy(w)')
  BY DEF RunningUnder, RunBy
<1>8. obs[w]["attempts"] <=
        Cardinality(RunBy(w)) + obs[w]["completed"] + obs[w]["cancelled"]
          + obs[w]["attempt_failures"] + obs[w]["lease_expirations"]
  BY <1>7 DEF Covered, Attempted
<1>9. {"attempts", "completed", "cancelled", "attempt_failures",
       "lease_expirations"} \subseteq Counters
  BY DEF Counters
<1>10. obs'[w]["attempts"] <=
         Cardinality(RunBy(w)') + obs'[w]["completed"] + obs'[w]["cancelled"]
           + obs'[w]["attempt_failures"] + obs'[w]["lease_expirations"]
  BY ONLY <1>2, <1>5, <1>6, <1>8, <1>9 DEF Count3, Count6
<1> QED
  BY <1>7, <1>10 DEF Attempted

\* Whatever runs, runs under one worker ID.
LEMMA RunsAdd ==
  ASSUME TypeInv, AccountInv
  PROVE  Cardinality(Running) = SumFunctionOnSet([w \in Pools |-> RunningUnder(w)], Pools)
<1>. DEFINE p == [w \in Pools |-> RunBy(w)]
<1>1. IsFiniteSet(Pools) /\ IsFiniteSet(Jobs)
  BY ObservationsAssumption
<1>2. p \in [Pools -> SUBSET Jobs]
  BY DEF RunBy
<1>3. \A w \in Pools : p[w] = RunBy(w)
  OBVIOUS
<1>4. \A v, w \in Pools : \A j \in Jobs : j \in p[v] /\ j \in p[w] => v = w
  BY <1>3 DEF RunBy
<1>5. Running = {j \in Jobs : \E w \in Pools : j \in p[w]}
  <2>1. \A j \in Jobs : jobs[j].status = "running" => Owner(jobs[j]) \in Pools
    BY Owners
  <2> QED
    BY <1>3, <2>1 DEF Running, RunBy
<1>6. [w \in Pools |-> Cardinality(p[w])] = [w \in Pools |-> RunningUnder(w)]
  BY <1>3 DEF RunningUnder, RunBy
<1>. HIDE DEF p
<1>7. Cardinality(Running) = SumFunctionOnSet([w \in Pools |-> Cardinality(p[w])], Pools)
  BY ONLY <1>1, <1>2, <1>4, <1>5, CountParts
<1> QED
  BY ONLY <1>6, <1>7

\* The two invariants say what is promised.
LEMMA AttemptsPromise ==
  ASSUME TypeInv, AccountInv, Covered, AttemptsInv
  PROVE  AttemptsAccounted
<1>. DEFINE f1 == [w \in Pools |-> RunningUnder(w)]
            f2 == [w \in Pools |-> obs[w]["completed"]]
            f3 == [w \in Pools |-> obs[w]["cancelled"]]
            f4 == [w \in Pools |-> obs[w]["attempt_failures"]]
            f5 == [w \in Pools |-> obs[w]["lease_expirations"]]
            all == [w \in Pools |-> f1[w] + f2[w] + f3[w] + f4[w] + f5[w]]
<1>1. IsFiniteSet(Pools)
  BY ObservationsAssumption
<1>2. \A w \in Pools : \A e \in Events : obs[w][e] \in Nat
  BY DEF TypeInv, TrackInv, Creditors
<1>3. \A w \in Pools : RunningUnder(w) \in Nat
  BY JobsCounted DEF RunningUnder
<1>4. \A w \in Pools : /\ f1[w] \in Int /\ f2[w] \in Int /\ f3[w] \in Int
                       /\ f4[w] \in Int /\ f5[w] \in Int
  BY <1>2, <1>3 DEF Events
<1>5. all = [w \in Pools |-> Attempted(w)]
  BY DEF Attempted
<1>6. /\ Summed(obs, "completed", Pools) = SumFunctionOnSet(f2, Pools)
      /\ Summed(obs, "cancelled", Pools) = SumFunctionOnSet(f3, Pools)
      /\ Summed(obs, "attempt_failures", Pools) = SumFunctionOnSet(f4, Pools)
      /\ Summed(obs, "lease_expirations", Pools) = SumFunctionOnSet(f5, Pools)
      /\ Cardinality(Running) = SumFunctionOnSet(f1, Pools)
  BY RunsAdd DEF Summed
<1>7. SumFunction([w \in Pools |-> Attempted(w)]) = SumFunctionOnSet(all, Pools)
  BY <1>5 DEF SumFunction
<1>8. Total(obs, "attempts") = Summed(obs, "attempts", Creditors)
  BY DEF Total, SumFunction, Summed
<1>9. SumFunctionOnSet(all, Pools)
        = SumFunctionOnSet(f1, Pools) + SumFunctionOnSet(f2, Pools)
            + SumFunctionOnSet(f3, Pools) + SumFunctionOnSet(f4, Pools)
            + SumFunctionOnSet(f5, Pools)
  <2>. HIDE DEF f1, f2, f3, f4, f5
  <2> QED
    BY <1>1, <1>4, SumOfFive
<1>10. /\ Cardinality(SpentJobs) \in Nat
       /\ Cardinality(SpentJobs)
            = Cardinality({j \in Jobs : error[j] = "attempts_exhausted"})
  BY JobsCounted DEF SpentJobs, Spent
<1>11. Summed(obs, "attempts", Creditors) \in Nat
  <2>1. IsFiniteSet(Creditors)
    BY ObservationsAssumption, FS_AddElement DEF Creditors
  <2>2. \A w \in Creditors : [v \in Creditors |-> obs[v]["attempts"]][w] \in Nat
    BY DEF TypeInv, TrackInv, Events
  <2> QED
    BY ONLY <2>1, <2>2, SumNat DEF Summed
<1>. HIDE DEF f1, f2, f3, f4, f5, all
<1>12. Total(obs, "attempts") =
         SumFunction([w \in Pools |-> Attempted(w)])
           - Cardinality({j \in Jobs : error[j] = "attempts_exhausted"})
  <2>1. Summed(obs, "attempts", Creditors) + Cardinality(SpentJobs)
          = SumFunctionOnSet(all, Pools)
    BY <1>6, <1>9 DEF AttemptsInv
  <2>2. Summed(obs, "attempts", Creditors)
          = SumFunctionOnSet(all, Pools) - Cardinality(SpentJobs)
    BY ONLY <2>1, <1>10, <1>11
  <2> QED
    BY ONLY <2>2, <1>7, <1>8, <1>10
<1> QED
  BY <1>12 DEF AttemptsAccounted, Covered

\* No attempt is counted or running at first.
LEMMA AttemptsInit == Init => Covered /\ AttemptsInv
<1>. SUFFICES ASSUME Init PROVE Covered /\ AttemptsInv
  OBVIOUS
<1>1. \A e \in Counters : Summed(obs, e, Creditors) = 0 /\ Summed(obs, e, Pools) = 0
  BY NothingSummed DEF Creditors
<1>2. Running = {} /\ SpentJobs = {} /\ Cardinality({}) = 0
  BY FS_EmptySet DEF Running, SpentJobs, Spent, Init, AbsentRow
<1>3. AttemptsInv
  BY <1>1, <1>2 DEF AttemptsInv, Counters
<1>4. \A w \in Pools : RunningUnder(w) = 0
  <2>1. \A w \in Pools : {j \in Jobs : jobs[j].status = "running"
                                         /\ Owner(jobs[j]) = w} = {}
    BY DEF Init, AbsentRow
  <2> QED
    BY <1>2, <2>1 DEF RunningUnder
<1>5. \A w \in Pools : \A e \in Events : obs[w][e] = 0
  BY DEF Init, NoObservations, Creditors
<1>6. Covered
  BY <1>4, <1>5 DEF Covered, Attempted, Events
<1> QED
  BY <1>3, <1>6

\* Every attempt that a worker ID began is running or ended in one of its
\* counters, whoever ended it, and an exhausted attempt, alone, in two.
THEOREM AttemptsAreAccounted == Spec => []AttemptsAccounted
<1>1. TypeInv /\ AccountInv /\ Covered /\ AttemptsInv => AttemptsAccounted
  BY AttemptsPromise
<1>2. TypeInv /\ AccountInv /\ Covered /\ AttemptsInv /\ [Next]_vars
        => AccountInv' /\ Covered' /\ AttemptsInv'
  BY AccountedStep, CoveredStep, AttemptsStep DEF Accounted
<1> QED
  BY <1>1, <1>2, AccountInit, AttemptsInit, TypeInvInit, TypeInvStep, PTL DEF Spec

=============================================================================
