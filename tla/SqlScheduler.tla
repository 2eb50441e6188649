----------------------------- MODULE SqlScheduler -----------------------------
(***************************************************************************)
(* The service with QUEUE_BACKEND=postgres: slots poll Claim, and the job  *)
(* table is the queue.  With WORKER_POLICIES a claim runs under the        *)
(* scheduler lock and goes to the best tier that is free and has asked for *)
(* work; without them (legacy) the preferred workers race, and the fallback*)
(* waits while one of them is online.                                      *)
(*                                                                         *)
(* As in BrokerDelivery, a slot is one RemoteWorker (or the local Worker)  *)
(* named by its instance UUID, and a request stays in rpc until a handler  *)
(* runs it, whether or not its caller still waits.  Statements that skip   *)
(* a locked row do what they would do after the transaction that holds it. *)
(***************************************************************************)
EXTENDS JobTable, FiniteSets

CONSTANTS
  Jobs,            \* numbered in the order of created_at
  RetainedJobs,    \* jobs submitted with retain_until_ack
  Pools,           \* worker IDs
  PoolOf,          \* the worker ID each instance runs under
  Remote,          \* instances that claim through the worker API
  Priority,        \* WORKER_POLICIES: lower numbers win
  MaxConcurrency,  \* WORKER_POLICIES: 0 also stands for an absent worker ID
  Preferred,       \* PREFERRED_WORKER_IDS
  Fallback,        \* instances with WORKER_FALLBACK=1
  MayHang,         \* instances whose claim loop may get stuck
  NoJob,
  MaxFaults,       \* bound on the faults of one behaviour
  MaxDown          \* bound on slots that are dead, stuck or drained at once

ASSUME SchedulerAssumption ==
  /\ Jobs \subseteq Nat /\ IsFiniteSet(Jobs)
  /\ RetainedJobs \subseteq Jobs
  /\ PoolOf \in [Instances -> Pools]
  /\ Remote \subseteq Instances
  /\ Priority \in [Pools -> Nat] /\ MaxConcurrency \in [Pools -> Nat]
  /\ Preferred \subseteq Pools /\ Fallback \subseteq Instances
  /\ MayHang \subseteq Instances
  /\ NoJob \notin Jobs
  /\ MaxFaults \in Nat /\ MaxDown \in Nat

VARIABLES
  jobs,    \* transcription_jobs
  slot,    \* the claim loop of each instance
  avail,   \* worker_availability: the row of each instance and its ready_until
  demand,  \* worker_availability: rows whose demand_until is in the future
  rpc,     \* requests no handler has run yet
  faults,  \* faults so far
  legacy   \* WORKER_POLICIES is empty, for as long as the coordinator runs

vars == <<jobs, slot, avail, demand, rpc, faults>>

\* "stuck": the loop hangs while its reporter goes on; "drained": the loop
\* waits for SIGUSR2 and the reporter is silent.
SlotStates == {"idle", "claim", "work", "complete", "failRetry", "failFinal",
               "stuck", "drained", "dead"}

\* serial tells the requests of a slot apart that it has given up.
Slot == [pc : SlotStates, job : Jobs \cup {NoJob}, token : Tokens,
         serial : 0 .. MaxFaults]

AvailPhases == {"absent", "ready", "past"}

\* "missing": Claim has started the attempt and found no input file.
RpcKinds == {"claim", "complete", "failRetry", "failFinal", "missing"}

Request == [op : RpcKinds, slot : Instances, job : Jobs \cup {NoJob},
            token : Tokens, serial : 0 .. MaxFaults]

IdleSlot == [pc |-> "idle", job |-> NoJob, token |-> 0, serial |-> 0]

Init ==
  /\ jobs = [j \in Jobs |-> AbsentRow]
  /\ slot = [s \in Instances |-> IdleSlot]
  /\ avail = [s \in Instances |-> "absent"]
  /\ demand = {}
  /\ rpc = {}
  /\ faults = 0
  /\ legacy \in BOOLEAN

-----------------------------------------------------------------------------
(* Helpers.                                                                *)

Fault == faults < MaxFaults /\ faults' = faults + 1

Down == {s \in Instances : slot[s].pc \in {"stuck", "drained", "dead"}}

\* Only the row of job j changes.
Change(j, row) == /\ jobs' = [jobs EXCEPT ![j] = row]
                  /\ UNCHANGED <<slot, avail, demand, rpc, faults>>

RequestOf(s, st) == [op |-> st.pc, slot |-> s, job |-> st.job,
                     token |-> st.token, serial |-> st.serial]

Waiting(r) == RequestOf(r.slot, slot[r.slot]) = r

Idle(s) == [IdleSlot EXCEPT !.serial = slot[s].serial]

\* The loop goes on to its next claim, whatever the reply says.
Reply(r) == slot' = IF Waiting(r) THEN [slot EXCEPT ![r.slot] = Idle(r.slot)]
                    ELSE slot

Active(p) == {j \in Jobs : Live(jobs[j]) /\ PoolOf[jobs[j].instance] = p}

\* The leases that NOW() may see as over.
Views == LET In(phase) == {j \in Jobs : jobs[j].lease = phase} IN
         {In("expired") \cup some : some \in SUBSET In("lapsed")}

\* reap.sql
Reap(over) == [j \in Jobs |-> IF ReapWhere(jobs[j], j \notin over)
                                THEN EndFailedSet(jobs[j]) ELSE jobs[j]]

-----------------------------------------------------------------------------
(* The public API and the cleanup worker.                                  *)

CreateJob(j) == /\ jobs[j].status = "absent"
                /\ \A i \in Jobs : i < j => jobs[i].status # "absent"
                /\ Change(j, CreateSet)

MarkDownloading(j) == /\ jobs[j].status = "accepted"
                      /\ Change(j, MarkDownloadingSet(jobs[j]))

MarkQueued(j) == /\ jobs[j].status = "downloading"
                 /\ Change(j, MarkQueuedSet(jobs[j]))

FailUpload(j) == /\ FailWhere(jobs[j], 0, FALSE)
                 /\ Change(j, FailSet(jobs[j], FALSE))

CancelJob(j) == CancelWhere(jobs[j]) /\ Change(j, EndFailedSet(jobs[j]))

AcknowledgeJob(j) == AckWhere(jobs[j]) /\ Change(j, AckSet(jobs[j]))

CleanupExpiredJobs(over, gone) ==
  /\ \A j \in gone : CleanupWhere(jobs[j], j \in RetainedJobs)
  /\ gone # {} \/ Reap(over) # jobs
  /\ jobs' = [j \in Jobs |-> IF j \in gone THEN DeletedRow ELSE Reap(over)[j]]
  /\ UNCHANGED <<slot, avail, demand, rpc, faults>>

-----------------------------------------------------------------------------
(* Availability.                                                           *)

MutantWritten(s, old, phase) ==   \* prolongs demand with readiness
  /\ \A t \in old : avail[t] = "past"
  /\ avail' = [t \in Instances |-> IF t = s THEN phase
                                   ELSE IF t \in old THEN "absent"
                                   ELSE avail[t]]
  /\ demand' = IF phase = "ready" THEN (demand \ old) \cup {s} ELSE demand \ old

\* report_availability first forgets the rows that have been past for a day
\* (old).  The row of s is then inserted, with one demand window if it is
\* ready, or updated, which leaves its demand alone.
Written(s, old, phase) ==
  /\ \A t \in old : avail[t] = "past"
  /\ avail' = [t \in Instances |-> IF t = s THEN phase
                                   ELSE IF t \in old THEN "absent"
                                   ELSE avail[t]]
  /\ demand' = IF phase = "ready" /\ (avail[s] = "absent" \/ s \in old)
                 THEN (demand \ old) \cup {s} ELSE demand \ old

ReportAvailability(s, old) ==
  /\ slot[s].pc \notin {"dead", "drained"}
  /\ Written(s, old, "ready")
  /\ UNCHANGED <<jobs, slot, rpc, faults>>

\* ready_until passes: by a fault if the slot still reports.
AvailabilityExpires(s) ==
  /\ avail[s] = "ready"
  /\ IF slot[s].pc \in {"dead", "drained"} THEN UNCHANGED faults ELSE Fault
  /\ avail' = [avail EXCEPT ![s] = "past"]
  /\ UNCHANGED <<jobs, slot, demand, rpc>>

DemandExpires(s) ==
  /\ s \in demand
  /\ demand' = demand \ {s}
  /\ UNCHANGED <<jobs, slot, avail, rpc, faults>>

-----------------------------------------------------------------------------
(* The claim loop of a slot.                                               *)

Send(s, st) == /\ slot' = [slot EXCEPT ![s] = st]
               /\ rpc' = rpc \cup {RequestOf(s, st)}
               /\ UNCHANGED <<jobs, avail, demand>>

Claim(s) == /\ slot[s].pc = "idle"
            /\ Send(s, [slot[s] EXCEPT !.pc = "claim"])
            /\ UNCHANGED faults

Finish(s, op) == /\ slot[s].pc = "work"
                 /\ Send(s, [slot[s] EXCEPT !.pc = op])
                 /\ UNCHANGED faults

Leave(s, st) == /\ slot' = [slot EXCEPT ![s] = st]
                /\ UNCHANGED <<jobs, rpc>>

availVars == <<avail, demand>>

\* The deadline passes or the connection breaks while a request is out.
RpcTimeout(s) ==
  /\ slot[s].pc \in {"claim", "complete", "failRetry", "failFinal"}
  /\ Fault
  /\ Leave(s, [Idle(s) EXCEPT !.serial = @ + 1])
  /\ UNCHANGED availVars

\* The heartbeat is refused, or the deadline or an error stops the task.
StopWork(s) ==
  /\ slot[s].pc = "work"
  /\ \/ ~HeartbeatWhere(jobs[slot[s].job], slot[s].token) /\ UNCHANGED faults
     \/ Fault
  /\ Leave(s, Idle(s))
  /\ UNCHANGED availVars

\* Heartbeat while the lease is owned: it is renewed, and nothing else moves.
Heartbeat(s) ==
  /\ slot[s].pc = "work"
  /\ HeartbeatWhere(jobs[slot[s].job], slot[s].token)
  /\ Change(slot[s].job, [jobs[slot[s].job] EXCEPT !.lease = "live"])

Fall(s, pc) == /\ Cardinality(Down) < MaxDown
               /\ Fault
               /\ Leave(s, [Idle(s) EXCEPT !.pc = pc])

Crash(s) == /\ slot[s].pc \notin {"stuck", "drained", "dead"}
            /\ Fall(s, "dead")
            /\ UNCHANGED availVars

Hang(s) == /\ slot[s].pc = "idle" /\ s \in MayHang
           /\ Fall(s, "stuck")
           /\ UNCHANGED availVars

\* SIGUSR1.  A withdrawal that fails is not repeated.
Drain(s) == /\ slot[s].pc = "idle" /\ s \in Remote
            /\ Fall(s, "drained")
            /\ Written(s, {}, "past") \/ UNCHANGED availVars

\* SIGUSR2.  The loop waits for the reporter if its own report fails.
Resume(s) == /\ slot[s].pc = "drained"
             /\ Leave(s, Idle(s))
             /\ Written(s, {}, "ready") \/ UNCHANGED availVars
             /\ UNCHANGED faults

-----------------------------------------------------------------------------
(* The coordinator's handlers.                                             *)

Run(r, op) == r \in rpc /\ r.op = op

Handled(r) == rpc' = rpc \ {r}

\* request_work.sql: a claim of a ready slot opens its demand window.
Asking(s) == IF avail[s] = "ready" THEN demand \cup {s} ELSE demand

MutantEligibleFor(s) ==   \* does not count the lease of a slot that fell silent
  {t \in Instances :
     LET p      == PoolOf[t]
         active == {j \in Active(p) : avail[jobs[j].instance] = "ready"} IN
       /\ avail[t] = "ready" /\ t \in Asking(s)
       /\ \A j \in active : jobs[j].instance # t
       /\ Cardinality(active) < MaxConcurrency[p]}

\* eligible of select_worker.sql, with the demand that s has just renewed.
EligibleFor(s) ==
  {t \in Instances :
     LET p == PoolOf[t] IN
       /\ avail[t] = "ready" /\ t \in Asking(s)
       /\ \A j \in Active(p) : jobs[j].instance # t
       /\ Cardinality(Active(p)) < MaxConcurrency[p]}

Selected(s) == /\ s \in EligibleFor(s)
               /\ \A t \in EligibleFor(s) :
                    Priority[PoolOf[s]] <= Priority[PoolOf[t]]

MutantMayClaim(s) ==   \* counts a registration that has run out
  /\ s \in Fallback =>
       \A t \in Instances : PoolOf[t] \in Preferred => avail[t] = "absent"
  /\ PoolOf[s] \in Preferred => avail[s] = "ready"

\* The conditions of claim.sql on the workers.
MayClaim(s) ==
  /\ s \in Fallback =>
       \A t \in Instances : PoolOf[t] \in Preferred => avail[t] # "ready"
  /\ PoolOf[s] \in Preferred => avail[s] = "ready"

MutantClaimable(over) ==   \* does not count attempts
  {j \in Jobs : /\ Pending(jobs[j])
                /\ jobs[j].status = "running" => j \in over}

\* Queued, or its lease seen as over, with attempts left.
Claimable(over) ==
  {j \in Jobs : /\ Pending(jobs[j])
                /\ jobs[j].attempts < MaxAttempts
                /\ jobs[j].status = "running" => j \in over}

\* The jobs slot s may be given: claim_slot.sql asks clock_timestamp(),
\* claim.sql NOW().
Candidates(s, over) ==
  IF legacy THEN IF MayClaim(s) THEN Claimable(over) ELSE {}
  ELSE IF Selected(s) THEN Claimable({j \in Jobs : ~Live(jobs[j])}) ELSE {}

\* reap and request_work happen in every claim.
Prepare(r) == /\ demand' = IF legacy THEN demand ELSE Asking(r.slot)
              /\ UNCHANGED avail

ClaimNothing(r, over) ==
  /\ Run(r, "claim")
  /\ Candidates(r.slot, over) = {}
  /\ jobs' = Reap(over)
  /\ Prepare(r) /\ Reply(r) /\ Handled(r)
  /\ UNCHANGED faults

\* Job j, the oldest candidate, is leased to the slot.
Grant(r, over, j) ==
  /\ Run(r, "claim")
  /\ j \in Candidates(r.slot, over)
  /\ \A i \in Candidates(r.slot, over) : j <= i
  /\ jobs' = [Reap(over) EXCEPT ![j] = StartSet(@, r.slot, 0)]
  /\ Prepare(r)

ClaimStarts(r, over, j) ==
  /\ Grant(r, over, j)
  /\ slot' = IF Waiting(r)
               THEN [slot EXCEPT ![r.slot] = [@ EXCEPT !.pc = "work", !.job = j,
                                       !.token = jobs[j].attempts + 1]]
               ELSE slot
  /\ Handled(r)
  /\ UNCHANGED faults

\* _claim_response finds no input file, which only remote claims look for.
ClaimFindsNoInput(r, over, j) ==
  /\ Grant(r, over, j)
  /\ r.slot \in Remote
  /\ Fault
  /\ rpc' = (rpc \ {r}) \cup
              {[r EXCEPT !.op = "missing", !.job = j,
                         !.token = jobs[j].attempts + 1]}
  /\ UNCHANGED slot

\* fail_job, then the call is aborted.
FailMissingInput(r) ==
  /\ Run(r, "missing")
  /\ \E seen \in SeenLive(jobs[r.job]) :
       jobs' = IF FailWhere(jobs[r.job], r.token, seen)
                 THEN [jobs EXCEPT ![r.job] = FailSet(@, FALSE)] ELSE jobs
  /\ Reply([r EXCEPT !.op = "claim", !.job = NoJob, !.token = 0])
  /\ Handled(r)
  /\ UNCHANGED <<avail, demand, faults>>

Complete(r) ==
  /\ Run(r, "complete")
  /\ \E seen \in SeenLive(jobs[r.job]) :
       jobs' = IF CompleteWhere(jobs[r.job], r.token, seen)
                 THEN [jobs EXCEPT ![r.job] = CompleteSet(@)] ELSE jobs
  /\ Reply(r) /\ Handled(r)
  /\ UNCHANGED <<avail, demand, faults>>

Fail(r) ==
  /\ r \in rpc /\ r.op \in {"failRetry", "failFinal"}
  /\ \E seen \in SeenLive(jobs[r.job]) :
       jobs' = IF FailWhere(jobs[r.job], r.token, seen)
                 THEN [jobs EXCEPT ![r.job] = FailSet(@, r.op = "failRetry")]
                 ELSE jobs
  /\ Reply(r) /\ Handled(r)
  /\ UNCHANGED <<avail, demand, faults>>

Handle(r) ==
  \/ \E over \in Views :
       \/ ClaimNothing(r, over)
       \/ \E j \in Jobs : ClaimStarts(r, over, j) \/ ClaimFindsNoInput(r, over, j)
  \/ FailMissingInput(r) \/ Complete(r) \/ Fail(r)

-----------------------------------------------------------------------------
(* Time.                                                                   *)

LeaseLapses(j) == /\ jobs[j].lease = "live"
                  /\ Change(j, [jobs[j] EXCEPT !.lease = "lapsed"])

LeaseExpires(j) == /\ jobs[j].lease = "lapsed"
                   /\ Change(j, [jobs[j] EXCEPT !.lease = "expired"])

-----------------------------------------------------------------------------

ClientStep ==
  \/ \E j \in Jobs : \/ CreateJob(j) \/ MarkDownloading(j) \/ MarkQueued(j)
                     \/ FailUpload(j) \/ CancelJob(j) \/ AcknowledgeJob(j)
  \/ \E over \in Views, gone \in SUBSET Jobs : CleanupExpiredJobs(over, gone)

SlotStep(s) ==
  \/ \E old \in SUBSET Instances : ReportAvailability(s, old)
  \/ AvailabilityExpires(s) \/ DemandExpires(s)
  \/ Claim(s) \/ \E op \in {"complete", "failRetry", "failFinal"} : Finish(s, op)
  \/ RpcTimeout(s) \/ StopWork(s) \/ Heartbeat(s)
  \/ Crash(s) \/ Hang(s) \/ Drain(s) \/ Resume(s)

Next ==
  /\ \/ ClientStep
     \/ \E s \in Instances : SlotStep(s)
     \/ \E r \in rpc : Handle(r)
     \/ \E j \in Jobs : LeaseLapses(j) \/ LeaseExpires(j)
  /\ UNCHANGED legacy

Spec == Init /\ [][Next]_<<vars, legacy>>

\* The reporter and the claim loop of a slot that is up keep running, calls
\* whose caller waits are run, inference ends, and the clock advances.  The
\* demand of a slot that asks again and again need not run out.
SlotFairness(s) ==
  /\ WF_vars(avail[s] # "ready" /\ ReportAvailability(s, {}))
  /\ WF_vars(slot[s].pc \in {"dead", "drained"} /\ AvailabilityExpires(s))
  /\ WF_vars(s \in Down /\ DemandExpires(s))
  /\ WF_vars(Claim(s))
  /\ WF_vars(Finish(s, "complete") \/ Finish(s, "failRetry")
               \/ Finish(s, "failFinal") \/ StopWork(s))
  /\ WF_vars(\E r \in rpc : /\ r.slot = s
                            /\ Waiting(r) \/ r.op = "missing"
                            /\ Handle(r))

Fairness ==
  /\ \A s \in Instances : SlotFairness(s)
  /\ \A j \in Jobs : WF_vars(LeaseLapses(j)) /\ WF_vars(LeaseExpires(j))

FairSpec == Spec /\ Fairness

-----------------------------------------------------------------------------
(* Properties.                                                             *)

\* Every variable stays in its type: attempts never exceed JOB_MAX_ATTEMPTS.
TypeOK ==
  /\ jobs \in [Jobs -> Row]
  /\ slot \in [Instances -> Slot]
  /\ avail \in [Instances -> AvailPhases]
  /\ demand \subseteq Instances
  /\ rpc \subseteq Request
  /\ faults \in 0 .. MaxFaults

\* docs/worker-priority.md: with policies the limit applies across every slot of a worker
\* ID, "including slots whose availability report has expired but whose job
\* lease is still valid", and a slot never leases another job while it
\* processes one - also when the reply of a claim was lost, a heartbeat is late
\* or a slot has gone on without its lease.
ExecutionLimits ==
  ~legacy =>
    /\ \A p \in Pools : Cardinality(Active(p)) <= MaxConcurrency[p]
    /\ \A i, j \in Jobs :
         Live(jobs[i]) /\ Live(jobs[j]) /\ jobs[i].instance = jobs[j].instance
           => i = j

\* A queued job is taken and settled in the end, although a better worker was
\* offered it and died, hangs with its reporter running, or was drained with
\* its withdrawal lost.  Only without policies may a preferred worker that
\* reports and does not claim hold it up (docs/worker-priority.md:94-97).
JobsSettle ==
  \A j \in Jobs :
    Pending(jobs[j]) ~>
      \/ ~Pending(jobs[j])
      \/ legacy /\ \E s \in Instances :
                     PoolOf[s] \in Preferred /\ slot[s].pc = "stuck"

\* Request r speaks for an attempt that its job is not running (any more).
Superseded(r) ==
  /\ r.op # "claim"
  /\ ~ /\ jobs[r.job].status = "running"
       /\ jobs[r.job].attempts = r.token

\* A job leaves "running" for "queued" or "done" by a verdict under the token
\* of its last attempt, and what is stored is that attempt's result; slots that
\* lost their lease, and calls that were given up, settle nothing, nor does
\* their final failure end a later attempt.
OnlyNewestAttemptSettles ==
  [][/\ \A j \in Jobs :
          jobs[j].status = "running" /\ jobs'[j].status \in {"queued", "done"}
            => /\ \E r \in rpc \ rpc' :
                    r.job = j /\ r.token = jobs[j].attempts
               /\ jobs'[j].status = "done" => jobs'[j].result = jobs[j].attempts
     /\ \A r \in rpc \ rpc' :
          Superseded(r) => jobs'[r.job] = jobs[r.job]
    ]_vars

Lifecycle == INSTANCE JobLifecycle
               WITH job <- [j \in Jobs |-> PromiseOf(jobs[j])]

\* The SQL backend keeps the same promise to clients as the broker backend.
KeepsPromise == Lifecycle!Spec

=============================================================================
