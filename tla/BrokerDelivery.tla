---------------------------- MODULE BrokerDelivery ----------------------------
(***************************************************************************)
(* The service with QUEUE_BACKEND=rabbitmq: the coordinator's job table    *)
(* and outbox, the publisher thread, the broker's ready and retry queues,  *)
(* and the execution slots that consume them.                              *)
(*                                                                         *)
(* A slot is one RemoteWorker of one process, named by its instance UUID;  *)
(* a process that dies never comes back under the same UUID.  Requests of  *)
(* slots to the coordinator stand in rpc until a handler thread runs them: *)
(* a client that stops waiting (deadline, broken connection) leaves its    *)
(* request there, so a handler may run long after its caller has gone.     *)
(* A reply that is lost is a caller that stopped waiting before it.        *)
(***************************************************************************)
EXTENDS JobTable, FiniteSets

CONSTANTS
  Jobs,
  RetainedJobs,     \* jobs submitted with retain_until_ack
  Pools,            \* worker IDs
  PoolOf,           \* the worker ID each instance runs under
  MaxConcurrency,   \* WORKER_POLICIES: the execution limit of each worker ID
  DeliveryIds,      \* delivery UUIDs
  NoMessage,
  MaxFaults,        \* bound on the faults of one behaviour
  MaxCrashes,       \* bound on the instances that die
  MaxReconciles,    \* bound on the runs of reconcile.py
  MaxBrokerLosses   \* bound on losses of the broker's storage

ASSUME BrokerAssumption ==
  /\ RetainedJobs \subseteq Jobs
  /\ PoolOf \in [Instances -> Pools]
  /\ MaxConcurrency \in [Pools -> Nat]
  /\ IsFiniteSet(DeliveryIds) /\ DeliveryIds \subseteq Nat \ {0}
  /\ MaxFaults \in Nat /\ MaxCrashes \in Nat
  /\ MaxReconciles \in Nat /\ MaxBrokerLosses \in Nat

\* One generation for the queued transition, one per retryable failure of a
\* job that still has attempts, one per reconciliation.
MaxGeneration == MaxAttempts + MaxReconciles

Messages == [job : Jobs, gen : 1 .. MaxGeneration]

ASSUME NoMessageAssumption == NoMessage \notin Messages

VARIABLES
  jobs,        \* transcription_jobs
  outbox,      \* unpublished rows of transcription_outbox
  publishing,  \* the outbox row the publisher's transaction has locked
  ready,       \* copies of each message in the jobs queue
  retry,       \* copies of each message in the retry queue
  slot,        \* the consumer loop of each instance
  willing,     \* slots whose _available and _broker_admitted are set, no drain
  avail,       \* worker_availability, one row per instance
  rpc,         \* requests no handler has run yet
  faults,      \* faults so far
  losses,      \* broker storage losses so far
  reconciles,  \* runs of reconcile.py so far
  storage      \* history: "intact", "lost", or "reconciled" after a loss

vars == <<jobs, outbox, publishing, ready, retry, slot, willing, avail, rpc,
          faults, losses, reconciles, storage>>

brokerVars == <<ready, retry>>
boundVars  == <<losses, reconciles, storage>>

\* "off": no subscription; "idle": subscribed, nothing delivered; "got": a
\* delivery not looked at yet; "begin", "complete", "failRetry", "failFinal":
\* waiting for that RPC; "work": process() is running; "busy": a delayed copy
\* is to be published; "ack": the delivery is to be acknowledged; "close":
\* the loop was left with the delivery unsettled.
SlotStates == {"off", "idle", "got", "begin", "work", "complete", "failRetry",
               "failFinal", "busy", "ack", "close", "dead"}

Slot == [pc : SlotStates, msg : Messages \cup {NoMessage}, held : BOOLEAN,
         token : Tokens, did : Nat, try : 0 .. 2]

\* "ready": ready_until in the future; "consumer": consumer_until as well;
\* "lapsed": both have passed, but a report whose NOW() precedes that may
\* still be waiting to commit.
AvailPhases == {"none", "ready", "consumer", "lapsed"}

\* "missing": BeginAttempt has granted the attempt and found no input file.
RpcKinds == {"begin", "complete", "failRetry", "failFinal", "missing"}

Request == [op : RpcKinds, slot : Instances, job : Jobs, gen : Nat,
            did : Nat, try : 0 .. 2, token : Tokens]

OffSlot == [pc |-> "off", msg |-> NoMessage, held |-> FALSE, token |-> 0,
            did |-> 0, try |-> 0]

Init ==
  /\ jobs = [j \in Jobs |-> AbsentRow]
  /\ outbox = {}
  /\ publishing = NoMessage
  /\ ready = [m \in Messages |-> 0]
  /\ retry = [m \in Messages |-> 0]
  /\ slot = [s \in Instances |-> OffSlot]
  /\ willing = {}
  /\ avail = [s \in Instances |-> "none"]
  /\ rpc = {}
  /\ faults = 0
  /\ losses = 0
  /\ reconciles = 0
  /\ storage = "intact"

-----------------------------------------------------------------------------
(* Helpers.                                                                *)

Message(j, gen) == [job |-> j, gen |-> gen]

\* The message whose delivery BeginAttempt would accept for job j.
Current(j) == Message(j, jobs[j].dispatch)

Added(queue, m) == [queue EXCEPT ![m] = @ + 1]

Removed(queue, m) == [queue EXCEPT ![m] = @ - 1]

\* The broker puts the unacknowledged delivery of a closed channel back.
ReturnDelivery(s) ==
  ready' = IF slot[s].held THEN Added(ready, slot[s].msg) ELSE ready

\* A fault, or another disturbance from outside: at most MaxFaults in a
\* behaviour.
Fault == faults < MaxFaults /\ faults' = faults + 1

Goto(s, pc) == slot' = [slot EXCEPT ![s].pc = pc]

\* The request that slot s has outstanding in state st.
RequestOf(s, st) ==
  [op |-> st.pc, slot |-> s, job |-> st.msg.job, gen |-> st.msg.gen,
   did |-> st.did, try |-> st.try, token |-> st.token]

\* The caller of request r is still waiting for its reply.
Waiting(r) == /\ slot[r.slot].msg # NoMessage
              /\ RequestOf(r.slot, slot[r.slot]) = r

Reply(r, pc) == IF Waiting(r) THEN Goto(r.slot, pc) ELSE UNCHANGED slot

\* uuid4(): an identity nothing in the system still mentions.
UnusedDeliveryIds ==
  {d \in DeliveryIds : /\ \A j \in Jobs : jobs[j].delivery # d
                       /\ \A s \in Instances : slot[s].did # d
                       /\ \A r \in rpc : r.did # d}

\* Jobs whose execution counts against worker ID p (the active of
\* broker_capacity.sql).
Active(p) == {j \in Jobs : Live(jobs[j]) /\ PoolOf[jobs[j].instance] = p}

-----------------------------------------------------------------------------
(* The public API.  The transfer of the audio is abstracted to its ends.   *)

CreateJob(j) ==
  /\ jobs[j].status = "absent"
  /\ jobs' = [jobs EXCEPT ![j] = CreateSet]
  /\ UNCHANGED <<outbox, publishing, brokerVars, slot, willing, avail, rpc,
                 faults, boundVars>>

MarkDownloading(j) ==
  /\ jobs[j].status = "accepted"
  /\ jobs' = [jobs EXCEPT ![j] = MarkDownloadingSet(@)]
  /\ UNCHANGED <<outbox, publishing, brokerVars, slot, willing, avail, rpc,
                 faults, boundVars>>

MarkQueued(j) ==
  /\ jobs[j].status = "downloading"
  /\ jobs' = [jobs EXCEPT ![j] = DispatchSet(MarkQueuedSet(@))]
  /\ outbox' = outbox \cup {Message(j, jobs[j].dispatch + 1)}
  /\ UNCHANGED <<publishing, brokerVars, slot, willing, avail, rpc, faults,
                 boundVars>>

\* An upload that cannot be resumed: fail_job with the empty token.
FailUpload(j) ==
  /\ FailWhere(jobs[j], 0, FALSE)
  /\ jobs' = [jobs EXCEPT ![j] = FailSet(@, FALSE)]
  /\ UNCHANGED <<outbox, publishing, brokerVars, slot, willing, avail, rpc,
                 faults, boundVars>>

CancelJob(j) ==
  /\ CancelWhere(jobs[j])
  /\ jobs' = [jobs EXCEPT ![j] = EndFailedSet(@)]
  /\ UNCHANGED <<outbox, publishing, brokerVars, slot, willing, avail, rpc,
                 faults, boundVars>>

AcknowledgeJob(j) ==
  /\ AckWhere(jobs[j])
  /\ jobs' = [jobs EXCEPT ![j] = AckSet(@)]
  /\ UNCHANGED <<outbox, publishing, brokerVars, slot, willing, avail, rpc,
                 faults, boundVars>>

\* cleanup_expired_jobs: reap, then delete, in one transaction.  reaped are
\* the rows reap.sql matches, gone the finished rows that are old enough; the
\* delete cascades to the outbox and waits for a row the publisher locked.
CleanupExpiredJobs(reaped, gone) ==
  /\ reaped \cup gone # {}
  /\ \A j \in reaped : \E seen \in SeenLive(jobs[j]) : ReapWhere(jobs[j], seen)
  /\ \A j \in Jobs \ reaped :
       \E seen \in SeenLive(jobs[j]) : ~ReapWhere(jobs[j], seen)
  /\ \A j \in gone : CleanupWhere(jobs[j], j \in RetainedJobs)
  /\ publishing # NoMessage => publishing.job \notin gone
  /\ jobs' = [j \in Jobs |-> IF j \in gone THEN DeletedRow
                             ELSE IF j \in reaped THEN EndFailedSet(jobs[j])
                             ELSE jobs[j]]
  /\ outbox' = {m \in outbox : m.job \notin gone}
  /\ UNCHANGED <<publishing, brokerVars, slot, willing, avail, rpc, faults,
                 boundVars>>

-----------------------------------------------------------------------------
(* The publisher thread: publish_outbox and JobStore.publish_next.         *)

\* The row is locked and the broker takes the message.
PublishSend(m) ==
  /\ publishing = NoMessage
  /\ m \in outbox
  /\ publishing' = m
  /\ ready' = Added(ready, m)
  /\ UNCHANGED <<jobs, outbox, retry, slot, willing, avail, rpc, faults,
                 boundVars>>

\* The confirm has arrived and published_at commits.
PublishCommit ==
  /\ publishing # NoMessage
  /\ outbox' = outbox \ {publishing}
  /\ publishing' = NoMessage
  /\ UNCHANGED <<jobs, brokerVars, slot, willing, avail, rpc, faults,
                 boundVars>>

\* No confirm, or no commit: the row stays unpublished.
PublishAbort ==
  /\ publishing # NoMessage
  /\ Fault
  /\ publishing' = NoMessage
  /\ UNCHANGED <<jobs, outbox, brokerVars, slot, willing, avail, rpc,
                 boundVars>>

-----------------------------------------------------------------------------
(* The broker.                                                             *)

\* The message TTL of the retry queue dead-letters it to the jobs queue.
RetryExpires(m) ==
  /\ retry[m] > 0
  /\ retry' = Removed(retry, m)
  /\ ready' = Added(ready, m)
  /\ UNCHANGED <<jobs, outbox, publishing, slot, willing, avail, rpc, faults,
                 boundVars>>

\* Prefetch one: a subscribed slot is given a message when it has none.
Deliver(s, m) ==
  /\ slot[s].pc = "idle"
  /\ ready[m] > 0
  /\ ready' = Removed(ready, m)
  /\ slot' = [slot EXCEPT ![s] = [OffSlot EXCEPT !.pc = "got", !.msg = m,
                                                 !.held = TRUE]]
  /\ UNCHANGED <<jobs, outbox, publishing, retry, willing, avail, rpc, faults,
                 boundVars>>

\* The AMQP connection of a slot breaks.  A delivery it is working on goes
\* back to the queue while the work goes on.
LoseConnection(s) ==
  /\ slot[s].pc \notin {"off", "dead"}
  /\ slot[s].pc # "idle" => slot[s].held
  /\ Fault
  /\ ReturnDelivery(s)
  /\ slot' = [slot EXCEPT ![s] = IF @.pc \in {"idle", "got"} THEN OffSlot
                                 ELSE [@ EXCEPT !.held = FALSE]]
  /\ UNCHANGED <<jobs, outbox, publishing, retry, willing, avail, rpc,
                 boundVars>>

\* The broker's volume is lost or restored empty; every connection drops.
LoseBrokerStorage ==
  /\ losses < MaxBrokerLosses
  /\ losses' = losses + 1
  /\ storage' = "lost"
  /\ ready' = [m \in Messages |-> 0]
  /\ retry' = [m \in Messages |-> 0]
  /\ slot' = [s \in Instances |->
                IF slot[s].pc \in {"idle", "got"} THEN OffSlot
                ELSE [slot[s] EXCEPT !.held = FALSE]]
  /\ UNCHANGED <<jobs, outbox, publishing, willing, avail, rpc, faults,
                 reconciles>>

-----------------------------------------------------------------------------
(* Admission: the availability reporter of a slot.                         *)

\* report_availability(ready=True).  A consumer admission that was live at
\* NOW() is prolonged with it; while it still is, the phase does not change.
ReportAvailability(s) ==
  /\ slot[s].pc # "dead"
  /\ avail[s] # "consumer"
  /\ \E admitted \in IF avail[s] = "lapsed" THEN BOOLEAN ELSE {FALSE} :
       avail' = [avail EXCEPT ![s] = IF admitted THEN "consumer" ELSE "ready"]
  /\ UNCHANGED <<jobs, outbox, publishing, brokerVars, slot, willing, rpc,
                 faults, boundVars>>

\* register_consumer: occupied and eligible are those of broker_admit.sql.
Occupied(p) ==
  {s \in Instances : PoolOf[s] = p /\ avail[s] = "consumer"}
    \cup {jobs[j].instance : j \in Active(p)}

MutantEligible(s) ==   \* forgets that the slot itself may be admitted
  Cardinality(Occupied(PoolOf[s])) < MaxConcurrency[PoolOf[s]]

Eligible(s) == LET p == PoolOf[s] IN
  /\ MaxConcurrency[p] > 0
  /\ s \in Occupied(p) \/ Cardinality(Occupied(p)) < MaxConcurrency[p]

RegisterConsumer(s) ==
  /\ slot[s].pc # "dead"
  /\ LET admitted == avail[s] \in {"ready", "consumer"} /\ Eligible(s) IN
       /\ avail' = IF admitted THEN [avail EXCEPT ![s] = "consumer"] ELSE avail
       /\ willing' = IF admitted THEN willing \cup {s} ELSE willing \ {s}
  /\ UNCHANGED <<jobs, outbox, publishing, brokerVars, slot, rpc, faults,
                 boundVars>>

\* The report failed or its reply was lost, or a drain began: the slot leaves
\* its consumer loop at the next check.
BecomeUnwilling(s) ==
  /\ s \in willing
  /\ Fault
  /\ willing' = willing \ {s}
  /\ UNCHANGED <<jobs, outbox, publishing, brokerVars, slot, avail, rpc,
                 boundVars>>

\* report_availability(ready=False), sent by a drained slot: the operator
\* drains workers, which counts with the faults.
Withdraw(s) ==
  /\ slot[s].pc = "off"
  /\ s \notin willing
  /\ avail[s] # "none"
  /\ Fault
  /\ avail' = [avail EXCEPT ![s] = "none"]
  /\ UNCHANGED <<jobs, outbox, publishing, brokerVars, slot, willing, rpc,
                 boundVars>>

\* ready_until passes.  A slot that still reports meets this only through a
\* fault; the row of a dead one meets it for certain.
AvailabilityExpires(s) ==
  /\ avail[s] # "none"
  /\ IF slot[s].pc = "dead" THEN UNCHANGED faults ELSE Fault
  /\ avail' = [avail EXCEPT ![s] = IF @ = "consumer" THEN "lapsed" ELSE "none"]
  /\ UNCHANGED <<jobs, outbox, publishing, brokerVars, slot, willing, rpc,
                 boundVars>>

-----------------------------------------------------------------------------
(* The consumer loop of a slot: consume_slot, _process_delivery, process.  *)

Subscribe(s) ==
  /\ slot[s].pc = "off"
  /\ s \in willing
  /\ slot' = [slot EXCEPT ![s].pc = "idle"]
  /\ UNCHANGED <<jobs, outbox, publishing, brokerVars, willing, avail, rpc,
                 faults, boundVars>>

\* The loop ends: nothing was begun and the slot must not consume, or the
\* delivery is unsettled, or its channel is closed.  Closing the connection
\* returns the delivery.
CloseConsumer(s) ==
  /\ \/ slot[s].pc \in {"idle", "got"} /\ s \notin willing
     \/ slot[s].pc = "close"
     \/ slot[s].pc \in {"busy", "ack"} /\ ~slot[s].held
  /\ ReturnDelivery(s)
  /\ slot' = [slot EXCEPT ![s] = OffSlot]
  /\ UNCHANGED <<jobs, outbox, publishing, retry, willing, avail, rpc, faults,
                 boundVars>>

Send(s, st) == /\ slot' = [slot EXCEPT ![s] = st]
               /\ rpc' = rpc \cup {RequestOf(s, st)}

BeginAttempt(s) ==
  /\ slot[s].pc = "got"
  /\ s \in willing
  /\ \E d \in UnusedDeliveryIds :
       /\ \A e \in UnusedDeliveryIds : d <= e    \* any one will do
       /\ Send(s, [slot[s] EXCEPT !.pc = "begin", !.did = d, !.try = 1])
  /\ UNCHANGED <<jobs, outbox, publishing, brokerVars, willing, avail, faults,
                 boundVars>>

\* A failed RPC: BeginAttempt is sent once more under the same delivery
\* identity, anything else leaves the delivery unsettled.
RpcError(s) ==
  IF slot[s].pc = "begin" /\ slot[s].try = 1
    THEN Send(s, [slot[s] EXCEPT !.try = 2])
    ELSE Goto(s, "close") /\ UNCHANGED rpc

\* The deadline passes or the connection breaks while the request is out.
RpcTimeout(s) ==
  /\ slot[s].pc \in {"begin", "complete", "failRetry", "failFinal"}
  /\ Fault
  /\ RpcError(s)
  /\ UNCHANGED <<jobs, outbox, publishing, brokerVars, willing, avail,
                 boundVars>>

\* Inference has ended: Complete, Fail retryable or Fail final is sent.
Finish(s, op) ==
  /\ slot[s].pc = "work"
  /\ Send(s, [slot[s] EXCEPT !.pc = op])
  /\ UNCHANGED <<jobs, outbox, publishing, brokerVars, willing, avail, faults,
                 boundVars>>

\* The heartbeat thread finds the lease gone, the broker or the coordinator
\* has become unreachable, or the deadline or the download stops the task:
\* process() returns False.
StopWork(s) ==
  /\ slot[s].pc = "work"
  /\ \/ /\ \/ ~HeartbeatWhere(jobs[slot[s].msg.job], slot[s].token)
           \/ ~slot[s].held
           \/ s \notin willing
        /\ UNCHANGED faults
     \/ Fault
  /\ Goto(s, "close")
  /\ UNCHANGED <<jobs, outbox, publishing, brokerVars, willing, avail, rpc,
                 boundVars>>

\* Heartbeat while the lease is owned: it is renewed, and nothing else moves.
Heartbeat(s) ==
  /\ slot[s].pc = "work"
  /\ HeartbeatWhere(jobs[slot[s].msg.job], slot[s].token)
  /\ jobs' = [jobs EXCEPT ![slot[s].msg.job].lease = "live"]
  /\ UNCHANGED <<outbox, publishing, brokerVars, slot, willing, avail, rpc,
                 faults, boundVars>>

\* The delayed copy is confirmed by the broker; only then comes the ack.
PublishRetry(s) ==
  /\ slot[s].pc = "busy"
  /\ slot[s].held
  /\ retry' = Added(retry, slot[s].msg)
  /\ Goto(s, "ack")
  /\ UNCHANGED <<jobs, outbox, publishing, ready, willing, avail, rpc, faults,
                 boundVars>>

\* Acknowledges although the copy was not confirmed.
MutantPublishRetryFails(s, taken) ==
  /\ slot[s].pc = "busy"
  /\ slot[s].held
  /\ Fault
  /\ retry' = IF taken THEN Added(retry, slot[s].msg) ELSE retry
  /\ Goto(s, "ack")
  /\ UNCHANGED <<jobs, outbox, publishing, ready, willing, avail, rpc,
                 boundVars>>

\* The broker refused the copy, or took it and the confirm was lost.
PublishRetryFails(s, taken) ==
  /\ slot[s].pc = "busy"
  /\ slot[s].held
  /\ Fault
  /\ retry' = IF taken THEN Added(retry, slot[s].msg) ELSE retry
  /\ Goto(s, "close")
  /\ UNCHANGED <<jobs, outbox, publishing, ready, willing, avail, rpc,
                 boundVars>>

AckDelivery(s) ==
  /\ slot[s].pc = "ack"
  /\ slot[s].held
  /\ slot' = [slot EXCEPT ![s] = [OffSlot EXCEPT !.pc = "idle"]]
  /\ UNCHANGED <<jobs, outbox, publishing, brokerVars, willing, avail, rpc,
                 faults, boundVars>>

\* The process dies.  Its requests may still be run.
Crash(s) ==
  /\ slot[s].pc # "dead"
  /\ Cardinality({t \in Instances : slot[t].pc = "dead"}) < MaxCrashes
  /\ Fault
  /\ ReturnDelivery(s)
  /\ slot' = [slot EXCEPT ![s] = [OffSlot EXCEPT !.pc = "dead"]]
  /\ willing' = willing \ {s}
  /\ UNCHANGED <<jobs, outbox, publishing, retry, avail, rpc, boundVars>>

-----------------------------------------------------------------------------
(* The coordinator's handlers.                                             *)

Run(r, op) == r \in rpc /\ r.op = op

\* begin_attempt decides in this order: an obsolete delivery, a live attempt,
\* attempts used up, capacity.
Obsolete(r) == jobs[r.job].dispatch # r.gen \/ ~Pending(jobs[r.job])

MutantReplayed(r) == Live(jobs[r.job])   \* any delivery of a live attempt

Replayed(r) == /\ Live(jobs[r.job])
               /\ jobs[r.job].delivery = r.did
               /\ jobs[r.job].instance = r.slot

Startable(r) == ~Obsolete(r) /\ ~Live(jobs[r.job])

MutantExhausted(r) == jobs[r.job].attempts > MaxAttempts

Exhausted(r) == jobs[r.job].attempts >= MaxAttempts

CapacityFor(s) ==
  /\ MaxConcurrency[PoolOf[s]] > 0
  /\ avail[s] = "consumer"
  /\ \A j \in Active(PoolOf[s]) : jobs[j].instance # s
  /\ Cardinality(Active(PoolOf[s])) < MaxConcurrency[PoolOf[s]]

MutantBeginDiscards(r) ==   \* an obsolete delivery is deferred like a busy one
  /\ Run(r, "begin")
  /\ Obsolete(r)
  /\ Reply(r, "busy")
  /\ rpc' = rpc \ {r}
  /\ UNCHANGED <<jobs, outbox, publishing, brokerVars, willing, avail, faults,
                 boundVars>>

\* "discard", which the slot settles with an acknowledgement.
BeginDiscards(r) ==
  /\ Run(r, "begin")
  /\ Obsolete(r)
  /\ Reply(r, "ack")
  /\ rpc' = rpc \ {r}
  /\ UNCHANGED <<jobs, outbox, publishing, brokerVars, willing, avail, faults,
                 boundVars>>

\* broker_exhausted.sql, and "discard".
BeginExhausts(r) ==
  /\ Run(r, "begin")
  /\ Startable(r) /\ Exhausted(r)
  /\ jobs' = [jobs EXCEPT ![r.job] = EndFailedSet(@)]
  /\ Reply(r, "ack")
  /\ rpc' = rpc \ {r}
  /\ UNCHANGED <<outbox, publishing, brokerVars, willing, avail, faults,
                 boundVars>>

BeginBusy(r) ==
  /\ Run(r, "begin")
  /\ ~Obsolete(r)
  /\ IF Live(jobs[r.job]) THEN ~Replayed(r)
     ELSE ~Exhausted(r) /\ ~CapacityFor(r.slot)
  /\ Reply(r, "busy")
  /\ rpc' = rpc \ {r}
  /\ UNCHANGED <<jobs, outbox, publishing, brokerVars, willing, avail, faults,
                 boundVars>>

\* process() of the claim with this token begins in the waiting slot.
ReplyStarted(r, token) ==
  slot' = IF Waiting(r)
            THEN [slot EXCEPT ![r.slot].pc = "work", ![r.slot].token = token]
            ELSE slot

\* The reply of an earlier request of the same delivery was lost.
BeginReplays(r) ==
  /\ Run(r, "begin")
  /\ ~Obsolete(r) /\ Replayed(r)
  /\ ReplyStarted(r, jobs[r.job].lease_owner)
  /\ rpc' = rpc \ {r}
  /\ UNCHANGED <<jobs, outbox, publishing, brokerVars, willing, avail, faults,
                 boundVars>>

CanStart(r) == Startable(r) /\ ~Exhausted(r) /\ CapacityFor(r.slot)

BeginStarts(r) ==
  /\ Run(r, "begin")
  /\ CanStart(r)
  /\ jobs' = [jobs EXCEPT ![r.job] = StartSet(@, r.slot, r.did)]
  /\ ReplyStarted(r, jobs[r.job].attempts + 1)
  /\ rpc' = rpc \ {r}
  /\ UNCHANGED <<outbox, publishing, brokerVars, willing, avail, faults,
                 boundVars>>

\* _claim_response finds no input file for the attempt with this token: the
\* handler goes on to fail the job.
NoInputFor(r, token) ==
  /\ Run(r, "begin")
  /\ Fault
  /\ rpc' = (rpc \ {r}) \cup {[r EXCEPT !.op = "missing", !.token = token]}
  /\ UNCHANGED <<outbox, publishing, brokerVars, slot, willing, avail,
                 boundVars>>

BeginFindsNoInput(r) ==
  /\ CanStart(r)
  /\ jobs' = [jobs EXCEPT ![r.job] = StartSet(@, r.slot, r.did)]
  /\ NoInputFor(r, jobs[r.job].attempts + 1)

ReplayFindsNoInput(r) ==
  /\ ~Obsolete(r) /\ Replayed(r)
  /\ UNCHANGED jobs
  /\ NoInputFor(r, jobs[r.job].lease_owner)

\* The call is aborted, so its caller sees an error.
FailMissingInput(r) ==
  /\ Run(r, "missing")
  /\ \E seen \in SeenLive(jobs[r.job]) :
       jobs' = IF FailWhere(jobs[r.job], r.token, seen)
                 THEN [jobs EXCEPT ![r.job] = FailSet(@, FALSE)] ELSE jobs
  /\ LET call == [r EXCEPT !.op = "begin", !.token = 0] IN
       IF Waiting(call)
         THEN IF r.try = 1
                THEN LET again == [slot[r.slot] EXCEPT !.try = 2] IN
                       /\ slot' = [slot EXCEPT ![r.slot] = again]
                       /\ rpc' = (rpc \ {r}) \cup {RequestOf(r.slot, again)}
                ELSE Goto(r.slot, "close") /\ rpc' = rpc \ {r}
         ELSE UNCHANGED slot /\ rpc' = rpc \ {r}
  /\ UNCHANGED <<outbox, publishing, brokerVars, willing, avail, faults,
                 boundVars>>

Complete(r) ==
  /\ Run(r, "complete")
  /\ \E seen \in SeenLive(jobs[r.job]) :
       IF CompleteWhere(jobs[r.job], r.token, seen)
         THEN jobs' = [jobs EXCEPT ![r.job] = CompleteSet(@)] /\ Reply(r, "ack")
         ELSE UNCHANGED jobs /\ Reply(r, "close")
  /\ rpc' = rpc \ {r}
  /\ UNCHANGED <<outbox, publishing, brokerVars, willing, avail, faults,
                 boundVars>>

MutantFailAccepted(r, retryable) ==   \* leaves the job to its old message
  /\ jobs' = [jobs EXCEPT ![r.job] = FailSet(@, retryable)]
  /\ UNCHANGED outbox

\* fail_job: a job that is queued again is enqueued in the same transaction.
FailAccepted(r, retryable) ==
  LET row == FailSet(jobs[r.job], retryable) IN
  IF row.status = "queued"
    THEN /\ jobs' = [jobs EXCEPT ![r.job] = DispatchSet(row)]
         /\ outbox' = outbox \cup {Message(r.job, row.dispatch + 1)}
    ELSE /\ jobs' = [jobs EXCEPT ![r.job] = row]
         /\ UNCHANGED outbox

Fail(r) ==
  /\ r \in rpc /\ r.op \in {"failRetry", "failFinal"}
  /\ \E seen \in SeenLive(jobs[r.job]) :
       IF FailWhere(jobs[r.job], r.token, seen)
         THEN FailAccepted(r, r.op = "failRetry") /\ Reply(r, "ack")
         ELSE UNCHANGED <<jobs, outbox>> /\ Reply(r, "close")
  /\ rpc' = rpc \ {r}
  /\ UNCHANGED <<publishing, brokerVars, willing, avail, faults, boundVars>>

Handle(r) ==
  \/ BeginDiscards(r) \/ BeginExhausts(r) \/ BeginBusy(r) \/ BeginReplays(r)
  \/ BeginStarts(r) \/ BeginFindsNoInput(r) \/ ReplayFindsNoInput(r)
  \/ FailMissingInput(r)
  \/ Complete(r) \/ Fail(r)

-----------------------------------------------------------------------------
(* Time, and the operator.                                                 *)

LeaseLapses(j) ==
  /\ jobs[j].lease = "live"
  /\ jobs' = [jobs EXCEPT ![j].lease = "lapsed"]
  /\ UNCHANGED <<outbox, publishing, brokerVars, slot, willing, avail, rpc,
                 faults, boundVars>>

LeaseExpires(j) ==
  /\ jobs[j].lease = "lapsed"
  /\ jobs' = [jobs EXCEPT ![j].lease = "expired"]
  /\ UNCHANGED <<outbox, publishing, brokerVars, slot, willing, avail, rpc,
                 faults, boundVars>>

\* broker_reconcile.sql, then broker_seed.sql, in one transaction: a new
\* generation for every job that is queued or whose lease has run out.
MutantAdopted == {j \in Jobs : jobs[j].status = "running" /\ ~Live(jobs[j])}

Adopted == {j \in Jobs : Pending(jobs[j]) /\ ~Live(jobs[j])}

Reconcile ==
  /\ reconciles < MaxReconciles
  /\ reconciles' = reconciles + 1
  /\ jobs' = [j \in Jobs |-> IF j \in Adopted THEN DispatchSet(jobs[j])
                             ELSE jobs[j]]
  /\ outbox' = outbox \cup
                 {Message(j, jobs[j].dispatch + 1) : j \in Adopted}
  /\ storage' = IF storage = "lost" THEN "reconciled" ELSE storage
  /\ UNCHANGED <<publishing, brokerVars, slot, willing, avail, rpc, faults,
                 losses>>

-----------------------------------------------------------------------------

ClientStep ==
  \/ \E j \in Jobs : \/ CreateJob(j) \/ MarkDownloading(j) \/ MarkQueued(j)
                      \/ FailUpload(j) \/ CancelJob(j) \/ AcknowledgeJob(j)
  \/ \E reaped, gone \in SUBSET Jobs : CleanupExpiredJobs(reaped, gone)

BrokerStep ==
  \/ \E m \in Messages : \/ PublishSend(m) \/ RetryExpires(m)
                          \/ \E s \in Instances : Deliver(s, m)
  \/ PublishCommit \/ PublishAbort \/ LoseBrokerStorage
  \/ \E s \in Instances : LoseConnection(s)

SlotStep(s) ==
  \/ ReportAvailability(s) \/ RegisterConsumer(s) \/ BecomeUnwilling(s)
  \/ Withdraw(s) \/ AvailabilityExpires(s)
  \/ Subscribe(s) \/ CloseConsumer(s) \/ BeginAttempt(s) \/ RpcTimeout(s)
  \/ \E op \in {"complete", "failRetry", "failFinal"} : Finish(s, op)
  \/ StopWork(s) \/ Heartbeat(s) \/ AckDelivery(s) \/ Crash(s)
  \/ PublishRetry(s) \/ \E taken \in BOOLEAN : PublishRetryFails(s, taken)

Next ==
  \/ ClientStep
  \/ BrokerStep
  \/ \E s \in Instances : SlotStep(s)
  \/ \E r \in rpc : Handle(r)
  \/ \E j \in Jobs : LeaseLapses(j) \/ LeaseExpires(j)
  \/ Reconcile

Spec == Init /\ [][Next]_vars

-----------------------------------------------------------------------------
(* Fairness.  The publisher, the broker, the reporter, the consumer loop   *)
(* and the handlers of callers that still wait are loops or threads that   *)
(* keep running; the clock advances; a queue is first in, first out, so a  *)
(* message that is deliverable again and again is delivered.  Clients, the *)
(* operator, faults and requests without a caller are owed nothing.        *)

SlotFairness(s) ==
  /\ WF_vars(avail[s] \in {"none", "lapsed"} /\ ReportAvailability(s))
  /\ WF_vars(RegisterConsumer(s))
  /\ WF_vars(slot[s].pc = "dead" /\ AvailabilityExpires(s))
  /\ WF_vars(Subscribe(s)) /\ WF_vars(CloseConsumer(s))
  /\ WF_vars(BeginAttempt(s))
  /\ WF_vars(Finish(s, "complete") \/ Finish(s, "failRetry")
               \/ Finish(s, "failFinal") \/ StopWork(s))
  /\ WF_vars(PublishRetry(s)) /\ WF_vars(AckDelivery(s))
  /\ WF_vars(\E r \in rpc : /\ r.slot = s
                            /\ Waiting(r) \/ r.op = "missing"
                            /\ Handle(r))

Fairness ==
  /\ WF_vars(\E m \in Messages : PublishSend(m)) /\ WF_vars(PublishCommit)
  /\ \A m \in Messages :
       /\ WF_vars(RetryExpires(m))
       /\ SF_vars(\E s \in Instances : Deliver(s, m))
  /\ \A s \in Instances : SlotFairness(s)
  /\ \A j \in Jobs : WF_vars(LeaseLapses(j)) /\ WF_vars(LeaseExpires(j))

FairSpec == Spec /\ Fairness

-----------------------------------------------------------------------------
(* Properties.                                                             *)

\* Every variable stays in its type.
TypeOK ==
  /\ jobs \in [Jobs -> Row]
  /\ outbox \subseteq Messages
  /\ publishing \in Messages \cup {NoMessage}
  /\ ready \in [Messages -> Nat]
  /\ retry \in [Messages -> Nat]
  /\ slot \in [Instances -> Slot]
  /\ willing \subseteq Instances
  /\ avail \in [Instances -> AvailPhases]
  /\ rpc \subseteq Request
  /\ faults \in 0 .. MaxFaults
  /\ losses \in 0 .. MaxBrokerLosses
  /\ reconciles \in 0 .. MaxReconciles
  /\ storage \in {"intact", "lost", "reconciled"}

\* Something will still bring message m before BeginAttempt: its outbox row,
\* a copy in a queue, or a delivery that its slot has not decided to
\* acknowledge.
Carried(m) ==
  \/ m \in outbox
  \/ ready[m] > 0
  \/ retry[m] > 0
  \/ \E s \in Instances :
       slot[s].held /\ slot[s].msg = m /\ slot[s].pc # "ack"

\* An unfinished job is never lost between the table, the outbox, the broker
\* and the consumers: whichever confirm, reply, acknowledgement or process is
\* lost, some copy of its current message remains.  After a loss of the
\* broker's storage this holds again for queued jobs once reconcile.py ran.
NoLostJob ==
  \A j \in Jobs :
    Pending(jobs[j]) =>
      \/ Carried(Current(j))
      \/ storage = "lost"
      \/ storage = "reconciled" /\ jobs[j].status = "running"

\* The execution limit of a worker ID and the one job of a slot, by the
\* leases the table holds, however many consumers were admitted and whichever
\* duplicates were delivered.
ExecutionLimits ==
  /\ \A p \in Pools : Cardinality(Active(p)) <= MaxConcurrency[p]
  /\ \A i, j \in Jobs :
       Live(jobs[i]) /\ Live(jobs[j]) /\ jobs[i].instance = jobs[j].instance
         => i = j

\* Two slots never compute under the same lease token of a job: only the
\* delivery that started an attempt is told its token.
TokenHeldOnce ==
  \A s, t \in Instances :
    /\ slot[s].token # 0 /\ slot[s].token = slot[t].token
    /\ slot[s].msg.job = slot[t].msg.job
    => s = t

\* Request r speaks for an attempt that is not, or no longer, the one its job
\* is running.
Superseded(r) ==
  /\ r.op # "begin"
  /\ ~ /\ jobs[r.job].status = "running"
       /\ jobs[r.job].attempts = r.token

\* A worker's verdict is taken from the newest attempt only.  Whenever a job
\* leaves "running" for "queued" or "done", a request with the token of its
\* last attempt was run, and what is stored is that attempt's result; and a
\* verdict that comes late, a final failure too, changes nothing of its job.
OnlyNewestAttemptSettles ==
  [][/\ \A j \in Jobs :
          jobs[j].status = "running" /\ jobs'[j].status \in {"queued", "done"}
            => /\ \E r \in rpc \ rpc' :
                    r.job = j /\ r.token = jobs[j].attempts
               /\ jobs'[j].status = "done" => jobs'[j].result = jobs[j].attempts
     /\ \A r \in rpc \ rpc' :
          Superseded(r) => jobs'[r.job] = jobs[r.job]
    ]_vars

\* Nothing of job j is left to be delivered, or is with a consumer.
Drained(j) ==
  \A m \in Messages :
    m.job = j =>
      /\ m \notin outbox
      /\ ready[m] = 0 /\ retry[m] = 0
      /\ \A s \in Instances : slot[s].held => slot[s].msg # m

\* The copies of a finished job do not circulate: the duplicates, the delayed
\* copies and what was still to be published, cancelled and deleted jobs'
\* included, are delivered, discarded and acknowledged in the end.
FinishedJobsDrain ==
  \A j \in Jobs :
    jobs[j].status \in {"done", "failed", "deleted"} ~> Drained(j)

\* A job that was queued is eventually done, failed or cleaned up, if some
\* pool may run it and not every instance dies.
JobsSettle == \A j \in Jobs : Pending(jobs[j]) ~> ~Pending(jobs[j])

Lifecycle == INSTANCE JobLifecycle
               WITH job <- [j \in Jobs |-> PromiseOf(jobs[j])]

\* The service keeps the promise of JobLifecycle: statuses only advance, a
\* finished job never changes again, its result is the newest attempt's and
\* is stored once, and a retained job disappears only after its Ack, through
\* all duplicates, late handlers, crashes and cleanups.
KeepsPromise == Lifecycle!Spec

\* The newest attempt of j has run out, nobody works on it, and it was not the
\* last one, so that only another attempt can settle the job.
Abandoned(j) ==
  /\ jobs[j].status = "running" /\ jobs[j].lease = "expired"
  /\ jobs[j].attempts < MaxAttempts
  /\ \A s \in Instances :
       slot[s].token = jobs[j].attempts => slot[s].msg.job # j

\* docs/rabbitmq.md:167: rabbit-reconcile "recovers pending work after broker
\* storage restoration".  Valid attempts are left alone (line 166), but once
\* such an attempt has run out its job needs a message like every other.
ReconcileRecovers ==
  storage = "reconciled" =>
    \A j \in Jobs :
      jobs[j].status = "queued" \/ Abandoned(j) => Carried(Current(j))

=============================================================================
