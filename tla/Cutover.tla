------------------------------- MODULE Cutover -------------------------------
(***************************************************************************)
(* The coordinator is moved from QUEUE_BACKEND=postgres to rabbitmq and    *)
(* back while jobs are queued or running (docs/rabbitmq.md, "Cutover and   *)
(* rollback"): the migration 0006 and broker_seed.sql adopt the jobs of    *)
(* the SQL era, SQL slots and broker slots see the same rows, and          *)
(* reconcile.py repairs what a careless rollback leaves.  The counters of  *)
(* Observations run through all of it.                                     *)
(*                                                                         *)
(* Coarser than BrokerDelivery and SqlScheduler: a call of a slot and its  *)
(* handler are one step, a broken connection is a reply that is lost,      *)
(* every slot has capacity, a lease is live or expired, and the copies of  *)
(* one message in the broker are one element of queue.  No job is retained *)
(* until its Ack, and no input goes missing.  Slots restart under new      *)
(* UUIDs, so instance only says which worker ID is credited.               *)
(***************************************************************************)
EXTENDS Observations

CONSTANTS
  SqlSlots,       \* slots that claim in SQL
  BrokerSlots,    \* slots that consume from RabbitMQ
  NoJob, NoMessage,
  MaxFaults,      \* bound on the faults of one behaviour
  MaxRestarts,    \* bound on the restarts of the coordinator
  MaxReconciles   \* bound on the runs of reconcile.py

ASSUME CutoverAssumption ==
  /\ Jobs \subseteq Nat /\ NoJob \notin Jobs
  /\ Instances = SqlSlots \cup BrokerSlots /\ SqlSlots \cap BrokerSlots = {}
  /\ MaxFaults \in Nat /\ MaxRestarts \in Nat /\ MaxReconciles \in Nat

\* The first generation comes from mark_queued or from an adoption.
MaxGeneration == MaxAttempts + MaxReconciles

Messages == [job : Jobs, gen : 1 .. MaxGeneration]

ASSUME NoMessageAssumption == NoMessage \notin Messages

VARIABLES
  jobs,        \* transcription_jobs
  error,       \* its column error, kept for rows that were deleted
  obs,         \* transcription_observations
  outbox,      \* unpublished rows of transcription_outbox
  queue,       \* messages in the broker
  slot,        \* the loop of each slot
  backend,     \* QUEUE_BACKEND of the running coordinator
  migrated,    \* migration 0006 has been applied
  faults,      \* faults so far
  restarts,    \* restarts of the coordinator so far
  reconciles,  \* runs of reconcile.py so far
  stranded     \* history: jobs that a consumer gave back to a postgres
               \* coordinator and that have had no new generation since

vars == <<jobs, error, obs, outbox, queue, slot, backend, migrated, faults,
          restarts, reconciles, stranded>>

rows     == <<jobs, error, obs>>
tables   == <<rows, outbox, stranded>>
switches == <<backend, migrated, restarts, reconciles>>

Backends == {"postgres", "rabbitmq"}

\* "off": not admitted as a consumer; "on": polling or subscribed; "got": a
\* delivery not looked at yet; "work": process() is running; "ack": the
\* delivery is to be acknowledged.  msg is the delivery the slot holds.
\* own: the slot belongs to the server's own worker, a process with its own
\* JobStore and QUEUE_BACKEND=postgres, which a switch may leave running.
Slot == [pc : {"off", "on", "got", "work", "ack"},
         job : Jobs \cup {NoJob}, token : Tokens,
         msg : Messages \cup {NoMessage}, own : BOOLEAN]

Empty(pc) == [pc |-> pc, job |-> NoJob, token |-> 0, msg |-> NoMessage,
              own |-> FALSE]

Resting(s) == Empty(IF s \in SqlSlots THEN "on" ELSE "off")

Init ==
  /\ jobs = [j \in Jobs |-> AbsentRow]
  /\ error = [j \in Jobs |-> "none"]
  /\ obs = NoObservations
  /\ outbox = {}
  /\ queue = {}
  /\ slot = [s \in Instances |-> Resting(s)]
  /\ backend = "postgres"
  /\ migrated = FALSE
  /\ faults = 0
  /\ restarts = 0
  /\ reconciles = 0
  /\ stranded = {}

-----------------------------------------------------------------------------
(* Helpers.                                                                *)

Message(j, gen) == [job |-> j, gen |-> gen]

Fault == faults < MaxFaults /\ faults' = faults + 1

\* A statement that sets status or attempts, and the trigger with it.
Write(new, texts) ==
  /\ jobs' = new
  /\ error' = texts
  /\ obs' = Counted(obs, jobs, new, texts)

Update(j, row, text) ==
  Write([jobs EXCEPT ![j] = row], [error EXCEPT ![j] = text])

\* The QUEUE_BACKEND of the process that runs the calls of slot s.
BackendOf(s) == IF slot[s].own THEN "postgres" ELSE backend

\* Slot s holds a delivery, which goes back to the broker if its channel closes.
Held(s) == slot[s].msg # NoMessage

Returned(s) == IF Held(s) THEN queue \cup {slot[s].msg} ELSE queue

MutantQueueAgain(s, j, row) ==   \* leaves the job to its old message
  UNCHANGED <<outbox, stranded>> /\ Update(j, row, "other")

\* A job that fail_job queued again: enqueued too, if the broker needs it.
\* Otherwise it is left to SQL, and a consumer acknowledges its old message.
QueueAgain(s, j, row) ==
  IF BackendOf(s) = "rabbitmq"
    THEN /\ outbox' = outbox \cup {Message(j, row.dispatch + 1)}
         /\ Update(j, DispatchSet(row), "other")
         /\ stranded' = stranded \ {j}
    ELSE /\ UNCHANGED outbox
         /\ Update(j, row, "other")
         /\ stranded' = IF Held(s) THEN stranded \cup {j} ELSE stranded

\* Slot s gives up what it was doing.
Release(s) == queue' = Returned(s) /\ slot' = [slot EXCEPT ![s] = Resting(s)]

Goto(s, st) == slot' = [slot EXCEPT ![s] = st] /\ UNCHANGED queue

-----------------------------------------------------------------------------
(* The public API.                                                         *)

others == <<queue, slot, faults, switches, stranded>>

CreateJob(j) ==
  /\ jobs[j].status = "absent"
  /\ Update(j, CreateSet, "none")
  /\ UNCHANGED <<outbox, others>>

MarkDownloading(j) ==
  /\ jobs[j].status = "accepted"
  /\ Update(j, MarkDownloadingSet(jobs[j]), error[j])
  /\ UNCHANGED <<outbox, others>>

MarkQueued(j) ==
  /\ jobs[j].status = "downloading"
  /\ IF backend = "rabbitmq"
       THEN /\ Update(j, DispatchSet(MarkQueuedSet(jobs[j])), "none")
            /\ outbox' = outbox \cup {Message(j, jobs[j].dispatch + 1)}
       ELSE Update(j, MarkQueuedSet(jobs[j]), "none") /\ UNCHANGED outbox
  /\ UNCHANGED others

FailUpload(j) ==
  /\ FailWhere(jobs[j], 0, FALSE)
  /\ Update(j, FailSet(jobs[j], FALSE), "other")
  /\ UNCHANGED <<outbox, others>>

CancelJob(j) ==
  /\ CancelWhere(jobs[j])
  /\ Update(j, EndFailedSet(jobs[j]), "cancelled")
  /\ UNCHANGED <<outbox, others>>

Reapable == {j \in Jobs : ReapWhere(jobs[j], Live(jobs[j]))}

ReapedRows == [j \in Jobs |-> IF j \in Reapable THEN EndFailedSet(jobs[j])
                              ELSE jobs[j]]

ReapedErrors == [j \in Jobs |-> IF j \in Reapable THEN "attempts_exhausted"
                                ELSE error[j]]

\* reap.sql, then cleanup.sql for the old enough rows gone.
CleanupExpiredJobs(gone) ==
  /\ gone \cup Reapable # {}
  /\ \A j \in gone : CleanupWhere(jobs[j], FALSE)
  /\ Write([j \in Jobs |-> IF j \in gone THEN DeletedRow ELSE ReapedRows[j]],
           ReapedErrors)
  /\ outbox' = {m \in outbox : m.job \notin gone}
  /\ UNCHANGED others

ClientStep ==
  \/ \E j \in Jobs : \/ CreateJob(j) \/ MarkDownloading(j) \/ MarkQueued(j)
                     \/ FailUpload(j) \/ CancelJob(j)
  \/ \E gone \in SUBSET Jobs : CleanupExpiredJobs(gone)

-----------------------------------------------------------------------------
(* The coordinator restarts: JobStore.init_schema.                         *)

MutantUnadopted(row) == row.status = "queued" /\ row.dispatch = 0

\* What 0006 and broker_seed.sql adopt: running jobs too, whose delivery
\* waits for the end of their lease.
Unadopted(row) == Pending(row) /\ row.dispatch = 0

\* A new generation for the jobs js.
Adopt(js) ==
  /\ jobs' = [j \in Jobs |-> IF j \in js THEN DispatchSet(jobs[j]) ELSE jobs[j]]
  /\ outbox' = outbox \cup {Message(j, jobs[j].dispatch + 1) : j \in js}
  /\ stranded' = stranded \ js
  /\ UNCHANGED <<error, obs>>

\* A restart that changes nothing is no step.
Restart(b) ==
  /\ b # backend \/ ~migrated
  /\ restarts < MaxRestarts
  /\ restarts' = restarts + 1
  /\ backend' = b
  /\ migrated' = TRUE
  /\ Adopt({j \in Jobs : Unadopted(jobs[j]) /\ (~migrated \/ b = "rabbitmq")})
  /\ UNCHANGED <<queue, slot, faults, reconciles>>

\* reconcile.py: queued jobs and expired attempts lose their dispatch_id, and
\* broker_seed.sql gives a new one to every unfinished job without.
Reconcile ==
  /\ backend = "rabbitmq"
  /\ reconciles < MaxReconciles
  /\ reconciles' = reconciles + 1
  /\ Adopt({j \in Jobs : \/ Unadopted(jobs[j])
                         \/ Pending(jobs[j]) /\ ~Live(jobs[j])})
  /\ UNCHANGED <<queue, slot, backend, migrated, faults, restarts>>

-----------------------------------------------------------------------------
(* The publisher thread, which only the RabbitMQ coordinator starts.  A    *)
(* lost confirm leaves the row unpublished.                                *)

Publish(m) ==
  /\ backend = "rabbitmq"
  /\ m \in outbox
  /\ queue' = queue \cup {m}
  /\ \/ outbox' = outbox \ {m} /\ UNCHANGED faults
     \/ Fault /\ UNCHANGED outbox
  /\ UNCHANGED <<rows, stranded, slot, switches>>

-----------------------------------------------------------------------------
(* Starting attempts.                                                      *)

\* The reply brings the claim to slot s, or is lost.
Started(s, st) ==
  \/ Goto(s, [st EXCEPT !.pc = "work"]) /\ UNCHANGED faults
  \/ Fault /\ Release(s)

StartedRow(s, row) == StartSet(row, s, row.delivery)

MutantClaimable(row) == Pending(row) /\ row.attempts < MaxAttempts

Claimable(row) == Pending(row) /\ ~Live(row) /\ row.attempts < MaxAttempts

\* claim_next_job: reap.sql, then the oldest job that may run.  The RabbitMQ
\* coordinator refuses the call; the server's own worker asks nobody.  A claim
\* that changes no row is no step.
Claim(s, own) ==
  /\ slot[s].pc = "on"
  /\ own \/ backend = "postgres"
  /\ LET open == {j \in Jobs : Claimable(jobs[j])} IN
       IF open = {}
         THEN /\ Reapable # {}
              /\ Write(ReapedRows, ReapedErrors)
              /\ UNCHANGED <<queue, slot, faults>>
         ELSE LET first == Min(open) IN
              /\ Write([ReapedRows EXCEPT ![first] = StartedRow(s, @)],
                       [ReapedErrors EXCEPT ![first] = "none"])
              /\ Started(s, [slot[s] EXCEPT !.job = first, !.own = own,
                                            !.token = jobs[first].attempts + 1])
  /\ UNCHANGED <<outbox, stranded, switches>>

\* ReportAvailability and RegisterConsumer are answered, and consume_slot
\* subscribes.
TurnOn(s) ==
  /\ slot[s].pc = "off"
  /\ backend = "rabbitmq"
  /\ Goto(s, Empty("on"))
  /\ UNCHANGED <<tables, faults, switches>>

\* RegisterConsumer is refused, or an operator drains the slot.
TurnOff(s) ==
  /\ slot[s].pc = "on"
  /\ IF backend = "postgres" THEN UNCHANGED faults ELSE Fault
  /\ Goto(s, Empty("off"))
  /\ UNCHANGED <<tables, switches>>

Deliver(s, m) ==
  /\ slot[s].pc = "on"
  /\ m \in queue
  /\ queue' = queue \ {m}
  /\ slot' = [slot EXCEPT ![s] = [Empty("got") EXCEPT !.msg = m]]
  /\ UNCHANGED <<tables, faults, switches>>

MutantObsolete(m) == jobs[m.job].dispatch # m.gen

Obsolete(m) == jobs[m.job].dispatch # m.gen \/ ~Pending(jobs[m.job])

MutantExhausted(row) == row.attempts > MaxAttempts

Exhausted(row) == row.attempts >= MaxAttempts

\* begin_attempt, in the order of its tests.  "busy" is settled by a delayed
\* copy of the message.
BeginAttempt(s) ==
  /\ slot[s].pc = "got"
  /\ LET m   == slot[s].msg
         row == jobs[m.job]
         st  == [slot[s] EXCEPT !.job = m.job, !.token = row.attempts + 1]
     IN
     CASE backend = "postgres" ->
            Release(s) /\ UNCHANGED <<rows, faults>>
       [] backend = "rabbitmq" /\ Obsolete(m) ->
            /\ Goto(s, [slot[s] EXCEPT !.pc = "ack"])
            /\ UNCHANGED <<rows, faults>>
       [] backend = "rabbitmq" /\ ~Obsolete(m) /\ Live(row) ->
            /\ queue' = queue \cup {m}
            /\ slot' = [slot EXCEPT ![s] = Empty("on")]
            /\ UNCHANGED <<rows, faults>>
       [] OTHER ->
            IF Exhausted(row)
              THEN /\ Update(m.job, EndFailedSet(row), "attempts_exhausted")
                   /\ Goto(s, [slot[s] EXCEPT !.pc = "ack"])
                   /\ UNCHANGED faults
              ELSE /\ Update(m.job, StartedRow(s, row), "none")
                   /\ Started(s, st)
  /\ UNCHANGED <<outbox, stranded, switches>>

-----------------------------------------------------------------------------
(* Ending attempts.                                                        *)

Accepted(s, verdict) ==
  LET row == jobs[slot[s].job] IN
  IF verdict = "complete" THEN CompleteWhere(row, slot[s].token, Live(row))
                          ELSE FailWhere(row, slot[s].token, Live(row))

\* complete_job or fail_job.  A verdict that is refused, or whose reply is
\* lost, leaves the delivery unsettled.
Verdict(s, verdict) ==
  /\ slot[s].pc = "work"
  /\ LET j   == slot[s].job
         row == FailSet(jobs[j], verdict = "failRetry")
     IN
     IF Accepted(s, verdict)
       THEN /\ IF verdict = "complete"
                 THEN /\ Update(j, CompleteSet(jobs[j]), error[j])
                      /\ UNCHANGED <<outbox, stranded>>
                 ELSE IF row.status = "queued" THEN QueueAgain(s, j, row)
                 ELSE Update(j, row, "other") /\ UNCHANGED <<outbox, stranded>>
            /\ \/ /\ UNCHANGED faults
                  /\ IF Held(s) THEN Goto(s, [slot[s] EXCEPT !.pc = "ack"])
                              ELSE Release(s)
               \/ Fault /\ Held(s) /\ Release(s)
       ELSE Release(s) /\ UNCHANGED <<tables, faults>>
  /\ UNCHANGED switches

\* The process dies or gives up; a refused heartbeat or a lost connection
\* makes a slot at work give up.
Abandon(s) ==
  /\ slot[s].pc \in {"got", "work", "ack"}
  /\ \/ /\ slot[s].pc = "work"
        /\ \/ ~HeartbeatWhere(jobs[slot[s].job], slot[s].token)
           \/ s \in BrokerSlots /\ ~Held(s)
        /\ UNCHANGED faults
     \/ Fault
  /\ Release(s)
  /\ UNCHANGED <<tables, switches>>

\* The AMQP connection breaks under a slot at work, which goes on for now.
LoseConnection(s) ==
  /\ slot[s].pc = "work" /\ Held(s)
  /\ Fault
  /\ queue' = Returned(s)
  /\ slot' = [slot EXCEPT ![s].msg = NoMessage]
  /\ UNCHANGED <<tables, switches>>

AckDelivery(s) ==
  /\ slot[s].pc = "ack"
  /\ Goto(s, Empty("on"))
  /\ UNCHANGED <<tables, faults, switches>>

LeaseExpires(j) ==
  /\ jobs[j].lease = "live"
  /\ jobs' = [jobs EXCEPT ![j].lease = "expired"]
  /\ UNCHANGED <<error, obs, outbox, stranded, queue, slot, faults, switches>>

-----------------------------------------------------------------------------

Verdicts == {"complete", "failRetry", "failFinal"}

SlotStep ==
  \/ \E s \in SqlSlots : \E own \in BOOLEAN : Claim(s, own)
  \/ \E s \in BrokerSlots :
       \/ TurnOn(s) \/ TurnOff(s) \/ \E m \in queue : Deliver(s, m)
       \/ BeginAttempt(s) \/ LoseConnection(s) \/ AckDelivery(s)
  \/ \E s \in Instances : \/ \E v \in Verdicts : Verdict(s, v)
                          \/ Abandon(s)

Next ==
  \/ ClientStep
  \/ \E b \in Backends : Restart(b)
  \/ Reconcile
  \/ \E m \in outbox : Publish(m)
  \/ SlotStep
  \/ \E j \in Jobs : LeaseExpires(j)

Spec == Init /\ [][Next]_vars

\* The threads, loops and the clock go on, as in BrokerDelivery and
\* SqlScheduler; operators and clients are owed nothing.  The parts of a loop
\* are enabled at different pc, so one condition stands for all of them.
Works(s) == (\E v \in Verdicts : Verdict(s, v)) \/ Abandon(s)

Fairness ==
  /\ WF_vars(\E m \in outbox : Publish(m))
  /\ \A j \in Jobs : WF_vars(LeaseExpires(j))
  /\ \A s \in SqlSlots : WF_vars(Claim(s, FALSE) \/ Works(s))
  /\ \A s \in BrokerSlots :
       WF_vars(TurnOn(s) \/ BeginAttempt(s) \/ AckDelivery(s) \/ Works(s))
  /\ SF_vars(\E s \in BrokerSlots, m \in queue : Deliver(s, m))

FairSpec == Spec /\ Fairness

-----------------------------------------------------------------------------
(* Properties.                                                             *)

\* Every variable stays in its type.
TypeOK ==
  /\ jobs \in [Jobs -> Row]
  /\ error \in [Jobs -> Errors]
  /\ obs \in [Creditors -> [Events -> Nat]]
  /\ outbox \subseteq Messages
  /\ queue \subseteq Messages
  /\ slot \in [Instances -> Slot]
  /\ backend \in Backends
  /\ migrated \in BOOLEAN
  /\ faults \in 0 .. MaxFaults
  /\ restarts \in 0 .. MaxRestarts
  /\ reconciles \in 0 .. MaxReconciles
  /\ stranded \subseteq Jobs

\* Something will still bring message m before BeginAttempt.
Carried(m) ==
  \/ m \in outbox \cup queue
  \/ \E s \in BrokerSlots : slot[s].msg = m /\ slot[s].pc # "ack"

\* While the broker is the queue, an unfinished job is on its way to a
\* consumer, whichever backend, release and retries it lived under before.
\* Only jobs that a consumer at work gave back after a rollback are without a
\* message, each of them until reconcile.py or a retry renumbers it.
NoLostJob ==
  backend = "rabbitmq" =>
    \A j \in Jobs : Pending(jobs[j]) =>
      \/ Carried(Message(j, jobs[j].dispatch))
      \/ j \in stranded

\* Each submitted job is counted once more when it ends, whichever of the
\* statements of either backend ends it, and never when it is deleted.
JobsAccounted ==
  Total(obs, "submitted") =
    Cardinality({j \in Jobs : Exists(jobs[j]) /\ ~Terminal(jobs[j])})
      + Total(obs, "completed") + Total(obs, "failed") + Total(obs, "cancelled")

RunningUnder(w) ==
  Cardinality({j \in Jobs : jobs[j].status = "running" /\ Owner(jobs[j]) = w})

Attempted(w) ==
  RunningUnder(w) + obs[w]["completed"] + obs[w]["cancelled"]
    + obs[w]["attempt_failures"] + obs[w]["lease_expirations"]

\* docs/monitoring.md: every attempt a worker ID began ends in one of its
\* counters, whoever ends it, and an exhausted attempt, alone, in two.
AttemptsAccounted ==
  /\ \A w \in Pools : obs[w]["attempts"] <= Attempted(w)
  /\ Total(obs, "attempts") =
       SumFunction([w \in Pools |-> Attempted(w)])
         - Cardinality({j \in Jobs : error[j] = "attempts_exhausted"})

\* Neither backend starts an attempt over the live one of the other.
NoAttemptOverLive ==
  [][\A j \in Jobs :
       jobs'[j].attempts > jobs[j].attempts => ~Live(jobs[j])]_vars

Lifecycle == INSTANCE JobLifecycle WITH
               RetainedJobs <- {}, job <- [j \in Jobs |-> PromiseOf(jobs[j])]

\* The promise of JobLifecycle outlives the change of the backend: messages
\* of an earlier era never restart a finished job.
KeepsPromise == Lifecycle!Spec

\* A job that waits or runs is finished under whichever backend remains,
\* unless a consumer gave it back after a rollback.
JobsSettle ==
  \A j \in Jobs : Pending(jobs[j]) ~> ~Pending(jobs[j]) \/ j \in stranded

=============================================================================
