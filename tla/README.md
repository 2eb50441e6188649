# Verification of the transcription service

This directory holds TLA+ models of the service in `src/`, TLC configurations
that check them on small instances, and proofs that TLAPS checks. It is meant
to be read next to the code: every definition that stands for code names its
idea after the code, and `PROJECT.json` maps it to the lines it was translated
from.

## 1. The system

A client submits an audio file over gRPC; the *ingress* stores it and a row in
PostgreSQL; a *worker* (local to the ingress, or remote over a mutually
authenticated gRPC channel) runs the model on it; the client polls the status,
takes the result, and may acknowledge it. Two interchangeable backends hand
jobs to workers: the table itself (`QUEUE_BACKEND=postgres`, workers poll `Claim`)
and RabbitMQ (`QUEUE_BACKEND=rabbitmq`, an outbox publishes one message per
*generation* of a job and slots consume them).

| Component | Code | State | Operations | Talks to |
|---|---|---|---|---|
| Job table | `whisper/storage.py`, `whisper/sql` | `transcription_jobs`: status, attempts, lease owner and expiry, instance, dispatch and delivery identity, result, ack | create, mark downloading/queued, claim, start, heartbeat, complete, fail, cancel, acknowledge, reap, clean up | every handler; statements of one row serialise on its lock, but `NOW()` is the start of the transaction |
| Outbox and publisher | `storage.publish_next`, `broker.publish_outbox` | `transcription_outbox` | insert with every new generation, lock one row, publish with confirms, mark published | job table (same transaction), RabbitMQ |
| RabbitMQ | external; topology in `broker.declare_topology` | jobs queue, retry queue with TTL, dead letters, unacknowledged deliveries | deliver, requeue on a closed channel, expire from retry to jobs | publisher, slots |
| Attempts and admission | `storage.register_consumer`, `begin_attempt`, `report_availability`; `worker_api.py` | `worker_availability`: ready_until, consumer_until; the scheduler lock | admit a consumer, start / replay / refuse an attempt | slots by RPC, job table |
| Reconciliation | `reconcile.py` | none | one transaction that gives jobs a new generation | job table, outbox |
| SQL scheduler | `storage.claim_next`, `sql/claim*.sql`, `select_worker.sql` | demand and offer windows in `worker_availability` | reap, request work, select a worker, claim | worker slots by RPC |
| Worker slot | `remote_worker.py`, `broker.consume_slot` | subscription, delivery, lease token, `_available`, `_broker_admitted`, drain flag | report, register, consume, begin, process, heartbeat, settle, drain | coordinator by RPC, RabbitMQ |
| Ingress uploads | `server.py`, `storage.reserve_upload` | request identities, upload directory, per-upload session lock | reserve, stream, fsync, rename, queue, fail, mark interrupted | job table, admission, disk |
| Upload admission | `admission.py`, `limits.py` | token files of active uploads, storage counter | admit, account, release | disk, cross-process lock file |
| Cleanup | `server.py` cleanup loop, `sql/cleanup.sql` | none | reap, delete rows, delete files | job table, disk |
| Local worker | `server.Worker` | current job | claim, heartbeat, complete, fail | job table |
| Health and drain | `worker_health.py`, `remote_worker.py` | health file, drain marker | withdraw, drain, report | updater, coordinator |
| Updater | `scripts/worker_updater.py` | journal with one pending update and the quarantined images | inspect, drain, stop, rename, create, start, watch; commit or roll back in recover | Docker, and through it the worker's signals, marker and health |
| Counters | `migrations/0004_observability.sql` | observation tables, written by a trigger | count transitions | job table |
| Cutover | `storage.init_schema`, `QUEUE_BACKEND`, `sql/broker_seed.sql`, migration 0006 | the backend of each process | restart under the other backend, adopt jobs, refuse the calls of the other backend | job table, outbox, slots of both kinds |

The remaining parts (metrics queries, credentials, telemetry,
release, provisioning and pilot scripts) keep no protocol state. They are
listed in `PROJECT.json` with the reason they are left out.

### What is hard, and what makes each part correct

* *Job table.* Several handlers, some of callers that gave up long ago, act on
  one row. Right means: a terminal status never changes, a verdict is taken
  only from the newest attempt, a lease that ran out is never revived, no
  attempt beyond `JOB_MAX_ATTEMPTS`, a retained job disappears only after Ack.
* *Outbox and broker.* Sending and marking published are two steps; confirms,
  replies, acknowledgements and processes get lost. Right means: an unfinished
  job always has a copy of its current message somewhere; duplicates and old
  generations do no harm.
* *Attempts and admission.* Limits per worker ID are decided from leases and
  admissions that change under the decision. Right means: limits hold, one job
  per slot, `BeginAttempt` repeated under one delivery starts one attempt, and
  slots do not lock one another out.
* *Reconciliation.* Runs against a live system after the broker lost its data.
  Right means: what needs a new message gets one, exactly once per run.
* *SQL scheduler.* Priorities with time windows: a better worker may be offered
  work and never come. Right means: limits as above, and somebody takes the job.
* *Uploads and admission.* Cancellation, a broken stream, a crash or a second
  submission of the same request meet an upload in progress. Right means: a
  queued job has its whole input on disk, one writer per request, quotas hold
  with concurrent sessions and are given back after a crash.
* *Cutover.* Two schedulers share the rows for a while, and messages of an
  earlier era come back. Right means: no attempt starts over a live one of the
  other backend, what is unfinished is carried by the backend in charge, and
  the client notices nothing.
* *Counters.* The trigger sees only a row before and after. Right means: each
  job is counted once, whoever ends it, and each attempt under its worker ID: once,
  or as an expiration and a failure if it was the last one and ran out.
* *Drain and updater.* A slot is stopped for an update between two steps of its
  loop, the updater dies between two steps of its own. Right means: no running
  job is cut off by an orderly update, and recovery ends in a running image.

The list of hazards, each at its line and with the properties aimed at it, is
in `PROJECT.json`.

## 2. Modules

`JobTable` - one row of `transcription_jobs` and, for each statement that
changes it, its condition (`...Where`) and the row it leaves (`...Set`). It
has no variables; the modules that hold rows build their actions from it. The
abstractions: the lease token `'<worker>/<uuid4>'` is the number of the attempt
that made it, `dispatch_id` the number of its generation, a transcript the
number of the attempt that produced it. `lease_expires_at` is a phase, because
the code reads two clocks: `clock_timestamp()` sees the present, `NOW()` the
moment the transaction began, which may be earlier than the expiry when the
statement waited for a row lock. "live" means in force for both, "lapsed" that
the time has passed but such an older transaction may still commit, "expired"
that none can. Statements on `NOW()` (`Complete`, `Fail`, reap) may see a
lapsed lease either way; statements on `clock_timestamp()` (`Heartbeat`, the
capacity count) see it as gone.

`JobLifecycle` - the abstract specification: what a client can tell of a job,
whichever backend runs it. Phases open, pending, done, failed, deleted; at most
`MaxAttempts` executions; a result stored once and only that of the newest
execution; a retained record goes only after its acknowledgement.

`BrokerDelivery` - the service with `QUEUE_BACKEND=rabbitmq`. It composes the
table, the outbox and the publisher thread (`outbox`, `publishing`), the
queues (`ready`, `retry`, as bags of messages), the consumer loop of every slot
(`slot`), its admission on both sides (`willing` in the slot, `avail` in the
table), and the requests no handler has run yet (`rpc`). Correspondence:

| In the model | In the code |
|---|---|
| `CreateJob` .. `CleanupExpiredJobs` | the public API and the cleanup transaction (`server.py`, `storage.py`) |
| `PublishSend`, `PublishCommit`, `PublishAbort` | `publish_next`: row locked and sent; confirmed and committed; not so |
| `Deliver`, `RetryExpires`, `LoseConnection`, `LoseBrokerStorage` | RabbitMQ (external) |
| `ReportAvailability`, `RegisterConsumer`, `Withdraw`, `AvailabilityExpires` | `report_availability.sql`, `broker_admit.sql`, passing of `ready_until` |
| `Subscribe` .. `AckDelivery` | `consume_slot`, `_process_delivery`, `process` in one slot |
| `BeginDiscards` .. `BeginStarts`, `BeginFindsNoInput`, `ReplayFindsNoInput`, `FailMissingInput` | the branches of `begin_attempt` in its order, then `_claim_response`, for a new attempt and for one that is told again |
| `Complete`, `Fail` | `complete_job`, `fail_job` with its new generation |
| `Reconcile` | `reconcile.py` |

A request is put into `rpc` when the slot sends it and leaves it when a handler
runs it; `RpcTimeout` is a caller that stops waiting, its request stays. So a
`Complete` may be run long after its slot has closed, redelivered and been
beaten by another attempt, and both `BeginAttempt` of one delivery may run, in
either order. A lost reply is a timeout before the handler runs.

Simplifications that add behaviour and so keep safety results sound: queues
have no order; a row is published as soon as it exists (the backoff of a retry
is left out); `willing` stands for `_available`, `_broker_admitted` and no
drain together, so that a slot which merely lost its admission may stop work
that the code would finish; a process that dies is the death of its slots, one
by one. Only `DeliveryIds` are reused, when nothing mentions them any more.

`MCBroker` - instances of it for TLC. `BrokerDelivery_proofs`,
`BrokerLeases_proofs` - the theorems about messages, and about attempts.

`SqlScheduler` - the service with `QUEUE_BACKEND=postgres`. The table is the
queue: a slot (`slot`) sends `Claim`, the handler reaps, opens the demand
window of the slot, selects a worker and leases the oldest job, in one
transaction. `avail` and `demand` are the two windows of the slot's row in
`worker_availability`. `legacy` says whether the coordinator runs without
worker policies, which never changes while it runs. Requests are treated as in
`BrokerDelivery`: a `Claim` whose reply is lost has leased a job nobody works on.

| In the model | In the code |
|---|---|
| `Written`, `ReportAvailability`, `AvailabilityExpires`, `DemandExpires` | `report_availability.sql` after `cleanup_availability.sql`; passing of `ready_until` and `demand_until` |
| `Claim`, `Finish`, `StopWork`, `RpcTimeout`, `Drain`, `Resume` | the loops of `RemoteWorker` and of the local `Worker`; a call of the local worker is a database transaction instead of an RPC |
| `Asking`, `EligibleFor`, `Selected` | `request_work.sql`, `select_worker.sql` |
| `MayClaim`, `Claimable`, `Candidates` | the conditions of `claim.sql` and `claim_slot.sql` |
| `ClaimNothing`, `Grant`, `ClaimStarts`, `ClaimFindsNoInput`, `FailMissingInput` | `claim_next_job`, then `_claim_response` |
| `Complete`, `Fail`, `Heartbeat`, the client's operations, `CleanupExpiredJobs` | `storage.py`, as in `BrokerDelivery` |

Statements on `NOW()` choose which lapsed leases they take for over (`Views`):
the same choice for the reap and the claim of one transaction. Simplifications:
a slot may claim before its first report and while `_available` is clear (more
behaviour than the code); a worker ID without a policy is one with capacity 0;
the expiry of `ready_until` has one phase, so a legacy claim on an older
`NOW()` is taken for one that runs earlier; leases without an instance ID, left
by a rolling upgrade, are left out.

`UploadSession` - `Submit` from reservation to reply, by sessions that share
requests, the volume and its admission lock. A session is a program counter
(`pc`) along `reserve_upload` and `_submit_reserved`; `input`, `orphans`, `dirs`
and `entered` are the files of a request's directory and whether its entry is
durable. What happens under the admission lock is one step. Correspondence:

| In the model | In the code |
|---|---|
| `Reserve`, `Lookup`, `Create`, `Release` | `reserve_upload` with its advisory lock, `create_job` |
| `MarkDownloading`, `ClearPartials`, `Admit`, `Write`, `StreamEnds`, `StreamCut`, `Sync`, `Rename`, `SyncDirectory` | `_submit_reserved` up to the directory's fsync; `UploadAdmission` |
| `Undo`, `Settle` | its `except` clause |
| `MarkQueued` | `mark_queued` and the `CANCELLED` abort |
| `CleanupRow`, `CleanupInput`, `CleanupPartials`, `CleanupDirectory` | `cleanup_expired_jobs`, `_cleanup_job_files` |
| `StepFails`, `LoseLock`, `Crash`, `PowerLoss` | a failing statement or disk; the connection of the session lock; a process; the machine |

`PowerLoss` keeps of the files what was synced: a file that was not may lose
data, a directory entry that was not may be gone. `rename` and the directory's
fsync are two steps although the code takes the admission lock around both,
because a crash and an upload's other steps may fall between them. The entry of
the job's directory itself in the storage root, which the code never syncs, is
taken to be durable with the directory; files that are unlinked but still
open do not count (as in `storage_bytes`); a request whose row was deleted is
not submitted again. Three things a reader of the code may want to know, and
which no doc contradicts: an upload that failed after its rename leaves
`input.<format>`, which counts against the budget of its own retry; the partial
file of a session that opened it after the cleanup's glob is an orphan; a crash
of the cleanup between row and files leaves files nothing names.

`WorkerPool` - the process of a remote worker container: its slots as they
look at the drain flag, work, are marked drained, wait for the end of the
drain and unmark themselves; the flag that `SIGUSR1` sets and `SIGUSR2`
clears; the marker `/tmp/worker-drained`; crashes, after which Docker starts
the process again with an empty `/tmp`. A slot is busy or not: what it does is
the subject of the other modules.

`Updater` - `worker_updater.py` for one role, composed with the pools of its
containers (`pool`), Docker's names, images and health (`named`, `image`,
`status`), the approved release, the journal (`pending`, `failed`) and the
program counter of the updater (`updater`). Correspondence:

| In the model | In the code |
|---|---|
| `Reconcile`, `Decide` | `reconcile()`: recovery or inspection; `update()` up to its first `save()`, after the pull |
| `Drain`, `SeeDrained`, `Defer`, `Stop`, `SetAside`, `Create`, `Start`, `Watch` | the calls of `update()` in their order |
| `Recover` with `WhatToDo` | the inspections and branches of `recover()` |
| `StartOld`, `Resume`, `Commit`, `Discard`, `Restore`, `RestartOld`, `Save` | its calls, and the `save()` at the end |
| `Then`, `CallFails`, `AfterError` | a call that fails after or before its effect; `recover()` in the `except` clause |
| `Die` | the updater process dies; its memory is then the journal |
| `HealthPasses`, `HealthFails` | Docker's health check of the file that reports write |

Simplifications: one role; `recover()` sees both containers in one step; the
second `save()` of `update()`, which writes the same record, is part of `Stop`;
the repeated `recover()` when `recover()` itself fails inside `update()` is the
one of the next round; a health check in a drain does not find the file of a
report that came shortly before; the journal can always be written. The
containers of the instance bound the number of updates.

`Observations` - the trigger of `0004_observability.sql` as a function of the
row before and after a statement (`Observed`: which counters of which worker
ID), and the counters after a statement on several rows (`Counted`). It has no
variables. The seconds and buckets of the histograms are left out; `processing`,
`turnaround` and `queue_wait` count their samples.

`Cutover` - one table under both backends. It is coarser than the modules of
the backends, because its question is what one leaves to the other: a call of a
slot and its handler are one step (which may lose its reply), capacity and
policies are left out, and the copies of one message are one element of
`queue`. Every statement that sets `status` or `attempts` goes through `Write`,
which runs the trigger.

| In the model | In the code |
|---|---|
| `Restart` with `Adopt` | `init_schema` under either `QUEUE_BACKEND`: migration 0006 the first time, `broker_seed.sql` for RabbitMQ |
| `Reconcile` | `reconcile.py`, which refuses to run in SQL mode |
| `Claim(s, own)` | `claim_next_job`, through `WorkerServicer.Claim` (refused in RabbitMQ mode) or from the worker of the server itself (`own`), a process with its own `JobStore` that a switch may leave running in SQL mode |
| `TurnOn`, `TurnOff` | `RegisterConsumer` is answered, or refused by `_consumer_identity` in SQL mode |
| `Publish`, `Deliver`, `AckDelivery`, `LoseConnection` | the publisher, RabbitMQ and `consume_slot` |
| `BeginAttempt` | `begin_attempt` in the order of its tests; refused in SQL mode |
| `Verdict`, `QueueAgain` | `complete_job`, `fail_job`: a new message only if the process that runs it is in RabbitMQ mode (`BackendOf`) |
| `Abandon` | a process dies, gives up, or stops work after a refused heartbeat |

`stranded` is a history variable: the jobs that a consumer at work gave back
while the coordinator had gone back to SQL, which `docs/rabbitmq.md` forbids,
each until `reconcile.py` or a retry gives it a new generation. `error` keeps the text of
the column after the row is deleted, so that exhausted attempts can be counted.

`MCSql`, `MCUpload`, `MCUpdater`, `MCCutover` - instances for TLC.

`SqlScheduler_proofs`, `Cutover_proofs`, `UploadSession_proofs`,
`Updater_proofs` - the theorems about each. `JobTable_proofs` - lemmas about the
statements of a row that the modules with rows share. `Sums_proofs` - lemmas about
finite sums and least elements.

## 3. The runs

### The broker backend (`MCBroker`)

Two slots in one pool whose limit is one execution, so that every capacity
decision bites (in `fence` two, so that both slots may execute; `loss` has one
slot); at most one slot dies (`MaxCrashes`); and a bounded number of faults: a
broken connection, a lost call, confirm or reply, a report that fails, a drain,
a missing input file, an expiry at a bad moment.

| Run | Instance | Question | Result |
|---|---|---|---|
| `fence` | 1 retained job, 2 attempts, a limit of two executions, 1 fault | Do attempts, counts and generations keep their bounds (`TypeOK`)? Is the message of an unfinished job ever lost (`NoLostJob`)? Are attempts fenced, against late final failures too (`TokenHeldOnce`, `OnlyNewestAttemptSettles`)? Does the broker backend implement `JobLifecycle` (`KeepsPromise`)? Under fairness: is a queued job settled in the end (`JobsSettle`), and do the copies of a finished job's messages leave the outbox, the queues and the consumers (`FinishedJobsDrain`)? | holds, 0.2 million states |
| `limits` | 2 jobs, 1 attempt, 1 fault | Do two jobs or two slots ever exceed the limit of the pool or of a slot (`ExecutionLimits`)? | holds, 1.0 million states |
| `loss` | 1 slot, 1 retained job, 1 attempt, 2 faults, 1 loss of broker storage, 1 reconciliation | Do two faults in a row lose a message of an unfinished job while the broker keeps its storage, and has every queued job its message again once the storage was lost and `reconcile.py` has run (`NoLostJob`)? Running jobs are then left to `recover` | holds, 0.6 million states |
| `recover` | 2 attempts, no fault | Does it recover *every* pending job, as `docs/rabbitmq.md` says? | violated, see below |

Bounds. Two slots are needed for a duplicate to meet an attempt of another
slot, a third would add only another bystander. Two attempts make an expired
owner meet its successor and also reach the limit. Every fault is a single lost
step, and a fencing hazard needs one, to leave a request behind or to duplicate
a message: leases run out and jobs are cancelled without a fault. `loss` has two,
so that the copy of a duplicate to the retry queue may fail as well. For any
number of jobs, slots, attempts and faults the safety properties are proved
(section 5); what the bounds have to be enough for is `JobsSettle`. One job
suffices where the property is about one row and one message; `limits` has two
because its property relates jobs. Symmetry is used only in runs of safety and only in
slots and jobs that no constant tells apart.

The finding of `recover`: `broker_reconcile.sql` gives a new generation to jobs
that are queued or whose lease has already expired, and leaves valid attempts
alone, as `docs/rabbitmq.md:165-166` says. But a loss of broker storage also
cuts the consumers off: the attempt that was running stops, and its lease runs
on for minutes. In the trace the command is given in that time, the lease then
runs out, and the job is abandoned (`Abandoned`): it stays `running` with
attempts left, nobody works on it, and nothing carries it until the command is
given a second time. Line 167 says only that the same command "recovers pending
work after broker storage restoration". `ReconcileRecovers` asks for a message
for jobs that are queued or abandoned, never for a job whose attempt is valid.
`NoLostJob` states what does hold.

### The SQL backend (`MCSql`)

| Run | Instance | Question | Result |
|---|---|---|---|
| `sql_limits` | 2 jobs, 2 slots of one pool with limit 1, 1 attempt, 1 fault | `ExecutionLimits` for slots that poll | holds, 0.5 million states |
| `sql_modes` | 1 retained job, a remote and a local worker in two tiers or as preferred and fallback, 2 attempts, 1 fault, under fairness | Do both modes implement `JobLifecycle`, are attempts fenced, and does a hung, dead or drained better worker keep the job from the other (`JobsSettle`)? | holds, 0.1 million states |

One job is enough where tiers compete for it, two where capacity is counted.
Two tiers with one slot each make every order of demand, report and claim
possible. Both modes are in one run: `legacy` is chosen in `Init`.
`JobsSettle` leaves out one case, which `docs/worker-priority.md` states of the
mode without policies: a preferred worker that hangs while its reporter goes on
keeps the fallback away. `ExecutionLimits` speaks of policies, since there are
no limits without them.

### Uploads (`MCUpload`)

| Run | Instance | Question | Result |
|---|---|---|---|
| `upload_files` | 2 sessions of one named, retained request; audio up to 2 chunks, 3 chunks of volume; 2 faults | `QueuedHasInput`, `AnsweredIsQueued`, `StorageBound`, `NeverReopened` | holds |
| `upload_retry` | a named and an anonymous request, audio of at least one chunk, room for three copies, 1 upload at a time, 1 fault, under fairness | `UploadBound`; does the retry of a durable client get through (`UploadsSettle`)? | holds, 0.7 million states |
| `upload_partials` | as `upload_files`, 4 chunks of volume, 1 fault | "Only the holder of this request's session lock can touch partials" (`server.py:154`) | violated, see below |

`SmallestAudio` bounds the audio from below; it is 0, an empty upload, except in
`upload_retry`, where empty audio only multiplies the states. Two chunks distinguish an empty, a partial and a full file, and make an upload
cross `MAX_AUDIO_BYTES` and, with the remains of another, the volume's budget.
`upload_retry` has one chunk, since its question is not about sizes. Two faults
are a lost lock and a crash, or a crash of either session. Deadlock
is not checked there: once a request is deleted, or an anonymous one has been
submitted, there is nothing left to do.

The finding of `upload_partials`: the advisory lock belongs to a database
connection of its own, which nothing looks at while the audio streams. If it
breaks after the reservation, a retry of the request acquires the lock and opens
its partial file, and the first session, when it comes to line 155, removes it.
The comment is true only while that connection lives. The run also shows why
this does no harm beyond a retry: the rename of the removed file fails, and
`QueuedHasInput` holds with any number of sessions in one directory, because
each writes a file of its own and publishes it by a rename.

### The updater (`MCUpdater`)

Two slots, three containers (hence at most two updates), two releases of which
the first never becomes ready, one crash of a worker, one fault: a call that
fails with or without effect, a death of the updater, or an unreachable
coordinator.

| Run | Question | Result |
|---|---|---|
| `update` | Does the journal always lead back to a worker (`Recoverable`)? Is a task ever cut off by a replacement (`NoTaskCutOff`)? Does every update end, and does a worker serve again and again (`UpdatesEnd`, `WorkerServes`, under fairness)? | holds, 0.1 million states |
| `update_drain` | "If it is still busy, drain is cancelled" (`docs/worker-autodeploy.md:75`) | violated, see below |

Two slots are needed for a pool that is partly drained; a bad and a good
release exercise rollback, quarantine and the next release. The one fault falls
at every step, so also into every step of the recovery that another cause (a
deadline, a bad image, a crash of the worker) brought about.

The finding of `update_drain`: the worker is inspected, the image is pulled,
and `SIGUSR1` is sent to the container, whose process may have been restarted
in the meantime. The journal holds the `StartedAt` of the inspection; so when
the drain is given up, `recover()` takes the process for one that has lost the
signal, sends no `SIGUSR2`, and deletes the record. The worker then stays
drained, and since a draining worker is not healthy, later rounds wait for its
readiness. `WorkerServes` shows that this is the only way in which a worker is
left drained: `astray` records that a signal reached a process that had not
been inspected, and without it a worker serves again and again.

### The cutover (`MCCutover`)

| Run | Instance | Question | Result |
|---|---|---|---|
| `cutover` | 1 job of 2 attempts, a polling slot (which may be the server's own) and a consumer under different worker IDs, 3 restarts of the coordinator, 1 reconciliation, 1 fault, under fairness | Is the job carried by the backend in charge (`NoLostJob`), never started over a live attempt (`NoAttemptOverLive`), settled (`JobsSettle`), and true to `JobLifecycle` (`KeepsPromise`)? Does every job appear once in the counters (`JobsAccounted`), and every attempt, under its worker ID, with the documented exception of an exhausted attempt, which is an expiration and a failure (`AttemptsAccounted`, `docs/monitoring.md:64-67`)? | holds, 0.2 million states |

Three restarts are a migration, a cutover and a rollback, or a cutover, a
rollback and a return; with one attempt of either kind and one reconciliation
every backend sees what the other left. Two worker IDs let an attempt of one be
ended by the other. A second job would only compete for the slots.
The rollback procedure of `docs/rabbitmq.md` (drain, later `reconcile.py`) is
needed, and the properties say for what. If a consumer is at work
when the coordinator returns to SQL, its retryable failure queues the job
without a message and acknowledges the old one; back under RabbitMQ nothing
carries the job until `reconcile.py` runs, and not even then if a polling slot
has leased it at that moment (`stranded` in `NoLostJob` and `JobsSettle`). TLC
reaches both cases.
Without such a rollback all properties hold, also while the server's own worker
goes on claiming in SQL under a RabbitMQ coordinator: `begin_attempt` and
`claim_slot.sql` fence each other by the lease.
Deadlock is not checked: a job is done and nobody restarts anything.

Every property has a mutant in `PROJECT.json`: a definition of the model
changed as a plausible bug would change it (`Mutant...`, next to the original),
under which TLC finds the property violated.

## 4. Fairness

Only `fence`, `sql_modes`, `upload_retry`, `update` and `cutover` assume any.

`BrokerDelivery`. Weak fairness for the publisher loop, the report and
registration of a slot's reporter, the consumer loop, `process()` (inference
ends or is stopped: it has a deadline), handlers whose caller waits, the TTL of
the retry queue, leases and availability of dead slots running out: each is a
thread that runs forever, or the clock. Strong fairness for the delivery of a
message to some slot: the queue is first in, first out, so a message that is
deliverable again and again is delivered, although slots that report and
withdraw make it undeliverable in between. Not assumed: anything of a client,
an operator, a fault, or the handler of a caller that gave up; the completion
of an upload, hence `JobsSettle` speaks of jobs that are queued.

`SqlScheduler`. Weak fairness for the first report of a slot that is up (its
reporter thread retries forever), for its next `Claim` (the poll loop), for the
end of its work (inference ends, or the deadline stops it), for the handler of
a call whose caller waits, and for the clock: leases, the readiness of dead and
drained slots, and the demand of slots that are down. Not assumed: that the
demand of a slot which asks again and again runs out, that a drained slot is
resumed, that a missing input is found.

`UploadSession`. Weak fairness for every step of a session: handlers run, and
streams end or break. Strong fairness for the submission of a named request by
some session: it stands for the client, which `README.md:85` tells to retry
with the same ID and backoff; strong, because the request may be busy in
between, when another session holds its lock. Without such a client nothing
ends an interrupted upload, by design.

`Updater`. Weak fairness for the steps of the updater together (its loop goes
on after every error, Docker starts it again, and its waits have deadlines),
for the boot of a container that was started, and for its health check, which
Docker repeats, as long as the image can pass it and there is no drain. Not
assumed: that a slot ever finishes its job, or that a release is promoted.

`Cutover`. Weak fairness for the publisher (while the backend is RabbitMQ), the
loop of each slot - a claim through the API or a consumer's registration,
`BeginAttempt`, its acknowledgement and the end of its work - and the clock of leases;
strong fairness for the delivery of some message. Not assumed: that an operator
restarts, drains or reconciles anything, or that the server's own worker claims.

## 5. What is proved

Every safety property that a passing run checks is also a theorem, for any sets
of jobs, slots, sessions, containers and images (finite where something is
counted), any limits and bounds. The only assumptions are the named ones on the
constants, in the modules that declare them; TLC evaluates them in the runs.

| Module | Theorems | Rests on |
|---|---|---|
| `BrokerDelivery_proofs` | `TypeCorrect`, `NothingLost` | `TypeInv`, `LossInv` |
| `BrokerLeases_proofs` | `NewestAttemptSettles`, `PromiseKept`, `LimitsHold`, `TokensHeldOnce` | `TypeInv`, the lemma `RowsMove`, `LimitsInv`, `TokenInv` |
| `SqlScheduler_proofs` | `TypeCorrect`, `NewestAttemptSettles`, `PromiseKept`, `LimitsHold` | `TypeInv`, the lemma `RowsMove` |
| `Cutover_proofs` | `TypeCorrect`, `LiveAttemptsAlone`, `PromiseKept`, `NoJobLost`, `JobsAreAccounted`, `AttemptsAreAccounted` | `TypeInv`, the lemma `RowsMove`, `CarryInv`, `AccountInv`, `AttemptsInv` |
| `UploadSession_proofs` | `TypeCorrect`, `QueuedJobsHaveInput`, `AnswersAreFinal`, `EndsAreFinal`, `UploadsBounded`, `StorageBounded` | `UploadInv`, `TokenInv`, the lemma `UsedMove` |
| `Updater_proofs` | `TypeCorrect`, `AlwaysRecoverable`, `NoTaskIsCutOff` | `UpdaterInv` |
| `JobTable_proofs`, `Sums_proofs` | lemmas only | - |

An invariant is proved with one lemma per action; the last step combines
`Init => Inv`, `Inv /\ [Next]_vars => Inv'` and `Inv => P` by PTL. The
invariants were checked with TLC on the instances of the runs before they were
proved.

*Type correctness* is not only shapes: attempts never pass
`JOB_MAX_ATTEMPTS`, copies in a queue are never negative, and a generation
never passes `MaxAttempts + MaxReconciles` - which needs that a new
generation is paid for by an attempt (a retryable failure) or a
reconciliation. `RowShape`, in `JobTable_proofs`, is that account with what else
the status of a row says of its columns; lemmas there show it for each
statement of `JobTable` once, and the modules of both backends and of the
cutover cite them. `TypeInv` adds what a slot of each state and a request of
each kind hold.

*Attempts.* The three modules that hold rows share one argument. The lemma
`RowsMove` says that a step begins an attempt of one job (`RowStarts`: not over
a live lease, with room for the slot), or takes the verdict on one job
(`RowSettles`: on a request with the newest token), or is quiet for every row
(`QuietMove`: time, cancellation, reap, cleanup, a new generation). What each of the
three moves does to one row is proved once, in `JobTable_proofs`; fencing,
the `NoAttemptOverLive` of the cutover and each step of the refinement follow from
it. That a late verdict changes nothing rests on two more lemmas: only its
handler takes a request away (`RequestsHandled`), and the handler compares the
token with the owner of the lease (`LateVerdict`). Under the
mapping `PromiseOf` each row makes a step of its own in `JobLifecycle`, or none,
so a cleanup transaction that ends several jobs is one step of the promise.

*Limits.* `ExecutionLimits` counts leases that are live. `LimitsInv`: only the
start of an attempt makes a lease live, the capacity was counted in the same
transaction, and no heartbeat revives a lapsed lease. The proof adds one job to
a finite set; it does not depend on which slots were admitted.

*Tokens.* `TokenHeldOnce` is not inductive: the repeated `BeginAttempt` of one
delivery is told the running token once more. `TokenPlace` relates each token
that a slot holds to its row: it is not newer than the newest attempt, and as
long as that attempt runs, the row names the slot as its instance.

*Messages.* `NoLostJob` is not inductive either. In `BrokerDelivery`, the row
the publisher is about to mark published must not be the only copy counted on,
an acknowledgement may be due only for a message that is no longer needed, and
a new generation must differ from the one being published. `LossInv` says these:
every unfinished job is `Safe` - its message is in a queue or an undecided
delivery (`InBroker`), or in an outbox row not yet being published, or being
published and already in the broker - or it is `Excused` after a loss of
storage; the row being published is in the outbox; and generations reached so
far bound every message there is (`Reached`). In `Cutover` the property speaks only
of the time under RabbitMQ, but what a switch finds was decided under SQL, so
`CarryInv` follows each generation through both: a job without one waits in SQL, a
job that has one keeps its message or was `stranded`. Trying to prove an
earlier form of `NoLostJob`, which allowed a gap only until `reconcile.py` had
run, showed that it was false with three attempts: a job that was leased
in SQL when `reconcile.py` ran stays without a message whatever runs later. The
history variable `stranded` names the jobs concerned.

*Counters.* `JobsAccounted` and `AttemptsAccounted` equate sums of counters with
numbers of rows. `TallyMoves` says which changes of a row there are (a
submission, a start, an end, a deletion, none that the trigger reads), and
`SeenTallies` which counters the trigger credits for each, and to whom. In
`Observed` the owner of an attempt is read from the row before the statement, so
the credit needs `AccountInv`: only a running row has an owner, and only a row
at its end has the text of exhausted attempts. A counter then grows by the
number of rows it is credited for (`CounterGrows`), a sum of counters by the
number of rows credited to anyone, since no row is credited twice (`OneOwner`);
and each row contributes as much to one side of the equation as to the other
(`OpenMoves`, `RunMoves`), so the sides grow alike (`CountBalance`). For one
worker ID they need not: an exhausted attempt is an expiration and a failure, so
`Covered` is a bound, and the equation (`AttemptsInv`) is over all of them.

*Uploads.* `UploadInv` relates the program counters of the sessions to the
files: what a session relies on in its next step (the renamed input, the synced
entry) is there unless the job was deleted meanwhile (`InputInv`), its partial file is
whole before it is synced, and synced before it is renamed (`PartInv`), and the
cleanup has deleted the row of whichever request it works on. Nothing in it
mentions the session lock: `QueuedHasInput` does not depend on it. `UploadsBounded` strengthens the bound to all holders
of a token. `StorageBounded`: a step frees space, moves it between a partial
file, an input and an orphan, or adds one chunk that fits (`UsedMove`); `Used`
is a sum over all requests and sessions, so each case needs lemmas about sums.

*Sums.* `Sums_proofs` proves what a finite sum of the community modules
(`SumFunction`, a fold) comes to when terms change: `SumChange` for one term,
`SumMonotone` for all, `SumNat` for its type, `SumByKind` for terms sorted into
kinds; and that a cardinality is a sum of ones (`CountIsSum`), from which sets
are counted element by element (`CountBalance`, `CountBound`, `CountParts`). The library's induction theorems cannot be instantiated by the
installed provers; here induction is the least element of the set of
counterexamples (`LeastNumber`), over the cardinality, for one formula at a
time.

*The updater.* `PlaceInv` says what holds at each place of `update()` and
`recover()`: the journal names the container that the next call acts on,
and a backup is discarded only when a worker has the name. `DrainInv` follows
the drain: the process whose marker the updater waits for drains on and, once seen,
has no busy slot, as long as it is the process that was inspected; the marker
of a pool means that all of its slots wait (`PoolInv`). `astray` is not needed for
safety.

Only model-checked:

* liveness (`JobsSettle`, `FinishedJobsDrain`, `UploadsSettle`, `UpdatesEnd`, `WorkerServes`):
  fairness and `ENABLED` are out of the prover's reach;
* the properties of the three runs that expect a violation.

## 6. What is not modelled, and why

* Wording, formats, logging, metrics, tracing, authentication, TLS, parsing of
  configuration: no protocol state.
* The model run itself (`inference.py`): it ends with a result, a retryable or
  a final error, or is stopped.
* The dead-letter queue: a malformed envelope comes from no part of this code;
  consumer priorities: an order among idle slots that no safety property and
  no fairness assumption depends on.
* Schema migrations other than the trigger of 0004 and the adoption of 0006:
  added columns and tables, once, under an advisory lock.
* The metrics endpoint: read-only queries over what the other modules write.
* The reporter thread of a slot and its lock against the drain: their outcome,
  a drained slot that a lost withdrawal leaves registered, is in `SqlScheduler`.
* In `Cutover`: retained jobs and missing inputs (see the backend modules),
  capacity, and the two-fold `BeginAttempt`, which does not depend on the backend.
* Deployment scripts other than the updater (`images.py`, `worker_release.py`,
  provisioning, dashboards): sequential tooling around git and docker, run by
  one operator or one CI job at a time.
* An upload that its client abandons: cleanup asks for `finished_at`
  (`sql/cleanup.sql:2`), so such a row and its partial file stay; no doc or
  test promises otherwise.
* Data behind the properties: audio, transcripts, names, sizes in bytes.

Components that are only planned are marked as such in `PROJECT.json`.

## 7. Plan

Done: `JobTable`, `JobLifecycle`, `BrokerDelivery`, `SqlScheduler`,
`UploadSession`, `WorkerPool`, `Updater`, `Observations` and `Cutover` with
their runs; the proofs of section 5, which cover every safety property and
action property of the passing runs and the refinements of `JobLifecycle`.

Left to model, in a module of its own: the reporter threads of
`remote_worker.py` with their lock, the drain and the health file.
`docs/worker-priority.md:86` says that `/tmp/worker-drained` appears only after
every slot has withdrawn its readiness; `remote_worker.py:213` goes on when that
withdrawal fails. `SqlScheduler` shows that this delays a job but does not
keep it from the other workers.

Left to prove: what that module will promise. The liveness properties stay with
TLC.
