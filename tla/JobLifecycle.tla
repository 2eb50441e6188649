----------------------------- MODULE JobLifecycle -----------------------------
(***************************************************************************)
(* What the service promises to its clients about a job, whichever queue   *)
(* backend runs it: the statuses GetStatus can report one after another,   *)
(* the attempt a result comes from, and when the record may disappear.     *)
(* Queues, leases, workers and messages do not appear; BrokerDelivery is   *)
(* shown to implement this module.                                         *)
(*                                                                         *)
(* "open" stands for accepted and downloading, "pending" for queued and    *)
(* running: a retry or a redelivery is not visible here.                   *)
(***************************************************************************)
EXTENDS Naturals

CONSTANTS
  Jobs,
  RetainedJobs,   \* submitted with retain_until_ack
  MaxAttempts     \* JOB_MAX_ATTEMPTS

VARIABLE job

Promise == [phase    : {"absent", "open", "pending", "done", "failed", "deleted"},
            attempts : 0 .. MaxAttempts,
            result   : 0 .. MaxAttempts,
            acked    : BOOLEAN]

NewJob(phase) == [phase |-> phase, attempts |-> 0, result |-> 0, acked |-> FALSE]

Init == job = [j \in Jobs |-> NewJob("absent")]

Becomes(j, promise) == job'[j] = promise

Submit(j) == /\ job[j].phase = "absent"
             /\ Becomes(j, NewJob("open"))

Queue(j) == /\ job[j].phase = "open"
            /\ Becomes(j, [job[j] EXCEPT !.phase = "pending"])

\* An execution is started: at most MaxAttempts times.
Attempt(j) == /\ job[j].phase = "pending"
              /\ job[j].attempts < MaxAttempts
              /\ Becomes(j, [job[j] EXCEPT !.attempts = @ + 1])

\* A result is stored once, and it is that of the newest execution.
Finish(j) == /\ job[j].phase = "pending"
             /\ job[j].attempts > 0
             /\ Becomes(j, [job[j] EXCEPT !.phase = "done",
                                          !.result = job[j].attempts])

\* Cancelled, refused, or out of attempts: no result.
Fail(j) == /\ job[j].phase \in {"open", "pending"}
           /\ Becomes(j, [job[j] EXCEPT !.phase = "failed"])

Acknowledge(j) == /\ job[j].phase \in {"done", "failed"}
                  /\ Becomes(j, [job[j] EXCEPT !.acked = TRUE])

\* Only a finished record disappears, a retained one only after Ack.
Purge(j) == /\ job[j].phase \in {"done", "failed"}
            /\ j \in RetainedJobs => job[j].acked
            /\ Becomes(j, NewJob("deleted"))

Step(j) == \/ Submit(j) \/ Queue(j) \/ Attempt(j) \/ Finish(j) \/ Fail(j)
           \/ Acknowledge(j) \/ Purge(j)

\* Cleanup ends several jobs in one transaction, so jobs step independently.
Next == /\ job' \in [Jobs -> Promise]
        /\ \A j \in Jobs : Step(j) \/ Becomes(j, job[j])

Spec == Init /\ [][Next]_job

=============================================================================
