------------------------------- MODULE JobTable -------------------------------
(***************************************************************************)
(* One row of the table transcription_jobs and the statements that change  *)
(* it (src/whisper/sql and src/whisper/storage.py).  A statement           *)
(* "UPDATE ... SET S WHERE W" is a pair of operators: XWhere is its        *)
(* condition, XSet the row it leaves.  The modules that hold rows          *)
(* (BrokerDelivery and its successors) build their actions from these.     *)
(*                                                                         *)
(* Abstractions of the data:                                               *)
(*   - lease_owner is '<worker>/<uuid4>', made afresh whenever an attempt  *)
(*     starts.  attempts grows by one at that same moment, so the number   *)
(*     of the attempt names the token; 0 is the empty string.              *)
(*   - dispatch_id is a fresh uuid4 per outbox generation: the number of   *)
(*     the generation, 0 for the empty string.                             *)
(*   - lease_expires_at is seen only through comparisons with a clock.     *)
(*     Statements that read clock_timestamp() see the present.  Those      *)
(*     that read NOW() see the moment their transaction began, which may   *)
(*     precede the expiry when the statement waited for a row lock: the    *)
(*     phase "lapsed" is the period in which such a transaction can still  *)
(*     exist, "expired" the one after it.                                  *)
(*   - finished_at is set exactly in the terminal statuses; text,          *)
(*     segments and result_path are the number of the attempt that         *)
(*     produced them, 0 for none.                                          *)
(***************************************************************************)
EXTENDS Integers

CONSTANTS
  Instances,    \* instance UUIDs of the execution slots
  NoInstance,   \* the empty assigned_instance_id
  MaxAttempts   \* JOB_MAX_ATTEMPTS, copied into every row

\* JobStore.__init__ refuses a smaller value.
ASSUME MaxAttemptsAssumption == MaxAttempts \in Nat \ {0}

ASSUME NoInstanceAssumption == NoInstance \notin Instances

Statuses == {"absent", "accepted", "downloading", "queued", "running",
             "done", "failed", "deleted"}

LeasePhases == {"none", "live", "lapsed", "expired"}

Tokens == 0 .. MaxAttempts

Row == [status      : Statuses,
        attempts    : Tokens,
        lease_owner : Tokens,
        lease       : LeasePhases,
        instance    : Instances \cup {NoInstance},
        dispatch    : Nat,
        delivery    : Nat,
        result      : Tokens,
        acked       : BOOLEAN]

AbsentRow == [status |-> "absent", attempts |-> 0, lease_owner |-> 0,
              lease |-> "none", instance |-> NoInstance, dispatch |-> 0,
              delivery |-> 0, result |-> 0, acked |-> FALSE]

-----------------------------------------------------------------------------
(* Conditions the statements share.                                        *)

Uploading(row) == row.status \in {"accepted", "downloading"}
Pending(row)   == row.status \in {"queued", "running"}
Terminal(row)  == row.status \in {"done", "failed"}
Exists(row)    == row.status \notin {"absent", "deleted"}

\* status = 'running' AND lease_expires_at > clock_timestamp()
Live(row) == row.status = "running" /\ row.lease = "live"

\* What lease_expires_at > NOW() may evaluate to.
SeenLive(row) == CASE row.lease = "live"   -> {TRUE}
                   [] row.lease = "lapsed" -> BOOLEAN
                   [] OTHER                -> {FALSE}

-----------------------------------------------------------------------------
(* Submission.                                                             *)

CreateSet == [AbsentRow EXCEPT !.status = "accepted"]

MarkDownloadingSet(row) == [row EXCEPT !.status = "downloading"]

MarkQueuedSet(row) == [row EXCEPT !.status = "queued"]

\* _enqueue: a new generation (the outbox row is inserted with it).
DispatchSet(row) == [row EXCEPT !.dispatch = @ + 1]

-----------------------------------------------------------------------------
(* Attempts.                                                               *)

\* broker_start.sql: one more attempt, under a new token.
StartSet(row, instance, delivery) ==
  [row EXCEPT !.status = "running", !.attempts = @ + 1,
              !.lease_owner = row.attempts + 1, !.lease = "live",
              !.instance = instance, !.delivery = delivery]

MutantCompleteWhere(row, token, seenLive) ==   \* by anyone
  row.status = "running" /\ seenLive

CompleteWhere(row, token, seenLive) ==
  row.lease_owner = token /\ row.status = "running" /\ seenLive

CompleteSet(row) ==
  [row EXCEPT !.status = "done", !.result = row.lease_owner,
              !.lease_owner = 0, !.lease = "none"]

MutantFailWhere(row, token, seenLive) ==   \* by anyone
  \/ row.status = "running" /\ seenLive
  \/ token = 0 /\ Uploading(row)

FailWhere(row, token, seenLive) ==
  /\ row.lease_owner = token
  /\ \/ row.status = "running" /\ seenLive
     \/ token = 0 /\ Uploading(row)

FailSet(row, retryable) ==
  [row EXCEPT !.status = IF retryable /\ row.attempts < MaxAttempts
                           THEN "queued" ELSE "failed",
              !.lease_owner = 0, !.lease = "none"]

\* heartbeat.sql; it writes the lease back to its full length.
MutantHeartbeatWhere(row, token) ==   \* reads NOW() and takes no lock
  row.lease_owner = token /\ row.status = "running" /\ TRUE \in SeenLive(row)

HeartbeatWhere(row, token) ==
  row.lease_owner = token /\ row.status = "running" /\ row.lease = "live"

-----------------------------------------------------------------------------
(* Ends that need no owner.                                                *)

MutantCancelWhere(row) == Exists(row)

CancelWhere(row) == Exists(row) /\ ~Terminal(row)

\* cancel_job, reap.sql and broker_exhausted.sql leave the same row.
EndFailedSet(row) ==
  [row EXCEPT !.status = "failed", !.lease_owner = 0, !.lease = "none"]

\* reap.sql, by what lease_expires_at < NOW() evaluated to.
ReapWhere(row, seenLive) ==
  row.status = "running" /\ row.attempts >= MaxAttempts /\ ~seenLive

AckWhere(row) == Terminal(row)

AckSet(row) == [row EXCEPT !.acked = TRUE]

MutantCleanupWhere(row, retain) == Terminal(row)   \* age alone

\* cleanup.sql for a row that is old enough.
CleanupWhere(row, retain) == Terminal(row) /\ (~retain \/ row.acked)

DeletedRow == [AbsentRow EXCEPT !.status = "deleted"]

-----------------------------------------------------------------------------
(* The refinement mapping to JobLifecycle.                                 *)

\* What a client can tell of a row.
PromiseOf(row) ==
  [phase    |-> CASE Uploading(row) -> "open"
                  [] Pending(row)   -> "pending"
                  [] OTHER          -> row.status,
   attempts |-> row.attempts,
   result   |-> row.result,
   acked    |-> row.acked]

=============================================================================
