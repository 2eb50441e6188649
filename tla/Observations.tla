----------------------------- MODULE Observations -----------------------------
(***************************************************************************)
(* The counters of migration 0004_observability.sql: a trigger on          *)
(* transcription_jobs compares the row before and after each INSERT or     *)
(* UPDATE, in the transaction of that statement, and adds one to a counter *)
(* of a worker ID.  A module with rows gives itself the variable obs and   *)
(* sets it to Counted whenever it changes the status or attempts of rows.  *)
(*                                                                         *)
(* The seconds and buckets of the histograms are left out: queue_wait,     *)
(* processing and turnaround are here the numbers of their samples.  No    *)
(* row is older than the migration.                                        *)
(***************************************************************************)
EXTENDS JobTable, FiniteSets, FiniteSetsExt

CONSTANTS
  Jobs,
  Pools,    \* worker IDs
  PoolOf,   \* the worker ID each instance runs under
  Ingress   \* 'ingress', credited with what no worker owned

ASSUME ObservationsAssumption ==
  /\ IsFiniteSet(Jobs) /\ IsFiniteSet(Pools)
  /\ PoolOf \in [Instances -> Pools]
  /\ Ingress \notin Pools

Creditors == Pools \cup {Ingress}

Events == {"submitted", "queue_wait", "attempts", "retries", "lease_expirations",
           "attempt_failures", "completed", "processing", "turnaround",
           "failed", "cancelled"}

\* The texts of the column error that the trigger tells apart.
Errors == {"none", "cancelled", "attempts_exhausted", "other"}

NoObservations == [w \in Creditors |-> [e \in Events |-> 0]]

\* SPLIT_PART(lease_owner, '/', 1), with the default of transcriber_observe.
Owner(row) == IF row.lease_owner = 0 THEN Ingress ELSE PoolOf[row.instance]

Begins(old, new) == new.attempts > old.attempts

\* The lease ran out: another attempt takes over, or none is left.
Expires(old, new, error) ==
  /\ old.status = "running"
  /\ \/ Begins(old, new)
     \/ new.status = "failed" /\ error = "attempts_exhausted"

MutantFails(old, new, error) ==   \* takes a cancellation for a failure
  old.status = "running" /\ new.status \in {"queued", "failed"}

Fails(old, new, error) ==
  /\ old.status = "running"
  /\ new.status \in {"queued", "failed"}
  /\ error # "cancelled"

Completes(old, new) == new.status = "done" /\ old.status # "done"

MutantClosing(old, new, error) ==   \* only the ends of attempts
  CASE Completes(old, new) -> {"completed", "processing", "turnaround"}
    [] new.status = "failed" /\ old.status = "running"
         -> {IF error = "cancelled" THEN "cancelled" ELSE "failed"}
    [] OTHER -> {}

\* Credited to whoever owned the job before.
Closing(old, new, error) ==
  CASE Completes(old, new) -> {"completed", "processing", "turnaround"}
    [] new.status = "failed" /\ ~Terminal(old)
         -> {IF error = "cancelled" THEN "cancelled" ELSE "failed"}
    [] OTHER -> {}

\* What transcriber_observe_job counts for one changed row, error being the
\* text the statement leaves in it.
Observed(old, new, error) ==
  IF old.status = "absent" /\ new.status # "absent" THEN {<<Ingress, "submitted">>}
  ELSE IF new.status = "deleted" THEN {}
  ELSE
    {<<Owner(new), e>> : e \in
       IF Begins(old, new)
         THEN {"attempts", IF new.attempts > 1 THEN "retries" ELSE "queue_wait"}
         ELSE {}}
    \cup
    {<<Owner(old), e>> : e \in
       (IF Expires(old, new, error) THEN {"lease_expirations"} ELSE {})
         \cup (IF Fails(old, new, error) THEN {"attempt_failures"} ELSE {})
         \cup Closing(old, new, error)}

\* The counters after the rows went from old to new.
Counted(obs, old, new, error) ==
  LET seen == [j \in Jobs |-> Observed(old[j], new[j], error[j])] IN
  [w \in Creditors |-> [e \in Events |->
     obs[w][e] + Cardinality({j \in Jobs : <<w, e>> \in seen[j]})]]

Total(obs, e) == SumFunction([w \in Creditors |-> obs[w][e]])

=============================================================================
