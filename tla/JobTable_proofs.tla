---------------------------- MODULE JobTable_proofs ----------------------------
(***************************************************************************)
(* Lemmas about the statements of JobTable, shared by the proofs about the *)
(* modules that hold rows: what the status of a row says of its other      *)
(* columns, and what of each statement a client can tell.                  *)
(***************************************************************************)
EXTENDS JobTable, TLAPS

-----------------------------------------------------------------------------
(* The invariant of a row.  Its bound on dispatch keeps every generation    *)
(* within the messages of a module: a generation is spent on the queued     *)
(* transition, on each retryable failure of an attempt that was not the     *)
(* last, and on each of recs reconciliations.  least is 1 where every       *)
(* pending job has a generation, and 0 where it may wait in SQL.            *)

\* The part of the invariant that the status of a row decides.
RowShape(row, recs, least) ==
  /\ row.lease = "live" => row.status = "running"
  /\ row.status = "running" => /\ row.instance \in Instances
                               /\ row.lease_owner = row.attempts
                               /\ row.attempts # 0
                               /\ row.dispatch \in least .. (row.attempts + recs)
  /\ row.status = "queued" => /\ row.attempts < MaxAttempts
                              /\ row.dispatch \in least .. (row.attempts + 1 + recs)
  /\ Uploading(row) => row.dispatch = 0 /\ row.attempts = 0
  /\ row.status = "absent" => row.dispatch = 0 /\ row.attempts = 0

RowInv(row, recs, least) == row \in Row /\ RowShape(row, recs, least)

\* The values that the statements write.
LEMMA WrittenValues ==
  /\ {"absent", "accepted", "downloading", "queued", "running", "done",
      "failed", "deleted"} \subseteq Statuses
  /\ {"none", "live", "lapsed", "expired"} \subseteq LeasePhases
  /\ 0 \in Tokens /\ 0 < MaxAttempts
  /\ \A a \in Tokens : a \in Nat /\ (a < MaxAttempts => a + 1 \in Tokens)
BY MaxAttemptsAssumption DEF Statuses, LeasePhases, Tokens

\* A new generation leaves a row in its type.
LEMMA DispatchType ==
  ASSUME NEW row \in Row
  PROVE  DispatchSet(row) \in Row
BY DEF Row, DispatchSet

\* A row in its starting state, and after deletion.
LEMMA FixedRows ==
  ASSUME NEW recs \in Nat, NEW least \in {0, 1}
  PROVE  RowInv(AbsentRow, recs, least) /\ RowInv(CreateSet, recs, least)
           /\ RowInv(DeletedRow, recs, least)
<1>1. AbsentRow \in Row
  BY WrittenValues DEF AbsentRow, Row
<1>2. CreateSet \in Row /\ DeletedRow \in Row
  BY <1>1, WrittenValues DEF CreateSet, DeletedRow, Row
<1>3. /\ RowShape(AbsentRow, recs, least)
      /\ RowShape(CreateSet, recs, least)
      /\ RowShape(DeletedRow, recs, least)
  BY DEF RowShape, AbsentRow, CreateSet, DeletedRow, Uploading
<1> QED
  BY <1>1, <1>2, <1>3 DEF RowInv

\* The statements of the public API and of time keep the row invariant.
LEMMA ClientRows ==
  ASSUME NEW recs \in Nat, NEW least \in {0, 1}, NEW row,
         RowInv(row, recs, least)
  PROVE  /\ Uploading(row) => RowInv(MarkDownloadingSet(row), recs, least)
         /\ Uploading(row) => RowInv(DispatchSet(MarkQueuedSet(row)), recs, least)
         /\ RowInv(EndFailedSet(row), recs, least)
         /\ Terminal(row) => RowInv(AckSet(row), recs, least)
         /\ RowInv([row EXCEPT !.lease = "lapsed"], recs, least)
         /\ RowInv([row EXCEPT !.lease = "expired"], recs, least)
         /\ row.status = "running" => RowInv([row EXCEPT !.lease = "live"], recs, least)
<1>1. row \in Row /\ RowShape(row, recs, least)
  BY DEF RowInv
<1>2. /\ MarkDownloadingSet(row) \in Row
      /\ MarkQueuedSet(row) \in Row
      /\ EndFailedSet(row) \in Row
      /\ AckSet(row) \in Row
      /\ [row EXCEPT !.lease = "lapsed"] \in Row
      /\ [row EXCEPT !.lease = "expired"] \in Row
      /\ [row EXCEPT !.lease = "live"] \in Row
  BY <1>1, WrittenValues
     DEF Row, MarkDownloadingSet, MarkQueuedSet, EndFailedSet, AckSet
<1>3. DispatchSet(MarkQueuedSet(row)) \in Row
  BY <1>2 DEF Row, DispatchSet
<1>4. /\ Uploading(row) => RowShape(MarkDownloadingSet(row), recs, least)
      /\ RowShape(EndFailedSet(row), recs, least)
      /\ Terminal(row) => RowShape(AckSet(row), recs, least)
      /\ RowShape([row EXCEPT !.lease = "lapsed"], recs, least)
      /\ RowShape([row EXCEPT !.lease = "expired"], recs, least)
      /\ row.status = "running" => RowShape([row EXCEPT !.lease = "live"], recs, least)
  BY <1>1 DEF Row, RowShape, Uploading, Terminal, MarkDownloadingSet,
              EndFailedSet, AckSet
<1>5. Uploading(row) => RowShape(DispatchSet(MarkQueuedSet(row)), recs, least)
  BY <1>1, WrittenValues DEF Row, RowShape, Uploading, MarkQueuedSet, DispatchSet
<1> QED
  BY <1>2, <1>3, <1>4, <1>5 DEF RowInv

\* So do those of the workers' API.
LEMMA AttemptRows ==
  ASSUME NEW recs \in Nat, NEW least \in {0, 1}, NEW row,
         RowInv(row, recs, least), NEW s \in Instances, NEW d \in Nat
  PROVE  /\ Pending(row) /\ row.attempts < MaxAttempts
              => RowInv(StartSet(row, s, d), recs, least)
         /\ RowInv(CompleteSet(row), recs, least)
         /\ RowInv(FailSet(row, FALSE), recs, least)
         /\ row.status = "running" /\ FailSet(row, TRUE).status = "queued"
              => RowInv(DispatchSet(FailSet(row, TRUE)), recs, least)
         /\ FailSet(row, TRUE).status # "queued"
              => RowInv(FailSet(row, TRUE), recs, least)
<1>1. row \in Row /\ RowShape(row, recs, least)
  BY DEF RowInv
<1>2. CompleteSet(row) \in Row /\ RowShape(CompleteSet(row), recs, least)
  BY <1>1, WrittenValues DEF Row, RowShape, Uploading, CompleteSet
<1>3. ASSUME NEW b \in BOOLEAN
      PROVE  /\ FailSet(row, b) \in Row
             /\ FailSet(row, b).status # "queued" => RowShape(FailSet(row, b), recs, least)
             /\ ~b => FailSet(row, b).status = "failed"
  BY <1>1, WrittenValues DEF Row, RowShape, Uploading, FailSet
<1>4. ASSUME Pending(row), row.attempts < MaxAttempts
      PROVE  RowInv(StartSet(row, s, d), recs, least)
  <2>1. row.attempts + 1 \in Tokens
    BY <1>1, <1>4, WrittenValues DEF Row
  <2>2. StartSet(row, s, d) \in Row
    BY <1>1, <2>1, WrittenValues DEF Row, StartSet
  <2>3. RowShape(StartSet(row, s, d), recs, least)
    BY <1>1, <1>4, WrittenValues
       DEF Row, RowShape, Uploading, Pending, StartSet
  <2> QED
    BY <2>2, <2>3 DEF RowInv
<1>5. ASSUME row.status = "running", FailSet(row, TRUE).status = "queued"
      PROVE  RowInv(DispatchSet(FailSet(row, TRUE)), recs, least)
  <2>1. DispatchSet(FailSet(row, TRUE)) \in Row
    BY <1>3, DispatchType
  <2>2. row.attempts < MaxAttempts
    BY <1>1, <1>5 DEF Row, FailSet
  <2>3. RowShape(DispatchSet(FailSet(row, TRUE)), recs, least)
    BY <1>1, <1>5, <2>2, WrittenValues
       DEF Row, RowShape, Uploading, FailSet, DispatchSet
  <2> QED
    BY <2>1, <2>3 DEF RowInv
<1> QED
  BY <1>2, <1>3, <1>4, <1>5 DEF RowInv

\* And a reconciliation, which allows one more generation.
LEMMA ReconciledRows ==
  ASSUME NEW recs \in Nat, NEW least \in {0, 1}, NEW row,
         RowInv(row, recs, least)
  PROVE  /\ RowInv(row, recs + 1, least)
         /\ Pending(row) => RowInv(DispatchSet(row), recs + 1, least)
<1>1. row \in Row /\ RowShape(row, recs, least)
  BY DEF RowInv
<1>2. DispatchSet(row) \in Row
  BY <1>1 DEF Row, DispatchSet
<1>3. RowShape(row, recs + 1, least)
  BY <1>1, WrittenValues DEF Row, RowShape, Uploading
<1>4. Pending(row) => RowShape(DispatchSet(row), recs + 1, least)
  BY <1>1, WrittenValues DEF Row, RowShape, Uploading, Pending, DispatchSet
<1> QED
  BY <1>1, <1>2, <1>3, <1>4 DEF RowInv

-----------------------------------------------------------------------------
(* Rows without generations: the statements of the SQL queue.              *)

\* Queueing, failing and dispatching such a row.
LEMMA SqlRows ==
  ASSUME NEW recs \in Nat, NEW row, RowInv(row, recs, 0)
  PROVE  /\ Uploading(row) => RowInv(MarkQueuedSet(row), recs, 0)
         /\ row.status = "running" => RowInv(FailSet(row, TRUE), recs, 0)
         /\ Pending(row) /\ row.dispatch = 0 => RowInv(DispatchSet(row), recs, 0)
<1>1. row \in Row /\ RowShape(row, recs, 0)
  BY DEF RowInv
<1>2. /\ MarkQueuedSet(row) \in Row
      /\ FailSet(row, TRUE) \in Row
      /\ DispatchSet(row) \in Row
  BY <1>1, WrittenValues, DispatchType DEF Row, MarkQueuedSet, FailSet
<1>3. Uploading(row) => RowShape(MarkQueuedSet(row), recs, 0)
  BY <1>1, WrittenValues DEF Row, RowShape, Uploading, MarkQueuedSet
<1>4. row.status = "running" => RowShape(FailSet(row, TRUE), recs, 0)
  BY <1>1, WrittenValues DEF Row, RowShape, Uploading, FailSet
<1>5. Pending(row) /\ row.dispatch = 0 => RowShape(DispatchSet(row), recs, 0)
  BY <1>1, WrittenValues DEF Row, RowShape, Uploading, Pending, DispatchSet
<1> QED
  BY <1>2, <1>3, <1>4, <1>5 DEF RowInv

-----------------------------------------------------------------------------
(* What a client can tell of the statements.                               *)

\* The steps of JobLifecycle, as a relation between what a client can tell of
\* a job before (p) and after (q).
Promises == [phase    : {"absent", "open", "pending", "done", "failed", "deleted"},
             attempts : 0 .. MaxAttempts,
             result   : 0 .. MaxAttempts,
             acked    : BOOLEAN]

NewPromise(phase) ==
  [phase |-> phase, attempts |-> 0, result |-> 0, acked |-> FALSE]

PromiseMove(p, q, retained) ==
  \/ q = p
  \/ p.phase = "absent" /\ q = NewPromise("open")
  \/ p.phase = "open" /\ q = [p EXCEPT !.phase = "pending"]
  \/ /\ p.phase = "pending" /\ p.attempts < MaxAttempts
     /\ q = [p EXCEPT !.attempts = @ + 1]
  \/ /\ p.phase = "pending" /\ p.attempts > 0
     /\ q = [p EXCEPT !.phase = "done", !.result = p.attempts]
  \/ p.phase \in {"open", "pending"} /\ q = [p EXCEPT !.phase = "failed"]
  \/ p.phase \in {"done", "failed"} /\ q = [p EXCEPT !.acked = TRUE]
  \/ /\ p.phase \in {"done", "failed"} /\ (retained => p.acked)
     /\ q = NewPromise("deleted")

Keeps(old, new, retained) ==
  PromiseMove(PromiseOf(old), PromiseOf(new), retained)

\* The phases of rows.
LEMMA Phases ==
  ASSUME NEW row
  PROVE  /\ Uploading(row) => PromiseOf(row).phase = "open"
         /\ Pending(row) => PromiseOf(row).phase = "pending"
         /\ ~Uploading(row) /\ ~Pending(row) => PromiseOf(row).phase = row.status
         /\ PromiseOf(row).attempts = row.attempts
         /\ PromiseOf(row).result = row.result
         /\ PromiseOf(row).acked = row.acked
BY DEF PromiseOf, Uploading, Pending

\* A row that only changed its status within a phase, or columns that a client
\* cannot see, looks the same.
LEMMA SamePromise ==
  ASSUME NEW old, NEW new, NEW retained,
         new.attempts = old.attempts, new.result = old.result,
         new.acked = old.acked,
         \/ new.status = old.status
         \/ Uploading(new) /\ Uploading(old)
         \/ Pending(new) /\ Pending(old)
  PROVE  Keeps(old, new, retained)
BY DEF Keeps, PromiseMove, PromiseOf, Uploading, Pending

\* A promise has one of the phases.
LEMMA PromiseType ==
  ASSUME NEW row \in Row
  PROVE  PromiseOf(row) \in Promises
BY DEF Promises, PromiseOf, Row, Statuses, Tokens, Uploading, Pending

\* Submission, time and the ends that need no owner keep the promise.
LEMMA ClientPromises ==
  ASSUME NEW row \in Row, NEW retained
  PROVE  /\ row.status = "absent" => Keeps(row, CreateSet, retained)
         /\ Uploading(row) => Keeps(row, MarkDownloadingSet(row), retained)
         /\ Uploading(row) => Keeps(row, MarkQueuedSet(row), retained)
         /\ Uploading(row) => Keeps(row, DispatchSet(MarkQueuedSet(row)), retained)
         /\ Keeps(row, DispatchSet(row), retained)
         /\ Uploading(row) \/ Pending(row) => Keeps(row, EndFailedSet(row), retained)
         /\ Terminal(row) => Keeps(row, AckSet(row), retained)
         /\ CleanupWhere(row, retained) => Keeps(row, DeletedRow, retained)
         /\ Keeps(row, row, retained)
         /\ \A phase : Keeps(row, [row EXCEPT !.lease = phase], retained)
<1>1. row.status = "absent" => Keeps(row, CreateSet, retained)
  <2>1. PromiseOf(CreateSet) = NewPromise("open")
    BY DEF PromiseOf, CreateSet, AbsentRow, Uploading, Pending, NewPromise
  <2> QED
    BY <2>1, Phases DEF Keeps, PromiseMove, Uploading, Pending
<1>2. Uploading(row) => Keeps(row, MarkDownloadingSet(row), retained)
  BY SamePromise DEF Row, MarkDownloadingSet, Uploading
<1>3. ASSUME Uploading(row), NEW new, new.status = "queued",
             new.attempts = row.attempts, new.result = row.result,
             new.acked = row.acked
      PROVE  Keeps(row, new, retained)
  BY <1>3 DEF Keeps, PromiseMove, PromiseOf, Uploading, Pending
<1>4. Uploading(row) => /\ Keeps(row, MarkQueuedSet(row), retained)
                        /\ Keeps(row, DispatchSet(MarkQueuedSet(row)), retained)
  BY <1>3 DEF Row, MarkQueuedSet, DispatchSet
<1>5. Keeps(row, DispatchSet(row), retained)
  BY SamePromise DEF Row, DispatchSet
<1>6. Uploading(row) \/ Pending(row) => Keeps(row, EndFailedSet(row), retained)
  BY DEF Row, EndFailedSet, Keeps, PromiseMove, PromiseOf, Uploading, Pending
<1>7. Terminal(row) => Keeps(row, AckSet(row), retained)
  <2>1. ASSUME Terminal(row)
        PROVE  PromiseOf(AckSet(row)) = [PromiseOf(row) EXCEPT !.acked = TRUE]
    <3>1. /\ AckSet(row).status = row.status
          /\ AckSet(row).attempts = row.attempts
          /\ AckSet(row).result = row.result
          /\ AckSet(row).acked = TRUE
      BY DEF Row, AckSet
    <3>2. \A r : r.status = row.status =>
            PromiseOf(r) = [phase |-> row.status, attempts |-> r.attempts,
                            result |-> r.result, acked |-> r.acked]
      BY <2>1 DEF PromiseOf, Uploading, Pending, Terminal
    <3> QED
      BY <3>1, <3>2
  <2>2. Terminal(row) => PromiseOf(row).phase \in {"done", "failed"}
    BY Phases DEF Uploading, Pending, Terminal
  <2> QED
    BY <2>1, <2>2 DEF Keeps, PromiseMove
<1>8. CleanupWhere(row, retained) => Keeps(row, DeletedRow, retained)
  <2>1. PromiseOf(DeletedRow) = NewPromise("deleted")
    BY DEF PromiseOf, DeletedRow, AbsentRow, Uploading, Pending, NewPromise
  <2> QED
    BY <2>1, Phases DEF Keeps, PromiseMove, CleanupWhere, Terminal, Uploading, Pending
<1>9. Keeps(row, row, retained)
  BY DEF Keeps, PromiseMove
<1>10. ASSUME NEW phase
       PROVE  Keeps(row, [row EXCEPT !.lease = phase], retained)
  BY SamePromise DEF Row
<1> QED
  BY <1>1, <1>2, <1>4, <1>5, <1>6, <1>7, <1>8, <1>9, <1>10

\* So do the statements of attempts.
LEMMA AttemptPromises ==
  ASSUME NEW recs \in Nat, NEW least \in {0, 1}, NEW row,
         RowInv(row, recs, least), NEW retained
  PROVE  /\ \A s, d : Pending(row) /\ row.attempts < MaxAttempts
                     => Keeps(row, StartSet(row, s, d), retained)
         /\ row.status = "running" => Keeps(row, CompleteSet(row), retained)
         /\ \A b \in BOOLEAN :
              \/ row.status = "running"
              \/ Uploading(row) /\ ~b
              => /\ Keeps(row, FailSet(row, b), retained)
                 /\ Keeps(row, DispatchSet(FailSet(row, b)), retained)
<1>1. /\ row \in Row /\ row.attempts \in Nat
      /\ row.status = "running" => row.lease_owner = row.attempts /\ row.attempts # 0
  BY WrittenValues DEF RowInv, RowShape, Row
<1>2. ASSUME Pending(row), row.attempts < MaxAttempts, NEW s, NEW d
      PROVE  Keeps(row, StartSet(row, s, d), retained)
  BY <1>1, <1>2 DEF Row, StartSet, Keeps, PromiseMove, PromiseOf, Uploading, Pending
<1>3. row.status = "running" => Keeps(row, CompleteSet(row), retained)
  <2>1. ASSUME row.status = "running"
        PROVE  PromiseOf(CompleteSet(row)) =
                 [PromiseOf(row) EXCEPT !.phase = "done",
                                        !.result = PromiseOf(row).attempts]
    <3>1. /\ CompleteSet(row).status = "done"
          /\ CompleteSet(row).attempts = row.attempts
          /\ CompleteSet(row).result = row.attempts
          /\ CompleteSet(row).acked = row.acked
      BY <1>1, <2>1 DEF Row, CompleteSet
    <3>2. CompleteSet(row) \in Row /\ CompleteSet(row).result \in Tokens
      BY <1>1, <2>1, WrittenValues DEF Row, CompleteSet
    <3>3. /\ PromiseOf(row) \in Promises
          /\ PromiseOf(CompleteSet(row)) \in Promises
      BY <1>1, <3>2, PromiseType
    <3>4. /\ PromiseOf(CompleteSet(row)).phase = "done"
          /\ PromiseOf(CompleteSet(row)).attempts = PromiseOf(row).attempts
          /\ PromiseOf(CompleteSet(row)).result = PromiseOf(row).attempts
          /\ PromiseOf(CompleteSet(row)).acked = PromiseOf(row).acked
      BY <3>1, Phases DEF Uploading, Pending
    <3> QED
      BY <3>3, <3>4 DEF Promises
  <2>2. row.status = "running" => /\ PromiseOf(row).phase = "pending"
                                 /\ PromiseOf(row).attempts > 0
    BY <1>1, Phases DEF Pending
  <2> QED
    BY <2>1, <2>2 DEF Keeps, PromiseMove
<1>4. ASSUME NEW b \in BOOLEAN,
             row.status = "running" \/ (Uploading(row) /\ ~b),
             NEW new, new.status = FailSet(row, b).status,
             new.attempts = row.attempts, new.result = row.result,
             new.acked = row.acked
      PROVE  Keeps(row, new, retained)
  <2>1. CASE new.status = "queued"
    <3>1. Pending(row) /\ Pending(new)
      BY <1>1, <1>4, <2>1 DEF FailSet, Row, Pending
    <3> QED
      BY <1>4, <3>1, SamePromise
  <2>2. CASE new.status = "failed"
    BY <1>4, <2>2 DEF Keeps, PromiseMove, PromiseOf, Uploading, Pending
  <2> QED
    BY <1>1, <1>4, <2>1, <2>2 DEF FailSet, Row
<1>5. \A b \in BOOLEAN :
        /\ DispatchSet(FailSet(row, b)).status = FailSet(row, b).status
        /\ \A new \in {FailSet(row, b), DispatchSet(FailSet(row, b))} :
             /\ new.attempts = row.attempts /\ new.result = row.result
             /\ new.acked = row.acked
  BY <1>1 DEF Row, FailSet, DispatchSet
<1> QED
  BY <1>2, <1>3, <1>4, <1>5

-----------------------------------------------------------------------------
(* What may happen to a row.  A step of any module does one of three things *)
(* to it: the proofs about leases and promises look no further.             *)

\* No attempt begins, and none is settled by its worker.
QuietMove(old, new, retained) ==
  \/ new = old
  \/ old.status = "absent" /\ new = CreateSet
  \/ /\ Uploading(old)
     /\ new \in {MarkDownloadingSet(old), MarkQueuedSet(old),
                 DispatchSet(MarkQueuedSet(old))}
  \/ Pending(old) /\ new = DispatchSet(old)
  \/ (Uploading(old) \/ Pending(old)) /\ new = EndFailedSet(old)
  \/ Terminal(old) /\ new = AckSet(old)
  \/ CleanupWhere(old, retained) /\ new = DeletedRow
  \/ \E phase \in {"lapsed", "expired"} : new = [old EXCEPT !.lease = phase]
  \/ Live(old) /\ new = [old EXCEPT !.lease = "live"]

\* An attempt begins, in slot s.
StartMove(old, new, s, d) ==
  /\ Pending(old) /\ ~Live(old) /\ old.attempts < MaxAttempts
  /\ new = StartSet(old, s, d)

\* The worker's verdict is taken.
VerdictMove(old, new) ==
  /\ old.status = "running"
  /\ \/ new = CompleteSet(old)
     \/ \E b \in BOOLEAN :
          new = FailSet(old, b) \/ new = DispatchSet(FailSet(old, b))

\* A failure for good leaves the row of any other end.
LEMMA FinalFailure ==
  ASSUME NEW row
  PROVE  FailSet(row, FALSE) = EndFailedSet(row)
BY DEF FailSet, EndFailedSet

\* Attempts grow and leases come to life only where an attempt begins.
LEMMA QuietMoves ==
  ASSUME NEW recs \in Nat, NEW least \in {0, 1}, NEW old, NEW new,
         NEW retained,
         RowInv(old, recs, least), QuietMove(old, new, retained)
  PROVE  /\ Keeps(old, new, retained)
         /\ Live(new) => Live(old) /\ new.instance = old.instance
         /\ \/ new.status = "deleted" /\ new.attempts = 0
            \/ /\ new.attempts = old.attempts
               /\ old.status = "deleted" => new.status = "deleted"
               /\ new.status = "running" => /\ old.status = "running"
                                            /\ new.instance = old.instance
         /\ old.status = "running" => new.status \notin {"queued", "done"}
<1>1. old \in Row /\ RowShape(old, recs, least)
  BY DEF RowInv
<1>2. Keeps(old, new, retained)
  <2>1. /\ old.status = "absent" => Keeps(old, CreateSet, retained)
        /\ Uploading(old) => Keeps(old, MarkDownloadingSet(old), retained)
        /\ Uploading(old) => Keeps(old, MarkQueuedSet(old), retained)
        /\ Uploading(old) => Keeps(old, DispatchSet(MarkQueuedSet(old)), retained)
        /\ Keeps(old, DispatchSet(old), retained)
        /\ Uploading(old) \/ Pending(old) => Keeps(old, EndFailedSet(old), retained)
        /\ Terminal(old) => Keeps(old, AckSet(old), retained)
        /\ Keeps(old, old, retained)
        /\ \A phase : Keeps(old, [old EXCEPT !.lease = phase], retained)
    BY <1>1, ClientPromises
  <2>2. CleanupWhere(old, retained) => Keeps(old, DeletedRow, retained)
    BY <1>1, ClientPromises
  <2> QED
    BY <2>1, <2>2 DEF QuietMove
<1>3. CASE new = old
  BY <1>2, <1>3
<1>4. CASE old.status = "absent" /\ new = CreateSet
  BY <1>1, <1>2, <1>4 DEF CreateSet, AbsentRow, RowShape, Live
<1>5. CASE /\ Uploading(old)
           /\ new \in {MarkDownloadingSet(old), MarkQueuedSet(old),
                       DispatchSet(MarkQueuedSet(old))}
  BY <1>1, <1>2, <1>5
     DEF Row, Uploading, Live, MarkDownloadingSet, MarkQueuedSet, DispatchSet
<1>6. CASE Pending(old) /\ new = DispatchSet(old)
  BY <1>1, <1>2, <1>6 DEF Row, Pending, Live, DispatchSet
<1>7. CASE (Uploading(old) \/ Pending(old)) /\ new = EndFailedSet(old)
  BY <1>1, <1>2, <1>7 DEF Row, Uploading, Pending, Live, EndFailedSet
<1>8. CASE Terminal(old) /\ new = AckSet(old)
  BY <1>1, <1>2, <1>8 DEF Row, Terminal, Live, AckSet
<1>9. CASE CleanupWhere(old, retained) /\ new = DeletedRow
  <2>1. new.status = "deleted" /\ new.attempts = 0
    BY <1>9 DEF DeletedRow, AbsentRow
  <2> QED
    BY <1>2, <2>1 DEF Live
<1>10. CASE \E phase \in {"lapsed", "expired"} : new = [old EXCEPT !.lease = phase]
  BY <1>1, <1>2, <1>10 DEF Row, Live
<1>11. CASE Live(old) /\ new = [old EXCEPT !.lease = "live"]
  BY <1>1, <1>2, <1>11 DEF Row, Live
<1> QED
  BY <1>3, <1>4, <1>5, <1>6, <1>7, <1>8, <1>9, <1>10, <1>11 DEF QuietMove

\* The start of an attempt: over no live one, and counted.
LEMMA StartMoves ==
  ASSUME NEW recs \in Nat, NEW least \in {0, 1}, NEW old, NEW new, NEW s, NEW d,
         RowInv(old, recs, least), StartMove(old, new, s, d)
  PROVE  /\ \A retained : Keeps(old, new, retained)
         /\ ~Live(old) /\ Live(new)
         /\ new.attempts = old.attempts + 1 /\ new.status = "running"
         /\ new.instance = s
BY AttemptPromises DEF StartMove, StartSet, Live, RowInv, Row

\* What a verdict stores is the result of the newest attempt.
LEMMA VerdictMoves ==
  ASSUME NEW recs \in Nat, NEW least \in {0, 1}, NEW old, NEW new,
         RowInv(old, recs, least), VerdictMove(old, new)
  PROVE  /\ \A retained : Keeps(old, new, retained)
         /\ ~Live(new)
         /\ new.attempts = old.attempts
         /\ new.status \notin {"running", "deleted"}
         /\ new.status = "done" => new.result = old.attempts
<1>1. old \in Row /\ RowShape(old, recs, least) /\ old.status = "running"
  BY DEF RowInv, VerdictMove
<1>2. \A retained : Keeps(old, new, retained)
  BY <1>1, AttemptPromises DEF VerdictMove
<1>3. CASE new = CompleteSet(old)
  BY <1>1, <1>2, <1>3 DEF Row, RowShape, Live, CompleteSet
<1>4. CASE \E b \in BOOLEAN :
             new = FailSet(old, b) \/ new = DispatchSet(FailSet(old, b))
  <2>1. /\ new.status \in {"queued", "failed"}
        /\ new.attempts = old.attempts
    BY <1>1, <1>4 DEF Row, FailSet, DispatchSet
  <2> QED
    BY <1>2, <2>1 DEF Live
<1> QED
  BY <1>3, <1>4 DEF VerdictMove

=============================================================================
