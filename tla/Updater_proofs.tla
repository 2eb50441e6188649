---------------------------- MODULE Updater_proofs ----------------------------
(***************************************************************************)
(* Proofs about Updater, for any numbers of containers, slots, images and  *)
(* faults: that the journal leads back to a worker wherever the updater    *)
(* dies or a call of the Docker API fails, and that no process that showed *)
(* its marker is stopped with a slot at work.                              *)
(***************************************************************************)
EXTENDS Updater, Sums_proofs

-----------------------------------------------------------------------------
(* The inductive invariant, by parts.                                      *)

\* TypeOK, but for what it says of the journal.
TypeInv ==
  /\ pool \in [Containers -> Pool] /\ restarts \in 0 .. MaxRestarts
  /\ named \in [Containers -> {"none", "worker", "backup"}]
  /\ image \in [Containers -> Images] /\ approved \in Images
  /\ status \in [Containers -> {"starting", "healthy", "unhealthy"}]
  /\ updater \in UpdaterState
  /\ pending \in Journal \cup {NothingPending}
  /\ failed \in Images \cup {NoImage}
  /\ astray \in BOOLEAN /\ faults \in 0 .. MaxFaults

\* The marker stands for a whole process that waits.
MarkerShape(p) ==
  /\ p.up # "up" => ~p.marker
  /\ p.marker => p.drained = Slots
  /\ \A s \in p.drained : p.pc[s] \in {"wait", "unmark"}

PoolInv == \A c \in Containers : MarkerShape(pool[c])

\* What the names say: only a worker runs, there is at most one, and the journal
\* names the backup, the more so when there is no worker.
NamesInv ==
  /\ \A c \in Containers : pool[c].up # "down" => c \in Workers
  /\ \A c, d \in Workers : c = d
  /\ \A c \in Containers : named[c] = "backup" => pending.old = c
  /\ Workers = {} => \E c \in Containers : named[c] = "backup"

\* What the next call of the updater can rely on.
PlaceInv ==
  /\ At("pull") => pending = NothingPending /\ updater.seen.id \in Workers
  /\ updater.pc \notin {"idle", "pull"} => pending # NothingPending
  /\ updater.pc \in {"drain", "wait", "stop", "rename", "startOld", "resume",
                     "restart", "quarantine"} => pending.old \in Workers
  /\ At("rename") => pool[pending.old].up = "down"
  /\ updater.pc \in {"create", "restore"} => Workers = {}
  /\ updater.pc \in {"drain", "wait", "stop", "rename", "create"} => Unused # {}
  /\ At("commit") => Workers # {} /\ pending.old \notin Workers
  /\ At("discard") => named[pending.old] = "backup"
  /\ At("save") => Workers # {} /\ named[pending.old] # "backup"

\* A process whose marker the updater looks for, or has seen, drains on.
DrainInv ==
  /\ At("wait") => (pool[pending.old].marker => pool[pending.old].drain)
  /\ At("stop") =>
       /\ updater.drainedAt <= pool[pending.old].starts
       /\ (updater.drainedAt = pool[pending.old].starts
             => pool[pending.old].drain
                /\ \A s \in Slots : pool[pending.old].pc[s] # "busy")

UpdaterInv == TypeInv /\ PoolInv /\ NamesInv /\ PlaceInv /\ DrainInv

-----------------------------------------------------------------------------
(* Processes.                                                              *)

\* What a worker does to its process, which runs: it starts anew, without a
\* marker; or it goes on under the same signals, marks itself drained only in
\* a drain, and takes no job in a drain.
WorkerMove(p, q) ==
  /\ q \in Pool /\ MarkerShape(q) /\ p.up # "down" /\ q.up # "down"
  /\ \/ q.starts = p.starts + 1 /\ ~q.marker
     \/ /\ q.starts = p.starts /\ q.drain = p.drain
        /\ q.marker => p.marker \/ q.drain
        /\ \A s \in Slots : q.pc[s] = "busy" => p.pc[s] = "busy" \/ ~p.drain

\* Starting, stopping and signalling keep a process what it is.
LEMMA ProcessCalls ==
  ASSUME NEW p \in Pool, MarkerShape(p), NEW b \in BOOLEAN
  PROVE  /\ Started(p) \in Pool /\ MarkerShape(Started(p))
         /\ Started(p).up = "starting" /\ Started(p).starts = p.starts + 1
         /\ ~Started(p).marker
         /\ Stopped(p) \in Pool /\ MarkerShape(Stopped(p))
         /\ Stopped(p).up = "down"
         /\ Signalled(p, b) \in Pool /\ MarkerShape(Signalled(p, b))
         /\ Signalled(p, b).up = p.up /\ Signalled(p, b).marker = p.marker
         /\ p.up = "up" => Signalled(p, b).drain = b
<1>1. p.starts \in Nat /\ p.starts + 1 \in Nat
  BY DEF Pool
<1>2. ASSUME NEW n \in Nat
      PROVE  /\ Down(n) \in Pool /\ MarkerShape(Down(n)) /\ Down(n).up = "down"
             /\ Down(n).starts = n /\ ~Down(n).marker /\ Down(n).drained = {}
  BY DEF Down, Pool, SlotStates, MarkerShape
<1>3. /\ Started(p) \in Pool /\ MarkerShape(Started(p))
      /\ Started(p).up = "starting" /\ Started(p).starts = p.starts + 1
      /\ ~Started(p).marker
  <2>. DEFINE d == Down(p.starts + 1)
  <2>1. /\ d \in Pool /\ d.starts = p.starts + 1
        /\ ~d.marker /\ d.drained = {}
    BY <1>1, <1>2
  <2>2. Started(p) = [d EXCEPT !.up = "starting"]
    BY DEF Started
  <2>. HIDE DEF d
  <2>3. /\ Started(p) \in Pool /\ Started(p).up = "starting"
        /\ Started(p).starts = p.starts + 1 /\ ~Started(p).marker
        /\ Started(p).drained = {}
    BY <2>1, <2>2 DEF Pool
  <2> QED
    BY <2>3 DEF MarkerShape
<1>5. Stopped(p) \in Pool /\ MarkerShape(Stopped(p)) /\ Stopped(p).up = "down"
  BY <1>1, <1>2 DEF Stopped
<1>6. /\ Signalled(p, b) \in Pool /\ MarkerShape(Signalled(p, b))
      /\ Signalled(p, b).up = p.up /\ Signalled(p, b).marker = p.marker
      /\ p.up = "up" => Signalled(p, b).drain = b
  <2>1. CASE p.up = "up"
    <3>1. Signalled(p, b) = [p EXCEPT !.drain = b]
      BY <2>1 DEF Signalled
    <3> QED
      BY <3>1 DEF Pool, MarkerShape
  <2>2. CASE p.up # "up"
    BY <2>2 DEF Signalled
  <2> QED
    BY <2>1, <2>2
<1> QED
  BY <1>3, <1>5, <1>6

\* A slot moves on, and nothing else of its process.
LEMMA SlotMoves ==
  ASSUME NEW p \in Pool, MarkerShape(p), p.up = "up", NEW s \in Slots,
         NEW to \in SlotStates, s \in p.drained => to \in {"wait", "unmark"},
         to = "busy" => ~p.drain
  PROVE  WorkerMove(p, [p EXCEPT !.pc[s] = to])
<1>. DEFINE q == [p EXCEPT !.pc[s] = to]
<1>1. /\ q \in Pool
      /\ q.pc = [p.pc EXCEPT ![s] = to]
      /\ q.up = p.up /\ q.starts = p.starts /\ q.drain = p.drain
      /\ q.drained = p.drained /\ q.marker = p.marker
  BY DEF Pool
<1>2. \A t \in Slots : q.pc[t] = IF t = s THEN to ELSE p.pc[t]
  BY <1>1 DEF Pool
<1>. HIDE DEF q
<1>3. MarkerShape(q)
  BY <1>1, <1>2 DEF MarkerShape, Pool
<1>4. WorkerMove(p, q)
  BY <1>1, <1>2, <1>3 DEF WorkerMove
<1> QED
  BY <1>4 DEF q

\* A slot enters or leaves the drained ones, and the marker follows.
LEMMA MarkMoves ==
  ASSUME NEW p \in Pool, MarkerShape(p), p.up = "up", NEW s \in Slots,
         NEW to \in {"wait", "top"}, NEW drained, drained \subseteq Slots,
         drained \ {s} \subseteq p.drained, s \in drained => to = "wait"
  PROVE  WorkerMove(p, Marked([p EXCEPT !.pc[s] = to], drained))
<1>. DEFINE m == drained = Slots /\ p.drain
            q == Marked([p EXCEPT !.pc[s] = to], drained)
<1>0. m \in BOOLEAN /\ (m => drained = Slots /\ p.drain)
  OBVIOUS
<1>1. q = [[p EXCEPT !.pc[s] = to] EXCEPT !.drained = drained, !.marker = m]
  BY DEF Marked, Pool
<1>. HIDE DEF m, q
<1>2. to \in SlotStates
  BY DEF SlotStates
<1>3. /\ q \in Pool
      /\ q.pc = [p.pc EXCEPT ![s] = to]
      /\ q.up = p.up /\ q.starts = p.starts /\ q.drain = p.drain
      /\ q.drained = drained /\ q.marker = m
  BY <1>0, <1>1, <1>2 DEF Pool
<1>4. \A t \in Slots : q.pc[t] = IF t = s THEN to ELSE p.pc[t]
  BY <1>3 DEF Pool
<1>5. MarkerShape(q)
  BY <1>0, <1>3, <1>4 DEF MarkerShape, Pool
<1>6. WorkerMove(p, q)
  BY <1>0, <1>3, <1>4, <1>5 DEF WorkerMove
<1> QED
  BY <1>6 DEF q

\* One process moves.
LEMMA OneMoves ==
  ASSUME pool \in [Containers -> Pool], NEW c \in Containers, NEW q,
         WorkerMove(pool[c], q), pool' = [pool EXCEPT ![c] = q]
  PROVE  /\ WorkerMove(pool[c], pool'[c])
         /\ \A d \in Containers \ {c} : pool'[d] = pool[d]
         /\ pool' \in [Containers -> Pool]
<1>1. pool'[c] = q /\ q \in Pool
  BY DEF WorkerMove
<1> QED
  BY <1>1

\* The steps of WorkerPool are such moves of one process.
LEMMA WorkerMoves ==
  ASSUME pool \in [Containers -> Pool], PoolInv, restarts \in 0 .. MaxRestarts,
         NEW c \in Containers, WorkerStep(c)
  PROVE  /\ WorkerMove(pool[c], pool'[c])
         /\ \A d \in Containers \ {c} : pool'[d] = pool[d]
         /\ pool' \in [Containers -> Pool]
         /\ restarts' \in 0 .. MaxRestarts
<1>. DEFINE p == pool[c]
            Goal == /\ WorkerMove(pool[c], pool'[c])
                    /\ \A d \in Containers \ {c} : pool'[d] = pool[d]
                    /\ pool' \in [Containers -> Pool]
                    /\ restarts' \in 0 .. MaxRestarts
<1>0. /\ p \in Pool /\ MarkerShape(p) /\ MaxRestarts \in Nat
      /\ p.drained \subseteq Slots /\ p.drain \in BOOLEAN
  BY PoolAssumption DEF PoolInv, Pool
<1>1. CASE Boot(c)
  <2>1. pool' = [pool EXCEPT ![c] = [p EXCEPT !.up = "up"]]
    BY <1>1 DEF Boot
  <2>2. WorkerMove(p, [p EXCEPT !.up = "up"])
    BY <1>0, <1>1 DEF Boot, WorkerMove, Pool, MarkerShape
  <2> QED
    BY <1>1, <2>1, <2>2, OneMoves DEF Boot
<1>2. CASE Restart(c)
  <2>1. pool' = [pool EXCEPT ![c] = Started(p)]
    BY <1>2 DEF Restart
  <2>2. WorkerMove(p, Started(p))
    <3>1. TRUE \in BOOLEAN
      OBVIOUS
    <3> QED
      BY <1>0, <1>2, <3>1, ProcessCalls DEF Restart, WorkerMove
  <2>3. restarts' \in 0 .. MaxRestarts
    BY <1>0, <1>2 DEF Restart
  <2> QED
    BY <2>1, <2>2, <2>3, OneMoves
<1>3. ASSUME NEW s \in Slots, Turn(c, s)
      PROVE  Goal
  <2>. DEFINE to == IF pool[c].drain THEN "mark" ELSE "busy"
  <2>1. pool' = [pool EXCEPT ![c] = [p EXCEPT !.pc[s] = to]]
    BY <1>3 DEF Turn
  <2>2. /\ to \in SlotStates /\ (to = "busy" => ~p.drain)
        /\ s \notin p.drained /\ p.up = "up"
    BY <1>0, <1>3 DEF Turn, Slot, SlotStates, MarkerShape
  <2>. HIDE DEF to
  <2>3. WorkerMove(p, [p EXCEPT !.pc[s] = to])
    BY <1>0, <2>2, SlotMoves
  <2> QED
    BY <1>3, <2>1, <2>3, OneMoves DEF Turn
<1>4. ASSUME NEW s \in Slots, FinishJob(c, s)
      PROVE  Goal
  <2>1. pool' = [pool EXCEPT ![c] = [p EXCEPT !.pc[s] = "top"]]
    BY <1>4 DEF FinishJob
  <2>2. "top" \in SlotStates /\ s \notin p.drained /\ p.up = "up"
    BY <1>0, <1>4 DEF FinishJob, Slot, SlotStates, MarkerShape
  <2>3. WorkerMove(p, [p EXCEPT !.pc[s] = "top"])
    BY <1>0, <2>2, SlotMoves
  <2> QED
    BY <1>4, <2>1, <2>3, OneMoves DEF FinishJob
<1>5. ASSUME NEW s \in Slots, Mark(c, s)
      PROVE  Goal
  <2>. DEFINE more == p.drained \cup {s}
  <2>1. pool' = [pool EXCEPT ![c] = Marked([p EXCEPT !.pc[s] = "wait"], more)]
    BY <1>5 DEF Mark
  <2>2. more \subseteq Slots /\ more \ {s} \subseteq p.drained /\ p.up = "up"
    BY <1>0, <1>5 DEF Mark, Slot
  <2>. HIDE DEF more
  <2>3. WorkerMove(p, Marked([p EXCEPT !.pc[s] = "wait"], more))
    BY <1>0, <2>2, MarkMoves
  <2> QED
    BY <1>5, <2>1, <2>3, OneMoves DEF Mark
<1>6. ASSUME NEW s \in Slots, Wake(c, s)
      PROVE  Goal
  <2>1. pool' = [pool EXCEPT ![c] = [p EXCEPT !.pc[s] = "unmark"]]
    BY <1>6 DEF Wake
  <2>2. "unmark" \in SlotStates /\ p.up = "up"
    BY <1>6 DEF Wake, Slot, SlotStates
  <2>3. WorkerMove(p, [p EXCEPT !.pc[s] = "unmark"])
    BY <1>0, <2>2, SlotMoves
  <2> QED
    BY <1>6, <2>1, <2>3, OneMoves DEF Wake
<1>7. ASSUME NEW s \in Slots, Unmark(c, s)
      PROVE  Goal
  <2>. DEFINE less == p.drained \ {s}
  <2>1. pool' = [pool EXCEPT ![c] = Marked([p EXCEPT !.pc[s] = "top"], less)]
    BY <1>7 DEF Unmark
  <2>2. /\ less \subseteq Slots /\ less \ {s} \subseteq p.drained /\ s \notin less
        /\ p.up = "up"
    BY <1>0, <1>7 DEF Unmark, Slot
  <2>. HIDE DEF less
  <2>3. WorkerMove(p, Marked([p EXCEPT !.pc[s] = "top"], less))
    BY <1>0, <2>2, MarkMoves
  <2> QED
    BY <1>7, <2>1, <2>3, OneMoves DEF Unmark
<1> QED
  BY <1>1, <1>2, <1>3, <1>4, <1>5, <1>6, <1>7 DEF WorkerStep

-----------------------------------------------------------------------------
(* The updater's own steps.                                                *)

Places == {"idle", "pull"} \cup UpdateSteps \cup RecoverySteps

\* The memory of the updater, but for its place.
Remembers == /\ updater'.seen = updater.seen
             /\ updater'.target = updater.target
             /\ updater'.drainedAt = updater.drainedAt

\* The updater goes on at a place.
LEMMA Goes ==
  ASSUME updater \in UpdaterState, NEW q \in Places, Goto(q)
  PROVE  updater' \in UpdaterState /\ updater'.pc = q /\ Remembers
BY DEF Goto, UpdaterState, Places, Remembers

\* A fault is counted within its bound.
LEMMA FaultCounted == ASSUME TypeInv, Fault PROVE faults' \in 0 .. MaxFaults
BY UpdaterAssumption DEF TypeInv, Fault

\* After a call it goes on, or takes the error path.
LEMMA Replies ==
  ASSUME TypeInv, NEW q \in Places, Then(q)
  PROVE  /\ updater' \in UpdaterState /\ updater'.pc \in {q, AfterError}
         /\ Remembers /\ faults' \in 0 .. MaxFaults
<1>1. AfterError \in Places
  BY DEF AfterError, Places, RecoverySteps
<1>2. updater \in UpdaterState /\ faults \in 0 .. MaxFaults
  BY DEF TypeInv
<1>3. CASE Goto(q) /\ UNCHANGED faults
  BY <1>2, <1>3, Goes
<1>4. CASE Goto(AfterError) /\ Fault
  BY <1>1, <1>2, <1>4, Goes, FaultCounted
<1> QED
  BY <1>3, <1>4 DEF Then

\* The error path of update() is recover(), that of recover() is the next round.
LEMMA ErrorPlace == AfterError \in {"recover", "idle"}
BY DEF AfterError

\* A journal names a container.
LEMMA Journaled ==
  ASSUME TypeInv, pending # NothingPending
  PROVE  pending \in Journal /\ pending.old \in Containers
BY DEF TypeInv, Journal

\* A call that changes one process.
LEMMA ActTyped ==
  ASSUME TypeInv, PoolInv, NEW c \in Containers, NEW p \in Pool, MarkerShape(p),
         Act(c, p)
  PROVE  /\ pool' \in [Containers -> Pool] /\ PoolInv'
         /\ status' \in [Containers -> {"starting", "healthy", "unhealthy"}]
         /\ pool'[c] = p /\ \A d \in Containers \ {c} : pool'[d] = pool[d]
<1>1. /\ pool' \in [Containers -> Pool]
      /\ pool'[c] = p /\ \A d \in Containers \ {c} : pool'[d] = pool[d]
  BY DEF Act, TypeInv
<1>2. PoolInv'
  BY <1>1 DEF PoolInv
<1>3. status' \in [Containers -> {"starting", "healthy", "unhealthy"}]
  BY DEF Act, TypeInv
<1> QED
  BY <1>1, <1>2, <1>3

\* A container is removed.
LEMMA RemoveTyped ==
  ASSUME TypeInv, PoolInv, NEW c \in Containers, Remove(c)
  PROVE  /\ pool' \in [Containers -> Pool] /\ PoolInv'
         /\ named' \in [Containers -> {"none", "worker", "backup"}]
         /\ pool'[c].up = "down" /\ \A d \in Containers \ {c} : pool'[d] = pool[d]
         /\ named'[c] = "none" /\ \A d \in Containers \ {c} : named'[d] = named[d]
<1>. DEFINE p == Stopped(pool[c])
<1>1. p \in Pool /\ MarkerShape(p) /\ p.up = "down"
  <2>1. pool[c] \in Pool /\ MarkerShape(pool[c]) /\ TRUE \in BOOLEAN
    BY DEF TypeInv, PoolInv
  <2> QED
    BY <2>1, ProcessCalls
<1>2. pool' = [pool EXCEPT ![c] = p]
  BY DEF Remove
<1>. HIDE DEF p
<1>3. /\ pool' \in [Containers -> Pool]
      /\ pool'[c] = p /\ \A d \in Containers \ {c} : pool'[d] = pool[d]
  BY <1>1, <1>2 DEF TypeInv
<1>4. PoolInv'
  BY <1>1, <1>3 DEF PoolInv
<1>5. /\ named' \in [Containers -> {"none", "worker", "backup"}]
      /\ named'[c] = "none" /\ \A d \in Containers \ {c} : named'[d] = named[d]
  BY DEF Remove, TypeInv
<1> QED
  BY <1>1, <1>3, <1>4, <1>5

\* Every step keeps the variables in their types and the markers truthful.
LEMMA TypeStep ==
  ASSUME TypeInv, PoolInv, PlaceInv, [Next]_vars
  PROVE  TypeInv' /\ PoolInv'
<1>. /\ updater \in UpdaterState /\ Workers \subseteq Containers
     /\ Unused \subseteq Containers
  BY DEF TypeInv, Workers, Unused
<1>1. CASE Reconcile
  <2>1. updater' \in UpdaterState
    <3>1. CASE pending # NothingPending
      <4>1. "recover" \in Places
        BY DEF Places, RecoverySteps
      <4> QED
        BY <1>1, <3>1, <4>1, Goes DEF Reconcile
    <3>2. CASE pending = NothingPending
      <4>. DEFINE Look(c) == [id |-> c, starts |-> pool[c].starts, image |-> image[c],
                              healthy |-> status[c] = "healthy"]
      <4>1. PICK c \in Workers :
              updater' = [updater EXCEPT !.pc = "pull", !.target = approved,
                                         !.seen = Look(c)]
        BY <1>1, <3>2 DEF Reconcile
      <4>2. Look(c) \in Seen
        <5>1. pool[c].starts \in Nat /\ image[c] \in Images /\ c \in Containers
          BY DEF TypeInv, Pool
        <5> QED
          BY <5>1 DEF Seen
      <4>. HIDE DEF Look
      <4> QED
        BY <4>1, <4>2 DEF TypeInv, UpdaterState
    <3> QED
      BY <3>1, <3>2
  <2> QED
    BY <1>1, <2>1 DEF Reconcile, docker, TypeInv, PoolInv
<1>2. CASE Decide
  <2>1. "drain" \in Places /\ "idle" \in Places
    BY DEF Places, UpdateSteps
  <2>2. updater' \in UpdaterState
    BY <1>2, <2>1, Goes DEF Decide
  <2>3. pending' \in Journal \cup {NothingPending}
    <3>1. /\ updater.seen.id \in Containers /\ updater.seen.starts \in Nat
          /\ updater.target \in Images
      BY DEF UpdaterState, Seen
    <3> QED
      BY <1>2, <3>1 DEF Decide, TypeInv, Journal
  <2> QED
    BY <1>2, <2>2, <2>3 DEF Decide, docker, TypeInv, PoolInv
<1>3. CASE Drain
  <2>1. pending.old \in Containers
    BY <1>3, Journaled DEF Drain, At, PlaceInv
  <2>2. /\ Signalled(pool[pending.old], TRUE) \in Pool
        /\ MarkerShape(Signalled(pool[pending.old], TRUE))
    <3>1. /\ pool[pending.old] \in Pool /\ MarkerShape(pool[pending.old])
          /\ TRUE \in BOOLEAN /\ FALSE \in BOOLEAN
      BY <2>1 DEF TypeInv, PoolInv
    <3> QED
      BY <3>1, ProcessCalls
  <2>3. Act(pending.old, Signalled(pool[pending.old], TRUE)) /\ Then("wait")
    BY <1>3 DEF Drain
  <2>4. "wait" \in Places
    BY DEF Places, UpdateSteps, RecoverySteps
  <2>5. updater' \in UpdaterState /\ faults' \in 0 .. MaxFaults
    BY <2>3, <2>4, Replies
  <2>6. /\ pool' \in [Containers -> Pool] /\ PoolInv'
        /\ status' \in [Containers -> {"starting", "healthy", "unhealthy"}]
    BY <2>1, <2>2, <2>3, ActTyped
  <2>7. astray' \in BOOLEAN
    BY <1>3 DEF Drain, TypeInv
  <2> QED
    BY <2>3, <2>5, <2>6, <2>7 DEF Act, TypeInv
<1>4. CASE SeeDrained
  <2>1. pool[pending.old].starts \in Nat
    <3>1. pending.old \in Containers
      BY <1>4, Journaled DEF SeeDrained, At, PlaceInv
    <3> QED
      BY <3>1 DEF TypeInv, Pool
  <2>2. updater' \in UpdaterState
    BY <1>4, <2>1 DEF SeeDrained, UpdaterState, UpdateSteps
  <2> QED
    BY <1>4, <2>2 DEF SeeDrained, docker, TypeInv, PoolInv
<1>5. CASE Defer
  <2>1. "recover" \in Places
    BY DEF Places, UpdateSteps, RecoverySteps
  <2>2. updater' \in UpdaterState
    BY <1>5, <2>1, Goes DEF Defer
  <2> QED
    BY <1>5, <2>2 DEF Defer, docker, TypeInv, PoolInv
<1>6. CASE Stop
  <2>1. pending.old \in Containers
    BY <1>6, Journaled DEF Stop, At, PlaceInv
  <2>2. /\ Stopped(pool[pending.old]) \in Pool
        /\ MarkerShape(Stopped(pool[pending.old]))
    <3>1. /\ pool[pending.old] \in Pool /\ MarkerShape(pool[pending.old])
          /\ TRUE \in BOOLEAN /\ FALSE \in BOOLEAN
      BY <2>1 DEF TypeInv, PoolInv
    <3> QED
      BY <3>1, ProcessCalls
  <2>3. Act(pending.old, Stopped(pool[pending.old])) /\ Then("rename")
    BY <1>6 DEF Stop
  <2>4. "rename" \in Places
    BY DEF Places, UpdateSteps, RecoverySteps
  <2>5. updater' \in UpdaterState /\ faults' \in 0 .. MaxFaults
    BY <2>3, <2>4, Replies
  <2>6. /\ pool' \in [Containers -> Pool] /\ PoolInv'
        /\ status' \in [Containers -> {"starting", "healthy", "unhealthy"}]
    BY <2>1, <2>2, <2>3, ActTyped
  <2>7. astray' \in BOOLEAN
    BY <1>6 DEF Stop, TypeInv
  <2> QED
    BY <2>3, <2>5, <2>6, <2>7 DEF Act, TypeInv
<1>7. CASE SetAside
  <2>1. pending.old \in Containers
    BY <1>7, Journaled DEF SetAside, At, PlaceInv
  <2>2. Rename(pending.old, "backup") /\ Then("create")
    BY <1>7 DEF SetAside
  <2>3. "create" \in Places
    BY DEF Places, UpdateSteps, RecoverySteps
  <2>4. updater' \in UpdaterState /\ faults' \in 0 .. MaxFaults
    BY <2>2, <2>3, Replies
  <2>5. named' \in [Containers -> {"none", "worker", "backup"}]
    BY <2>2 DEF Rename, TypeInv
  <2> QED
    BY <2>2, <2>4, <2>5 DEF Rename, TypeInv, PoolInv
<1>8. CASE Create
  <2>. DEFINE c == CHOOSE c \in Unused : \A d \in Unused : c <= d
  <2>1. /\ named' = [named EXCEPT ![c] = "worker"]
        /\ image' = [image EXCEPT ![c] = updater.target]
    BY <1>8 DEF Create
  <2>2. updater.target \in Images
    BY DEF UpdaterState
  <2>3. /\ named' \in [Containers -> {"none", "worker", "backup"}]
        /\ image' \in [Containers -> Images]
    <3>. HIDE DEF c
    <3> QED
      BY <2>1, <2>2 DEF TypeInv
  <2>4. "start" \in Places
    BY DEF Places, UpdateSteps
  <2>5. updater' \in UpdaterState /\ faults' \in 0 .. MaxFaults
    BY <1>8, <2>4, Replies DEF Create
  <2> QED
    BY <1>8, <2>3, <2>5 DEF Create, TypeInv, PoolInv
<1>9. CASE Start
  <2>1. PICK c \in Workers : Act(c, Started(pool[c]))
    BY <1>9 DEF Start
  <2>2. Started(pool[c]) \in Pool /\ MarkerShape(Started(pool[c])) /\ c \in Containers
    <3>1. pool[c] \in Pool /\ MarkerShape(pool[c]) /\ TRUE \in BOOLEAN
      BY DEF TypeInv, PoolInv
    <3> QED
      BY <3>1, ProcessCalls
  <2>4. "watch" \in Places
    BY DEF Places, UpdateSteps
  <2>5. updater' \in UpdaterState /\ faults' \in 0 .. MaxFaults
    BY <1>9, <2>4, Replies DEF Start
  <2>6. /\ pool' \in [Containers -> Pool] /\ PoolInv'
        /\ status' \in [Containers -> {"starting", "healthy", "unhealthy"}]
    BY <2>1, <2>2, ActTyped
  <2> QED
    BY <1>9, <2>1, <2>5, <2>6 DEF Start, Act, TypeInv
<1>10. CASE Watch
  <2>1. "recover" \in Places
    BY DEF Places, UpdateSteps, RecoverySteps
  <2>2. updater' \in UpdaterState
    BY <1>10, <2>1, Goes DEF Watch
  <2> QED
    BY <1>10, <2>2 DEF Watch, docker, TypeInv, PoolInv
<1>11. CASE Recover
  <2>1. WhatToDo \in Places
    BY DEF WhatToDo, Places, RecoverySteps
  <2>2. updater' \in UpdaterState
    BY <1>11, <2>1, Goes DEF Recover
  <2> QED
    BY <1>11, <2>2 DEF Recover, docker, TypeInv, PoolInv
<1>12. CASE StartOld
  <2>1. pending.old \in Containers
    BY <1>12, Journaled DEF StartOld, At, PlaceInv
  <2>2. /\ Started(pool[pending.old]) \in Pool
        /\ MarkerShape(Started(pool[pending.old]))
    <3>1. /\ pool[pending.old] \in Pool /\ MarkerShape(pool[pending.old])
          /\ TRUE \in BOOLEAN /\ FALSE \in BOOLEAN
      BY <2>1 DEF TypeInv, PoolInv
    <3> QED
      BY <3>1, ProcessCalls
  <2>3. Act(pending.old, Started(pool[pending.old])) /\ Then("save")
    BY <1>12 DEF StartOld
  <2>4. "save" \in Places
    BY DEF Places, UpdateSteps, RecoverySteps
  <2>5. updater' \in UpdaterState /\ faults' \in 0 .. MaxFaults
    BY <2>3, <2>4, Replies
  <2>6. /\ pool' \in [Containers -> Pool] /\ PoolInv'
        /\ status' \in [Containers -> {"starting", "healthy", "unhealthy"}]
    BY <2>1, <2>2, <2>3, ActTyped
  <2>7. astray' \in BOOLEAN
    BY <1>12 DEF StartOld, TypeInv
  <2> QED
    BY <2>3, <2>5, <2>6, <2>7 DEF Act, TypeInv
<1>13. CASE Resume
  <2>1. pending.old \in Containers
    BY <1>13, Journaled DEF Resume, At, PlaceInv
  <2>2. /\ Signalled(pool[pending.old], FALSE) \in Pool
        /\ MarkerShape(Signalled(pool[pending.old], FALSE))
    <3>1. /\ pool[pending.old] \in Pool /\ MarkerShape(pool[pending.old])
          /\ TRUE \in BOOLEAN /\ FALSE \in BOOLEAN
      BY <2>1 DEF TypeInv, PoolInv
    <3> QED
      BY <3>1, ProcessCalls
  <2>3. Act(pending.old, Signalled(pool[pending.old], FALSE)) /\ Then("save")
    BY <1>13 DEF Resume
  <2>4. "save" \in Places
    BY DEF Places, UpdateSteps, RecoverySteps
  <2>5. updater' \in UpdaterState /\ faults' \in 0 .. MaxFaults
    BY <2>3, <2>4, Replies
  <2>6. /\ pool' \in [Containers -> Pool] /\ PoolInv'
        /\ status' \in [Containers -> {"starting", "healthy", "unhealthy"}]
    BY <2>1, <2>2, <2>3, ActTyped
  <2>7. astray' \in BOOLEAN
    BY <1>13 DEF Resume, TypeInv
  <2> QED
    BY <2>3, <2>5, <2>6, <2>7 DEF Act, TypeInv
<1>14. CASE Commit
  <2>1. pending.old \in Containers /\ Remove(pending.old)
    BY <1>14, Journaled DEF Commit, At, PlaceInv
  <2>3. "save" \in Places
    BY DEF Places, RecoverySteps
  <2>4. updater' \in UpdaterState /\ faults' \in 0 .. MaxFaults
    BY <1>14, <2>3, Replies DEF Commit
  <2>5. /\ pool' \in [Containers -> Pool] /\ PoolInv'
        /\ named' \in [Containers -> {"none", "worker", "backup"}]
    BY <2>1, RemoveTyped
  <2> QED
    BY <2>1, <2>4, <2>5 DEF Remove, TypeInv
<1>15. CASE Discard
  <2>1. PICK c \in Workers : Remove(c)
    BY <1>15 DEF Discard
  <2>3. "restore" \in Places
    BY DEF Places, RecoverySteps
  <2>4. updater' \in UpdaterState /\ faults' \in 0 .. MaxFaults
    BY <1>15, <2>3, Replies DEF Discard
  <2>5. /\ pool' \in [Containers -> Pool] /\ PoolInv'
        /\ named' \in [Containers -> {"none", "worker", "backup"}]
    BY <2>1, c \in Containers, RemoveTyped
  <2> QED
    BY <2>1, <2>4, <2>5 DEF Remove, TypeInv
<1>16. CASE Restore
  <2>1. pending.old \in Containers
    BY <1>16, Journaled DEF Restore, At, PlaceInv
  <2>2. Rename(pending.old, "worker") /\ Then("restart")
    BY <1>16 DEF Restore
  <2>3. "restart" \in Places
    BY DEF Places, UpdateSteps, RecoverySteps
  <2>4. updater' \in UpdaterState /\ faults' \in 0 .. MaxFaults
    BY <2>2, <2>3, Replies
  <2>5. named' \in [Containers -> {"none", "worker", "backup"}]
    BY <2>2 DEF Rename, TypeInv
  <2> QED
    BY <2>2, <2>4, <2>5 DEF Rename, TypeInv, PoolInv
<1>17. CASE RestartOld
  <2>1. pending.old \in Containers
    BY <1>17, Journaled DEF RestartOld, At, PlaceInv
  <2>2. /\ Started(pool[pending.old]) \in Pool
        /\ MarkerShape(Started(pool[pending.old]))
    <3>1. /\ pool[pending.old] \in Pool /\ MarkerShape(pool[pending.old])
          /\ TRUE \in BOOLEAN /\ FALSE \in BOOLEAN
      BY <2>1 DEF TypeInv, PoolInv
    <3> QED
      BY <3>1, ProcessCalls
  <2>3. Act(pending.old, Started(pool[pending.old])) /\ Then("quarantine")
    BY <1>17 DEF RestartOld
  <2>4. "quarantine" \in Places
    BY DEF Places, UpdateSteps, RecoverySteps
  <2>5. updater' \in UpdaterState /\ faults' \in 0 .. MaxFaults
    BY <2>3, <2>4, Replies
  <2>6. /\ pool' \in [Containers -> Pool] /\ PoolInv'
        /\ status' \in [Containers -> {"starting", "healthy", "unhealthy"}]
    BY <2>1, <2>2, <2>3, ActTyped
  <2>7. astray' \in BOOLEAN
    BY <1>17 DEF RestartOld, TypeInv
  <2> QED
    BY <2>3, <2>5, <2>6, <2>7 DEF Act, TypeInv
<1>18. CASE Save
  <2>1. "idle" \in Places
    BY DEF Places
  <2>2. updater' \in UpdaterState
    BY <1>18, <2>1, Goes DEF Save
  <2>3. failed' \in Images \cup {NoImage}
    <3>1. pending \in Journal
      BY <1>18, Journaled DEF Save, PlaceInv
    <3> QED
      BY <1>18, <3>1 DEF Save, TypeInv, Journal
  <2> QED
    BY <1>18, <2>2, <2>3 DEF Save, docker, TypeInv, PoolInv
<1>19. CASE CallFails
  <2>1. AfterError \in Places
    BY ErrorPlace DEF Places, RecoverySteps
  <2>2. updater' \in UpdaterState
    BY <1>19, <2>1, Goes DEF CallFails
  <2> QED
    BY <1>19, <2>2, FaultCounted DEF CallFails, docker, TypeInv, PoolInv
<1>20. CASE Die
  <2>1. "idle" \in Places
    BY DEF Places, UpdateSteps, RecoverySteps
  <2>2. updater' \in UpdaterState
    BY <1>20, <2>1, Goes DEF Die
  <2> QED
    BY <1>20, <2>2, FaultCounted DEF Die, docker, TypeInv, PoolInv
<1>21. CASE Promote
  BY <1>21 DEF Promote, docker, TypeInv, PoolInv
<1>22. ASSUME NEW c \in Containers, HealthPasses(c)
      PROVE  TypeInv' /\ PoolInv'
  BY <1>22 DEF HealthPasses, docker, TypeInv, PoolInv
<1>23. ASSUME NEW c \in Containers, HealthFails(c)
      PROVE  TypeInv' /\ PoolInv'
  <2>1. faults' \in 0 .. MaxFaults
    BY <1>23, FaultCounted DEF HealthFails, TypeInv
  <2> QED
    BY <1>23, <2>1 DEF HealthFails, TypeInv, PoolInv
<1>24. ASSUME NEW c \in Containers, Work(c)
      PROVE  TypeInv' /\ PoolInv'
  <2>1. restarts \in 0 .. MaxRestarts /\ pool \in [Containers -> Pool]
    BY DEF TypeInv
  <2>2. /\ WorkerMove(pool[c], pool'[c])
        /\ \A d \in Containers \ {c} : pool'[d] = pool[d]
        /\ pool' \in [Containers -> Pool]
        /\ restarts' \in 0 .. MaxRestarts
    BY <1>24, <2>1, WorkerMoves DEF Work
  <2>3. PoolInv'
    BY <2>2 DEF WorkerMove, PoolInv
  <2>4. status' \in [Containers -> {"starting", "healthy", "unhealthy"}]
    BY <1>24 DEF Work, TypeInv
  <2> QED
    BY <1>24, <2>2, <2>3, <2>4 DEF Work, TypeInv
<1>25. CASE UNCHANGED vars
  BY <1>25 DEF vars, docker, TypeInv, PoolInv
<1> QED
  BY <1>1, <1>2, <1>3, <1>4, <1>5, <1>6, <1>7, <1>8, <1>9, <1>10, <1>11,
     <1>12, <1>13, <1>14, <1>15, <1>16, <1>17, <1>18, <1>19, <1>20, <1>21,
     <1>22, <1>23, <1>24, <1>25
     DEF Next, UpdaterStep

-----------------------------------------------------------------------------
(* The names of the containers.                                            *)

\* The names stay, and only a worker comes up.
LEMMA NamesStay ==
  ASSUME NamesInv, named' = named, pending' = pending,
         \A c \in Containers : pool'[c].up = pool[c].up \/ c \in Workers
  PROVE  NamesInv'
<1>1. Workers' = Workers
  BY DEF Workers
<1> QED
  BY <1>1 DEF NamesInv

\* A call on the process of a worker leaves the names as they are.
LEMMA ActNames ==
  ASSUME TypeInv, PoolInv, NamesInv, NEW c \in Workers, NEW p \in Pool,
         MarkerShape(p), Act(c, p)
  PROVE  NamesInv'
<1>1. c \in Containers
  BY DEF Workers
<1>2. \A d \in Containers \ {c} : pool'[d] = pool[d]
  BY <1>1, ActTyped
<1> QED
  BY <1>2, NamesStay DEF Act

\* Every step keeps to what the names say.
LEMMA NamesStep ==
  ASSUME TypeInv, PoolInv, NamesInv, PlaceInv, [Next]_vars
  PROVE  NamesInv'
<1>1. CASE Reconcile
  BY <1>1, NamesStay DEF Reconcile, docker
<1>2. CASE Decide
  <2>1. pending = NothingPending
    BY <1>2 DEF Decide, At, PlaceInv
  <2>2. \A c \in Containers : named[c] # "backup"
    BY <2>1, UpdaterAssumption DEF NamesInv, NothingPending
  <2>3. named' = named /\ pool' = pool /\ Workers' = Workers
    BY <1>2 DEF Decide, docker, Workers
  <2> QED
    BY <2>2, <2>3 DEF NamesInv
<1>3. CASE Drain
  <2>1. pending.old \in Workers
    BY <1>3 DEF Drain, At, PlaceInv
  <2>2. /\ Signalled(pool[pending.old], TRUE) \in Pool
        /\ MarkerShape(Signalled(pool[pending.old], TRUE))
    <3>1. /\ pool[pending.old] \in Pool /\ MarkerShape(pool[pending.old])
          /\ TRUE \in BOOLEAN /\ FALSE \in BOOLEAN
      BY <2>1 DEF TypeInv, PoolInv, Workers
    <3> QED
      BY <3>1, ProcessCalls
  <2> QED
    BY <1>3, <2>1, <2>2, ActNames DEF Drain
<1>4. CASE SeeDrained
  BY <1>4, NamesStay DEF SeeDrained, docker
<1>5. CASE Defer
  BY <1>5, NamesStay DEF Defer, docker
<1>6. CASE Stop
  <2>1. pending.old \in Workers
    BY <1>6 DEF Stop, At, PlaceInv
  <2>2. /\ Stopped(pool[pending.old]) \in Pool
        /\ MarkerShape(Stopped(pool[pending.old]))
    <3>1. /\ pool[pending.old] \in Pool /\ MarkerShape(pool[pending.old])
          /\ TRUE \in BOOLEAN /\ FALSE \in BOOLEAN
      BY <2>1 DEF TypeInv, PoolInv, Workers
    <3> QED
      BY <3>1, ProcessCalls
  <2> QED
    BY <1>6, <2>1, <2>2, ActNames DEF Stop
<1>7. CASE SetAside
  <2>1. /\ pending.old \in Workers /\ pool[pending.old].up = "down"
        /\ pending.old \in Containers
    BY <1>7 DEF SetAside, At, PlaceInv, Workers
  <2>2. /\ named' = [named EXCEPT ![pending.old] = "backup"]
        /\ pool' = pool /\ pending' = pending
    BY <1>7 DEF SetAside, Rename
  <2>3. /\ named'[pending.old] = "backup"
        /\ \A d \in Containers \ {pending.old} : named'[d] = named[d]
    BY <2>1, <2>2 DEF TypeInv
  <2>4. Workers' = {}
    BY <2>1, <2>3 DEF NamesInv, Workers
  <2>5. \A c \in Containers : pool'[c].up = "down"
    BY <2>1, <2>2 DEF NamesInv
  <2> QED
    BY <2>1, <2>2, <2>3, <2>4, <2>5 DEF NamesInv
<1>8. CASE Create
  <2>. DEFINE c == CHOOSE c \in Unused : \A d \in Unused : c <= d
  <2>1. c \in Unused
    <3>1. Unused \subseteq Nat /\ Unused # {}
      BY <1>8, UpdaterAssumption DEF Create, At, PlaceInv, Unused
    <3> QED
      BY <3>1, LeastNumber
  <2>2. /\ named' = [named EXCEPT ![c] = "worker"]
        /\ pool' = pool /\ pending' = pending
    BY <1>8 DEF Create
  <2>. HIDE DEF c
  <2>3. c \in Containers /\ named[c] = "none" /\ Workers = {}
    BY <1>8, <2>1 DEF Create, At, PlaceInv, Unused, Exists
  <2>4. named'[c] = "worker" /\ \A d \in Containers \ {c} : named'[d] = named[d]
    BY <2>2, <2>3 DEF TypeInv
  <2>5. Workers' = {c}
    BY <2>3, <2>4 DEF Workers
  <2>6. \A d \in Containers : pool'[d].up = "down"
    BY <2>2, <2>3 DEF NamesInv
  <2> QED
    BY <2>2, <2>4, <2>5, <2>6 DEF NamesInv
<1>9. CASE Start
  <2>1. PICK c \in Workers : Act(c, Started(pool[c]))
    BY <1>9 DEF Start
  <2>2. Started(pool[c]) \in Pool /\ MarkerShape(Started(pool[c]))
    <3>1. pool[c] \in Pool /\ MarkerShape(pool[c]) /\ TRUE \in BOOLEAN
      BY DEF TypeInv, PoolInv, Workers
    <3> QED
      BY <3>1, ProcessCalls
  <2> QED
    BY <2>1, <2>2, ActNames
<1>10. CASE Watch
  BY <1>10, NamesStay DEF Watch, docker
<1>11. CASE Recover
  BY <1>11, NamesStay DEF Recover, docker
<1>12. CASE StartOld
  <2>1. pending.old \in Workers
    BY <1>12 DEF StartOld, At, PlaceInv
  <2>2. /\ Started(pool[pending.old]) \in Pool
        /\ MarkerShape(Started(pool[pending.old]))
    <3>1. /\ pool[pending.old] \in Pool /\ MarkerShape(pool[pending.old])
          /\ TRUE \in BOOLEAN /\ FALSE \in BOOLEAN
      BY <2>1 DEF TypeInv, PoolInv, Workers
    <3> QED
      BY <3>1, ProcessCalls
  <2> QED
    BY <1>12, <2>1, <2>2, ActNames DEF StartOld
<1>13. CASE Resume
  <2>1. pending.old \in Workers
    BY <1>13 DEF Resume, At, PlaceInv
  <2>2. /\ Signalled(pool[pending.old], FALSE) \in Pool
        /\ MarkerShape(Signalled(pool[pending.old], FALSE))
    <3>1. /\ pool[pending.old] \in Pool /\ MarkerShape(pool[pending.old])
          /\ TRUE \in BOOLEAN /\ FALSE \in BOOLEAN
      BY <2>1 DEF TypeInv, PoolInv, Workers
    <3> QED
      BY <3>1, ProcessCalls
  <2> QED
    BY <1>13, <2>1, <2>2, ActNames DEF Resume
<1>14. CASE Commit
  <2>1. /\ pending.old \in Containers /\ Workers # {} /\ pending.old \notin Workers
        /\ Remove(pending.old)
    BY <1>14, Journaled DEF Commit, At, PlaceInv
  <2>2. /\ pool'[pending.old].up = "down"
        /\ \A d \in Containers \ {pending.old} : pool'[d] = pool[d]
        /\ named'[pending.old] = "none"
        /\ \A d \in Containers \ {pending.old} : named'[d] = named[d]
    BY <2>1, RemoveTyped
  <2>3. Workers' = Workers
    BY <2>1, <2>2 DEF Workers
  <2>4. pending' = pending
    BY <2>1 DEF Remove
  <2> QED
    BY <2>1, <2>2, <2>3, <2>4 DEF NamesInv
<1>15. CASE Discard
  <2>1. PICK c \in Workers : Remove(c)
    BY <1>15 DEF Discard
  <2>2. c \in Containers /\ named[c] = "worker"
    BY DEF Workers
  <2>3. /\ pool'[c].up = "down" /\ \A d \in Containers \ {c} : pool'[d] = pool[d]
        /\ named'[c] = "none" /\ \A d \in Containers \ {c} : named'[d] = named[d]
    BY <2>1, <2>2, RemoveTyped
  <2>4. Workers' = {}
    BY <2>2, <2>3 DEF Workers, NamesInv
  <2>5. pending.old \in Containers /\ named[pending.old] = "backup"
    BY <1>15, Journaled DEF Discard, At, PlaceInv
  <2>6. named'[pending.old] = "backup"
    BY <2>2, <2>3, <2>5
  <2>7. pending' = pending
    BY <2>1 DEF Remove
  <2>8. \A d \in Containers : pool'[d].up = "down"
    BY <2>3 DEF NamesInv
  <2> QED
    BY <2>2, <2>3, <2>4, <2>5, <2>6, <2>7, <2>8 DEF NamesInv
<1>16. CASE Restore
  <2>1. pending.old \in Containers /\ Workers = {}
    BY <1>16, Journaled DEF Restore, At, PlaceInv
  <2>2. /\ named' = [named EXCEPT ![pending.old] = "worker"]
        /\ pool' = pool /\ pending' = pending
    BY <1>16 DEF Restore, Rename
  <2>3. /\ named'[pending.old] = "worker"
        /\ \A d \in Containers \ {pending.old} : named'[d] = named[d]
    BY <2>1, <2>2 DEF TypeInv
  <2>4. Workers' = {pending.old}
    BY <2>1, <2>3 DEF Workers
  <2>5. \A d \in Containers : pool'[d].up = "down"
    BY <2>1, <2>2 DEF NamesInv
  <2> QED
    BY <2>2, <2>3, <2>4, <2>5 DEF NamesInv
<1>17. CASE RestartOld
  <2>1. pending.old \in Workers
    BY <1>17 DEF RestartOld, At, PlaceInv
  <2>2. /\ Started(pool[pending.old]) \in Pool
        /\ MarkerShape(Started(pool[pending.old]))
    <3>1. /\ pool[pending.old] \in Pool /\ MarkerShape(pool[pending.old])
          /\ TRUE \in BOOLEAN /\ FALSE \in BOOLEAN
      BY <2>1 DEF TypeInv, PoolInv, Workers
    <3> QED
      BY <3>1, ProcessCalls
  <2> QED
    BY <1>17, <2>1, <2>2, ActNames DEF RestartOld
<1>18. CASE Save
  <2>1. Workers # {} /\ \A c \in Containers : named[c] # "backup"
    <3>1. CASE At("save")
      BY <3>1 DEF At, PlaceInv, NamesInv
    <3>2. CASE At("quarantine")
      <4>1. pending.old \in Workers
        BY <3>2 DEF At, PlaceInv
      <4> QED
        BY <4>1 DEF NamesInv, Workers
    <3> QED
      BY <1>18, <3>1, <3>2 DEF Save, At
  <2>2. named' = named /\ pool' = pool /\ Workers' = Workers
    BY <1>18 DEF Save, docker, Workers
  <2> QED
    BY <2>1, <2>2 DEF NamesInv
<1>19. CASE CallFails
  BY <1>19, NamesStay DEF CallFails, docker
<1>20. CASE Die
  BY <1>20, NamesStay DEF Die, docker
<1>21. CASE Promote
  BY <1>21, NamesStay DEF Promote, docker
<1>22. ASSUME NEW c \in Containers, HealthPasses(c)
      PROVE  NamesInv'
  BY <1>22, NamesStay DEF HealthPasses, docker
<1>23. ASSUME NEW c \in Containers, HealthFails(c)
      PROVE  NamesInv'
  BY <1>23, NamesStay DEF HealthFails, docker
<1>24. ASSUME NEW c \in Containers, Work(c)
      PROVE  NamesInv'
  <2>1. restarts \in 0 .. MaxRestarts /\ pool \in [Containers -> Pool]
    BY DEF TypeInv
  <2>2. /\ WorkerMove(pool[c], pool'[c])
        /\ \A d \in Containers \ {c} : pool'[d] = pool[d]
    BY <1>24, <2>1, WorkerMoves DEF Work
  <2>3. c \in Workers
    BY <2>2 DEF WorkerMove, NamesInv
  <2> QED
    BY <1>24, <2>2, <2>3, NamesStay DEF Work
<1>25. CASE UNCHANGED vars
  BY <1>25, NamesStay DEF vars, docker
<1> QED
  BY <1>1, <1>2, <1>3, <1>4, <1>5, <1>6, <1>7, <1>8, <1>9, <1>10, <1>11,
     <1>12, <1>13, <1>14, <1>15, <1>16, <1>17, <1>18, <1>19, <1>20, <1>21,
     <1>22, <1>23, <1>24, <1>25
     DEF Next, UpdaterStep

-----------------------------------------------------------------------------
(* What the next call can rely on.                                         *)

\* Where recovery, or the next round, is all that follows.
LEMMA SafePlace ==
  ASSUME updater'.pc \in {"recover", "idle"},
         updater'.pc = "recover" => pending' # NothingPending
  PROVE  PlaceInv'
BY DEF PlaceInv, At

\* So after an error.
LEMMA AfterErrorSafe ==
  ASSUME PlaceInv, updater'.pc = AfterError, pending' = pending
  PROVE  PlaceInv'
<1>1. updater'.pc = "recover" => pending # NothingPending
  BY DEF AfterError, UpdateSteps, PlaceInv
<1> QED
  BY <1>1, ErrorPlace, SafePlace

\* A process that runs under the name of the worker makes no container unused.
LEMMA UnusedStay ==
  ASSUME NEW c \in Workers, named' = named, pool' \in [Containers -> Pool],
         \A d \in Containers \ {c} : pool'[d] = pool[d]
  PROVE  Unused' = Unused
BY DEF Unused, Exists, Workers

\* The updater waits, while containers work.
LEMMA PlaceStays ==
  ASSUME PlaceInv, updater' = updater, named' = named, pending' = pending,
         Unused' = Unused,
         At("rename") => pool'[pending.old].up = pool[pending.old].up
  PROVE  PlaceInv'
<1>1. Workers' = Workers
  BY DEF Workers
<1> QED
  BY <1>1 DEF PlaceInv, At

\* Every step leaves the next call what it relies on.
LEMMA PlaceStep ==
  ASSUME TypeInv, PoolInv, NamesInv, PlaceInv, TypeInv', [Next]_vars
  PROVE  PlaceInv'
<1>. updater \in UpdaterState
  BY DEF TypeInv
<1>1. CASE Reconcile
  <2>1. CASE pending # NothingPending
    <3>1. "recover" \in Places
      BY DEF Places, RecoverySteps
    <3>2. updater'.pc = "recover" /\ pending' = pending
      BY <1>1, <2>1, <3>1, Goes DEF Reconcile
    <3> QED
      BY <2>1, <3>2, SafePlace
  <2>2. CASE pending = NothingPending
    <3>. DEFINE Look(c) == [id |-> c, starts |-> pool[c].starts, image |-> image[c],
                            healthy |-> status[c] = "healthy"]
    <3>1. PICK c \in Workers :
            updater' = [updater EXCEPT !.pc = "pull", !.target = approved,
                                       !.seen = Look(c)]
      BY <1>1, <2>2 DEF Reconcile
    <3>2. Look(c).id = c
      OBVIOUS
    <3>. HIDE DEF Look
    <3>3. updater'.pc = "pull" /\ updater'.seen.id = c
      BY <3>1, <3>2 DEF UpdaterState
    <3>4. pending' = pending /\ Workers' = Workers
      BY <1>1 DEF Reconcile, docker, Workers
    <3> QED
      BY <2>2, <3>3, <3>4 DEF PlaceInv, At
  <2> QED
    BY <2>1, <2>2
<1>2. CASE Decide
  <2>1. "drain" \in Places /\ "idle" \in Places
    BY DEF Places, UpdateSteps
  <2>2. updater.seen.id \in Workers /\ updater.seen.id \in Containers
    BY <1>2 DEF Decide, At, PlaceInv, Workers
  <2>3. CASE Goto("idle")
    <3>1. updater'.pc = "idle"
      BY <2>1, <2>3, Goes
    <3> QED
      BY <3>1, SafePlace
  <2>4. CASE /\ Unused # {} /\ Goto("drain")
             /\ pending' = [old |-> updater.seen.id, starts |-> updater.seen.starts,
                            image |-> updater.target]
    <3>1. updater'.pc = "drain"
      BY <2>1, <2>4, Goes
    <3>2. pending'.old = updater.seen.id
      BY <2>4
    <3>3. pending' # NothingPending
      <4>1. NothingPending.old = NoContainer
        BY DEF NothingPending
      <4> QED
        BY <2>2, <3>2, <4>1, UpdaterAssumption
    <3>4. Workers' = Workers /\ Unused' = Unused
      BY <1>2 DEF Decide, docker, Workers, Unused, Exists
    <3> QED
      BY <2>2, <2>4, <3>1, <3>2, <3>3, <3>4 DEF PlaceInv, At
  <2> QED
    BY <1>2, <2>3, <2>4 DEF Decide
<1>3. CASE Drain
  <2>1. /\ pending.old \in Workers /\ pending # NothingPending
        /\ pending.old \in Containers
    BY <1>3 DEF Drain, At, PlaceInv, Workers
  <2>2. /\ Signalled(pool[pending.old], TRUE) \in Pool
        /\ MarkerShape(Signalled(pool[pending.old], TRUE))
    <3>1. /\ pool[pending.old] \in Pool /\ MarkerShape(pool[pending.old])
          /\ TRUE \in BOOLEAN /\ FALSE \in BOOLEAN
      BY <2>1 DEF TypeInv, PoolInv, Workers
    <3> QED
      BY <3>1, ProcessCalls
  <2>3. Act(pending.old, Signalled(pool[pending.old], TRUE)) /\ Then("wait")
    BY <1>3 DEF Drain
  <2>4. /\ pool'[pending.old] = Signalled(pool[pending.old], TRUE)
        /\ \A d \in Containers \ {pending.old} : pool'[d] = pool[d]
    BY <2>1, <2>2, <2>3, ActTyped
  <2>5. named' = named /\ pending' = pending /\ Workers' = Workers
    BY <2>3 DEF Act, Workers
  <2>6. Unused' = Unused
    BY <2>1, <2>4, <2>5, UnusedStay DEF TypeInv
  <2>7. "wait" \in Places
    BY DEF Places, UpdateSteps, RecoverySteps
  <2>8. updater'.pc \in {"wait", AfterError}
    BY <2>3, <2>7, Replies
  <2>9. CASE updater'.pc = AfterError
    BY <2>5, <2>9, AfterErrorSafe
  <2>10. CASE updater'.pc = "wait"
    BY <1>3, <2>1, <2>5, <2>6, <2>10 DEF Drain, At, PlaceInv
  <2> QED
    BY <2>8, <2>9, <2>10
<1>4. CASE SeeDrained
  <2>1. updater'.pc = "stop"
    BY <1>4 DEF SeeDrained, UpdaterState
  <2>2. Workers' = Workers /\ Unused' = Unused /\ pending' = pending
    BY <1>4 DEF SeeDrained, docker, Workers, Unused, Exists
  <2> QED
    BY <1>4, <2>1, <2>2 DEF SeeDrained, PlaceInv, At
<1>5. CASE Defer
  <2>1. "recover" \in Places
    BY DEF Places, UpdateSteps, RecoverySteps
  <2>2. updater'.pc = "recover" /\ pending' = pending /\ pending # NothingPending
    BY <1>5, <2>1, Goes DEF Defer, At, PlaceInv
  <2> QED
    BY <2>2, SafePlace
<1>6. CASE Stop
  <2>1. /\ pending.old \in Workers /\ pending # NothingPending
        /\ pending.old \in Containers
    BY <1>6 DEF Stop, At, PlaceInv, Workers
  <2>2. /\ Stopped(pool[pending.old]) \in Pool
        /\ MarkerShape(Stopped(pool[pending.old]))
    <3>1. /\ pool[pending.old] \in Pool /\ MarkerShape(pool[pending.old])
          /\ TRUE \in BOOLEAN /\ FALSE \in BOOLEAN
      BY <2>1 DEF TypeInv, PoolInv, Workers
    <3> QED
      BY <3>1, ProcessCalls
  <2>3. Act(pending.old, Stopped(pool[pending.old])) /\ Then("rename")
    BY <1>6 DEF Stop
  <2>4. /\ pool'[pending.old] = Stopped(pool[pending.old])
        /\ \A d \in Containers \ {pending.old} : pool'[d] = pool[d]
    BY <2>1, <2>2, <2>3, ActTyped
  <2>5. named' = named /\ pending' = pending /\ Workers' = Workers
    BY <2>3 DEF Act, Workers
  <2>6. Unused' = Unused
    BY <2>1, <2>4, <2>5, UnusedStay DEF TypeInv
  <2>7. "rename" \in Places
    BY DEF Places, UpdateSteps, RecoverySteps
  <2>8. updater'.pc \in {"rename", AfterError}
    BY <2>3, <2>7, Replies
  <2>9. CASE updater'.pc = AfterError
    BY <2>5, <2>9, AfterErrorSafe
  <2>10. CASE updater'.pc = "rename"
    <3>1. pool'[pending.old].up = "down"
      BY <2>4 DEF Stopped, Down
    <3> QED
      BY <1>6, <2>1, <2>5, <2>6, <2>10, <3>1 DEF Stop, At, PlaceInv
  <2> QED
    BY <2>8, <2>9, <2>10
<1>7. CASE SetAside
  <2>1. /\ pending.old \in Workers /\ pending # NothingPending
        /\ pending.old \in Containers /\ Unused # {}
    BY <1>7 DEF SetAside, At, PlaceInv, Workers
  <2>2. /\ named' = [named EXCEPT ![pending.old] = "backup"]
        /\ pool' = pool
    BY <1>7 DEF SetAside, Rename
  <2>3. /\ named'[pending.old] = "backup"
        /\ \A d \in Containers \ {pending.old} : named'[d] = named[d]
    BY <2>1, <2>2 DEF TypeInv
  <2>4. Workers' = {} /\ Unused' # {}
    <3>1. Workers' = {}
      BY <2>1, <2>3 DEF NamesInv, Workers
    <3>2. \A c \in Unused : c \in Unused'
      BY <2>1, <2>2, <2>3 DEF Unused, Exists, Workers
    <3> QED
      BY <2>1, <3>1, <3>2
  <2>5. pending' = pending
    BY <1>7 DEF SetAside, Rename
  <2>7. "create" \in Places
    BY DEF Places, UpdateSteps, RecoverySteps
  <2>8. updater'.pc \in {"create", AfterError}
    BY <1>7, <2>7, Replies DEF SetAside
  <2>9. CASE updater'.pc = AfterError
    BY <2>5, <2>9, AfterErrorSafe
  <2>10. CASE updater'.pc = "create"
    BY <2>1, <2>4, <2>5, <2>10 DEF At, PlaceInv
  <2> QED
    BY <2>8, <2>9, <2>10
<1>8. CASE Create
  <2>5. pending' = pending /\ pending # NothingPending
    BY <1>8 DEF Create, At, PlaceInv
  <2>7. "start" \in Places
    BY DEF Places, UpdateSteps, RecoverySteps
  <2>8. updater'.pc \in {"start", AfterError}
    BY <1>8, <2>7, Replies DEF Create
  <2>9. CASE updater'.pc = AfterError
    BY <2>5, <2>9, AfterErrorSafe
  <2>10. CASE updater'.pc = "start"
    BY <2>5, <2>10 DEF At, PlaceInv
  <2> QED
    BY <2>8, <2>9, <2>10
<1>9. CASE Start
  <2>5. pending' = pending /\ pending # NothingPending
    BY <1>9 DEF Start, Act, At, PlaceInv
  <2>7. "watch" \in Places
    BY DEF Places, UpdateSteps, RecoverySteps
  <2>8. updater'.pc \in {"watch", AfterError}
    BY <1>9, <2>7, Replies DEF Start
  <2>9. CASE updater'.pc = AfterError
    BY <2>5, <2>9, AfterErrorSafe
  <2>10. CASE updater'.pc = "watch"
    BY <2>5, <2>10 DEF At, PlaceInv
  <2> QED
    BY <2>8, <2>9, <2>10
<1>10. CASE Watch
  <2>1. "recover" \in Places
    BY DEF Places, UpdateSteps, RecoverySteps
  <2>2. updater'.pc = "recover" /\ pending' = pending /\ pending # NothingPending
    BY <1>10, <2>1, Goes DEF Watch, At, PlaceInv
  <2> QED
    BY <2>2, SafePlace
<1>11. CASE Recover
  <2>1. WhatToDo \in Places
    BY DEF WhatToDo, Places, RecoverySteps
  <2>2. updater'.pc = WhatToDo
    BY <1>11, <2>1, Goes DEF Recover
  <2>3. /\ pending # NothingPending /\ pending.old \in Containers
        /\ named[pending.old] \in {"none", "worker", "backup"}
    <3>1. pending # NothingPending
      BY <1>11 DEF Recover, At, PlaceInv
    <3>2. pending.old \in Containers
      BY <3>1, Journaled
    <3> QED
      BY <3>1, <3>2 DEF TypeInv
  <2>4. /\ pending' = pending /\ Workers' = Workers /\ Unused' = Unused
        /\ named' = named /\ pool' = pool
    BY <1>11 DEF Recover, docker, Workers, Unused, Exists
  <2>5. /\ WhatToDo \in {"startOld", "resume"} => pending.old \in Workers
        /\ WhatToDo = "commit" => Workers # {} /\ pending.old \notin Workers
        /\ WhatToDo = "discard" => pending.old \notin Workers /\ Exists(pending.old)
        /\ WhatToDo = "restore" => Workers = {}
        /\ WhatToDo = "save" => Workers # {} /\ (pending.old \in Workers
                                                   \/ ~Exists(pending.old))
        /\ WhatToDo \in {"startOld", "resume", "save", "commit", "idle", "discard",
                         "restore"}
    BY DEF WhatToDo
  <2>6. /\ pending.old \in Workers <=> named[pending.old] = "worker"
        /\ Exists(pending.old) <=> named[pending.old] # "none"
    BY <2>3 DEF Workers, Exists
  <2> QED
    BY <2>2, <2>3, <2>4, <2>5, <2>6 DEF PlaceInv, At
<1>12. CASE StartOld
  <2>1. /\ pending.old \in Workers /\ pending # NothingPending
        /\ pending.old \in Containers
    BY <1>12 DEF StartOld, At, PlaceInv, Workers
  <2>2. /\ Started(pool[pending.old]) \in Pool
        /\ MarkerShape(Started(pool[pending.old]))
    <3>1. /\ pool[pending.old] \in Pool /\ MarkerShape(pool[pending.old])
          /\ TRUE \in BOOLEAN /\ FALSE \in BOOLEAN
      BY <2>1 DEF TypeInv, PoolInv, Workers
    <3> QED
      BY <3>1, ProcessCalls
  <2>3. Act(pending.old, Started(pool[pending.old])) /\ Then("save")
    BY <1>12 DEF StartOld
  <2>4. /\ pool'[pending.old] = Started(pool[pending.old])
        /\ \A d \in Containers \ {pending.old} : pool'[d] = pool[d]
    BY <2>1, <2>2, <2>3, ActTyped
  <2>5. named' = named /\ pending' = pending /\ Workers' = Workers
    BY <2>3 DEF Act, Workers
  <2>6. Unused' = Unused
    BY <2>1, <2>4, <2>5, UnusedStay DEF TypeInv
  <2>7. "save" \in Places
    BY DEF Places, UpdateSteps, RecoverySteps
  <2>8. updater'.pc \in {"save", AfterError}
    BY <2>3, <2>7, Replies
  <2>9. CASE updater'.pc = AfterError
    BY <2>5, <2>9, AfterErrorSafe
  <2>10. CASE updater'.pc = "save"
    BY <2>1, <2>5, <2>10 DEF At, PlaceInv, Workers
  <2> QED
    BY <2>8, <2>9, <2>10
<1>13. CASE Resume
  <2>1. /\ pending.old \in Workers /\ pending # NothingPending
        /\ pending.old \in Containers
    BY <1>13 DEF Resume, At, PlaceInv, Workers
  <2>2. /\ Signalled(pool[pending.old], FALSE) \in Pool
        /\ MarkerShape(Signalled(pool[pending.old], FALSE))
    <3>1. /\ pool[pending.old] \in Pool /\ MarkerShape(pool[pending.old])
          /\ TRUE \in BOOLEAN /\ FALSE \in BOOLEAN
      BY <2>1 DEF TypeInv, PoolInv, Workers
    <3> QED
      BY <3>1, ProcessCalls
  <2>3. Act(pending.old, Signalled(pool[pending.old], FALSE)) /\ Then("save")
    BY <1>13 DEF Resume
  <2>4. /\ pool'[pending.old] = Signalled(pool[pending.old], FALSE)
        /\ \A d \in Containers \ {pending.old} : pool'[d] = pool[d]
    BY <2>1, <2>2, <2>3, ActTyped
  <2>5. named' = named /\ pending' = pending /\ Workers' = Workers
    BY <2>3 DEF Act, Workers
  <2>6. Unused' = Unused
    BY <2>1, <2>4, <2>5, UnusedStay DEF TypeInv
  <2>7. "save" \in Places
    BY DEF Places, UpdateSteps, RecoverySteps
  <2>8. updater'.pc \in {"save", AfterError}
    BY <2>3, <2>7, Replies
  <2>9. CASE updater'.pc = AfterError
    BY <2>5, <2>9, AfterErrorSafe
  <2>10. CASE updater'.pc = "save"
    BY <2>1, <2>5, <2>10 DEF At, PlaceInv, Workers
  <2> QED
    BY <2>8, <2>9, <2>10
<1>14. CASE Commit
  <2>1. /\ pending.old \in Containers /\ Workers # {} /\ pending.old \notin Workers
        /\ Remove(pending.old) /\ pending # NothingPending
    BY <1>14, Journaled DEF Commit, At, PlaceInv
  <2>2. /\ named'[pending.old] = "none"
        /\ \A d \in Containers \ {pending.old} : named'[d] = named[d]
    BY <2>1, RemoveTyped
  <2>3. Workers' = Workers
    BY <2>1, <2>2 DEF Workers
  <2>5. pending' = pending
    BY <2>1 DEF Remove
  <2>7. "save" \in Places
    BY DEF Places, UpdateSteps, RecoverySteps
  <2>8. updater'.pc \in {"save", AfterError}
    BY <1>14, <2>7, Replies DEF Commit
  <2>9. CASE updater'.pc = AfterError
    BY <2>5, <2>9, AfterErrorSafe
  <2>10. CASE updater'.pc = "save"
    BY <2>1, <2>2, <2>3, <2>5, <2>10 DEF At, PlaceInv
  <2> QED
    BY <2>8, <2>9, <2>10
<1>15. CASE Discard
  <2>1. PICK c \in Workers : Remove(c)
    BY <1>15 DEF Discard
  <2>2. c \in Containers /\ named[c] = "worker"
    BY DEF Workers
  <2>3. named'[c] = "none" /\ \A d \in Containers \ {c} : named'[d] = named[d]
    BY <2>1, <2>2, RemoveTyped
  <2>4. Workers' = {}
    BY <2>2, <2>3 DEF Workers, NamesInv
  <2>5. pending' = pending /\ pending # NothingPending
    BY <1>15, <2>1 DEF Discard, Remove, At, PlaceInv
  <2>7. "restore" \in Places
    BY DEF Places, UpdateSteps, RecoverySteps
  <2>8. updater'.pc \in {"restore", AfterError}
    BY <1>15, <2>7, Replies DEF Discard
  <2>9. CASE updater'.pc = AfterError
    BY <2>5, <2>9, AfterErrorSafe
  <2>10. CASE updater'.pc = "restore"
    BY <2>4, <2>5, <2>10 DEF At, PlaceInv
  <2> QED
    BY <2>8, <2>9, <2>10
<1>16. CASE Restore
  <2>1. pending.old \in Containers /\ pending # NothingPending
    BY <1>16, Journaled DEF Restore, At, PlaceInv
  <2>2. named' = [named EXCEPT ![pending.old] = "worker"]
    BY <1>16 DEF Restore, Rename
  <2>3. pending.old \in Workers'
    BY <2>1, <2>2 DEF TypeInv, Workers
  <2>5. pending' = pending
    BY <1>16 DEF Restore, Rename
  <2>7. "restart" \in Places
    BY DEF Places, UpdateSteps, RecoverySteps
  <2>8. updater'.pc \in {"restart", AfterError}
    BY <1>16, <2>7, Replies DEF Restore
  <2>9. CASE updater'.pc = AfterError
    BY <2>5, <2>9, AfterErrorSafe
  <2>10. CASE updater'.pc = "restart"
    BY <2>1, <2>3, <2>5, <2>10 DEF At, PlaceInv
  <2> QED
    BY <2>8, <2>9, <2>10
<1>17. CASE RestartOld
  <2>1. /\ pending.old \in Workers /\ pending # NothingPending
        /\ pending.old \in Containers
    BY <1>17 DEF RestartOld, At, PlaceInv, Workers
  <2>2. /\ Started(pool[pending.old]) \in Pool
        /\ MarkerShape(Started(pool[pending.old]))
    <3>1. /\ pool[pending.old] \in Pool /\ MarkerShape(pool[pending.old])
          /\ TRUE \in BOOLEAN /\ FALSE \in BOOLEAN
      BY <2>1 DEF TypeInv, PoolInv, Workers
    <3> QED
      BY <3>1, ProcessCalls
  <2>3. Act(pending.old, Started(pool[pending.old])) /\ Then("quarantine")
    BY <1>17 DEF RestartOld
  <2>4. /\ pool'[pending.old] = Started(pool[pending.old])
        /\ \A d \in Containers \ {pending.old} : pool'[d] = pool[d]
    BY <2>1, <2>2, <2>3, ActTyped
  <2>5. named' = named /\ pending' = pending /\ Workers' = Workers
    BY <2>3 DEF Act, Workers
  <2>6. Unused' = Unused
    BY <2>1, <2>4, <2>5, UnusedStay DEF TypeInv
  <2>7. "quarantine" \in Places
    BY DEF Places, UpdateSteps, RecoverySteps
  <2>8. updater'.pc \in {"quarantine", AfterError}
    BY <2>3, <2>7, Replies
  <2>9. CASE updater'.pc = AfterError
    BY <2>5, <2>9, AfterErrorSafe
  <2>10. CASE updater'.pc = "quarantine"
    BY <2>1, <2>5, <2>10 DEF At, PlaceInv, Workers
  <2> QED
    BY <2>8, <2>9, <2>10
<1>18. CASE Save
  <2>1. "idle" \in Places
    BY DEF Places, UpdateSteps, RecoverySteps
  <2>2. updater'.pc = "idle"
    BY <1>18, <2>1, Goes DEF Save
  <2> QED
    BY <2>2, SafePlace
<1>19. CASE CallFails
  <2>1. AfterError \in Places
    BY ErrorPlace DEF Places, RecoverySteps
  <2>2. updater'.pc = AfterError /\ pending' = pending
    BY <1>19, <2>1, Goes DEF CallFails
  <2> QED
    BY <2>2, AfterErrorSafe
<1>20. CASE Die
  <2>1. "idle" \in Places
    BY DEF Places, UpdateSteps, RecoverySteps
  <2>2. updater'.pc = "idle"
    BY <1>20, <2>1, Goes DEF Die
  <2> QED
    BY <2>2, SafePlace
<1>21. CASE Promote
  <2>1. Unused' = Unused /\ pool' = pool
    BY <1>21 DEF Promote, docker, Unused, Exists
  <2> QED
    BY <1>21, <2>1, PlaceStays DEF Promote, docker
<1>22. ASSUME NEW c \in Containers, HealthPasses(c)
      PROVE  PlaceInv'
  <2>1. Unused' = Unused /\ pool' = pool
    BY <1>22 DEF HealthPasses, docker, Unused, Exists
  <2> QED
    BY <1>22, <2>1, PlaceStays DEF HealthPasses, docker
<1>23. ASSUME NEW c \in Containers, HealthFails(c)
      PROVE  PlaceInv'
  <2>1. Unused' = Unused /\ pool' = pool
    BY <1>23 DEF HealthFails, docker, Unused, Exists
  <2> QED
    BY <1>23, <2>1, PlaceStays DEF HealthFails, docker
<1>24. ASSUME NEW c \in Containers, Work(c)
      PROVE  PlaceInv'
  <2>1. restarts \in 0 .. MaxRestarts /\ pool \in [Containers -> Pool]
    BY DEF TypeInv
  <2>2. /\ WorkerMove(pool[c], pool'[c])
        /\ \A d \in Containers \ {c} : pool'[d] = pool[d]
    BY <1>24, <2>1, WorkerMoves DEF Work
  <2>3. c \in Workers /\ pool[c].up # "down"
    BY <2>2 DEF WorkerMove, NamesInv
  <2>4. named' = named /\ pending' = pending /\ updater' = updater
    BY <1>24 DEF Work
  <2>5. Unused' = Unused
    BY <2>2, <2>3, <2>4, UnusedStay DEF TypeInv
  <2>6. At("rename") => pool'[pending.old].up = pool[pending.old].up
    <3>1. At("rename") => pending.old \in Workers /\ pool[pending.old].up = "down"
      BY DEF At, PlaceInv
    <3> QED
      BY <2>2, <2>3, <3>1 DEF Workers
  <2> QED
    BY <2>4, <2>5, <2>6, PlaceStays
<1>25. CASE UNCHANGED vars
  <2>1. Unused' = Unused /\ pool' = pool
    BY <1>25 DEF vars, docker, Unused, Exists
  <2> QED
    BY <1>25, <2>1, PlaceStays DEF vars, docker
<1> QED
  BY <1>1, <1>2, <1>3, <1>4, <1>5, <1>6, <1>7, <1>8, <1>9, <1>10, <1>11,
     <1>12, <1>13, <1>14, <1>15, <1>16, <1>17, <1>18, <1>19, <1>20, <1>21,
     <1>22, <1>23, <1>24, <1>25
     DEF Next, UpdaterStep

-----------------------------------------------------------------------------
(* The drain.                                                              *)

\* Elsewhere no marker is looked at.
LEMMA DrainElsewhere == ASSUME updater'.pc \notin {"wait", "stop"} PROVE DrainInv'
BY DEF DrainInv, At

\* Every step keeps a process draining whose marker counts.
LEMMA DrainStep ==
  ASSUME TypeInv, PoolInv, NamesInv, PlaceInv, DrainInv, [Next]_vars
  PROVE  DrainInv'
<1>. updater \in UpdaterState
  BY DEF TypeInv
<1>1. CASE Reconcile
  <2>1. CASE pending # NothingPending
    <3>1. "recover" \in Places
      BY DEF Places, RecoverySteps
    <3>2. updater'.pc = "recover"
      BY <1>1, <2>1, <3>1, Goes DEF Reconcile
    <3> QED
      BY <3>2, DrainElsewhere
  <2>2. CASE pending = NothingPending
    <3>1. PICK seen : updater' = [updater EXCEPT !.pc = "pull", !.target = approved,
                                                 !.seen = seen]
      BY <1>1, <2>2 DEF Reconcile
    <3>2. updater'.pc = "pull"
      BY <3>1 DEF UpdaterState
    <3> QED
      BY <3>2, DrainElsewhere
  <2> QED
    BY <2>1, <2>2
<1>2. CASE Decide
  <2>1. "drain" \in Places /\ "idle" \in Places
    BY DEF Places, UpdateSteps
  <2>2. updater'.pc \in {"drain", "idle"}
    BY <1>2, <2>1, Goes DEF Decide
  <2> QED
    BY <2>2, DrainElsewhere
<1>3. CASE Drain
  <2>1. pending.old \in Containers
    BY <1>3 DEF Drain, At, PlaceInv, Workers
  <2>. DEFINE p == pool[pending.old]
              q == Signalled(p, TRUE)
  <2>2. /\ p \in Pool /\ MarkerShape(p) /\ q \in Pool /\ MarkerShape(q)
        /\ q.marker = p.marker /\ (p.up = "up" => q.drain)
    <3>1. p \in Pool /\ MarkerShape(p) /\ TRUE \in BOOLEAN
      BY <2>1 DEF TypeInv, PoolInv
    <3> QED
      BY <3>1, ProcessCalls
  <2>3. Act(pending.old, q) /\ Then("wait")
    BY <1>3 DEF Drain
  <2>. HIDE DEF q
  <2>4. pool'[pending.old] = q /\ pending' = pending
    BY <2>1, <2>2, <2>3, ActTyped DEF Act
  <2>5. q.marker => q.drain
    BY <2>2 DEF MarkerShape
  <2>6. "wait" \in Places
    BY DEF Places, UpdateSteps
  <2>7. updater'.pc \in {"wait", "recover", "idle"}
    BY <2>3, <2>6, Replies, ErrorPlace
  <2> QED
    BY <2>4, <2>5, <2>7 DEF DrainInv, At
<1>4. CASE SeeDrained
  <2>1. pending.old \in Containers
    BY <1>4 DEF SeeDrained, At, PlaceInv, Workers
  <2>. DEFINE p == pool[pending.old]
  <2>2. /\ p.marker /\ p.starts \in Nat /\ MarkerShape(p)
        /\ updater' = [updater EXCEPT !.pc = "stop", !.drainedAt = p.starts]
        /\ pool' = pool /\ pending' = pending
    BY <1>4, <2>1 DEF SeeDrained, TypeInv, Pool, PoolInv
  <2>3. p.drain /\ \A s \in Slots : p.pc[s] # "busy"
    <3>1. p.drain
      BY <1>4, <2>2 DEF SeeDrained, DrainInv
    <3> QED
      BY <2>2, <3>1 DEF MarkerShape
  <2>4. updater'.pc = "stop" /\ updater'.drainedAt = p.starts
    BY <2>2 DEF UpdaterState
  <2> QED
    BY <2>2, <2>3, <2>4 DEF DrainInv, At
<1>5. CASE Defer
  <2>1. "recover" \in Places
    BY DEF Places, UpdateSteps, RecoverySteps
  <2>2. updater'.pc = "recover"
    BY <1>5, <2>1, Goes DEF Defer
  <2> QED
    BY <2>2, DrainElsewhere
<1>6. CASE Stop
  <2>1. "rename" \in Places
    BY DEF Places, UpdateSteps, RecoverySteps
  <2>2. updater'.pc \in {"rename", AfterError}
    BY <1>6, <2>1, Replies DEF Stop
  <2> QED
    BY <2>2, ErrorPlace, DrainElsewhere
<1>7. CASE SetAside
  <2>1. "create" \in Places
    BY DEF Places, UpdateSteps, RecoverySteps
  <2>2. updater'.pc \in {"create", AfterError}
    BY <1>7, <2>1, Replies DEF SetAside
  <2> QED
    BY <2>2, ErrorPlace, DrainElsewhere
<1>8. CASE Create
  <2>1. "start" \in Places
    BY DEF Places, UpdateSteps, RecoverySteps
  <2>2. updater'.pc \in {"start", AfterError}
    BY <1>8, <2>1, Replies DEF Create
  <2> QED
    BY <2>2, ErrorPlace, DrainElsewhere
<1>9. CASE Start
  <2>1. "watch" \in Places
    BY DEF Places, UpdateSteps, RecoverySteps
  <2>2. updater'.pc \in {"watch", AfterError}
    BY <1>9, <2>1, Replies DEF Start
  <2> QED
    BY <2>2, ErrorPlace, DrainElsewhere
<1>10. CASE Watch
  <2>1. "recover" \in Places
    BY DEF Places, UpdateSteps, RecoverySteps
  <2>2. updater'.pc = "recover"
    BY <1>10, <2>1, Goes DEF Watch
  <2> QED
    BY <2>2, DrainElsewhere
<1>11. CASE Recover
  <2>1. WhatToDo \in Places /\ WhatToDo \notin {"wait", "stop"}
    BY DEF WhatToDo, Places, RecoverySteps
  <2>2. updater'.pc = WhatToDo
    BY <1>11, <2>1, Goes DEF Recover
  <2> QED
    BY <2>1, <2>2, DrainElsewhere
<1>12. CASE StartOld
  <2>1. "save" \in Places
    BY DEF Places, UpdateSteps, RecoverySteps
  <2>2. updater'.pc \in {"save", AfterError}
    BY <1>12, <2>1, Replies DEF StartOld
  <2> QED
    BY <2>2, ErrorPlace, DrainElsewhere
<1>13. CASE Resume
  <2>1. "save" \in Places
    BY DEF Places, UpdateSteps, RecoverySteps
  <2>2. updater'.pc \in {"save", AfterError}
    BY <1>13, <2>1, Replies DEF Resume
  <2> QED
    BY <2>2, ErrorPlace, DrainElsewhere
<1>14. CASE Commit
  <2>1. "save" \in Places
    BY DEF Places, UpdateSteps, RecoverySteps
  <2>2. updater'.pc \in {"save", AfterError}
    BY <1>14, <2>1, Replies DEF Commit
  <2> QED
    BY <2>2, ErrorPlace, DrainElsewhere
<1>15. CASE Discard
  <2>1. "restore" \in Places
    BY DEF Places, UpdateSteps, RecoverySteps
  <2>2. updater'.pc \in {"restore", AfterError}
    BY <1>15, <2>1, Replies DEF Discard
  <2> QED
    BY <2>2, ErrorPlace, DrainElsewhere
<1>16. CASE Restore
  <2>1. "restart" \in Places
    BY DEF Places, UpdateSteps, RecoverySteps
  <2>2. updater'.pc \in {"restart", AfterError}
    BY <1>16, <2>1, Replies DEF Restore
  <2> QED
    BY <2>2, ErrorPlace, DrainElsewhere
<1>17. CASE RestartOld
  <2>1. "quarantine" \in Places
    BY DEF Places, UpdateSteps, RecoverySteps
  <2>2. updater'.pc \in {"quarantine", AfterError}
    BY <1>17, <2>1, Replies DEF RestartOld
  <2> QED
    BY <2>2, ErrorPlace, DrainElsewhere
<1>18. CASE Save
  <2>1. "idle" \in Places
    BY DEF Places, UpdateSteps, RecoverySteps
  <2>2. updater'.pc = "idle"
    BY <1>18, <2>1, Goes DEF Save
  <2> QED
    BY <2>2, DrainElsewhere
<1>19. CASE CallFails
  <2>1. AfterError \in Places
    BY ErrorPlace DEF Places, RecoverySteps
  <2>2. updater'.pc = AfterError
    BY <1>19, <2>1, Goes DEF CallFails
  <2> QED
    BY <2>2, ErrorPlace, DrainElsewhere
<1>20. CASE Die
  <2>1. "idle" \in Places
    BY DEF Places, UpdateSteps, RecoverySteps
  <2>2. updater'.pc = "idle"
    BY <1>20, <2>1, Goes DEF Die
  <2> QED
    BY <2>2, DrainElsewhere
<1>21. CASE Promote
  BY <1>21 DEF Promote, DrainInv, At
<1>22. ASSUME NEW c \in Containers, HealthPasses(c)
      PROVE  DrainInv'
  BY <1>22 DEF HealthPasses, DrainInv, At
<1>23. ASSUME NEW c \in Containers, HealthFails(c)
      PROVE  DrainInv'
  BY <1>23 DEF HealthFails, DrainInv, At
<1>24. ASSUME NEW c \in Containers, Work(c)
      PROVE  DrainInv'
  <2>1. restarts \in 0 .. MaxRestarts /\ pool \in [Containers -> Pool]
    BY DEF TypeInv
  <2>2. /\ WorkerMove(pool[c], pool'[c])
        /\ \A d \in Containers \ {c} : pool'[d] = pool[d]
    BY <1>24, <2>1, WorkerMoves DEF Work
  <2>3. pending' = pending /\ updater' = updater
    BY <1>24 DEF Work
  <2>4. ASSUME updater.pc \in {"wait", "stop"}
        PROVE  DrainInv'
    <3>1. pending.old \in Containers
      BY <2>4 DEF PlaceInv, Workers
    <3>. DEFINE p == pool[pending.old]
                q == pool'[pending.old]
    <3>2. CASE pending.old # c
      <4>1. q = p
        BY <2>2, <3>1, <3>2
      <4> QED
        BY <2>3, <4>1 DEF DrainInv, At
    <3>3. CASE pending.old = c
      <4>1. WorkerMove(p, q)
        BY <2>2, <3>3
      <4>2. p.starts \in Nat /\ updater.drainedAt \in Nat
        BY <3>1 DEF TypeInv, Pool, UpdaterState
      <4>. HIDE DEF p, q
      <4>3. CASE q.starts = p.starts + 1 /\ ~q.marker
        <5>1. CASE At("wait")
          BY <2>3, <4>3, <5>1 DEF DrainInv, At, q
        <5>2. CASE At("stop")
          <6>1. updater.drainedAt <= p.starts
            BY <5>2 DEF DrainInv, p
          <6>2. updater.drainedAt <= q.starts /\ updater.drainedAt # q.starts
            BY <4>2, <4>3, <6>1
          <6> QED
            BY <2>3, <5>2, <6>2 DEF DrainInv, At, q
        <5> QED
          BY <2>4, <5>1, <5>2 DEF At
      <4>4. CASE /\ q.starts = p.starts /\ q.drain = p.drain
                 /\ q.marker => p.marker \/ q.drain
                 /\ \A s \in Slots : q.pc[s] = "busy" => p.pc[s] = "busy" \/ ~p.drain
        <5>1. CASE At("wait")
          BY <2>3, <4>4, <5>1 DEF DrainInv, At, p, q
        <5>2. CASE At("stop")
          BY <2>3, <4>4, <5>2 DEF DrainInv, At, p, q
        <5> QED
          BY <2>4, <5>1, <5>2 DEF At
      <4> QED
        BY <4>1, <4>3, <4>4 DEF WorkerMove
    <3> QED
      BY <3>2, <3>3
  <2> QED
    BY <2>3, <2>4, DrainElsewhere
<1>25. CASE UNCHANGED vars
  BY <1>25 DEF vars, DrainInv, At
<1> QED
  BY <1>1, <1>2, <1>3, <1>4, <1>5, <1>6, <1>7, <1>8, <1>9, <1>10, <1>11,
     <1>12, <1>13, <1>14, <1>15, <1>16, <1>17, <1>18, <1>19, <1>20, <1>21,
     <1>22, <1>23, <1>24, <1>25
     DEF Next, UpdaterStep

-----------------------------------------------------------------------------
(* Theorems.                                                               *)

\* The first container runs under the name of the worker.
LEMMA UpdaterInvInit == ASSUME Init PROVE UpdaterInv
<1>1. \A n \in Nat : Down(n) \in Pool /\ MarkerShape(Down(n)) /\ Down(n).up = "down"
  BY DEF Down, Pool, SlotStates, MarkerShape
<1>2. Down(0) \in Pool /\ MarkerShape(Down(0)) /\ Down(0).up = "down"
  BY <1>1
<1>3. Started(Down(0)) \in Pool /\ MarkerShape(Started(Down(0)))
  BY <1>2, TRUE \in BOOLEAN, ProcessCalls
<1>4. /\ \A c \in Containers : pool[c] \in Pool /\ MarkerShape(pool[c])
      /\ \A c \in Containers \ {0} : pool[c].up = "down"
      /\ pool \in [Containers -> Pool]
  BY <1>2, <1>3 DEF Init
<1>5. Workers = {0} /\ 0 \in Containers
  BY UpdaterAssumption DEF Init, Workers
<1>6. updater \in UpdaterState
  BY UpdaterAssumption DEF Init, UpdaterState, Seen
<1>7. TypeInv
  <2>1. restarts \in 0 .. MaxRestarts /\ faults \in 0 .. MaxFaults
    BY PoolAssumption, UpdaterAssumption DEF Init
  <2>2. /\ named \in [Containers -> {"none", "worker", "backup"}]
        /\ status \in [Containers -> {"starting", "healthy", "unhealthy"}]
    BY DEF Init
  <2>3. image \in [Containers -> Images] /\ approved \in Images
    BY UpdaterAssumption DEF Init
  <2>4. /\ pending \in Journal \cup {NothingPending}
        /\ failed \in Images \cup {NoImage} /\ astray \in BOOLEAN
    BY DEF Init
  <2> QED
    BY <1>4, <1>6, <2>1, <2>2, <2>3, <2>4 DEF TypeInv
<1>8. NamesInv
  BY <1>4, <1>5 DEF Init, NamesInv
<1>9. PlaceInv /\ DrainInv
  <2>1. updater.pc = "idle"
    BY DEF Init
  <2> QED
    BY <2>1 DEF PlaceInv, DrainInv, At
<1> QED
  BY <1>4, <1>7, <1>8, <1>9 DEF UpdaterInv, PoolInv

\* The invariant is inductive.
LEMMA UpdaterInvariant == Spec => []UpdaterInv
<1>1. Init => UpdaterInv
  BY UpdaterInvInit
<1>2. UpdaterInv /\ [Next]_vars => UpdaterInv'
  <2>1. SUFFICES ASSUME UpdaterInv, [Next]_vars
                 PROVE  UpdaterInv'
    OBVIOUS
  <2>2. TypeInv' /\ PoolInv'
    BY <2>1, TypeStep DEF UpdaterInv
  <2>3. NamesInv' /\ DrainInv'
    BY <2>1, NamesStep, DrainStep DEF UpdaterInv
  <2>4. PlaceInv'
    BY <2>1, <2>2, PlaceStep DEF UpdaterInv
  <2> QED
    BY <2>2, <2>3, <2>4 DEF UpdaterInv
<1> QED
  BY <1>1, <1>2, PTL DEF Spec

\* Every variable keeps its type, and the updater signals, replaces and recovers
\* only what a journal on disk names.
THEOREM TypeCorrect == Spec => []TypeOK
<1>1. UpdaterInv => TypeOK
  BY DEF UpdaterInv, TypeInv, PlaceInv, TypeOK
<1> QED
  BY <1>1, UpdaterInvariant, PTL

\* Wherever the updater dies and whatever call fails, the journal leads back to
\* a worker: a container has its name, or the backup is the one the journal
\* names; and never do two containers run at once.
THEOREM AlwaysRecoverable == Spec => []Recoverable
<1>1. UpdaterInv => Recoverable
  <2>1. SUFFICES ASSUME UpdaterInv PROVE Recoverable
    OBVIOUS
  <2>. DEFINE Running == {c \in Containers : pool[c].up # "down"}
  <2>2. \A c, d \in Running : c = d
    BY <2>1 DEF UpdaterInv, NamesInv
  <2>. HIDE DEF Running
  <2>3. Cardinality(Running) <= 1
    <3>1. CASE Running = {}
      <4>1. Cardinality({}) = 0
        BY FS_EmptySet
      <4> QED
        BY <3>1, <4>1
    <3>2. CASE Running # {}
      <4>1. PICK c : Running = {c}
        BY <2>2, <3>2
      <4>2. Cardinality({c}) = 1
        BY FS_Singleton
      <4> QED
        BY <4>1, <4>2
    <3> QED
      BY <3>1, <3>2
  <2> QED
    BY <2>1, <2>3 DEF UpdaterInv, NamesInv, Recoverable, Running
<1> QED
  BY <1>1, UpdaterInvariant, PTL

\* The process whose marker the updater saw is stopped with no slot at work: it
\* has drained on since, or it is another process.
THEOREM NoTaskIsCutOff == Spec => NoTaskCutOff
<1>1. UpdaterInv /\ [Next]_vars =>
        \A c \in Containers :
          (At("stop") /\ pool'[c].up = "down" /\ pool[c].up = "up"
             /\ pool[c].starts = updater.drainedAt)
          => \A s \in Slots : pool[c].pc[s] # "busy"
  <2>1. SUFFICES ASSUME UpdaterInv, NEW c \in Containers, At("stop"),
                        pool[c].up = "up", pool[c].starts = updater.drainedAt
                 PROVE  \A s \in Slots : pool[c].pc[s] # "busy"
    OBVIOUS
  <2>2. c \in Workers /\ pending.old \in Workers
    BY <2>1 DEF UpdaterInv, NamesInv, PlaceInv, At
  <2>3. c = pending.old
    BY <2>1, <2>2 DEF UpdaterInv, NamesInv
  <2> QED
    BY <2>1, <2>3 DEF UpdaterInv, DrainInv
<1> QED
  BY <1>1, UpdaterInvariant, PTL DEF Spec, NoTaskCutOff

=============================================================================
