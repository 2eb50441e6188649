-------------------------------- MODULE Updater --------------------------------
(***************************************************************************)
(* worker_updater.py: one worker role of one device.  The updater drains   *)
(* the running container, replaces it by one of the approved release, and  *)
(* commits or rolls back; a journal on disk says what is pending.  Calls   *)
(* of the Docker API may fail with or without effect, and the updater may  *)
(* die between any two of them; its memory is then the journal.            *)
(***************************************************************************)
EXTENDS WorkerPool

CONSTANTS
  Images,          \* releases, in the order in which they are approved
  Bad,             \* images that never become ready
  NoImage, NoContainer,
  MaxFaults        \* bound on failed calls, deaths and outages

\* A container is created only while one is left: a bound on the updates.
ASSUME UpdaterAssumption ==
  /\ Images \subseteq Nat /\ 0 \in Images /\ NoImage \notin Images
  /\ Bad \subseteq Images \ {0}
  /\ Containers \subseteq Nat /\ 0 \in Containers
  /\ NoContainer \notin Containers
  /\ MaxFaults \in Nat

VARIABLES
  named,     \* the name of each container: that of the worker, of a backup, none
  image,     \* the image of each container
  status,    \* State.Health.Status of each container
  approved,  \* the image of transcriber-release:stable
  updater,   \* the updater process
  pending,   \* the journal's "pending"
  failed,    \* the journal's "failed", for this role
  astray,    \* history: SIGUSR1 reached a process that was never inspected
  faults     \* faults so far

docker == <<named, image, status>>

vars == <<pool, restarts, named, image, status, approved, updater, pending,
          failed, astray, faults>>

UpdateSteps == {"drain", "wait", "stop", "rename", "create", "start", "watch"}

RecoverySteps == {"recover", "startOld", "resume", "commit", "discard",
                  "restore", "restart", "save", "quarantine"}

\* What the updater remembers of the container it inspected.
Seen == [id : Containers, starts : Nat, healthy : BOOLEAN, image : Images]

\* target: the image to be installed; drainedAt: StartedAt of the process whose
\* marker was seen.
UpdaterState ==
  [pc : {"idle", "pull"} \cup UpdateSteps \cup RecoverySteps,
   seen : Seen, target : Images, drainedAt : Nat]

Journal == [old : Containers, starts : Nat, image : Images]

NothingPending == [old |-> NoContainer, starts |-> 0, image |-> NoImage]

Init ==
  /\ pool = [c \in Containers |-> IF c = 0 THEN Started(Down(0)) ELSE Down(0)]
  /\ restarts = 0
  /\ named = [c \in Containers |-> IF c = 0 THEN "worker" ELSE "none"]
  /\ image = [c \in Containers |-> 0]
  /\ status = [c \in Containers |-> "starting"]
  /\ approved = 0
  /\ updater = [pc |-> "idle", target |-> 0, drainedAt |-> 0,
                seen |-> [id |-> 0, starts |-> 0, healthy |-> FALSE, image |-> 0]]
  /\ pending = NothingPending
  /\ failed = NoImage
  /\ astray = FALSE
  /\ faults = 0

-----------------------------------------------------------------------------
(* Docker and the releases.                                                *)

Fault == faults < MaxFaults /\ faults' = faults + 1

Exists(c) == named[c] # "none"

\* The containers that have the worker's name.
Workers == {c \in Containers : named[c] = "worker"}

\* Containers never used so far.
Unused == {c \in Containers : ~Exists(c) /\ pool[c].starts = 0}

\* A new release is promoted.
Promote ==
  /\ approved + 1 \in Images
  /\ approved' = approved + 1
  /\ UNCHANGED <<pool, restarts, docker, updater, pending, failed, astray, faults>>

\* The health check of a container passes: reports succeed, and there is no drain.
HealthPasses(c) ==
  /\ pool[c].up = "up" /\ ~pool[c].drain /\ image[c] \notin Bad
  /\ status[c] # "healthy"
  /\ status' = [status EXCEPT ![c] = "healthy"]
  /\ UNCHANGED <<pool, restarts, named, image, approved, updater, pending,
                 failed, astray, faults>>

\* It fails: in a drain, or while the coordinator cannot be reached.
HealthFails(c) ==
  /\ pool[c].up = "up" /\ status[c] # "unhealthy"
  /\ IF pool[c].drain \/ image[c] \in Bad THEN UNCHANGED faults ELSE Fault
  /\ status' = [status EXCEPT ![c] = "unhealthy"]
  /\ UNCHANGED <<pool, restarts, named, image, approved, updater, pending,
                 failed, astray>>

Work(c) ==
  /\ WorkerStep(c)
  /\ status' = IF pool'[c].starts # pool[c].starts
                 THEN [status EXCEPT ![c] = "starting"] ELSE status
  /\ UNCHANGED <<named, image, approved, updater, pending, failed, astray, faults>>

-----------------------------------------------------------------------------
(* Steps of the updater.                                                   *)

At(pc) == updater.pc = pc

Goto(pc) == updater' = [updater EXCEPT !.pc = pc]

MutantAfterError == IF updater.pc \in UpdateSteps THEN "save" ELSE "idle"   \* forgets

\* A call that fails in update() is recovered at once; in recover() it is left
\* to the next round.
AfterError == IF updater.pc \in UpdateSteps THEN "recover" ELSE "idle"

\* The reply of a call whose effect has happened: it may be lost.
Then(pc) == \/ Goto(pc) /\ UNCHANGED faults
            \/ Goto(AfterError) /\ Fault

\* The call has no effect.
CallFails ==
  /\ updater.pc \notin {"idle", "save", "quarantine"}
  /\ Fault
  /\ Goto(AfterError)
  /\ UNCHANGED <<pool, restarts, docker, approved, pending, failed, astray>>

\* The updater's process dies and is started again.
Die ==
  /\ ~At("idle")
  /\ Fault
  /\ Goto("idle")
  /\ UNCHANGED <<pool, restarts, docker, approved, pending, failed, astray>>

\* A call that only changes the process of container c.
Act(c, p) ==
  /\ pool' = [pool EXCEPT ![c] = p]
  /\ status' = IF p.starts # pool[c].starts
                 THEN [status EXCEPT ![c] = "starting"] ELSE status
  /\ UNCHANGED <<restarts, named, image, approved, pending, failed>>

\* A call that only changes the name of container c.
Rename(c, name) ==
  /\ named' = [named EXCEPT ![c] = name]
  /\ UNCHANGED <<pool, restarts, image, status, approved, pending, failed, astray>>

\* A container is removed, by force.
Remove(c) ==
  /\ named' = [named EXCEPT ![c] = "none"]
  /\ pool' = [pool EXCEPT ![c] = Stopped(@)]
  /\ UNCHANGED <<restarts, image, status, approved, pending, failed, astray>>

\* reconcile(): what is pending is recovered, then the worker is inspected.
Reconcile ==
  /\ At("idle")
  /\ IF pending # NothingPending THEN Goto("recover")
     ELSE \E c \in Workers :
            /\ pool[c].up # "down"
            /\ updater' = [updater EXCEPT
                 !.pc = "pull", !.target = approved,
                 !.seen = [id |-> c, starts |-> pool[c].starts, image |-> image[c],
                           healthy |-> status[c] = "healthy"]]
  /\ UNCHANGED <<pool, restarts, docker, approved, pending, failed, astray, faults>>

MutantDecide ==   \* begins the drain without a journal
  /\ At("pull")
  /\ LET seen == updater.seen IN
       IF failed # updater.target /\ seen.image # updater.target /\ seen.healthy
            /\ Unused # {}
         THEN Goto("drain") ELSE Goto("idle")
  /\ UNCHANGED <<pool, restarts, docker, approved, pending, failed, astray, faults>>

\* update() up to its first save: the image has been pulled meanwhile.
Decide ==
  /\ At("pull")
  /\ LET seen == updater.seen IN
       IF failed # updater.target /\ seen.image # updater.target /\ seen.healthy
            /\ Unused # {}
         THEN /\ pending' = [old |-> seen.id, starts |-> seen.starts,
                             image |-> updater.target]
              /\ Goto("drain")
         ELSE UNCHANGED pending /\ Goto("idle")
  /\ UNCHANGED <<pool, restarts, docker, approved, failed, astray, faults>>

Drain ==
  /\ At("drain")
  /\ LET c == pending.old IN
       /\ Act(c, Signalled(pool[c], TRUE))
       /\ astray' = (astray \/ pool[c].starts # pending.starts)
  /\ Then("wait")

\* The marker is there.
SeeDrained ==
  /\ At("wait")
  /\ pool[pending.old].marker
  /\ updater' = [updater EXCEPT !.pc = "stop",
                                !.drainedAt = pool[pending.old].starts]
  /\ UNCHANGED <<pool, restarts, docker, approved, pending, failed, astray, faults>>

\* The drain is deferred: the deadline passes, or the updater is stopped.
Defer ==
  /\ At("wait")
  /\ Goto("recover")
  /\ UNCHANGED <<pool, restarts, docker, approved, pending, failed, astray, faults>>

Stop ==
  /\ At("stop")
  /\ Act(pending.old, Stopped(pool[pending.old]))
  /\ UNCHANGED astray
  /\ Then("rename")

SetAside == At("rename") /\ Rename(pending.old, "backup") /\ Then("create")

Create ==
  /\ At("create")
  /\ LET c == CHOOSE c \in Unused : \A d \in Unused : c <= d IN
       /\ named' = [named EXCEPT ![c] = "worker"]
       /\ image' = [image EXCEPT ![c] = updater.target]
  /\ Then("start")
  /\ UNCHANGED <<pool, restarts, status, approved, pending, failed, astray>>

Start ==
  /\ At("start")
  /\ \E c \in Workers : Act(c, Started(pool[c]))
  /\ UNCHANGED astray
  /\ Then("watch")

\* The replacement is healthy, or it is not and the time is over.
Watch ==
  /\ At("watch")
  /\ Goto("recover")
  /\ UNCHANGED <<pool, restarts, docker, approved, pending, failed, astray, faults>>

-----------------------------------------------------------------------------
(* recover().                                                              *)

MutantWhatToDo ==   \* commits only together with the removal of the backup
  LET old == pending.old IN
  CASE old \in Workers /\ pool[old].up = "down"          -> "startOld"
    [] old \in Workers /\ pool[old].starts = pending.starts -> "resume"
    [] old \in Workers                                   -> "save"
    [] old \notin Workers /\ \E c \in Workers : status[c] = "healthy" ->
         IF Exists(old) THEN "commit" ELSE "idle"
    [] OTHER -> IF ~Exists(old) THEN "idle"
                ELSE IF Workers # {} THEN "discard" ELSE "restore"

\* What recover() decides once it has inspected both containers.
WhatToDo ==
  LET old == pending.old IN
  CASE old \in Workers /\ pool[old].up = "down"          -> "startOld"
    [] old \in Workers /\ pool[old].up # "down"
         /\ pool[old].starts = pending.starts            -> "resume"
    [] old \in Workers /\ pool[old].up # "down"
         /\ pool[old].starts # pending.starts            -> "save"
    [] old \notin Workers /\ \E c \in Workers : status[c] = "healthy" ->
         IF Exists(old) THEN "commit" ELSE "save"
    [] OTHER -> IF ~Exists(old) THEN "idle"
                ELSE IF Workers # {} THEN "discard" ELSE "restore"

Recover ==
  /\ At("recover")
  /\ Goto(WhatToDo)
  /\ UNCHANGED <<pool, restarts, docker, approved, pending, failed, astray, faults>>

StartOld == /\ At("startOld")
            /\ Act(pending.old, Started(pool[pending.old]))
            /\ UNCHANGED astray
            /\ Then("save")

MutantResume ==   \* no SIGUSR2
  At("resume") /\ Then("save")
  /\ UNCHANGED <<pool, restarts, docker, approved, pending, failed, astray>>

\* SIGUSR2.
Resume == /\ At("resume")
          /\ Act(pending.old, Signalled(pool[pending.old], FALSE))
          /\ UNCHANGED astray
          /\ Then("save")

Commit == At("commit") /\ Remove(pending.old) /\ Then("save")

Discard == At("discard") /\ (\E c \in Workers : Remove(c)) /\ Then("restore")

Restore == At("restore") /\ Rename(pending.old, "worker") /\ Then("restart")

RestartOld == /\ At("restart")
              /\ Act(pending.old, Started(pool[pending.old]))
              /\ UNCHANGED astray
              /\ Then("quarantine")

\* The journal is written, after a rollback with the image quarantined.
Save ==
  /\ updater.pc \in {"save", "quarantine"}
  /\ pending' = NothingPending
  /\ failed' = IF At("quarantine") THEN pending.image ELSE failed
  /\ Goto("idle")
  /\ UNCHANGED <<pool, restarts, docker, approved, astray, faults>>

-----------------------------------------------------------------------------

UpdaterStep ==
  \/ Reconcile \/ Decide
  \/ Drain \/ SeeDrained \/ Defer \/ Stop \/ SetAside \/ Create \/ Start \/ Watch
  \/ Recover \/ StartOld \/ Resume \/ Commit \/ Discard \/ Restore \/ RestartOld
  \/ Save

Next ==
  \/ UpdaterStep \/ CallFails \/ Die
  \/ Promote
  \/ \E c \in Containers : HealthPasses(c) \/ HealthFails(c) \/ Work(c)

Spec == Init /\ [][Next]_vars

\* The updater is restarted whenever it stops, its main loop and its waits end,
\* containers that are started boot, and health checks are repeated.
Fairness ==
  /\ WF_vars(UpdaterStep)
  /\ \A c \in Containers : /\ WF_vars(Boot(c) /\ Work(c))
                           /\ WF_vars(HealthPasses(c))

FairSpec == Spec /\ Fairness

-----------------------------------------------------------------------------
(* Properties.                                                             *)

\* Every variable stays in its type, and the updater drains, replaces and
\* recovers only with a journal on disk (save() comes before the first signal).
TypeOK ==
  /\ pool \in [Containers -> Pool] /\ restarts \in 0 .. MaxRestarts
  /\ named \in [Containers -> {"none", "worker", "backup"}]
  /\ image \in [Containers -> Images] /\ approved \in Images
  /\ status \in [Containers -> {"starting", "healthy", "unhealthy"}]
  /\ updater \in UpdaterState
  /\ pending \in Journal \cup {NothingPending}
  /\ updater.pc \notin {"idle", "pull"} => pending # NothingPending
  /\ failed \in Images \cup {NoImage}
  /\ astray \in BOOLEAN /\ faults \in 0 .. MaxFaults

\* Whenever the updater dies or a call fails, the journal leads back to a
\* worker: without a container of the worker's name there is the backup the
\* journal names, no backup is forgotten, and no two containers run at once.
Recoverable ==
  /\ \A c \in Containers : named[c] = "backup" => pending.old = c
  /\ Workers = {} => \E c \in Containers : named[c] = "backup"
  /\ Cardinality({c \in Containers : pool[c].up # "down"}) <= 1

\* "Only that marker permits replacement" (docs/worker-autodeploy.md): the
\* process whose marker the updater saw is stopped with no slot at work,
\* whatever signals and restarts came before.
NoTaskCutOff ==
  [][\A c \in Containers :
       (At("stop") /\ pool'[c].up = "down" /\ pool[c].up = "up"
          /\ pool[c].starts = updater.drainedAt)
       => \A s \in Slots : pool[c].pc[s] # "busy"]_vars

\* Every update comes to its end, whatever call failed and wherever the updater
\* died: nothing stays pending for ever.
UpdatesEnd == pending # NothingPending ~> pending = NothingPending

\* A worker is again and again up and claiming - unless a signal went astray.
WorkerServes ==
  <>astray \/ []<>(\E c \in Workers : pool[c].up = "up" /\ ~pool[c].drain)

\* docs/worker-autodeploy.md:75: "if it is still busy, drain is cancelled
\* (`SIGUSR2`) and the update retries later": when no update is pending, no
\* worker is left draining.
DrainIsCancelled ==
  pending = NothingPending => \A c \in Workers : ~pool[c].drain

=============================================================================
