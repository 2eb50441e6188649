------------------------------ MODULE WorkerPool ------------------------------
(***************************************************************************)
(* The process of a remote worker container: the claim loops of its slots, *)
(* the drain that SIGUSR1 begins and SIGUSR2 ends, and the marker file     *)
(* worker-drained that tells others it is complete.  What a slot does with *)
(* a job is the subject of BrokerDelivery and SqlScheduler; here it is     *)
(* busy or not.                                                            *)
(***************************************************************************)
EXTENDS Naturals, FiniteSets

CONSTANTS
  Slots,        \* REMOTE_WORKER concurrency: the claim loops of a process
  Containers,
  MaxRestarts   \* bound on the restarts of crashed workers

ASSUME PoolAssumption == IsFiniteSet(Slots) /\ Slots # {} /\ MaxRestarts \in Nat

VARIABLES
  pool,      \* the process of each container
  restarts   \* restarts of crashed workers so far

\* "top": before the loop looks at drain; "mark": the slot is to be marked
\* drained; "wait": for the end of the drain; "unmark": it has seen the end.
SlotStates == {"top", "busy", "mark", "wait", "unmark"}

\* starts: State.StartedAt; "starting": main() has not yet installed its handlers.
Pool == [up : {"down", "starting", "up"}, starts : Nat, drain : BOOLEAN,
         pc : [Slots -> SlotStates], drained : SUBSET Slots, marker : BOOLEAN]

Down(starts) ==
  [up |-> "down", starts |-> starts, drain |-> FALSE,
   pc |-> [s \in Slots |-> "top"], drained |-> {}, marker |-> FALSE]

\* The container is started, with an empty /tmp.
Started(p) == [Down(p.starts + 1) EXCEPT !.up = "starting"]

Stopped(p) == Down(p.starts)

\* A signal without a handler does nothing to the first process of a container.
Signalled(p, drain) == IF p.up = "up" THEN [p EXCEPT !.drain = drain] ELSE p

Slot(c, s, from) == pool[c].up = "up" /\ pool[c].pc[s] = from

Boot(c) ==
  /\ pool[c].up = "starting"
  /\ pool' = [pool EXCEPT ![c].up = "up"]
  /\ UNCHANGED restarts

\* The process dies, and Docker starts it again (unless-stopped).
Restart(c) ==
  /\ pool[c].up # "down"
  /\ restarts < MaxRestarts
  /\ pool' = [pool EXCEPT ![c] = Started(@)]
  /\ restarts' = restarts + 1

\* The loop begins its drain, or claims or consumes.
Turn(c, s) ==
  /\ Slot(c, s, "top")
  /\ pool' = [pool EXCEPT ![c].pc[s] = IF pool[c].drain THEN "mark" ELSE "busy"]
  /\ UNCHANGED restarts

\* The job, if there was one, is over with its Complete or Fail.
FinishJob(c, s) ==
  /\ Slot(c, s, "busy")
  /\ pool' = [pool EXCEPT ![c].pc[s] = "top"]
  /\ UNCHANGED restarts

MutantMarked(p, drained) ==   \* unlinks the marker only when it is not needed
  [p EXCEPT !.drained = drained,
            !.marker = (drained = Slots /\ p.drain) \/ (@ /\ drained # {})]

\* mark_drained: the marker exists while all slots are drained.
Marked(p, drained) ==
  [p EXCEPT !.drained = drained, !.marker = drained = Slots /\ p.drain]

Mark(c, s) ==
  /\ Slot(c, s, "mark")
  /\ pool' = [pool EXCEPT ![c] = Marked([@ EXCEPT !.pc[s] = "wait"],
                                        @.drained \cup {s})]
  /\ UNCHANGED restarts

\* The slot polls drain, and goes on when it finds it cleared.
Wake(c, s) ==
  /\ Slot(c, s, "wait") /\ ~pool[c].drain
  /\ pool' = [pool EXCEPT ![c].pc[s] = "unmark"]
  /\ UNCHANGED restarts

Unmark(c, s) ==
  /\ Slot(c, s, "unmark")
  /\ pool' = [pool EXCEPT ![c] = Marked([@ EXCEPT !.pc[s] = "top"],
                                        @.drained \ {s})]
  /\ UNCHANGED restarts

WorkerStep(c) ==
  \/ Boot(c) \/ Restart(c)
  \/ \E s \in Slots : \/ Turn(c, s) \/ FinishJob(c, s)
                      \/ Mark(c, s) \/ Wake(c, s) \/ Unmark(c, s)

=============================================================================
