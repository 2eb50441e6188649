------------------------ MODULE BrokerDelivery_proofs ------------------------
(***************************************************************************)
(* Theorems about BrokerDelivery for every value of its constants: type    *)
(* correctness, and that no unfinished job is ever lost.                   *)
(***************************************************************************)
EXTENDS BrokerDelivery, JobTable_proofs

-----------------------------------------------------------------------------
(* Slots.                                                                  *)

\* The states in which a slot has a delivery in its hands.
Working == SlotStates \ {"off", "idle", "dead"}

\* Those in which process() is running: it has a token.
Processing == {"work", "complete", "failRetry", "failFinal"}

SlotInv(st) ==
  /\ st \in Slot
  /\ st.held => st.msg \in Messages
  /\ st.pc \in Working => st.msg \in Messages
  /\ st.pc \notin Working => ~st.held
  /\ st.pc \in Processing => st.token # 0

\* The states that a step leaves a slot in.
LEMMA SlotMoves ==
  ASSUME NEW st, SlotInv(st)
  PROVE  /\ SlotInv(OffSlot)
         /\ SlotInv([OffSlot EXCEPT !.pc = "idle"])
         /\ SlotInv([OffSlot EXCEPT !.pc = "dead"])
         /\ \A m \in Messages :
              SlotInv([OffSlot EXCEPT !.pc = "got", !.msg = m, !.held = TRUE])
         /\ st.pc = "off" => SlotInv([st EXCEPT !.pc = "idle"])
         /\ SlotInv([st EXCEPT !.held = FALSE])
         /\ st.pc \in Working =>
              /\ \A pc \in Working :
                   pc \notin Processing \/ st.pc \in Processing
                     => SlotInv([st EXCEPT !.pc = pc])
              /\ \A d \in Nat :
                   SlotInv([st EXCEPT !.pc = "begin", !.did = d, !.try = 1])
              /\ SlotInv([st EXCEPT !.try = 2])
              /\ \A t \in Tokens \ {0} :
                   SlotInv([st EXCEPT !.pc = "work", !.token = t])
<1>1. OffSlot \in Slot
  BY WrittenValues DEF OffSlot, Slot, SlotStates
<1>2. /\ [OffSlot EXCEPT !.pc = "idle"] \in Slot
      /\ [OffSlot EXCEPT !.pc = "dead"] \in Slot
      /\ \A m \in Messages :
           [OffSlot EXCEPT !.pc = "got", !.msg = m, !.held = TRUE] \in Slot
  BY <1>1 DEF Slot, SlotStates
<1>3. /\ SlotInv(OffSlot)
      /\ SlotInv([OffSlot EXCEPT !.pc = "idle"])
      /\ SlotInv([OffSlot EXCEPT !.pc = "dead"])
  BY <1>1, <1>2 DEF SlotInv, OffSlot, Working, SlotStates, Processing
<1>4. ASSUME NEW m \in Messages
      PROVE  SlotInv([OffSlot EXCEPT !.pc = "got", !.msg = m, !.held = TRUE])
  BY <1>1, <1>2 DEF SlotInv, Slot, OffSlot, Working, SlotStates, Processing
<1>5. st.pc = "off" => SlotInv([st EXCEPT !.pc = "idle"])
  BY DEF SlotInv, Slot, Working, SlotStates, Processing
<1>6. SlotInv([st EXCEPT !.held = FALSE])
  BY DEF SlotInv, Slot, Working
<1>7. ASSUME st.pc \in Working
      PROVE  /\ \A pc \in Working :
                  pc \notin Processing \/ st.pc \in Processing
                    => SlotInv([st EXCEPT !.pc = pc])
             /\ \A d \in Nat :
                  SlotInv([st EXCEPT !.pc = "begin", !.did = d, !.try = 1])
             /\ SlotInv([st EXCEPT !.try = 2])
             /\ \A t \in Tokens \ {0} :
                  SlotInv([st EXCEPT !.pc = "work", !.token = t])
  <2>1. ASSUME NEW pc \in Working, pc \notin Processing \/ st.pc \in Processing
        PROVE  SlotInv([st EXCEPT !.pc = pc])
    BY <1>7, <2>1 DEF SlotInv, Slot, Working
  <2>2. Working \subseteq SlotStates /\ "begin" \in Working /\ "work" \in Working
         /\ "begin" \notin Processing
    BY DEF Working, SlotStates, Processing
  <2>3. ASSUME NEW d \in Nat
        PROVE  SlotInv([st EXCEPT !.pc = "begin", !.did = d, !.try = 1])
    <3>1. st \in Slot /\ 1 \in 0 .. 2
      BY DEF SlotInv
    <3>2. [st EXCEPT !.pc = "begin", !.did = d, !.try = 1] \in Slot
      BY <2>2, <3>1 DEF Slot
    <3> QED
      BY <1>7, <2>2, <3>1, <3>2 DEF SlotInv, Slot
  <2>4. SlotInv([st EXCEPT !.try = 2])
    BY <1>7 DEF SlotInv, Slot, Working
  <2>5. ASSUME NEW t \in Tokens \ {0}
        PROVE  SlotInv([st EXCEPT !.pc = "work", !.token = t])
    BY <1>7, <2>2 DEF SlotInv, Slot
  <2> QED
    BY <2>1, <2>3, <2>4, <2>5
<1> QED
  BY <1>3, <1>4, <1>5, <1>6, <1>7

\* A request is well formed when its sender is.
GoodRequest(r) == r \in Request /\ (r.op # "begin" => r.token # 0)

\* What a slot sends is a request.
LEMMA RequestType ==
  ASSUME NEW s \in Instances, NEW st, SlotInv(st),
         st.pc \in {"begin", "complete", "failRetry", "failFinal"}
  PROVE  GoodRequest(RequestOf(s, st))
<1>1. st.msg \in Messages
  BY DEF SlotInv, Working, SlotStates
<1>2. st.msg.job \in Jobs /\ st.msg.gen \in Nat
  BY <1>1, MaxAttemptsAssumption, BrokerAssumption DEF Messages, MaxGeneration
<1> QED
  BY <1>2 DEF RequestOf, GoodRequest, Request, RpcKinds, SlotInv, Slot, Processing

-----------------------------------------------------------------------------
(* The type invariant, in parts that actions change separately.            *)

JobsInv == /\ jobs \in [Jobs -> Row]
           /\ \A j \in Jobs : RowInv(jobs[j], reconciles, 1)

OutboxInv == /\ outbox \subseteq Messages
             /\ publishing \in Messages \cup {NoMessage}

QueuesInv == ready \in [Messages -> Nat] /\ retry \in [Messages -> Nat]

SlotsInv == /\ slot \in [Instances -> Slot]
            /\ \A s \in Instances : SlotInv(slot[s])

AdmissionInv == willing \subseteq Instances /\ avail \in [Instances -> AvailPhases]

RpcInv == \A r \in rpc : GoodRequest(r)

BoundsInv == /\ faults \in 0 .. MaxFaults
             /\ losses \in 0 .. MaxBrokerLosses
             /\ reconciles \in 0 .. MaxReconciles
             /\ storage \in {"intact", "lost", "reconciled"}

TypeInv == /\ JobsInv /\ OutboxInv /\ QueuesInv /\ SlotsInv
           /\ AdmissionInv /\ RpcInv /\ BoundsInv

\* The parts that only move with their own variables.
LEMMA StillParts ==
  /\ JobsInv /\ UNCHANGED <<jobs, reconciles>> => JobsInv'
  /\ OutboxInv /\ UNCHANGED <<outbox, publishing>> => OutboxInv'
  /\ QueuesInv /\ UNCHANGED <<ready, retry>> => QueuesInv'
  /\ SlotsInv /\ UNCHANGED slot => SlotsInv'
  /\ AdmissionInv /\ UNCHANGED <<willing, avail>> => AdmissionInv'
  /\ RpcInv /\ UNCHANGED rpc => RpcInv'
  /\ BoundsInv /\ UNCHANGED <<faults, losses, reconciles, storage>> => BoundsInv'
BY DEF JobsInv, OutboxInv, QueuesInv, SlotsInv, AdmissionInv, RpcInv, BoundsInv

\* One fault more keeps within the bound.
LEMMA FaultBound ==
  BoundsInv /\ Fault /\ UNCHANGED boundVars => BoundsInv'
BY BrokerAssumption DEF BoundsInv, Fault, boundVars

\* One row changes.
LEMMA RowUpdate ==
  ASSUME JobsInv, NEW j \in Jobs, NEW row, RowInv(row, reconciles, 1),
         jobs' = [jobs EXCEPT ![j] = row], UNCHANGED reconciles
  PROVE  JobsInv'
BY DEF JobsInv, RowInv

\* One slot changes.
LEMMA SlotUpdate ==
  ASSUME SlotsInv, NEW s \in Instances, NEW st, SlotInv(st),
         slot' = [slot EXCEPT ![s] = st]
  PROVE  SlotsInv'
BY DEF SlotsInv, SlotInv

\* A working slot goes on to another working state.
LEMMA GotoType ==
  ASSUME SlotsInv, NEW s \in Instances, NEW pc \in Working \ Processing,
         slot[s].pc \in Working, Goto(s, pc)
  PROVE  SlotsInv'
<1>1. SlotInv([slot[s] EXCEPT !.pc = pc])
  BY SlotMoves DEF SlotsInv
<1>2. slot' = [slot EXCEPT ![s] = [slot[s] EXCEPT !.pc = pc]]
  BY DEF Goto, SlotsInv
<1> QED
  BY <1>1, <1>2, SlotUpdate

Calls == {"begin", "complete", "failRetry", "failFinal"}

\* The states that the loop passes through while it has a delivery.
LEMMA WorkingStates ==
  /\ Calls \subseteq Working
  /\ {"got", "begin", "work", "busy", "ack", "close"} \subseteq Working
  /\ {"busy", "ack", "close"} \subseteq Working \ Processing
BY DEF Calls, Working, SlotStates, Processing

\* What a waiting caller shows of itself.
LEMMA WaitingCaller ==
  ASSUME NEW r \in Request, Waiting(r)
  PROVE  /\ slot[r.slot].pc = r.op
         /\ slot[r.slot].msg.job = r.job /\ slot[r.slot].msg.gen = r.gen
BY DEF Waiting, RequestOf

\* A reply that keeps its caller working.
LEMMA ReplyType ==
  ASSUME SlotsInv, NEW r \in Request, r.op \in Calls, NEW pc \in Working \ Processing,
         Reply(r, pc)
  PROVE  SlotsInv'
<1>1. r.slot \in Instances
  BY DEF Request
<1>2. CASE Waiting(r)
  <2>1. slot[r.slot].pc \in Working
    BY <1>2, WaitingCaller, WorkingStates
  <2> QED
    BY <1>1, <1>2, <2>1, GotoType DEF Reply
<1>3. CASE ~Waiting(r)
  BY <1>3, StillParts DEF Reply
<1> QED
  BY <1>2, <1>3

\* A slot sends a request.
LEMMA SendType ==
  ASSUME SlotsInv, RpcInv, NEW s \in Instances, NEW st, SlotInv(st),
         st.pc \in Calls, Send(s, st)
  PROVE  SlotsInv' /\ RpcInv'
<1>1. SlotsInv'
  BY SlotUpdate DEF Send
<1>2. GoodRequest(RequestOf(s, st))
  BY RequestType DEF Calls
<1> QED
  BY <1>1, <1>2 DEF Send, RpcInv

\* A job that can be given a new generation has room for it.
LEMMA NextGeneration ==
  ASSUME BoundsInv, NEW j \in Jobs, NEW row, RowInv(row, reconciles, 1)
  PROVE  /\ Uploading(row) => Message(j, row.dispatch + 1) \in Messages
         /\ row.status = "running" /\ row.attempts < MaxAttempts
              => Message(j, row.dispatch + 1) \in Messages
         /\ Pending(row) /\ reconciles < MaxReconciles
              => Message(j, row.dispatch + 1) \in Messages
         /\ Pending(row) => Message(j, row.dispatch) \in Messages
<1>1. row \in Row /\ RowShape(row, reconciles, 1)
  BY DEF RowInv
<1>2. /\ MaxAttempts \in Nat /\ 0 < MaxAttempts
      /\ row.attempts \in Nat /\ row.attempts <= MaxAttempts
      /\ MaxReconciles \in Nat /\ reconciles \in Nat
      /\ reconciles <= MaxReconciles
  BY <1>1, MaxAttemptsAssumption, BrokerAssumption DEF BoundsInv, Row, Tokens
<1>3. \A g \in Nat : 1 <= g /\ g <= MaxAttempts + MaxReconciles
                      => Message(j, g) \in Messages
  BY <1>2 DEF Message, Messages, MaxGeneration
<1>4. Uploading(row) => Message(j, row.dispatch + 1) \in Messages
  BY <1>1, <1>2, <1>3 DEF RowShape
<1>5. row.status = "running" =>
        /\ row.dispatch \in Nat /\ 1 <= row.dispatch
        /\ row.dispatch <= row.attempts + reconciles
  BY <1>1, <1>2 DEF RowShape
<1>6. row.status = "queued" =>
        /\ row.dispatch \in Nat /\ 1 <= row.dispatch
        /\ row.dispatch <= row.attempts + 1 + reconciles
        /\ row.attempts < MaxAttempts
  BY <1>1, <1>2 DEF RowShape
<1>7. row.status = "running" /\ row.attempts < MaxAttempts
        => Message(j, row.dispatch + 1) \in Messages
  BY <1>2, <1>3, <1>5
<1>8. Pending(row) /\ reconciles < MaxReconciles
        => Message(j, row.dispatch + 1) \in Messages
  BY <1>2, <1>3, <1>5, <1>6 DEF Pending
<1>9. Pending(row) => Message(j, row.dispatch) \in Messages
  BY <1>2, <1>3, <1>5, <1>6 DEF Pending
<1> QED
  BY <1>4, <1>7, <1>8, <1>9

-----------------------------------------------------------------------------
(* Every step keeps the type invariant.                                    *)

\* The public API and cleanup.
LEMMA ClientTypes ==
  ASSUME TypeInv, ClientStep
  PROVE  TypeInv'
<1>. USE DEF TypeInv
<1>0. reconciles \in Nat /\ \A j \in Jobs : RowInv(jobs[j], reconciles, 1)
  BY BrokerAssumption DEF BoundsInv, JobsInv
<1>1. ASSUME NEW j \in Jobs, CreateJob(j)
      PROVE  TypeInv'
  BY <1>0, <1>1, FixedRows, RowUpdate, StillParts DEF CreateJob, brokerVars, boundVars
<1>2. ASSUME NEW j \in Jobs, MarkDownloading(j)
      PROVE  TypeInv'
  <2>1. RowInv(MarkDownloadingSet(jobs[j]), reconciles, 1)
    BY <1>0, <1>2, ClientRows DEF MarkDownloading, Uploading
  <2> QED
    BY <1>2, <2>1, RowUpdate, StillParts DEF MarkDownloading, brokerVars, boundVars
<1>3. ASSUME NEW j \in Jobs, MarkQueued(j)
      PROVE  TypeInv'
  <2>1. Uploading(jobs[j])
    BY <1>3 DEF MarkQueued, Uploading
  <2>2. RowInv(DispatchSet(MarkQueuedSet(jobs[j])), reconciles, 1)
    BY <1>0, <2>1, ClientRows
  <2>3. JobsInv'
    BY <1>3, <2>2, RowUpdate DEF MarkQueued, boundVars
  <2>4. Message(j, jobs[j].dispatch + 1) \in Messages
    BY <1>0, <2>1, NextGeneration
  <2>5. OutboxInv'
    BY <1>3, <2>4 DEF MarkQueued, OutboxInv
  <2> QED
    BY <1>3, <2>3, <2>5, StillParts DEF MarkQueued, brokerVars, boundVars
<1>4. ASSUME NEW j \in Jobs, FailUpload(j)
      PROVE  TypeInv'
  <2>1. FailSet(jobs[j], FALSE) = EndFailedSet(jobs[j])
    BY DEF FailSet, EndFailedSet
  <2>2. RowInv(EndFailedSet(jobs[j]), reconciles, 1)
    BY <1>0, ClientRows
  <2> QED
    BY <1>4, <2>1, <2>2, RowUpdate, StillParts DEF FailUpload, brokerVars, boundVars
<1>5. ASSUME NEW j \in Jobs, CancelJob(j)
      PROVE  TypeInv'
  <2>1. RowInv(EndFailedSet(jobs[j]), reconciles, 1)
    BY <1>0, ClientRows
  <2> QED
    BY <1>5, <2>1, RowUpdate, StillParts DEF CancelJob, brokerVars, boundVars
<1>6. ASSUME NEW j \in Jobs, AcknowledgeJob(j)
      PROVE  TypeInv'
  <2>1. RowInv(AckSet(jobs[j]), reconciles, 1)
    BY <1>0, <1>6, ClientRows DEF AcknowledgeJob, AckWhere
  <2> QED
    BY <1>6, <2>1, RowUpdate, StillParts DEF AcknowledgeJob, brokerVars, boundVars
<1>7. ASSUME NEW reaped \in SUBSET Jobs, NEW gone \in SUBSET Jobs,
             CleanupExpiredJobs(reaped, gone)
      PROVE  TypeInv'
  <2>1. \A j \in Jobs : /\ RowInv(DeletedRow, reconciles, 1)
                        /\ RowInv(EndFailedSet(jobs[j]), reconciles, 1)
    BY <1>0, FixedRows, ClientRows
  <2>2. JobsInv'
    BY <1>0, <1>7, <2>1 DEF CleanupExpiredJobs, JobsInv, RowInv, boundVars
  <2>3. OutboxInv'
    BY <1>7 DEF CleanupExpiredJobs, OutboxInv
  <2> QED
    BY <1>7, <2>2, <2>3, StillParts DEF CleanupExpiredJobs, brokerVars, boundVars
<1> QED
  BY <1>1, <1>2, <1>3, <1>4, <1>5, <1>6, <1>7 DEF ClientStep

\* A queue gains or loses a copy.
LEMMA QueueTypes ==
  ASSUME QueuesInv, NEW m \in Messages
  PROVE  /\ Added(ready, m) \in [Messages -> Nat]
         /\ Added(retry, m) \in [Messages -> Nat]
         /\ ready[m] > 0 => Removed(ready, m) \in [Messages -> Nat]
         /\ retry[m] > 0 => Removed(retry, m) \in [Messages -> Nat]
BY DEF QueuesInv, Added, Removed

\* A returned delivery leaves the queue in its type.
LEMMA ReturnTypes ==
  ASSUME QueuesInv, SlotsInv, NEW s \in Instances, ReturnDelivery(s),
         UNCHANGED retry
  PROVE  QueuesInv'
<1>1. slot[s].held => slot[s].msg \in Messages
  BY DEF SlotsInv, SlotInv
<1> QED
  BY <1>1, QueueTypes DEF ReturnDelivery, QueuesInv

\* The publisher and the broker.
LEMMA BrokerTypes ==
  ASSUME TypeInv, BrokerStep
  PROVE  TypeInv'
<1>. USE DEF TypeInv
<1>1. ASSUME NEW m \in Messages, PublishSend(m)
      PROVE  TypeInv'
  <2>1. QueuesInv' /\ OutboxInv'
    BY <1>1, QueueTypes DEF PublishSend, QueuesInv, OutboxInv
  <2> QED
    BY <1>1, <2>1, StillParts DEF PublishSend, boundVars
<1>2. ASSUME NEW m \in Messages, RetryExpires(m)
      PROVE  TypeInv'
  <2>1. QueuesInv'
    BY <1>2, QueueTypes DEF RetryExpires, QueuesInv
  <2> QED
    BY <1>2, <2>1, StillParts DEF RetryExpires, boundVars
<1>3. ASSUME NEW m \in Messages, NEW s \in Instances, Deliver(s, m)
      PROVE  TypeInv'
  <2>1. QueuesInv'
    BY <1>3, QueueTypes DEF Deliver, QueuesInv
  <2>2. SlotInv([OffSlot EXCEPT !.pc = "got", !.msg = m, !.held = TRUE])
    BY SlotMoves DEF SlotsInv
  <2>3. SlotsInv'
    BY <1>3, <2>2, SlotUpdate DEF Deliver
  <2> QED
    BY <1>3, <2>1, <2>3, StillParts DEF Deliver, boundVars
<1>4. CASE PublishCommit
  <2>1. OutboxInv'
    BY <1>4 DEF PublishCommit, OutboxInv
  <2> QED
    BY <1>4, <2>1, StillParts DEF PublishCommit, brokerVars, boundVars
<1>5. CASE PublishAbort
  <2>1. OutboxInv'
    BY <1>5 DEF PublishAbort, OutboxInv
  <2> QED
    BY <1>5, <2>1, StillParts, FaultBound DEF PublishAbort, brokerVars, boundVars
<1>6. CASE LoseBrokerStorage
  <2>1. QueuesInv'
    BY <1>6 DEF LoseBrokerStorage, QueuesInv
  <2>2. \A s \in Instances :
          SlotInv(OffSlot) /\ SlotInv([slot[s] EXCEPT !.held = FALSE])
    BY SlotMoves DEF SlotsInv
  <2>3. SlotsInv'
    BY <1>6, <2>2 DEF LoseBrokerStorage, SlotsInv, SlotInv
  <2>4. BoundsInv'
    BY <1>6, BrokerAssumption DEF LoseBrokerStorage, BoundsInv
  <2> QED
    BY <1>6, <2>1, <2>3, <2>4, StillParts DEF LoseBrokerStorage
<1>7. ASSUME NEW s \in Instances, LoseConnection(s)
      PROVE  TypeInv'
  <2>1. QueuesInv'
    BY <1>7, ReturnTypes DEF LoseConnection
  <2>2. SlotInv(OffSlot) /\ SlotInv([slot[s] EXCEPT !.held = FALSE])
    BY SlotMoves DEF SlotsInv
  <2>3. SlotInv(IF slot[s].pc \in {"idle", "got"} THEN OffSlot
                ELSE [slot[s] EXCEPT !.held = FALSE])
    BY <2>2
  <2>4. SlotsInv'
    BY <1>7, <2>3, SlotUpdate DEF LoseConnection
  <2> QED
    BY <1>7, <2>1, <2>4, StillParts, FaultBound DEF LoseConnection, boundVars
<1> QED
  BY <1>1, <1>2, <1>3, <1>4, <1>5, <1>6, <1>7 DEF BrokerStep

\* The reporter and the consumer loop.
LEMMA SlotTypes ==
  ASSUME TypeInv, NEW s \in Instances, SlotStep(s)
  PROVE  TypeInv'
<1>. USE DEF TypeInv
<1>0. SlotInv(slot[s]) /\ slot \in [Instances -> Slot]
  BY DEF SlotsInv
<1>1. CASE ReportAvailability(s)
  <2>1. AdmissionInv'
    BY <1>1 DEF ReportAvailability, AdmissionInv, AvailPhases
  <2> QED
    BY <1>1, <2>1, StillParts DEF ReportAvailability, brokerVars, boundVars
<1>2. CASE RegisterConsumer(s)
  <2>1. AdmissionInv'
    BY <1>2 DEF RegisterConsumer, AdmissionInv, AvailPhases
  <2> QED
    BY <1>2, <2>1, StillParts DEF RegisterConsumer, brokerVars, boundVars
<1>3. CASE BecomeUnwilling(s)
  <2>1. AdmissionInv'
    BY <1>3 DEF BecomeUnwilling, AdmissionInv
  <2> QED
    BY <1>3, <2>1, StillParts, FaultBound DEF BecomeUnwilling, brokerVars, boundVars
<1>4. CASE Withdraw(s)
  <2>1. AdmissionInv'
    BY <1>4 DEF Withdraw, AdmissionInv, AvailPhases
  <2> QED
    BY <1>4, <2>1, StillParts, FaultBound DEF Withdraw, brokerVars, boundVars
<1>5. CASE AvailabilityExpires(s)
  <2>1. AdmissionInv'
    BY <1>5 DEF AvailabilityExpires, AdmissionInv, AvailPhases
  <2>2. BoundsInv'
    BY <1>5, FaultBound, StillParts DEF AvailabilityExpires, boundVars
  <2> QED
    BY <1>5, <2>1, <2>2, StillParts DEF AvailabilityExpires, brokerVars, boundVars
<1>6. CASE Subscribe(s)
  <2>1. SlotInv([slot[s] EXCEPT !.pc = "idle"])
    BY <1>0, <1>6, SlotMoves DEF Subscribe
  <2>2. slot' = [slot EXCEPT ![s] = [slot[s] EXCEPT !.pc = "idle"]]
    BY <1>0, <1>6 DEF Subscribe
  <2>3. SlotsInv'
    BY <2>1, <2>2, SlotUpdate
  <2> QED
    BY <1>6, <2>3, StillParts DEF Subscribe, brokerVars, boundVars
<1>7. CASE CloseConsumer(s)
  <2>1. SlotsInv'
    BY <1>0, <1>7, SlotMoves, SlotUpdate DEF CloseConsumer
  <2>2. QueuesInv'
    BY <1>7, ReturnTypes DEF CloseConsumer
  <2> QED
    BY <1>7, <2>1, <2>2, StillParts DEF CloseConsumer, boundVars
<1>8. CASE BeginAttempt(s)
  <2>1. PICK d \in UnusedDeliveryIds :
          Send(s, [slot[s] EXCEPT !.pc = "begin", !.did = d, !.try = 1])
    BY <1>8 DEF BeginAttempt
  <2>2. d \in Nat
    BY BrokerAssumption DEF UnusedDeliveryIds
  <2>3. SlotInv([slot[s] EXCEPT !.pc = "begin", !.did = d, !.try = 1])
    BY <1>0, <1>8, <2>2, SlotMoves, WorkingStates DEF BeginAttempt
  <2>4. [slot[s] EXCEPT !.pc = "begin", !.did = d, !.try = 1].pc \in Calls
    BY <1>0 DEF Slot, Calls
  <2>5. SlotsInv' /\ RpcInv'
    BY <2>1, <2>3, <2>4, SendType
  <2> QED
    BY <1>8, <2>5, StillParts DEF BeginAttempt, brokerVars, boundVars
<1>9. CASE RpcTimeout(s)
  <2>0. slot[s].pc \in Working
    BY <1>9, WorkingStates DEF RpcTimeout, Calls
  <2>1. CASE slot[s].pc = "begin" /\ slot[s].try = 1
    <3>1. SlotInv([slot[s] EXCEPT !.try = 2])
      BY <1>0, <2>0, SlotMoves
    <3>2. [slot[s] EXCEPT !.try = 2].pc \in Calls
      BY <1>0, <2>1 DEF Slot, Calls
    <3>3. SlotsInv' /\ RpcInv'
      BY <1>9, <2>1, <3>1, <3>2, SendType DEF RpcTimeout, RpcError
    <3> QED
      BY <1>9, <3>3, StillParts, FaultBound DEF RpcTimeout, brokerVars, boundVars
  <2>2. CASE ~(slot[s].pc = "begin" /\ slot[s].try = 1)
    <3>1. SlotsInv'
      BY <1>9, <2>0, <2>2, GotoType, WorkingStates DEF RpcTimeout, RpcError
    <3> QED
      BY <1>9, <2>2, <3>1, StillParts, FaultBound
         DEF RpcTimeout, RpcError, brokerVars, boundVars
  <2> QED
    BY <2>1, <2>2
<1>10. ASSUME NEW op \in {"complete", "failRetry", "failFinal"}, Finish(s, op)
       PROVE  TypeInv'
  <2>1. SlotInv([slot[s] EXCEPT !.pc = op])
    BY <1>0, <1>10, SlotMoves, WorkingStates DEF Finish, Calls, Processing
  <2>2. [slot[s] EXCEPT !.pc = op].pc \in Calls
    BY <1>0 DEF Slot, Calls
  <2>3. SlotsInv' /\ RpcInv'
    BY <1>10, <2>1, <2>2, SendType DEF Finish
  <2> QED
    BY <1>10, <2>3, StillParts DEF Finish, brokerVars, boundVars
<1>11. CASE StopWork(s)
  <2>1. SlotsInv'
    BY <1>11, GotoType, WorkingStates DEF StopWork
  <2>2. BoundsInv'
    BY <1>11, FaultBound, StillParts DEF StopWork, boundVars
  <2> QED
    BY <1>11, <2>1, <2>2, StillParts DEF StopWork, brokerVars, boundVars
<1>12. CASE Heartbeat(s)
  <2> DEFINE j == slot[s].msg.job
  <2>1. j \in Jobs
    BY <1>0, <1>12, WorkingStates DEF Heartbeat, SlotInv, Messages
  <2>2. RowInv(jobs[j], reconciles, 1) /\ reconciles \in Nat
    BY <2>1, BrokerAssumption DEF JobsInv, BoundsInv
  <2>3. RowInv([jobs[j] EXCEPT !.lease = "live"], reconciles, 1)
    BY <1>12, <2>2, ClientRows DEF Heartbeat, HeartbeatWhere
  <2>4. jobs' = [jobs EXCEPT ![j] = [jobs[j] EXCEPT !.lease = "live"]]
    BY <1>12, <2>1 DEF Heartbeat, JobsInv
  <2>5. UNCHANGED reconciles
    BY <1>12 DEF Heartbeat, boundVars
  <2>. HIDE DEF j
  <2>6. JobsInv'
    BY <2>1, <2>3, <2>4, <2>5, RowUpdate
  <2> QED
    BY <1>12, <2>6, StillParts DEF Heartbeat, brokerVars, boundVars
<1>13. CASE AckDelivery(s)
  <2>1. SlotsInv'
    BY <1>0, <1>13, SlotMoves, SlotUpdate DEF AckDelivery
  <2> QED
    BY <1>13, <2>1, StillParts DEF AckDelivery, brokerVars, boundVars
<1>14. CASE Crash(s)
  <2>1. SlotsInv'
    BY <1>0, <1>14, SlotMoves, SlotUpdate DEF Crash
  <2>2. QueuesInv'
    BY <1>14, ReturnTypes DEF Crash
  <2>3. AdmissionInv'
    BY <1>14 DEF Crash, AdmissionInv
  <2> QED
    BY <1>14, <2>1, <2>2, <2>3, StillParts, FaultBound DEF Crash, boundVars
<1>15. CASE PublishRetry(s)
  <2>1. slot[s].msg \in Messages
    BY <1>0, <1>15, WorkingStates DEF PublishRetry, SlotInv
  <2>2. QueuesInv'
    BY <1>15, <2>1, QueueTypes DEF PublishRetry, QueuesInv
  <2>3. SlotsInv'
    BY <1>15, GotoType, WorkingStates DEF PublishRetry
  <2> QED
    BY <1>15, <2>2, <2>3, StillParts DEF PublishRetry, boundVars
<1>16. ASSUME NEW taken \in BOOLEAN, PublishRetryFails(s, taken)
       PROVE  TypeInv'
  <2>1. slot[s].msg \in Messages
    BY <1>0, <1>16, WorkingStates DEF PublishRetryFails, SlotInv
  <2>2. QueuesInv'
    BY <1>16, <2>1, QueueTypes DEF PublishRetryFails, QueuesInv
  <2>3. SlotsInv'
    BY <1>16, GotoType, WorkingStates DEF PublishRetryFails
  <2> QED
    BY <1>16, <2>2, <2>3, StillParts, FaultBound DEF PublishRetryFails, boundVars
<1> QED
  BY <1>1, <1>2, <1>3, <1>4, <1>5, <1>6, <1>7, <1>8, <1>9, <1>10, <1>11, <1>12,
     <1>13, <1>14, <1>15, <1>16 DEF SlotStep

\* The decision to start an attempt.
LEMMA StartTypes ==
  ASSUME TypeInv, NEW r \in Request, CanStart(r)
  PROVE  /\ RowInv(StartSet(jobs[r.job], r.slot, r.did), reconciles, 1)
         /\ jobs[r.job].attempts + 1 \in Tokens \ {0}
<1>1. /\ r.job \in Jobs /\ r.slot \in Instances /\ r.did \in Nat
      /\ RowInv(jobs[r.job], reconciles, 1) /\ reconciles \in Nat
      /\ jobs[r.job] \in Row
  BY BrokerAssumption DEF TypeInv, JobsInv, BoundsInv, Request
<1>2. jobs[r.job].attempts < MaxAttempts /\ Pending(jobs[r.job])
  BY <1>1, MaxAttemptsAssumption
     DEF CanStart, Startable, Obsolete, Exhausted, Row, Tokens
<1>3. jobs[r.job].attempts + 1 \in Tokens \ {0}
  BY <1>1, <1>2, WrittenValues DEF Row
<1> QED
  BY <1>1, <1>2, <1>3, AttemptRows

\* The reply that lets a slot begin to work.
LEMMA StartedType ==
  ASSUME SlotsInv, NEW r \in Request, r.op = "begin", NEW t \in Tokens \ {0},
         ReplyStarted(r, t)
  PROVE  SlotsInv'
<1>1. CASE Waiting(r)
  <2>1. r.slot \in Instances /\ slot[r.slot].pc \in Working
    BY <1>1, WaitingCaller, WorkingStates DEF Request
  <2>2. SlotInv([slot[r.slot] EXCEPT !.pc = "work", !.token = t])
    BY <2>1, SlotMoves DEF SlotsInv
  <2>3. slot' = [slot EXCEPT ![r.slot] =
                   [slot[r.slot] EXCEPT !.pc = "work", !.token = t]]
    BY <1>1, <2>1 DEF ReplyStarted, SlotsInv
  <2> QED
    BY <2>1, <2>2, <2>3, SlotUpdate
<1>2. CASE ~Waiting(r)
  BY <1>2, StillParts DEF ReplyStarted
<1> QED
  BY <1>1, <1>2

\* The coordinator's handlers.
LEMMA HandlerTypes ==
  ASSUME TypeInv, NEW r \in rpc, Handle(r)
  PROVE  TypeInv'
<1>. USE DEF TypeInv
<1>0. /\ r \in Request /\ r.job \in Jobs /\ r.slot \in Instances /\ r.did \in Nat
      /\ RowInv(jobs[r.job], reconciles, 1) /\ reconciles \in Nat
      /\ r.op # "begin" => r.token # 0
  BY BrokerAssumption DEF RpcInv, GoodRequest, Request, JobsInv, BoundsInv
<1>. {"ack", "busy", "close"} \subseteq Working \ Processing /\ "begin" \in Calls
  BY WorkingStates DEF Calls
<1>1. CASE BeginDiscards(r)
  <2>1. SlotsInv' /\ RpcInv'
    BY <1>0, <1>1, ReplyType DEF BeginDiscards, Run, RpcInv
  <2> QED
    BY <1>1, <2>1, StillParts DEF BeginDiscards, brokerVars, boundVars
<1>2. CASE BeginExhausts(r)
  <2>1. SlotsInv' /\ RpcInv'
    BY <1>0, <1>2, ReplyType DEF BeginExhausts, Run, RpcInv
  <2>2. JobsInv'
    BY <1>0, <1>2, ClientRows, RowUpdate DEF BeginExhausts, boundVars
  <2> QED
    BY <1>2, <2>1, <2>2, StillParts DEF BeginExhausts, brokerVars, boundVars
<1>3. CASE BeginBusy(r)
  <2>1. SlotsInv' /\ RpcInv'
    BY <1>0, <1>3, ReplyType DEF BeginBusy, Run, RpcInv
  <2> QED
    BY <1>3, <2>1, StillParts DEF BeginBusy, brokerVars, boundVars
<1>4. CASE BeginReplays(r)
  <2>1. jobs[r.job].lease_owner \in Tokens \ {0}
    BY <1>0, <1>4 DEF BeginReplays, Replayed, Live, RowInv, RowShape, Row
  <2>2. SlotsInv' /\ RpcInv'
    BY <1>0, <1>4, <2>1, StartedType DEF BeginReplays, Run, RpcInv
  <2> QED
    BY <1>4, <2>2, StillParts DEF BeginReplays, brokerVars, boundVars
<1>5. CASE BeginStarts(r)
  <2>1. /\ RowInv(StartSet(jobs[r.job], r.slot, r.did), reconciles, 1)
        /\ jobs[r.job].attempts + 1 \in Tokens \ {0}
    BY <1>0, <1>5, StartTypes DEF BeginStarts
  <2>2. SlotsInv' /\ RpcInv'
    BY <1>0, <1>5, <2>1, StartedType DEF BeginStarts, Run, RpcInv
  <2>3. JobsInv'
    BY <1>0, <1>5, <2>1, RowUpdate DEF BeginStarts, boundVars
  <2> QED
    BY <1>5, <2>2, <2>3, StillParts DEF BeginStarts, brokerVars, boundVars
<1>6. CASE BeginFindsNoInput(r)
  <2>1. /\ RowInv(StartSet(jobs[r.job], r.slot, r.did), reconciles, 1)
        /\ jobs[r.job].attempts + 1 \in Tokens \ {0}
    BY <1>0, <1>6, StartTypes DEF BeginFindsNoInput
  <2>2. [r EXCEPT !.op = "missing", !.token = jobs[r.job].attempts + 1] \in Request
    BY <1>0, <2>1 DEF Request, RpcKinds
  <2>2a. GoodRequest([r EXCEPT !.op = "missing", !.token = jobs[r.job].attempts + 1])
    BY <1>0, <2>1, <2>2 DEF GoodRequest, Request
  <2>3. RpcInv'
    BY <1>6, <2>2a DEF BeginFindsNoInput, NoInputFor, RpcInv
  <2>4. JobsInv'
    BY <1>0, <1>6, <2>1, RowUpdate
       DEF BeginFindsNoInput, NoInputFor, boundVars
  <2> QED
    BY <1>6, <2>3, <2>4, StillParts, FaultBound
       DEF BeginFindsNoInput, NoInputFor, brokerVars, boundVars
<1>6a. CASE ReplayFindsNoInput(r)
  <2>1. jobs[r.job].lease_owner \in Tokens \ {0}
    BY <1>0, <1>6a DEF ReplayFindsNoInput, Replayed, Live, RowInv, RowShape, Row
  <2>2. GoodRequest([r EXCEPT !.op = "missing", !.token = jobs[r.job].lease_owner])
    BY <1>0, <2>1 DEF GoodRequest, Request, RpcKinds
  <2>3. RpcInv'
    BY <1>6a, <2>2 DEF ReplayFindsNoInput, NoInputFor, RpcInv
  <2> QED
    BY <1>6a, <2>3, StillParts, FaultBound
       DEF ReplayFindsNoInput, NoInputFor, brokerVars, boundVars
<1>7. CASE FailMissingInput(r)
  <2>1. RowInv(FailSet(jobs[r.job], FALSE), reconciles, 1)
    BY <1>0, AttemptRows
  <2>2. JobsInv'
    BY <1>0, <1>7, <2>1, RowUpdate, StillParts DEF FailMissingInput, boundVars
  <2> DEFINE call == [r EXCEPT !.op = "begin", !.token = 0]
             again == [slot[r.slot] EXCEPT !.try = 2]
  <2>3. call \in Request /\ call.op = "begin" /\ call.slot = r.slot
    BY <1>0, WrittenValues DEF Request, RpcKinds
  <2>4. Waiting(call) => slot[r.slot].pc = "begin"
    BY <2>3, WaitingCaller
  <2>5. SlotInv(slot[r.slot]) /\ slot[r.slot] \in Slot
    BY <1>0 DEF SlotsInv
  <2>6. Waiting(call) => SlotInv(again) /\ again.pc = "begin"
    BY <2>4, <2>5, SlotMoves, WorkingStates DEF Slot
  <2>7. Waiting(call) => GoodRequest(RequestOf(r.slot, again))
    BY <1>0, <2>6, RequestType
  <2>. HIDE DEF call, again
  <2>8. CASE Waiting(call) /\ r.try = 1
    <3>1. /\ slot' = [slot EXCEPT ![r.slot] = again]
          /\ rpc' = (rpc \ {r}) \cup {RequestOf(r.slot, again)}
      BY <1>7, <2>8 DEF FailMissingInput, call, again
    <3>2. SlotsInv'
      BY <1>0, <2>6, <2>8, <3>1, SlotUpdate
    <3> QED
      BY <1>7, <2>2, <2>7, <2>8, <3>1, <3>2, StillParts
         DEF FailMissingInput, RpcInv, brokerVars, boundVars
  <2>9. CASE Waiting(call) /\ r.try # 1
    <3>1. Goto(r.slot, "close") /\ rpc' = rpc \ {r}
      BY <1>7, <2>9 DEF FailMissingInput, call
    <3>2. SlotsInv'
      BY <1>0, <2>4, <2>9, <3>1, GotoType, WorkingStates
    <3> QED
      BY <1>7, <2>2, <3>1, <3>2, StillParts
         DEF FailMissingInput, RpcInv, brokerVars, boundVars
  <2>10. CASE ~Waiting(call)
    <3>1. UNCHANGED slot /\ rpc' = rpc \ {r}
      BY <1>7, <2>10 DEF FailMissingInput, call
    <3> QED
      BY <1>7, <2>2, <3>1, StillParts
         DEF FailMissingInput, RpcInv, brokerVars, boundVars
  <2> QED
    BY <2>8, <2>9, <2>10
<1>8. CASE Complete(r)
  <2>1. RowInv(CompleteSet(jobs[r.job]), reconciles, 1)
    BY <1>0, AttemptRows
  <2>2. JobsInv'
    BY <1>0, <1>8, <2>1, RowUpdate, StillParts DEF Complete, boundVars
  <2>3. r.op \in Calls
    BY <1>8 DEF Complete, Run, Calls
  <2>4. SlotsInv' /\ RpcInv'
    BY <1>0, <1>8, <2>3, ReplyType DEF Complete, RpcInv
  <2> QED
    BY <1>8, <2>2, <2>4, StillParts DEF Complete, brokerVars, boundVars
<1>9. CASE Fail(r)
  <2>1. r.op \in Calls
    BY <1>9 DEF Fail, Calls
  <2>2. SlotsInv' /\ RpcInv'
    BY <1>0, <1>9, <2>1, ReplyType DEF Fail, RpcInv
  <2>3. UNCHANGED <<publishing, reconciles>>
    BY <1>9 DEF Fail, boundVars
  <2>4. ASSUME NEW retryable \in BOOLEAN, NEW seen \in BOOLEAN,
               FailWhere(jobs[r.job], r.token, seen),
               FailAccepted(r, retryable)
        PROVE  JobsInv' /\ OutboxInv'
    <3> DEFINE row == FailSet(jobs[r.job], retryable)
    <3>1. CASE row.status = "queued"
      <4>1. retryable /\ jobs[r.job].attempts < MaxAttempts
        BY <1>0, <3>1 DEF FailSet, RowInv, Row
      <4>2. row.dispatch = jobs[r.job].dispatch
        BY <1>0 DEF FailSet, RowInv, Row
      <4>3. jobs[r.job].status = "running"
        BY <1>0, <1>9, <2>4 DEF Fail, FailWhere
      <4>4. row = FailSet(jobs[r.job], TRUE)
        BY <4>1
      <4>5. RowInv(DispatchSet(row), reconciles, 1)
        BY <1>0, <3>1, <4>3, <4>4, AttemptRows
      <4>6. Message(r.job, row.dispatch + 1) \in Messages
        BY <1>0, <4>1, <4>2, <4>3, NextGeneration
      <4>7. /\ jobs' = [jobs EXCEPT ![r.job] = DispatchSet(row)]
            /\ outbox' = outbox \cup {Message(r.job, row.dispatch + 1)}
        BY <2>4, <3>1 DEF FailAccepted
      <4>. HIDE DEF row
      <4>8. JobsInv'
        BY <1>0, <2>3, <4>5, <4>7, RowUpdate
      <4> QED
        BY <2>3, <4>6, <4>7, <4>8 DEF OutboxInv
    <3>2. CASE row.status # "queued"
      <4>1. RowInv(row, reconciles, 1)
        BY <1>0, <3>2, AttemptRows
      <4>2. jobs' = [jobs EXCEPT ![r.job] = row] /\ UNCHANGED outbox
        BY <2>4, <3>2 DEF FailAccepted
      <4>. HIDE DEF row
      <4> QED
        BY <1>0, <2>3, <4>1, <4>2, RowUpdate, StillParts
    <3> QED
      BY <3>1, <3>2
  <2>5. JobsInv' /\ OutboxInv'
    BY <1>9, <2>3, <2>4, StillParts DEF Fail, SeenLive
  <2> QED
    BY <1>9, <2>2, <2>5, StillParts DEF Fail, brokerVars, boundVars
<1> QED
  BY <1>1, <1>2, <1>3, <1>4, <1>5, <1>6, <1>6a, <1>7, <1>8, <1>9 DEF Handle

\* Time and the operator.
LEMMA TimeTypes ==
  ASSUME TypeInv, NEW j \in Jobs, LeaseLapses(j) \/ LeaseExpires(j)
  PROVE  TypeInv'
<1>. USE DEF TypeInv
<1>0. RowInv(jobs[j], reconciles, 1) /\ reconciles \in Nat
  BY BrokerAssumption DEF JobsInv, BoundsInv
<1>1. PICK phase \in {"lapsed", "expired"} :
        jobs' = [jobs EXCEPT ![j] = [jobs[j] EXCEPT !.lease = phase]]
  BY DEF LeaseLapses, LeaseExpires, JobsInv
<1>2. RowInv([jobs[j] EXCEPT !.lease = phase], reconciles, 1)
  BY <1>0, ClientRows
<1>3. /\ UNCHANGED <<outbox, publishing, ready, retry, slot, willing, avail, rpc>>
      /\ UNCHANGED <<faults, losses, reconciles, storage>>
  BY DEF LeaseLapses, LeaseExpires, brokerVars, boundVars
<1>4. JobsInv'
  BY <1>1, <1>2, <1>3, RowUpdate
<1> QED
  BY <1>3, <1>4, StillParts

\* Reconciliation, whose new generations its own bound makes room for.
LEMMA ReconcileTypes ==
  ASSUME TypeInv, Reconcile
  PROVE  TypeInv'
<1>. USE DEF TypeInv
<1>1. /\ reconciles \in Nat /\ reconciles < MaxReconciles
      /\ reconciles' = reconciles + 1 /\ reconciles' \in 0 .. MaxReconciles
  BY BrokerAssumption DEF BoundsInv, Reconcile
<1>2. \A j \in Jobs : /\ RowInv(jobs[j], reconciles + 1, 1)
                      /\ j \in Adopted =>
                           RowInv(DispatchSet(jobs[j]), reconciles + 1, 1)
  BY <1>1, ReconciledRows DEF JobsInv, Adopted
<1>3. JobsInv'
  BY <1>1, <1>2 DEF Reconcile, JobsInv, RowInv
<1>4. \A j \in Adopted : Message(j, jobs[j].dispatch + 1) \in Messages
  BY <1>1, NextGeneration DEF JobsInv, Adopted
<1>5. OutboxInv'
  BY <1>4 DEF Reconcile, OutboxInv
<1>6. BoundsInv'
  BY <1>1 DEF Reconcile, BoundsInv
<1> QED
  BY <1>3, <1>5, <1>6, StillParts DEF Reconcile, brokerVars

\* The type invariant holds at first, is kept by every step, and says that
\* every variable is in its type.
LEMMA TypeInvInit == Init => TypeInv
<1>. SUFFICES ASSUME Init PROVE TypeInv
  OBVIOUS
<1>1. BoundsInv
  BY BrokerAssumption DEF Init, BoundsInv
<1>2. AbsentRow \in Row /\ RowInv(AbsentRow, reconciles, 1)
  BY FixedRows DEF Init, RowInv
<1>3. JobsInv
  BY <1>2 DEF Init, JobsInv
<1>4. OffSlot \in Slot /\ SlotInv(OffSlot)
  BY WrittenValues
     DEF OffSlot, Slot, SlotStates, SlotInv, Working, Processing
<1>5. SlotsInv
  BY <1>4 DEF Init, SlotsInv
<1>6. OutboxInv /\ QueuesInv /\ AdmissionInv /\ RpcInv
  BY DEF Init, OutboxInv, QueuesInv, AdmissionInv, RpcInv, AvailPhases
<1> QED
  BY <1>1, <1>3, <1>5, <1>6 DEF TypeInv

\* Every step keeps the type invariant.
LEMMA TypeInvStep == TypeInv /\ [Next]_vars => TypeInv'
<1>. SUFFICES ASSUME TypeInv, [Next]_vars PROVE TypeInv'
  OBVIOUS
<1>1. CASE UNCHANGED vars
  BY <1>1, StillParts DEF TypeInv, vars, brokerVars, boundVars
<1> QED
  BY <1>1, ClientTypes, BrokerTypes, SlotTypes, HandlerTypes, TimeTypes,
     ReconcileTypes DEF Next

\* The type invariant says more than TypeOK.
LEMMA TypeInvImplies == TypeInv => TypeOK
BY DEF TypeInv, TypeOK, JobsInv, OutboxInv, QueuesInv, SlotsInv, AdmissionInv,
       RpcInv, GoodRequest, BoundsInv

\* Type correctness: among others, attempts never exceed MaxAttempts, no queue
\* count goes below zero, and no more than MaxGeneration generations are made.
THEOREM TypeCorrect == Spec => []TypeOK
<1>1. Spec => []TypeInv
  BY TypeInvInit, TypeInvStep, PTL DEF Spec
<1> QED
  BY <1>1, TypeInvImplies, PTL

-----------------------------------------------------------------------------
(* No unfinished job is lost.  NoLostJob is not inductive: the publisher    *)
(* deletes the outbox row of a message it sent some time ago, so the row    *)
(* that is being published must not be counted on, and the rows of new      *)
(* generations must differ from it.                                         *)

Carries(st, m) == st.held /\ st.msg = m /\ st.pc # "ack"

InBroker(m) == \/ ready[m] > 0
               \/ retry[m] > 0
               \/ \E s \in Instances : Carries(slot[s], m)

ToPublish(m) == m \in outbox /\ m # publishing

Excused(j) == \/ storage = "lost"
              \/ storage = "reconciled" /\ jobs[j].status = "running"

Safe(j) == Pending(jobs[j]) => \/ InBroker(Current(j))
                               \/ ToPublish(Current(j))
                               \/ Excused(j)

\* No outbox row is of a generation its job has not reached.
Reached == \A m \in outbox : m.gen <= jobs[m.job].dispatch

LossInv == /\ \A j \in Jobs : Safe(j)
           /\ publishing = NoMessage \/ publishing \in outbox
           /\ Reached

\* The invariant says more than NoLostJob.
LEMMA LossInvImplies == LossInv => NoLostJob
BY DEF LossInv, Safe, Excused, NoLostJob, Carried, InBroker, Carries, ToPublish

\* A job stays safe through a step that neither queues it nor renumbers it
\* nor takes the last carrier of its message.
LEMMA StaysSafe ==
  ASSUME NEW j \in Jobs, Safe(j), UNCHANGED storage,
         Pending(jobs[j])' =>
           /\ Pending(jobs[j])
           /\ jobs'[j].dispatch = jobs[j].dispatch
           /\ jobs[j].status = "running" => jobs'[j].status = "running"
           /\ InBroker(Current(j)) => InBroker(Current(j))'
           /\ ToPublish(Current(j)) => ToPublish(Current(j))'
  PROVE  Safe(j)'
<1>. SUFFICES ASSUME Pending(jobs[j])'
              PROVE  InBroker(Current(j))' \/ ToPublish(Current(j))' \/ Excused(j)'
  BY DEF Safe
<1> QED
  BY DEF Safe, Excused

\* A job is safe when its message has just been put into the outbox.
LEMMA QueuedSafe ==
  ASSUME TypeInv, LossInv, NEW j \in Jobs,
         jobs'[j].dispatch = jobs[j].dispatch + 1,
         Message(j, jobs[j].dispatch + 1) \in Messages \cap outbox',
         UNCHANGED publishing
  PROVE  Safe(j)'
<1>1. jobs[j].dispatch \in Nat
  BY DEF TypeInv, JobsInv, Row
<1>2. publishing # NoMessage =>
        publishing \in Messages /\ publishing.gen <= jobs[publishing.job].dispatch
  BY DEF LossInv, Reached, TypeInv, OutboxInv
<1>3. Message(j, jobs[j].dispatch + 1) # publishing
  BY <1>1, <1>2, NoMessageAssumption DEF Message
<1> QED
  BY <1>3 DEF Safe, ToPublish, Current

\* BeginAttempt would not discard message m.
Wanted(m) == Pending(jobs[m.job]) /\ m.gen = jobs[m.job].dispatch

\* The current message of a pending job is wanted, and its copies are counted.
LEMMA CurrentType ==
  ASSUME TypeInv, NEW j \in Jobs, Pending(jobs[j])
  PROVE  Current(j) \in Messages /\ Wanted(Current(j)) /\ Current(j).job = j
<1>1. Current(j) \in Messages
  BY NextGeneration DEF TypeInv, JobsInv, Current
<1> QED
  BY <1>1 DEF Current, Message, Wanted

\* Steps that leave the table, the outbox and the publisher alone.
LEMMA QuietSafe ==
  ASSUME TypeInv, LossInv, UNCHANGED <<jobs, outbox, publishing, storage>>,
         \A m \in Messages : Wanted(m) => (InBroker(m) => InBroker(m)')
  PROVE  LossInv'
<1>1. ASSUME NEW j \in Jobs
      PROVE  Safe(j)'
  <2>1. Current(j)' = Current(j)
    BY DEF Current
  <2>2. Pending(jobs[j]) /\ InBroker(Current(j)) => InBroker(Current(j))'
    BY <2>1, CurrentType DEF InBroker
  <2> QED
    BY <2>1, <2>2, StaysSafe DEF LossInv, ToPublish
<1> QED
  BY <1>1 DEF LossInv, Reached

\* A step that changes one row, and neither its generation nor the outbox.
LEMMA RowSafe ==
  ASSUME TypeInv, LossInv, NEW j \in Jobs, NEW row,
         jobs' = [jobs EXCEPT ![j] = row], row.dispatch = jobs[j].dispatch,
         Pending(row) => /\ Pending(jobs[j])
                         /\ jobs[j].status = "running" => row.status = "running",
         UNCHANGED <<outbox, publishing, storage>>,
         \A m \in Messages : Pending(row) \/ m.job # j
                             => (InBroker(m) => InBroker(m)')
  PROVE  LossInv'
<1>0. jobs \in [Jobs -> Row] /\ \A m \in outbox : m \in Messages /\ m.job \in Jobs
  BY DEF TypeInv, JobsInv, OutboxInv, Messages
<1>1. \A i \in Jobs : /\ jobs'[i].dispatch = jobs[i].dispatch
                      /\ Pending(jobs'[i]) =>
                           /\ Pending(jobs[i])
                           /\ jobs[i].status = "running" => jobs'[i].status = "running"
  BY <1>0
<1>2. ASSUME NEW i \in Jobs
      PROVE  Safe(i)'
  <2>1. Current(i)' = Current(i)
    BY <1>1 DEF Current
  <2>2. ToPublish(Current(i)) => ToPublish(Current(i))'
    BY <2>1 DEF ToPublish
  <2>3. Pending(jobs'[i]) /\ InBroker(Current(i)) => InBroker(Current(i))'
    BY <1>0, <1>1, <2>1, CurrentType DEF InBroker
  <2> QED
    BY <1>1, <2>1, <2>2, <2>3, StaysSafe DEF LossInv
<1>3. Reached'
  BY <1>0, <1>1 DEF LossInv, Reached
<1> QED
  BY <1>2, <1>3 DEF LossInv

\* A step that queues a job anew, with its message in the outbox.
LEMMA QueuedRowSafe ==
  ASSUME TypeInv, LossInv, NEW j \in Jobs, NEW row,
         jobs' = [jobs EXCEPT ![j] = row], row.dispatch = jobs[j].dispatch + 1,
         Message(j, row.dispatch) \in Messages,
         outbox' = outbox \cup {Message(j, row.dispatch)},
         UNCHANGED <<publishing, storage>>,
         \A m \in Messages : m.job # j => (InBroker(m) => InBroker(m)')
  PROVE  LossInv'
<1>0. jobs \in [Jobs -> Row] /\ \A m \in outbox : m \in Messages /\ m.job \in Jobs
  BY DEF TypeInv, JobsInv, OutboxInv, Messages
<1>1. jobs'[j] = row /\ \A i \in Jobs \ {j} : jobs'[i] = jobs[i]
  BY <1>0
<1>2. Safe(j)'
  BY <1>1, QueuedSafe
<1>3. ASSUME NEW i \in Jobs \ {j}
      PROVE  Safe(i)'
  <2>1. Current(i)' = Current(i)
    BY <1>1 DEF Current
  <2>2. ToPublish(Current(i)) => ToPublish(Current(i))'
    BY <2>1 DEF ToPublish
  <2>3. Pending(jobs[i]) /\ InBroker(Current(i)) => InBroker(Current(i))'
    BY <2>1, CurrentType DEF InBroker
  <2> QED
    BY <1>1, <2>1, <2>2, <2>3, StaysSafe DEF LossInv
<1>4. Reached'
  <2>1. jobs[j].dispatch \in Nat
    BY <1>0 DEF Row
  <2>2. ASSUME NEW m \in outbox
        PROVE  m.gen <= jobs'[m.job].dispatch
    BY <1>0, <1>1, <2>1 DEF LossInv, Reached, Messages, MaxGeneration
  <2>3. /\ Message(j, row.dispatch).job = j
        /\ Message(j, row.dispatch).gen = row.dispatch
    BY DEF Message
  <2> QED
    BY <1>1, <2>1, <2>2, <2>3 DEF Reached
<1> QED
  BY <1>2, <1>3, <1>4 DEF LossInv

-----------------------------------------------------------------------------
(* What steps do to the copies the broker and the slots hold.              *)

\* Steps that leave the queues and every delivery in place.
LEMMA SlotsCarry ==
  ASSUME UNCHANGED <<ready, retry>>, NEW m,
         \A s \in Instances : Carries(slot[s], m) => Carries(slot'[s], m)
  PROVE  InBroker(m) => InBroker(m)'
BY DEF InBroker

\* One more copy in a queue.
LEMMA CopyAdded ==
  ASSUME QueuesInv, NEW n \in Messages, NEW m \in Messages
  PROVE  /\ Added(ready, n)[m] >= ready[m] /\ Added(retry, n)[m] >= retry[m]
         /\ Added(ready, n)[n] > 0 /\ Added(retry, n)[n] > 0
         /\ ready[m] \in Nat /\ retry[m] \in Nat
         /\ Added(ready, n)[m] \in Nat /\ Added(retry, n)[m] \in Nat
BY DEF QueuesInv, Added

\* A slot that gives up its delivery returns it to the queue.
LEMMA ReturnCarries ==
  ASSUME QueuesInv, SlotsInv, NEW s \in Instances, NEW st, ReturnDelivery(s),
         UNCHANGED retry, slot' = [slot EXCEPT ![s] = st], NEW m \in Messages
  PROVE  InBroker(m) => InBroker(m)'
<1>0. slot[s].held => slot[s].msg \in Messages
  BY DEF SlotsInv, SlotInv
<1>1. ready[m] > 0 => ready'[m] > 0
  <2>1. slot[s].held => /\ ready'[m] >= ready[m]
                        /\ ready[m] \in Nat /\ ready'[m] \in Nat
    BY <1>0, CopyAdded DEF ReturnDelivery
  <2> QED
    BY <2>1 DEF ReturnDelivery
<1>2. Carries(slot[s], m) => ready'[m] > 0
  BY <1>0, CopyAdded DEF ReturnDelivery, Carries
<1>3. \A t \in Instances \ {s} : slot'[t] = slot[t]
  BY DEF SlotsInv
<1> QED
  BY <1>1, <1>2, <1>3 DEF InBroker

\* A slot that goes on with its delivery, unless it is about to acknowledge.
LEMMA MoveCarries ==
  ASSUME SlotsInv, NEW s \in Instances, NEW st, UNCHANGED <<ready, retry>>,
         slot' = [slot EXCEPT ![s] = st], NEW m,
         Carries(slot[s], m) => Carries(st, m)
  PROVE  InBroker(m) => InBroker(m)'
BY SlotsCarry DEF SlotsInv

\* A reply lets go of the request's own message at most.
LEMMA ReplyCarries ==
  ASSUME SlotsInv, NEW r \in Request, NEW pc, Reply(r, pc),
         UNCHANGED <<ready, retry>>, NEW m,
         pc = "ack" => m # Message(r.job, r.gen)
  PROVE  InBroker(m) => InBroker(m)'
<1>1. CASE Waiting(r)
  <2>1. r.slot \in Instances /\ slot[r.slot].msg.job = r.job
          /\ slot[r.slot].msg.gen = r.gen
    BY <1>1, WaitingCaller DEF Request
  <2>2. slot[r.slot] \in Slot
    BY <2>1 DEF SlotsInv
  <2>3. slot[r.slot].held => slot[r.slot].msg = Message(r.job, r.gen)
    <3>1. slot[r.slot].held => slot[r.slot].msg \in Messages
      BY <2>1 DEF SlotsInv, SlotInv
    <3> QED
      BY <2>1, <3>1 DEF Messages, Message
  <2>4. slot' = [slot EXCEPT ![r.slot] = [slot[r.slot] EXCEPT !.pc = pc]]
    BY <1>1, <2>1 DEF Reply, Goto, SlotsInv
  <2>5. Carries(slot[r.slot], m) => Carries([slot[r.slot] EXCEPT !.pc = pc], m)
    BY <2>2, <2>3 DEF Carries, Slot
  <2> QED
    BY <2>1, <2>4, <2>5, MoveCarries
<1>2. CASE ~Waiting(r)
  BY <1>2, SlotsCarry DEF Reply
<1> QED
  BY <1>1, <1>2

\* The reply that starts work keeps the delivery.
LEMMA StartedCarries ==
  ASSUME SlotsInv, NEW r \in Request, NEW t, ReplyStarted(r, t),
         UNCHANGED <<ready, retry>>, NEW m
  PROVE  InBroker(m) => InBroker(m)'
<1>1. CASE Waiting(r)
  <2>1. r.slot \in Instances /\ slot[r.slot] \in Slot
    BY DEF Request, SlotsInv
  <2>2. slot' = [slot EXCEPT ![r.slot] =
                   [slot[r.slot] EXCEPT !.pc = "work", !.token = t]]
    BY <1>1, <2>1 DEF ReplyStarted, SlotsInv
  <2>3. Carries(slot[r.slot], m) =>
          Carries([slot[r.slot] EXCEPT !.pc = "work", !.token = t], m)
    BY <2>1 DEF Carries, Slot
  <2> QED
    BY <2>1, <2>2, <2>3, MoveCarries
<1>2. CASE ~Waiting(r)
  BY <1>2, SlotsCarry DEF ReplyStarted
<1> QED
  BY <1>1, <1>2

-----------------------------------------------------------------------------
(* Every step keeps every job safe.                                        *)

\* The public API and cleanup.
LEMMA ClientSafe ==
  ASSUME TypeInv, LossInv, ClientStep
  PROVE  LossInv'
<1>0. jobs \in [Jobs -> Row] /\ \A m \in outbox : m \in Messages /\ m.job \in Jobs
  BY DEF TypeInv, JobsInv, OutboxInv, Messages
<1>2. ASSUME NEW j \in Jobs, \/ CreateJob(j) \/ MarkDownloading(j) \/ FailUpload(j)
                              \/ CancelJob(j) \/ AcknowledgeJob(j)
      PROVE  LossInv'
  <2>1. UNCHANGED <<outbox, publishing, ready, retry, slot, storage>>
    BY <1>2 DEF CreateJob, MarkDownloading, FailUpload, CancelJob, AcknowledgeJob,
                brokerVars, boundVars
  <2>2. PICK row : /\ jobs' = [jobs EXCEPT ![j] = row]
                   /\ ~Pending(row) /\ row.dispatch = jobs[j].dispatch
    <3>0. RowInv(jobs[j], reconciles, 1)
      BY DEF TypeInv, JobsInv
    <3>1. CASE CreateJob(j)
      <4>1. ~Pending(CreateSet) /\ CreateSet.dispatch = 0
        BY DEF CreateSet, AbsentRow, Pending
      <4>2. jobs[j].dispatch = 0
        BY <3>0, <3>1 DEF CreateJob, RowInv, RowShape
      <4> QED
        BY <3>1, <4>1, <4>2 DEF CreateJob
    <3>2. CASE MarkDownloading(j)
      <4>1. /\ ~Pending(MarkDownloadingSet(jobs[j]))
            /\ MarkDownloadingSet(jobs[j]).dispatch = jobs[j].dispatch
        BY <1>0 DEF MarkDownloadingSet, Pending, Row
      <4> QED
        BY <3>2, <4>1 DEF MarkDownloading
    <3>3. CASE FailUpload(j)
      <4>1. /\ ~Pending(FailSet(jobs[j], FALSE))
            /\ FailSet(jobs[j], FALSE).dispatch = jobs[j].dispatch
        BY <1>0 DEF FailSet, Pending, Row
      <4> QED
        BY <3>3, <4>1 DEF FailUpload
    <3>4. CASE CancelJob(j)
      <4>1. /\ ~Pending(EndFailedSet(jobs[j]))
            /\ EndFailedSet(jobs[j]).dispatch = jobs[j].dispatch
        BY <1>0 DEF EndFailedSet, Pending, Row
      <4> QED
        BY <3>4, <4>1 DEF CancelJob
    <3>5. CASE AcknowledgeJob(j)
      <4>1. /\ ~Pending(AckSet(jobs[j]))
            /\ AckSet(jobs[j]).dispatch = jobs[j].dispatch
        BY <1>0, <3>5 DEF AcknowledgeJob, AckWhere, Terminal, AckSet, Pending, Row
      <4> QED
        BY <3>5, <4>1 DEF AcknowledgeJob
    <3> QED
      BY <1>2, <3>1, <3>2, <3>3, <3>4, <3>5
  <2>3. \A m : InBroker(m) => InBroker(m)'
    BY <2>1 DEF InBroker
  <2> QED
    BY <2>1, <2>2, <2>3, RowSafe
<1>3. ASSUME NEW j \in Jobs, MarkQueued(j)
      PROVE  LossInv'
  <2>. DEFINE row == DispatchSet(MarkQueuedSet(jobs[j]))
  <2>1. jobs' = [jobs EXCEPT ![j] = row] /\ row.dispatch = jobs[j].dispatch + 1
    BY <1>0, <1>3 DEF MarkQueued, DispatchSet, MarkQueuedSet, Row
  <2>2. Message(j, row.dispatch) \in Messages
    BY <1>3, <2>1, NextGeneration DEF MarkQueued, Uploading, TypeInv, JobsInv
  <2>3. \A m : InBroker(m) => InBroker(m)'
    BY <1>3 DEF MarkQueued, brokerVars, InBroker
  <2>4. /\ outbox' = outbox \cup {Message(j, row.dispatch)}
        /\ UNCHANGED <<publishing, storage>>
    BY <1>3, <2>1 DEF MarkQueued, boundVars
  <2>. HIDE DEF row
  <2> QED
    BY <2>1, <2>2, <2>3, <2>4, QueuedRowSafe
<1>4. ASSUME NEW reaped \in SUBSET Jobs, NEW gone \in SUBSET Jobs,
             CleanupExpiredJobs(reaped, gone)
      PROVE  LossInv'
  <2>1. ASSUME NEW i \in Jobs
        PROVE  /\ Pending(jobs'[i]) => i \notin gone /\ jobs'[i] = jobs[i]
               /\ i \notin gone => jobs'[i].dispatch = jobs[i].dispatch
    BY <1>0, <1>4 DEF CleanupExpiredJobs, DeletedRow, AbsentRow, EndFailedSet,
                      Pending, Row
  <2>2. ASSUME NEW i \in Jobs
        PROVE  Safe(i)'
    <3>1. i \notin gone /\ ToPublish(Current(i)) => Current(i) \in outbox'
      BY <1>4 DEF CleanupExpiredJobs, ToPublish, Current, Message
    <3> QED
      BY <1>4, <2>1, <3>1, StaysSafe
         DEF LossInv, CleanupExpiredJobs, InBroker, ToPublish, Current, brokerVars,
             boundVars
  <2>3. Reached'
    BY <1>0, <1>4, <2>1 DEF LossInv, Reached, CleanupExpiredJobs
  <2>4. publishing' = NoMessage \/ publishing' \in outbox'
    BY <1>4 DEF LossInv, CleanupExpiredJobs
  <2> QED
    BY <2>2, <2>3, <2>4 DEF LossInv
<1> QED
  BY <1>2, <1>3, <1>4 DEF ClientStep

\* A slot that moves on with its delivery, and the table left alone.
LEMMA MoveSafe ==
  ASSUME TypeInv, LossInv, NEW s \in Instances, NEW st,
         slot' = [slot EXCEPT ![s] = st], st.msg = slot[s].msg,
         st.held = slot[s].held, st.pc = "ack" => slot[s].pc = "ack",
         UNCHANGED <<jobs, outbox, publishing, ready, retry, storage>>
  PROVE  LossInv'
<1>1. \A m : Carries(slot[s], m) => Carries(st, m)
  BY DEF Carries
<1>2. \A m : InBroker(m) => InBroker(m)'
  BY <1>1, MoveCarries DEF TypeInv
<1> QED
  BY <1>2, QuietSafe

\* A slot leaves its delivery to the broker, and the table alone.
LEMMA ReturnSafe ==
  ASSUME TypeInv, LossInv, NEW s \in Instances, NEW st,
         slot' = [slot EXCEPT ![s] = st], ReturnDelivery(s),
         UNCHANGED <<jobs, outbox, publishing, retry, storage>>
  PROVE  LossInv'
<1>1. \A m \in Messages : InBroker(m) => InBroker(m)'
  BY ReturnCarries DEF TypeInv
<1> QED
  BY <1>1, QuietSafe

\* The publisher and the broker.
LEMMA BrokerSafe ==
  ASSUME TypeInv, LossInv, BrokerStep
  PROVE  LossInv'
<1>0. QueuesInv /\ SlotsInv /\ OutboxInv
  BY DEF TypeInv
<1>1. ASSUME NEW m \in Messages, PublishSend(m)
      PROVE  LossInv'
  <2>1. /\ ready' = Added(ready, m) /\ publishing' = m /\ m \in outbox
        /\ UNCHANGED <<jobs, outbox, retry, slot, storage>>
    BY <1>1 DEF PublishSend, boundVars
  <2>2. ASSUME NEW j \in Jobs
        PROVE  Safe(j)'
    <3>1. SUFFICES ASSUME Pending(jobs[j])' PROVE Safe(j)'
      BY DEF Safe
    <3>2. Pending(jobs[j]) /\ Current(j)' = Current(j) /\ Current(j) \in Messages
      BY <2>1, <3>1, CurrentType DEF Current
    <3>3. InBroker(Current(j)) => InBroker(Current(j))'
      BY <1>0, <2>1, <3>2, CopyAdded DEF InBroker
    <3>4. ToPublish(Current(j)) => InBroker(Current(j))' \/ ToPublish(Current(j))'
      BY <1>0, <2>1, <3>2, CopyAdded DEF InBroker, ToPublish
    <3> QED
      BY <2>1, <3>2, <3>3, <3>4 DEF LossInv, Safe, Excused
  <2> QED
    BY <2>1, <2>2 DEF LossInv, Reached
<1>2. ASSUME NEW m \in Messages, RetryExpires(m)
      PROVE  LossInv'
  <2>1. /\ ready' = Added(ready, m) /\ retry' = Removed(retry, m)
        /\ UNCHANGED <<jobs, outbox, publishing, slot, storage>>
    BY <1>2 DEF RetryExpires, boundVars
  <2>2. ASSUME NEW n \in Messages
        PROVE  InBroker(n) => InBroker(n)'
    <3>1. ready[n] > 0 \/ n = m => ready'[n] > 0
      BY <1>0, <2>1, CopyAdded
    <3>2. n # m => retry'[n] = retry[n]
      BY <1>0, <2>1 DEF Removed, QueuesInv
    <3> QED
      BY <2>1, <3>1, <3>2 DEF InBroker
  <2> QED
    BY <2>1, <2>2, QuietSafe
<1>3. ASSUME NEW m \in Messages, NEW s \in Instances, Deliver(s, m)
      PROVE  LossInv'
  <2>. DEFINE st == [OffSlot EXCEPT !.pc = "got", !.msg = m, !.held = TRUE]
  <2>1. /\ ready' = Removed(ready, m) /\ slot' = [slot EXCEPT ![s] = st]
        /\ slot[s].pc = "idle"
        /\ UNCHANGED <<jobs, outbox, publishing, retry, storage>>
    BY <1>3 DEF Deliver, boundVars
  <2>2. Carries(st, m)
    BY DEF Carries, OffSlot
  <2>3. ~slot[s].held
    BY <2>1 DEF TypeInv, SlotsInv, SlotInv, Working
  <2>. HIDE DEF st
  <2>4. slot'[s] = st /\ \A t \in Instances \ {s} : slot'[t] = slot[t]
    BY <1>0, <2>1 DEF SlotsInv
  <2>5. ASSUME NEW n \in Messages
        PROVE  InBroker(n) => InBroker(n)'
    <3>1. n # m => ready'[n] = ready[n]
      BY <1>0, <2>1 DEF Removed, QueuesInv
    <3>2. n = m => InBroker(n)'
      BY <2>2, <2>4 DEF InBroker
    <3>3. \A t \in Instances : Carries(slot[t], n) => Carries(slot'[t], n)
      BY <2>3, <2>4 DEF Carries
    <3> QED
      BY <2>1, <3>1, <3>2, <3>3 DEF InBroker
  <2> QED
    BY <2>1, <2>5, QuietSafe
<1>4. CASE PublishCommit
  <2>1. /\ outbox' = outbox \ {publishing} /\ publishing' = NoMessage
        /\ UNCHANGED <<jobs, ready, retry, slot, storage>>
    BY <1>4 DEF PublishCommit, brokerVars, boundVars
  <2>2. ASSUME NEW j \in Jobs
        PROVE  Safe(j)'
    <3>1. InBroker(Current(j)) => InBroker(Current(j))'
      BY <2>1 DEF InBroker, Current
    <3>2. Pending(jobs[j]) /\ ToPublish(Current(j)) => ToPublish(Current(j))'
      BY <2>1, CurrentType, NoMessageAssumption DEF ToPublish, Current
    <3> QED
      BY <2>1, <3>1, <3>2, StaysSafe DEF LossInv
  <2> QED
    BY <2>1, <2>2 DEF LossInv, Reached
<1>5. CASE PublishAbort
  <2>1. /\ publishing' = NoMessage
        /\ UNCHANGED <<jobs, outbox, ready, retry, slot, storage>>
    BY <1>5 DEF PublishAbort, brokerVars, boundVars
  <2>2. ASSUME NEW j \in Jobs
        PROVE  Safe(j)'
    <3>1. InBroker(Current(j)) => InBroker(Current(j))'
      BY <2>1 DEF InBroker, Current
    <3>2. Pending(jobs[j]) /\ ToPublish(Current(j)) => ToPublish(Current(j))'
      BY <2>1, CurrentType, NoMessageAssumption DEF ToPublish, Current
    <3> QED
      BY <2>1, <3>1, <3>2, StaysSafe DEF LossInv
  <2> QED
    BY <2>1, <2>2 DEF LossInv, Reached
<1>6. CASE LoseBrokerStorage
  <2>1. storage' = "lost" /\ UNCHANGED <<jobs, outbox, publishing>>
    BY <1>6 DEF LoseBrokerStorage
  <2> QED
    BY <2>1 DEF LossInv, Reached, Safe, Excused
<1>7. ASSUME NEW s \in Instances, LoseConnection(s)
      PROVE  LossInv'
  <2>1. /\ ReturnDelivery(s)
        /\ UNCHANGED <<jobs, outbox, publishing, retry, storage>>
    BY <1>7 DEF LoseConnection, boundVars
  <2>2. PICK st : slot' = [slot EXCEPT ![s] = st]
    BY <1>7 DEF LoseConnection
  <2> QED
    BY <2>1, <2>2, ReturnSafe
<1> QED
  BY <1>1, <1>2, <1>3, <1>4, <1>5, <1>6, <1>7 DEF BrokerStep

\* The reporter and the consumer loop.  An acknowledgement is harmless,
\* because the slot stopped counting as a carrier when it decided on it.
LEMMA SlotSafe ==
  ASSUME TypeInv, LossInv, NEW s \in Instances, SlotStep(s)
  PROVE  LossInv'
<1>0. QueuesInv /\ SlotsInv /\ SlotInv(slot[s]) /\ slot[s] \in Slot
  BY DEF TypeInv, SlotsInv
<1>1. CASE \/ ReportAvailability(s) \/ RegisterConsumer(s) \/ BecomeUnwilling(s)
           \/ Withdraw(s) \/ AvailabilityExpires(s)
  <2>1. UNCHANGED <<jobs, outbox, publishing, ready, retry, slot, storage>>
    BY <1>1 DEF ReportAvailability, RegisterConsumer, BecomeUnwilling, Withdraw,
                AvailabilityExpires, brokerVars, boundVars
  <2>2. \A m : InBroker(m) => InBroker(m)'
    BY <2>1 DEF InBroker
  <2> QED
    BY <2>1, <2>2, QuietSafe
<1>2. CASE Subscribe(s)
  <2>1. /\ slot' = [slot EXCEPT ![s] = [slot[s] EXCEPT !.pc = "idle"]]
        /\ UNCHANGED <<jobs, outbox, publishing, ready, retry, storage>>
    BY <1>0, <1>2 DEF Subscribe, SlotsInv, brokerVars, boundVars
  <2> QED
    BY <1>0, <2>1, MoveSafe DEF Slot
<1>3. CASE CloseConsumer(s)
  BY <1>3, ReturnSafe DEF CloseConsumer, boundVars
<1>4. CASE BeginAttempt(s)
  <2>1. PICK d : slot' = [slot EXCEPT ![s] =
                            [slot[s] EXCEPT !.pc = "begin", !.did = d, !.try = 1]]
    BY <1>4 DEF BeginAttempt, Send
  <2>2. UNCHANGED <<jobs, outbox, publishing, ready, retry, storage>>
    BY <1>4 DEF BeginAttempt, brokerVars, boundVars
  <2> QED
    BY <1>0, <2>1, <2>2, MoveSafe DEF Slot
<1>5. CASE RpcTimeout(s)
  <2>1. UNCHANGED <<jobs, outbox, publishing, ready, retry, storage>>
    BY <1>5 DEF RpcTimeout, brokerVars, boundVars
  <2>2. \/ slot[s].pc = "begin" /\
             slot' = [slot EXCEPT ![s] = [slot[s] EXCEPT !.try = 2]]
        \/ slot' = [slot EXCEPT ![s] = [slot[s] EXCEPT !.pc = "close"]]
    BY <1>0, <1>5 DEF RpcTimeout, RpcError, Send, Goto, SlotsInv
  <2> QED
    BY <1>0, <2>1, <2>2, MoveSafe DEF Slot
<1>6. ASSUME NEW op \in {"complete", "failRetry", "failFinal"}, Finish(s, op)
      PROVE  LossInv'
  <2>1. /\ slot' = [slot EXCEPT ![s] = [slot[s] EXCEPT !.pc = op]]
        /\ UNCHANGED <<jobs, outbox, publishing, ready, retry, storage>>
    BY <1>6 DEF Finish, Send, brokerVars, boundVars
  <2> QED
    BY <1>0, <2>1, MoveSafe DEF Slot
<1>7. CASE StopWork(s)
  <2>1. /\ slot' = [slot EXCEPT ![s] = [slot[s] EXCEPT !.pc = "close"]]
        /\ UNCHANGED <<jobs, outbox, publishing, ready, retry, storage>>
    BY <1>0, <1>7 DEF StopWork, Goto, SlotsInv, brokerVars, boundVars
  <2> QED
    BY <1>0, <2>1, MoveSafe DEF Slot
<1>8. CASE Heartbeat(s)
  <2>. DEFINE j == slot[s].msg.job
              row == [jobs[j] EXCEPT !.lease = "live"]
  <2>1. /\ jobs' = [jobs EXCEPT ![j].lease = "live"]
        /\ UNCHANGED <<outbox, publishing, ready, retry, slot, storage>>
    BY <1>8 DEF Heartbeat, brokerVars, boundVars
  <2>2. j \in Jobs
    BY <1>0, <1>8, WorkingStates DEF Heartbeat, SlotInv, Messages
  <2>3. jobs[j] \in Row /\ jobs' = [jobs EXCEPT ![j] = row]
    BY <2>1, <2>2 DEF TypeInv, JobsInv
  <2>4. row.dispatch = jobs[j].dispatch /\ row.status = jobs[j].status
    BY <2>3 DEF Row
  <2>5. \A m : InBroker(m) => InBroker(m)'
    BY <2>1 DEF InBroker
  <2>. HIDE DEF row, j
  <2> QED
    BY <2>1, <2>2, <2>3, <2>4, <2>5, RowSafe DEF Pending
<1>9. CASE AckDelivery(s)
  <2>1. /\ slot' = [slot EXCEPT ![s] = [OffSlot EXCEPT !.pc = "idle"]]
        /\ slot[s].pc = "ack"
        /\ UNCHANGED <<jobs, outbox, publishing, ready, retry, storage>>
    BY <1>9 DEF AckDelivery, brokerVars, boundVars
  <2>2. \A m : ~Carries(slot[s], m)
    BY <2>1 DEF Carries
  <2>3. \A m : InBroker(m) => InBroker(m)'
    BY <1>0, <2>1, <2>2, MoveCarries
  <2> QED
    BY <2>1, <2>3, QuietSafe
<1>10. CASE Crash(s)
  BY <1>10, ReturnSafe DEF Crash, boundVars
<1>11. CASE PublishRetry(s)
  <2>1. /\ slot' = [slot EXCEPT ![s] = [slot[s] EXCEPT !.pc = "ack"]]
        /\ retry' = Added(retry, slot[s].msg)
        /\ UNCHANGED <<jobs, outbox, publishing, ready, storage>>
    BY <1>0, <1>11 DEF PublishRetry, Goto, SlotsInv, boundVars
  <2>2. slot[s].msg \in Messages
    BY <1>0, <1>11, WorkingStates DEF PublishRetry, SlotInv
  <2>3. \A t \in Instances \ {s} : slot'[t] = slot[t]
    BY <1>0, <2>1 DEF SlotsInv
  <2>4. ASSUME NEW m \in Messages
        PROVE  InBroker(m) => InBroker(m)'
    <3>1. retry[m] > 0 \/ Carries(slot[s], m) => retry'[m] > 0
      BY <1>0, <2>1, <2>2, CopyAdded DEF Carries
    <3> QED
      BY <2>1, <2>3, <3>1 DEF InBroker
  <2> QED
    BY <2>1, <2>4, QuietSafe
<1>12. ASSUME NEW taken \in BOOLEAN, PublishRetryFails(s, taken)
       PROVE  LossInv'
  <2>1. /\ slot' = [slot EXCEPT ![s] = [slot[s] EXCEPT !.pc = "close"]]
        /\ retry' = IF taken THEN Added(retry, slot[s].msg) ELSE retry
        /\ UNCHANGED <<jobs, outbox, publishing, ready, storage>>
    BY <1>0, <1>12 DEF PublishRetryFails, Goto, SlotsInv, boundVars
  <2>2. slot[s].msg \in Messages
    BY <1>0, <1>12, WorkingStates DEF PublishRetryFails, SlotInv
  <2>3. \A t \in Instances \ {s} : slot'[t] = slot[t]
    BY <1>0, <2>1 DEF SlotsInv
  <2>4. \A m : Carries(slot[s], m) => Carries(slot'[s], m)
    BY <1>0, <2>1 DEF Carries, SlotsInv, Slot
  <2>5. ASSUME NEW m \in Messages
        PROVE  InBroker(m) => InBroker(m)'
    <3>1. retry[m] > 0 => retry'[m] > 0
      BY <1>0, <2>1, <2>2, CopyAdded
    <3> QED
      BY <2>1, <2>3, <2>4, <3>1 DEF InBroker
  <2> QED
    BY <2>1, <2>5, QuietSafe
<1> QED
  BY <1>1, <1>2, <1>3, <1>4, <1>5, <1>6, <1>7, <1>8, <1>9, <1>10, <1>11, <1>12
     DEF SlotStep

\* The coordinator's handlers.  A caller is told to acknowledge only what is
\* obsolete, or becomes so in the same step.
LEMMA HandlerSafe ==
  ASSUME TypeInv, LossInv, NEW r \in rpc, Handle(r)
  PROVE  LossInv'
<1>. DEFINE j == r.job
            own == Message(r.job, r.gen)
<1>0. /\ SlotsInv /\ r \in Request /\ j \in Jobs /\ jobs[j] \in Row
      /\ RowInv(jobs[j], reconciles, 1)
  BY DEF TypeInv, RpcInv, GoodRequest, Request, JobsInv
<1>00. own.job = j /\ own.gen = r.gen
  BY DEF Message
<1>1. CASE BeginDiscards(r)
  <2>1. /\ Obsolete(r) /\ Reply(r, "ack")
        /\ UNCHANGED <<jobs, outbox, publishing, ready, retry, storage>>
    BY <1>1 DEF BeginDiscards, brokerVars, boundVars
  <2>2. \A m : Wanted(m) => m # own
    BY <1>00, <2>1 DEF Wanted, Obsolete
  <2>3. \A m : Wanted(m) => (InBroker(m) => InBroker(m)')
    BY <1>0, <2>1, <2>2, ReplyCarries
  <2> QED
    BY <2>1, <2>3, QuietSafe
<1>2. CASE BeginExhausts(r)
  <2>. DEFINE row == EndFailedSet(jobs[j])
  <2>1. /\ jobs' = [jobs EXCEPT ![j] = row] /\ Reply(r, "ack")
        /\ UNCHANGED <<outbox, publishing, ready, retry, storage>>
    BY <1>2 DEF BeginExhausts, brokerVars, boundVars
  <2>2. row.dispatch = jobs[j].dispatch /\ ~Pending(row)
    BY <1>0 DEF EndFailedSet, Row, Pending
  <2>3. \A m : m.job # j => (InBroker(m) => InBroker(m)')
    BY <1>0, <1>00, <2>1, ReplyCarries
  <2>. HIDE DEF row, j
  <2> QED
    BY <1>0, <2>1, <2>2, <2>3, RowSafe
<1>3. CASE BeginBusy(r)
  <2>1. /\ Reply(r, "busy")
        /\ UNCHANGED <<jobs, outbox, publishing, ready, retry, storage>>
    BY <1>3 DEF BeginBusy, brokerVars, boundVars
  <2>2. \A m : InBroker(m) => InBroker(m)'
    BY <1>0, <2>1, ReplyCarries
  <2> QED
    BY <2>1, <2>2, QuietSafe
<1>4. CASE BeginReplays(r)
  <2>1. /\ ReplyStarted(r, jobs[j].lease_owner)
        /\ UNCHANGED <<jobs, outbox, publishing, ready, retry, storage>>
    BY <1>4 DEF BeginReplays, brokerVars, boundVars
  <2>2. \A m : InBroker(m) => InBroker(m)'
    BY <1>0, <2>1, StartedCarries
  <2> QED
    BY <2>1, <2>2, QuietSafe
<1>5. ASSUME CanStart(r)
      PROVE  LET row == StartSet(jobs[j], r.slot, r.did) IN
               /\ row.dispatch = jobs[j].dispatch
               /\ row.status = "running" /\ Pending(jobs[j])
  BY <1>0, <1>5 DEF CanStart, Startable, Obsolete, StartSet, Row
<1>6. CASE BeginStarts(r)
  <2>. DEFINE row == StartSet(jobs[j], r.slot, r.did)
  <2>1. /\ jobs' = [jobs EXCEPT ![j] = row] /\ CanStart(r)
        /\ ReplyStarted(r, jobs[j].attempts + 1)
        /\ UNCHANGED <<outbox, publishing, ready, retry, storage>>
    BY <1>6 DEF BeginStarts, brokerVars, boundVars
  <2>2. \A m : InBroker(m) => InBroker(m)'
    BY <1>0, <2>1, StartedCarries
  <2>3. row.dispatch = jobs[j].dispatch /\ row.status = "running" /\ Pending(jobs[j])
    BY <1>5, <2>1
  <2>. HIDE DEF row, j
  <2> QED
    BY <1>0, <2>1, <2>2, <2>3, RowSafe
<1>7. CASE BeginFindsNoInput(r)
  <2>. DEFINE row == StartSet(jobs[j], r.slot, r.did)
  <2>1. /\ jobs' = [jobs EXCEPT ![j] = row] /\ CanStart(r)
        /\ UNCHANGED <<outbox, publishing, ready, retry, slot, storage>>
    BY <1>7 DEF BeginFindsNoInput, NoInputFor, brokerVars, boundVars
  <2>2. \A m : InBroker(m) => InBroker(m)'
    BY <2>1 DEF InBroker
  <2>3. row.dispatch = jobs[j].dispatch /\ row.status = "running" /\ Pending(jobs[j])
    BY <1>5, <2>1
  <2>. HIDE DEF row, j
  <2> QED
    BY <1>0, <2>1, <2>2, <2>3, RowSafe
<1>7a. CASE ReplayFindsNoInput(r)
  <2>1. UNCHANGED <<jobs, outbox, publishing, ready, retry, slot, storage>>
    BY <1>7a DEF ReplayFindsNoInput, NoInputFor, brokerVars, boundVars
  <2>2. \A m : InBroker(m) => InBroker(m)'
    BY <2>1 DEF InBroker
  <2> QED
    BY <2>1, <2>2, QuietSafe
<1>8. CASE FailMissingInput(r)
  <2>. DEFINE row == FailSet(jobs[j], FALSE)
  <2>1. UNCHANGED <<outbox, publishing, ready, retry, storage>>
    BY <1>8 DEF FailMissingInput, brokerVars, boundVars
  <2>2. row.dispatch = jobs[j].dispatch /\ ~Pending(row)
    BY <1>0 DEF FailSet, Row, Pending
  <2>3. \A m : InBroker(m) => InBroker(m)'
    <3>1. r.slot \in Instances /\ slot[r.slot] \in Slot
      BY <1>0 DEF Request, SlotsInv
    <3>2. \/ UNCHANGED slot
          \/ slot' = [slot EXCEPT ![r.slot] = [slot[r.slot] EXCEPT !.try = 2]] /\
               slot[r.slot].pc = "begin"
          \/ slot' = [slot EXCEPT ![r.slot] = [slot[r.slot] EXCEPT !.pc = "close"]]
      BY <1>8, <3>1 DEF FailMissingInput, Waiting, RequestOf, Goto, SlotsInv
    <3>3. \A m : /\ Carries(slot[r.slot], m)
                 => /\ Carries([slot[r.slot] EXCEPT !.try = 2], m)
                    /\ Carries([slot[r.slot] EXCEPT !.pc = "close"], m)
      BY <3>1 DEF Carries, Slot
    <3>4. CASE UNCHANGED slot
      BY <2>1, <3>4 DEF InBroker
    <3>5. CASE slot' = [slot EXCEPT ![r.slot] = [slot[r.slot] EXCEPT !.try = 2]]
      BY <1>0, <2>1, <3>1, <3>3, <3>5, MoveCarries
    <3>6. CASE slot' = [slot EXCEPT ![r.slot] = [slot[r.slot] EXCEPT !.pc = "close"]]
      BY <1>0, <2>1, <3>1, <3>3, <3>6, MoveCarries
    <3> QED
      BY <3>2, <3>4, <3>5, <3>6
  <2>4. UNCHANGED jobs \/ jobs' = [jobs EXCEPT ![j] = row]
    BY <1>0, <1>8 DEF FailMissingInput, TypeInv, JobsInv
  <2>. HIDE DEF row, j
  <2> QED
    BY <1>0, <2>1, <2>2, <2>3, <2>4, RowSafe, QuietSafe
<1>9. CASE Complete(r)
  <2>. DEFINE row == CompleteSet(jobs[j])
  <2>1. UNCHANGED <<outbox, publishing, ready, retry, storage>>
    BY <1>9 DEF Complete, brokerVars, boundVars
  <2>2. row.dispatch = jobs[j].dispatch /\ ~Pending(row)
    BY <1>0 DEF CompleteSet, Row, Pending
  <2>3. \/ jobs' = [jobs EXCEPT ![j] = row] /\ Reply(r, "ack")
        \/ UNCHANGED jobs /\ Reply(r, "close")
    BY <1>0, <1>9 DEF Complete, TypeInv, JobsInv
  <2>4. Reply(r, "close") => \A m : InBroker(m) => InBroker(m)'
    BY <1>0, <2>1, ReplyCarries
  <2>5. Reply(r, "ack") => \A m : m.job # j => (InBroker(m) => InBroker(m)')
    BY <1>0, <1>00, <2>1, ReplyCarries
  <2>. HIDE DEF row, j
  <2>6. CASE jobs' = [jobs EXCEPT ![j] = row] /\ Reply(r, "ack")
    BY <1>0, <2>1, <2>2, <2>5, <2>6, RowSafe
  <2>7. CASE UNCHANGED jobs /\ Reply(r, "close")
    BY <2>1, <2>4, <2>7, QuietSafe
  <2> QED
    BY <2>3, <2>6, <2>7
<1>10. CASE Fail(r)
  <2>1. UNCHANGED <<publishing, ready, retry, storage>>
    BY <1>10 DEF Fail, brokerVars, boundVars
  <2>2. Reply(r, "close") => \A m : InBroker(m) => InBroker(m)'
    BY <1>0, <2>1, ReplyCarries
  <2>3. Reply(r, "ack") => \A m : m.job # j => (InBroker(m) => InBroker(m)')
    BY <1>0, <1>00, <2>1, ReplyCarries
  <2>4. CASE UNCHANGED <<jobs, outbox>> /\ Reply(r, "close")
    BY <2>1, <2>2, <2>4, QuietSafe
  <2>5. ASSUME NEW seen \in BOOLEAN, FailWhere(jobs[j], r.token, seen),
               NEW b \in BOOLEAN, FailAccepted(r, b), Reply(r, "ack")
        PROVE  LossInv'
    <3>. DEFINE row == FailSet(jobs[j], b)
    <3>1. row.dispatch = jobs[j].dispatch /\ jobs[j].dispatch \in Nat /\ row \in Row
      BY <1>0, AttemptRows, WrittenValues DEF FailSet, Row
    <3>2. CASE row.status = "queued"
      <4>. DEFINE new == DispatchSet(row)
      <4>1. new.dispatch = jobs[j].dispatch + 1
        BY <3>1 DEF DispatchSet, Row
      <4>2. /\ jobs' = [jobs EXCEPT ![j] = new]
            /\ outbox' = outbox \cup {Message(j, new.dispatch)}
        BY <2>5, <3>1, <3>2, <4>1 DEF FailAccepted
      <4>3. jobs[j].status = "running"
        <5>1. r.op # "begin" /\ r.token # 0
          BY <1>10 DEF Fail, TypeInv, RpcInv, GoodRequest
        <5> QED
          BY <2>5, <5>1 DEF FailWhere
      <4>4. Message(j, new.dispatch) \in Messages
        <5>1. jobs[j].attempts < MaxAttempts
          BY <1>0, <3>2 DEF FailSet, Row
        <5> QED
          BY <1>0, <4>1, <4>3, <5>1, NextGeneration DEF TypeInv
      <4>. HIDE DEF new, row, j
      <4> QED
        BY <1>0, <2>1, <2>3, <2>5, <4>1, <4>2, <4>4, QueuedRowSafe
    <3>3. CASE row.status # "queued"
      <4>1. jobs' = [jobs EXCEPT ![j] = row] /\ UNCHANGED outbox
        BY <2>5, <3>3 DEF FailAccepted
      <4>2. ~Pending(row)
        BY <1>0, <3>3 DEF FailSet, Row, Pending
      <4>. HIDE DEF row, j
      <4> QED
        BY <1>0, <2>1, <2>3, <2>5, <3>1, <4>1, <4>2, RowSafe
    <3> QED
      BY <3>2, <3>3
  <2>6. \A seen \in SeenLive(jobs[j]) : seen \in BOOLEAN
    BY DEF SeenLive
  <2>7. \/ UNCHANGED <<jobs, outbox>> /\ Reply(r, "close")
        \/ \E seen \in BOOLEAN, b \in BOOLEAN :
             FailWhere(jobs[j], r.token, seen) /\ FailAccepted(r, b) /\ Reply(r, "ack")
    BY <1>10, <2>6 DEF Fail
  <2> QED
    BY <2>4, <2>5, <2>7
<1> QED
  BY <1>1, <1>2, <1>3, <1>4, <1>6, <1>7, <1>7a, <1>8, <1>9, <1>10 DEF Handle

\* The passing of time.
LEMMA TimeSafe ==
  ASSUME TypeInv, LossInv, NEW j \in Jobs, LeaseLapses(j) \/ LeaseExpires(j)
  PROVE  LossInv'
<1>1. PICK phase : /\ jobs' = [jobs EXCEPT ![j].lease = phase]
                   /\ UNCHANGED <<outbox, publishing, ready, retry, slot, storage>>
  BY DEF LeaseLapses, LeaseExpires, brokerVars, boundVars
<1>. DEFINE row == [jobs[j] EXCEPT !.lease = phase]
<1>2. jobs[j] \in Row /\ jobs' = [jobs EXCEPT ![j] = row]
  BY <1>1 DEF TypeInv, JobsInv
<1>3. row.dispatch = jobs[j].dispatch /\ row.status = jobs[j].status
  BY <1>2 DEF Row
<1>4. \A m : InBroker(m) => InBroker(m)'
  BY <1>1 DEF InBroker
<1>. HIDE DEF row
<1> QED
  BY <1>1, <1>2, <1>3, <1>4, RowSafe DEF Pending

\* Reconciliation: what it adopts it queues, and what it leaves out either
\* was carried or is excused.
LEMMA ReconcileSafe ==
  ASSUME TypeInv, LossInv, Reconcile
  PROVE  LossInv'
<1>0. jobs \in [Jobs -> Row] /\ \A m \in outbox : m \in Messages /\ m.job \in Jobs
  BY DEF TypeInv, JobsInv, OutboxInv, Messages
<1>1. /\ UNCHANGED <<publishing, ready, retry, slot>> /\ reconciles < MaxReconciles
      /\ outbox' = outbox \cup {Message(j, jobs[j].dispatch + 1) : j \in Adopted}
      /\ storage' = IF storage = "lost" THEN "reconciled" ELSE storage
      /\ Adopted \subseteq Jobs
  BY DEF Reconcile, brokerVars, Adopted
<1>2. ASSUME NEW j \in Jobs
      PROVE  /\ j \in Adopted => jobs'[j] = DispatchSet(jobs[j])
             /\ j \notin Adopted => jobs'[j] = jobs[j]
             /\ jobs[j].dispatch \in Nat
             /\ DispatchSet(jobs[j]).dispatch = jobs[j].dispatch + 1
  BY <1>0 DEF Reconcile, DispatchSet, Row
<1>3. ASSUME NEW j \in Adopted
      PROVE  Safe(j)'
  <2>1. Pending(jobs[j]) /\ j \in Jobs
    BY DEF Adopted
  <2>2. Message(j, jobs[j].dispatch + 1) \in Messages
    BY <1>1, <2>1, NextGeneration DEF TypeInv, JobsInv
  <2> QED
    BY <1>1, <1>2, <2>1, <2>2, QueuedSafe
<1>4. ASSUME NEW j \in Jobs \ Adopted
      PROVE  Safe(j)'
  <2>1. Current(j)' = Current(j) /\ jobs'[j] = jobs[j]
    BY <1>2 DEF Current
  <2>2. Pending(jobs[j]) => jobs[j].status = "running"
    BY DEF Adopted, Pending, Live
  <2>3. InBroker(Current(j)) => InBroker(Current(j))'
    BY <1>1, <2>1 DEF InBroker
  <2>4. ToPublish(Current(j)) => ToPublish(Current(j))'
    BY <1>1, <2>1 DEF ToPublish
  <2>5. Pending(jobs[j]) /\ Excused(j) => Excused(j)'
    BY <1>1, <2>1, <2>2 DEF Excused
  <2> QED
    BY <2>1, <2>3, <2>4, <2>5 DEF LossInv, Safe
<1>5. Reached'
  <2>1. ASSUME NEW m \in outbox
        PROVE  m.gen <= jobs'[m.job].dispatch
    BY <1>0, <1>2 DEF LossInv, Reached, Messages, MaxGeneration
  <2>2. ASSUME NEW j \in Adopted
        PROVE  LET m == Message(j, jobs[j].dispatch + 1) IN
                 m.gen <= jobs'[m.job].dispatch
    BY <1>1, <1>2 DEF Message
  <2> QED
    BY <1>1, <2>1, <2>2 DEF Reached
<1> QED
  BY <1>1, <1>3, <1>4, <1>5 DEF LossInv

\* At the start nothing is pending and nothing is in the outbox.
LEMMA LossInvInit == Init => LossInv
BY DEF Init, LossInv, Safe, Reached, AbsentRow, Pending

\* Every step keeps the invariant.
LEMMA LossInvStep == TypeInv /\ LossInv /\ [Next]_vars => LossInv'
<1>. SUFFICES ASSUME TypeInv, LossInv, [Next]_vars PROVE LossInv'
  OBVIOUS
<1>1. CASE UNCHANGED vars
  <2>1. UNCHANGED <<jobs, outbox, publishing, ready, retry, slot, storage>>
    BY <1>1 DEF vars, brokerVars, boundVars
  <2>2. \A m : InBroker(m) => InBroker(m)'
    BY <2>1 DEF InBroker
  <2> QED
    BY <2>1, <2>2, QuietSafe
<1> QED
  BY <1>1, ClientSafe, BrokerSafe, SlotSafe, HandlerSafe, TimeSafe, ReconcileSafe
     DEF Next

\* No unfinished job is lost between the table, the outbox, the broker and the
\* consumers (JobStore.publish_next, broker.consume_slot): for any number of
\* jobs, slots, attempts, faults and crashes, some copy of a pending job's
\* current message remains while the broker keeps its storage.
THEOREM NothingLost == Spec => []NoLostJob
<1>1. Spec => [](TypeInv /\ LossInv)
  BY TypeInvInit, TypeInvStep, LossInvInit, LossInvStep, PTL DEF Spec
<1> QED
  BY <1>1, LossInvImplies, PTL

=============================================================================
