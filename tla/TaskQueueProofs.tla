-------------------------- MODULE TaskQueueProofs --------------------------
(***************************************************************************)
(* Proofs about the task queue, for every set of Pods, every bound, and    *)
(* every grace, timeout and slack: types, the audit trail, leases and      *)
(* exclusive execution; what becomes of a task; that the broker is the     *)
(* abstract queue of LeaseQueue; and that its counters say what its event  *)
(* log says.                                                               *)
(***************************************************************************)
EXTENDS TaskQueueStats, LoopProofs, TLAPS

(* The part of the state a consumer's claim gives it.                      *)
HasJob(c) ==
  \/ pc[c] = "claim_sent" /\ reply[c] = "task"
  \/ pc[c] \in {"running", "ack_sent"}

JobTyped == \A c \in Consumers : HasJob(c) => job[c].id \in TaskId

TypeInv == TypeOK /\ JobTyped

\* reap() keeps the types of the slice and of the event log.
LEMMA ReapType ==
  ASSUME BrokerTypeOK
  PROVE  Reaped \in [TaskId -> Task] /\ ReapedEvents \in [TaskId -> Seq(Event)]
<1>1. ASSUME NEW i \in TaskId
      PROVE  tasks[i] \in Task /\ events[i] \in Seq(Event)
  BY DEF BrokerTypeOK
<1>2. ASSUME NEW i \in TaskId, Expired(i)
      PROVE  [NewTask(tasks[i].dur) EXCEPT !.attempts = tasks[i].attempts] \in Task
  BY <1>1 DEF Task, Worker, NewTask
<1>3. ASSUME NEW i \in TaskId, Expired(i)
      PROVE  [kind |-> "expired", worker |-> tasks[i].worker,
              attempt |-> tasks[i].attempts] \in Event
  BY <1>1, <1>3 DEF Task, Event, Worker, Expired, Leased
<1>4. ASSUME NEW i \in TaskId, Expired(i)
      PROVE  Append(events[i], [kind |-> "expired", worker |-> tasks[i].worker,
                                attempt |-> tasks[i].attempts]) \in Seq(Event)
  BY <1>1, <1>3, <1>4
<1>5. Reaped \in [TaskId -> Task]
  BY <1>1, <1>2 DEF Reaped
<1>6. ReapedEvents \in [TaskId -> Seq(Event)]
  BY <1>1, <1>4 DEF ReapedEvents
<1>7. QED
  BY <1>5, <1>6

\* A granted task and its event are well typed.
LEMMA GrantType ==
  ASSUME BrokerTypeOK, NEW w \in Consumers, NEW i \in TaskId, Grant(w, i)
  PROVE  tasks' \in [TaskId -> Task] /\ events' \in [TaskId -> Seq(Event)]
<1>1. tasks[i] \in Task
  BY DEF BrokerTypeOK
<1>2. [worker |-> w, attempts |-> tasks[i].attempts + 1, dur |-> tasks[i].dur,
       lease |-> tasks[i].dur + Grace] \in Task
  BY <1>1, TimeAssumption DEF Task, Worker
<1>3. [kind |-> "claim", worker |-> w, attempt |-> tasks[i].attempts + 1] \in Event
  BY <1>1 DEF Task, Event
<1>4. Append(ReapedEvents[i], [kind |-> "claim", worker |-> w,
                               attempt |-> tasks[i].attempts + 1]) \in Seq(Event)
  BY <1>3, ReapType
<1>5. QED
  BY <1>2, <1>4, ReapType DEF Grant

\* An accepted ack keeps the types.
LEMMA AckType ==
  ASSUME BrokerTypeOK, NEW w \in Consumers, NEW i, NEW n \in Nat, AckDone(i, w, n)
  PROVE  /\ tasks' \in [TaskId -> Task] /\ done' \subseteq TaskId
         /\ events' \in [TaskId -> Seq(Event)]
<1>1. i \in TaskId
  BY BoundAssumption DEF AckDone, BrokerTypeOK, TaskId
<1>2. Reaped[i] \in Task
  BY <1>1, ReapType
<1>3. [Reaped[i] EXCEPT !.lease = 0] \in Task
  BY <1>2 DEF Task
<1>4. [kind |-> "ack", worker |-> w, attempt |-> n] \in Event
  BY DEF Event
<1>5. Append(ReapedEvents[i], [kind |-> "ack", worker |-> w, attempt |-> n]) \in Seq(Event)
  BY <1>1, <1>4, ReapType
<1>6. QED
  BY <1>1, <1>3, <1>5, ReapType DEF AckDone, BrokerTypeOK

\* A request that only reaps.
Reaping == Reap /\ UNCHANGED <<accepted, done, rejected>>

\* What one request to the broker does to its state.
Handler ==
  \/ Reaping
  \/ \E w \in Consumers, i \in TaskId : Grant(w, i)
  \/ \E i \in 0..MaxTasks, w \in Consumers, n \in Nat : AckDone(i, w, n)
  \/ \E i \in 0..MaxTasks, w \in Consumers : AckConflict(i, w)

\* The broker's variables keep their types through a handler.
LEMMA HandlerType ==
  ASSUME BrokerTypeOK, Handler
  PROVE  BrokerTypeOK'
<1>1. CASE Reaping
  BY <1>1, ReapType DEF Reaping, Reap, BrokerTypeOK
<1>2. ASSUME NEW w \in Consumers, NEW i \in TaskId, Grant(w, i)
      PROVE  BrokerTypeOK'
  <2>1. UNCHANGED <<accepted, done, rejected>>
    BY <1>2 DEF Grant
  <2>2. QED
    BY <1>2, <2>1, GrantType DEF BrokerTypeOK
<1>3. ASSUME NEW i \in 0..MaxTasks, NEW w \in Consumers, NEW n \in Nat, AckDone(i, w, n)
      PROVE  BrokerTypeOK'
  <2>1. UNCHANGED <<accepted, rejected>>
    BY <1>3 DEF AckDone
  <2>2. QED
    BY <1>3, <2>1, AckType DEF BrokerTypeOK
<1>4. ASSUME NEW i \in 0..MaxTasks, NEW w \in Consumers, AckConflict(i, w)
      PROVE  BrokerTypeOK'
  BY <1>4, ReapType, BoundAssumption DEF AckConflict, Reap, BrokerTypeOK, TaskId
<1>5. QED
  BY <1>1, <1>2, <1>3, <1>4 DEF Handler
\* Every request a consumer or the network brings to the broker is a handler.
LEMMA RequestIsHandler ==
  ASSUME TypeOK, NEW c \in Consumers,
         \/ ServeClaim(c) \/ ServeAck(c) \/ LateClaim(c) \/ Observe
         \/ \E m \in lateAcks : LateAck(m)
  PROVE  Handler
<1> USE DEF Handler, Reaping
<1>1. GrantNothing => Handler
  BY DEF GrantNothing
<1>2. ASSUME NEW i \in 0..MaxTasks, AckUnknown(i) PROVE Handler
  BY <1>2 DEF AckUnknown
<1>3. job[c].id \in 0..MaxTasks /\ job[c].attempt \in Nat
  BY DEF TypeOK, ConsumerTypeOK, Job
<1>4. CASE ServeClaim(c)
  BY <1>1, <1>4 DEF ServeClaim
<1>5. CASE ServeAck(c)
  BY <1>2, <1>3, <1>5 DEF ServeAck
<1>6. CASE LateClaim(c)
  BY <1>1, <1>6 DEF LateClaim
<1>7. CASE Observe
  BY <1>7 DEF Observe
<1>8. ASSUME NEW m \in lateAcks, LateAck(m) PROVE Handler
  <2>1. m.id \in 0..MaxTasks /\ m.worker \in Consumers /\ m.attempt \in Nat
    BY DEF TypeOK, NetTypeOK, AckReq
  <2>2. QED
    BY <1>2, <1>8, <2>1 DEF LateAck
<1>9. QED
  BY <1>4, <1>5, <1>6, <1>7, <1>8

\* Every step enqueues, runs one handler, lets time pass, restarts the broker,
\* or leaves the broker alone.
LEMMA StepKinds ==
  ASSUME TypeOK, [Next]_vars
  PROVE  \/ \E n \in TaskId, d \in Durations : Enqueue(n, d)
         \/ Handler \/ Tick \/ BrokerRestart
         \/ UNCHANGED brokerVars
<1>1. CASE Observe
  BY <1>1 DEF Observe, Handler, Reaping
<1>2. ASSUME NEW c \in Consumers, ServeClaim(c) \/ ServeAck(c) \/ LateClaim(c)
      PROVE  Handler
  BY <1>2, RequestIsHandler
<1>3. ASSUME NEW m \in lateAcks, LateAck(m) PROVE Handler
  <2>1. m.worker \in Consumers
    BY DEF TypeOK, NetTypeOK, AckReq
  <2>2. QED
    BY <1>3, <2>1, RequestIsHandler
<1>4. ASSUME NEW c \in Consumers,
             \/ BeginClaim(c) \/ Return(c) \/ RecvClaim(c) \/ WakeUp(c) \/ FinishRun(c)
             \/ RecvAck(c) \/ Drain(c) \/ Exit(c) \/ PostFails(c) \/ Sigterm(c) \/ Crash(c)
      PROVE  UNCHANGED brokerVars
  BY <1>4 DEF BeginClaim, Return, RecvClaim, WakeUp, FinishRun, RecvAck, Drain, Exit,
              PostFails, Sigterm, Crash
<1>5. CASE UNCHANGED vars
  BY <1>5 DEF vars
<1>6. QED
  BY <1>1, <1>2, <1>3, <1>4, <1>5 DEF Next, Step

\* Giving up on a call keeps the types of the network.
LEMMA AbandonType ==
  ASSUME TypeOK, NEW c \in Consumers, Abandon(c)
  PROVE  NetTypeOK'
<1>1. job[c] \in Job
  BY DEF TypeOK, ConsumerTypeOK
<1>2. [id |-> job[c].id, worker |-> c, attempt |-> job[c].attempt, epoch |-> job[c].epoch]
        \in AckReq
  BY <1>1 DEF Job, AckReq
<1>3. QED
  BY <1>2 DEF Abandon, TypeOK, NetTypeOK, netVars

LEMMA TypeInit == Init => TypeInv
<1> SUFFICES ASSUME Init PROVE TypeInv
  OBVIOUS
<1>1. BrokerTypeOK
  BY BoundAssumption DEF Init, BrokerTypeOK, NewTask, Task, Worker
<1>2. ConsumerTypeOK
  BY BoundAssumption DEF Init, ConsumerTypeOK, NoJob, Job
<1>3. QED
  BY <1>1, <1>2, BoundAssumption
  DEF Init, TypeInv, TypeOK, JobTyped, HasJob, NetTypeOK

LEMMA TypeStep == TypeInv /\ [Next]_vars => TypeInv'
<1> SUFFICES ASSUME TypeInv, [Next]_vars PROVE TypeInv'
  OBVIOUS
<1> USE DEF TypeInv
<1>1. ASSUME NEW n \in TaskId, NEW d \in Durations, Enqueue(n, d) PROVE TypeInv'
  <2>1. NewTask(d) \in Task
    BY TimeAssumption DEF NewTask, Task, Worker
  <2>2. BrokerTypeOK'
    BY <1>1, <2>1, BoundAssumption DEF Enqueue, TypeOK, BrokerTypeOK, TaskId
  <2>3. QED
    BY <1>1, <2>2 DEF Enqueue, TypeOK, ConsumerTypeOK, NetTypeOK, JobTyped, HasJob,
                      consumerVars, netVars, faultVars
<1>2. CASE Observe
  <2>1. BrokerTypeOK'
    BY <1>2, ReapType DEF Observe, Reap, TypeOK, BrokerTypeOK
  <2>2. QED
    BY <1>2, <2>1 DEF Observe, TypeOK, ConsumerTypeOK, NetTypeOK, JobTyped, HasJob,
                      consumerVars, netVars, faultVars
<1>3. CASE Tick
  <2>1. BrokerTypeOK'
    <3>1. ASSUME NEW i \in TaskId PROVE tasks[i] \in Task
      BY DEF TypeOK, BrokerTypeOK
    <3>2. ASSUME NEW i \in TaskId PROVE [tasks[i] EXCEPT !.lease = @ - 1] \in Task
      BY <3>1 DEF Task
    <3>3. tasks' \in [TaskId -> Task]
      BY <1>3, <3>1, <3>2 DEF Tick
    <3>4. QED
      BY <1>3, <3>3 DEF Tick, TypeOK, BrokerTypeOK
  <2>2. ConsumerTypeOK'
    BY <1>3 DEF Tick, TypeOK, ConsumerTypeOK
  <2>3. QED
    BY <1>3, <2>1, <2>2 DEF Tick, TypeOK, NetTypeOK, JobTyped, HasJob, netVars, faultVars
<1>4. CASE BrokerRestart
  <2>1. BrokerTypeOK'
    BY <1>4, BoundAssumption DEF BrokerRestart, BrokerTypeOK, NewTask, Task, Worker
  <2>2. NoJob \in Job
    BY BoundAssumption DEF NoJob, Job
  <2>3. ConsumerTypeOK'
    BY <1>4, <2>2 DEF BrokerRestart, TypeOK, ConsumerTypeOK
  <2>4. JobTyped'
    BY <1>4 DEF BrokerRestart, TypeOK, ConsumerTypeOK, JobTyped, HasJob, Calling
  <2>5. QED
    BY <1>4, <2>1, <2>3, <2>4, BoundAssumption DEF BrokerRestart, TypeOK, NetTypeOK
<1>5. ASSUME NEW c \in Consumers, ServeClaim(c) PROVE TypeInv'
  <2>1. BrokerTypeOK'
    BY <1>5, RequestIsHandler, HandlerType DEF TypeOK
  <2>2. ASSUME NEW i \in TaskId
        PROVE  [id |-> i, attempt |-> tasks[i].attempts + 1, dur |-> tasks[i].dur,
                epoch |-> restarts] \in Job
    BY BoundAssumption DEF TypeOK, BrokerTypeOK, Task, Job, TaskId
  <2>3. ConsumerTypeOK' /\ JobTyped'
    <3>1. CASE reply' = [reply EXCEPT ![c] = "empty"] /\ UNCHANGED job
      BY <1>5, <3>1 DEF ServeClaim, TypeOK, ConsumerTypeOK, JobTyped, HasJob
    <3>2. ASSUME NEW i \in TaskId, reply' = [reply EXCEPT ![c] = "task"],
                 job' = [job EXCEPT ![c] = [id |-> i, attempt |-> tasks[i].attempts + 1,
                                            dur |-> tasks[i].dur, epoch |-> restarts]]
          PROVE  ConsumerTypeOK' /\ JobTyped'
      <4>1. ConsumerTypeOK'
        BY <1>5, <2>2, <3>2 DEF ServeClaim, TypeOK, ConsumerTypeOK
      <4>2. JobTyped'
        BY <1>5, <3>2 DEF ServeClaim, TypeOK, ConsumerTypeOK, JobTyped, HasJob
      <4>3. QED
        BY <4>1, <4>2
    <3>3. QED
      BY <1>5, <3>1, <3>2 DEF ServeClaim, Answer
  <2>4. QED
    BY <1>5, <2>1, <2>3 DEF ServeClaim, TypeOK, NetTypeOK, netVars, faultVars
<1>6. ASSUME NEW c \in Consumers, ServeAck(c) PROVE TypeInv'
  <2>1. BrokerTypeOK'
    BY <1>6, RequestIsHandler, HandlerType DEF TypeOK
  <2>2. ConsumerTypeOK' /\ JobTyped'
    BY <1>6 DEF ServeAck, Answer, TypeOK, ConsumerTypeOK, JobTyped, HasJob
  <2>3. QED
    BY <1>6, <2>1, <2>2 DEF ServeAck, TypeOK, NetTypeOK, netVars, faultVars
<1>7. ASSUME NEW c \in Consumers, LateClaim(c) PROVE TypeInv'
  <2>1. BrokerTypeOK'
    BY <1>7, RequestIsHandler, HandlerType DEF TypeOK
  <2>2. QED
    BY <1>7, <2>1 DEF LateClaim, TypeOK, ConsumerTypeOK, NetTypeOK, JobTyped, HasJob,
                      consumerVars, faultVars
<1>8. ASSUME NEW m \in lateAcks, LateAck(m) PROVE TypeInv'
  <2>1. m.worker \in Consumers
    BY DEF TypeOK, NetTypeOK, AckReq
  <2>2. BrokerTypeOK'
    BY <1>8, <2>1, RequestIsHandler, HandlerType DEF TypeOK
  <2>3. QED
    BY <1>8, <2>2 DEF LateAck, TypeOK, ConsumerTypeOK, NetTypeOK, JobTyped, HasJob,
                      consumerVars, faultVars
<1>9. ASSUME NEW c \in Consumers, BeginClaim(c) \/ Return(c) \/ WakeUp(c) PROVE TypeInv'
  <2>1. ConsumerTypeOK' /\ JobTyped'
    BY <1>9 DEF BeginClaim, Return, WakeUp, Post, Goto, Answer,
                TypeOK, ConsumerTypeOK, JobTyped, HasJob
  <2>2. QED
    BY <1>9, <2>1 DEF BeginClaim, Return, WakeUp, TypeOK, BrokerTypeOK, NetTypeOK,
                      brokerVars, netVars, faultVars
<1>10. ASSUME NEW c \in Consumers, RecvClaim(c) PROVE TypeInv'
  <2>1. job[c].dur \in Nat
    BY DEF TypeOK, ConsumerTypeOK, Job
  <2>2. ConsumerTypeOK' /\ JobTyped'
    BY <1>10, <2>1 DEF RecvClaim, Hang, Goto, Answer, TypeOK, ConsumerTypeOK, JobTyped, HasJob
  <2>3. QED
    BY <1>10, <2>2 DEF RecvClaim, TypeOK, BrokerTypeOK, NetTypeOK,
                       brokerVars, netVars, faultVars
<1>11. ASSUME NEW c \in Consumers, FinishRun(c) PROVE TypeInv'
  <2>1. job[c].id \in TaskId
    BY <1>11 DEF FinishRun, JobTyped, HasJob
  <2>2. ConsumerTypeOK' /\ JobTyped'
    BY <1>11 DEF FinishRun, Post, Goto, Answer, TypeOK, ConsumerTypeOK, JobTyped, HasJob
  <2>3. QED
    BY <1>11, <2>1, <2>2 DEF FinishRun, TypeOK, BrokerTypeOK, NetTypeOK,
                             brokerVars, netVars, faultVars
<1>12. NoJob \in Job
  BY BoundAssumption DEF NoJob, Job
<1>13. ASSUME NEW c \in Consumers, RecvAck(c) PROVE TypeInv'
  <2>1. ConsumerTypeOK' /\ JobTyped'
    BY <1>12, <1>13 DEF RecvAck, Hang, Goto, Answer, TypeOK, ConsumerTypeOK, JobTyped, HasJob
  <2>2. QED
    BY <1>13, <2>1 DEF RecvAck, TypeOK, BrokerTypeOK, NetTypeOK,
                       brokerVars, netVars, faultVars
<1>14. ASSUME NEW c \in Consumers, PostFails(c) PROVE TypeInv'
  <2>1. ConsumerTypeOK' /\ JobTyped'
    BY <1>12, <1>14 DEF PostFails, Hang, Goto, Answer, TypeOK, ConsumerTypeOK, JobTyped, HasJob
  <2>2. NetTypeOK'
    BY <1>14, AbandonType DEF PostFails
  <2>3. QED
    BY <1>14, <2>1, <2>2, BoundAssumption DEF PostFails, TypeOK, BrokerTypeOK, brokerVars
<1>15. ASSUME NEW c \in Consumers, Crash(c) PROVE TypeInv'
  <2>1. ConsumerTypeOK' /\ JobTyped'
    BY <1>12, <1>15 DEF Crash, Hang, Goto, Answer, TypeOK, ConsumerTypeOK, JobTyped, HasJob
  <2>2. NetTypeOK'
    BY <1>15, AbandonType DEF Crash
  <2>3. QED
    BY <1>15, <2>1, <2>2, BoundAssumption DEF Crash, TypeOK, BrokerTypeOK, brokerVars
<1>16. ASSUME NEW c \in Consumers, Sigterm(c) \/ Drain(c) \/ Exit(c) PROVE TypeInv'
  <2>1. ConsumerTypeOK' /\ JobTyped'
    BY <1>16 DEF Sigterm, Drain, Exit, Goto, TypeOK, ConsumerTypeOK, JobTyped, HasJob
  <2>2. QED
    BY <1>16, <2>1 DEF Sigterm, Drain, Exit, TypeOK, BrokerTypeOK, NetTypeOK,
                       brokerVars, netVars, faultVars
<1>17. CASE UNCHANGED vars
  BY <1>17 DEF vars, TypeOK, BrokerTypeOK, ConsumerTypeOK, NetTypeOK, JobTyped, HasJob,
               brokerVars, consumerVars, netVars, faultVars
<1>18. QED
  BY <1>1, <1>2, <1>3, <1>4, <1>5, <1>6, <1>7, <1>8, <1>9, <1>10, <1>11, <1>13, <1>14,
     <1>15, <1>16, <1>17 DEF Next, Step

\* Types are kept by every behaviour of the broker and its consumers.
THEOREM TypeCorrect == Spec => []TypeOK
<1>1. TypeInv => TypeOK
  BY DEF TypeInv
<1>2. QED
  BY <1>1, TypeInit, TypeStep, PTL DEF Spec

----------------------------------------------------------------------------
(* The audit trail.                                                        *)

\* The elements of an event log are events.
LEMMA EventAt ==
  ASSUME NEW log \in Seq(Event), NEW k \in 1..Len(log)
  PROVE  /\ log[k].kind \in {"claim", "expired", "ack"}
         /\ log[k].worker \in Consumers /\ log[k].attempt \in Nat
<1>1. log[k] \in Event
  OBVIOUS
<1>2. QED
  BY <1>1 DEF Event

\* An expiry extends the log of a leased task.
LEMMA TrailExpire ==
  ASSUME NEW w \in Consumers, NEW n \in Nat, NEW log \in Seq(Event),
         Trail("open", w, n, log)
  PROVE  Trail("open", NoWorker, n,
               Append(log, [kind |-> "expired", worker |-> w, attempt |-> n]))
<1> DEFINE e == [kind |-> "expired", worker |-> w, attempt |-> n]
           new == Append(log, e)
<1>1. log # <<>> /\ Len(log) \in Nat \ {0}
  BY ConsumerAssumption DEF Trail, AgreesWithLog
<1>2. /\ log[Len(log)].kind = "claim" /\ log[Len(log)].worker = w
      /\ log[Len(log)].attempt = n
  <2>1. log[Len(log)].kind \in {"claim", "expired", "ack"}
    BY <1>1, EventAt
  <2>2. QED
    BY <1>1, <2>1, ConsumerAssumption DEF Trail, AgreesWithLog
<1>3. /\ Len(new) = Len(log) + 1 /\ new[Len(new)] = e
      /\ \A k \in 1..Len(log) : new[k] = log[k]
  BY <1>1
<1>4. Follows(log[Len(log)], e)
  BY <1>2 DEF Follows
<1>5. \A k \in 2..Len(new) : Follows(new[k - 1], new[k])
  BY <1>1, <1>3, <1>4 DEF Trail
<1>6. AgreesWithLog("open", NoWorker, n, new)
  BY <1>1, <1>3 DEF AgreesWithLog
<1>7. new[1].kind = "claim" /\ new[1].attempt = 1
  BY <1>1, <1>3 DEF Trail
<1>8. QED
  BY <1>5, <1>6, <1>7 DEF Trail

\* A claim extends the log of a free task.
LEMMA TrailClaim ==
  ASSUME NEW w \in Consumers, NEW n \in Nat, NEW log \in Seq(Event),
         Trail("open", NoWorker, n, log)
  PROVE  Trail("open", w, n + 1,
               Append(log, [kind |-> "claim", worker |-> w, attempt |-> n + 1]))
<1> DEFINE e == [kind |-> "claim", worker |-> w, attempt |-> n + 1]
           new == Append(log, e)
<1>1. /\ Len(new) = Len(log) + 1 /\ new[Len(new)] = e /\ Len(log) \in Nat
      /\ \A k \in 1..Len(log) : new[k] = log[k]
  OBVIOUS
<1>2. AgreesWithLog("open", w, n + 1, new)
  BY <1>1 DEF AgreesWithLog
<1>3. CASE log = <<>>
  <2>1. n = 0 /\ Len(log) = 0
    BY <1>3 DEF Trail, AgreesWithLog
  <2>2. new[1] = e /\ Len(new) = 1
    BY <1>1, <2>1
  <2>3. \A k \in 2..Len(new) : Follows(new[k - 1], new[k])
    BY <2>2
  <2>4. new[1].kind = "claim" /\ new[1].attempt = 1
    BY <2>1, <2>2
  <2>5. QED
    BY <1>2, <2>3, <2>4 DEF Trail
<1>4. CASE log # <<>>
  <2>1. log[Len(log)].kind = "expired" /\ log[Len(log)].attempt = n /\ Len(log) > 0
    <3>1. Len(log) \in Nat \ {0}
      BY <1>4
    <3>2. /\ log[Len(log)].kind \in {"claim", "expired", "ack"}
          /\ log[Len(log)].worker \in Consumers
      BY <3>1, EventAt
    <3>3. QED
      BY <1>4, <3>1, <3>2, ConsumerAssumption DEF Trail, AgreesWithLog
  <2>2. Follows(log[Len(log)], e)
    BY <2>1 DEF Follows
  <2>3. \A k \in 2..Len(new) : Follows(new[k - 1], new[k])
    BY <1>1, <2>1, <2>2 DEF Trail
  <2>4. new[1].kind = "claim" /\ new[1].attempt = 1
    BY <1>1, <1>4, <2>1 DEF Trail
  <2>5. QED
    BY <1>2, <2>3, <2>4 DEF Trail
<1>5. QED
  BY <1>3, <1>4

\* The ack of its worker closes the log of a leased task.
LEMMA TrailAck ==
  ASSUME NEW w \in Consumers, NEW n \in Nat, NEW m \in Nat, NEW log \in Seq(Event),
         Trail("open", w, n, log)
  PROVE  Trail("done", w, n, Append(log, [kind |-> "ack", worker |-> w, attempt |-> m]))
<1> DEFINE e == [kind |-> "ack", worker |-> w, attempt |-> m]
           new == Append(log, e)
<1>1. log # <<>> /\ Len(log) \in Nat \ {0}
  BY ConsumerAssumption DEF Trail, AgreesWithLog
<1>2. log[Len(log)].kind = "claim" /\ log[Len(log)].worker = w
  <2>1. log[Len(log)].kind \in {"claim", "expired", "ack"}
    BY <1>1, EventAt
  <2>2. QED
    BY <1>1, <2>1, ConsumerAssumption DEF Trail, AgreesWithLog
<1>3. /\ Len(new) = Len(log) + 1 /\ new[Len(new)] = e
      /\ \A k \in 1..Len(log) : new[k] = log[k]
  BY <1>1
<1>4. Follows(log[Len(log)], e)
  BY <1>2 DEF Follows
<1>5. \A k \in 2..Len(new) : Follows(new[k - 1], new[k])
  BY <1>1, <1>3, <1>4 DEF Trail
<1>6. AgreesWithLog("done", w, n, new)
  <2>1. new # <<>>
    BY <1>1, <1>3
  <2>2. QED
    BY <1>3, <2>1 DEF AgreesWithLog
<1>7. new[1].kind = "claim" /\ new[1].attempt = 1
  BY <1>1, <1>3 DEF Trail
<1>8. QED
  BY <1>5, <1>6, <1>7 DEF Trail

\* Tasks that /enqueue has not reached yet have no events.
Fresh == \A i \in TaskId : i > accepted => events[i] = <<>>

AuditInv == AuditTrail /\ Fresh

LEMMA AuditInit == Init => AuditInv
BY DEF Init, AuditInv, AuditTrail, Fresh, Trail, AgreesWithLog, Status, NewTask

\* Beyond the end of the slice nothing is done and nothing is leased.
LEMMA BeyondTheEnd ==
  ASSUME AuditInv, NEW i \in TaskId, i > accepted
  PROVE  i \notin done /\ tasks[i].worker = NoWorker
<1>1. events[i] = <<>>
  BY DEF AuditInv, Fresh
<1>2. QED
  BY <1>1 DEF AuditInv, AuditTrail, Trail, AgreesWithLog, Status

\* After a reap the trail of every task is still sound.
LEMMA ReapTrail ==
  ASSUME BrokerTypeOK, AuditInv, NEW i \in TaskId
  PROVE  /\ Trail(Status(i), Reaped[i].worker, Reaped[i].attempts, ReapedEvents[i])
         /\ Reaped[i].attempts = tasks[i].attempts
         /\ i > accepted => ReapedEvents[i] = <<>>
         /\ i \in done \/ Reaped[i].worker = NoWorker => ReapedEvents[i] \in Seq(Event)
<1>1. tasks[i] \in Task /\ events[i] \in Seq(Event)
  BY DEF BrokerTypeOK
<1>2. CASE ~Expired(i)
  BY <1>1, <1>2 DEF Reaped, ReapedEvents, AuditInv, AuditTrail, Fresh
<1>3. CASE Expired(i)
  <2>1. /\ Reaped[i].worker = NoWorker /\ Reaped[i].attempts = tasks[i].attempts
        /\ ReapedEvents[i] = Append(events[i], [kind |-> "expired",
                                worker |-> tasks[i].worker, attempt |-> tasks[i].attempts])
    BY <1>3 DEF Reaped, ReapedEvents, NewTask
  <2>2. i \notin done /\ tasks[i].worker \in Consumers /\ tasks[i].attempts \in Nat
    BY <1>1, <1>3 DEF Expired, Leased, Task, Worker
  <2>3. Trail("open", tasks[i].worker, tasks[i].attempts, events[i])
    BY <2>2 DEF AuditInv, AuditTrail, Status
  <2>4. Trail("open", NoWorker, tasks[i].attempts, ReapedEvents[i])
    BY <1>1, <2>1, <2>2, <2>3, TrailExpire
  <2>5. events[i] # <<>>
    BY <2>2, <2>3, ConsumerAssumption DEF Trail, AgreesWithLog
  <2>6. QED
    BY <2>1, <2>2, <2>4, <2>5, ReapType DEF AuditInv, Fresh, Status
<1>4. QED
  BY <1>2, <1>3

\* Every handler of the broker keeps the audit sound.
LEMMA HandlerAudit ==
  ASSUME BrokerTypeOK, AuditInv, Handler
  PROVE  AuditInv'
<1>1. ASSUME Reap, UNCHANGED <<accepted, done>>
      PROVE  AuditInv'
  <2>1. ASSUME NEW i \in TaskId
        PROVE  /\ Trail(Status(i)', tasks'[i].worker, tasks'[i].attempts, events'[i])
               /\ i > accepted' => events'[i] = <<>>
    BY <1>1, ReapTrail DEF Reap, Status
  <2>2. QED
    BY <2>1 DEF AuditInv, AuditTrail, Fresh
<1>2. ASSUME NEW w \in Consumers, NEW j \in TaskId, Grant(w, j)
      PROVE  AuditInv'
  <2>1. j \notin done /\ Reaped[j].worker = NoWorker /\ ~(j > accepted)
    BY <1>2, BoundAssumption DEF Grant, FirstFree, Free, BrokerTypeOK, TaskId
  <2>2. tasks[j].attempts \in Nat /\ ReapedEvents[j] \in Seq(Event)
    BY ReapType DEF BrokerTypeOK, Task
  <2>3. Trail("open", w, tasks[j].attempts + 1,
              Append(ReapedEvents[j], [kind |-> "claim", worker |-> w,
                                       attempt |-> tasks[j].attempts + 1]))
    BY <2>1, <2>2, ReapTrail, TrailClaim DEF Status
  <2>4. ASSUME NEW i \in TaskId
        PROVE  /\ Trail(Status(i)', tasks'[i].worker, tasks'[i].attempts, events'[i])
               /\ i > accepted' => events'[i] = <<>>
    <3>1. CASE i = j
      <4>1. /\ tasks'[j].worker = w /\ tasks'[j].attempts = tasks[j].attempts + 1
            /\ events'[j] = Append(ReapedEvents[j], [kind |-> "claim", worker |-> w,
                                                     attempt |-> tasks[j].attempts + 1])
            /\ done' = done /\ accepted' = accepted
        BY <1>2, ReapType DEF Grant
      <4>2. QED
        BY <2>1, <2>3, <3>1, <4>1 DEF Status
    <3>2. CASE i # j
      BY <1>2, <3>2, ReapTrail, ReapType DEF Grant, Status
    <3>3. QED
      BY <3>1, <3>2
  <2>5. QED
    BY <2>4 DEF AuditInv, AuditTrail, Fresh
<1>3. ASSUME NEW j \in 0..MaxTasks, NEW w \in Consumers, NEW n \in Nat, AckDone(j, w, n)
      PROVE  AuditInv'
  <2>1. j \in TaskId /\ j \notin done /\ Reaped[j].worker = w /\ ~(j > accepted)
    BY <1>3, BoundAssumption DEF AckDone, MayAck, BrokerTypeOK, TaskId
  <2>2. tasks[j].attempts \in Nat /\ ReapedEvents[j] \in Seq(Event)
    BY <2>1, ReapType DEF BrokerTypeOK, Task
  <2>3. Trail("done", w, tasks[j].attempts,
              Append(ReapedEvents[j], [kind |-> "ack", worker |-> w, attempt |-> n]))
    BY <2>1, <2>2, ReapTrail, TrailAck DEF Status
  <2>4. ASSUME NEW i \in TaskId
        PROVE  /\ Trail(Status(i)', tasks'[i].worker, tasks'[i].attempts, events'[i])
               /\ i > accepted' => events'[i] = <<>>
    <3>1. CASE i = j
      <4>1. Reaped[j] \in Task
        BY <2>1, ReapType
      <4>2. /\ tasks'[j].worker = w /\ tasks'[j].attempts = tasks[j].attempts
            /\ events'[j] = Append(ReapedEvents[j],
                                   [kind |-> "ack", worker |-> w, attempt |-> n])
            /\ j \in done' /\ accepted' = accepted
        BY <1>3, <2>1, <4>1, ReapType, ReapTrail DEF AckDone, Task
      <4>3. QED
        BY <2>1, <2>3, <3>1, <4>2 DEF Status
    <3>2. CASE i # j
      <4>1. /\ tasks'[i] = Reaped[i] /\ events'[i] = ReapedEvents[i]
            /\ Status(i)' = Status(i) /\ accepted' = accepted
        BY <1>3, <3>2, ReapType DEF AckDone, Status
      <4>2. QED
        BY <4>1, ReapTrail
    <3>3. QED
      BY <3>1, <3>2
  <2>5. QED
    BY <2>4 DEF AuditInv, AuditTrail, Fresh
<1>4. QED
  BY <1>1, <1>2, <1>3 DEF Handler, Reaping, AckConflict

LEMMA AuditStep == TypeInv /\ AuditInv /\ [Next]_vars => AuditInv'
<1> SUFFICES ASSUME TypeOK, AuditInv, [Next]_vars PROVE AuditInv'
  BY DEF TypeInv
<1>1. ASSUME NEW n \in TaskId, NEW d \in Durations, Enqueue(n, d) PROVE AuditInv'
  <2>1. ASSUME NEW i \in TaskId
        PROVE  /\ Trail(Status(i)', tasks'[i].worker, tasks'[i].attempts, events'[i])
               /\ i > accepted' => events'[i] = <<>>
    <3>1. events'[i] = events[i] /\ Status(i)' = Status(i) /\ accepted' >= accepted
      BY <1>1 DEF Enqueue, Status, TypeOK, BrokerTypeOK, TaskId
    <3>2. i > accepted' => events'[i] = <<>>
      BY <1>1, <3>1, BoundAssumption DEF AuditInv, Fresh, Enqueue, TypeOK, BrokerTypeOK, TaskId
    <3>3. CASE i \in (accepted + 1)..(accepted + n)
      <4>1. tasks'[i].worker = NoWorker /\ tasks'[i].attempts = 0
        BY <1>1, <3>3 DEF Enqueue, NewTask
      <4>2. events[i] = <<>>
        BY <3>3, BoundAssumption DEF AuditInv, Fresh, TypeOK, BrokerTypeOK, TaskId
      <4>3. tasks[i].worker = NoWorker /\ tasks[i].attempts = 0
        BY <4>2 DEF AuditInv, AuditTrail, Trail, AgreesWithLog
      <4>4. QED
        BY <3>1, <3>2, <4>1, <4>3 DEF AuditInv, AuditTrail
    <3>4. CASE i \notin (accepted + 1)..(accepted + n)
      BY <1>1, <3>1, <3>2, <3>4 DEF Enqueue, AuditInv, AuditTrail
    <3>5. QED
      BY <3>3, <3>4
  <2>2. QED
    BY <2>1 DEF AuditInv, AuditTrail, Fresh
<1>2. CASE Handler
  BY <1>2, HandlerAudit DEF TypeOK
<1>3. CASE Tick
  <2>1. ASSUME NEW i \in TaskId
        PROVE  /\ tasks'[i].worker = tasks[i].worker /\ tasks'[i].attempts = tasks[i].attempts
               /\ Status(i)' = Status(i) /\ events'[i] = events[i]
    <3>1. tasks[i] \in Task
      BY DEF TypeOK, BrokerTypeOK
    <3>2. QED
      BY <1>3, <3>1 DEF Tick, Status, Task
  <2>2. QED
    BY <1>3, <2>1 DEF Tick, AuditInv, AuditTrail, Fresh
<1>4. CASE BrokerRestart
  BY <1>4 DEF BrokerRestart, AuditInv, AuditTrail, Fresh, Trail, AgreesWithLog, Status, NewTask
<1>5. CASE UNCHANGED brokerVars
  BY <1>5 DEF brokerVars, AuditInv, AuditTrail, Fresh, Status
<1>6. QED
  BY <1>1, <1>2, <1>3, <1>4, <1>5, StepKinds

\* The audit that /stats serves is sound in every reachable state.
THEOREM AuditCorrect == Spec => []AuditTrail
<1>1. AuditInv => AuditTrail
  BY DEF AuditInv
<1>2. QED
  BY <1>1, AuditInit, TypeInit, TypeStep, AuditStep, PTL DEF Spec

----------------------------------------------------------------------------
(* Leases of consumers that work in time.                                  *)

\* No timer is overdue, and no job comes from a broker of the future.
Timers ==
  \A c \in Consumers :
    /\ Calling(c) => age[c] <= Timeout
    /\ pc[c] = "running" => run[c] >= -Slack
    /\ job[c].epoch <= restarts

\* How much of the lease is left at least, by what the consumer is doing.
LeaseLeft(c) ==
  IF pc[c] = "claim_sent" THEN job[c].dur + Grace - age[c]
  ELSE IF pc[c] = "running" THEN run[c] + Grace - Timeout
  ELSE Grace - Timeout - Slack - age[c]

\* The broker still has the consumer's job under its name.
Held(c) ==
  /\ job[c].id \in 1..accepted
  /\ tasks[job[c].id].worker = c
  /\ job[c].id \notin done => tasks[job[c].id].lease >= LeaseLeft(c)

LeaseInv == GraceSuffices => \A c \in Consumers : Working(c) => Held(c)

\* A lease that has not run out is neither reaped nor given away.
LEMMA HandlerKeepsLease ==
  ASSUME BrokerTypeOK, Handler, NEW i \in 1..accepted,
         tasks[i].worker \in Consumers, i \in done \/ tasks[i].lease >= 0
  PROVE  /\ tasks'[i].worker = tasks[i].worker /\ accepted' = accepted
         /\ i \notin done' => i \notin done /\ tasks'[i].lease = tasks[i].lease
<1>1. i \in TaskId /\ tasks[i] \in Task
  BY BoundAssumption DEF BrokerTypeOK, TaskId
<1>2. ~Expired(i)
  BY <1>1 DEF Expired, Leased, Task
<1>3. Reaped[i] = tasks[i]
  BY <1>1, <1>2 DEF Reaped
<1>4. ASSUME Reap, UNCHANGED <<accepted, done>>
      PROVE  /\ tasks'[i].worker = tasks[i].worker /\ accepted' = accepted
             /\ i \notin done' => i \notin done /\ tasks'[i].lease = tasks[i].lease
  BY <1>3, <1>4 DEF Reap
<1>5. ASSUME NEW w \in Consumers, NEW j \in TaskId, Grant(w, j)
      PROVE  /\ tasks'[i].worker = tasks[i].worker /\ accepted' = accepted
             /\ i \notin done' => i \notin done /\ tasks'[i].lease = tasks[i].lease
  <2>1. i \in done \/ i # j
    BY <1>3, <1>5, ConsumerAssumption DEF Grant, FirstFree, Free
  <2>2. j \notin done
    BY <1>5 DEF Grant, FirstFree, Free
  <2>3. QED
    BY <1>1, <1>3, <1>5, <2>1, <2>2, ReapType DEF Grant
<1>6. ASSUME NEW j \in 0..MaxTasks, NEW w \in Consumers, NEW n \in Nat, AckDone(j, w, n)
      PROVE  /\ tasks'[i].worker = tasks[i].worker /\ accepted' = accepted
             /\ i \notin done' => i \notin done /\ tasks'[i].lease = tasks[i].lease
  <2>1. CASE i = j
    BY <1>1, <1>3, <1>6, <2>1, ReapType DEF AckDone, Task
  <2>2. CASE i # j
    BY <1>1, <1>3, <1>6, <2>2, ReapType DEF AckDone
  <2>3. QED
    BY <2>1, <2>2
<1>7. QED
  BY <1>4, <1>5, <1>6 DEF Handler, Reaping, AckConflict

LEMMA TimersStep == TypeInv /\ Timers /\ [Next]_vars => Timers'
<1> SUFFICES ASSUME TypeOK, Timers, [Next]_vars PROVE Timers'
  BY DEF TypeInv
<1> USE BoundAssumption, TimeAssumption DEF Timers, TypeOK, ConsumerTypeOK, Job, Calling
<1>1. CASE Tick
  BY <1>1 DEF Tick, faultVars
<1>2. CASE BrokerRestart
  BY <1>2 DEF BrokerRestart, NoJob
<1>3. ASSUME NEW c \in Consumers, ServeClaim(c) PROVE Timers'
  BY <1>3 DEF ServeClaim, faultVars
<1>4. ASSUME NEW c \in Consumers, ServeAck(c) \/ LateClaim(c) PROVE Timers'
  BY <1>4 DEF ServeAck, LateClaim, consumerVars, faultVars
<1>5. ASSUME NEW c \in Consumers,
             BeginClaim(c) \/ Return(c) \/ WakeUp(c) \/ Drain(c) \/ Exit(c) \/ Sigterm(c)
      PROVE  Timers'
  BY <1>5 DEF BeginClaim, Return, WakeUp, Drain, Exit, Sigterm, Post, Goto, faultVars
<1>6. ASSUME NEW c \in Consumers, RecvClaim(c) \/ FinishRun(c) PROVE Timers'
  BY <1>6 DEF RecvClaim, FinishRun, Hang, Post, Goto, faultVars
<1>7. ASSUME NEW c \in Consumers, RecvAck(c) PROVE Timers'
  BY <1>7 DEF RecvAck, Hang, Goto, NoJob, faultVars
<1>8. ASSUME NEW c \in Consumers, PostFails(c) \/ Crash(c) PROVE Timers'
  BY <1>8 DEF PostFails, Crash, Hang, Goto, NoJob
<1>9. ASSUME NEW n \in TaskId, NEW d \in Durations, Enqueue(n, d) PROVE Timers'
  BY <1>9 DEF Enqueue, consumerVars, faultVars
<1>10. CASE Observe \/ UNCHANGED vars
  BY <1>10 DEF Observe, vars, consumerVars, faultVars
<1>11. ASSUME NEW m \in lateAcks, LateAck(m) PROVE Timers'
  BY <1>11 DEF LateAck, consumerVars, faultVars
<1>12. QED
  BY <1>1, <1>2, <1>3, <1>4, <1>5, <1>6, <1>7, <1>8, <1>9, <1>10, <1>11 DEF Next, Step

\* While a consumer works in time its lease has time left.
LEMMA LeaseLeftNonNegative ==
  ASSUME TypeOK, Timers, GraceSuffices, NEW c \in Consumers, Working(c)
  PROVE  LeaseLeft(c) >= 0 /\ LeaseLeft(c) \in Int
BY TimeAssumption
DEF TypeOK, ConsumerTypeOK, Job, Timers, GraceSuffices, Working, LeaseLeft, Calling

\* A consumer that a handler does not concern keeps what it holds.
LEMMA HandlerKeepsHeld ==
  ASSUME TypeOK, Timers, GraceSuffices, Handler, NEW d \in Consumers,
         Working(d) => Held(d),
         pc'[d] = pc[d], job'[d] = job[d], run'[d] = run[d], age'[d] = age[d],
         reply'[d] = reply[d], restarts' = restarts
  PROVE  Working(d)' => Held(d)'
<1> SUFFICES ASSUME Working(d)' PROVE Held(d)'
  OBVIOUS
<1>1. Working(d) /\ Held(d)
  BY DEF Working
<1>2. LeaseLeft(d) >= 0 /\ LeaseLeft(d)' = LeaseLeft(d) /\ LeaseLeft(d) \in Int
  BY <1>1, LeaseLeftNonNegative DEF LeaseLeft
<1> DEFINE i == job[d].id
<1>3. i \in 1..accepted /\ tasks[i].worker \in Consumers
  BY <1>1 DEF Held
<1>4. tasks[i].lease \in Int
  BY <1>3, BoundAssumption DEF TypeOK, BrokerTypeOK, Task, TaskId
<1>5. i \in done \/ tasks[i].lease >= 0
  BY <1>1, <1>2, <1>4 DEF Held
<1>6. /\ tasks'[i].worker = tasks[i].worker /\ accepted' = accepted
      /\ i \notin done' => i \notin done /\ tasks'[i].lease = tasks[i].lease
  BY <1>3, <1>5, HandlerKeepsLease DEF TypeOK
<1>7. QED
  BY <1>1, <1>2, <1>6 DEF Held

LEMMA LeaseStep == TypeInv /\ Timers /\ LeaseInv /\ [Next]_vars => LeaseInv'
<1> SUFFICES ASSUME TypeOK, Timers, GraceSuffices, [Next]_vars,
                    \A c \in Consumers : Working(c) => Held(c),
                    NEW d \in Consumers
             PROVE  Working(d)' => Held(d)'
  BY DEF TypeInv, LeaseInv, GraceSuffices
<1> DEFINE Keeps == Working(d)' => Held(d)'
<1>1. ASSUME NEW n \in TaskId, NEW e \in Durations, Enqueue(n, e) PROVE Keeps
  <2>1. ASSUME NEW i \in 1..accepted
        PROVE  tasks'[i] = tasks[i] /\ i \in 1..accepted' /\ done' = done
    BY <1>1, BoundAssumption DEF Enqueue, TypeOK, BrokerTypeOK, TaskId
  <2>2. QED
    BY <1>1, <2>1 DEF Enqueue, Working, Held, LeaseLeft, consumerVars, faultVars
<1>2. CASE Observe
  BY <1>2, HandlerKeepsHeld DEF Observe, Handler, Reaping, consumerVars, faultVars
<1>3. CASE Tick
  <2>1. ASSUME NEW i \in 1..accepted
        PROVE  /\ tasks'[i].worker = tasks[i].worker
               /\ tasks'[i].lease = tasks[i].lease \/ tasks'[i].lease = tasks[i].lease - 1
               /\ tasks[i].lease \in Int
    <3>1. i \in TaskId /\ tasks[i] \in Task
      BY BoundAssumption DEF TypeOK, BrokerTypeOK, TaskId
    <3>2. QED
      BY <1>3, <3>1 DEF Tick, Task
  <2>2. LeaseLeft(d) \in Int /\ (Working(d) => LeaseLeft(d)' = LeaseLeft(d) - 1)
    BY <1>3, TimeAssumption DEF Tick, LeaseLeft, Working, Calling, TypeOK, ConsumerTypeOK, Job
  <2>3. Working(d)' => Working(d)
    BY <1>3 DEF Tick, Working, faultVars
  <2>4. job' = job /\ accepted' = accepted /\ done' = done
    BY <1>3 DEF Tick
  <2>5. QED
    BY <2>1, <2>2, <2>3, <2>4 DEF Held
<1>4. CASE BrokerRestart
  BY <1>4, BoundAssumption
  DEF BrokerRestart, Working, Timers, NoJob, TypeOK, ConsumerTypeOK, Job
<1>5. ASSUME NEW c \in Consumers, ServeClaim(c) PROVE Keeps
  <2>1. CASE c # d
    <3>1. Handler
      BY <1>5, RequestIsHandler
    <3>2. /\ pc'[d] = pc[d] /\ job'[d] = job[d] /\ run'[d] = run[d] /\ age'[d] = age[d]
          /\ reply'[d] = reply[d] /\ restarts' = restarts
      BY <1>5, <2>1 DEF ServeClaim, Answer, TypeOK, ConsumerTypeOK, faultVars
    <3>3. QED
      BY <3>1, <3>2, HandlerKeepsHeld
  <2>2. CASE c = d
    <3>1. CASE GrantNothing /\ Answer(c, "empty")
      BY <1>5, <2>2, <3>1 DEF ServeClaim, Answer, Working, TypeOK, ConsumerTypeOK
    <3>2. ASSUME NEW i \in TaskId, Grant(c, i), Answer(c, "task"),
                 job' = [job EXCEPT ![c] = [id |-> i, attempt |-> tasks[i].attempts + 1,
                                            dur |-> tasks[i].dur, epoch |-> restarts]]
          PROVE  Keeps
      <4>1. /\ tasks'[i].worker = c /\ tasks'[i].lease = tasks[i].dur + Grace
            /\ accepted' = accepted /\ i \in 1..accepted
        BY <3>2, ReapType DEF Grant, FirstFree, Free, TypeOK
      <4>2. job'[c].id = i /\ job'[c].dur = tasks[i].dur
        BY <3>2 DEF TypeOK, ConsumerTypeOK
      <4>3. pc'[c] = "claim_sent" /\ age'[c] \in Nat /\ tasks[i].dur \in Nat
        BY <1>5 DEF ServeClaim, TypeOK, ConsumerTypeOK, BrokerTypeOK, Task
      <4>4. LeaseLeft(c)' = tasks[i].dur + Grace - age'[c]
        BY <4>2, <4>3 DEF LeaseLeft
      <4>5. QED
        BY <2>2, <4>1, <4>2, <4>3, <4>4, TimeAssumption DEF Held
    <3>3. QED
      BY <1>5, <3>1, <3>2 DEF ServeClaim
  <2>3. QED
    BY <2>1, <2>2
<1>6. ASSUME NEW c \in Consumers, ServeAck(c) PROVE Keeps
  <2>1. CASE c # d
    <3>1. Handler
      BY <1>6, RequestIsHandler
    <3>2. /\ pc'[d] = pc[d] /\ job'[d] = job[d] /\ run'[d] = run[d] /\ age'[d] = age[d]
          /\ reply'[d] = reply[d] /\ restarts' = restarts
      BY <1>6, <2>1 DEF ServeAck, Answer, TypeOK, ConsumerTypeOK, faultVars
    <3>3. QED
      BY <3>1, <3>2, HandlerKeepsHeld
  <2>2. CASE c = d
    BY <1>6, <2>2 DEF ServeAck, Answer, Working, TypeOK, ConsumerTypeOK
  <2>3. QED
    BY <2>1, <2>2
<1>7. ASSUME NEW c \in Consumers, LateClaim(c) PROVE Keeps
  <2>1. Handler
    BY <1>7, RequestIsHandler
  <2>2. QED
    BY <1>7, <2>1, HandlerKeepsHeld DEF LateClaim, consumerVars, faultVars
<1>8. ASSUME NEW m \in lateAcks, LateAck(m) PROVE Keeps
  <2>1. Handler
    BY <1>8, RequestIsHandler
  <2>2. QED
    BY <1>8, <2>1, HandlerKeepsHeld DEF LateAck, consumerVars, faultVars
<1>9. ASSUME NEW c \in Consumers,
             BeginClaim(c) \/ Return(c) \/ WakeUp(c) \/ Drain(c) \/ Exit(c) \/ Sigterm(c)
      PROVE  Keeps
  BY <1>9 DEF BeginClaim, Return, WakeUp, Drain, Exit, Sigterm, Post, Goto, Answer,
              Working, Held, LeaseLeft, TypeOK, ConsumerTypeOK, brokerVars, faultVars
<1>10. ASSUME NEW c \in Consumers, RecvClaim(c) PROVE Keeps
  <2>1. CASE c # d
    BY <1>10, <2>1 DEF RecvClaim, Hang, Goto, Answer, Working, Held, LeaseLeft,
                       TypeOK, ConsumerTypeOK, brokerVars, faultVars
  <2>2. CASE c = d /\ Working(d)'
    <3>1. reply[c] = "task" /\ Working(c) /\ Held(c)
      BY <1>10, <2>2 DEF RecvClaim, Hang, Goto, Answer, Working, TypeOK, ConsumerTypeOK, faultVars
    <3>2. age[c] <= Timeout /\ age[c] \in Nat /\ job[c].dur \in Nat
      BY <1>10 DEF RecvClaim, Timers, Calling, TypeOK, ConsumerTypeOK, Job
    <3>3. LeaseLeft(c) = job[c].dur + Grace - age[c]
      BY <1>10 DEF RecvClaim, LeaseLeft
    <3>4. LeaseLeft(c)' = job[c].dur + Grace - Timeout
      BY <1>10, <3>1 DEF RecvClaim, LeaseLeft, Hang, Goto, Answer, TypeOK, ConsumerTypeOK
    <3>5. job[c].id \in TaskId /\ tasks[job[c].id].lease \in Int
      BY <3>1, BoundAssumption DEF Held, TypeOK, BrokerTypeOK, Task, TaskId
    <3>6. UNCHANGED brokerVars /\ job' = job
      BY <1>10 DEF RecvClaim
    <3>7. QED
      BY <2>2, <3>1, <3>2, <3>3, <3>4, <3>5, <3>6, TimeAssumption DEF Held, brokerVars
  <2>3. QED
    BY <2>1, <2>2
<1>11. ASSUME NEW c \in Consumers, FinishRun(c) PROVE Keeps
  <2>1. CASE c # d
    BY <1>11, <2>1 DEF FinishRun, Post, Goto, Answer, Working, Held, LeaseLeft,
                       TypeOK, ConsumerTypeOK, brokerVars, faultVars
  <2>2. CASE c = d /\ Working(d)'
    <3>1. Working(c) /\ Held(c)
      BY <1>11, <2>2 DEF FinishRun, Post, Goto, Answer, Working, TypeOK, ConsumerTypeOK, faultVars
    <3>2. run[c] >= -Slack /\ run[c] \in Int
      BY <1>11 DEF FinishRun, Timers, TypeOK, ConsumerTypeOK
    <3>3. LeaseLeft(c) = run[c] + Grace - Timeout
      BY <1>11 DEF FinishRun, LeaseLeft
    <3>4. LeaseLeft(c)' = Grace - Timeout - Slack
      BY <1>11, TimeAssumption DEF FinishRun, LeaseLeft, Post, Goto, Answer, TypeOK, ConsumerTypeOK
    <3>5. job[c].id \in TaskId /\ tasks[job[c].id].lease \in Int
      BY <3>1, BoundAssumption DEF Held, TypeOK, BrokerTypeOK, Task, TaskId
    <3>6. UNCHANGED brokerVars /\ job' = job
      BY <1>11 DEF FinishRun
    <3>7. QED
      BY <2>2, <3>1, <3>2, <3>3, <3>4, <3>5, <3>6, TimeAssumption DEF Held, brokerVars
  <2>3. QED
    BY <2>1, <2>2
<1>12. ASSUME NEW c \in Consumers, RecvAck(c) \/ PostFails(c) \/ Crash(c) PROVE Keeps
  BY <1>12 DEF RecvAck, PostFails, Crash, Hang, Goto, Answer,
               Working, Held, LeaseLeft, TypeOK, ConsumerTypeOK, brokerVars, faultVars
<1>13. CASE UNCHANGED vars
  BY <1>13 DEF vars, brokerVars, consumerVars, faultVars, Working, Held, LeaseLeft
<1>14. QED
  BY <1>1, <1>2, <1>3, <1>4, <1>5, <1>6, <1>7, <1>8, <1>9, <1>10, <1>11, <1>12, <1>13
  DEF Next, Step

LEMMA LeaseInvariant == Spec => [](TypeInv /\ Timers /\ LeaseInv)
<1>1. Init => Timers /\ LeaseInv
  BY DEF Init, Timers, LeaseInv, Working, Calling, NoJob
<1>2. QED
  BY <1>1, TypeInit, TypeStep, TimersStep, LeaseStep, PTL DEF Spec

\* Whatever is lost, delayed or restarted: if the grace covers two timeouts and
\* the slack, a lease is never taken from the consumer that works on it.
THEOREM LeaseCoversWork == Spec => []TimelyWorkerKeepsLease
<1>1. TypeInv /\ Timers /\ LeaseInv => TimelyWorkerKeepsLease
  <2> SUFFICES ASSUME TypeInv, Timers, LeaseInv, GraceSuffices,
                      NEW c \in Consumers, Working(c)
               PROVE  /\ tasks[job[c].id].worker = c
                      /\ job[c].id \in done \/ tasks[job[c].id].lease >= 0
    BY DEF TimelyWorkerKeepsLease
  <2>1. Held(c) /\ LeaseLeft(c) >= 0 /\ LeaseLeft(c) \in Int
    BY LeaseLeftNonNegative DEF LeaseInv, TypeInv
  <2>2. tasks[job[c].id].lease \in Int
    BY <2>1, BoundAssumption DEF Held, TypeInv, TypeOK, BrokerTypeOK, Task, TaskId
  <2>3. QED
    BY <2>1, <2>2 DEF Held
<1>2. QED
  BY <1>1, LeaseInvariant, PTL

\* Under the same condition no two Pods work on one task at a time.
THEOREM ExclusiveExecution == Spec => []NoConcurrentExecution
<1>1. TimelyWorkerKeepsLease => NoConcurrentExecution
  BY DEF TimelyWorkerKeepsLease, NoConcurrentExecution
<1>2. QED
  BY <1>1, LeaseCoversWork, PTL

----------------------------------------------------------------------------
(* What becomes of a task.                                                 *)

\* What reap() leaves of task i.
LEMMA ReapedAt ==
  ASSUME BrokerTypeOK, NEW i \in TaskId
  PROVE  /\ Reaped[i].worker \in {tasks[i].worker, NoWorker}
         /\ Reaped[i].attempts = tasks[i].attempts
         /\ ~Expired(i) => Reaped[i] = tasks[i]
         /\ i \in done => Reaped[i] = tasks[i]
<1>1. CASE Expired(i)
  BY <1>1 DEF Reaped, NewTask, Expired, Leased
<1>2. CASE ~Expired(i)
  BY <1>2 DEF Reaped
<1>3. QED
  BY <1>1, <1>2

\* What /claim does to every task.
LEMMA GrantAt ==
  ASSUME BrokerTypeOK, NEW w \in Consumers, NEW j \in TaskId, Grant(w, j)
  PROVE  /\ \A i \in TaskId : i # j => tasks'[i] = Reaped[i]
         /\ tasks'[j].worker = w /\ tasks'[j].attempts = tasks[j].attempts + 1
         /\ j \notin done /\ Reaped[j].worker = NoWorker
         /\ UNCHANGED <<accepted, done, rejected>>
<1>1. Reaped \in [TaskId -> Task]
  BY ReapType
<1>2. QED
  BY <1>1 DEF Grant, FirstFree, Free

\* What an accepted /ack does to every task.
LEMMA AckAt ==
  ASSUME BrokerTypeOK, NEW j, NEW w \in Consumers, NEW n, AckDone(j, w, n)
  PROVE  /\ \A i \in TaskId : /\ tasks'[i].worker = Reaped[i].worker
                              /\ tasks'[i].attempts = Reaped[i].attempts
         /\ j \in TaskId /\ j \notin done /\ tasks[j].worker = w
         /\ done' = done \cup {j} /\ UNCHANGED <<accepted, rejected>>
<1>1. j \in TaskId /\ j \notin done /\ Reaped[j].worker = w
  BY BoundAssumption DEF AckDone, MayAck, BrokerTypeOK, TaskId
<1>2. tasks[j].worker = w
  BY <1>1, ReapedAt, ConsumerAssumption
<1>3. ASSUME NEW i \in TaskId
      PROVE  tasks'[i].worker = Reaped[i].worker /\ tasks'[i].attempts = Reaped[i].attempts
  <2>1. Reaped \in [TaskId -> Task] /\ Reaped[i] \in Task
    BY ReapType
  <2>2. tasks' = [Reaped EXCEPT ![j].lease = 0]
    BY DEF AckDone
  <2>3. QED
    BY <1>1, <2>1, <2>2 DEF Task
<1>4. QED
  BY <1>1, <1>2, <1>3 DEF AckDone

\* Who works on a task that is done is never forgotten but by a restart.
LEMMA DoneKeepsWorker ==
  ASSUME TypeOK, AuditInv, [Next]_vars, ~BrokerRestart, NEW i \in done
  PROVE  i \in done' /\ tasks'[i].worker = tasks[i].worker
<1>1. BrokerTypeOK /\ i \in TaskId
  BY DEF TypeOK, BrokerTypeOK
<1>2. ASSUME NEW n \in TaskId, NEW d \in Durations, Enqueue(n, d)
      PROVE  i \in done' /\ tasks'[i].worker = tasks[i].worker
  <2>1. ~(i > accepted) /\ accepted \in Nat
    BY <1>1, BeyondTheEnd DEF BrokerTypeOK
  <2>2. i \notin (accepted + 1)..(accepted + n)
    BY <1>1, <2>1 DEF TaskId
  <2>3. QED
    BY <1>1, <1>2, <2>2 DEF Enqueue
<1>3. ASSUME Reap, UNCHANGED done
      PROVE  i \in done' /\ tasks'[i].worker = tasks[i].worker
  BY <1>1, <1>3, ReapedAt DEF Reap
<1>4. ASSUME NEW w \in Consumers, NEW j \in TaskId, Grant(w, j)
      PROVE  i \in done' /\ tasks'[i].worker = tasks[i].worker
  BY <1>1, <1>4, ReapedAt, GrantAt
<1>5. ASSUME NEW j \in 0..MaxTasks, NEW w \in Consumers, NEW n \in Nat, AckDone(j, w, n)
      PROVE  i \in done' /\ tasks'[i].worker = tasks[i].worker
  BY <1>1, <1>5, ReapedAt, AckAt
<1>6. CASE Handler
  BY <1>3, <1>4, <1>5, <1>6 DEF Handler, Reaping, AckConflict
<1>7. CASE Tick
  <2>1. tasks[i] \in Task
    BY <1>1 DEF BrokerTypeOK
  <2>2. QED
    BY <1>1, <1>7, <2>1 DEF Tick, Task
<1>8. CASE UNCHANGED brokerVars
  BY <1>8 DEF brokerVars
<1>9. QED
  BY <1>2, <1>6, <1>7, <1>8, StepKinds

----------------------------------------------------------------------------
(* A task that is done was executed.                                       *)

NoFaults == losses = 0 /\ crashes = 0

\* Requests are late only after a call was abandoned.
NothingLate == NoFaults => lateAcks = {} /\ \A c \in Consumers : lateClaims[c] = 0

\* An ack on its way to the broker that granted the claim stands for work that
\* was slept to the end.
AcksAreEarned ==
  /\ \A c \in Consumers :
       pc[c] = "ack_sent" /\ job[c].epoch = restarts => <<job[c].id, c>> \in executed
  /\ \A m \in lateAcks :
       m.epoch <= restarts /\ (m.epoch = restarts => <<m.id, m.worker>> \in executed)

\* A Pod that still works for an earlier broker has no lease from this one: it
\* posts its next claim only when it has sent the ack.
OldJobsOwnNothing ==
  NoFaults => \A c \in Consumers : HasJob(c) /\ job[c].epoch # restarts =>
                \A i \in TaskId : tasks[i].worker # c

EarnedInv == NothingLate /\ AcksAreEarned /\ OldJobsOwnNothing /\ DoneWasExecuted

LEMMA NothingLateStep == TypeInv /\ NothingLate /\ [Next]_vars => NothingLate'
<1> SUFFICES ASSUME TypeOK, NothingLate, [Next]_vars, NoFaults' PROVE NothingLate'
  BY DEF TypeInv, NothingLate
<1> USE DEF NothingLate, NoFaults
<1>1. ASSUME NEW c \in Consumers, PostFails(c) \/ Crash(c) PROVE FALSE
  BY <1>1, BoundAssumption DEF PostFails, Crash, TypeOK
<1>2. ASSUME NEW c \in Consumers, LateClaim(c) PROVE NothingLate'
  BY <1>2 DEF LateClaim, faultVars
<1>3. ASSUME NEW m \in lateAcks, LateAck(m) PROVE NothingLate'
  BY <1>3 DEF LateAck, faultVars
<1>4. CASE BrokerRestart
  BY <1>4 DEF BrokerRestart
<1>5. ASSUME NEW c \in Consumers, Step(c) \/ Sigterm(c) PROVE NothingLate'
  BY <1>5 DEF Step, ServeClaim, ServeAck, BeginClaim, Return, RecvClaim, WakeUp, FinishRun,
              RecvAck, Drain, Exit, Sigterm, netVars, faultVars
<1>6. ASSUME NEW n \in TaskId, NEW d \in Durations, Enqueue(n, d) PROVE NothingLate'
  BY <1>6 DEF Enqueue, netVars, faultVars
<1>7. CASE Observe \/ Tick \/ UNCHANGED vars
  BY <1>7 DEF Observe, Tick, vars, netVars, faultVars
<1>8. QED
  BY <1>1, <1>2, <1>3, <1>4, <1>5, <1>6, <1>7 DEF Next

LEMMA AcksAreEarnedStep == TypeInv /\ Timers /\ AcksAreEarned /\ [Next]_vars => AcksAreEarned'
<1> SUFFICES ASSUME TypeOK, Timers, AcksAreEarned, [Next]_vars PROVE AcksAreEarned'
  BY DEF TypeInv
<1> USE DEF AcksAreEarned, TypeOK, ConsumerTypeOK
<1>1. ASSUME NEW n \in TaskId, NEW d \in Durations, Enqueue(n, d) PROVE AcksAreEarned'
  BY <1>1 DEF Enqueue, consumerVars, netVars, faultVars
<1>2. CASE Observe \/ Tick \/ UNCHANGED vars
  BY <1>2 DEF Observe, Tick, vars, consumerVars, netVars, faultVars
<1>3. CASE BrokerRestart
  BY <1>3 DEF BrokerRestart
<1>4. ASSUME NEW c \in Consumers, ServeClaim(c) PROVE AcksAreEarned'
  BY <1>4 DEF ServeClaim, netVars, faultVars
<1>5. ASSUME NEW c \in Consumers, ServeAck(c) \/ LateClaim(c) PROVE AcksAreEarned'
  BY <1>5 DEF ServeAck, LateClaim, consumerVars, netVars, faultVars
<1>6. ASSUME NEW m \in lateAcks, LateAck(m) PROVE AcksAreEarned'
  BY <1>6 DEF LateAck, consumerVars, faultVars
<1>7. ASSUME NEW c \in Consumers,
             BeginClaim(c) \/ Return(c) \/ RecvClaim(c) \/ WakeUp(c) \/ RecvAck(c)
             \/ Drain(c) \/ Exit(c) \/ Sigterm(c)
      PROVE  AcksAreEarned'
  BY <1>7 DEF BeginClaim, Return, RecvClaim, WakeUp, RecvAck, Drain, Exit, Sigterm,
              Post, Hang, Goto, netVars, faultVars
<1>8. ASSUME NEW c \in Consumers, FinishRun(c) PROVE AcksAreEarned'
  BY <1>8 DEF FinishRun, Post, Goto, netVars, faultVars
<1>9. ASSUME NEW c \in Consumers, PostFails(c) \/ Crash(c) PROVE AcksAreEarned'
  <2>1. /\ executed' = executed /\ restarts' = restarts /\ pc'[c] # "ack_sent"
        /\ \A d \in Consumers : d # c => pc'[d] = pc[d] /\ job'[d] = job[d]
        /\ Abandon(c)
    BY <1>9 DEF PostFails, Crash, Hang, Goto
  <2>2. ASSUME NEW m \in lateAcks'
        PROVE  m.epoch <= restarts /\ (m.epoch = restarts => <<m.id, m.worker>> \in executed)
    <3>1. CASE m \in lateAcks
      BY <3>1
    <3>2. CASE m \notin lateAcks
      <4>1. pc[c] = "ack_sent" /\ m = [id |-> job[c].id, worker |-> c,
                                       attempt |-> job[c].attempt, epoch |-> job[c].epoch]
        BY <2>1, <3>2 DEF Abandon, netVars
      <4>2. m.id = job[c].id /\ m.worker = c /\ m.epoch = job[c].epoch
        BY <4>1
      <4>3. QED
        BY <4>1, <4>2 DEF Timers
    <3>3. QED
      BY <3>1, <3>2
  <2>3. QED
    BY <2>1, <2>2
<1>10. QED
  BY <1>1, <1>2, <1>3, <1>4, <1>5, <1>6, <1>7, <1>8, <1>9 DEF Next, Step

\* A Pod with an old job gets no lease before it is rid of that job.
LEMMA OldJobsStep ==
  TypeInv /\ NothingLate /\ OldJobsOwnNothing /\ [Next]_vars => OldJobsOwnNothing'
<1> SUFFICES ASSUME TypeOK, NothingLate, OldJobsOwnNothing, [Next]_vars, NoFaults',
                    NEW d \in Consumers, HasJob(d)', job'[d].epoch # restarts',
                    NEW i \in TaskId
             PROVE  tasks'[i].worker # d
  BY DEF TypeInv, OldJobsOwnNothing
<1> USE DEF HasJob, TypeOK, ConsumerTypeOK
<1>1. BrokerTypeOK /\ NoWorker # d /\ tasks[i] \in Task
  BY ConsumerAssumption DEF BrokerTypeOK
<1>2. NoFaults /\ HasJob(d) /\ job[d].epoch # restarts => tasks[i].worker # d
  BY DEF OldJobsOwnNothing
<1>3. ASSUME NEW n \in TaskId, NEW e \in Durations, Enqueue(n, e) PROVE tasks'[i].worker # d
  <2>1. tasks'[i].worker \in {tasks[i].worker, NoWorker}
    BY <1>3 DEF Enqueue, NewTask
  <2>2. QED
    BY <1>1, <1>2, <1>3, <2>1 DEF Enqueue, consumerVars, faultVars, NoFaults
<1>4. CASE Observe
  BY <1>1, <1>2, <1>4, ReapedAt DEF Observe, Reap, consumerVars, faultVars, NoFaults
<1>5. CASE Tick
  <2>1. tasks'[i].worker = tasks[i].worker
    BY <1>1, <1>5 DEF Tick, Task
  <2>2. QED
    BY <1>2, <1>5, <2>1 DEF Tick, faultVars, NoFaults
<1>6. CASE BrokerRestart
  BY <1>1, <1>6 DEF BrokerRestart, NewTask
<1>7. ASSUME NEW c \in Consumers, ServeClaim(c) PROVE tasks'[i].worker # d
  <2>1. restarts' = restarts /\ NoFaults /\ pc' = pc
    BY <1>7 DEF ServeClaim, faultVars, NoFaults
  <2>2. CASE GrantNothing /\ Answer(c, "empty") /\ UNCHANGED job
    <3>1. HasJob(d)
      BY <1>7, <2>1, <2>2 DEF ServeClaim, Answer
    <3>2. tasks'[i].worker \in {tasks[i].worker, NoWorker}
      BY <1>1, <2>2, ReapedAt DEF GrantNothing, Reap
    <3>3. QED
      BY <1>1, <1>2, <2>1, <2>2, <3>1, <3>2
  <2>3. ASSUME NEW j \in TaskId, Grant(c, j), Answer(c, "task"),
               job' = [job EXCEPT ![c] = [id |-> j, attempt |-> tasks[j].attempts + 1,
                                          dur |-> tasks[j].dur, epoch |-> restarts]]
        PROVE  tasks'[i].worker # d
    <3>1. d # c
      BY <2>1, <2>3
    <3>2. HasJob(d) /\ job[d] = job'[d]
      BY <2>1, <2>3, <3>1 DEF Answer
    <3>3. tasks'[i].worker \in {tasks[i].worker, NoWorker, c}
      BY <1>1, <2>3, GrantAt, ReapedAt
    <3>4. QED
      BY <1>1, <1>2, <2>1, <3>1, <3>2, <3>3
  <2>4. QED
    BY <1>7, <2>2, <2>3 DEF ServeClaim
<1>8. ASSUME NEW c \in Consumers, ServeAck(c) PROVE tasks'[i].worker # d
  <2>1. restarts' = restarts /\ NoFaults /\ pc' = pc /\ job' = job /\ HasJob(d)
    BY <1>8 DEF ServeAck, faultVars, NoFaults, Answer
  <2>2. tasks'[i].worker \in {tasks[i].worker, NoWorker}
    BY <1>1, <1>8, AckAt, ReapedAt DEF ServeAck, AckConflict, AckUnknown, Reap
  <2>3. QED
    BY <1>1, <1>2, <2>1, <2>2
<1>9. ASSUME NEW c \in Consumers, LateClaim(c) PROVE FALSE
  BY <1>9 DEF LateClaim, NothingLate, NoFaults, faultVars
<1>10. ASSUME NEW m \in lateAcks, LateAck(m) PROVE FALSE
  BY <1>10 DEF LateAck, NothingLate, NoFaults, faultVars
<1>11. ASSUME NEW c \in Consumers, PostFails(c) \/ Crash(c) PROVE FALSE
  BY <1>11, BoundAssumption DEF PostFails, Crash, NoFaults
<1>12. ASSUME NEW c \in Consumers,
              BeginClaim(c) \/ Return(c) \/ RecvClaim(c) \/ WakeUp(c) \/ FinishRun(c)
              \/ RecvAck(c) \/ Drain(c) \/ Exit(c) \/ Sigterm(c)
       PROVE  tasks'[i].worker # d
  <2>1. tasks' = tasks /\ restarts' = restarts /\ NoFaults
    BY <1>12 DEF BeginClaim, Return, RecvClaim, WakeUp, FinishRun, RecvAck, Drain, Exit,
                 Sigterm, brokerVars, faultVars, NoFaults
  <2>2. HasJob(d) /\ job'[d] = job[d]
    BY <1>12 DEF BeginClaim, Return, RecvClaim, WakeUp, FinishRun, RecvAck, Drain, Exit,
                 Sigterm, Post, Hang, Goto, Answer
  <2>3. QED
    BY <1>2, <2>1, <2>2
<1>13. CASE UNCHANGED vars
  BY <1>2, <1>13 DEF vars, brokerVars, consumerVars, faultVars, NoFaults
<1>14. QED
  BY <1>3, <1>4, <1>5, <1>6, <1>7, <1>8, <1>9, <1>10, <1>11, <1>12, <1>13 DEF Next, Step

\* Only /ack marks a task done; a restart forgets all of them, and what was
\* executed with them.
LEMMA WhoMarksDone ==
  ASSUME TypeOK, [Next]_vars
  PROVE  \/ BrokerRestart
         \/ (\E c \in Consumers : ServeAck(c)) /\ executed' = executed
         \/ (\E m \in lateAcks : LateAck(m)) /\ executed' = executed
         \/ done' = done /\ executed \subseteq executed'
<1>1. ASSUME NEW n \in TaskId, NEW d \in Durations, Enqueue(n, d)
      PROVE  done' = done /\ executed' = executed
  BY <1>1 DEF Enqueue
<1>2. CASE Observe \/ Tick \/ UNCHANGED vars
  BY <1>2 DEF Observe, Tick, vars, brokerVars
<1>3. ASSUME NEW c \in Consumers, ServeClaim(c) \/ LateClaim(c)
      PROVE  done' = done /\ executed' = executed
  BY <1>3 DEF ServeClaim, LateClaim, Grant, GrantNothing
<1>4. ASSUME NEW c \in Consumers,
             BeginClaim(c) \/ Return(c) \/ RecvClaim(c) \/ WakeUp(c) \/ FinishRun(c)
             \/ RecvAck(c) \/ Drain(c) \/ Exit(c) \/ PostFails(c) \/ Sigterm(c) \/ Crash(c)
      PROVE  done' = done /\ executed \subseteq executed'
  BY <1>4 DEF BeginClaim, Return, RecvClaim, WakeUp, FinishRun, RecvAck, Drain, Exit,
              PostFails, Sigterm, Crash, brokerVars
<1>5. ASSUME NEW c \in Consumers, ServeAck(c) PROVE executed' = executed
  BY <1>5 DEF ServeAck
<1>6. ASSUME NEW m \in lateAcks, LateAck(m) PROVE executed' = executed
  BY <1>6 DEF LateAck
<1>7. QED
  BY <1>1, <1>2, <1>3, <1>4, <1>5, <1>6 DEF Next, Step

\* The fault counters only grow.
LEMMA FaultsGrow ==
  ASSUME TypeOK, [Next]_vars
  PROVE  restarts' >= restarts /\ losses' >= losses /\ crashes' >= crashes
<1> USE BoundAssumption DEF TypeOK, faultVars
<1>1. ASSUME NEW n \in TaskId, NEW d \in Durations, Enqueue(n, d)
      PROVE  restarts' >= restarts /\ losses' >= losses /\ crashes' >= crashes
  BY <1>1 DEF Enqueue
<1>2. CASE Observe \/ Tick \/ BrokerRestart \/ UNCHANGED vars
  BY <1>2 DEF Observe, Tick, BrokerRestart, vars
<1>3. ASSUME NEW c \in Consumers,
             Step(c) \/ PostFails(c) \/ Sigterm(c) \/ Crash(c) \/ LateClaim(c)
      PROVE  restarts' >= restarts /\ losses' >= losses /\ crashes' >= crashes
  BY <1>3 DEF Step, ServeClaim, ServeAck, BeginClaim, Return, RecvClaim, WakeUp, FinishRun,
              RecvAck, Drain, Exit, PostFails, Sigterm, Crash, LateClaim
<1>4. ASSUME NEW m \in lateAcks, LateAck(m)
      PROVE  restarts' >= restarts /\ losses' >= losses /\ crashes' >= crashes
  BY <1>4 DEF LateAck
<1>5. QED
  BY <1>1, <1>2, <1>3, <1>4 DEF Next

LEMMA DoneStep ==
  TypeInv /\ Timers /\ AuditInv /\ EarnedInv /\ [Next]_vars => DoneWasExecuted'
<1> SUFFICES ASSUME TypeOK, Timers, AuditInv, EarnedInv, [Next]_vars,
                    (restarts = 0 \/ NoFaults)',
                    NEW i \in TaskId, i \in done'
             PROVE  <<i, tasks'[i].worker>> \in executed'
  BY DEF TypeInv, DoneWasExecuted, NoFaults
<1>1. CASE BrokerRestart
  BY <1>1 DEF BrokerRestart
<1>2. restarts = 0 \/ NoFaults
  BY FaultsGrow DEF NoFaults, TypeOK
<1>3. ASSUME ~BrokerRestart, i \in done, executed \subseteq executed'
      PROVE  <<i, tasks'[i].worker>> \in executed'
  <2>1. tasks'[i].worker = tasks[i].worker
    BY <1>3, DoneKeepsWorker
  <2>2. <<i, tasks[i].worker>> \in executed
    BY <1>2, <1>3 DEF EarnedInv, DoneWasExecuted, NoFaults
  <2>3. QED
    BY <1>3, <2>1, <2>2
<1>4. ASSUME NEW w \in Consumers, NEW n, AckDone(i, w, n)
      PROVE  tasks[i].worker = w /\ tasks'[i].worker = w
  BY <1>4, AckAt, ReapedAt, ConsumerAssumption DEF TypeOK, AckDone, MayAck
<1>5. ASSUME NEW c \in Consumers, ServeAck(c), executed' = executed, ~BrokerRestart
      PROVE  <<i, tasks'[i].worker>> \in executed'
  <2>1. CASE i \in done
    BY <1>3, <1>5, <2>1
  <2>2. CASE i \notin done
    <3>1. AckDone(i, c, job[c].attempt) /\ job[c].id = i /\ pc[c] = "ack_sent"
      <4>1. CASE AckDone(job[c].id, c, job[c].attempt)
        BY <1>5, <2>2, <4>1 DEF AckDone, ServeAck
      <4>2. QED
        BY <1>5, <2>2, <4>1 DEF ServeAck, AckConflict, AckUnknown
    <3>2. tasks[i].worker = c /\ tasks'[i].worker = c
      BY <3>1, <1>4
    <3>3. job[c].epoch = restarts
      <4>1. CASE restarts = 0
        BY <4>1 DEF Timers, TypeOK, ConsumerTypeOK, Job
      <4>2. CASE NoFaults
        BY <3>1, <3>2, <4>2 DEF EarnedInv, OldJobsOwnNothing, HasJob
      <4>3. QED
        BY <1>2, <4>1, <4>2
    <3>4. QED
      BY <1>5, <3>1, <3>2, <3>3 DEF EarnedInv, AcksAreEarned
  <2>3. QED
    BY <2>1, <2>2
<1>6. ASSUME NEW m \in lateAcks, LateAck(m), executed' = executed, ~BrokerRestart
      PROVE  <<i, tasks'[i].worker>> \in executed'
  <2>1. CASE i \in done
    BY <1>3, <1>6, <2>1
  <2>2. CASE i \notin done
    <3>1. restarts = 0
      BY <1>2 DEF EarnedInv, NothingLate
    <3>2. m.worker \in Consumers /\ m.epoch \in Nat
      BY DEF TypeOK, NetTypeOK, AckReq
    <3>3. AckDone(i, m.worker, m.attempt) /\ m.id = i
      <4>1. CASE AckDone(m.id, m.worker, m.attempt)
        BY <2>2, <4>1 DEF AckDone
      <4>2. QED
        BY <1>6, <2>2, <4>1 DEF LateAck, AckConflict, AckUnknown
    <3>4. tasks'[i].worker = m.worker
      BY <1>4, <3>2, <3>3
    <3>5. QED
      BY <1>6, <3>1, <3>2, <3>3, <3>4 DEF EarnedInv, AcksAreEarned
  <2>3. QED
    BY <2>1, <2>2
<1>7. QED
  BY <1>1, <1>3, <1>5, <1>6, WhoMarksDone

(* A task is marked done only after the worker whose ack was accepted      *)
(* slept it to the end: with one broker process whatever calls are lost,   *)
(* late or answered twice and whatever Pods die, and across restarts of    *)
(* the broker, which hands the same ids out again, as long as no call was  *)
(* abandoned.                                                              *)
THEOREM DoneMeansExecuted == Spec => []DoneWasExecuted
<1>1. Init => EarnedInv
  BY DEF Init, EarnedInv, NothingLate, AcksAreEarned, OldJobsOwnNothing, HasJob, DoneWasExecuted
<1>2. Init => Timers
  <2> SUFFICES ASSUME Init, NEW c \in Consumers
               PROVE  ~Calling(c) /\ pc[c] # "running" /\ job[c].epoch <= restarts
    BY DEF Timers
  <2>1. QED
    BY DEF Init, Calling, NoJob
<1>3. TypeInv /\ Timers /\ AuditInv /\ EarnedInv /\ [Next]_vars => EarnedInv'
  BY NothingLateStep, AcksAreEarnedStep, OldJobsStep, DoneStep DEF EarnedInv
<1>4. EarnedInv => DoneWasExecuted
  BY DEF EarnedInv
<1>5. QED
  BY <1>1, <1>2, <1>3, <1>4, TypeInit, TypeStep, TimersStep, AuditInit, AuditStep, PTL DEF Spec

----------------------------------------------------------------------------
(* Without faults.                                                         *)

\* Every lease belongs to a Pod that is at work on it.
LeasesAreWorkedOn ==
  FaultFree => \A i \in TaskId : Leased(i) =>
    \E c \in Consumers : tasks[i].worker = c /\ Working(c) /\ job[c].id = i

\* A Pod that a step leaves alone stays at work.
LEMMA StaysAtWork ==
  ASSUME NEW c \in Consumers, Working(c),
         pc'[c] = pc[c], job'[c] = job[c], reply'[c] = reply[c], restarts' = restarts
  PROVE  Working(c)'
BY DEF Working

LEMMA WorkedOnStep ==
  TypeInv /\ AuditInv /\ NothingLate /\ LeasesAreWorkedOn /\ [Next]_vars => LeasesAreWorkedOn'
<1> SUFFICES ASSUME TypeOK, AuditInv, NothingLate, LeasesAreWorkedOn, [Next]_vars, FaultFree',
                    NEW i \in TaskId, Leased(i)'
             PROVE  \E c \in Consumers : tasks'[i].worker = c /\ Working(c)' /\ job'[c].id = i
  BY DEF TypeInv, LeasesAreWorkedOn
<1> DEFINE w == tasks[i].worker
           AtWork == \E c \in Consumers : tasks'[i].worker = c /\ Working(c)' /\ job'[c].id = i
<1>1. BrokerTypeOK /\ tasks[i] \in Task /\ FaultFree
  BY FaultsGrow DEF TypeOK, BrokerTypeOK, FaultFree
<1>2. Leased(i) => w \in Consumers /\ Working(w) /\ job[w].id = i
  BY <1>1 DEF LeasesAreWorkedOn
<1>3. i \notin done' /\ tasks'[i].worker # NoWorker
  BY DEF Leased
<1>4. ASSUME Leased(i), tasks'[i].worker = w, pc'[w] = pc[w], job'[w] = job[w],
             reply'[w] = reply[w], restarts' = restarts
      PROVE  AtWork
  BY <1>2, <1>4, StaysAtWork
<1> HIDE DEF AtWork, w
<1>5. ASSUME NEW n \in TaskId, NEW d \in Durations, Enqueue(n, d) PROVE AtWork
  <2>1. Leased(i) /\ tasks'[i].worker = w
    BY <1>3, <1>5 DEF Enqueue, NewTask, Leased, w
  <2>2. QED
    BY <1>4, <1>5, <2>1 DEF Enqueue, consumerVars, faultVars
<1>6. ASSUME tasks'[i].worker = Reaped[i].worker, i \notin done
      PROVE  Leased(i) /\ tasks'[i].worker = w
  BY <1>1, <1>3, <1>6, ReapedAt DEF Leased, w
<1>7. CASE Observe
  <2>1. Leased(i) /\ tasks'[i].worker = w
    BY <1>3, <1>6, <1>7 DEF Observe, Reap
  <2>2. pc' = pc /\ job' = job /\ reply' = reply /\ restarts' = restarts
    BY <1>7 DEF Observe, consumerVars, faultVars
  <2>3. QED
    BY <1>4, <2>1, <2>2 DEF AtWork
<1>8. CASE Tick
  <2>1. Leased(i) /\ tasks'[i].worker = w
    BY <1>1, <1>3, <1>8 DEF Tick, Leased, Task, w
  <2>2. pc' = pc /\ job' = job /\ reply' = reply /\ restarts' = restarts
    BY <1>8 DEF Tick, faultVars
  <2>3. QED
    BY <1>4, <2>1, <2>2 DEF AtWork
<1>9. CASE BrokerRestart
  BY <1>1, <1>9 DEF BrokerRestart, FaultFree
<1>10. ASSUME NEW c \in Consumers, ServeClaim(c) PROVE AtWork
  <2>1. pc' = pc /\ restarts' = restarts /\ ~Working(c) /\ pc[c] = "claim_sent"
    BY <1>10 DEF ServeClaim, Unanswered, Working, faultVars
  <2>2. CASE GrantNothing /\ Answer(c, "empty") /\ UNCHANGED job
    <3>1. Leased(i) /\ tasks'[i].worker = w
      BY <1>3, <1>6, <2>2 DEF GrantNothing, Reap
    <3>2. w \in Consumers /\ w # c
      BY <1>2, <2>1, <3>1
    <3>3. QED
      BY <1>4, <2>1, <2>2, <3>1, <3>2 DEF Answer, TypeOK, ConsumerTypeOK
  <2>3. ASSUME NEW j \in TaskId, Grant(c, j), Answer(c, "task"),
               job' = [job EXCEPT ![c] = [id |-> j, attempt |-> tasks[j].attempts + 1,
                                          dur |-> tasks[j].dur, epoch |-> restarts]]
        PROVE  AtWork
    <3>1. CASE i = j
      <4>1. tasks'[i].worker = c
        BY <1>1, <2>3, <3>1, GrantAt
      <4>2. job'[c].id = j /\ job'[c].epoch = restarts /\ reply'[c] = "task"
        BY <2>3 DEF Answer, TypeOK, ConsumerTypeOK
      <4>3. QED
        BY <2>1, <3>1, <4>1, <4>2 DEF AtWork, Working
    <3>2. CASE i # j
      <4>1. Leased(i) /\ tasks'[i].worker = w
        BY <1>1, <1>3, <1>6, <2>3, <3>2, GrantAt
      <4>2. w \in Consumers /\ w # c
        BY <1>2, <2>1, <4>1
      <4>3. QED
        BY <1>4, <2>1, <2>3, <4>1, <4>2 DEF Answer, TypeOK, ConsumerTypeOK
    <3>3. QED
      BY <3>1, <3>2
  <2>4. QED
    BY <1>10, <2>2, <2>3 DEF ServeClaim
<1>11. ASSUME NEW c \in Consumers, ServeAck(c) PROVE AtWork
  <2>1. /\ pc' = pc /\ job' = job /\ restarts' = restarts
        /\ \A d \in Consumers : d # c => reply'[d] = reply[d]
    BY <1>11 DEF ServeAck, Answer, TypeOK, ConsumerTypeOK, faultVars
  <2>2. tasks'[i].worker = Reaped[i].worker /\ i \notin done
    BY <1>1, <1>3, <1>11, AckAt DEF ServeAck, AckConflict, AckUnknown, Reap
  <2>3. Leased(i) /\ tasks'[i].worker = w
    BY <1>6, <2>2
  <2>4. w # c
    <3> SUFFICES ASSUME w = c PROVE FALSE
      OBVIOUS
    <3>1. job[c].id = i
      BY <1>2, <2>3
    <3>2. MayAck(i, c)
      BY <2>2, <2>3 DEF MayAck
    <3>3. i \in 1..accepted
      <4>1. ~(i > accepted) /\ accepted \in Nat
        BY <1>1, <1>3, <2>3, BeyondTheEnd DEF BrokerTypeOK, w
      <4>2. QED
        BY <4>1 DEF TaskId
    <3>4. QED
      BY <1>3, <1>11, <3>1, <3>2, <3>3 DEF ServeAck, AckDone, AckConflict, AckUnknown
  <2>5. QED
    BY <1>2, <1>4, <2>1, <2>3, <2>4
<1>12. ASSUME NEW c \in Consumers, LateClaim(c) PROVE FALSE
  BY <1>1, <1>12 DEF LateClaim, NothingLate, NoFaults, FaultFree
<1>13. ASSUME NEW m \in lateAcks, LateAck(m) PROVE FALSE
  BY <1>1, <1>13 DEF LateAck, NothingLate, NoFaults, FaultFree
<1>14. ASSUME NEW c \in Consumers, PostFails(c) \/ Crash(c) PROVE FALSE
  BY <1>1, <1>14 DEF PostFails, Crash, FaultFree
<1>15. ASSUME NEW c \in Consumers,
              BeginClaim(c) \/ Return(c) \/ RecvClaim(c) \/ WakeUp(c) \/ FinishRun(c)
              \/ RecvAck(c) \/ Drain(c) \/ Exit(c) \/ Sigterm(c)
       PROVE  AtWork
  <2>1. tasks' = tasks /\ done' = done /\ restarts' = restarts
    BY <1>15 DEF BeginClaim, Return, RecvClaim, WakeUp, FinishRun, RecvAck, Drain, Exit,
                 Sigterm, brokerVars, faultVars
  <2>2. Leased(i) /\ tasks'[i].worker = w
    BY <1>3, <2>1 DEF Leased, w
  <2>3. \A d \in Consumers : d # c => pc'[d] = pc[d] /\ job'[d] = job[d] /\ reply'[d] = reply[d]
    BY <1>15 DEF BeginClaim, Return, RecvClaim, WakeUp, FinishRun, RecvAck, Drain, Exit,
                 Sigterm, Post, Hang, Goto, Answer, TypeOK, ConsumerTypeOK
  <2>4. Working(c) => Working(c)' /\ job'[c] = job[c]
    BY <1>15, <2>1 DEF BeginClaim, Return, RecvClaim, WakeUp, FinishRun, RecvAck, Drain, Exit,
                 Sigterm, Post, Hang, Goto, Answer, TypeOK, ConsumerTypeOK, Working
  <2>5. CASE w = c
    BY <1>2, <2>2, <2>4, <2>5 DEF AtWork
  <2>6. CASE w # c
    BY <1>2, <1>4, <2>1, <2>2, <2>3, <2>6
  <2>7. QED
    BY <2>5, <2>6
<1>16. CASE UNCHANGED vars
  <2>1. Leased(i) /\ tasks'[i].worker = w
    BY <1>3, <1>16 DEF vars, brokerVars, Leased, w
  <2>2. pc' = pc /\ job' = job /\ reply' = reply /\ restarts' = restarts
    BY <1>16 DEF vars, consumerVars, faultVars
  <2>3. QED
    BY <1>4, <2>1, <2>2 DEF AtWork
<1>17. QED
  BY <1>5, <1>7, <1>8, <1>9, <1>10, <1>11, <1>12, <1>13, <1>14, <1>15, <1>16
  DEF Next, Step, AtWork

\* Without faults a Pod that works in time loses no lease, and only Pods at work
\* have leases: none expires.
LEMMA NothingExpires ==
  ASSUME TypeOK, Timers, LeaseInv, LeasesAreWorkedOn, FaultFree, GraceSuffices, NEW i \in TaskId
  PROVE  ~Expired(i)
<1> SUFFICES ASSUME Expired(i) PROVE FALSE
  OBVIOUS
<1>1. i \notin done /\ Leased(i) /\ tasks[i].lease < 0 /\ tasks[i].lease \in Int
  BY DEF Expired, Leased, TypeOK, BrokerTypeOK, Task
<1>2. PICK c \in Consumers : Working(c) /\ job[c].id = i
  BY <1>1 DEF LeasesAreWorkedOn
<1>3. LeaseLeft(c) >= 0 /\ LeaseLeft(c) \in Int
  BY <1>2, LeaseLeftNonNegative
<1>4. tasks[i].lease >= LeaseLeft(c)
  BY <1>1, <1>2 DEF LeaseInv, Held
<1>5. QED
  BY <1>1, <1>3, <1>4

\* A task that was claimed is done or leased, and nobody works on a task that is
\* done already.
OnceInv ==
  FaultFree /\ GraceSuffices =>
    /\ rejected = {}
    /\ \A i \in TaskId : /\ tasks[i].attempts <= 1
                         /\ tasks[i].attempts # 0 => i \in done \/ tasks[i].worker # NoWorker
    /\ \A c \in Consumers : Working(c) => job[c].id \notin done

\* Without faults an ack finds its task leased to its sender.
LEMMA AckIsWelcome ==
  ASSUME TypeOK, Timers, LeaseInv, LeasesAreWorkedOn, OnceInv, FaultFree, GraceSuffices,
         NEW c \in Consumers, pc[c] = "ack_sent", Unanswered(c)
  PROVE  /\ Working(c) /\ job[c].id \in 1..accepted
         /\ MayAck(job[c].id, c)
<1>1. job[c].epoch = restarts
  BY DEF Timers, FaultFree, TypeOK, ConsumerTypeOK, Job
<1>2. Working(c)
  BY <1>1 DEF Working, Unanswered
<1>3. job[c].id \in 1..accepted /\ tasks[job[c].id].worker = c /\ job[c].id \notin done
  BY <1>2 DEF LeaseInv, Held, OnceInv
<1>4. job[c].id \in TaskId
  BY <1>3, BoundAssumption DEF TypeOK, BrokerTypeOK, TaskId
<1>5. Reaped[job[c].id] = tasks[job[c].id]
  BY <1>4, NothingExpires, ReapedAt DEF TypeOK
<1>6. QED
  BY <1>2, <1>3, <1>5 DEF MayAck

LEMMA OnceStep ==
  /\ TypeInv /\ Timers /\ AuditInv /\ LeaseInv /\ NothingLate /\ LeasesAreWorkedOn /\ OnceInv
  /\ [Next]_vars
  => OnceInv'
<1> SUFFICES ASSUME TypeOK, Timers, AuditInv, LeaseInv, NothingLate, LeasesAreWorkedOn, OnceInv,
                    [Next]_vars, FaultFree', GraceSuffices
             PROVE  /\ rejected' = {}
                    /\ \A i \in TaskId :
                         /\ tasks'[i].attempts <= 1
                         /\ tasks'[i].attempts # 0 => i \in done' \/ tasks'[i].worker # NoWorker
                    /\ \A c \in Consumers : Working(c)' => job'[c].id \notin done'
  BY DEF TypeInv, OnceInv, GraceSuffices
<1>1. BrokerTypeOK /\ FaultFree
  BY FaultsGrow DEF TypeOK, FaultFree
<1>2. /\ rejected = {}
      /\ \A i \in TaskId : /\ tasks[i].attempts <= 1 /\ tasks[i].attempts \in Nat
                           /\ tasks[i].attempts # 0 => i \in done \/ tasks[i].worker # NoWorker
      /\ \A c \in Consumers : Working(c) => job[c].id \notin done
  BY <1>1 DEF OnceInv, BrokerTypeOK, Task
<1>3. \A i \in TaskId : Reaped[i] = tasks[i]
  BY <1>1, NothingExpires, ReapedAt
<1>4. ~BrokerRestart /\ \A m \in lateAcks : ~LateAck(m)
  BY <1>1 DEF BrokerRestart, NothingLate, NoFaults, FaultFree
<1>5. \A c \in Consumers : ~LateClaim(c) /\ ~PostFails(c) /\ ~Crash(c)
  BY <1>1 DEF LateClaim, PostFails, Crash, NothingLate, NoFaults, FaultFree
<1>6. rejected' = {}
  <2>1. ASSUME NEW c \in Consumers, ServeAck(c) PROVE rejected' = rejected
    <3>1. job[c].id \in 1..accepted /\ MayAck(job[c].id, c)
      BY <1>1, <2>1, AckIsWelcome DEF ServeAck
    <3>2. QED
      BY <2>1, <3>1 DEF ServeAck, AckDone, AckConflict, AckUnknown
  <2>2. ASSUME NEW c \in Consumers, Step(c) \/ Sigterm(c), ~ServeAck(c)
        PROVE  rejected' = rejected
    BY <2>2 DEF Step, ServeClaim, Grant, GrantNothing, BeginClaim, Return, RecvClaim, WakeUp,
                FinishRun, RecvAck, Drain, Exit, Sigterm, brokerVars
  <2>3. ASSUME NEW n \in TaskId, NEW d \in Durations, Enqueue(n, d) PROVE rejected' = rejected
    BY <2>3 DEF Enqueue
  <2>4. CASE Observe \/ Tick \/ UNCHANGED vars
    BY <1>2, <2>4 DEF Observe, Tick, vars, brokerVars
  <2>5. QED
    BY <1>2, <1>4, <1>5, <2>1, <2>2, <2>3, <2>4 DEF Next
<1>7. ASSUME NEW i \in TaskId
      PROVE  /\ tasks'[i].attempts <= 1
             /\ tasks'[i].attempts # 0 => i \in done' \/ tasks'[i].worker # NoWorker
  <2> DEFINE Good == /\ tasks'[i].attempts <= 1
                     /\ tasks'[i].attempts # 0 => i \in done' \/ tasks'[i].worker # NoWorker
  <2>1. ASSUME tasks'[i].attempts = tasks[i].attempts, tasks'[i].worker = tasks[i].worker,
               done \subseteq done'
        PROVE  Good
    BY <1>2, <2>1
  <2>2. ASSUME NEW n \in TaskId, NEW d \in Durations, Enqueue(n, d) PROVE Good
    BY <1>2, <2>2 DEF Enqueue, NewTask
  <2>3. ASSUME NEW w \in Consumers, NEW j \in TaskId, Grant(w, j) PROVE Good
    <3>1. CASE i = j
      <4>1. tasks[j].worker = NoWorker /\ j \notin done
        BY <1>1, <1>3, <2>3, GrantAt
      <4>2. tasks[j].attempts = 0
        BY <1>2, <4>1
      <4>3. tasks'[j].attempts = 1 /\ tasks'[j].worker = w
        BY <1>1, <2>3, <4>2, GrantAt
      <4>4. QED
        BY <3>1, <4>3, ConsumerAssumption
    <3>2. CASE i # j
      BY <1>1, <1>3, <2>1, <2>3, <3>2, GrantAt
    <3>3. QED
      BY <3>1, <3>2
  <2>4. ASSUME NEW j \in 0..MaxTasks, NEW w \in Consumers, NEW n \in Nat, AckDone(j, w, n)
        PROVE  Good
    BY <1>1, <1>3, <2>1, <2>4, AckAt
  <2>5. CASE Handler
    BY <1>3, <2>1, <2>3, <2>4, <2>5 DEF Handler, Reaping, AckConflict, Reap
  <2>6. CASE Tick
    <3>1. tasks[i] \in Task
      BY <1>1 DEF BrokerTypeOK
    <3>2. tasks'[i].attempts = tasks[i].attempts /\ tasks'[i].worker = tasks[i].worker
      BY <2>6, <3>1 DEF Tick, Task
    <3>3. QED
      BY <2>1, <2>6, <3>2 DEF Tick
  <2>7. CASE UNCHANGED brokerVars
    BY <2>1, <2>7 DEF brokerVars
  <2>8. QED
    BY <1>4, <2>2, <2>5, <2>6, <2>7, StepKinds
<1>8. ASSUME NEW c \in Consumers, Working(c)' PROVE job'[c].id \notin done'
  <2>1. ASSUME NEW d \in Consumers, ServeClaim(d) PROVE job'[c].id \notin done'
    <3>1. done' = done /\ pc' = pc /\ restarts' = restarts
      BY <2>1 DEF ServeClaim, Grant, GrantNothing, faultVars
    <3>2. CASE c # d
      BY <1>2, <1>8, <2>1, <3>1, <3>2
      DEF ServeClaim, Answer, Working, TypeOK, ConsumerTypeOK
    <3>3. CASE c = d
      <4>1. reply'[d] = "task"
        BY <1>8, <2>1, <3>1, <3>3 DEF ServeClaim, Working
      <4>2. PICK j \in TaskId : Grant(d, j) /\ job'[d].id = j
        BY <2>1, <4>1 DEF ServeClaim, Answer, TypeOK, ConsumerTypeOK
      <4>3. QED
        BY <1>1, <3>1, <3>3, <4>2, GrantAt
    <3>4. QED
      BY <3>2, <3>3
  <2>2. ASSUME NEW d \in Consumers, ServeAck(d) PROVE job'[c].id \notin done'
    <3>1. pc' = pc /\ job' = job /\ restarts' = restarts
      BY <2>2 DEF ServeAck, faultVars
    <3>2. c # d /\ Working(c)
      BY <1>8, <2>2, <3>1 DEF ServeAck, Answer, Working, TypeOK, ConsumerTypeOK
    <3>3. job[c].id \notin done /\ tasks[job[c].id].worker = c
      BY <1>2, <3>2 DEF LeaseInv, Held
    <3>4. CASE AckDone(job[d].id, d, job[d].attempt)
      <4>1. tasks[job[d].id].worker = d /\ done' = done \cup {job[d].id}
        BY <1>1, <3>4, AckAt
      <4>2. QED
        BY <3>1, <3>2, <3>3, <4>1
    <3>5. CASE done' = done
      BY <3>1, <3>3, <3>5
    <3>6. QED
      BY <2>2, <3>4, <3>5 DEF ServeAck, AckConflict, AckUnknown
  <2>3. ASSUME NEW d \in Consumers,
               BeginClaim(d) \/ Return(d) \/ RecvClaim(d) \/ WakeUp(d) \/ FinishRun(d)
               \/ RecvAck(d) \/ Drain(d) \/ Exit(d) \/ Sigterm(d)
        PROVE  job'[c].id \notin done'
    <3>1. done' = done /\ restarts' = restarts
      BY <2>3 DEF BeginClaim, Return, RecvClaim, WakeUp, FinishRun, RecvAck, Drain, Exit,
                  Sigterm, brokerVars, faultVars
    <3>2. Working(c) /\ job'[c] = job[c]
      BY <1>8, <2>3, <3>1
      DEF BeginClaim, Return, RecvClaim, WakeUp, FinishRun, RecvAck, Drain, Exit, Sigterm,
          Post, Hang, Goto, Answer, TypeOK, ConsumerTypeOK, Working
    <3>3. QED
      BY <1>2, <3>1, <3>2
  <2>4. ASSUME NEW n \in TaskId, NEW d \in Durations, Enqueue(n, d)
        PROVE  job'[c].id \notin done'
    BY <1>2, <1>8, <2>4 DEF Enqueue, Working, consumerVars, faultVars
  <2>5. CASE Observe \/ Tick \/ UNCHANGED vars
    BY <1>2, <1>8, <2>5 DEF Observe, Tick, vars, brokerVars, consumerVars, faultVars, Working
  <2>6. QED
    BY <1>4, <1>5, <2>1, <2>2, <2>3, <2>4, <2>5 DEF Next, Step
<1>9. QED
  BY <1>6, <1>7, <1>8

OutcomeInv == TypeInv /\ Timers /\ AuditInv /\ LeaseInv /\ NothingLate /\ LeasesAreWorkedOn /\ OnceInv

LEMMA OutcomeInvariant == Spec => []OutcomeInv
<1>1. Init => Timers /\ LeaseInv
  BY DEF Init, Timers, LeaseInv, Working, Calling, NoJob
<1>2. Init => NothingLate /\ LeasesAreWorkedOn /\ OnceInv
  BY DEF Init, NothingLate, LeasesAreWorkedOn, Leased, OnceInv, NewTask
<1>3. OutcomeInv /\ [Next]_vars => OutcomeInv'
  BY TypeStep, TimersStep, AuditStep, LeaseStep, NothingLateStep, WorkedOnStep, OnceStep
  DEF OutcomeInv
<1>4. QED
  BY <1>1, <1>2, <1>3, TypeInit, AuditInit, PTL DEF Spec, OutcomeInv

(* The audit that run.py makes at the end of real() holds in every run     *)
(* without faults, for any number of Pods and tasks: if the grace covers   *)
(* two timeouts and the slack, every task is claimed at most once and no   *)
(* ack is rejected, scale-downs included.                                  *)
THEOREM ClaimedOnce == Spec => []OnceWithoutFaults
<1>1. OutcomeInv => OnceWithoutFaults
  BY DEF OutcomeInv, OnceInv, OnceWithoutFaults
<1>2. QED
  BY <1>1, OutcomeInvariant, PTL

(* As long as no call fails and nothing dies, a consumer whose loop has    *)
(* returned on SIGTERM leaves no unfinished lease behind, even if leases   *)
(* are too short for the work.                                             *)
THEOREM DrainIsClean == Spec => []DrainLeavesNothing
<1>1. OutcomeInv => DrainLeavesNothing
  <2> SUFFICES ASSUME LeasesAreWorkedOn, FaultFree, NEW c \in Consumers,
                      pc[c] \in {"returned", "exited"}, NEW i \in TaskId, Leased(i)
               PROVE  tasks[i].worker # c
    BY DEF OutcomeInv, DrainLeavesNothing
  <2>1. QED
    BY DEF LeasesAreWorkedOn, Working
<1>2. QED
  BY <1>1, OutcomeInvariant, PTL

----------------------------------------------------------------------------
(* The broker implements the abstract queue of LeaseQueue: every handler   *)
(* of main.go is one step of it, or none.                                  *)

\* What a slot of the abstract queue shows of task i.
LEMMA ViewAt ==
  ASSUME NEW i \in TaskId
  PROVE  /\ QueueView[i] = [phase |-> Phase(i), owner |-> tasks[i].worker]
         /\ QueueView[i].phase = Phase(i) /\ QueueView[i].owner = tasks[i].worker
BY DEF QueueView

\* The leases that reap() takes back.
ExpiredNow == {i \in TaskId : Expired(i)}

\* The phase of task i once they are taken back.
PhaseAfterReap(i) ==
  IF i > accepted THEN "absent"
  ELSE IF i \in done THEN "done"
  ELSE IF Reaped[i].worker = NoWorker THEN "pending" ELSE "leased"

\* reap() takes leases back and does nothing else.
LEMMA ReapReleases ==
  ASSUME BrokerTypeOK, AuditInv
  PROVE  /\ ExpiredNow \in SUBSET Queue!Leases
         /\ \A i \in TaskId : Queue!Without(ExpiredNow)[i] =
              [phase |-> PhaseAfterReap(i), owner |-> Reaped[i].worker]
         /\ \A i \in TaskId : Queue!Without(ExpiredNow)[i].phase = PhaseAfterReap(i)
<1>1. ASSUME NEW i \in TaskId, Expired(i)
      PROVE  /\ QueueView[i].phase = "leased"
             /\ PhaseAfterReap(i) = "pending" /\ Reaped[i].worker = NoWorker
  <2>1. i \notin done /\ tasks[i].worker # NoWorker /\ ~(i > accepted)
    BY <1>1, BeyondTheEnd DEF Expired, Leased
  <2>2. Reaped[i].worker = NoWorker
    BY <1>1 DEF Reaped, NewTask
  <2>3. Phase(i) = "leased"
    BY <2>1 DEF Phase
  <2>4. PhaseAfterReap(i) = "pending"
    BY <2>1, <2>2 DEF PhaseAfterReap
  <2>5. QED
    BY <2>2, <2>3, <2>4, ViewAt
<1>2. ASSUME NEW i \in TaskId, ~Expired(i)
      PROVE  QueueView[i] = [phase |-> PhaseAfterReap(i), owner |-> Reaped[i].worker]
  <2>1. Reaped[i] = tasks[i]
    BY <1>2 DEF Reaped
  <2>2. QED
    BY <2>1, ViewAt DEF Phase, PhaseAfterReap
<1>3. ExpiredNow \in SUBSET Queue!Leases
  BY <1>1 DEF ExpiredNow, Queue!Leases, Queue!Slots, TaskId
<1>4. ASSUME NEW i \in TaskId
      PROVE  Queue!Without(ExpiredNow)[i] =
               [phase |-> PhaseAfterReap(i), owner |-> Reaped[i].worker]
  BY <1>1, <1>2 DEF ExpiredNow, Queue!Without, Queue!Entry, Queue!Slots, TaskId
<1>5. ASSUME NEW i \in TaskId
      PROVE  Queue!Without(ExpiredNow)[i].phase = PhaseAfterReap(i)
  <2>1. [phase |-> PhaseAfterReap(i), owner |-> Reaped[i].worker].phase = PhaseAfterReap(i)
    OBVIOUS
  <2>2. QED
    BY <1>4, <2>1, Zenon
<1>6. QED
  BY <1>3, <1>4, <1>5

\* /enqueue appends to the queue.
LEMMA EnqueueAdds ==
  ASSUME TypeOK, AuditInv, NEW n \in TaskId, NEW d \in Durations, Enqueue(n, d)
  PROVE  Queue!Next
<1>1. /\ accepted \in Nat /\ n \in Nat \ {0} /\ accepted + n <= MaxTasks
      /\ accepted + 1 \in Queue!Slots /\ accepted + n \in Queue!Slots
  BY BoundAssumption DEF Enqueue, TypeOK, BrokerTypeOK, TaskId, Queue!Slots
<1>2. ASSUME NEW i \in TaskId
      PROVE  QueueView[i].phase = "absent" <=> i >= accepted + 1
  <2>1. (i > accepted) <=> (i >= accepted + 1)
    BY <1>1 DEF TaskId
  <2>2. Phase(i) = "absent" <=> i > accepted
    BY DEF Phase
  <2>3. QED
    BY <2>1, <2>2, ViewAt
<1>3. ASSUME NEW i \in TaskId
      PROVE  QueueView'[i] = IF i \in (accepted + 1)..(accepted + n)
                             THEN Queue!Entry("pending", NoWorker) ELSE QueueView[i]
  <2>1. QueueView'[i] = [phase |-> Phase(i)', owner |-> tasks'[i].worker]
    BY DEF QueueView
  <2>2. CASE i \in (accepted + 1)..(accepted + n)
    <3>1. tasks'[i].worker = NoWorker /\ accepted' = accepted + n /\ done' = done
      BY <1>3, <2>2 DEF Enqueue, NewTask
    <3>2. ~(i > accepted') /\ i > accepted
      BY <1>1, <2>2, <3>1
    <3>3. i \notin done'
      BY <3>1, <3>2, BeyondTheEnd
    <3>4. QED
      BY <2>1, <2>2, <3>1, <3>2, <3>3 DEF Phase, Queue!Entry
  <2>3. CASE i \notin (accepted + 1)..(accepted + n)
    <3>1. tasks'[i] = tasks[i] /\ accepted' = accepted + n /\ done' = done
      BY <1>3, <2>3 DEF Enqueue
    <3>2. (i > accepted') <=> (i > accepted)
      BY <1>1, <2>3, <3>1 DEF TaskId
    <3>3. QED
      BY <2>1, <2>3, <3>1, <3>2, ViewAt DEF Phase
  <2>4. QED
    BY <2>2, <2>3
<1>4. QueueView' = [i \in Queue!Slots |-> IF i \in (accepted + 1)..(accepted + n)
                                          THEN Queue!Entry("pending", NoWorker)
                                          ELSE QueueView[i]]
  BY <1>3 DEF QueueView, Queue!Slots, TaskId
<1>5. Queue!Add(accepted + 1, accepted + n)
  BY <1>2, <1>4 DEF Queue!Add, Queue!Slots, TaskId
<1>6. QED
  BY <1>1, <1>5 DEF Queue!Next

\* A request to the broker takes back leases, and may grant or finish one task.
LEMMA HandlerServes ==
  ASSUME TypeOK, AuditInv, Handler
  PROVE  [Queue!Next]_QueueView
<1> DEFINE E == ExpiredNow
           After(i) == [phase |-> PhaseAfterReap(i), owner |-> Reaped[i].worker]
<1>1. BrokerTypeOK /\ accepted \in Nat
  BY DEF TypeOK, BrokerTypeOK
<1>2. /\ E \in SUBSET Queue!Leases
      /\ \A i \in TaskId : Queue!Without(E)[i] = After(i)
      /\ \A i \in TaskId : Queue!Without(E)[i].phase = PhaseAfterReap(i)
  BY <1>1, ReapReleases
<1>3. Queue!Slots = TaskId
  BY DEF Queue!Slots, TaskId
<1>4. Queue!Without(E) = [i \in TaskId |-> After(i)]
  BY <1>2, <1>3 DEF Queue!Without
<1> HIDE DEF E, After
<1>5. ASSUME Reap, UNCHANGED <<accepted, done>>
      PROVE  [Queue!Next]_QueueView
  <2>1. ASSUME NEW i \in TaskId PROVE QueueView'[i] = After(i)
    BY <1>5 DEF QueueView, Phase, Reap, After, PhaseAfterReap
  <2>2. QueueView' = Queue!Without(E)
    BY <1>4, <2>1 DEF QueueView
  <2>3. CASE E = {}
    BY <1>3, <2>2, <2>3 DEF Queue!Without, QueueView
  <2>4. CASE E # {}
    BY <1>2, <2>2, <2>4 DEF Queue!Next, Queue!Release
  <2>5. QED
    BY <2>3, <2>4
<1>6. ASSUME NEW w \in Consumers, NEW j \in TaskId, Grant(w, j)
      PROVE  [Queue!Next]_QueueView
  <2>1. UNCHANGED <<accepted, done>> /\ j \in Free /\ \A i \in Free : j <= i
    BY <1>6 DEF Grant, FirstFree
  <2>2. ASSUME NEW i \in TaskId PROVE PhaseAfterReap(i) = "pending" <=> i \in Free
    BY <1>1 DEF PhaseAfterReap, Free, TaskId
  <2>3. Queue!Without(E)[j].phase = "pending"
    BY <1>2, <2>1, <2>2
  <2>4. \A i \in Queue!Slots : i < j => Queue!Without(E)[i].phase # "pending"
    <3>1. ASSUME NEW i \in TaskId, i < j PROVE i \notin Free
      BY <2>1, <3>1 DEF TaskId
    <3>2. QED
      BY <1>2, <1>3, <2>2, <3>1
  <2>5. ASSUME NEW i \in TaskId, i # j PROVE QueueView'[i] = After(i)
    <3>1. tasks'[i] = Reaped[i]
      BY <1>1, <1>6, <2>5, ReapType DEF Grant
    <3>2. QED
      BY <2>1, <3>1 DEF QueueView, Phase, After, PhaseAfterReap
  <2>6. QueueView'[j] = Queue!Entry("leased", w)
    <3>1. tasks'[j].worker = w /\ w # NoWorker
      BY <1>1, <1>6, ReapType, ConsumerAssumption DEF Grant
    <3>2. ~(j > accepted) /\ j \notin done
      BY <1>1, <2>1 DEF Free, TaskId
    <3>3. Phase(j)' = "leased"
      BY <2>1, <3>1, <3>2 DEF Phase
    <3>4. QED
      BY <3>1, <3>3 DEF QueueView, Queue!Entry
  <2>7. QueueView' = [Queue!Without(E) EXCEPT ![j] = Queue!Entry("leased", w)]
    BY <1>4, <2>5, <2>6 DEF QueueView
  <2>8. Queue!Take(E, j, w)
    BY <2>3, <2>4, <2>7 DEF Queue!Take
  <2>9. QED
    BY <1>2, <1>3, <2>8 DEF Queue!Next
<1>7. ASSUME NEW j \in 0..MaxTasks, NEW w \in Consumers, NEW n \in Nat, AckDone(j, w, n)
      PROVE  [Queue!Next]_QueueView
  <2>1. /\ accepted' = accepted /\ done' = done \cup {j} /\ j \in 1..accepted /\ j \in TaskId
        /\ j \notin done /\ Reaped[j].worker = w /\ w # NoWorker /\ ~(j > accepted)
    BY <1>7, BoundAssumption, ConsumerAssumption
    DEF AckDone, MayAck, TypeOK, BrokerTypeOK, TaskId
  <2>2. ~Expired(j)
    BY <2>1 DEF Reaped, NewTask
  <2>3. tasks[j].worker = w
    BY <2>1, <2>2 DEF Reaped
  <2>4. Phase(j) = "leased"
    BY <2>1, <2>3 DEF Phase
  <2>5. j \in Queue!Leases \ E /\ QueueView[j].owner = w
    BY <1>3, <2>1, <2>2, <2>3, <2>4, ViewAt DEF Queue!Leases, E, ExpiredNow
  <2>6. ASSUME NEW i \in TaskId, i # j PROVE QueueView'[i] = After(i)
    <3>1. tasks'[i] = Reaped[i]
      BY <1>1, <1>7, <2>6, ReapType DEF AckDone
    <3>2. i \in done' <=> i \in done
      BY <2>1, <2>6
    <3>3. QED
      BY <2>1, <3>1, <3>2 DEF QueueView, Phase, After, PhaseAfterReap
  <2>7. QueueView'[j] = Queue!Entry("done", w)
    <3>1. Reaped[j] \in Task
      BY <1>1, <2>1, ReapType
    <3>2. tasks'[j].worker = w
      BY <1>1, <1>7, <2>1, <3>1, ReapType DEF AckDone, Task
    <3>3. Phase(j)' = "done"
      BY <2>1 DEF Phase
    <3>4. QED
      BY <2>1, <3>2, <3>3 DEF QueueView, Queue!Entry
  <2>8. QueueView' = [Queue!Without(E) EXCEPT ![j] = Queue!Entry("done", QueueView[j].owner)]
    BY <1>4, <2>5, <2>6, <2>7 DEF QueueView
  <2>9. Queue!Finish(E, j)
    BY <2>5, <2>8 DEF Queue!Finish
  <2>10. QED
    BY <1>2, <1>3, <2>1, <2>9 DEF Queue!Next
<1>8. QED
  BY <1>5, <1>6, <1>7 DEF Handler, Reaping, AckConflict

\* Every step of the broker and its consumers is a step of the abstract queue.
LEMMA StepServes == TypeInv /\ AuditInv /\ [Next]_vars => [Queue!Next]_QueueView
<1> SUFFICES ASSUME TypeOK, AuditInv, [Next]_vars PROVE [Queue!Next]_QueueView
  BY DEF TypeInv
<1>1. CASE \E n \in TaskId, d \in Durations : Enqueue(n, d)
  BY <1>1, EnqueueAdds
<1>2. CASE Handler
  BY <1>2, HandlerServes
<1>3. CASE Tick
  <2>1. ASSUME NEW i \in TaskId PROVE tasks'[i].worker = tasks[i].worker
    <3>1. tasks[i] \in Task
      BY DEF TypeOK, BrokerTypeOK
    <3>2. QED
      BY <1>3, <3>1 DEF Tick, Task
  <2>2. accepted' = accepted /\ done' = done
    BY <1>3 DEF Tick
  <2>3. QED
    BY <2>1, <2>2 DEF QueueView, Phase
<1>4. CASE BrokerRestart
  <2>1. accepted' = 0 /\ \A i \in TaskId : tasks'[i].worker = NoWorker
    BY <1>4 DEF BrokerRestart, NewTask
  <2>2. ASSUME NEW i \in TaskId PROVE Phase(i)' = "absent"
    BY <2>1 DEF Phase, TaskId
  <2>3. QueueView' = [i \in Queue!Slots |-> Queue!Entry("absent", NoWorker)]
    BY <2>1, <2>2 DEF QueueView, Queue!Slots, TaskId, Queue!Entry
  <2>4. QED
    BY <2>3 DEF Queue!Next, Queue!Reset
<1>5. CASE UNCHANGED brokerVars
  BY <1>5 DEF brokerVars, QueueView, Phase
<1>6. QED
  BY <1>1, <1>2, <1>3, <1>4, <1>5, StepKinds

(* The broker of main.go implements the abstract queue, whatever the       *)
(* consumers, the network and the clock do: tasks enter at the end, the    *)
(* oldest pending one is leased to one worker, a lease goes back to        *)
(* pending or is finished by its owner, and nothing leaves "done" but by a *)
(* restart of the broker.                                                  *)
THEOREM BrokerIsLeaseQueue == Spec => ImplementsLeaseQueue
<1>1. Init => Queue!Init
  <2> SUFFICES ASSUME Init PROVE Queue!Init
    OBVIOUS
  <2>1. ASSUME NEW i \in TaskId PROVE Phase(i) = "absent" /\ tasks[i].worker = NoWorker
    BY DEF Init, Phase, TaskId, NewTask
  <2>2. QED
    BY <2>1 DEF QueueView, Queue!Init, Queue!Slots, TaskId, Queue!Entry
<1>2. QED
  BY <1>1, TypeInit, TypeStep, AuditInit, AuditStep, StepServes, PTL
  DEF Spec, ImplementsLeaseQueue, Queue!Spec

----------------------------------------------------------------------------
(* The counters of /metrics against the event log.                         *)

\* How many events of a kind a log holds.
CountIn(log, k) == Cardinality({x \in 1..Len(log) : log[x].kind = k})

\* What the numbers of a task's events say of its Done, Worker and Attempts.
Tally(status, w, n, log) ==
  /\ CountIn(log, "claim") = n
  /\ CountIn(log, "ack") = IF status = "done" THEN 1 ELSE 0
  /\ CountIn(log, "expired") = n - (IF status = "done" \/ w # NoWorker THEN 1 ELSE 0)

TallyInv == \A i \in TaskId : Tally(Status(i), tasks[i].worker, tasks[i].attempts, events[i])

LEMMA EmptyLog ==
  ASSUME NEW k
  PROVE  CountIn(<<>>, k) = 0
<1>1. {x \in 1..Len(<<>>) : <<>>[x].kind = k} = {}
  OBVIOUS
<1> QED
  BY <1>1, FS_EmptySet DEF CountIn

\* An event adds one to its kind.
LEMMA OneMore ==
  ASSUME NEW log \in Seq(Event), NEW e \in Event, NEW k
  PROVE  /\ CountIn(log, k) \in Nat
         /\ CountIn(Append(log, e), k) = CountIn(log, k) + (IF e.kind = k THEN 1 ELSE 0)
<1> DEFINE m == Len(log)
           new == Append(log, e)
           A == {x \in 1..m : log[x].kind = k}
           B == {x \in 1..(m + 1) : new[x].kind = k}
<1>1. m \in Nat /\ Len(new) = m + 1 /\ new[m + 1] = e /\ \A x \in 1..m : new[x] = log[x]
  OBVIOUS
<1>2. CountIn(log, k) = Cardinality(A) /\ CountIn(new, k) = Cardinality(B)
  BY <1>1 DEF CountIn
<1> HIDE DEF m, new
<1>3. IsFiniteSet(A)
  <2>1. IsFiniteSet(1..m)
    BY <1>1, FS_Interval
  <2>2. A \in SUBSET (1..m)
    OBVIOUS
  <2> QED
    BY <2>1, <2>2, FS_Subset, Zenon
<1>4. Cardinality(A) \in Nat
  BY <1>3, FS_CardinalityType, Zenon
<1>5. m + 1 \notin A
  BY <1>1
<1>6. \A x \in 1..(m + 1) : x = m + 1 \/ x \in 1..m
  BY <1>1
<1>7. CASE e.kind = k
  <2>1. B = A \cup {m + 1}
    BY <1>1, <1>6, <1>7
  <2> HIDE DEF A, B
  <2>2. Cardinality(A \cup {m + 1}) = IF m + 1 \in A THEN Cardinality(A) ELSE Cardinality(A) + 1
    BY <1>3, FS_AddElement, Zenon
  <2> QED
    BY <1>2, <1>4, <1>5, <1>7, <2>1, <2>2 DEF new
<1>8. CASE e.kind # k
  <2>1. B = A
    BY <1>1, <1>6, <1>8
  <2> HIDE DEF A, B
  <2> QED
    BY <1>2, <1>4, <1>8, <2>1 DEF new
<1> QED
  BY <1>7, <1>8

LEMMA TallyExpire ==
  ASSUME NEW w \in Consumers, NEW n \in Nat, NEW log \in Seq(Event), Tally("open", w, n, log)
  PROVE  Tally("open", NoWorker, n, Append(log, [kind |-> "expired", worker |-> w, attempt |-> n]))
<1> DEFINE e == [kind |-> "expired", worker |-> w, attempt |-> n]
<1>1. e \in Event /\ e.kind = "expired" /\ w # NoWorker
  BY ConsumerAssumption DEF Event
<1> HIDE DEF e
<1>2. \A k : /\ CountIn(log, k) \in Nat
             /\ CountIn(Append(log, e), k) = CountIn(log, k) + (IF e.kind = k THEN 1 ELSE 0)
  BY <1>1, OneMore
<1>3. Tally("open", NoWorker, n, Append(log, e))
  BY <1>1, <1>2 DEF Tally
<1> QED
  BY <1>3 DEF e

LEMMA TallyClaim ==
  ASSUME NEW w \in Consumers, NEW n \in Nat, NEW log \in Seq(Event), Tally("open", NoWorker, n, log)
  PROVE  Tally("open", w, n + 1, Append(log, [kind |-> "claim", worker |-> w, attempt |-> n + 1]))
<1> DEFINE e == [kind |-> "claim", worker |-> w, attempt |-> n + 1]
<1>1. e \in Event /\ e.kind = "claim" /\ w # NoWorker
  BY ConsumerAssumption DEF Event
<1> HIDE DEF e
<1>2. \A k : /\ CountIn(log, k) \in Nat
             /\ CountIn(Append(log, e), k) = CountIn(log, k) + (IF e.kind = k THEN 1 ELSE 0)
  BY <1>1, OneMore
<1>3. Tally("open", w, n + 1, Append(log, e))
  BY <1>1, <1>2 DEF Tally
<1> QED
  BY <1>3 DEF e

LEMMA TallyAck ==
  ASSUME NEW w \in Consumers, NEW n \in Nat, NEW a \in Nat, NEW log \in Seq(Event), Tally("open", w, n, log)
  PROVE  Tally("done", w, n, Append(log, [kind |-> "ack", worker |-> w, attempt |-> a]))
<1> DEFINE e == [kind |-> "ack", worker |-> w, attempt |-> a]
<1>1. e \in Event /\ e.kind = "ack" /\ w # NoWorker
  BY ConsumerAssumption DEF Event
<1> HIDE DEF e
<1>2. \A k : /\ CountIn(log, k) \in Nat
             /\ CountIn(Append(log, e), k) = CountIn(log, k) + (IF e.kind = k THEN 1 ELSE 0)
  BY <1>1, OneMore
<1>3. Tally("done", w, n, Append(log, e))
  BY <1>1, <1>2 DEF Tally
<1> QED
  BY <1>3 DEF e

LEMMA TallyInit == Init => TallyInv
<1> SUFFICES ASSUME Init, NEW i \in TaskId
             PROVE  Tally(Status(i), tasks[i].worker, tasks[i].attempts, events[i])
  BY DEF TallyInv
<1>1. Status(i) = "open" /\ tasks[i].worker = NoWorker /\ tasks[i].attempts = 0 /\ events[i] = <<>>
  BY DEF Init, NewTask, Status
<1>2. \A k : CountIn(<<>>, k) = 0
  BY EmptyLog
<1> QED
  BY <1>1, <1>2 DEF Tally

\* After a reap the tally of every task still holds.
LEMMA ReapTally ==
  ASSUME BrokerTypeOK, TallyInv, NEW i \in TaskId
  PROVE  /\ Tally(Status(i), Reaped[i].worker, Reaped[i].attempts, ReapedEvents[i])
         /\ Reaped[i].attempts = tasks[i].attempts
<1>1. tasks[i] \in Task /\ events[i] \in Seq(Event)
  BY DEF BrokerTypeOK
<1>2. CASE ~Expired(i)
  BY <1>1, <1>2 DEF Reaped, ReapedEvents, TallyInv
<1>3. CASE Expired(i)
  <2>1. /\ Reaped[i].worker = NoWorker /\ Reaped[i].attempts = tasks[i].attempts
        /\ ReapedEvents[i] = Append(events[i], [kind |-> "expired",
                                worker |-> tasks[i].worker, attempt |-> tasks[i].attempts])
    BY <1>3 DEF Reaped, ReapedEvents, NewTask
  <2>2. i \notin done /\ tasks[i].worker \in Consumers /\ tasks[i].attempts \in Nat
    BY <1>1, <1>3 DEF Expired, Leased, Task, Worker
  <2>3. Status(i) = "open"
    BY <2>2 DEF Status
  <2>4. Tally("open", tasks[i].worker, tasks[i].attempts, events[i])
    BY <2>3 DEF TallyInv
  <2>5. Tally("open", NoWorker, tasks[i].attempts, ReapedEvents[i])
    BY <1>1, <2>1, <2>2, <2>4, TallyExpire
  <2>6. QED
    BY <2>1, <2>3, <2>5
<1>4. QED
  BY <1>2, <1>3

LEMMA HandlerTally ==
  ASSUME BrokerTypeOK, TallyInv, Handler
  PROVE  TallyInv'
<1>1. ASSUME Reap, UNCHANGED <<accepted, done>>
      PROVE  TallyInv'
  <2>1. ASSUME NEW i \in TaskId
        PROVE  Tally(Status(i)', tasks'[i].worker, tasks'[i].attempts, events'[i])
    BY <1>1, ReapTally DEF Reap, Status
  <2>2. QED
    BY <2>1 DEF TallyInv
<1>2. ASSUME NEW w \in Consumers, NEW j \in TaskId, Grant(w, j)
      PROVE  TallyInv'
  <2>1. j \notin done /\ Reaped[j].worker = NoWorker
    BY <1>2 DEF Grant, FirstFree, Free
  <2>2. tasks[j].attempts \in Nat /\ ReapedEvents[j] \in Seq(Event)
    BY ReapType DEF BrokerTypeOK, Task
  <2>3. Tally("open", w, tasks[j].attempts + 1,
              Append(ReapedEvents[j], [kind |-> "claim", worker |-> w,
                                       attempt |-> tasks[j].attempts + 1]))
    BY <2>1, <2>2, ReapTally, TallyClaim DEF Status
  <2>4. ASSUME NEW i \in TaskId
        PROVE  Tally(Status(i)', tasks'[i].worker, tasks'[i].attempts, events'[i])
    <3>1. CASE i = j
      <4>1. /\ tasks'[j].worker = w /\ tasks'[j].attempts = tasks[j].attempts + 1
            /\ events'[j] = Append(ReapedEvents[j], [kind |-> "claim", worker |-> w,
                                                     attempt |-> tasks[j].attempts + 1])
            /\ done' = done
        BY <1>2, ReapType DEF Grant
      <4>2. QED
        BY <2>1, <2>3, <3>1, <4>1 DEF Status
    <3>2. CASE i # j
      BY <1>2, <3>2, ReapTally, ReapType DEF Grant, Status
    <3>3. QED
      BY <3>1, <3>2
  <2>5. QED
    BY <2>4 DEF TallyInv
<1>3. ASSUME NEW j \in 0..MaxTasks, NEW w \in Consumers, NEW n \in Nat, AckDone(j, w, n)
      PROVE  TallyInv'
  <2>1. j \in TaskId /\ j \notin done /\ Reaped[j].worker = w
    BY <1>3, BoundAssumption DEF AckDone, MayAck, BrokerTypeOK, TaskId
  <2>2. tasks[j].attempts \in Nat /\ ReapedEvents[j] \in Seq(Event)
    BY <2>1, ReapType DEF BrokerTypeOK, Task
  <2>3. Tally("done", w, tasks[j].attempts,
              Append(ReapedEvents[j], [kind |-> "ack", worker |-> w, attempt |-> n]))
    BY <2>1, <2>2, ReapTally, TallyAck DEF Status
  <2>4. ASSUME NEW i \in TaskId
        PROVE  Tally(Status(i)', tasks'[i].worker, tasks'[i].attempts, events'[i])
    <3>1. CASE i = j
      <4>1. Reaped[j] \in Task
        BY <2>1, ReapType
      <4>2. /\ tasks'[j].worker = w /\ tasks'[j].attempts = tasks[j].attempts
            /\ events'[j] = Append(ReapedEvents[j],
                                   [kind |-> "ack", worker |-> w, attempt |-> n])
            /\ j \in done'
        BY <1>3, <2>1, <4>1, ReapType, ReapTally DEF AckDone, Task
      <4>3. QED
        BY <2>1, <2>3, <3>1, <4>2 DEF Status
    <3>2. CASE i # j
      <4>1. tasks'[i] = Reaped[i] /\ events'[i] = ReapedEvents[i] /\ Status(i)' = Status(i)
        BY <1>3, <3>2, ReapType DEF AckDone, Status
      <4>2. QED
        BY <4>1, ReapTally
    <3>3. QED
      BY <3>1, <3>2
  <2>5. QED
    BY <2>4 DEF TallyInv
<1>4. QED
  BY <1>1, <1>2, <1>3 DEF Handler, Reaping, AckConflict

LEMMA TallyStep == TypeInv /\ AuditInv /\ TallyInv /\ [Next]_vars => TallyInv'
<1> SUFFICES ASSUME TypeOK, AuditInv, TallyInv, [Next]_vars PROVE TallyInv'
  BY DEF TypeInv
<1>1. ASSUME NEW n \in TaskId, NEW d \in Durations, Enqueue(n, d) PROVE TallyInv'
  <2>1. ASSUME NEW i \in TaskId
        PROVE  Tally(Status(i)', tasks'[i].worker, tasks'[i].attempts, events'[i])
    <3>1. events'[i] = events[i] /\ Status(i)' = Status(i)
      BY <1>1 DEF Enqueue, Status
    <3>3. CASE i \in (accepted + 1)..(accepted + n)
      <4>1. tasks'[i].worker = NoWorker /\ tasks'[i].attempts = 0
        BY <1>1, <3>3 DEF Enqueue, NewTask
      <4>2. events[i] = <<>>
        BY <3>3, BoundAssumption DEF AuditInv, Fresh, TypeOK, BrokerTypeOK, TaskId
      <4>3. tasks[i].worker = NoWorker /\ tasks[i].attempts = 0
        BY <4>2 DEF AuditInv, AuditTrail, Trail, AgreesWithLog
      <4>4. QED
        BY <3>1, <4>1, <4>3 DEF TallyInv
    <3>4. CASE i \notin (accepted + 1)..(accepted + n)
      BY <1>1, <3>1, <3>4 DEF Enqueue, TallyInv
    <3>5. QED
      BY <3>3, <3>4
  <2>2. QED
    BY <2>1 DEF TallyInv
<1>2. CASE Handler
  BY <1>2, HandlerTally DEF TypeOK
<1>3. CASE Tick
  <2>1. ASSUME NEW i \in TaskId
        PROVE  /\ tasks'[i].worker = tasks[i].worker /\ tasks'[i].attempts = tasks[i].attempts
               /\ Status(i)' = Status(i) /\ events'[i] = events[i]
    <3>1. tasks[i] \in Task
      BY DEF TypeOK, BrokerTypeOK
    <3>2. QED
      BY <1>3, <3>1 DEF Tick, Status, Task
  <2>2. QED
    BY <2>1 DEF TallyInv
<1>4. CASE BrokerRestart
  <2>1. ASSUME NEW i \in TaskId
        PROVE  Tally(Status(i)', tasks'[i].worker, tasks'[i].attempts, events'[i])
    <3>1. Status(i)' = "open" /\ tasks'[i].worker = NoWorker /\ tasks'[i].attempts = 0 /\ events'[i] = <<>>
      BY <1>4 DEF BrokerRestart, NewTask, Status
    <3>2. \A k : CountIn(<<>>, k) = 0
      BY EmptyLog
    <3>3. QED
      BY <3>1, <3>2 DEF Tally
  <2>2. QED
    BY <2>1 DEF TallyInv
<1>5. CASE UNCHANGED brokerVars
  BY <1>5 DEF brokerVars, TallyInv, Status
<1>6. QED
  BY <1>1, <1>2, <1>3, <1>4, <1>5, StepKinds

\* What AllLogged sums up.
LoggedSums(S, k) ==
  \E g : Sums(g, [i \in S |-> Logged(i, k)], S) /\ g[S] = MapThenSumSet(LAMBDA i : Logged(i, k), S)

LEMMA LoggedSum ==
  ASSUME NEW S, IsFiniteSet(S), NEW k, \A i \in S : Logged(i, k) \in Int
  PROVE  LoggedSums(S, k)
<1> DEFINE f == [i \in S |-> Logged(i, k)]
           Is(it) == it = [t \in SUBSET S |-> IF t = {} THEN 0 ELSE Logged(Pick(t), k) + it[t \ {Pick(t)}]]
           iter == CHOOSE it : Is(it)
<1>1. f \in [S -> Int]
  OBVIOUS
<1> HIDE DEF f
<1>2. PICK g \in [SUBSET S -> Int] : Sums(g, f, S)
  BY <1>1, SumsExist, Zenon
<1>3. ASSUME NEW t \in SUBSET S, t # {} PROVE Pick(t) \in S /\ f[Pick(t)] = Logged(Pick(t), k)
  <2>1. Pick(t) \in S
    BY <1>3, Picked
  <2> QED
    BY <2>1 DEF f
<1>4. Is(g)
  <2>1. ASSUME NEW t \in SUBSET S
        PROVE  g[t] = IF t = {} THEN 0 ELSE Logged(Pick(t), k) + g[t \ {Pick(t)}]
    <3>1. CASE t = {}
      BY <1>2, <3>1 DEF Sums
    <3>2. CASE t # {}
      BY <1>2, <1>3, <3>2 DEF Sums
    <3> QED
      BY <3>1, <3>2
  <2> QED
    BY <2>1
<1>5. Is(iter)
  BY <1>4, Zenon
<1>6. MapThenSumSet(LAMBDA i : Logged(i, k), S) = iter[S]
  BY Zenon DEF MapThenSumSet, MapThenFoldSet, Pick
<1> HIDE DEF iter
<1>7. Sums(iter, f, S)
  <2>1. ASSUME NEW t \in SUBSET S
        PROVE  iter[t] = IF t = {} THEN 0 ELSE f[Pick(t)] + iter[t \ {Pick(t)}]
    <3>1. CASE t = {}
      BY <1>5, <3>1
    <3>2. CASE t # {}
      BY <1>3, <1>5, <3>2
    <3> QED
      BY <3>1, <3>2
  <2> QED
    BY <2>1, Zenon DEF Sums
<1> QED
  BY <1>6, <1>7, Zenon DEF f, LoggedSums

\* The retries of one task.
Again(i) == IF tasks[i].attempts > 1 THEN tasks[i].attempts - 1 ELSE 0

\* What counts() sums up.
LEMMA RetrySum ==
  ASSUME NEW S, IsFiniteSet(S), \A i \in S : Again(i) \in Int
  PROVE  \E g : Sums(g, [i \in S |-> Again(i)], S) /\ g[S] = MapThenSumSet(LAMBDA i : Again(i), S)
<1> DEFINE f == [i \in S |-> Again(i)]
           Is(it) == it = [t \in SUBSET S |-> IF t = {} THEN 0 ELSE Again(Pick(t)) + it[t \ {Pick(t)}]]
           iter == CHOOSE it : Is(it)
<1>1. f \in [S -> Int]
  OBVIOUS
<1> HIDE DEF f
<1>2. PICK g \in [SUBSET S -> Int] : Sums(g, f, S)
  BY <1>1, SumsExist, Zenon
<1>3. ASSUME NEW t \in SUBSET S, t # {} PROVE Pick(t) \in S /\ f[Pick(t)] = Again(Pick(t))
  <2>1. Pick(t) \in S
    BY <1>3, Picked
  <2> QED
    BY <2>1 DEF f
<1>4. Is(g)
  <2>1. ASSUME NEW t \in SUBSET S
        PROVE  g[t] = IF t = {} THEN 0 ELSE Again(Pick(t)) + g[t \ {Pick(t)}]
    <3>1. CASE t = {}
      BY <1>2, <3>1 DEF Sums
    <3>2. CASE t # {}
      BY <1>2, <1>3, <3>2 DEF Sums
    <3> QED
      BY <3>1, <3>2
  <2> QED
    BY <2>1
<1>5. Is(iter)
  BY <1>4, Zenon
<1>6. MapThenSumSet(LAMBDA i : Again(i), S) = iter[S]
  BY Zenon DEF MapThenSumSet, MapThenFoldSet, Pick
<1> HIDE DEF iter
<1>7. Sums(iter, f, S)
  <2>1. ASSUME NEW t \in SUBSET S
        PROVE  iter[t] = IF t = {} THEN 0 ELSE f[Pick(t)] + iter[t \ {Pick(t)}]
    <3>1. CASE t = {}
      BY <1>5, <3>1
    <3>2. CASE t # {}
      BY <1>3, <1>5, <3>2
    <3> QED
      BY <3>1, <3>2
  <2> QED
    BY <2>1, Zenon DEF Sums
<1> QED
  BY <1>6, <1>7, Zenon DEF f

Finished == {i \in 1..accepted : i \in done}
Inflight == {i \in 1..accepted : Leased(i)}
Claimed == {i \in 1..accepted : Logged(i, "claim") > 0}

\* counts(), field by field.
LEMMA CountsFields ==
  /\ Counts.pending = Cardinality((1..accepted) \ (Finished \cup Inflight))
  /\ Counts.inflight = Cardinality(Inflight)
  /\ Counts.completed = Cardinality(Finished)
  /\ Counts.retries = MapThenSumSet(LAMBDA i : Again(i), 1..accepted)
<1> DEFINE P == Cardinality((1..accepted) \ (Finished \cup Inflight))
           I == Cardinality(Inflight)
           C == Cardinality(Finished)
           R == MapThenSumSet(LAMBDA i : Again(i), 1..accepted)
<1>1. Counts = [pending |-> P, inflight |-> I, completed |-> C, retries |-> R]
  BY Zenon DEF Counts, Finished, Inflight, Again, MapThenSumSet, MapThenFoldSet
<1> HIDE DEF P, I, C, R
<1>2. Counts.pending = P /\ Counts.inflight = I /\ Counts.completed = C /\ Counts.retries = R
  BY <1>1
<1> QED
  BY <1>2, Zenon DEF P, I, C, R

\* What the log of an accepted task counts.
LEMMA TaskTally ==
  ASSUME BrokerTypeOK, TallyInv, NEW i \in 1..accepted
  PROVE  /\ tasks[i].attempts \in Nat /\ Logged(i, "claim") = tasks[i].attempts
         /\ Logged(i, "ack") = IF i \in Finished THEN 1 ELSE 0
         /\ Logged(i, "expired") = tasks[i].attempts - (IF i \in Finished \/ i \in Inflight THEN 1 ELSE 0)
<1>1. i \in TaskId
  BY BoundAssumption DEF BrokerTypeOK, TaskId
<1>2. tasks[i].attempts \in Nat
  BY <1>1 DEF BrokerTypeOK, Task
<1>3. Tally(Status(i), tasks[i].worker, tasks[i].attempts, events[i])
  BY <1>1 DEF TallyInv
<1>4. \A k : Logged(i, k) = CountIn(events[i], k)
  BY DEF Logged, CountIn
<1>5. Status(i) = "done" <=> i \in Finished
  BY DEF Status, Finished
<1>6. Status(i) = "done" \/ tasks[i].worker # NoWorker <=> i \in Finished \/ i \in Inflight
  BY DEF Status, Finished, Inflight, Leased
<1> QED
  BY <1>2, <1>3, <1>4, <1>5, <1>6 DEF Tally

\* The partial sums at their start, and how they grow.
Grows(g, f, S) ==
  /\ g[{}] = 0
  /\ \A t \in SUBSET S : t # {} =>
       /\ Pick(t) \in S /\ t \ {Pick(t)} \in SUBSET S
       /\ g[t] \in Int /\ g[t \ {Pick(t)}] \in Int
       /\ g[t] = f[Pick(t)] + g[t \ {Pick(t)}]

LEMMA SumsGrow ==
  ASSUME NEW S, IsFiniteSet(S), NEW f \in [S -> Int], NEW g, Sums(g, f, S)
  PROVE  Grows(g, f, S)
<1>1. {} \in SUBSET S
  OBVIOUS
<1>2. g[{}] = 0
  BY <1>1, Zenon DEF Sums
<1>3. \A t \in SUBSET S : g[t] \in Int
  BY SumsAreIntegers, Zenon
<1>4. ASSUME NEW t \in SUBSET S, t # {}
      PROVE  /\ Pick(t) \in S /\ t \ {Pick(t)} \in SUBSET S
             /\ g[t] \in Int /\ g[t \ {Pick(t)}] \in Int
             /\ g[t] = f[Pick(t)] + g[t \ {Pick(t)}]
  <2>1. Pick(t) \in S /\ t \ {Pick(t)} \in SUBSET S
    BY <1>4, Picked
  <2>2. g[t] = f[Pick(t)] + g[t \ {Pick(t)}]
    BY <1>4 DEF Sums
  <2> QED
    BY <1>3, <2>1, <2>2
<1> QED
  <2>1. \A t \in SUBSET S : t # {} =>
          /\ Pick(t) \in S /\ t \ {Pick(t)} \in SUBSET S
          /\ g[t] \in Int /\ g[t \ {Pick(t)}] \in Int
          /\ g[t] = f[Pick(t)] + g[t \ {Pick(t)}]
    BY <1>4
  <2> QED
    BY <1>2, <2>1, Zenon DEF Grows

LEMMA CountsFollow ==
  ASSUME BrokerTypeOK, TallyInv
  PROVE  CountsMatchEvents
<1> DEFINE S == 1..accepted
           fc == [i \in S |-> Logged(i, "claim")]
           fe == [i \in S |-> Logged(i, "expired")]
           fa == [i \in S |-> Logged(i, "ack")]
           fr == [i \in S |-> Again(i)]
<1>1. accepted \in Nat
  BY BoundAssumption DEF BrokerTypeOK
<1>2. IsFiniteSet(S) /\ Cardinality(S) = accepted
  BY <1>1, FS_Interval
<1>3. ASSUME NEW i \in S
      PROVE  /\ tasks[i].attempts \in Nat /\ Logged(i, "claim") = tasks[i].attempts
             /\ Logged(i, "ack") = IF i \in Finished THEN 1 ELSE 0
             /\ Logged(i, "expired") = tasks[i].attempts - (IF i \in Finished \/ i \in Inflight THEN 1 ELSE 0)
  BY TaskTally
<1>4. Finished \in SUBSET S /\ Inflight \in SUBSET S /\ Claimed \in SUBSET S
      /\ Finished \cap Inflight = {}
  BY DEF Finished, Inflight, Claimed, Leased
<1>5. ASSUME NEW i \in S PROVE i \in Claimed <=> Logged(i, "claim") > 0
  BY DEF Claimed
<1>6. ASSUME NEW i \in S
      PROVE  /\ Logged(i, "claim") \in Int /\ Logged(i, "expired") \in Int
             /\ Logged(i, "ack") \in Int /\ Again(i) \in Int
             /\ Again(i) = Logged(i, "claim") - (IF i \in Claimed THEN 1 ELSE 0)
             /\ Logged(i, "ack") = (IF i \in Finished THEN 1 ELSE 0)
             /\ Logged(i, "claim") - Logged(i, "expired") - Logged(i, "ack") = (IF i \in Inflight THEN 1 ELSE 0)
  <2> DEFINE n == tasks[i].attempts
  <2>1. n \in Nat /\ Again(i) = IF n > 1 THEN n - 1 ELSE 0
    BY <1>3 DEF Again
  <2> HIDE DEF n, S
  <2>2. /\ Logged(i, "claim") = n
        /\ Logged(i, "ack") = IF i \in Finished THEN 1 ELSE 0
        /\ Logged(i, "expired") = n - (IF i \in Finished \/ i \in Inflight THEN 1 ELSE 0)
    BY <1>3 DEF n
  <2>3. i \in Claimed <=> n > 0
    BY <1>5, <2>2
  <2>4. ~(i \in Finished /\ i \in Inflight)
    BY <1>4
  <2> QED
    BY <2>1, <2>2, <2>3, <2>4
<1> HIDE DEF S
<1>7. PICK gc : Sums(gc, fc, S) /\ gc[S] = MapThenSumSet(LAMBDA i : Logged(i, "claim"), S)
  <2>1. \A i \in S : Logged(i, "claim") \in Int
    BY <1>6
  <2>2. IsFiniteSet(S)
    BY <1>2
  <2>3. LoggedSums(S, "claim")
    BY <2>1, <2>2, LoggedSum, Zenon
  <2> QED
    BY <2>3, Zenon DEF LoggedSums
<1>8. PICK ge : Sums(ge, fe, S) /\ ge[S] = MapThenSumSet(LAMBDA i : Logged(i, "expired"), S)
  <2>1. \A i \in S : Logged(i, "expired") \in Int
    BY <1>6
  <2>2. IsFiniteSet(S)
    BY <1>2
  <2>3. LoggedSums(S, "expired")
    BY <2>1, <2>2, LoggedSum, Zenon
  <2> QED
    BY <2>3, Zenon DEF LoggedSums
<1>9. PICK ga : Sums(ga, fa, S) /\ ga[S] = MapThenSumSet(LAMBDA i : Logged(i, "ack"), S)
  <2>1. \A i \in S : Logged(i, "ack") \in Int
    BY <1>6
  <2>2. IsFiniteSet(S)
    BY <1>2
  <2>3. LoggedSums(S, "ack")
    BY <2>1, <2>2, LoggedSum, Zenon
  <2> QED
    BY <2>3, Zenon DEF LoggedSums
<1>10. PICK gr : Sums(gr, fr, S) /\ gr[S] = MapThenSumSet(LAMBDA i : Again(i), S)
  BY <1>2, <1>6, RetrySum
<1>11. fc \in [S -> Int] /\ fe \in [S -> Int] /\ fa \in [S -> Int] /\ fr \in [S -> Int]
  BY <1>6
<1>12. ASSUME NEW i \in S
       PROVE  fc[i] = Logged(i, "claim") /\ fe[i] = Logged(i, "expired") /\ fa[i] = Logged(i, "ack") /\ fr[i] = Again(i)
  OBVIOUS
<1> HIDE DEF fc, fe, fa, fr
<1>13. S \in SUBSET S
  OBVIOUS
<1>30. Grows(gc, fc, S) /\ Grows(ge, fe, S) /\ Grows(ga, fa, S) /\ Grows(gr, fr, S)
  <2>1. IsFiniteSet(S)
    BY <1>2
  <2>2. Grows(gc, fc, S)
    BY <1>7, <1>11, <2>1, SumsGrow, Zenon
  <2>3. Grows(ge, fe, S)
    BY <1>8, <1>11, <2>1, SumsGrow, Zenon
  <2>4. Grows(ga, fa, S)
    BY <1>9, <1>11, <2>1, SumsGrow, Zenon
  <2>5. Grows(gr, fr, S)
    BY <1>10, <1>11, <2>1, SumsGrow, Zenon
  <2> QED
    BY <2>2, <2>3, <2>4, <2>5
<1>14. gc[{}] = 0 /\ ge[{}] = 0 /\ ga[{}] = 0 /\ gr[{}] = 0
  BY <1>30, Zenon DEF Grows
<1>15. ASSUME NEW t \in SUBSET S, t # {}
       PROVE  /\ Pick(t) \in S /\ t \ {Pick(t)} \in SUBSET S
              /\ gc[t] \in Int /\ gc[t \ {Pick(t)}] \in Int /\ gc[t] = fc[Pick(t)] + gc[t \ {Pick(t)}]
              /\ ge[t] \in Int /\ ge[t \ {Pick(t)}] \in Int /\ ge[t] = fe[Pick(t)] + ge[t \ {Pick(t)}]
              /\ ga[t] \in Int /\ ga[t \ {Pick(t)}] \in Int /\ ga[t] = fa[Pick(t)] + ga[t \ {Pick(t)}]
              /\ gr[t] \in Int /\ gr[t \ {Pick(t)}] \in Int /\ gr[t] = fr[Pick(t)] + gr[t \ {Pick(t)}]
  <2>1. Pick(t) \in S /\ t \ {Pick(t)} \in SUBSET S
    BY <1>15, <1>30, Zenon DEF Grows
  <2>2. gc[t] \in Int /\ gc[t \ {Pick(t)}] \in Int /\ gc[t] = fc[Pick(t)] + gc[t \ {Pick(t)}]
    BY <1>15, <1>30, Zenon DEF Grows
  <2>3. ge[t] \in Int /\ ge[t \ {Pick(t)}] \in Int /\ ge[t] = fe[Pick(t)] + ge[t \ {Pick(t)}]
    BY <1>15, <1>30, Zenon DEF Grows
  <2>4. ga[t] \in Int /\ ga[t \ {Pick(t)}] \in Int /\ ga[t] = fa[Pick(t)] + ga[t \ {Pick(t)}]
    BY <1>15, <1>30, Zenon DEF Grows
  <2>5. gr[t] \in Int /\ gr[t \ {Pick(t)}] \in Int /\ gr[t] = fr[Pick(t)] + gr[t \ {Pick(t)}]
    BY <1>15, <1>30, Zenon DEF Grows
  <2> QED
    BY <2>1, <2>2, <2>3, <2>4, <2>5, Zenon
<1>16. gc[S] \in Int /\ ge[S] \in Int /\ ga[S] \in Int /\ gr[S] \in Int
  BY <1>2, <1>7, <1>8, <1>9, <1>10, <1>11, <1>13, SumsAreIntegers, Zenon
<1>17. ga[S] = Cardinality(Finished)
  <2>1. ASSUME NEW t \in SUBSET S, t # {}
        PROVE  ga[t] = (IF Pick(t) \in Finished THEN 1 ELSE 0) + ga[t \ {Pick(t)}]
    <3>1. Pick(t) \in S /\ ga[t] = fa[Pick(t)] + ga[t \ {Pick(t)}]
      BY <1>15, <2>1, Zenon
    <3>2. fa[Pick(t)] = (IF Pick(t) \in Finished THEN 1 ELSE 0)
      BY <1>6, <1>12, <3>1
    <3> QED
      BY <3>1, <3>2
  <2>2. CountsUp(ga, Finished, S)
    BY <1>14, <2>1, Zenon DEF CountsUp
  <2>3. ga[S] = Cardinality(Finished)
    <3>1. IsFiniteSet(S) /\ Finished \in SUBSET S
      BY <1>2, <1>4
    <3> QED
      BY <2>2, <3>1, CountedUp, Zenon
  <2> QED
    BY <2>3
<1>18. gc[S] - ge[S] - ga[S] = Cardinality(Inflight)
  <2> DEFINE h == [t \in SUBSET S |-> gc[t] - ge[t] - ga[t]]
  <2>1. ASSUME NEW t \in SUBSET S, t # {}
        PROVE  h[t] = (IF Pick(t) \in Inflight THEN 1 ELSE 0) + h[t \ {Pick(t)}]
    <3> DEFINE p == Pick(t)
               u == t \ {p}
    <3>1. /\ p \in S /\ u \in SUBSET S
          /\ gc[t] = fc[p] + gc[u] /\ ge[t] = fe[p] + ge[u] /\ ga[t] = fa[p] + ga[u]
          /\ gc[u] \in Int /\ ge[u] \in Int /\ ga[u] \in Int
      BY <1>15, <2>1, Zenon
    <3> HIDE DEF p, u
    <3>2. h[t] = gc[t] - ge[t] - ga[t] /\ h[u] = gc[u] - ge[u] - ga[u]
      BY <3>1
    <3>3. /\ fc[p] \in Int /\ fe[p] \in Int /\ fa[p] \in Int
          /\ fc[p] - fe[p] - fa[p] = (IF p \in Inflight THEN 1 ELSE 0)
      BY <1>6, <1>12, <3>1
    <3> HIDE DEF h
    <3>4. h[t] = (IF p \in Inflight THEN 1 ELSE 0) + h[u]
      BY <3>1, <3>2, <3>3
    <3> QED
      BY <3>4 DEF p, u
  <2>2. h[{}] = 0
    <3>1. {} \in SUBSET S
      OBVIOUS
    <3>2. h[{}] = gc[{}] - ge[{}] - ga[{}]
      BY <3>1
    <3> QED
      BY <1>14, <3>2
  <2>3. h[S] = gc[S] - ge[S] - ga[S]
    BY <1>13
  <2> HIDE DEF h
  <2>4. CountsUp(h, Inflight, S)
    BY <2>1, <2>2, Zenon DEF CountsUp
  <2>5. h[S] = Cardinality(Inflight)
    <3>1. IsFiniteSet(S) /\ Inflight \in SUBSET S
      BY <1>2, <1>4
    <3> QED
      BY <2>4, <3>1, CountedUp, Zenon
  <2> QED
    BY <2>3, <2>5
<1>19. gc[S] - gr[S] = Cardinality(Claimed)
  <2> DEFINE h == [t \in SUBSET S |-> gc[t] - gr[t]]
  <2>1. ASSUME NEW t \in SUBSET S, t # {}
        PROVE  h[t] = (IF Pick(t) \in Claimed THEN 1 ELSE 0) + h[t \ {Pick(t)}]
    <3> DEFINE p == Pick(t)
               u == t \ {p}
    <3>1. /\ p \in S /\ u \in SUBSET S
          /\ gc[t] = fc[p] + gc[u] /\ gr[t] = fr[p] + gr[u]
          /\ gc[u] \in Int /\ gr[u] \in Int
      BY <1>15, <2>1, Zenon
    <3> HIDE DEF p, u
    <3>2. h[t] = gc[t] - gr[t] /\ h[u] = gc[u] - gr[u]
      BY <3>1
    <3>3. fc[p] \in Int /\ fr[p] \in Int /\ fr[p] = fc[p] - (IF p \in Claimed THEN 1 ELSE 0)
      BY <1>6, <1>12, <3>1
    <3> HIDE DEF h
    <3>4. h[t] = (IF p \in Claimed THEN 1 ELSE 0) + h[u]
      BY <3>1, <3>2, <3>3
    <3> QED
      BY <3>4 DEF p, u
  <2>2. h[{}] = 0
    <3>1. {} \in SUBSET S
      OBVIOUS
    <3>2. h[{}] = gc[{}] - gr[{}]
      BY <3>1
    <3> QED
      BY <1>14, <3>2
  <2>3. h[S] = gc[S] - gr[S]
    BY <1>13
  <2> HIDE DEF h
  <2>4. CountsUp(h, Claimed, S)
    BY <2>1, <2>2, Zenon DEF CountsUp
  <2>5. h[S] = Cardinality(Claimed)
    <3>1. IsFiniteSet(S) /\ Claimed \in SUBSET S
      BY <1>2, <1>4
    <3> QED
      BY <2>4, <3>1, CountedUp, Zenon
  <2> QED
    BY <2>3, <2>5
<1>20. Cardinality(S \ (Finished \cup Inflight)) + Cardinality(Inflight) + Cardinality(Finished) = accepted
  <2> DEFINE X == Finished \cup Inflight
             Y == S \ X
  <2>1. IsFiniteSet(Finished) /\ IsFiniteSet(Inflight)
    BY <1>2, <1>4, FS_Subset, Zenon
  <2>2. Cardinality(Finished) \in Nat /\ Cardinality(Inflight) \in Nat
    BY <2>1, FS_CardinalityType, Zenon
  <2>3. /\ IsFiniteSet(X)
        /\ Cardinality(X) = Cardinality(Finished) + Cardinality(Inflight) - Cardinality(Finished \cap Inflight)
    BY <2>1, FS_Union, Zenon
  <2>4. Cardinality(Finished \cap Inflight) = 0
    BY <1>4, FS_EmptySet
  <2>5. Y \in SUBSET S /\ X \cap Y = {} /\ X \cup Y = S
    BY <1>4
  <2> HIDE DEF X, Y
  <2>6. IsFiniteSet(Y)
    BY <1>2, <2>5, FS_Subset, Zenon
  <2>7. Cardinality(Y) \in Nat
    BY <2>6, FS_CardinalityType, Zenon
  <2>8. Cardinality(X \cup Y) = Cardinality(X) + Cardinality(Y) - Cardinality(X \cap Y)
    BY <2>3, <2>6, FS_Union, Zenon
  <2>9. Cardinality(X \cap Y) = 0
    BY <2>5, FS_EmptySet
  <2>10. Cardinality(Y) + Cardinality(Inflight) + Cardinality(Finished) = accepted
    <3> DEFINE cf == Cardinality(Finished)
               ci == Cardinality(Inflight)
               cx == Cardinality(X)
               cy == Cardinality(Y)
    <3>1. cx = cf + ci - 0
      BY <2>3, <2>4, Zenon
    <3>2. accepted = cx + cy - 0
      BY <1>2, <2>5, <2>8, <2>9, Zenon
    <3>3. cf \in Nat /\ ci \in Nat /\ cy \in Nat
      BY <2>2, <2>7
    <3> HIDE DEF cf, ci, cx, cy
    <3>4. cy + ci + cf = accepted
      BY <3>1, <3>2, <3>3
    <3> QED
      BY <3>4 DEF cf, ci, cy
  <2> QED
    BY <2>10 DEF X, Y
<1>21. Cardinality(Claimed) \in Nat /\ Cardinality(Inflight) \in Nat /\ Cardinality(Finished) \in Nat
  <2>1. IsFiniteSet(Finished) /\ IsFiniteSet(Inflight) /\ IsFiniteSet(Claimed)
    BY <1>2, <1>4, FS_Subset, Zenon
  <2> QED
    BY <2>1, FS_CardinalityType, Zenon
<1>22. AllLogged("claim") = gc[S] /\ AllLogged("expired") = ge[S] /\ AllLogged("ack") = ga[S]
  BY <1>7, <1>8, <1>9, Zenon DEF AllLogged, S
<1>23. /\ Counts.pending = Cardinality(S \ (Finished \cup Inflight))
       /\ Counts.inflight = Cardinality(Inflight)
       /\ Counts.completed = Cardinality(Finished)
       /\ Counts.retries = gr[S]
  BY <1>10, CountsFields, Zenon DEF S
<1>24. Counts.completed = AllLogged("ack")
  BY <1>17, <1>22, <1>23
<1>25. Counts.inflight = AllLogged("claim") - AllLogged("expired") - AllLogged("ack")
  BY <1>18, <1>22, <1>23
<1>26. Counts.retries = AllLogged("claim") - Cardinality({i \in 1..accepted : Logged(i, "claim") > 0})
  <2>1. gr[S] = gc[S] - Cardinality(Claimed)
    BY <1>16, <1>19, <1>21
  <2> QED
    BY <1>22, <1>23, <2>1 DEF Claimed
<1>27. Counts.pending + Counts.inflight + Counts.completed = accepted
  BY <1>20, <1>23
<1> QED
  BY <1>24, <1>25, <1>26, <1>27 DEF CountsMatchEvents

\* The counters that /metrics and /stats derive from the tasks slice (counts())
\* say what the event log says, in every reachable state and for every number of
\* tasks, Pods, failures and restarts.
THEOREM CountersMatchTheLog == Spec => []CountsMatchEvents
<1>1. TypeInv /\ TallyInv => CountsMatchEvents
  BY CountsFollow DEF TypeInv, TypeOK
<1> QED
  BY <1>1, TypeInit, TypeStep, AuditInit, AuditStep, TallyInit, TallyStep, PTL DEF Spec

=============================================================================
