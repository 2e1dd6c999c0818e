----------------------------- MODULE TaskQueue -----------------------------
(***************************************************************************)
(* The in-memory task broker of hpa/advanced/main.go, the consumers that   *)
(* claim tasks from it over HTTP, and the network between them.            *)
(*                                                                         *)
(* Every handler of the broker runs under the mutex mu, so each is one     *)
(* action.  A consumer is one goroutine: an HTTP call is a send, the       *)
(* handler on the broker, and the arrival of the reply.  A call may fail   *)
(* at any moment; its request is then lost, or still reaches the broker    *)
(* long after the consumer gave up on it (a "late" request).               *)
(*                                                                         *)
(* Time passes in Tick.  Instants are kept relative to now, as counters:   *)
(* tasks[i].lease is Deadline - now, run[c] is what is left of the sleep   *)
(* that stands for the work, age[c] is the time since a call was sent.     *)
(***************************************************************************)
EXTENDS Integers, Sequences

CONSTANTS
  Consumers,    \* consumer Pods; a Pod's HOSTNAME is its worker name
  Evictable,    \* the Pods a scale-down may terminate
  NoWorker,     \* the empty worker string
  Durations,    \* the duration_ms values given to /enqueue, in ticks
  Grace,        \* what a lease adds to the duration (20 s)
  Timeout,      \* http.Client Timeout of a call (5 s)
  Slack,        \* how late a consumer may wake from its sleep
  MaxTasks,     \* bound: length of the tasks slice
  MaxAttempts,  \* bound: claims of one task
  MaxLosses,    \* bound: calls that fail
  MaxCrashes,   \* bound: consumer containers that die
  MaxRestarts   \* bound: broker containers that die

ASSUME ConsumerAssumption == Evictable \subseteq Consumers /\ NoWorker \notin Consumers
ASSUME TimeAssumption ==
  /\ Durations \subseteq Nat \ {0}
  /\ Grace \in Nat /\ Timeout \in Nat /\ Slack \in Nat
ASSUME BoundAssumption ==
  /\ MaxTasks \in Nat /\ MaxAttempts \in Nat
  /\ MaxLosses \in Nat /\ MaxCrashes \in Nat /\ MaxRestarts \in Nat

VARIABLES
  accepted,     \* len(tasks)
  tasks,        \* tasks[id - 1] of the code, for every id up to MaxTasks
  done,         \* the ids whose Done is set
  events,       \* the claim, expired and ack events, one log per task
  rejected,     \* the rejected_ack events: the <<id, worker>> pairs
  pc,           \* where the consumer goroutine is
  job,          \* the task of the consumer's current claim
  run,          \* time left of its sleep
  age,          \* time since its outstanding call was sent
  reply,        \* what the broker answered to that call
  cancelled,    \* the Pods whose ctx is done: SIGTERM was delivered
  draining,     \* the Pods whose draining flag, read by /healthz, is set
  lateClaims,   \* abandoned /claim requests still on their way, per worker
  lateAcks,     \* abandoned /ack requests still on their way
  executed,     \* history: <<id, worker>> whose work was slept to the end
  losses, crashes, restarts

brokerVars   == <<accepted, tasks, done, events, rejected>>
consumerVars == <<pc, job, run, age, reply, cancelled, draining>>
netVars      == <<lateClaims, lateAcks>>
faultVars    == <<losses, crashes, restarts>>
vars == <<brokerVars, consumerVars, netVars, executed, faultVars>>

TaskId == 1..MaxTasks
Worker == Consumers \cup {NoWorker}
Task   == [worker : Worker, attempts : Nat, dur : Nat, lease : Int]
Event  == [kind : {"claim", "expired", "ack"}, worker : Consumers, attempt : Nat]
Job    == [id : 0..MaxTasks, attempt : Nat, dur : Nat, epoch : Nat]
AckReq == [id : 0..MaxTasks, worker : Consumers, attempt : Nat, epoch : Nat]

NewTask(d) == [worker |-> NoWorker, attempts |-> 0, dur |-> d, lease |-> 0]
NoJob == [id |-> 0, attempt |-> 0, dur |-> 0, epoch |-> 0]

\* The consumer waits in client.Post.
Calling(c) == pc[c] \in {"claim_sent", "ack_sent"}

----------------------------------------------------------------------------
(* The broker.                                                             *)

Leased(i)  == i \notin done /\ tasks[i].worker # NoWorker
\* Mutant: the lease ends at its deadline instead of after it.
ExpiredAtDeadline(i) == Leased(i) /\ tasks[i].lease <= 0
Expired(i) == Leased(i) /\ tasks[i].lease < 0

\* reap(): every expired lease is recorded and released.  A dead Deadline is
\* never read again; it is normalised to 0.
Reaped ==
  [i \in TaskId |-> IF Expired(i)
                    THEN [NewTask(tasks[i].dur) EXCEPT !.attempts = tasks[i].attempts]
                    ELSE tasks[i]]
ReapedEvents ==
  [i \in TaskId |->
     IF Expired(i)
     THEN Append(events[i], [kind |-> "expired", worker |-> tasks[i].worker,
                             attempt |-> tasks[i].attempts])
     ELSE events[i]]

Reap == tasks' = Reaped /\ events' = ReapedEvents

\* Mutant: the ids run one past the end of the slice.
EnqueueOnePast(n, d) ==
  /\ accepted + n <= MaxTasks
  /\ accepted' = accepted + n + 1
  /\ tasks' = [i \in TaskId |-> IF i \in (accepted + 1)..(accepted + n)
                                THEN NewTask(d) ELSE tasks[i]]
  /\ UNCHANGED <<done, events, rejected, consumerVars, netVars, executed, faultVars>>

\* POST /enqueue?n=&duration_ms=; it does not reap.
Enqueue(n, d) ==
  /\ accepted + n <= MaxTasks
  /\ accepted' = accepted + n
  /\ tasks' = [i \in TaskId |-> IF i \in (accepted + 1)..(accepted + n)
                                THEN NewTask(d) ELSE tasks[i]]
  /\ UNCHANGED <<done, events, rejected, consumerVars, netVars, executed, faultVars>>

\* GET /stats, or the scrape of /metrics: reap, then count.
Observe ==
  /\ Reap
  /\ UNCHANGED <<accepted, done, rejected, consumerVars, netVars, executed, faultVars>>

\* Mutant: /claim does not look at Worker.
FreeOrLeased == {i \in 1..accepted : i \notin done}

\* Mutant: a task that was claimed before is not handed out again.
FreeOnce == {i \in 1..accepted : i \notin done /\ tasks[i].attempts = 0}

Free == {i \in 1..accepted : i \notin done /\ Reaped[i].worker = NoWorker}
\* Mutant: any free task is handed out, not the first.
AnyFree(i) == i \in Free

FirstFree(i) == i \in Free /\ \A j \in Free : i <= j

\* Mutant: the lease leaves out the duration of the task.
GrantGraceOnly(w, i) ==
  /\ FirstFree(i)
  /\ tasks[i].attempts < MaxAttempts
  /\ tasks' = [Reaped EXCEPT
                 ![i] = [worker |-> w, attempts |-> tasks[i].attempts + 1,
                         dur |-> tasks[i].dur, lease |-> Grace]]
  /\ events' = [ReapedEvents EXCEPT
                  ![i] = Append(ReapedEvents[i],
                                [kind |-> "claim", worker |-> w,
                                 attempt |-> tasks[i].attempts + 1])]
  /\ UNCHANGED <<accepted, done, rejected>>

\* POST /claim?worker=w answered with task i, the first that is free.
Grant(w, i) ==
  /\ FirstFree(i)
  /\ tasks[i].attempts < MaxAttempts
  /\ tasks' = [Reaped EXCEPT
                 ![i] = [worker   |-> w,
                         attempts |-> tasks[i].attempts + 1,
                         dur      |-> tasks[i].dur,
                         lease    |-> tasks[i].dur + Grace]]
  /\ events' = [ReapedEvents EXCEPT
                  ![i] = Append(ReapedEvents[i],
                                [kind |-> "claim", worker |-> w,
                                 attempt |-> tasks[i].attempts + 1])]
  /\ UNCHANGED <<accepted, done, rejected>>

\* POST /claim answered with the empty Task.
GrantNothing ==
  /\ Free = {}
  /\ Reap
  /\ UNCHANGED <<accepted, done, rejected>>

\* Mutant: /ack does not compare Worker.
MayAckAnyone(i, w) == i \notin done

\* POST /ack?id=&worker=: who may confirm task i after the reap.
MayAck(i, w) == i \notin done /\ Reaped[i].worker = w

\* The ack is accepted.  Worker is kept; only Done is set.
AckDone(i, w, n) ==
  /\ i \in 1..accepted
  /\ MayAck(i, w)
  /\ done' = done \cup {i}
  /\ tasks' = [Reaped EXCEPT ![i].lease = 0]
  /\ events' = [ReapedEvents EXCEPT
                  ![i] = Append(ReapedEvents[i],
                                [kind |-> "ack", worker |-> w, attempt |-> n])]
  /\ UNCHANGED <<accepted, rejected>>

\* 409: recorded and refused.
AckConflict(i, w) ==
  /\ i \in 1..accepted
  /\ ~MayAck(i, w)
  /\ Reap
  /\ rejected' = rejected \cup {<<i, w>>}
  /\ UNCHANGED <<accepted, done>>

\* 400: an id this broker never handed out; the reap has happened already.
AckUnknown(i) ==
  /\ i \notin 1..accepted
  /\ Reap
  /\ UNCHANGED <<accepted, done, rejected>>

----------------------------------------------------------------------------
(* Requests of consumers that still wait for the answer.                   *)

Answer(c, r) == reply' = [reply EXCEPT ![c] = r]
Unanswered(c) == Calling(c) /\ reply[c] = "pending"

ServeClaim(c) ==
  /\ pc[c] = "claim_sent" /\ Unanswered(c)
  /\ \/ \E i \in TaskId :
          /\ Grant(c, i)
          /\ Answer(c, "task")
          /\ job' = [job EXCEPT ![c] = [id |-> i, attempt |-> tasks[i].attempts + 1,
                                        dur |-> tasks[i].dur, epoch |-> restarts]]
     \/ GrantNothing /\ Answer(c, "empty") /\ UNCHANGED job
  /\ UNCHANGED <<pc, run, age, cancelled, draining, netVars, executed, faultVars>>

ServeAck(c) ==
  /\ pc[c] = "ack_sent" /\ Unanswered(c)
  /\ \/ AckDone(job[c].id, c, job[c].attempt) /\ Answer(c, "ok")
     \/ AckConflict(job[c].id, c) /\ Answer(c, "refused")
     \/ AckUnknown(job[c].id) /\ Answer(c, "refused")
  /\ UNCHANGED <<pc, job, run, age, cancelled, draining, netVars, executed, faultVars>>

(* Requests nobody waits for any more: the answer goes nowhere.            *)

LateClaim(w) ==
  /\ lateClaims[w] > 0
  /\ GrantNothing \/ \E i \in TaskId : Grant(w, i)
  /\ lateClaims' = [lateClaims EXCEPT ![w] = @ - 1]
  /\ UNCHANGED <<consumerVars, lateAcks, executed, faultVars>>

LateAck(m) ==
  /\ m \in lateAcks
  /\ \/ AckDone(m.id, m.worker, m.attempt)
     \/ AckConflict(m.id, m.worker)
     \/ AckUnknown(m.id)
  /\ lateAcks' = lateAcks \ {m}
  /\ UNCHANGED <<consumerVars, lateClaims, executed, faultVars>>

----------------------------------------------------------------------------
(* consumer(): one loop per Pod.                                           *)

Goto(c, l) == pc' = [pc EXCEPT ![c] = l]
Post(c, l) ==
  /\ Goto(c, l)
  /\ age' = [age EXCEPT ![c] = 0]
  /\ Answer(c, "pending")

\* The call is over: its answer and its timer mean nothing any more.
Hang(c, l) ==
  /\ Goto(c, l)
  /\ age' = [age EXCEPT ![c] = 0]
  /\ Answer(c, "none")

\* Mutant: the loop does not look at the context.
BeginClaimUnchecked(c) ==
  /\ pc[c] = "check"
  /\ Post(c, "claim_sent")
  /\ UNCHANGED <<brokerVars, job, run, cancelled, draining, netVars, executed, faultVars>>

\* ctx.Err() is nil at the top of the loop: post /claim.
BeginClaim(c) ==
  /\ pc[c] = "check" /\ c \notin cancelled
  /\ Post(c, "claim_sent")
  /\ UNCHANGED <<brokerVars, job, run, cancelled, draining, netVars, executed, faultVars>>

\* Mutant: cancellation interrupts the work.
ReturnFromWork(c) ==
  /\ pc[c] \in {"check", "idle", "running"} /\ c \in cancelled
  /\ Goto(c, "returned")
  /\ UNCHANGED <<brokerVars, job, run, age, reply, cancelled, draining,
                 netVars, executed, faultVars>>

\* ctx is done at the top of the loop, or in the select of an idle consumer.
Return(c) ==
  /\ pc[c] \in {"check", "idle"} /\ c \in cancelled
  /\ Goto(c, "returned")
  /\ UNCHANGED <<brokerVars, job, run, age, reply, cancelled, draining,
                 netVars, executed, faultVars>>

\* The claim's answer arrives: start the work, or idle for 200 ms.  The
\* context is not looked at again.
RecvClaim(c) ==
  /\ pc[c] = "claim_sent"
  /\ \/ reply[c] = "task" /\ Hang(c, "running") /\ run' = [run EXCEPT ![c] = job[c].dur]
     \/ reply[c] = "empty" /\ Hang(c, "idle") /\ UNCHANGED run
  /\ UNCHANGED <<brokerVars, job, cancelled, draining, netVars, executed, faultVars>>

\* The 200 ms of an idle loop, or the second after a failed claim, are over.
WakeUp(c) ==
  /\ pc[c] \in {"idle", "backoff"}
  /\ Goto(c, "check")
  /\ UNCHANGED <<brokerVars, job, run, age, reply, cancelled, draining,
                 netVars, executed, faultVars>>

\* The sleep is over: post /ack.
FinishRun(c) ==
  /\ pc[c] = "running" /\ run[c] <= 0
  /\ Post(c, "ack_sent")
  /\ run' = [run EXCEPT ![c] = 0]
  /\ executed' = IF job[c].epoch = restarts
                 THEN executed \cup {<<job[c].id, c>>} ELSE executed
  /\ UNCHANGED <<brokerVars, job, cancelled, draining, netVars, faultVars>>

\* The ack's answer, good or bad, is only logged.
RecvAck(c) ==
  /\ pc[c] = "ack_sent" /\ reply[c] \in {"ok", "refused"}
  /\ Hang(c, "check")
  /\ job' = [job EXCEPT ![c] = NoJob]
  /\ UNCHANGED <<brokerVars, run, cancelled, draining, netVars, executed, faultVars>>

\* What becomes of the outstanding request of a consumer that gave up on it:
\* it is lost, or it stays on its way.
Abandon(c) ==
  \/ UNCHANGED netVars
  \/ /\ pc[c] = "claim_sent" /\ Unanswered(c)
     /\ lateClaims' = [lateClaims EXCEPT ![c] = @ + 1]
     /\ UNCHANGED lateAcks
  \/ /\ pc[c] = "ack_sent" /\ Unanswered(c)
     /\ lateAcks' = lateAcks \cup {[id |-> job[c].id, worker |-> c,
                                   attempt |-> job[c].attempt, epoch |-> job[c].epoch]}
     /\ UNCHANGED lateClaims

\* post() returns an error: connection refused or reset, the reply lost, or
\* the timeout.  A failed claim backs off; a failed ack is not repeated.
PostFails(c) ==
  /\ Calling(c) /\ losses < MaxLosses
  /\ losses' = losses + 1
  /\ Abandon(c)
  /\ Hang(c, IF pc[c] = "claim_sent" THEN "backoff" ELSE "check")
  /\ job' = [job EXCEPT ![c] = NoJob]
  /\ UNCHANGED <<brokerVars, run, cancelled, draining, executed, crashes, restarts>>

----------------------------------------------------------------------------
(* main(): the shutdown of a consumer Pod, and what kills a process.       *)

Sigterm(c) ==
  /\ c \in Evictable /\ pc[c] # "exited" /\ c \notin cancelled
  /\ cancelled' = cancelled \cup {c}
  /\ UNCHANGED <<brokerVars, pc, job, run, age, reply, draining, netVars, executed, faultVars>>

Drain(c) ==
  /\ c \in cancelled /\ c \notin draining /\ pc[c] # "exited"
  /\ draining' = draining \cup {c}
  /\ UNCHANGED <<brokerVars, pc, job, run, age, reply, cancelled, netVars, executed, faultVars>>

\* <-done, server.Shutdown, and main returns.
Exit(c) ==
  /\ c \in draining /\ pc[c] = "returned"
  /\ Goto(c, "exited")
  /\ UNCHANGED <<brokerVars, job, run, age, reply, cancelled, draining,
                 netVars, executed, faultVars>>

\* The container dies.  The kubelet restarts it under the same HOSTNAME,
\* unless the Pod is being deleted (SIGKILL at the end of its grace period).
Crash(c) ==
  /\ pc[c] # "exited" /\ crashes < MaxCrashes
  /\ crashes' = crashes + 1
  /\ Abandon(c)
  /\ Hang(c, IF c \in cancelled THEN "exited" ELSE "check")
  /\ job' = [job EXCEPT ![c] = NoJob]
  /\ run' = [run EXCEPT ![c] = 0]
  /\ UNCHANGED <<brokerVars, cancelled, draining, executed, losses, restarts>>

\* The broker starts again with no task and no event.  What was on its way to
\* the old process, and its answers, are gone with their connections.
BrokerRestart ==
  /\ restarts < MaxRestarts
  /\ restarts' = restarts + 1
  /\ accepted' = 0
  /\ tasks' = [i \in TaskId |-> NewTask(0)]
  /\ events' = [i \in TaskId |-> <<>>]
  /\ done' = {} /\ rejected' = {} /\ executed' = {}
  /\ lateClaims' = [w \in Consumers |-> 0] /\ lateAcks' = {}
  /\ pc' = [c \in Consumers |-> IF pc[c] = "claim_sent" THEN "backoff"
                                ELSE IF pc[c] = "ack_sent" THEN "check" ELSE pc[c]]
  /\ job' = [c \in Consumers |-> IF Calling(c) THEN NoJob ELSE job[c]]
  /\ reply' = [c \in Consumers |-> "none"]
  /\ age' = [c \in Consumers |-> 0]
  /\ UNCHANGED <<run, cancelled, draining, losses, crashes>>

\* A tick of time.  A call ends by its timeout, and a sleeper wakes at most
\* Slack late: what must happen first holds the clock back.
Tick ==
  /\ \A c \in Consumers : Calling(c) => age[c] < Timeout
  /\ \A c \in Consumers : pc[c] = "running" => run[c] > -Slack
  /\ tasks' = [i \in TaskId |-> IF Leased(i) /\ tasks[i].lease >= 0
                                THEN [tasks[i] EXCEPT !.lease = @ - 1] ELSE tasks[i]]
  /\ run' = [c \in Consumers |-> IF pc[c] = "running" THEN run[c] - 1 ELSE run[c]]
  /\ age' = [c \in Consumers |-> IF Calling(c) THEN age[c] + 1 ELSE age[c]]
  /\ UNCHANGED <<accepted, done, events, rejected, pc, job, reply, cancelled, draining,
                 netVars, executed, faultVars>>

----------------------------------------------------------------------------
Init ==
  /\ accepted = 0
  /\ tasks = [i \in TaskId |-> NewTask(0)]
  /\ events = [i \in TaskId |-> <<>>]
  /\ done = {} /\ rejected = {} /\ executed = {}
  /\ pc = [c \in Consumers |-> "check"]
  /\ job = [c \in Consumers |-> NoJob]
  /\ run = [c \in Consumers |-> 0]
  /\ age = [c \in Consumers |-> 0]
  /\ reply = [c \in Consumers |-> "none"]
  /\ cancelled = {}
  /\ draining = {}
  /\ lateClaims = [w \in Consumers |-> 0] /\ lateAcks = {}
  /\ losses = 0 /\ crashes = 0 /\ restarts = 0

\* Steps a running process takes by itself.
Step(c) ==
  \/ ServeClaim(c) \/ ServeAck(c)
  \/ BeginClaim(c) \/ Return(c) \/ RecvClaim(c) \/ WakeUp(c) \/ FinishRun(c) \/ RecvAck(c)
  \/ Drain(c) \/ Exit(c)

Next ==
  \/ \E n \in TaskId, d \in Durations : Enqueue(n, d)
  \/ Observe \/ Tick \/ BrokerRestart
  \/ \E c \in Consumers : Step(c) \/ PostFails(c) \/ Sigterm(c) \/ Crash(c) \/ LateClaim(c)
  \/ \E m \in lateAcks : LateAck(m)

Spec == Init /\ [][Next]_vars

(* The Go scheduler runs every ready goroutine, net/http serves every      *)
(* request it accepted, and time passes.  Nothing obliges the environment: *)
(* enqueues, scrapes, faults, SIGTERMs and late requests are not fair.     *)
Fairness == WF_vars(Tick) /\ \A c \in Consumers : WF_vars(Step(c))
FairSpec == Spec /\ Fairness
----------------------------------------------------------------------------
(* Correctness.                                                            *)

BrokerTypeOK ==
  /\ accepted \in 0..MaxTasks
  /\ tasks \in [TaskId -> Task] /\ done \subseteq TaskId
  /\ events \in [TaskId -> Seq(Event)]
  /\ rejected \subseteq (TaskId \X Consumers)

ConsumerTypeOK ==
  /\ pc \in [Consumers -> {"check", "claim_sent", "idle", "backoff", "running",
                           "ack_sent", "returned", "exited"}]
  /\ job \in [Consumers -> Job]
  /\ run \in [Consumers -> Int]
  /\ age \in [Consumers -> Nat]
  /\ reply \in [Consumers -> {"none", "pending", "task", "empty", "ok", "refused"}]
  /\ cancelled \subseteq Consumers
  /\ draining \subseteq Consumers

NetTypeOK ==
  /\ lateClaims \in [Consumers -> Nat]
  /\ lateAcks \subseteq AckReq

\* Every variable keeps its type: the struct fields of Task and Event, the
\* states of the consumer loop, the requests on their way, the fault budgets.
TypeOK ==
  /\ BrokerTypeOK /\ ConsumerTypeOK /\ NetTypeOK
  /\ executed \subseteq (TaskId \X Consumers)
  /\ losses \in 0..MaxLosses /\ crashes \in 0..MaxCrashes /\ restarts \in 0..MaxRestarts

\* In one task's log, event f may come right after event e.
Follows(e, f) ==
  \/ /\ e.kind = "claim" /\ f.kind = "expired"
     /\ f.worker = e.worker /\ f.attempt = e.attempt
  \/ /\ e.kind = "claim" /\ f.kind = "ack" /\ f.worker = e.worker
  \/ /\ e.kind = "expired" /\ f.kind = "claim" /\ f.attempt = e.attempt + 1

Status(i) == IF i \in done THEN "done" ELSE "open"

\* Done, Worker and Attempts of a task are what the last event of its log says.
AgreesWithLog(status, w, n, log) ==
  IF log = <<>> THEN status = "open" /\ w = NoWorker /\ n = 0
  ELSE LET last == log[Len(log)] IN
       /\ status = "done" <=> last.kind = "ack"
       /\ w = IF last.kind = "expired" THEN NoWorker ELSE last.worker
       /\ last.kind # "ack" => n = last.attempt

Trail(status, w, n, log) ==
  /\ log # <<>> => log[1].kind = "claim" /\ log[1].attempt = 1
  /\ \A k \in 2..Len(log) : Follows(log[k - 1], log[k])
  /\ AgreesWithLog(status, w, n, log)

\* The audit that /stats serves is sound: in the events of a task claims and
\* expiries alternate, a new claim only follows the expiry of the one before,
\* at most one ack exists, it is the last event and comes from the worker of
\* the claim before it; and Done, Worker and Attempts agree with those events.
AuditTrail ==
  \A i \in TaskId : Trail(Status(i), tasks[i].worker, tasks[i].attempts, events[i])

\* A consumer holds the answer of a claim, is doing the work, or waits for the
\* broker to see its ack; the broker it claimed from is still the same process.
Working(c) ==
  /\ \/ pc[c] = "claim_sent" /\ reply[c] = "task"
     \/ pc[c] = "running"
     \/ pc[c] = "ack_sent" /\ reply[c] = "pending"
  /\ job[c].epoch = restarts

\* The 20 s a lease adds to the duration cover a slow claim, a late wake-up and
\* a slow ack ("leaves time for the acknowledgement", main.go:255).
GraceSuffices == Slack + 2 * Timeout <= Grace

\* If the grace suffices, no lease is taken away from a consumer that works on
\* it, whatever calls are lost, delayed or duplicated by a restart elsewhere.
TimelyWorkerKeepsLease ==
  GraceSuffices =>
    \A c \in Consumers : Working(c) =>
      LET i == job[c].id IN tasks[i].worker = c /\ (i \in done \/ tasks[i].lease >= 0)

\* If the grace suffices, two Pods never work on the same task at a time.
NoConcurrentExecution ==
  GraceSuffices =>
    \A c, d \in Consumers :
      Working(c) /\ Working(d) /\ job[c].id = job[d].id => c = d

FaultFree == losses = 0 /\ crashes = 0 /\ restarts = 0

\* The audit that run.py makes at the end of real(): without a fault every task
\* is claimed at most once and no ack is rejected, scale-downs included.
OnceWithoutFaults ==
  FaultFree /\ GraceSuffices =>
    rejected = {} /\ \A i \in TaskId : tasks[i].attempts <= 1

\* A task is marked done only after the worker whose ack was accepted slept it
\* to the end.  A broker restart reuses the ids: then this needs that no call
\* was abandoned.
DoneWasExecuted ==
  restarts = 0 \/ (losses = 0 /\ crashes = 0) =>
    \A i \in TaskId : i \in done => <<i, tasks[i].worker>> \in executed

\* A consumer whose loop has returned on SIGTERM leaves no unfinished lease
\* behind, as long as no call failed and nothing died.
DrainLeavesNothing ==
  FaultFree => \A c \in Consumers : pc[c] \in {"returned", "exited"} =>
                 \A i \in TaskId : Leased(i) => tasks[i].worker # c

\* The broker's state seen as the abstract queue.
Phase(i) ==
  IF i > accepted THEN "absent"
  ELSE IF i \in done THEN "done"
  ELSE IF tasks[i].worker = NoWorker THEN "pending" ELSE "leased"
QueueView == [i \in TaskId |-> [phase |-> Phase(i), owner |-> tasks[i].worker]]

Queue == INSTANCE LeaseQueue WITH
           Owners <- Consumers, Nobody <- NoWorker, Capacity <- MaxTasks,
           queue <- QueueView

\* The broker implements the abstract queue: tasks are handed out in the order
\* of their ids, to one worker at a time, and only their worker finishes them.
ImplementsLeaseQueue == Queue!Spec

\* Every task accepted by /enqueue is eventually done, although expired leases
\* are only noticed by the next request to the broker.
EveryTaskDone ==
  \A i \in TaskId : (accepted >= i) ~> (i \in done)

\* A Pod that got SIGTERM eventually exits by itself or is killed.
DrainEnds ==
  \A c \in Consumers : c \in cancelled ~> (pc[c] = "exited")
----------------------------------------------------------------------------
(* What comments of main.go say; the violation runs show where the code    *)
(* differs.                                                                *)

\* "a task already claimed is still executed and acknowledged" (main.go:106):
\* a consumer that returned owes no ack for a task it has executed.
ClaimedTaskIsAcked ==
  \A c \in Consumers : pc[c] = "returned" =>
    \A i \in TaskId : Leased(i) /\ <<i, c>> \in executed => tasks[i].worker # c

\* "an expired ack is recorded and refused" (main.go:281): the ack that was
\* accepted was sent for the claim that was current.
ExpiredAckRefused ==
  \A i \in TaskId : i \in done =>
    events[i][Len(events[i])].attempt = tasks[i].attempts
=============================================================================
