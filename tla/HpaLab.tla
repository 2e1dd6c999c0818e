------------------------------- MODULE HpaLab -------------------------------
(***************************************************************************)
(* hpa/advanced/run.py at work: the script runs one scenario after another *)
(* (HpaCases) against a cluster whose autoscaler acts on its own.  A call  *)
(* of the script may fail, with or without its effect, and the script may  *)
(* be killed.                                                              *)
(*                                                                         *)
(* The cluster is external: the autoscaler looks at its metrics at most    *)
(* every SyncPolls polls, Pods started before one look are ready at the    *)
(* next.  Metrics follow the load without delay.                           *)
(***************************************************************************)
EXTENDS HpaCases, FiniteSetsExt

CONSTANT Cases   \* the scenarios an operator may start, of CaseNames

ASSUME HpaAssumption == Cases \subseteq CaseNames

(* The fields of loc:                                                      *)
(*   case     args.case                                                    *)
(*   run      how many runs have been started                              *)
(*   polls    polls made by the current wait or hold                       *)
(*   saw      the HPA as the snapshot under way has read it                *)
(*   rows     the samples of the current hold are as asserted              *)
(*   proxy    the kubectl proxy on the port: none, own, orphan             *)
(*   verdict  what the last run wrote: PASS, FAIL, or none                 *)

Targets == {"worker", "web", "consumer", "blocked"}
Components == {"queue", "prometheus", "adapter"}
MaxReplicas == 4
SyncPolls == 3                 \* the autoscaler looks every 15 seconds
Longest == Polls(60)           \* the longest window and the longest task
NoHpa == [metrics |-> {}, window |-> 0, policy |-> "none", min |-> 0]

HpaTypeOK ==
  lab = "hpa" =>
  /\ w.hpa \in [Targets -> [metrics : SUBSET {"queue", "tasks", "rps", "bytes", "cpu"},
                            window : 0..Longest, policy : {"none", "pods", "percent"},
                            min : 0..MaxReplicas]]
  /\ \A f \in {w.rep, w.rdy, w.desired} : f \in [Targets -> 0..MaxReplicas]
  /\ w.active \in [Targets -> BOOLEAN] /\ w.age \in [Targets -> 0..Longest]
  /\ w.up \in [Components -> BOOLEAN] /\ w.since \in 0..SyncPolls
  /\ {w.load, w.slow, w.follow} \subseteq BOOLEAN
  /\ w.gauge \in 0..35 /\ w.rate \in {0, 15, 35} /\ w.payload \in 0..2
  /\ w.busy \in 0..Longest /\ w.warm \in 0..Longest /\ w.work \in Nat
  /\ w.accepted \subseteq 1..MaxRuns
  /\ pc \in Nat /\ raised \in BOOLEAN /\ loc.rows \in BOOLEAN
  /\ loc.case \in Cases /\ loc.run \in 0..MaxRuns
  /\ loc.proxy \in {"none", "own", "orphan"} /\ loc.verdict \in {"none", "PASS", "FAIL"}
  /\ blame \subseteq {"body", "open", "cleanup", "kill"}

----------------------------------------------------------------------------
(* The autoscaler (external).                                              *)

CeilDiv(a, b) == (a + b - 1) \div b

\* prometheus-adapter serves what prometheus scraped; CPU comes from elsewhere.
Available(m) ==
  \/ m = "cpu"
  \/ w.up["prometheus"] /\ w.up["adapter"] /\ (m = "queue" => w.up["queue"])

Proposal(m) ==
  CASE m = "queue" -> CeilDiv(w.gauge, 10)
    [] m = "tasks" -> w.work
    [] m = "rps"   -> CeilDiv(w.rate, 10)
    [] m = "bytes" -> CeilDiv(w.rate * w.payload, 20)
    [] m = "cpu"   -> IF w.load THEN MaxReplicas ELSE 1

Known(t) == {m \in w.hpa[t].metrics : Available(m)}
Broken(t) == w.hpa[t].metrics \ Known(t)

\* The largest proposal, between minReplicas and maxReplicas.
Demand(t) ==
  Min({MaxReplicas, Max({w.hpa[t].min} \cup {Proposal(m) : m \in Known(t)})})

\* A partly failed set of metrics may raise the number of replicas, never lower it.
Active(t) == Known(t) # {} /\ (Broken(t) = {} \/ Demand(t) >= w.rep[t])

\* One step towards the demand, as the policy and the scale-down window allow; a
\* policy allows a step at every look, where the manifests say every 30 seconds.
Scaled(t) ==
  LET h == w.hpa[t]  r == w.rep[t]  d == Demand(t)
      one == IF d > r THEN r + 1 ELSE IF d < r THEN r - 1 ELSE r
  IN  CASE h.metrics = {} \/ ~Active(t)          -> r
        [] d < r /\ w.age[t] < h.window          -> r
        [] h.policy = "pods"                     -> one
        [] h.policy = "percent" /\ d > r         -> Min({d, 2 * r})
        [] OTHER                                 -> d

\* Pods started before the last look are ready, removed ones gone, with three
\* exceptions: no node fits, READY_DELAY_SECONDS, and a Pod that still has a task.
Settled(t) ==
  CASE t = "blocked"                                          -> 0
    [] t = "web" /\ w.warm > 0 /\ w.rdy[t] < w.rep[t]         -> w.rdy[t]
    [] t = "consumer" /\ w.busy > 0 /\ w.rdy[t] > w.rep[t]    -> w.rdy[t]
    [] OTHER                                                  -> w.rep[t]

Sync ==
  /\ w.since > 0
  /\ w' = [w EXCEPT
       !.since = 0,
       !.rdy = [t \in Targets |-> Settled(t)],
       !.rep = [t \in Targets |-> Scaled(t)],
       !.warm = IF w.slow /\ Scaled("web") > w.rep["web"] THEN Longest ELSE @,
       !.desired = [t \in Targets |-> IF w.hpa[t].metrics = {} THEN 0
                                      ELSE IF Active(t) THEN Scaled(t) ELSE w.desired[t]],
       !.active = [t \in Targets |-> w.hpa[t].metrics # {} /\ Active(t)],
       !.age = [t \in Targets |-> IF Active(t) /\ Demand(t) < w.rep[t] THEN w.age[t] ELSE 0]]
  /\ UNCHANGED <<pc, raised, loc, blame>>

\* Five seconds pass; consumers work, `add' units of work arrive.
Minus(a, b) == IF a > b THEN a - b ELSE 0
Later(add) ==
  [w EXCEPT !.since = @ + 1,
            !.age = [t \in Targets |-> Min({Longest, w.age[t] + 1})],
            !.work = Minus(@ + add, w.rdy["consumer"]),
            !.busy = Minus(@, 1), !.warm = Minus(@, 1),
            !.accepted = IF add > 0 THEN @ \cup {loc.run} ELSE @]

----------------------------------------------------------------------------
(* A call of the script.                                                   *)

\* The next step begins with no sample taken.
Cleared == [loc EXCEPT !.polls = 0, !.saw = NoHpa, !.rows = TRUE]

ApplyHpa(s, spec) ==
  LET t == s.t  new == w.hpa[t].metrics = {} IN
  Call(s, [w EXCEPT !.hpa[t] = spec,
                    !.desired[t] = IF new THEN 0 ELSE @,
                    !.active[t] = IF new THEN FALSE ELSE @,
                    !.age[t] = IF new THEN 0 ELSE @])

apply(s) == s.op = "apply" /\ ApplyHpa(s, s.spec)

\* The HPA of the worker, applied under another name.
ApplyCopy(s) == s.op = "copy" /\ ApplyHpa(s, w.hpa["worker"])

\* Mutant: the patch replaces the object.
patchReplaces(s) == s.op = "patch" /\ Call(s, [w EXCEPT !.hpa[s.t] = s.fields])
patch(s) ==
  /\ s.op = "patch"
  /\ Call(s, [w EXCEPT !.hpa[s.t] = [f \in DOMAIN @ |-> IF f \in DOMAIN s.fields THEN s.fields[f] ELSE @[f]]])

DeleteHpa(s) ==
  /\ s.op = "drophpa"
  /\ IF s.must /\ w.hpa[s.t].metrics = {} THEN Fail(s)
     ELSE Call(s, [w EXCEPT !.hpa[s.t] = NoHpa, !.desired[s.t] = 0, !.active[s.t] = FALSE])

scale(s) == s.op = "scale" /\ Call(s, [w EXCEPT !.rep[s.t] = s.n])

\* A metrics component at zero or one replicas; the queue keeps its gauge in memory.
ScaleComponent(s) ==
  /\ s.op = "switch"
  /\ Call(s, [w EXCEPT !.up[s.t] = s.on,
                    !.gauge = IF s.t = "queue" /\ ~s.on THEN 0 ELSE @])

gauge(s) ==
  /\ s.op = "gauge"
  /\ IF w.up["queue"] THEN Call(s, [w EXCEPT !.gauge = s.n]) ELSE Fail(s)

LoadDeployment(s) == s.op = "load" /\ Call(s, [w EXCEPT !.load = s.on])

HttpLoadDeployment(s) ==
  /\ s.op = "http_load"
  /\ Call(s, [w EXCEPT !.rate = s.rate, !.payload = s.payload])

\* The readiness delay of web, set by a patch and undone by set env and apply.
ReadyDelay(s) ==
  /\ s.op = "slow"
  /\ Call(s, [w EXCEPT !.slow = s.on, !.warm = IF s.on THEN Longest ELSE 0,
                    !.rep = IF s.on THEN @ ELSE [@ EXCEPT !["web"] = 1, !["consumer"] = 1]])

BlockedDeployment(s) == s.op = "deploy" /\ Call(s, [w EXCEPT !.rep["blocked"] = s.n])

EnqueueTasks(s) ==
  /\ s.op = "enqueue"
  /\ Call(s, [w EXCEPT !.work = @ + s.n, !.busy = IF s.long THEN Longest ELSE @,
                    !.accepted = @ \cup {loc.run}])

FollowLogs(s) == s.op = "follow" /\ Call(s, [w EXCEPT !.follow = s.on])

----------------------------------------------------------------------------
(* Polling.                                                                *)

\* real() wants a broker that is drained and has never been used.
FreshBrokerDrained == w.work = 0 /\ w.busy = 0
FreshBroker == w.work = 0 /\ w.busy = 0 /\ w.accepted = {}

\* Mutant: the condition ScalingActive is not looked at.
SteadyUnasked(t, n) == w.rep[t] = n /\ w.rdy[t] = n /\ loc.saw.desired = n
Steady(t, n) == w.rep[t] = n /\ w.rdy[t] = n /\ loc.saw.desired = n /\ loc.saw.active

\* The conditions of the waits and the assertions.
Holds(p, t, n) ==
  CASE p = "any"       -> TRUE
    [] p = "steady"    -> Steady(t, n)
    [] p = "inactive"  -> ~loc.saw.active
    [] p = "requested" -> w.rep[t] = n
    [] p = "held"      -> w.rep[t] = n /\ ~loc.saw.active
    [] p = "full"      -> w.rep[t] = n /\ w.rdy[t] = n
    [] p = "more"      -> w.rep[t] > n /\ w.rdy[t] > n
    [] p = "atleast"   -> w.rep[t] >= n /\ w.rdy[t] >= n
    [] p = "pending"   -> w.rep[t] = n /\ w.rdy[t] = 0
    [] p = "partial"   -> w.rep[t] = n /\ w.rdy[t] < n
    [] p = "draining"  -> w.rep[t] = n /\ w.rdy[t] > n
    [] p = "drained"   -> w.work = 0 /\ w.busy = 0
    [] p = "inflight"  -> w.busy > 0
    [] p = "ready"     -> IF t \in Components THEN w.up[t]
                          ELSE w.rdy[t] = w.rep[t] /\ (t = "web" => w.warm = 0)
    [] p = "fresh"     -> FreshBroker
    [] p = "audit"     -> w.work = 0 /\ w.busy = 0
    [] p = "no_metric" -> ~Available("queue")
    [] p = "throughput" -> w.up["prometheus"] /\ w.up["adapter"] /\ w.rate = n

check(s) == s.op = "check" /\ IF Holds(s.pred, s.t, s.n) THEN Call(s, w) ELSE Fail(s)

\* snapshot(): the HPA is read first, the Deployment and the Pods later.
ReadHpa(s) ==
  /\ s.op \in {"wait", "hold"} /\ s.hpa /\ loc.saw = NoHpa /\ loc.polls < s.limit
  /\ UNCHANGED w
  /\ \/ /\ w.hpa[s.t] # NoHpa
        /\ loc' = [loc EXCEPT !.saw = [desired |-> w.desired[s.t], active |-> w.active[s.t]]]
        /\ UNCHANGED <<pc, raised, blame>>
     \/ w.hpa[s.t] = NoHpa /\ Raise(s) /\ loc' = Cleared /\ UNCHANGED blame
     \/ Faults(s) /\ Raise(s) /\ loc' = Cleared

Sampled(s) == s.hpa => loc.saw # NoHpa

\* Not yet: sleep, and poll again.
Sleep(add, ok) ==
  /\ w.since < SyncPolls
  /\ w' = Later(add)
  /\ loc' = [loc EXCEPT !.polls = @ + 1, !.saw = NoHpa, !.rows = ok]
  /\ UNCHANGED <<pc, raised, blame>>

Over(s, ok) == Require(s, ok) /\ loc' = Cleared

\* No sample is taken at the deadline.
WaitFor(s) ==
  /\ s.op = "wait"
  /\ IF loc.polls >= s.limit THEN Over(s, FALSE)
     ELSE /\ Sampled(s)
          /\ IF Holds(s.pred, s.t, s.n) THEN Over(s, TRUE) ELSE Sleep(0, TRUE)

HoldFor(s) ==
  /\ s.op = "hold"
  /\ IF loc.polls >= s.limit THEN Over(s, loc.rows)
     ELSE /\ Sampled(s)
          /\ LET now == Holds(s.pred, s.t, s.n) IN
             Sleep(s.add, IF s.rows = "last" THEN now ELSE loc.rows /\ now)

----------------------------------------------------------------------------
(* The command line.                                                       *)

(* forwards(): the port answers.  When an orphan of a killed run holds the *)
(* port, our own proxy exits, which the loop notices only if it looks      *)
(* before the connection to the orphan succeeds.                           *)
Start ==
  /\ Idle /\ loc.run < MaxRuns
  /\ \E c \in Cases :
       LET new == [Cleared EXCEPT !.case = c, !.run = @ + 1, !.verdict = "none"] IN
       \/ Begin /\ loc' = [new EXCEPT !.proxy = IF @ = "none" THEN "own" ELSE @]
       \/ loc.proxy = "orphan" /\ Leave /\ loc' = new
  /\ UNCHANGED <<w, blame>>

\* The scenario has returned or raised; the proxy is terminated on the way out.
Finish(s) ==
  /\ s.op = "exit"
  /\ Leave
  /\ loc' = [loc EXCEPT !.verdict = IF raised THEN "FAIL" ELSE "PASS",
                        !.proxy = IF @ = "own" THEN "none" ELSE @]
  /\ UNCHANGED <<w, blame>>

Kill ==
  /\ Die
  /\ loc' = [Cleared EXCEPT !.proxy = IF @ = "own" THEN "orphan" ELSE @]
  /\ UNCHANGED w

\* Time passes between two runs.
Rest ==
  /\ Idle /\ loc.run < MaxRuns /\ w.since < SyncPolls
  /\ w' = Later(0)
  /\ UNCHANGED <<pc, raised, loc, blame>>

\* The operator restarts a drained broker, as the message at line 294 asks.
RestartBroker ==
  /\ Idle /\ w.work = 0 /\ w.busy = 0 /\ w.accepted # {}
  /\ w' = [w EXCEPT !.accepted = {}]
  /\ UNCHANGED <<pc, raised, loc, blame>>

\* setup.sh: everything runs, no HPA but the one of the worker.
Setup ==
  [hpa |-> [t \in Targets |-> IF t = "worker" THEN HpaQueue ELSE NoHpa],
   rep |-> [t \in Targets |-> IF t = "blocked" THEN 0 ELSE 1],
   rdy |-> [t \in Targets |-> IF t = "blocked" THEN 0 ELSE 1],
   desired |-> [t \in Targets |-> IF t = "worker" THEN 1 ELSE 0],
   active |-> [t \in Targets |-> t = "worker"],
   age |-> [t \in Targets |-> 0], up |-> [c \in Components |-> TRUE],
   since |-> 0, gauge |-> 0, load |-> FALSE, rate |-> 0, payload |-> 0,
   slow |-> FALSE, warm |-> 0, work |-> 0, busy |-> 0, accepted |-> {}, follow |-> FALSE]

HpaInit ==
  /\ w = Setup /\ pc = 0 /\ raised = FALSE /\ blame = {}
  /\ loc \in [case : Cases, run : {0}, polls : {0}, saw : {NoHpa}, rows : {TRUE},
              proxy : {"none"}, verdict : {"none"}]

\* The calls of the scenarios.
HpaCall(s) ==
  \/ apply(s) \/ ApplyCopy(s) \/ patch(s) \/ DeleteHpa(s) \/ scale(s) \/ ScaleComponent(s)
  \/ gauge(s) \/ LoadDeployment(s) \/ HttpLoadDeployment(s) \/ ReadyDelay(s)
  \/ BlockedDeployment(s) \/ EnqueueTasks(s) \/ FollowLogs(s) \/ check(s) \/ EndTry(s)

Here == Program(loc.case)[pc]

HpaStep ==
  /\ ~Idle
  /\ \E s \in {Here} :
       \/ HpaCall(s) /\ loc' = Cleared
       \/ ReadHpa(s) \/ WaitFor(s) \/ HoldFor(s) \/ Finish(s)

HpaNext == HpaStep \/ Sync \/ Start \/ Kill \/ Rest \/ RestartBroker

\* What the finally blocks undo: an outage, a load, a reader of logs, the proxy.
OutageUndone ==
  /\ \A c \in Components : w.up[c]
  /\ ~w.load /\ w.rate = 0 /\ ~w.follow /\ loc.proxy = "none"

----------------------------------------------------------------------------
(* Properties.                                                             *)

(* A scenario that meets no failing call fails in no order of scenarios:   *)
(* its waits end in time and its assertions hold, whatever configuration   *)
(* the earlier ones left (reset_worker, line 204).  The one refusal is     *)
(* that of real() on a broker that has been used (line 292).               *)
CleanRunPasses ==
  [][ lab = "hpa" /\ loc.verdict # "FAIL" /\ loc'.verdict = "FAIL" /\ blame = {}
      => loc.case = "real" /\ w.accepted \ {loc.run} # {} ]_scriptVars

(* A PASS of real() audits the tasks of this run and no others: accepted,  *)
(* which the audit of line 415 compares with completed, holds nothing of   *)
(* an earlier run (the guard at line 292).                                 *)
AuditIsOwn ==
  lab = "hpa" /\ Idle /\ loc.verdict = "PASS" /\ loc.case = "real"
    => w.accepted \subseteq {loc.run}

(* steady(n) (line 169) reads the HPA first and the Deployment later, and  *)
(* the autoscaler may act between the two reads.  When steady(n) returns,  *)
(* what it read holds at that one moment: the HPA asks for n replicas and  *)
(* is active, unless a metrics component is down.  So it never returns on  *)
(* replicas that an outage has frozen (failures, line 507), before the     *)
(* autoscaler has read metrics again; the status may still be older than   *)
(* the gauge set last.                                                     *)
SteadyIsCurrent ==
  [][ lab = "hpa" /\ pc # 0 /\ pc' = pc + 1 /\ ~raised' /\ Here.op = "wait" /\ Here.pred = "steady"
      => /\ w.desired[Here.t] = Here.n
         /\ w.active[Here.t] \/ \E c \in Components : ~w.up[c] ]_scriptVars
=============================================================================
