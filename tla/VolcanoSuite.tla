---------------------------- MODULE VolcanoSuite ----------------------------
(***************************************************************************)
(* volcano-hami/run-tests.py: nineteen cases for the Volcano scheduler.    *)
(* case() empties the namespace, switches the scheduler to the plugin the  *)
(* case names, if it names one, and records PASS or FAIL.  --only selects  *)
(* cases.                                                                  *)
(*                                                                         *)
(* External: the scheduler and the controllers of Jobs and queues.  A Job  *)
(* has Pods once its queue has room for its minimum, starts when that fits *)
(* on the nodes, fills up to its size, is packed on as few places as       *)
(* possible unless it is to be spread, and a Job that has nothing goes     *)
(* first.  CPU counts in tenths of a core, GPU memory in thousands.        *)
(***************************************************************************)
EXTENDS Script, FiniteSetsExt, Functions

Workers == {"w1", "w2"}
Gpus == Workers \X {0, 1}
CpuOfNode == 120
MemOfGpu == 48
CoresOfGpu == 100

----------------------------------------------------------------------------
(* Jobs, queues and the configuration, as the cases write them.            *)

\* `ends' is what the command of the container comes to.
vjob(n, minimum, cpu) ==
  [n |-> n, min |-> minimum, cpu |-> cpu, q |-> "lab", prio |-> 0, places |-> Workers,
   number |-> 0, mem |-> 0, cores |-> 0, apart |-> FALSE, ends |-> "never"]
gpuJob(n, number, mem, cores, places) ==
  [vjob(n, n, 1) EXCEPT !.number = number, !.mem = mem, !.cores = cores, !.places = places]
GpusOfW1 == {g \in Gpus : g[1] = "w1"}

NoLimit == 1000
Capability(q) ==
  CASE q = "limited" -> 50 [] q \in {"borrower", "owner"} -> 240 [] OTHER -> NoLimit
Deserved(q) == IF q \in {"borrower", "owner"} THEN 100 ELSE 240

VStep(op, name, arg) == [op |-> op, esc |-> 0, part |-> "open", name |-> name, arg |-> arg]
applyJob(name, spec) == VStep("job", name, spec)
queue(name) == VStep("queue", name, "none")
running(name, k) == VStep("running", name, {k})
fewer(name, k) == VStep("assert", name, 0..k)
phase(name, p) == VStep("phase", name, p)
created(name) == VStep("created", name, "none")
notPlaced(name) == <<VStep("unplaced", name, "none"), VStep("unplaced", name, "none")>>
pendingJob(name) == <<created(name)>> \o notPlaced(name)
delete_job(name) == <<VStep("delete", name, "none"), VStep("no_pods", name, "none")>>
snapshot == Bare("read")
exec == Bare("read")

config(mode) ==
  <<Bare("read"), VStep("cm", mode, "none"), Bare("restart"), Bare("status")>>

clean == <<Bare("delete_jobs"), Bare("empty"), Bare("delete_queues")>>

----------------------------------------------------------------------------
(* The cases.                                                              *)

complete ==
  <<applyJob("complete", [vjob(2, 2, 1) EXCEPT !.ends = "Completed"]), phase("complete", "Completed")>>
gang ==
  <<applyJob("holder", vjob(2, 2, 90)), running("holder", 2), applyJob("gang", vjob(3, 3, 50))>>
  \o pendingJob("gang") \o <<snapshot>> \o delete_job("holder") \o <<running("gang", 3)>>
elastic == <<applyJob("elastic", vjob(5, 2, 50)), running("elastic", 4), created("elastic")>>
quota ==
  LET four == [vjob(1, 1, 40) EXCEPT !.q = "limited"] IN
  <<queue("limited"), applyJob("first", four), running("first", 1), applyJob("second", four),
    phase("second", "Pending")>>
  \o notPlaced("second") \o <<snapshot>> \o delete_job("first") \o <<running("second", 1)>>
queue_command(name, state) == <<VStep("command", name, state), VStep("state", name, state)>>
closed ==
  LET one == [vjob(1, 1, 1) EXCEPT !.q = "closed"] IN
  <<queue("closed")>> \o queue_command("closed", "Closed") \o <<VStep("refused", "closed", "none")>>
  \o queue_command("closed", "Open") \o <<applyJob("closed", one), running("closed", 1)>>
preempt ==
  <<Bare("read"), Bare("read"), applyJob("low", [vjob(4, 1, 50) EXCEPT !.prio = 10]), running("low", 4),
    applyJob("high", [vjob(1, 1, 50) EXCEPT !.prio = 100]), running("high", 1), fewer("low", 3)>>
reclaim ==
  <<queue("borrower"), queue("owner"), applyJob("borrow", [vjob(4, 1, 50) EXCEPT !.q = "borrower"]),
    running("borrow", 4), applyJob("owner", [vjob(2, 2, 50) EXCEPT !.q = "owner"]), running("owner", 2),
    fewer("borrow", 2)>>
binpack == <<applyJob("packed", vjob(4, 4, 10)), running("packed", 4), VStep("places", "packed", 1)>>
affinity ==
  <<applyJob("spread", [vjob(2, 2, 1) EXCEPT !.apart = TRUE]), running("spread", 2),
    VStep("places", "spread", 2)>>
plugins == <<applyJob("plugins", vjob(2, 2, 1)), running("plugins", 2), exec, Bare("read"), Bare("read")>>
abort == <<applyJob("abort", [vjob(1, 1, 1) EXCEPT !.ends = "Aborted"]), phase("abort", "Aborted")>>
ttl ==
  <<applyJob("ttl", [vjob(1, 1, 1) EXCEPT !.ends = "Completed"]), phase("ttl", "Completed"),
    VStep("expired", "ttl", "none")>>
gpu_basic == <<applyJob("gpu", gpuJob(1, 1, 3, 25, Gpus)), running("gpu", 1), exec>>
gpu_reject(which) ==
  <<applyJob("reject", CASE which = "memory" -> gpuJob(1, 1, 50, 25, GpusOfW1)
                      [] which = "cores" -> gpuJob(1, 1, 3, 101, GpusOfW1)
                      [] which = "number" -> gpuJob(1, 3, 3, 25, GpusOfW1))>>
  \o pendingJob("reject")
gpu_share ==
  <<applyJob("share", gpuJob(3, 1, 3, 20, GpusOfW1)), running("share", 3),
    VStep("places", "share", 1)>>
gpu_spread ==
  <<applyJob("gpu-spread", [gpuJob(2, 1, 3, 20, GpusOfW1) EXCEPT !.apart = TRUE]),
    running("gpu-spread", 2), VStep("places", "gpu-spread", 2)>>
gpu_full ==
  <<applyJob("full", gpuJob(2, 1, 40, 100, GpusOfW1)), running("full", 2),
    applyJob("waiting", gpuJob(1, 1, 1, 1, GpusOfW1))>>
  \o pendingJob("waiting") \o delete_job("full") \o <<running("waiting", 1)>>

LastTest == 19
AllTests == 0
test(i) ==
  CASE i = 1 -> complete [] i = 2 -> gang [] i = 3 -> elastic [] i = 4 -> quota [] i = 5 -> closed
    [] i = 6 -> preempt [] i = 7 -> reclaim [] i = 8 -> binpack [] i = 9 -> affinity [] i = 10 -> plugins
    [] i = 11 -> abort [] i = 12 -> ttl [] i = 13 -> gpu_basic [] i = 14 -> gpu_share
    [] i = 15 -> gpu_spread [] i = 16 -> gpu_reject("memory") [] i = 17 -> gpu_reject("cores")
    [] i = 18 -> gpu_reject("number") [] i = 19 -> gpu_full

\* The tests that name a plugin; the others run under what is there.
Modes == {1, 7, 8}
modeOf(i) == IF i = 7 THEN "capacity" ELSE "proportion"
Intended(i) == modeOf(Max({m \in Modes : m <= i}))

\* case(): the exception of the body is kept while the snapshot is taken.
case(i) ==
  LET setup == IF i \in Modes THEN config(modeOf(i)) ELSE <<>> IN
  Main(Try(clean \o setup \o <<queue("lab"), Bare("fn")>> \o test(i), <<snapshot>>))

Programs ==
  [i \in 0..(LastTest + 1) |->
     IF i = 0 THEN Main(<<Bare("namespace")>>) ELSE IF i > LastTest THEN Main(clean) ELSE case(i)]

----------------------------------------------------------------------------
(* The cluster: Jobs, which have Pods or not yet or no longer, with the    *)
(* number of Pods on each place; queues with their state; the              *)
(* configuration and what the scheduler has loaded.  kept is history: the  *)
(* Jobs without Pods after the last delete of clean().                     *)

VolcanoCluster ==
  [jobs |-> <<>>, queues |-> <<>>, cm |-> "default", loaded |-> "default", rolling |-> FALSE,
   kept |-> {}]

HasPods(name) == name \in DOMAIN w.jobs /\ w.jobs[name].pods
Total(at) == SumFunction(at)
Placed(name) == Total(w.jobs[name].at)
UsedOn(p, cost(_)) ==
  SumFunction([n \in DOMAIN w.jobs |->
                 IF p \in w.jobs[n].spec.places THEN w.jobs[n].at[p] * cost(w.jobs[n].spec) ELSE 0])
CpuOfQueue(q) ==
  SumFunction([n \in DOMAIN w.jobs |-> IF w.jobs[n].spec.q = q THEN Placed(n) * w.jobs[n].spec.cpu ELSE 0])

FitsOn(spec, p, more) ==
  IF p \in Workers
  THEN UsedOn(p, LAMBDA s : s.cpu) + more * spec.cpu <= CpuOfNode
  ELSE /\ UsedOn(p, LAMBDA s : s.mem) + more * spec.mem <= MemOfGpu
       /\ UsedOn(p, LAMBDA s : s.cores) + more * spec.cores <= CoresOfGpu
       /\ spec.number <= 2

\* What the scheduler can make of a Job, and what it prefers.
Growths(name) ==
  LET j == w.jobs[name] IN
  {at \in [j.spec.places -> 0..j.spec.n] :
     /\ \A p \in j.spec.places : at[p] >= j.at[p] /\ (at[p] = j.at[p] \/ FitsOn(j.spec, p, at[p] - j.at[p]))
     /\ Total(at) > Placed(name) /\ Total(at) >= j.spec.min /\ Total(at) <= j.spec.n
     /\ j.spec.apart => \A p \in j.spec.places : at[p] <= 1
     /\ CpuOfQueue(j.spec.q) + (Total(at) - Placed(name)) * j.spec.cpu <= Capability(j.spec.q)}
Spread(at) == Cardinality({p \in DOMAIN at : at[p] > 0})
Best(all) ==
  {a \in all : \A b \in all :
     Total(a) > Total(b) \/ (Total(a) = Total(b) /\ Spread(a) <= Spread(b))}

Ended(j) == j.phase = j.spec.ends
JobActive(name) == ~Ended(w.jobs[name]) /\ w.jobs[name].pods
Starved(name) == JobActive(name) /\ Placed(name) = 0

\* enqueue: the Pods are created, or created again.
VolcanoEnqueues ==
  /\ \E name \in DOMAIN w.jobs :
       LET j == w.jobs[name] IN
       /\ ~Ended(j) /\ ~j.pods
       /\ CpuOfQueue(j.spec.q) + j.spec.min * j.spec.cpu <= Capability(j.spec.q)
       /\ w' = [w EXCEPT !.jobs[name].pods = TRUE]
  /\ Aside /\ UNCHANGED blame

VolcanoAllocates ==
  /\ \E name \in DOMAIN w.jobs :
       /\ JobActive(name)
       /\ ~Starved(name) => \A other \in DOMAIN w.jobs : ~Starved(other)
       /\ \E at \in Best(Growths(name)) :
            w' = [w EXCEPT !.jobs[name].at = at, !.jobs[name].phase = "Running"]
  /\ Aside /\ UNCHANGED blame

\* preempt, within a queue and by priority; reclaim, between queues, with capacity only.
VolcanoEvicts ==
  /\ \E name, victim \in DOMAIN w.jobs :
       LET j == w.jobs[name]
           v == w.jobs[victim] IN
       /\ Starved(name) /\ Growths(name) = {} /\ Placed(victim) > v.spec.min
       /\ \/ j.spec.q = v.spec.q /\ j.spec.prio > v.spec.prio
          \/ /\ w.loaded = "capacity" /\ j.spec.q # v.spec.q
             /\ CpuOfQueue(v.spec.q) > Deserved(v.spec.q)
       /\ \E p \in v.spec.places : v.at[p] > 0 /\ w' = [w EXCEPT !.jobs[victim].at[p] = @ - 1]
  /\ Aside /\ UNCHANGED blame

\* Commands that come to an end; the Pods may stay or go.
Nowhere(spec) == [p \in spec.places |-> 0]
JobEnds ==
  /\ \E name \in DOMAIN w.jobs, pods \in BOOLEAN :
       LET j == w.jobs[name] IN
       /\ j.phase = "Running" /\ j.spec.ends # "never" /\ Placed(name) = j.spec.n
       /\ w' = [w EXCEPT !.jobs[name] =
                   [spec |-> j.spec, at |-> Nowhere(j.spec), phase |-> j.spec.ends, pods |-> pods]]
  /\ Aside /\ UNCHANGED blame

Rollout ==
  /\ w.rolling /\ w' = [w EXCEPT !.rolling = FALSE, !.loaded = w.cm]
  /\ Aside /\ UNCHANGED blame

----------------------------------------------------------------------------
(* The calls.                                                              *)

VolcanoMem == [case |-> 0, only |-> AllTests, failed |-> FALSE, sound |-> TRUE]

WithoutJobs(names) == [w EXCEPT !.jobs = Restrict(@, DOMAIN @ \ names)]
Plus(f, x, v) == [y \in DOMAIN f \cup {x} |-> IF y = x THEN v ELSE f[y]]

\* k(..., check=False): only a timeout raises.
Quiet(s, new) ==
  \/ Call(s, new)
  \/ Faults(s) /\ w' \in {w, new} /\ Return

\* What a delete of Jobs and Pods that fails may leave: some of the Jobs, some of
\* them without their Pods.
Remains(left, bare) ==
  [n \in left |-> IF n \in bare THEN [w.jobs[n] EXCEPT !.pods = FALSE, !.at = Nowhere(w.jobs[n].spec)]
                  ELSE w.jobs[n]]
Swept(jobs) == [w EXCEPT !.jobs = jobs, !.kept = {n \in DOMAIN jobs : ~jobs[n].pods}]

DeleteJobs(s) ==
  /\ s.op = "delete_jobs"
  /\ \/ w' = Swept(<<>>) /\ Return /\ UNCHANGED blame
     \/ Faults(s) /\ (\E left, bare \in SUBSET DOMAIN w.jobs : w' = Swept(Remains(left, bare)))
        /\ (Return \/ Raise(s))
  /\ Note

\* Mutant: the Pods are not waited for.
WaitNot(s) == s.op = "empty" /\ Await(s, TRUE, TRUE) /\ Note

\* The wait looks at Pods only: a Job without Pods is not seen.
WaitEmpty(s) == s.op = "empty" /\ Await(s, \A n \in DOMAIN w.jobs : ~w.jobs[n].pods, TRUE) /\ Note
DeleteQueues(s) == s.op = "delete_queues" /\ Quiet(s, [w EXCEPT !.queues = <<>>]) /\ Note
CreateNamespace(s) == s.op = "namespace" /\ Quiet(s, w) /\ Note
ReadCluster(s) == s.op = "read" /\ Call(s, w) /\ Note

WriteConfig(s) == s.op = "cm" /\ Call(s, [w EXCEPT !.cm = s.name]) /\ Note
RestartScheduler(s) == s.op = "restart" /\ Call(s, [w EXCEPT !.rolling = TRUE]) /\ Note
RolloutDone(s) == s.op = "status" /\ Await(s, ~w.rolling, FALSE) /\ Note

\* kubectl apply leaves the state of a queue that is still there.
ApplyQueue(s) ==
  /\ s.op = "queue"
  /\ Call(s, IF s.name \in DOMAIN w.queues THEN w ELSE [w EXCEPT !.queues = Plus(@, s.name, "Open")])
  /\ Note

\* The function of the case starts; sound is history.
CallFn(s) ==
  /\ s.op = "fn" /\ Return /\ UNCHANGED <<w, blame>>
  /\ Set([loc.mem EXCEPT !.sound =
            /\ @ /\ w.loaded = Intended(loc.mem.case)
            /\ \A n \in DOMAIN w.jobs : n \in w.kept \/ Ended(w.jobs[n])])

\* A Job that is still there is left alone, or refused when it is another one.
ApplyVolcanoJob(s) ==
  /\ s.op = "job"
  /\ IF s.name \notin DOMAIN w.jobs
     THEN Call(s, [w EXCEPT !.jobs =
                     Plus(@, s.name, [spec |-> s.arg, at |-> Nowhere(s.arg), phase |-> "Pending", pods |-> FALSE])])
     ELSE IF w.jobs[s.name].spec = s.arg THEN Call(s, w) ELSE Fail(s)
  /\ Note

\* Nothing that moves by itself could change the count any more.
VolcanoSettled == ~ENABLED (VolcanoEnqueues \/ VolcanoAllocates \/ VolcanoEvicts \/ JobEnds)

AwaitRunning(s) ==
  /\ s.op = "running" /\ Await(s, Placed(s.name) \in s.arg, VolcanoSettled) /\ Note
AssertRunning(s) == s.op = "assert" /\ Require(s, Placed(s.name) \in s.arg) /\ Note
AwaitPhase(s) ==
  /\ s.op = "phase" /\ Await(s, w.jobs[s.name].phase = s.arg, VolcanoSettled) /\ Note

AwaitPods(s) == s.op = "created" /\ Await(s, HasPods(s.name), VolcanoSettled) /\ Note

\* pending(), blocked_job(): looks for six seconds; a Pod with a node fails the case.
StillUnplaced(s) ==
  /\ s.op = "unplaced"
  /\ IF Placed(s.name) = 0 THEN Call(s, w) ELSE Fail(s)
  /\ Note
DeleteJob(s) == s.op = "delete" /\ Call(s, WithoutJobs({s.name})) /\ Note
NoPods(s) == s.op = "no_pods" /\ Await(s, ~HasPods(s.name), TRUE) /\ Note
CountPlaces(s) == s.op = "places" /\ Require(s, Spread(w.jobs[s.name].at) = s.arg) /\ Note

\* The Job goes five seconds after it is complete, which a poll has seen by then.
TtlExpires(s) == s.op = "expired" /\ Call(s, WithoutJobs({s.name})) /\ Note

\* The controller of queues carries out a command before the next poll but one.
CommandQueue(s) == s.op = "command" /\ Call(s, [w EXCEPT !.queues[s.name] = s.arg]) /\ Note
AwaitState(s) == s.op = "state" /\ Await(s, w.queues[s.name] = s.arg, TRUE) /\ Note

\* create, to be refused by the admission webhook because the queue is closed.
CreateRefused(s) ==
  /\ s.op = "refused" /\ (IF w.queues[s.name] = "Closed" THEN Quiet(s, w) ELSE Fail(s)) /\ Note

----------------------------------------------------------------------------
(* The main program.                                                       *)

\* --only takes one test or all.
StartSuite ==
  /\ Idle /\ loc.run < MaxRuns /\ Begin
  /\ \E only \in 0..LastTest :
       loc' = [loc EXCEPT !.run = @ + 1, !.clean = TRUE, !.verdict = "none",
                          !.mem = [VolcanoMem EXCEPT !.only = only]]
  /\ UNCHANGED <<w, blame>>

NextTest ==
  LET i == loc.mem.case IN
  IF loc.mem.only = AllTests THEN i + 1 ELSE IF i = 0 THEN loc.mem.only ELSE LastTest + 1

\* A case is recorded, and the next one begins.
RecordCase(s) ==
  /\ s.op = "exit" /\ loc.mem.case \in 0..LastTest /\ ~(loc.mem.case = 0 /\ raised)
  /\ Begin /\ UNCHANGED <<w, blame>>
  /\ Set([loc.mem EXCEPT !.case = NextTest, !.failed = @ \/ raised])

\* The last clean(), or the first call, is not in a case: its exception ends the program.
ExitSuite(s) ==
  /\ s.op = "exit" /\ (loc.mem.case > LastTest \/ (loc.mem.case = 0 /\ raised))
  /\ Leave /\ UNCHANGED <<w, blame>>
  /\ loc' = [loc EXCEPT !.verdict = IF raised \/ loc.mem.failed THEN "FAIL" ELSE "PASS"]

VolcanoStep ==
  /\ ~Idle
  /\ \E s \in {Programs[loc.mem.case][pc]} :
       \/ DeleteJobs(s) \/ WaitEmpty(s) \/ DeleteQueues(s) \/ CreateNamespace(s) \/ ReadCluster(s)
       \/ WriteConfig(s) \/ RestartScheduler(s) \/ RolloutDone(s) \/ ApplyQueue(s) \/ CallFn(s)
       \/ ApplyVolcanoJob(s) \/ AwaitRunning(s) \/ AssertRunning(s) \/ AwaitPhase(s)
       \/ AwaitPods(s) \/ StillUnplaced(s) \/ DeleteJob(s) \/ NoPods(s) \/ CountPlaces(s) \/ TtlExpires(s)
       \/ CommandQueue(s) \/ AwaitState(s) \/ CreateRefused(s)
       \/ EndTry(s) /\ Note
       \/ RecordCase(s) \/ ExitSuite(s)

VolcanoInit == w = VolcanoCluster /\ FirstRun(VolcanoMem)
VolcanoNext ==
  \/ VolcanoStep \/ VolcanoEnqueues \/ VolcanoAllocates \/ VolcanoEvicts \/ JobEnds \/ Rollout
  \/ StartSuite \/ KillRun

----------------------------------------------------------------------------
(* When the whole suite exits with 0, every case has begun under the       *)
(* plugin that the list of tests puts before it (run-tests.py:118-121),    *)
(* although most cases run under what an earlier one has set up and an     *)
(* earlier run may have been killed at any point; and the Jobs of others   *)
(* that it may have met are those that had no Pods after the delete of     *)
(* clean(), whose result is ignored, and those that had ended: clean()     *)
(* waits for Pods, not for Jobs or queues (run-tests.py:67-70).            *)
PassMeansIntended ==
  lab = "volcano" /\ loc.verdict = "PASS" /\ loc.mem.only = AllTests => loc.mem.sound
=============================================================================
