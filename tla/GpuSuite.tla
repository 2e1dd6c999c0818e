------------------------------ MODULE GpuSuite ------------------------------
(***************************************************************************)
(* hami-mock-gpu/run-tests.py: a test runner on shared GPUs.  check() runs *)
(* a case, records PASS or FAIL, and deletes whatever Pods the case has    *)
(* left in `active', one by one, a failing delete being printed only.      *)
(*                                                                         *)
(* External: the API server and the HAMi scheduler, which gives a Pod      *)
(* shares of devices of one node within memory, cores and shares.          *)
(***************************************************************************)
EXTENDS Script, SequencesExt

Devices == {"w1", "w2"} \X {0, 1}
U0 == {<<n, 0>> : n \in {"w1", "w2"}}
U1 == {<<n, 1>> : n \in {"w1", "w2"}}
DevMem == 40960
DevCores == 100
DevShares == 10

----------------------------------------------------------------------------
(* The cases.  spec is what a Pod asks for, ann what its annotations say.  *)

Spec0 == [mem |-> 4096, cores |-> 25, gpus |-> 1, node |-> {"w1", "w2"}, containers |-> 1]
OnW1 == [Spec0 EXCEPT !.node = {"w1"}]
Ann0 == [devs |-> Devices, scope |-> "none", policy |-> "none"]
UseU0 == [Ann0 EXCEPT !.devs = U0]

pod(name, spec, ann) ==
  [op |-> "pod", esc |-> 0, part |-> "open", name |-> name, spec |-> spec, ann |-> ann]
Named(op, name) == [op |-> op, esc |-> 0, part |-> "open", name |-> name]
readyOn(name, devs) == [op |-> "ready", esc |-> 0, part |-> "open", name |-> name, devs |-> devs]
readyPod(name) == readyOn(name, Devices)
pending(name) == <<Named("event", name), Named("recheck", name)>>
deletePod(name) == Named("delete", name)

base == <<Bare("nodes")>>
basic == <<pod(<<"basic">>, Spec0, Ann0), readyPod(<<"basic">>), Bare("exec")>>
Share(i) == pod(<<"share", i>>, OnW1, UseU0)
shared == <<Share(0), readyOn(<<"share", 0>>, U0), Share(1), readyOn(<<"share", 1>>, U0),
            Share(2), readyOn(<<"share", 2>>, U0)>>
multiGpu == <<pod(<<"multi">>, [OnW1 EXCEPT !.gpus = 2], Ann0), readyPod(<<"multi">>),
              Named("two", <<"multi">>), Bare("exec")>>
percent == <<pod(<<"percent">>, [Spec0 EXCEPT !.mem = (DevMem * 25) \div 100], Ann0),
             readyPod(<<"percent">>)>>
Clamp(cores) == IF cores > DevCores THEN DevCores ELSE cores
reject(kind) ==
  CASE kind = "memory" -> <<pod(<<"reject-memory">>, [OnW1 EXCEPT !.mem = 40961], Ann0)>>
                          \o pending(<<"reject-memory">>)
    [] kind = "cores" -> <<pod(<<"core-clamp">>, [OnW1 EXCEPT !.cores = Clamp(101)], Ann0),
                           readyPod(<<"core-clamp">>), Bare("exec")>>
    [] kind = "cards" -> <<pod(<<"reject-cards">>, [OnW1 EXCEPT !.gpus = 3], Ann0)>>
                         \o pending(<<"reject-cards">>)
budget(resource) ==
  LET sized(m, c) == [OnW1 EXCEPT !.mem = m, !.cores = c]
      memory == resource = "memory" IN
  <<pod(<<"holder">>, IF memory THEN sized(30000, 10) ELSE sized(1024, 60), UseU0),
    readyPod(<<"holder">>),
    pod(<<"blocked">>, IF memory THEN sized(12000, 10) ELSE sized(1024, 50), UseU0)>>
  \o pending(<<"blocked">>) \o <<deletePod(<<"holder">>), readyPod(<<"blocked">>)>>
exclusive ==
  <<pod(<<"exclusive">>, [OnW1 EXCEPT !.mem = DevMem, !.cores = 100], UseU0),
    readyPod(<<"exclusive">>), pod(<<"blocked">>, [OnW1 EXCEPT !.mem = 1, !.cores = 1], UseU0)>>
  \o pending(<<"blocked">>)
\* The devices the annotation leaves, or an expectation of none.
select(devs) ==
  <<pod(<<"selection">>, OnW1, [Ann0 EXCEPT !.devs = devs])>>
  \o IF devs = {} THEN pending(<<"selection">>) ELSE <<readyOn(<<"selection">>, devs)>>
policyPair(scope, policy) ==
  LET one(i) == <<pod(<<"policy", i>>, IF scope = "gpu" THEN OnW1 ELSE Spec0,
                      [Ann0 EXCEPT !.scope = scope, !.policy = policy]),
                  readyPod(<<"policy", i>>)>>
  IN  one(0) \o one(1)
      \o <<[op |-> "compare", esc |-> 0, part |-> "open", scope |-> scope, policy |-> policy]>>
multicontainer == <<pod(<<"two-containers">>, [OnW1 EXCEPT !.containers = 2], Ann0),
                    readyPod(<<"two-containers">>), Named("two", <<"two-containers">>)>>
Slot(i) == pod(<<"slot", i>>, [OnW1 EXCEPT !.mem = 64, !.cores = 1], UseU0)
slots ==
  [i \in 1..20 |-> IF i % 2 = 1 THEN Slot(i \div 2) ELSE readyPod(<<"slot", (i - 1) \div 2>>)]
  \o <<Slot(10)>> \o pending(<<"slot", 10>>) \o <<deletePod(<<"slot", 0>>), readyPod(<<"slot", 10>>)>>
restart == <<pod(<<"survivor">>, OnW1, Ann0), readyPod(<<"survivor">>), Bare("rollout"), Bare("rollout"),
             readyPod(<<"survivor">>), pod(<<"after-restart">>, Spec0, Ann0), readyPod(<<"after-restart">>)>>

LastCase == 23
CaseBody(i) ==
  CASE i = 0 -> <<Bare("delete_all")>>
    [] i = 1 -> base [] i = 2 -> basic [] i = 3 -> shared [] i = 4 -> multiGpu [] i = 5 -> percent
    [] i = 6 -> reject("memory") [] i = 7 -> reject("cores") [] i = 8 -> reject("cards")
    [] i = 9 -> budget("memory") [] i = 10 -> budget("cores") [] i = 11 -> exclusive
    [] i = 12 -> select(Devices) [] i \in {13, 14} -> select({}) [] i \in {15, 16} -> select(U1)
    [] i = 17 -> policyPair("gpu", "binpack") [] i = 18 -> policyPair("gpu", "spread")
    [] i = 19 -> policyPair("node", "binpack") [] i = 20 -> policyPair("node", "spread")
    [] i = 21 -> multicontainer [] i = 22 -> slots [] i = 23 -> restart

----------------------------------------------------------------------------
(* The cluster: the Pods by name, each with the device of each share or    *)
(* none yet, and the names that have a FailedScheduling event, which       *)
(* outlives its Pod.                                                       *)

GpuCluster == [pods |-> <<>>, events |-> {}]
Unplaced == <<>>
There(name) == name \in DOMAIN w.pods

SharesOf(p, dev) == Cardinality({i \in DOMAIN p.alloc : p.alloc[i] = dev})
LoadOf(dev, cost(_)) ==
  SumFunction([n \in DOMAIN w.pods |-> SharesOf(w.pods[n], dev) * cost(w.pods[n].spec)])
UsedMem(dev) == LoadOf(dev, LAMBDA s : s.mem)
UsedCores(dev) == LoadOf(dev, LAMBDA s : s.cores)
UsedShares(dev) == LoadOf(dev, LAMBDA s : 1)

\* Ways to place a Pod: a device for each share, different ones within a container.
Placements(p) ==
  LET n == p.spec.gpus * p.spec.containers
      onNode(node) == [1..n -> {d \in p.ann.devs : d[1] = node}]
      ok(a) ==
        /\ p.spec.containers = 1 => IsInjective(a)
        /\ \A d \in Range(a) :
             LET k == SharesOf([alloc |-> a], d) IN
             /\ UsedMem(d) + k * p.spec.mem <= DevMem
             /\ UsedCores(d) + k * p.spec.cores <= DevCores
             /\ UsedShares(d) + k <= DevShares
  IN  {a \in UNION {onNode(node) : node \in p.spec.node} : ok(a)}

\* How full the chosen node or device is already.
Fullness(a, scope) ==
  IF scope = "gpu" THEN UsedShares(a[1])
  ELSE UsedShares(<<a[1][1], 0>>) + UsedShares(<<a[1][1], 1>>)

\* The placements a scheduling policy prefers.
Preferred(p) ==
  LET all == Placements(p) IN
  CASE p.ann.policy = "binpack" ->
         {a \in all : \A b \in all : Fullness(a, p.ann.scope) >= Fullness(b, p.ann.scope)}
    [] p.ann.policy = "spread" ->
         {a \in all : \A b \in all : Fullness(a, p.ann.scope) <= Fullness(b, p.ann.scope)}
    [] OTHER -> all

\* The scheduler places a Pod, or says why it cannot.
HamiScheduler ==
  /\ \E name \in DOMAIN w.pods :
       /\ w.pods[name].alloc = Unplaced
       /\ LET good == Preferred(w.pods[name]) IN
          IF good # {} THEN \E a \in good : w' = [w EXCEPT !.pods[name].alloc = a]
          ELSE name \notin w.events /\ w' = [w EXCEPT !.events = @ \cup {name}]
  /\ Aside /\ UNCHANGED blame

----------------------------------------------------------------------------
(* The runner.                                                             *)

GpuMem == [case |-> 0, active |-> <<>>, todo |-> <<>>, failed |-> FALSE, hit |-> {}, lost |-> {}]

Current == Main(CaseBody(loc.mem.case))

\* kubectl apply: a new Pod, or new annotations of a Pod that is still there.
Applied(s) ==
  LET p == [spec |-> s.spec, ann |-> s.ann, alloc |-> Unplaced] IN
  IF There(s.name) THEN [w EXCEPT !.pods[s.name].ann = s.ann]
  ELSE [w EXCEPT !.pods = [n \in DOMAIN @ \cup {s.name} |-> IF n = s.name THEN p ELSE @[n]]]

CreatePod(s) ==
  /\ s.op = "pod"
  /\ IF There(s.name) /\ w.pods[s.name].spec # s.spec THEN Fail(s) /\ Note
     ELSE /\ Call(s, Applied(s))
          /\ Set([loc.mem EXCEPT !.active = IF blame' = blame THEN Append(@, s.name) ELSE @,
                                 !.lost = IF blame' = blame THEN @ ELSE @ \cup {s.name}])

Running(name) == There(name) /\ w.pods[name].alloc # Unplaced
Hopeless(name) == ~There(name) \/ Placements(w.pods[name]) = {}

ready_(s) ==
  /\ s.op = "ready"
  /\ \/ Await(s, Running(s.name) /\ Range(w.pods[s.name].alloc) \subseteq s.devs, Hopeless(s.name))
     \/ Running(s.name) /\ ~(Range(w.pods[s.name].alloc) \subseteq s.devs) /\ Fail(s)
  /\ Note

\* pending(): no node before the event, which an earlier Pod of that name may have left,
\* and none three seconds after it.
NoNodeBefore(s) ==
  /\ s.op = "event"
  /\ IF ~There(s.name) \/ Running(s.name) THEN Fail(s) ELSE Await(s, s.name \in w.events, FALSE)
  /\ Note
NoNodeAfter(s) ==
  /\ s.op = "recheck"
  /\ IF ~There(s.name) \/ Running(s.name) THEN Fail(s) ELSE Call(s, w)
  /\ Note

Without(name) == [w EXCEPT !.pods = Restrict(@, DOMAIN @ \ {name})]

DeleteInCase(s) ==
  /\ s.op = "delete"
  /\ IF ~There(s.name) THEN Fail(s) /\ Note
     ELSE /\ Call(s, Without(s.name))
          /\ Set([loc.mem EXCEPT !.active = IF blame' = blame THEN RemoveFirst(@, s.name) ELSE @,
                                 !.hit = IF blame' = blame THEN @ ELSE @ \cup {s.name}])

DeleteAll(s) == s.op = "delete_all" /\ Call(s, [w EXCEPT !.pods = <<>>]) /\ Note

\* Reads: nodes, exec, and a rollout of scheduler and plugin, which no Pod notices.
ReadOnly(s) == s.op \in {"nodes", "exec", "rollout"} /\ Call(s, w) /\ Note

TwoShares(s) ==
  /\ s.op = "two"
  /\ Require(s, /\ Len(w.pods[s.name].alloc) = 2
               /\ w.pods[s.name].spec.gpus = 2 => Cardinality(Range(w.pods[s.name].alloc)) = 2)
  /\ Note

ComparePolicy(s) ==
  /\ s.op = "compare"
  /\ LET dev(i) == w.pods[<<"policy", i>>].alloc[1]
         value(i) == IF s.scope = "gpu" THEN dev(i) ELSE dev(i)[1] IN
     Require(s, (value(0) = value(1)) <=> s.policy = "binpack")
  /\ Note

\* check(): the case is over, well or not, and the Pods in active[:] are next.  The
\* delete before the first case is not in a check: the script ends if it fails.
CaseEnds(s) ==
  /\ s.op = "exit" /\ ~(loc.mem.case = 0 /\ raised)
  /\ pc' = pc + 1 /\ raised' = FALSE /\ UNCHANGED <<w, blame>>
  /\ Set([loc.mem EXCEPT !.todo = loc.mem.active, !.failed = @ \/ raised])

\* Mutant: the name leaves active although its delete may fail.
CleanOneForgets ==
  /\ loc.mem.todo # <<>>
  /\ LET name == Head(loc.mem.todo)
         rest == [loc.mem EXCEPT !.todo = Tail(@)] IN
     /\ IF There(name)
        THEN \/ w' = Without(name) /\ UNCHANGED blame
             \/ Faults([part |-> "finally"]) /\ w' \in {w, Without(name)}
        ELSE UNCHANGED <<w, blame>>
     /\ Set([rest EXCEPT !.active = RemoveFirst(@, name),
                         !.hit = IF blame' = blame THEN @ ELSE @ \cup {name}])
  /\ UNCHANGED <<pc, raised>>

\* One turn of the cleanup: save and delete; whatever fails is printed.
CleanOne ==
  /\ loc.mem.todo # <<>>
  /\ LET name == Head(loc.mem.todo)
         rest == [loc.mem EXCEPT !.todo = Tail(@)] IN
     \/ /\ There(name)
        /\ w' = Without(name) /\ UNCHANGED blame
        /\ Set([rest EXCEPT !.active = RemoveFirst(@, name)])
     \/ /\ There(name)
        /\ Faults([part |-> "finally"]) /\ w' \in {w, Without(name)}
        /\ Set([rest EXCEPT !.hit = @ \cup {name}])
     \/ /\ ~There(name) /\ UNCHANGED <<w, blame>> /\ Set(rest)
  /\ UNCHANGED <<pc, raised>>

NextCase ==
  /\ loc.mem.todo = <<>> /\ loc.mem.case < LastCase
  /\ Begin /\ UNCHANGED <<w, blame>> /\ Set([loc.mem EXCEPT !.case = @ + 1])

\* The summary, or the end by the exception of the first delete.
SuiteEnds(bad) ==
  /\ Leave /\ UNCHANGED <<w, blame>>
  /\ loc' = [loc EXCEPT !.verdict = IF bad THEN "FAIL" ELSE "PASS", !.mem = GpuMem]

InCleanup == pc = Len(Current) + 1

GpuStep ==
  /\ ~Idle
  /\ \/ /\ ~InCleanup
        /\ \E s \in {Current[pc]} :
             \/ CreatePod(s) \/ ready_(s) \/ NoNodeBefore(s) \/ NoNodeAfter(s) \/ DeleteInCase(s)
             \/ DeleteAll(s) \/ ReadOnly(s) \/ TwoShares(s) \/ ComparePolicy(s) \/ CaseEnds(s)
             \/ s.op = "exit" /\ loc.mem.case = 0 /\ raised /\ SuiteEnds(TRUE)
     \/ /\ InCleanup
        /\ \/ CleanOne \/ NextCase
           \/ loc.mem.todo = <<>> /\ loc.mem.case = LastCase /\ SuiteEnds(loc.mem.failed)

GpuKill == Die /\ UNCHANGED w /\ loc' = [loc EXCEPT !.mem = GpuMem]

GpuInit == w = GpuCluster /\ FirstRun(GpuMem)
GpuNext == GpuStep \/ HamiScheduler \/ StartRun \/ GpuKill

----------------------------------------------------------------------------
(* When a case starts, every Pod still there is there because a call of    *)
(* its own failed: its delete, after which it is still in active and the   *)
(* cleanup of this case tries again (run-tests.py:69), or its apply, whose *)
(* Pod no later cleanup knows (run-tests.py:55).  One Pod that cannot be   *)
(* deleted does not keep the others.                                       *)
LeftoverIsExplained ==
  lab = "gpu" /\ pc = 1 /\ loc.mem.case > 0 =>
    \A name \in DOMAIN w.pods :
      \/ name \in loc.mem.hit /\ \E i \in DOMAIN loc.mem.active : loc.mem.active[i] = name
      \/ name \in loc.mem.lost
=============================================================================
