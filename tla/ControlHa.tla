----------------------------- MODULE ControlHa -----------------------------
(***************************************************************************)
(* article-control-ha: three scripts that take parts of a control plane    *)
(* away and put them back.  components.py moves the manifests of the       *)
(* scheduler and then of the controller manager out of the kubelet's sight *)
(* on every node, failover.py pauses the node of the scheduler's leader,   *)
(* api-outage.py moves the manifests of the API server.  They run one      *)
(* after another, components.py first, which makes the directory that      *)
(* api-outage.py moves its manifests to.                                   *)
(*                                                                         *)
(* External: kubelets, which start and stop what the manifests say, the    *)
(* scheduler and the controller manager, which work while one process of   *)
(* theirs and one API server run.                                          *)
(***************************************************************************)
EXTENDS Script

\* NODES, in the order of the scripts.
HaNodes == <<"cp", "cp2", "cp3">>
NodeSet == {HaNodes[i] : i \in DOMAIN HaNodes}
StaticPods == {"kube-scheduler", "kube-controller-manager", "kube-apiserver"}

ControlPlane ==
  [manifests |-> [c \in StaticPods |-> NodeSet], procs |-> [c \in StaticPods |-> NodeSet],
   disabledDir |-> {}, paused |-> {}, needs |-> "none", http |-> "none", desired |-> 2, actual |-> 2]
HaMem == [script |-> "components", stopped |-> {}, before |-> 0, leader |-> "none", lost |-> {}]

Alive(c) == w.procs[c] \ w.paused # {}
ApiUp == Alive("kube-apiserver")

HaKubelet ==
  \E c \in StaticPods, n \in NodeSet \ w.paused :
    /\ (n \in w.manifests[c]) # (n \in w.procs[c])
    /\ w' = [w EXCEPT !.procs[c] = IF n \in w.manifests[c] THEN @ \cup {n} ELSE @ \ {n}]
    /\ Aside /\ UNCHANGED blame

HaScheduler ==
  /\ ApiUp /\ Alive("kube-scheduler")
  /\ \/ w.needs = "pending" /\ w' = [w EXCEPT !.needs = "ready"]
     \/ w.http = "pending" /\ w' = [w EXCEPT !.http = "ready"]
  /\ Aside /\ UNCHANGED blame

HaController ==
  /\ ApiUp /\ Alive("kube-controller-manager") /\ w.actual # w.desired
  /\ w' = [w EXCEPT !.actual = w.desired]
  /\ Aside /\ UNCHANGED blame

----------------------------------------------------------------------------
(* The scripts.                                                            *)

ForNode(op, c, i) ==
  [op |-> op, esc |-> 0, part |-> "open", component |-> c, node |-> HaNodes[i]]
MoveAll(c, mkdir) ==
  LET k == IF mkdir THEN 2 ELSE 1 IN
  [i \in 1..(k * Len(HaNodes)) |->
     IF k = 2 /\ i % 2 = 1 THEN ForNode("mkdir", c, (i + 1) \div 2) ELSE ForNode("mv", c, (i + k - 1) \div k)]
RestoreAll(c) == [i \in DOMAIN HaNodes |-> ForNode("restore", c, i)]
OfComponent(op, c) == [op |-> op, esc |-> 0, part |-> "open", component |-> c]

\* Mutant: the manifests are restored after the checks, not in a finally block.
outComponentNoFinally(c, checks, after) ==
  <<OfComponent("begin", c)>> \o MoveAll(c, c # "kube-apiserver")
  \o <<OfComponent("until_stopped", c)>> \o checks \o RestoreAll(c) \o after

\* One turn of the loop of components.py, and the middle of api-outage.py.
outComponent(c, checks, after) ==
  <<OfComponent("begin", c)>>
  \o Try(MoveAll(c, c # "kube-apiserver") \o <<OfComponent("until_stopped", c)>> \o checks,
         RestoreAll(c))
  \o after

components ==
  outComponent("kube-scheduler", <<Bare("run_needs"), Bare("unbound")>>, <<Bare("wait_needs")>>)
  \o outComponent("kube-controller-manager",
                  <<Bare("count"), Bare("scale3"), Bare("unchanged")>>, <<Bare("rollout")>>)
failover ==
  <<Bare("lease"), Bare("pause")>>
  \o Try(<<Bare("create_cm"), Bare("scale4"), Bare("rollout")>>, <<Bare("unpause")>>)
api_outage ==
  <<Bare("create_http"), Bare("wait_http")>>
  \o outComponent("kube-apiserver", <<Bare("api_fails"), Bare("curl")>>, <<Bare("api_back")>>)

HaProgram ==
  Main(CASE loc.mem.script = "components" -> components
         [] loc.mem.script = "failover" -> failover
         [] loc.mem.script = "outage" -> api_outage)

\* A request to the API server.
K(s, new) == IF ApiUp THEN Call(s, new) ELSE Fail(s)

BeginTurn(s) == s.op = "begin" /\ Return /\ UNCHANGED <<w, blame>> /\ Set([loc.mem EXCEPT !.stopped = {}])

\* docker exec works unless the node is paused.
OnNode(s, new) == IF s.node \in w.paused THEN Fail(s) ELSE Call(s, new)

Mkdir(s) == s.op = "mkdir" /\ OnNode(s, [w EXCEPT !.disabledDir = @ \cup {s.node}]) /\ Note

\* The manifest moves away; the node is remembered in stopped when the answer is there.
MoveAway(s) ==
  /\ s.op = "mv"
  /\ IF s.node \notin w.manifests[s.component] \/ s.node \notin w.disabledDir THEN Fail(s)
     ELSE OnNode(s, [w EXCEPT !.manifests[s.component] = @ \ {s.node}])
  /\ Set([loc.mem EXCEPT !.stopped = IF pc' = pc + 1 THEN @ \cup {s.node} ELSE @,
                         !.lost = IF blame' = blame THEN @ ELSE @ \cup {<<s.component, s.node>>}])

\* The finally block: only what is in stopped, and not beyond the first that fails.
MoveBack(s) ==
  /\ s.op = "restore"
  /\ IF s.node \notin loc.mem.stopped THEN Return /\ UNCHANGED <<w, blame>>
     ELSE OnNode(s, [w EXCEPT !.manifests[s.component] = @ \cup {s.node}])
  /\ Note

until(s) == s.op = "until_stopped" /\ Await(s, w.procs[s.component] = {}, w.manifests[s.component] # {}) /\ Note

RunNeeds(s) ==
  /\ s.op = "run_needs"
  /\ IF w.needs # "none" THEN Fail(s) ELSE K(s, [w EXCEPT !.needs = "pending"])
  /\ Note
Unbound(s) == s.op = "unbound" /\ (IF w.needs # "pending" THEN Fail(s) ELSE K(s, w)) /\ Note
WaitNeeds(s) == s.op = "wait_needs" /\ Await(s, w.needs = "ready", w.needs = "none") /\ Note

CountPods(s) == s.op = "count" /\ K(s, w) /\ Set([loc.mem EXCEPT !.before = w.actual])
ScaleBaseline(s) ==
  \/ s.op = "scale3" /\ K(s, [w EXCEPT !.desired = 3]) /\ Note
  \/ s.op = "scale4" /\ K(s, [w EXCEPT !.desired = 4]) /\ Note
Unchanged(s) ==
  /\ s.op = "unchanged"
  /\ (IF w.desired = 3 /\ w.actual = loc.mem.before THEN K(s, w) ELSE Fail(s)) /\ Note
RolloutStatus(s) == s.op = "rollout" /\ Await(s, w.actual = w.desired, FALSE) /\ Note

ReadLease(s) ==
  /\ s.op = "lease"
  /\ \E n \in w.procs["kube-scheduler"] :
       K(s, w) /\ Set([loc.mem EXCEPT !.leader = n])
Pause(s) == s.op = "pause" /\ Call(s, [w EXCEPT !.paused = @ \cup {loc.mem.leader}]) /\ Note
Unpause(s) == s.op = "unpause" /\ Call(s, [w EXCEPT !.paused = @ \ {loc.mem.leader}]) /\ Note

\* The write is retried until it is there: etcd needs most of its nodes.
CreateCm(s) ==
  /\ s.op = "create_cm"
  /\ Await(s, ApiUp /\ 2 * Cardinality(w.paused) < Len(HaNodes), TRUE) /\ Note

CreateHttp(s) ==
  /\ s.op = "create_http"
  /\ (IF w.http # "none" THEN Fail(s) ELSE K(s, [w EXCEPT !.http = "pending"])) /\ Note
WaitHttp(s) == s.op = "wait_http" /\ Await(s, w.http = "ready", FALSE) /\ Note
ApiFails(s) == s.op = "api_fails" /\ Require(s, ~ApiUp) /\ Note
Curl(s) == s.op = "curl" /\ (IF w.http = "ready" THEN Call(s, w) ELSE Fail(s)) /\ Note
ApiBack(s) == s.op = "api_back" /\ Await(s, ApiUp, w.manifests["kube-apiserver"] = {}) /\ Note

HaStep ==
  /\ ~Idle
  /\ \E s \in {HaProgram[pc]} :
       \/ BeginTurn(s) \/ Mkdir(s) \/ MoveAway(s) \/ MoveBack(s) \/ until(s) \/ RunNeeds(s)
       \/ Unbound(s) \/ WaitNeeds(s) \/ CountPods(s) \/ ScaleBaseline(s) \/ Unchanged(s)
       \/ RolloutStatus(s) \/ ReadLease(s) \/ Pause(s) \/ Unpause(s) \/ CreateCm(s) \/ CreateHttp(s)
       \/ WaitHttp(s) \/ ApiFails(s) \/ Curl(s) \/ ApiBack(s) \/ EndRun(s) \/ (EndTry(s) /\ Note)

\* The scripts run in the order of the README, failover.py or not.
HaStart ==
  /\ Idle /\ loc.run < MaxRuns /\ Begin
  /\ \E script \in CASE loc.run = 0 -> {"components"}
                     [] loc.run > 0 /\ loc.mem.script = "components" -> {"failover", "outage"}
                     [] loc.mem.script = "failover" -> {"outage"} [] OTHER -> {} :
       loc' = [loc EXCEPT !.run = @ + 1, !.clean = TRUE, !.verdict = "none", !.mem.script = script]
  /\ UNCHANGED <<w, blame>>

HaInit == w = ControlPlane /\ FirstRun(HaMem)
HaNext == HaStep \/ HaKubelet \/ HaScheduler \/ HaController \/ HaStart \/ KillRun

\* No node is paused.
HaUndone == w.paused = {}

----------------------------------------------------------------------------
(* "Restores the manifests on exit" (components.py:1), with the exceptions *)
(* the code really has: when a script that was not killed is over, a       *)
(* manifest is missing only if the call that moved it away failed itself,  *)
(* so that the node never got into stopped (components.py:32), or if a     *)
(* call of the finally block failed, which keeps the nodes after it.  A    *)
(* failure anywhere else, on any node, for any component, leaves none.     *)
ManifestsRestored ==
  lab = "ha" /\ Idle /\ blame \cap {"kill", "cleanup"} = {} =>
    \A c \in StaticPods : \A n \in NodeSet \ w.manifests[c] : <<c, n>> \in loc.mem.lost
=============================================================================
