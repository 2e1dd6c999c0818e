--------------------------- MODULE WebhookService ---------------------------
(***************************************************************************)
(* The mutating webhook of admission-webhook/main.go: a round robin over   *)
(* the nodes of the cluster with a cache of the node given to each Pod     *)
(* name, served by one goroutine per request, while a background goroutine *)
(* lists the nodes every minute.                                           *)
(*                                                                         *)
(* The cluster (external) has at least one node, the one the webhook runs  *)
(* on.  A node is a number, so that its name has an order.                 *)
(***************************************************************************)
EXTENDS Integers, Sequences, FiniteSets, SequencesExt

CONSTANTS
  Nodes,       \* nodes that may be in the cluster
  Pods,        \* Pod names
  NoPod,       \* the name of no Pod
  MaxRequests, \* bound: requests to /mutate
  MaxChanges   \* bound: changes of the cluster

ASSUME ServiceAssumption ==
  /\ Nodes \subseteq Nat \ {0} /\ IsFiniteSet(Nodes) /\ NoPod \notin Pods
  /\ MaxRequests \in Nat /\ MaxChanges \in Nat

VARIABLES
  cluster,     \* the nodes that exist
  listed,      \* what List returned, until reload stores it; <<>> in between
  nodeList,    \* nodeList.Items, sorted by name
  next,        \* the index of the last assignment
  cache,       \* the node stored for each Pod name, 0 for none
  pc,          \* where the goroutine of a request is
  body,        \* what the request is: the Pod's name and its form
  node,        \* nodeName in the handler
  patch,       \* the node selector the answer carries, 0 for none
  earlier,     \* history: the requests that had ended when this one arrived
  handed,      \* history: what Next returned since the last reload
  changes

serviceVars == <<nodeList, next, cache>>
requestVars == <<pc, body, node, patch, earlier>>
vars == <<cluster, listed, serviceVars, requestVars, handed, changes>>

Requests == 1..MaxRequests
Sorted(S) == CHOOSE s \in SetToSeqs(S) : \A i, j \in DOMAIN s : i < j => s[i] < s[j]
Ended == {"bad_request", "empty", "aborted", "allowed"}

(* What arrives at /mutate: what does not decode as an AdmissionRequest,   *)
(* an AdmissionReview included, whose kind is a string; an                 *)
(* AdmissionRequest whose object is no Pod; or one whose Pod has a node    *)
(* selector or a nil one.                                                  *)
Bodies == [pod : {NoPod}, form : {"undecodable", "no_pod"}]
          \cup [pod : Pods, form : {"selector", "nil_selector"}]

----------------------------------------------------------------------------
(* The background goroutine.                                               *)

\* The ticker fires and the nodes are listed.
List ==
  /\ listed = <<>>
  /\ listed' = Sorted(cluster)
  /\ UNCHANGED <<cluster, serviceVars, requestVars, handed, changes>>

\* The sorted list replaces the old one under the lock; next stays.
Reload ==
  /\ listed # <<>>
  /\ nodeList' = listed /\ listed' = <<>> /\ handed' = <<>>
  /\ UNCHANGED <<cluster, next, cache, requestVars, changes>>

----------------------------------------------------------------------------
(* The handler of /mutate, one goroutine per request.                      *)

Goto(r, l) == pc' = [pc EXCEPT ![r] = l]

\* Bodies that carry no Pod end at once: an error, or an answer without a body
\* because the inner err hides the one the deferred function looks at.
Arrive(r, b) ==
  /\ pc[r] = "none" /\ \A q \in 1..(r - 1) : pc[q] # "none"
  /\ body' = [body EXCEPT ![r] = b]
  /\ earlier' = [earlier EXCEPT ![r] = {q \in Requests : pc[q] \in Ended}]
  /\ Goto(r, CASE b.form = "undecodable" -> "bad_request"
               [] b.form = "no_pod"      -> "empty"
               [] OTHER                  -> "load")
  /\ UNCHANGED <<cluster, listed, serviceVars, node, patch, handed, changes>>

\* cache.Load.
Load(r) ==
  LET n == cache[body[r].pod] IN
  /\ pc[r] = "load"
  /\ node' = [node EXCEPT ![r] = n]
  /\ Goto(r, IF n = 0 THEN "next" ELSE "store")
  /\ UNCHANGED <<cluster, listed, serviceVars, body, patch, earlier, handed, changes>>

\* A panic is recovered by the server, which aborts the request; the deferred
\* unlock runs.
Panic(r) == Goto(r, "aborted") /\ UNCHANGED <<node, handed>>

\* Next() returns nodeList.Items[i], and panics for an index outside of the list.
Items(r, i) ==
  IF i < Len(nodeList)
  THEN /\ node' = [node EXCEPT ![r] = nodeList[i + 1]]
       /\ handed' = Append(handed, nodeList[i + 1])
       /\ Goto(r, "store")
  ELSE Panic(r)

\* Mutant: next is read and advanced without the lock, so an advance is lost.
NextUnlocked(r) ==
  LET i == (next + 1) % Len(nodeList) IN
  /\ pc[r] = "next" /\ next' \in {i, next} /\ Items(r, i)
  /\ UNCHANGED <<cluster, listed, nodeList, cache, body, patch, earlier, changes>>

\* Mutant: the node at next is taken before next is advanced.
NextBeforeAdvance(r) ==
  /\ pc[r] = "next" /\ next' = (next + 1) % Len(nodeList) /\ Items(r, next)
  /\ UNCHANGED <<cluster, listed, nodeList, cache, body, patch, earlier, changes>>

\* Next(), under the lock; the remainder panics for an empty list.
AssignNext(r) ==
  LET i == (next + 1) % Len(nodeList) IN
  /\ pc[r] = "next"
  /\ IF nodeList = <<>> THEN Panic(r) /\ UNCHANGED next ELSE next' = i /\ Items(r, i)
  /\ UNCHANGED <<cluster, listed, nodeList, cache, body, patch, earlier, changes>>

\* Mutant: the answer is not remembered.
StoreNothing(r) ==
  /\ pc[r] = "store"
  /\ Goto(r, IF body[r].form = "nil_selector" THEN "aborted" ELSE "allowed")
  /\ UNCHANGED <<cluster, listed, serviceVars, body, node, patch, earlier, handed, changes>>

\* The node selector is written, which panics on a nil map and aborts the
\* request; then cache.Store, and an answer that allows the Pod.  The patch
\* that CreatePatch computes is thrown away.
Store(r) ==
  /\ pc[r] = "store"
  /\ IF body[r].form = "nil_selector"
     THEN Goto(r, "aborted") /\ UNCHANGED cache
     ELSE Goto(r, "allowed") /\ cache' = [cache EXCEPT ![body[r].pod] = node[r]]
  /\ UNCHANGED <<cluster, listed, nodeList, next, body, node, patch, earlier, handed, changes>>

----------------------------------------------------------------------------
\* Nodes join and leave.
ClusterChange(S) ==
  /\ changes < MaxChanges /\ S # cluster
  /\ changes' = changes + 1 /\ cluster' = S
  /\ UNCHANGED <<listed, serviceVars, requestVars, handed>>

Clusters == (SUBSET Nodes) \ {{}}

\* NewService has listed the nodes once.
Init ==
  /\ cluster \in Clusters
  /\ listed = <<>> /\ nodeList = Sorted(cluster) /\ next = 0
  /\ cache = [p \in Pods |-> 0]
  /\ pc = [r \in Requests |-> "none"]
  /\ body = [r \in Requests |-> [pod |-> NoPod, form |-> "undecodable"]]
  /\ node = [r \in Requests |-> 0] /\ patch = [r \in Requests |-> 0]
  /\ earlier = [r \in Requests |-> {}] /\ handed = <<>> /\ changes = 0

Next ==
  \/ List \/ Reload
  \/ \E S \in Clusters : ClusterChange(S)
  \/ \E r \in Requests :
       \/ \E b \in Bodies : Arrive(r, b)
       \/ Load(r) \/ AssignNext(r) \/ Store(r)

Spec == Init /\ [][Next]_vars

----------------------------------------------------------------------------
(* Correctness.                                                            *)

\* A request that was decoded panics only because its Pod has a nil node
\* selector (main.go:179): neither the remainder nor the index of Next()
\* (main.go:74-75) does, however short a reload has made the list since the
\* index was stored.
OnlyNilSelectorAborts ==
  \A r \in Requests : pc[r] = "aborted" => body[r].form = "nil_selector"

\* Between two reloads the round robin comes back to a node only after it gave
\* every other one away, however the requests interleave.
RoundRobin ==
  \A m, n \in DOMAIN handed :
    m < n /\ n < m + Len(nodeList) => handed[m] # handed[n]

\* One request of the Pod began while another was being handled.
Overlapping(p) ==
  \E q, r \in Requests :
    /\ q < r /\ pc[r] # "none" /\ body[q].pod = p /\ body[r].pod = p
    /\ q \notin earlier[r]

\* As long as the requests for a Pod name do not overlap, all of them get the
\* same node, whatever nodes come and go and whatever other requests do.
SerialRequestsAgree ==
  \A q, r \in Requests :
    /\ pc[q] = "allowed" /\ pc[r] = "allowed"
    /\ body[q].pod = body[r].pod /\ ~Overlapping(body[r].pod)
    => node[q] = node[r]

\* "modify k8s resources with an admission webhook" (README.md:1): the answer
\* to a Pod that was given a node carries that node.
AssignedNodeIsPatched ==
  \A r \in Requests : pc[r] = "allowed" => patch[r] = node[r]
=============================================================================
