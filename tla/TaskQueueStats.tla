--------------------------- MODULE TaskQueueStats ---------------------------
(***************************************************************************)
(* The counters that /metrics and /stats of hpa/advanced/main.go derive    *)
(* from the tasks slice, and that the HPA and the experiment script read.  *)
(***************************************************************************)
EXTENDS TaskQueue, FiniteSetsExt

\* Mutant: counts() looks at Worker before Done.  Worker survives the ack.
CountsWorkerFirst ==
  LET inflight == {i \in 1..accepted : tasks[i].worker # NoWorker}
      finished == {i \in 1..accepted : i \in done} \ inflight IN
  [pending   |-> Cardinality((1..accepted) \ (inflight \cup finished)),
   inflight  |-> Cardinality(inflight),
   completed |-> Cardinality(finished),
   retries   |-> MapThenSumSet(LAMBDA i : IF tasks[i].attempts > 1
                                          THEN tasks[i].attempts - 1 ELSE 0,
                               1..accepted)]

\* counts().
Counts ==
  LET finished == {i \in 1..accepted : i \in done}
      inflight == {i \in 1..accepted : Leased(i)} IN
  [pending   |-> Cardinality((1..accepted) \ (finished \cup inflight)),
   inflight  |-> Cardinality(inflight),
   completed |-> Cardinality(finished),
   retries   |-> MapThenSumSet(LAMBDA i : IF tasks[i].attempts > 1
                                          THEN tasks[i].attempts - 1 ELSE 0,
                               1..accepted)]

\* How many events of a kind the log of task i holds.
Logged(i, k) == Cardinality({n \in 1..Len(events[i]) : events[i][n].kind = k})
AllLogged(k) == MapThenSumSet(LAMBDA i : Logged(i, k), 1..accepted)

\* The counters that drive the autoscaler say what the event log says: every
\* claim is in flight, was given back or was acknowledged; a task counts as
\* completed once; and every claim of a task but its first is a retry.
CountsMatchEvents ==
  /\ Counts.completed = AllLogged("ack")
  /\ Counts.inflight = AllLogged("claim") - AllLogged("expired") - AllLogged("ack")
  /\ Counts.retries = AllLogged("claim")
                      - Cardinality({i \in 1..accepted : Logged(i, "claim") > 0})
  /\ Counts.pending + Counts.inflight + Counts.completed = accepted
=============================================================================
