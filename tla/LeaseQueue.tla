----------------------------- MODULE LeaseQueue -----------------------------
(***************************************************************************)
(* What the broker promises, without time, network or consumers: a queue   *)
(* of tasks that are leased in the order of their ids, to one owner at a   *)
(* time, and finished only by their owner.  A lease may be taken back at   *)
(* any moment; a request that takes leases back may grant or finish one    *)
(* task in the same step.                                                  *)
(***************************************************************************)
EXTENDS Integers

CONSTANTS Owners, Nobody, Capacity

VARIABLE queue   \* queue[i] is the phase of task i and who leases it

Slots == 1..Capacity
Entry(p, w) == [phase |-> p, owner |-> w]
Leases == {i \in Slots : queue[i].phase = "leased"}

\* The queue once the leases in E are taken back.
Without(E) == [i \in Slots |-> IF i \in E THEN Entry("pending", Nobody) ELSE queue[i]]

Init == queue = [i \in Slots |-> Entry("absent", Nobody)]

\* Tasks first..last enter at the end of the queue.
Add(first, last) ==
  /\ \A i \in Slots : queue[i].phase = "absent" <=> i >= first
  /\ queue' = [i \in Slots |-> IF i \in first..last
                               THEN Entry("pending", Nobody) ELSE queue[i]]

Release(E) == E # {} /\ queue' = Without(E)

\* The oldest pending task goes to w.
Take(E, i, w) ==
  /\ Without(E)[i].phase = "pending"
  /\ \A j \in Slots : j < i => Without(E)[j].phase # "pending"
  /\ queue' = [Without(E) EXCEPT ![i] = Entry("leased", w)]

Finish(E, i) ==
  /\ i \in Leases \ E
  /\ queue' = [Without(E) EXCEPT ![i] = Entry("done", queue[i].owner)]

Reset == queue' = [i \in Slots |-> Entry("absent", Nobody)]

Next ==
  \/ \E first, last \in Slots : Add(first, last)
  \/ \E E \in SUBSET Leases :
       \/ Release(E)
       \/ \E i \in Slots, w \in Owners : Take(E, i, w)
       \/ \E i \in Slots : Finish(E, i)
  \/ Reset

Spec == Init /\ [][Next]_queue
=============================================================================
