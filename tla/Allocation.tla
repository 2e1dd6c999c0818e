----------------------------- MODULE Allocation -----------------------------
(***************************************************************************)
(* The two allocation calls of the device plugin in extended-resource/:    *)
(* GetPreferredAllocation proposes devices and Allocate accepts or refuses *)
(* a choice.  Each reads the health of the devices under the manager's     *)
(* read lock, and UpdateHealth may come between them.                      *)
(*                                                                         *)
(* The kubelet is external: it asks for a preference and allocates what it *)
(* is told, or allocates a choice of its own.                              *)
(***************************************************************************)
EXTENDS Integers, FiniteSets, Sequences, SequencesExt

CONSTANTS
  Devices,          \* the ids the manager knows
  Strangers,        \* ids it does not know
  MaxAvailable,     \* bound: length of AvailableDeviceIDs
  MaxMust,          \* bound: length of MustIncludeDeviceIDs
  MaxSize,          \* bound: AllocationSize
  MaxContainers,    \* bound: containers of one Allocate
  MaxIds,           \* bound: DevicesIDs of one container of Allocate
  MaxUpdates        \* bound: health changes

ASSUME AllocationBounds ==
  /\ Devices \cap Strangers = {}
  /\ {MaxAvailable, MaxMust, MaxSize, MaxContainers, MaxIds, MaxUpdates} \subseteq Nat

VARIABLES
  unhealthy,   \* devices whose Health is Unhealthy
  stage,       \* the last call: "none", "preferred" or "allocated"
  request,     \* its container requests
  answer,      \* its answer
  proposed,    \* the devices the plugin proposed
  changed,     \* devices whose health changed since that proposal
  updates

vars == <<unhealthy, stage, request, answer, proposed, changed, updates>>

Ids == Devices \cup Strangers
Lists(n) == UNION {[1..k -> Ids] : k \in 0..n}
Error == [ok |-> FALSE, ids |-> <<>>]
Ok(ids) == [ok |-> TRUE, ids |-> ids]

----------------------------------------------------------------------------
(* The resource manager.                                                   *)

Usable(d) == d \in Devices /\ d \notin unhealthy

\* Mutant: selectedSet is not consulted.
SelectAgain(selected, d) == Append(selected, d)

\* One turn of the loops that fill selected.
Select(selected, d) == IF d \in Range(selected) THEN selected ELSE Append(selected, d)

PreferredAllocation(r) ==
  LET included == FoldLeft(Select, <<>>, r.must)
      fill(selected, d) == IF Len(selected) = r.size THEN selected ELSE Select(selected, d)
      selected == FoldLeft(fill, included, r.available) IN
  IF \/ \E d \in Range(r.available) : ~Usable(d)
     \/ \E d \in Range(r.must) : d \notin Range(r.available)
     \/ Len(included) > r.size
     \/ Len(selected) # r.size
  THEN Error
  ELSE Ok(selected)

\* Mutant: every container has a map of requested devices of its own.
ValidateEachAlone(containers) ==
  \A c \in DOMAIN containers :
    /\ \A d \in Range(containers[c]) : Usable(d)
    /\ IsInjective(containers[c])

\* The nested loops remember the devices requested so far, over all containers.
ValidateAllocation(containers) ==
  LET visit(seen, d) ==
        IF seen.ok /\ Usable(d) /\ d \notin Range(seen.ids)
        THEN Ok(Append(seen.ids, d)) ELSE Error IN
  FoldLeft(visit, Ok(<<>>), FlattenSeq(containers)).ok

----------------------------------------------------------------------------
(* The handlers.                                                           *)

\* GetPreferredAllocation refuses the whole call when it refuses a container.
GetPreferredAllocation(reqs) ==
  LET replies == [c \in DOMAIN reqs |-> PreferredAllocation(reqs[c])] IN
  /\ stage = "none"
  /\ stage' = "preferred" /\ request' = reqs
  /\ answer' = IF \A c \in DOMAIN reqs : replies[c].ok
               THEN Ok([c \in DOMAIN reqs |-> replies[c].ids]) ELSE Error
  /\ proposed' = answer'.ids /\ changed' = {}
  /\ UNCHANGED <<unhealthy, updates>>

\* Allocate returns each container's list of ids, unchanged.
Allocate(containers) ==
  /\ stage' = "allocated" /\ request' = containers
  /\ answer' = IF ValidateAllocation(containers) THEN Ok(containers) ELSE Error
  /\ UNCHANGED <<unhealthy, proposed, changed, updates>>

AllocateProposed ==
  stage = "preferred" /\ answer.ok /\ Allocate(proposed)

AllocateOther(containers) ==
  stage = "none" /\ Allocate(containers)

UpdateHealth(d) ==
  /\ updates < MaxUpdates /\ stage # "allocated"
  /\ updates' = updates + 1
  /\ unhealthy' = IF d \in unhealthy THEN unhealthy \ {d} ELSE unhealthy \cup {d}
  /\ changed' = changed \cup {d}
  /\ UNCHANGED <<stage, request, answer, proposed>>

----------------------------------------------------------------------------
Init ==
  /\ unhealthy = {} /\ stage = "none" /\ request = <<>> /\ answer = Error
  /\ proposed = <<>> /\ changed = {} /\ updates = 0

PreferRequests ==
  [available : Lists(MaxAvailable), must : Lists(MaxMust), size : 0..MaxSize]

AllocateRequests == UNION {[1..n -> Lists(MaxIds)] : n \in 0..MaxContainers}

\* The kubelet asks for a preference for one container at a time; Allocate may
\* name any number of them.
Next ==
  \/ \E r \in PreferRequests : GetPreferredAllocation(<<r>>)
  \/ \E containers \in AllocateRequests : AllocateOther(containers)
  \/ AllocateProposed
  \/ \E d \in Devices : UpdateHealth(d)

Spec == Init /\ [][Next]_vars

----------------------------------------------------------------------------
(* Correctness.                                                            *)

\* The index at which id d first occurs.
First(s, d) == CHOOSE n \in DOMAIN s : s[n] = d /\ \A m \in 1..(n - 1) : s[m] # d

\* The order of first occurrences.
Ordered(s, ref) == \A m, n \in DOMAIN s : m < n => First(ref, s[m]) < First(ref, s[n])

\* What a preference must be: the must-include devices first, in their order,
\* then the earliest available devices, in theirs, as many as asked for.
Fits(r, ids) ==
  LET k == Cardinality(Range(r.must))
      head == SubSeq(ids, 1, k)
      tail == SubSeq(ids, k + 1, Len(ids)) IN
  /\ Len(ids) = r.size /\ IsInjective(ids)
  /\ Range(head) = Range(r.must) /\ Ordered(head, r.must)
  /\ Range(tail) \subseteq Range(r.available) /\ Ordered(tail, r.available)
  /\ \A d \in Range(r.available) \ Range(ids), e \in Range(tail) :
       First(r.available, e) < First(r.available, d)

\* PreferredAllocation against its reference: it finds the fitting list when the
\* available devices are usable and the size lies between the must-include and
\* the available devices, counted once each, and refuses otherwise.
PreferredIsReference ==
  stage = "preferred" /\ changed = {} =>
    LET r == request[1]
        possible == /\ \A d \in Range(r.available) : Usable(d)
                    /\ Range(r.must) \subseteq Range(r.available)
                    /\ Cardinality(Range(r.must)) <= r.size
                    /\ r.size <= Cardinality(Range(r.available)) IN
    /\ answer.ok <=> possible
    /\ answer.ok => Fits(r, answer.ids[1])

\* Allocate accepts exactly the requests that name usable devices, none of them
\* twice, in one container or across containers.
AllocatedIsExclusive ==
  stage = "allocated" =>
    LET ids == FlattenSeq(request) IN
    answer.ok <=> (\A d \in Range(ids) : Usable(d)) /\ IsInjective(ids)

\* What the plugin proposed it also accepts, unless the health of a proposed
\* device changed between the two calls.
ProposalIsHonoured ==
  stage = "allocated" /\ request = proposed /\ Range(FlattenSeq(proposed)) \cap changed = {}
    => answer.ok
=============================================================================
