---------------------------- MODULE WebhookProofs ----------------------------
(***************************************************************************)
(* Theorems about the node-assigning webhook, for every number of          *)
(* requests, of nodes and of changes of the cluster: a decoded request     *)
(* fails only for a nil selector, the round robin gives every node away    *)
(* before it comes back to one, and requests for a Pod that do not overlap *)
(* get the same node.                                                      *)
(***************************************************************************)
EXTENDS WebhookService, FiniteSetTheorems, WellFoundedInduction, TLAPS

----------------------------------------------------------------------------
(* Sorting the nodes.                                                      *)

Increasing(s) == \A i, j \in DOMAIN s : i < j => s[i] < s[j]

\* Every non-empty set of numbers has a least one.
LEMMA LeastNumber ==
  ASSUME NEW T \in SUBSET Nat, T # {}
  PROVE  \E x \in T : \A y \in T : x <= y
<1>1. \E x \in T : \A y \in T : ~(<<y, x>> \in OpToRel(<, Nat))
  BY NatLessThanWellFounded, WFMin, Zenon
<1>2. \A x, y \in T : ~(<<y, x>> \in OpToRel(<, Nat)) => x <= y
  BY DEF OpToRel
<1>3. QED
  BY <1>1, <1>2, Zenon

\* The least number in front of the others in order is the whole in order.
LEMMA Prepend ==
  ASSUME NEW U \in SUBSET Nat, NEW n \in Nat, NEW x \in U, \A y \in U : x <= y,
         NEW t \in [1..n -> U \ {x}], Increasing(t)
  PROVE  \E s \in [1..(n + 1) -> U] :
           Increasing(s) /\ \A i, j \in 1..(n + 1) : i # j => s[i] # s[j]
<1> DEFINE s == [i \in 1..(n + 1) |-> IF i = 1 THEN x ELSE t[i - 1]]
<1>1. s \in [1..(n + 1) -> U]
  OBVIOUS
<1>2. \A i \in 1..n : t[i] \in Nat /\ x < t[i]
  <2> TAKE i \in 1..n
  <2>1. t[i] \in U \ {x}
    OBVIOUS
  <2>2. x \in Nat /\ t[i] \in Nat /\ x <= t[i] /\ t[i] # x
    BY <2>1
  <2> QED
    BY <2>2
<1>3. ASSUME NEW i \in 1..(n + 1), NEW j \in 1..(n + 1), i < j PROVE s[i] < s[j]
  <2>1. s[j] = t[j - 1] /\ j - 1 \in 1..n
    BY <1>3
  <2>2. CASE i = 1
    BY <1>2, <2>1, <2>2
  <2>3. CASE i # 1
    <3>1. s[i] = t[i - 1] /\ i - 1 \in 1..n /\ i - 1 < j - 1
      BY <1>3, <2>3
    <3>2. QED
      BY <2>1, <3>1 DEF Increasing
  <2>4. QED
    BY <2>2, <2>3
<1>4. \A i, j \in 1..(n + 1) : i # j => s[i] # s[j]
  <2> TAKE i, j \in 1..(n + 1)
  <2>1. s[i] \in Nat /\ s[j] \in Nat
    BY <1>1
  <2>2. i < j \/ j < i \/ i = j
    OBVIOUS
  <2> QED
    BY <1>3, <2>1, <2>2
<1>5. Increasing(s)
  BY <1>3 DEF Increasing
<1> QED
  BY <1>1, <1>4, <1>5

\* A finite set of numbers has an order.
LEMMA OrderExists ==
  ASSUME NEW N \in SUBSET Nat, IsFiniteSet(N)
  PROVE  \A S \in SUBSET N : \E s \in SetToSeqs(S) : Increasing(s)
<1> DEFINE Ordered(S) == \E s \in SetToSeqs(S) : Increasing(s)
           Bad == {S \in FiniteSubsetsOf(N) : ~Ordered(S)}
<1>1. SUFFICES ASSUME Bad # {} PROVE FALSE
  BY FS_Subset DEF FiniteSubsetsOf
<1>2. \E U \in Bad : \A V \in Bad : ~(<<V, U>> \in StrictSubsetOrdering(N))
  <2>1. Bad \subseteq FiniteSubsetsOf(N)
    OBVIOUS
  <2> HIDE DEF Bad
  <2>2. QED
    BY <1>1, <2>1, FS_StrictSubsetOrderingWellFounded, WFMin, Zenon
<1>3. PICK U \in Bad : \A V \in Bad : ~(<<V, U>> \in StrictSubsetOrdering(N))
  BY <1>2
<1>4. U \subseteq N /\ IsFiniteSet(U) /\ ~Ordered(U)
  BY <1>3 DEF FiniteSubsetsOf
<1>5. CASE U = {}
  <2>1. Cardinality(U) = 0
    BY <1>5, FS_EmptySet
  <2>2. <<>> \in SetToSeqs(U) /\ Increasing(<<>>)
    BY <2>1 DEF SetToSeqs, Increasing
  <2>3. QED
    BY <1>4, <2>2
<1>6. CASE U # {}
  <2>1. PICK x \in U : \A y \in U : x <= y
    BY <1>4, <1>6, LeastNumber
  <2> DEFINE V == U \ {x}
  <2>2. IsFiniteSet(V) /\ Cardinality(V) = Cardinality(U) - 1 /\ V \in SUBSET N
    BY <1>4, <2>1, FS_RemoveElement
  <2>3. Cardinality(V) \in Nat /\ Cardinality(U) = Cardinality(V) + 1
    BY <1>4, <2>2, FS_CardinalityType
  <2>4. V \in FiniteSubsetsOf(N) /\ <<V, U>> \in StrictSubsetOrdering(N)
    BY <1>4, <2>1, <2>2 DEF FiniteSubsetsOf, StrictSubsetOrdering
  <2>5. Ordered(V)
    BY <1>3, <2>4
  <2>6. PICK t \in SetToSeqs(V) : Increasing(t)
    BY <2>5
  <2>7. t \in [1..Cardinality(V) -> U \ {x}]
    BY <2>6 DEF SetToSeqs
  <2>8. \E s \in [1..(Cardinality(V) + 1) -> U] :
          Increasing(s) /\ \A i, j \in 1..(Cardinality(V) + 1) : i # j => s[i] # s[j]
    <3>1. U \in SUBSET Nat
      BY <1>4
    <3> QED
      BY <2>1, <2>3, <2>6, <2>7, <3>1, Prepend
  <2>9. Ordered(U)
    BY <2>3, <2>8 DEF SetToSeqs
  <2>10. QED
    BY <1>4, <2>9
<1>7. QED
  BY <1>5, <1>6

\* The list of a cluster: every node once, and at least one.
LEMMA SortedList ==
  ASSUME NEW S \in Clusters
  PROVE  /\ Sorted(S) \in Seq(Nodes) /\ Len(Sorted(S)) > 0
         /\ \A i, j \in 1..Len(Sorted(S)) : i # j => Sorted(S)[i] # Sorted(S)[j]
<1>1. S \in SUBSET Nodes /\ S # {} /\ Nodes \in SUBSET Nat /\ IsFiniteSet(Nodes)
  BY ServiceAssumption DEF Clusters
<1>2. Sorted(S) \in SetToSeqs(S)
  <2>1. \E s \in SetToSeqs(S) : \A i, j \in DOMAIN s : i < j => s[i] < s[j]
    BY <1>1, OrderExists, Zenon DEF Increasing
  <2> QED
    BY <2>1, Zenon DEF Sorted
<1>3. Cardinality(S) \in Nat /\ Cardinality(S) # 0
  BY <1>1, FS_Subset, FS_CardinalityType, FS_EmptySet
<1>4. /\ Sorted(S) \in [1..Cardinality(S) -> S]
      /\ \A i, j \in 1..Cardinality(S) : i # j => Sorted(S)[i] # Sorted(S)[j]
  BY <1>2 DEF SetToSeqs
<1>5. Sorted(S) \in Seq(Nodes) /\ Len(Sorted(S)) = Cardinality(S)
  <2>1. \A n \in Nat : \A s \in [1..n -> Nodes] : s \in Seq(Nodes) /\ Len(s) = n
    OBVIOUS
  <2>2. Sorted(S) \in [1..Cardinality(S) -> Nodes]
    BY <1>1, <1>4
  <2> QED
    BY <1>3, <2>1, <2>2, Zenon
<1> QED
  BY <1>3, <1>4, <1>5

----------------------------------------------------------------------------
(* What the goroutines of the requests keep.                               *)

Places == {"none", "load", "next", "store"} \cup Ended
Given == Nodes \cup {0}

\* A node list is one that the cluster had at some time.
GoodList(l) ==
  /\ l \in Seq(Nodes) /\ Len(l) > 0
  /\ \A i, j \in 1..Len(l) : i # j => l[i] # l[j]

Lists == cluster \in Clusters /\ (listed = <<>> \/ GoodList(listed)) /\ GoodList(nodeList)

RequestTypes ==
  /\ pc \in [Requests -> Places] /\ body \in [Requests -> Bodies]
  /\ node \in [Requests -> Given] /\ cache \in [Pods -> Given]
  /\ earlier \in [Requests -> SUBSET Requests] /\ next \in Nat

\* A request past the decoding carries a Pod; past Next() it has a node.
Decoded ==
  \A r \in Requests :
    /\ pc[r] \in {"load", "next", "store", "allowed"} => body[r].pod \in Pods
    /\ pc[r] \in {"store", "allowed"} => node[r] \in Nodes

ServiceInv == Lists /\ RequestTypes /\ Decoded /\ OnlyNilSelectorAborts

\* The steps that touch no request.
LEMMA BackgroundKeeps ==
  ASSUME ServiceInv, List \/ Reload \/ (\E S \in Clusters : ClusterChange(S)) \/ UNCHANGED vars
  PROVE  ServiceInv'
<1>1. UNCHANGED <<requestVars, next, cache>>
  BY Zenon DEF List, Reload, ClusterChange, vars, serviceVars
<1>2. (RequestTypes /\ Decoded /\ OnlyNilSelectorAborts)'
  BY <1>1 DEF requestVars, ServiceInv, RequestTypes, Decoded, OnlyNilSelectorAborts
<1>3. Lists'
  <2>1. CASE List
    <3>1. GoodList(Sorted(cluster))
      BY SortedList DEF ServiceInv, Lists, GoodList
    <3>2. UNCHANGED <<cluster, nodeList>> /\ listed' = Sorted(cluster)
      BY <2>1, Zenon DEF List, serviceVars
    <3> QED
      BY <3>1, <3>2 DEF ServiceInv, Lists
  <2>2. CASE Reload
    BY <2>2 DEF Reload, ServiceInv, Lists
  <2>3. CASE (\E S \in Clusters : ClusterChange(S)) \/ UNCHANGED vars
    BY <2>3 DEF ClusterChange, vars, serviceVars, ServiceInv, Lists
  <2> QED
    BY <2>1, <2>2, <2>3
<1> QED
  BY <1>2, <1>3 DEF ServiceInv

\* The index of Next() is one of the list, however long it has become.
LEMMA IndexInList ==
  ASSUME NEW n \in Nat, NEW l \in Nat, l > 0
  PROVE  n % l \in 0..(l - 1)
OBVIOUS

\* Next() does not panic: the list is not empty, and the index is one of it
\* although next may be left from a longer list.
LEMMA NextTakes ==
  ASSUME ServiceInv, NEW r \in Requests, AssignNext(r)
  PROVE  LET i == (next + 1) % Len(nodeList) IN
         /\ i \in Nat /\ i < Len(nodeList) /\ nodeList[i + 1] \in Nodes
         /\ pc[r] = "next" /\ pc' = [pc EXCEPT ![r] = "store"] /\ UNCHANGED <<nodeList, body, cache, earlier>>
         /\ next' = i /\ node' = [node EXCEPT ![r] = nodeList[i + 1]]
         /\ handed' = Append(handed, nodeList[i + 1])
<1> DEFINE i == (next + 1) % Len(nodeList)
<1>1. Len(nodeList) \in Nat /\ Len(nodeList) > 0 /\ next + 1 \in Nat /\ nodeList \in Seq(Nodes)
  BY DEF ServiceInv, Lists, GoodList, RequestTypes
<1>2. i \in 0..(Len(nodeList) - 1)
  BY <1>1, IndexInList
<1>3. /\ pc[r] = "next" /\ UNCHANGED <<nodeList, body, cache, earlier>>
      /\ IF nodeList = <<>> THEN Panic(r) /\ UNCHANGED next ELSE next' = i /\ Items(r, i)
  BY Zenon DEF AssignNext
<1> HIDE DEF i
<1>4. nodeList # <<>> /\ i \in Nat /\ i < Len(nodeList) /\ nodeList[i + 1] \in Nodes
  BY <1>1, <1>2
<1>5. /\ next' = i /\ node' = [node EXCEPT ![r] = nodeList[i + 1]]
      /\ handed' = Append(handed, nodeList[i + 1]) /\ pc' = [pc EXCEPT ![r] = "store"]
  BY <1>3, <1>4, Zenon DEF Items, Goto
<1> QED
  BY <1>3, <1>4, <1>5 DEF i

LEMMA RequestKeeps ==
  ASSUME ServiceInv, NEW r \in Requests,
         (\E b \in Bodies : Arrive(r, b)) \/ Load(r) \/ AssignNext(r) \/ Store(r)
  PROVE  ServiceInv'
<1>1. UNCHANGED <<cluster, listed, nodeList>>
  BY Zenon DEF Arrive, Load, AssignNext, Store, serviceVars
<1>2. Lists'
  BY <1>1 DEF ServiceInv, Lists
<1>3. ASSUME NEW b \in Bodies, Arrive(r, b) PROVE (RequestTypes /\ Decoded /\ OnlyNilSelectorAborts)'
  <2>1. PICK l \in {"bad_request", "empty", "load"} :
          pc' = [pc EXCEPT ![r] = l] /\ (l = "load" => b.form \notin {"undecodable", "no_pod"})
    BY <1>3 DEF Arrive, Goto
  <2>2. UNCHANGED <<node, cache, next>> /\ body' = [body EXCEPT ![r] = b]
    BY <1>3, Zenon DEF Arrive, serviceVars
  <2>3. earlier' \in [Requests -> SUBSET Requests]
    BY <1>3 DEF Arrive, ServiceInv, RequestTypes
  <2>4. RequestTypes'
    BY <2>1, <2>2, <2>3 DEF ServiceInv, RequestTypes, Places, Ended
  <2>5. l = "load" => b.pod \in Pods
    BY <2>1 DEF Bodies
  <2>6. Decoded'
    BY <2>1, <2>2, <2>5 DEF ServiceInv, RequestTypes, Decoded
  <2>7. OnlyNilSelectorAborts'
    BY <2>1, <2>2 DEF ServiceInv, RequestTypes, OnlyNilSelectorAborts
  <2> QED
    BY <2>4, <2>6, <2>7
<1>4. CASE Load(r)
  <2>1. cache[body[r].pod] \in Given
    BY <1>4 DEF Load, ServiceInv, Decoded, RequestTypes
  <2>2. /\ pc[r] = "load" /\ UNCHANGED <<body, cache, next, earlier>>
        /\ node' = [node EXCEPT ![r] = cache[body[r].pod]]
        /\ pc' = [pc EXCEPT ![r] = IF cache[body[r].pod] = 0 THEN "next" ELSE "store"]
    BY <1>4, Zenon DEF Load, Goto, serviceVars
  <2>3. RequestTypes'
    BY <2>1, <2>2 DEF ServiceInv, RequestTypes, Places
  <2>4. Decoded'
    BY <2>1, <2>2 DEF ServiceInv, RequestTypes, Decoded, Given
  <2>5. OnlyNilSelectorAborts'
    BY <2>2 DEF ServiceInv, RequestTypes, OnlyNilSelectorAborts
  <2> QED
    BY <1>2, <2>3, <2>4, <2>5 DEF ServiceInv
<1>5. CASE AssignNext(r)
  <2> DEFINE i == (next + 1) % Len(nodeList)
  <2>1. nodeList[i + 1] \in Nodes /\ i \in Nat
    BY <1>5, NextTakes
  <2>2. /\ pc[r] = "next" /\ UNCHANGED <<body, cache, earlier>> /\ next' = i
        /\ node' = [node EXCEPT ![r] = nodeList[i + 1]] /\ pc' = [pc EXCEPT ![r] = "store"]
    BY <1>5, NextTakes, Zenon
  <2> HIDE DEF i
  <2>3. RequestTypes'
    BY <2>1, <2>2 DEF ServiceInv, RequestTypes, Places, Given
  <2>4. Decoded'
    BY <2>1, <2>2 DEF ServiceInv, RequestTypes, Decoded
  <2>5. OnlyNilSelectorAborts'
    BY <2>2 DEF ServiceInv, RequestTypes, OnlyNilSelectorAborts
  <2> QED
    BY <1>2, <2>3, <2>4, <2>5 DEF ServiceInv
<1>6. CASE Store(r)
  <2>1. /\ pc[r] = "store" /\ UNCHANGED <<body, next, node, earlier>>
        /\ \/ body[r].form = "nil_selector" /\ pc' = [pc EXCEPT ![r] = "aborted"] /\ cache' = cache
           \/ /\ pc' = [pc EXCEPT ![r] = "allowed"]
              /\ cache' = [cache EXCEPT ![body[r].pod] = node[r]]
    BY <1>6, Zenon DEF Store, Goto
  <2>2. RequestTypes'
    BY <2>1 DEF ServiceInv, RequestTypes, Places, Ended
  <2>3. Decoded'
    BY <2>1 DEF ServiceInv, RequestTypes, Decoded
  <2>4. OnlyNilSelectorAborts'
    BY <2>1 DEF ServiceInv, RequestTypes, OnlyNilSelectorAborts
  <2> QED
    BY <1>2, <2>2, <2>3, <2>4 DEF ServiceInv
<1> QED
  BY <1>2, <1>3, <1>4, <1>5, <1>6 DEF ServiceInv

LEMMA ServiceInit == Init => ServiceInv
<1> HAVE Init
<1>1. GoodList(Sorted(cluster)) /\ cluster \in Clusters
  BY SortedList DEF Init, GoodList
<1>2. Lists
  BY <1>1 DEF Init, Lists
<1>3. RequestTypes
  BY DEF Init, RequestTypes, Places, Bodies, Given
<1>4. Decoded /\ OnlyNilSelectorAborts
  BY DEF Init, Decoded, OnlyNilSelectorAborts
<1> QED
  BY <1>2, <1>3, <1>4 DEF ServiceInv

LEMMA ServiceStep == ServiceInv /\ [Next]_vars => ServiceInv'
BY BackgroundKeeps, RequestKeeps, Zenon DEF Next

LEMMA ServiceAlways == Spec => []ServiceInv
BY ServiceInit, ServiceStep, PTL DEF Spec

(* A request that was decoded fails only because its Pod has a nil node    *)
(* selector: Next() indexes a list that is never empty, by an index that   *)
(* is below its length whatever the last reload did to it.                 *)
THEOREM FailsOnlyForNilSelector == Spec => []OnlyNilSelectorAborts
<1>1. ServiceInv => OnlyNilSelectorAborts
  BY DEF ServiceInv
<1> QED
  BY <1>1, ServiceAlways, PTL

----------------------------------------------------------------------------
(* One node per Pod name.                                                  *)

\* Requests arrive in the order of their numbers, and what had ended when one
\* of them arrived stays ended.
InOrder == \A q, r \in Requests : q < r /\ pc[r] # "none" => pc[q] # "none"
EarlierEnded == \A r \in Requests : \A q \in earlier[r] : pc[q] \in Ended

\* The cache knows the node of every request of p that was answered, and a
\* request under way is about to store that node or comes first.
Remembers(p) ==
  \A r \in Requests : body[r].pod = p =>
    /\ pc[r] = "allowed" => cache[p] = node[r]
    /\ pc[r] = "next" => cache[p] = 0
    /\ pc[r] = "store" => cache[p] = 0 \/ cache[p] = node[r]

SerialInv ==
  InOrder /\ EarlierEnded /\ \A p \in Pods : Overlapping(p) \/ Remembers(p)

\* A step of one request that has arrived: the order stays, what ended stays
\* ended, and an overlap stays one.
LEMMA OneMoves ==
  ASSUME ServiceInv, InOrder, EarlierEnded, NEW r \in Requests, NEW l \in Places \ {"none"},
         pc[r] \notin Ended \cup {"none"}, pc' = [pc EXCEPT ![r] = l], UNCHANGED <<body, earlier>>
  PROVE  InOrder' /\ EarlierEnded' /\ \A p \in Pods : Overlapping(p) => Overlapping(p)'
<1>1. \A q \in Requests : pc'[q] = IF q = r THEN l ELSE pc[q]
  BY DEF ServiceInv, RequestTypes
<1>2. InOrder'
  BY <1>1 DEF InOrder
<1>3. EarlierEnded'
  <2>1. \A q \in Requests : \A o \in earlier[q] : o \in Requests /\ o # r
    BY DEF EarlierEnded, ServiceInv, RequestTypes
  <2> QED
    BY <1>1, <2>1 DEF EarlierEnded
<1>4. \A p \in Pods : Overlapping(p) => Overlapping(p)'
  BY <1>1 DEF Overlapping
<1> QED
  BY <1>2, <1>3, <1>4

LEMMA ArrivalIsSerial ==
  ASSUME ServiceInv, SerialInv, NEW r \in Requests, NEW b \in Bodies, Arrive(r, b)
  PROVE  SerialInv'
<1>1. /\ pc[r] = "none" /\ \A q \in 1..(r - 1) : pc[q] # "none"
      /\ body' = [body EXCEPT ![r] = b]
      /\ earlier' = [earlier EXCEPT ![r] = {q \in Requests : pc[q] \in Ended}]
      /\ UNCHANGED <<cache, node>>
  BY Zenon DEF Arrive, serviceVars
<1>2. PICK l \in {"bad_request", "empty", "load"} : pc' = [pc EXCEPT ![r] = l]
  BY DEF Arrive, Goto
<1>3. \A q \in Requests : /\ pc'[q] = IF q = r THEN l ELSE pc[q]
                          /\ body'[q] = IF q = r THEN b ELSE body[q]
                          /\ earlier'[q] = IF q = r THEN {o \in Requests : pc[o] \in Ended} ELSE earlier[q]
  BY <1>1, <1>2 DEF ServiceInv, RequestTypes
<1>4. InOrder'
  <2>1. \A q \in Requests : q < r => q \in 1..(r - 1)
    BY DEF Requests
  <2> QED
    BY <1>1, <1>3, <2>1 DEF SerialInv, InOrder
<1>5. EarlierEnded'
  <2>1. \A o \in Requests : pc[o] \in Ended => pc'[o] \in Ended
    BY <1>1, <1>3 DEF Ended
  <2>2. \A q \in Requests : \A o \in earlier'[q] : o \in Requests /\ pc[o] \in Ended
    BY <1>3 DEF SerialInv, EarlierEnded, ServiceInv, RequestTypes
  <2> QED
    BY <2>1, <2>2 DEF EarlierEnded
<1>6. ASSUME NEW p \in Pods, Overlapping(p) PROVE Overlapping(p)'
  <2>1. PICK q, o \in Requests : /\ q < o /\ pc[o] # "none" /\ body[q].pod = p /\ body[o].pod = p
                                /\ q \notin earlier[o]
    BY <1>6 DEF Overlapping
  <2>2. o # r /\ q # r
    BY <1>1, <2>1 DEF SerialInv, InOrder
  <2>3. /\ pc'[o] # "none" /\ body'[q].pod = p /\ body'[o].pod = p
        /\ q \notin earlier'[o]
    BY <1>3, <2>1, <2>2
  <2> QED
    BY <2>1, <2>3 DEF Overlapping
<1>7. ASSUME NEW p \in Pods, Remembers(p) PROVE Remembers(p)'
  BY <1>1, <1>2, <1>3, <1>7 DEF Remembers
<1> QED
  BY <1>4, <1>5, <1>6, <1>7 DEF SerialInv

LEMMA LoadIsSerial ==
  ASSUME ServiceInv, SerialInv, NEW r \in Requests, Load(r)
  PROVE  SerialInv'
<1>1. /\ pc[r] = "load" /\ UNCHANGED <<body, cache, earlier>>
      /\ node' = [node EXCEPT ![r] = cache[body[r].pod]]
      /\ pc' = [pc EXCEPT ![r] = IF cache[body[r].pod] = 0 THEN "next" ELSE "store"]
  BY Zenon DEF Load, Goto, serviceVars
<1>2. InOrder' /\ EarlierEnded' /\ \A p \in Pods : Overlapping(p) => Overlapping(p)'
  <2>1. PICK l \in {"next", "store"} : pc' = [pc EXCEPT ![r] = l]
    BY <1>1
  <2>2. l \in Places \ {"none"} /\ pc[r] \notin Ended \cup {"none"}
    BY <1>1 DEF Places, Ended
  <2> QED
    BY <1>1, <2>1, <2>2, OneMoves DEF SerialInv
<1>3. ASSUME NEW p \in Pods, Remembers(p) PROVE Remembers(p)'
  BY <1>1, <1>3 DEF Remembers, ServiceInv, RequestTypes
<1> QED
  BY <1>2, <1>3 DEF SerialInv

LEMMA NextIsSerial ==
  ASSUME ServiceInv, SerialInv, NEW r \in Requests, AssignNext(r)
  PROVE  SerialInv'
<1>1. PICK n : /\ pc[r] = "next" /\ UNCHANGED <<body, cache, earlier>>
               /\ node' = [node EXCEPT ![r] = n] /\ pc' = [pc EXCEPT ![r] = "store"]
  BY NextTakes, Zenon
<1>2. InOrder' /\ EarlierEnded' /\ \A p \in Pods : Overlapping(p) => Overlapping(p)'
  <2>1. "store" \in Places \ {"none"} /\ pc[r] \notin Ended \cup {"none"}
    BY <1>1 DEF Places, Ended
  <2> QED
    BY <1>1, <2>1, OneMoves DEF SerialInv
<1>3. ASSUME NEW p \in Pods, Remembers(p) PROVE Remembers(p)'
  BY <1>1, <1>3 DEF Remembers, ServiceInv, RequestTypes
<1> QED
  BY <1>2, <1>3 DEF SerialInv

\* While r stores, no other request of its Pod is under way, unless they overlap.
LEMMA StoreIsSerial ==
  ASSUME ServiceInv, SerialInv, NEW r \in Requests, Store(r)
  PROVE  SerialInv'
<1>1. /\ pc[r] = "store" /\ UNCHANGED <<body, earlier, node>>
      /\ \/ pc' = [pc EXCEPT ![r] = "aborted"] /\ cache' = cache
         \/ pc' = [pc EXCEPT ![r] = "allowed"] /\ cache' = [cache EXCEPT ![body[r].pod] = node[r]]
  BY Zenon DEF Store, Goto
<1>2. InOrder' /\ EarlierEnded' /\ \A p \in Pods : Overlapping(p) => Overlapping(p)'
  <2>1. PICK l \in {"aborted", "allowed"} : pc' = [pc EXCEPT ![r] = l]
    BY <1>1
  <2>2. l \in Places \ {"none"} /\ pc[r] \notin Ended \cup {"none"}
    BY <1>1 DEF Places, Ended
  <2> QED
    BY <1>1, <2>1, <2>2, OneMoves DEF SerialInv
<1>3. ASSUME NEW p \in Pods, Remembers(p), ~Overlapping(p) PROVE Remembers(p)'
  <2>1. CASE cache' = cache
    BY <1>1, <1>3, <2>1 DEF Remembers, ServiceInv, RequestTypes
  <2>2. CASE body[r].pod # p
    BY <1>1, <1>3, <2>2 DEF Remembers, ServiceInv, RequestTypes
  <2>3. CASE /\ body[r].pod = p /\ pc' = [pc EXCEPT ![r] = "allowed"]
             /\ cache' = [cache EXCEPT ![body[r].pod] = node[r]]
    <3>1. cache'[p] = node[r] /\ \A q \in Requests : pc'[q] = IF q = r THEN "allowed" ELSE pc[q]
      BY <2>3 DEF ServiceInv, RequestTypes
    <3>2. ASSUME NEW q \in Requests, body[q].pod = p, q # r PROVE pc[q] \notin {"next", "store"}
      <4>1. SUFFICES ASSUME pc[q] \in {"next", "store"} PROVE FALSE
        OBVIOUS
      <4>2. pc[q] # "none" /\ pc[q] \notin Ended /\ pc[r] # "none" /\ pc[r] \notin Ended
        BY <1>1, <4>1 DEF Ended
      <4>3. q < r \/ r < q
        BY <3>2 DEF Requests
      <4>4. q \notin earlier[r] /\ r \notin earlier[q]
        BY <4>2 DEF SerialInv, EarlierEnded
      <4> QED
        BY <1>3, <2>3, <3>2, <4>2, <4>3, <4>4 DEF Overlapping
    <3>3. ASSUME NEW q \in Requests, body[q].pod = p, q # r, pc[q] = "allowed" PROVE node[q] = node[r]
      <4>1. cache[p] = node[q] /\ node[q] # 0
        BY <1>3, <3>3, ServiceAssumption DEF Remembers, ServiceInv, Decoded
      <4>2. cache[p] = 0 \/ cache[p] = node[r]
        BY <1>1, <1>3, <2>3 DEF Remembers
      <4> QED
        BY <4>1, <4>2
    <3> QED
      BY <1>1, <3>1, <3>2, <3>3 DEF Remembers
  <2> QED
    BY <1>1, <2>1, <2>2, <2>3
<1> QED
  BY <1>2, <1>3 DEF SerialInv

LEMMA SerialStep == ServiceInv /\ SerialInv /\ [Next]_vars => SerialInv'
<1> SUFFICES ASSUME ServiceInv, SerialInv, [Next]_vars PROVE SerialInv'
  OBVIOUS
<1>1. CASE List \/ Reload \/ (\E S \in Clusters : ClusterChange(S)) \/ UNCHANGED vars
  <2>1. UNCHANGED <<pc, body, node, earlier, cache>>
    BY <1>1, Zenon DEF List, Reload, ClusterChange, vars, serviceVars, requestVars
  <2> QED
    BY <2>1 DEF SerialInv, InOrder, EarlierEnded, Overlapping, Remembers
<1>2. ASSUME NEW r \in Requests,
             (\E b \in Bodies : Arrive(r, b)) \/ Load(r) \/ AssignNext(r) \/ Store(r)
      PROVE  SerialInv'
  BY <1>2, ArrivalIsSerial, LoadIsSerial, NextIsSerial, StoreIsSerial, Zenon
<1> QED
  BY <1>1, <1>2, Zenon DEF Next

(* All requests for a Pod name are given the same node as long as no two   *)
(* of them overlap, whatever nodes come and go and however the requests of *)
(* other Pods advance the round robin between them.                        *)
THEOREM SerialRequestsGetOneNode == Spec => []SerialRequestsAgree
<1>1. Init => SerialInv
  <2> HAVE Init
  <2>1. InOrder /\ EarlierEnded
    BY DEF Init, InOrder, EarlierEnded
  <2>2. \A p \in Pods : Remembers(p)
    BY ServiceAssumption DEF Init, Remembers
  <2> QED
    BY <2>1, <2>2 DEF SerialInv
<1>2. ServiceInv /\ SerialInv => SerialRequestsAgree
  <2> SUFFICES ASSUME ServiceInv, SerialInv, NEW q \in Requests, NEW r \in Requests,
                      pc[q] = "allowed", pc[r] = "allowed", body[q].pod = body[r].pod,
                      ~Overlapping(body[r].pod)
               PROVE  node[q] = node[r]
    BY DEF SerialRequestsAgree
  <2>1. body[r].pod \in Pods /\ Remembers(body[r].pod)
    BY DEF ServiceInv, Decoded, SerialInv
  <2> QED
    BY <2>1 DEF Remembers
<1> QED
  BY <1>1, <1>2, ServiceAlways, SerialStep, PTL DEF Spec

----------------------------------------------------------------------------
(* The round robin.                                                        *)

\* The index at which the k-th of h nodes was taken, when the last one was
\* taken at n and the list has l nodes, for one of the last l.
Turn(n, h, l, k) ==
  IF n - (h - k) >= 0 THEN n - (h - k) ELSE n - (h - k) + l

\* Since the last reload, the last round is a window on the list that ends at
\* next.  Before the first node next may still be that of a longer list.
LastRound ==
  /\ handed \in Seq(Nodes)
  /\ handed # <<>> => next < Len(nodeList)
  /\ \A k \in DOMAIN handed : Len(handed) - k < Len(nodeList)
       => handed[k] = nodeList[Turn(next, Len(handed), Len(nodeList), k) + 1]

\* Advancing an index of the list: one further, or around.
LEMMA Advance ==
  ASSUME NEW n \in Nat, NEW l \in Nat, n < l
  PROVE  (n + 1) % l = IF n + 1 = l THEN 0 ELSE n + 1
OBVIOUS

LEMMA NextKeepsRound ==
  ASSUME ServiceInv, LastRound, RoundRobin, NEW r \in Requests, AssignNext(r)
  PROVE  LastRound' /\ RoundRobin'
<1> DEFINE L == Len(nodeList)
           h == Len(handed)
           i == (next + 1) % L
<1>1. /\ next' = i /\ handed' = Append(handed, nodeList[i + 1]) /\ nodeList' = nodeList
  BY NextTakes, Zenon
<1>2. /\ next \in Nat /\ nodeList \in Seq(Nodes) /\ L \in Nat /\ L > 0 /\ h \in Nat
      /\ handed \in Seq(Nodes) /\ DOMAIN handed = 1..h
  BY DEF ServiceInv, RequestTypes, Lists, GoodList, LastRound
<1>3. i \in 0..(L - 1)
  BY <1>2, IndexInList
<1>4. h > 0 => next < L /\ i = IF next + 1 = L THEN 0 ELSE next + 1
  BY <1>2, Advance DEF LastRound
<1>5. \A j, k \in 1..L : j # k => nodeList[j] # nodeList[k]
  BY DEF ServiceInv, Lists, GoodList
<1>6. \A k \in 1..h : h - k < L => handed[k] = nodeList[Turn(next, h, L, k) + 1]
  BY <1>2 DEF LastRound
<1> HIDE DEF i
<1>7. nodeList[i + 1] \in Nodes /\ i \in Nat /\ i + 1 \in 1..L
  BY <1>2, <1>3
<1>8. /\ handed' \in Seq(Nodes) /\ Len(handed') = h + 1 /\ DOMAIN handed' = 1..(h + 1)
      /\ handed'[h + 1] = nodeList[i + 1] /\ \A k \in 1..h : handed'[k] = handed[k]
  BY <1>1, <1>2, <1>7
<1>9. Len(nodeList') = L
  BY <1>1
<1> HIDE DEF h, L
<1>10. ASSUME NEW k \in 1..h, h + 1 - k < L
       PROVE  /\ handed[k] = nodeList[Turn(next, h, L, k) + 1]
              /\ Turn(i, h + 1, L, k) = Turn(next, h, L, k)
              /\ handed[k] # nodeList[i + 1]
  <2>1. h > 0 /\ h - k < L
    BY <1>2, <1>10
  <2> HIDE DEF h, L, i
  \* The window moves by one: the nodes in it keep their indices.
  <2>2. /\ Turn(i, h + 1, L, k) = Turn(next, h, L, k)
        /\ Turn(next, h, L, k) + 1 \in 1..L /\ Turn(next, h, L, k) + 1 # i + 1
    <3>1. next < L /\ i = (IF next + 1 = L THEN 0 ELSE next + 1)
      BY <1>4, <2>1
    <3>2. next \in Nat /\ L \in Nat /\ h \in Nat /\ i \in Nat /\ k \in 1..h /\ h + 1 - k < L
      BY <1>2, <1>7, <1>10
    <3> QED
      BY <3>1, <3>2 DEF Turn
  <2>3. handed[k] = nodeList[Turn(next, h, L, k) + 1]
    BY <1>6, <2>1
  <2> QED
    BY <1>5, <1>7, <2>2, <2>3
<1>11. ASSUME NEW k \in 1..(h + 1), h + 1 - k < L
       PROVE  handed'[k] = nodeList[Turn(i, h + 1, L, k) + 1]
  <2>1. CASE k = h + 1
    <3>1. Turn(i, h + 1, L, k) = i
      BY <1>2, <1>7, <2>1 DEF Turn
    <3> QED
      BY <1>8, <2>1, <3>1
  <2>2. CASE k \in 1..h
    BY <1>8, <1>10, <1>11, <2>2
  <2> QED
    BY <1>2, <2>1, <2>2
<1>12. LastRound'
  <2>1. next' < Len(nodeList')
    BY <1>1, <1>2, <1>3, <1>9
  <2>2. \A k \in DOMAIN handed' : Len(handed') - k < Len(nodeList')
          => handed'[k] = nodeList'[Turn(next', Len(handed'), Len(nodeList'), k) + 1]
    <3> TAKE k \in DOMAIN handed'
    <3>1. HAVE Len(handed') - k < Len(nodeList')
    <3>2. k \in 1..(h + 1) /\ h + 1 - k < L
      BY <1>2, <1>8, <1>9, <3>1
    <3>3. handed'[k] = nodeList[Turn(i, h + 1, L, k) + 1]
      BY <1>11, <3>2
    <3>4. next' = i /\ Len(handed') = h + 1 /\ Len(nodeList') = L /\ nodeList' = nodeList
      BY <1>1, <1>8, <1>9
    <3> QED
      BY <3>3, <3>4, Zenon
  <2> QED
    BY <1>8, <2>1, <2>2 DEF LastRound, Turn
<1>13. ASSUME NEW m \in 1..(h + 1), NEW n \in 1..(h + 1), m < n, n < m + L
       PROVE  handed'[m] # handed'[n]
  <2>1. m \in 1..h
    BY <1>2, <1>13
  <2>2. CASE n \in 1..h
    BY <1>2, <1>8, <1>13, <2>1, <2>2 DEF RoundRobin, L
  <2>3. CASE n = h + 1
    <3>1. h + 1 - m < L
      BY <1>2, <1>13, <2>3
    <3> QED
      BY <1>8, <1>10, <2>1, <2>3, <3>1
  <2> QED
    BY <1>2, <2>2, <2>3
<1>14. RoundRobin'
  BY <1>8, <1>9, <1>13 DEF RoundRobin
<1> QED
  BY <1>12, <1>14

LEMMA RoundStep == ServiceInv /\ LastRound /\ RoundRobin /\ [Next]_vars => LastRound' /\ RoundRobin'
<1> SUFFICES ASSUME ServiceInv, LastRound, RoundRobin, [Next]_vars PROVE LastRound' /\ RoundRobin'
  OBVIOUS
<1>1. CASE UNCHANGED <<handed, next, nodeList>>
  BY <1>1 DEF LastRound, RoundRobin, Turn
<1>2. CASE Reload
  <2>1. handed' = <<>>
    BY <1>2, Zenon DEF Reload
  <2> QED
    BY <2>1 DEF LastRound, RoundRobin
<1>3. CASE List \/ (\E S \in Clusters : ClusterChange(S)) \/ UNCHANGED vars
  BY <1>1, <1>3, Zenon DEF List, ClusterChange, vars, serviceVars
<1>4. ASSUME NEW r \in Requests, (\E b \in Bodies : Arrive(r, b)) \/ Load(r) \/ Store(r)
      PROVE  LastRound' /\ RoundRobin'
  BY <1>1, <1>4, Zenon DEF Arrive, Load, Store, serviceVars
<1> QED
  BY <1>2, <1>3, <1>4, NextKeepsRound, Zenon DEF Next

(* Between two reloads Next() comes back to a node only after it gave      *)
(* every other one of the list away, however the goroutines interleave,    *)
(* even when next was left by a longer list.                               *)
THEOREM EveryNodeInTurn == Spec => []RoundRobin
<1>1. Init => LastRound /\ RoundRobin
  BY DEF Init, LastRound, RoundRobin
<1> QED
  BY <1>1, ServiceAlways, RoundStep, PTL DEF Spec
=============================================================================
