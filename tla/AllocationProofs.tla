-------------------------- MODULE AllocationProofs --------------------------
(***************************************************************************)
(* Theorems about the allocation calls of the device plugin, for every set *)
(* of devices and lists of every length: what the loops of the resource    *)
(* manager compute is what the reference says.                             *)
(***************************************************************************)
EXTENDS Allocation, LoopProofs

----------------------------------------------------------------------------
\* The loop over MustIncludeDeviceIDs.
LEMMA MustLoop ==
  ASSUME NEW D, NEW s \in Seq(D)
  PROVE  \E tr \in [0..Len(s) -> Seq(D)] :
           /\ tr[0] = <<>>
           /\ \A i \in 1..Len(s) : tr[i] = Select(tr[i - 1], s[i])
           /\ tr[Len(s)] = FoldLeft(Select, <<>>, s)
<1> DEFINE n == Len(s)
           F == [x \in Seq(D) \X D |-> Select(x[1], x[2])]
<1>1. n \in Nat /\ s \in [1..n -> D] /\ DOMAIN s = 1..n
  OBVIOUS
<1>2. ASSUME NEW a \in Seq(D), NEW d \in D PROVE Select(a, d) \in Seq(D) /\ F[<<a, d>>] = Select(a, d)
  <2>1. Select(a, d) \in Seq(D)
    BY DEF Select
  <2> QED
    BY <2>1
<1>3. F \in [Seq(D) \X D -> Seq(D)]
  <2>1. ASSUME NEW x \in Seq(D) \X D PROVE Select(x[1], x[2]) \in Seq(D)
    BY <1>2
  <2> QED
    BY <2>1
<1>4. <<>> \in Seq(D)
  OBVIOUS
<1> HIDE DEF F, n
<1>5. PICK g \in [SUBSET (1..n) -> Seq(D)] : Looped(g, F, <<>>, n, s)
  <2>1. n \in Nat /\ s \in [1..n -> D]
    BY <1>1
  <2> QED
    BY <1>3, <1>4, <2>1, LoopExists, Zenon
<1> DEFINE Is(it) == it = [t \in SUBSET (1..n) |->
                           IF t = {} THEN <<>> ELSE Select(it[t \ {Max(t)}], s[Max(t)])]
<1>6. Is(g)
  <2>1. ASSUME NEW t \in SUBSET (1..n)
        PROVE  g[t] = IF t = {} THEN <<>> ELSE Select(g[t \ {Max(t)}], s[Max(t)])
    <3>1. CASE t = {}
      BY <1>5, <3>1 DEF Looped
    <3>2. CASE t # {}
      <4>1. Max(t) \in 1..n
        BY <1>1, <3>2, MaxOf
      <4>2. s[Max(t)] \in D /\ g[t \ {Max(t)}] \in Seq(D)
        BY <1>1, <4>1
      <4>3. F[<<g[t \ {Max(t)}], s[Max(t)]>>] = Select(g[t \ {Max(t)}], s[Max(t)])
        BY <1>2, <4>2
      <4> QED
        BY <1>5, <3>2, <4>3 DEF Looped
    <3> QED
      BY <3>1, <3>2
  <2> QED
    BY <2>1
<1> DEFINE iter == CHOOSE it : Is(it)
<1>7. Is(iter)
  BY <1>6, Zenon
<1>8. FoldLeft(Select, <<>>, s) = iter[1..n]
  BY <1>1, Zenon DEF FoldLeft, MapThenFoldSet
<1> HIDE DEF iter
<1> DEFINE tr == [i \in 0..n |-> iter[1..i]]
<1>9. tr[0] = <<>>
  <2>1. 1..0 = {} /\ 0 \in 0..n
    BY <1>1
  <2> QED
    BY <1>7, <2>1
<1>10. ASSUME NEW i \in 1..n PROVE tr[i] = Select(tr[i - 1], s[i])
  <2>1. i \in 0..n /\ i - 1 \in 0..n
    BY <1>1
  <2>2. 1..i \in SUBSET (1..n) /\ 1..i # {} /\ Max(1..i) = i /\ (1..i) \ {Max(1..i)} = 1..(i - 1)
    BY <1>1, InOrder
  <2>3. iter[1..i] = Select(iter[1..(i - 1)], s[i])
    BY <1>7, <2>2
  <2> QED
    BY <2>1, <2>3
<1> HIDE DEF tr, Is
<1>11. ASSUME NEW i \in 0..n PROVE tr[i] \in Seq(D)
  <2> DEFINE T == {j \in 0..n : tr[j] \in Seq(D)}
  <2>1. 0 \in T
    BY <1>1, <1>4, <1>9, 0 \in 0..n
  <2>2. ASSUME NEW j \in 0..(n - 1), j \in T PROVE j + 1 \in T
    <3>1. j + 1 \in 1..n /\ (j + 1) - 1 = j
      BY <1>1
    <3>2. tr[j + 1] = Select(tr[j], s[j + 1])
      BY <1>10, <3>1
    <3>3. tr[j] \in Seq(D) /\ s[j + 1] \in D
      BY <1>1, <2>2, <3>1
    <3>4. Select(tr[j], s[j + 1]) \in Seq(D)
      BY <1>2, <3>3, Zenon
    <3> QED
      BY <1>1, <3>1, <3>2, <3>4
  <2> HIDE DEF T
  <2>3. \A j \in 0..n : j \in T
    BY <1>1, <2>1, <2>2, TurnByTurn
  <2> QED
    BY <2>3 DEF T
<1>12. tr \in [0..n -> Seq(D)]
  BY <1>11 DEF tr
<1>13. tr[n] = FoldLeft(Select, <<>>, s)
  BY <1>1, <1>8 DEF tr
<1> QED
  BY <1>9, <1>10, <1>12, <1>13 DEF n
\* The loop over AvailableDeviceIDs stops taking devices at the size asked for.
Fill(size, selected, d) == IF Len(selected) = size THEN selected ELSE Select(selected, d)

Filled(size, inc, s) == FoldLeft(LAMBDA selected, d : Fill(size, selected, d), inc, s)

AvailableTrace(tr, size, inc, s) ==
  /\ tr[0] = inc
  /\ \A i \in 1..Len(s) : tr[i] = Fill(size, tr[i - 1], s[i])
  /\ tr[Len(s)] = Filled(size, inc, s)

LEMMA AvailableLoop ==
  ASSUME NEW D, NEW size, NEW inc \in Seq(D), NEW s \in Seq(D)
  PROVE  \E tr \in [0..Len(s) -> Seq(D)] : AvailableTrace(tr, size, inc, s)
<1> DEFINE n == Len(s)
           F == [x \in Seq(D) \X D |-> Fill(size, x[1], x[2])]
<1>1. n \in Nat /\ s \in [1..n -> D] /\ DOMAIN s = 1..n
  OBVIOUS
<1>2. ASSUME NEW a \in Seq(D), NEW d \in D PROVE Fill(size, a, d) \in Seq(D) /\ F[<<a, d>>] = Fill(size, a, d)
  <2>1. Fill(size, a, d) \in Seq(D)
    BY DEF Select, Fill
  <2> QED
    BY <2>1
<1>3. F \in [Seq(D) \X D -> Seq(D)]
  <2>1. ASSUME NEW x \in Seq(D) \X D PROVE Fill(size, x[1], x[2]) \in Seq(D)
    BY <1>2
  <2> QED
    BY <2>1
<1>4. inc \in Seq(D)
  OBVIOUS
<1> HIDE DEF F, n
<1>5. PICK g \in [SUBSET (1..n) -> Seq(D)] : Looped(g, F, inc, n, s)
  <2>1. n \in Nat /\ s \in [1..n -> D]
    BY <1>1
  <2> QED
    BY <1>3, <1>4, <2>1, LoopExists, Zenon
<1> DEFINE Is(it) == it = [t \in SUBSET (1..n) |->
                           IF t = {} THEN inc ELSE Fill(size, it[t \ {Max(t)}], s[Max(t)])]
<1>6. Is(g)
  <2>1. ASSUME NEW t \in SUBSET (1..n)
        PROVE  g[t] = IF t = {} THEN inc ELSE Fill(size, g[t \ {Max(t)}], s[Max(t)])
    <3>1. CASE t = {}
      BY <1>5, <3>1 DEF Looped
    <3>2. CASE t # {}
      <4>1. Max(t) \in 1..n
        BY <1>1, <3>2, MaxOf
      <4>2. s[Max(t)] \in D /\ g[t \ {Max(t)}] \in Seq(D)
        BY <1>1, <4>1
      <4>3. F[<<g[t \ {Max(t)}], s[Max(t)]>>] = Fill(size, g[t \ {Max(t)}], s[Max(t)])
        BY <1>2, <4>2
      <4> QED
        BY <1>5, <3>2, <4>3 DEF Looped
    <3> QED
      BY <3>1, <3>2
  <2> QED
    BY <2>1
<1> DEFINE iter == CHOOSE it : Is(it)
<1>7. Is(iter)
  BY <1>6, Zenon
<1>8. Filled(size, inc, s) = iter[1..n]
  BY <1>1, Zenon DEF Filled, FoldLeft, MapThenFoldSet
<1> HIDE DEF iter
<1> DEFINE tr == [i \in 0..n |-> iter[1..i]]
<1>9. tr[0] = inc
  <2>1. 1..0 = {} /\ 0 \in 0..n
    BY <1>1
  <2> QED
    BY <1>7, <2>1
<1>10. ASSUME NEW i \in 1..n PROVE tr[i] = Fill(size, tr[i - 1], s[i])
  <2>1. i \in 0..n /\ i - 1 \in 0..n
    BY <1>1
  <2>2. 1..i \in SUBSET (1..n) /\ 1..i # {} /\ Max(1..i) = i /\ (1..i) \ {Max(1..i)} = 1..(i - 1)
    BY <1>1, InOrder
  <2>3. iter[1..i] = Fill(size, iter[1..(i - 1)], s[i])
    BY <1>7, <2>2
  <2> QED
    BY <2>1, <2>3
<1> HIDE DEF tr, Is
<1>11. ASSUME NEW i \in 0..n PROVE tr[i] \in Seq(D)
  <2> DEFINE T == {j \in 0..n : tr[j] \in Seq(D)}
  <2>1. 0 \in T
    BY <1>1, <1>4, <1>9, 0 \in 0..n
  <2>2. ASSUME NEW j \in 0..(n - 1), j \in T PROVE j + 1 \in T
    <3>1. j + 1 \in 1..n /\ (j + 1) - 1 = j
      BY <1>1
    <3>2. tr[j + 1] = Fill(size, tr[j], s[j + 1])
      BY <1>10, <3>1
    <3>3. tr[j] \in Seq(D) /\ s[j + 1] \in D
      BY <1>1, <2>2, <3>1
    <3>4. Fill(size, tr[j], s[j + 1]) \in Seq(D)
      BY <1>2, <3>3, Zenon
    <3> QED
      BY <1>1, <3>1, <3>2, <3>4
  <2> HIDE DEF T
  <2>3. \A j \in 0..n : j \in T
    BY <1>1, <2>1, <2>2, TurnByTurn
  <2> QED
    BY <2>3 DEF T
<1>12. tr \in [0..n -> Seq(D)]
  BY <1>11 DEF tr
<1>13. tr[n] = Filled(size, inc, s)
  BY <1>1, <1>8 DEF tr
<1> QED
  BY <1>9, <1>10, <1>12, <1>13 DEF n, AvailableTrace
\* The loops of ValidateAllocation over the requested devices.
Visit(seen, d) ==
  IF seen.ok /\ Usable(d) /\ d \notin Range(seen.ids)
  THEN Ok(Append(seen.ids, d)) ELSE Error

Seen(D) == [ok : BOOLEAN, ids : Seq(D)]

LEMMA RequestLoop ==
  ASSUME NEW D, NEW s \in Seq(D)
  PROVE  \E tr \in [0..Len(s) -> Seen(D)] :
           /\ tr[0] = Ok(<<>>)
           /\ \A i \in 1..Len(s) : tr[i] = Visit(tr[i - 1], s[i])
           /\ tr[Len(s)] = FoldLeft(Visit, Ok(<<>>), s)
<1> DEFINE n == Len(s)
           F == [x \in Seen(D) \X D |-> Visit(x[1], x[2])]
<1>1. n \in Nat /\ s \in [1..n -> D] /\ DOMAIN s = 1..n
  OBVIOUS
<1>2. ASSUME NEW a \in Seen(D), NEW d \in D PROVE Visit(a, d) \in Seen(D) /\ F[<<a, d>>] = Visit(a, d)
  <2>1. Visit(a, d) \in Seen(D)
    BY DEF Visit, Seen, Ok, Error
  <2> QED
    BY <2>1
<1>3. F \in [Seen(D) \X D -> Seen(D)]
  <2>1. ASSUME NEW x \in Seen(D) \X D PROVE Visit(x[1], x[2]) \in Seen(D)
    BY <1>2
  <2> QED
    BY <2>1
<1>4. Ok(<<>>) \in Seen(D)
  BY DEF Ok, Seen
<1> HIDE DEF F, n
<1>5. PICK g \in [SUBSET (1..n) -> Seen(D)] : Looped(g, F, Ok(<<>>), n, s)
  <2>1. n \in Nat /\ s \in [1..n -> D]
    BY <1>1
  <2> QED
    BY <1>3, <1>4, <2>1, LoopExists, Zenon
<1> DEFINE Is(it) == it = [t \in SUBSET (1..n) |->
                           IF t = {} THEN Ok(<<>>) ELSE Visit(it[t \ {Max(t)}], s[Max(t)])]
<1>6. Is(g)
  <2>1. ASSUME NEW t \in SUBSET (1..n)
        PROVE  g[t] = IF t = {} THEN Ok(<<>>) ELSE Visit(g[t \ {Max(t)}], s[Max(t)])
    <3>1. CASE t = {}
      BY <1>5, <3>1 DEF Looped
    <3>2. CASE t # {}
      <4>1. Max(t) \in 1..n
        BY <1>1, <3>2, MaxOf
      <4>2. s[Max(t)] \in D /\ g[t \ {Max(t)}] \in Seen(D)
        BY <1>1, <4>1
      <4>3. F[<<g[t \ {Max(t)}], s[Max(t)]>>] = Visit(g[t \ {Max(t)}], s[Max(t)])
        BY <1>2, <4>2
      <4> QED
        BY <1>5, <3>2, <4>3 DEF Looped
    <3> QED
      BY <3>1, <3>2
  <2> QED
    BY <2>1
<1> DEFINE iter == CHOOSE it : Is(it)
<1>7. Is(iter)
  BY <1>6, Zenon
<1>8. FoldLeft(Visit, Ok(<<>>), s) = iter[1..n]
  BY <1>1, Zenon DEF FoldLeft, MapThenFoldSet
<1> HIDE DEF iter
<1> DEFINE tr == [i \in 0..n |-> iter[1..i]]
<1>9. tr[0] = Ok(<<>>)
  <2>1. 1..0 = {} /\ 0 \in 0..n
    BY <1>1
  <2> QED
    BY <1>7, <2>1
<1>10. ASSUME NEW i \in 1..n PROVE tr[i] = Visit(tr[i - 1], s[i])
  <2>1. i \in 0..n /\ i - 1 \in 0..n
    BY <1>1
  <2>2. 1..i \in SUBSET (1..n) /\ 1..i # {} /\ Max(1..i) = i /\ (1..i) \ {Max(1..i)} = 1..(i - 1)
    BY <1>1, InOrder
  <2>3. iter[1..i] = Visit(iter[1..(i - 1)], s[i])
    BY <1>7, <2>2
  <2> QED
    BY <2>1, <2>3
<1> HIDE DEF tr, Is
<1>11. ASSUME NEW i \in 0..n PROVE tr[i] \in Seen(D)
  <2> DEFINE T == {j \in 0..n : tr[j] \in Seen(D)}
  <2>1. 0 \in T
    BY <1>1, <1>4, <1>9, 0 \in 0..n
  <2>2. ASSUME NEW j \in 0..(n - 1), j \in T PROVE j + 1 \in T
    <3>1. j + 1 \in 1..n /\ (j + 1) - 1 = j
      BY <1>1
    <3>2. tr[j + 1] = Visit(tr[j], s[j + 1])
      BY <1>10, <3>1
    <3>3. tr[j] \in Seen(D) /\ s[j + 1] \in D
      BY <1>1, <2>2, <3>1
    <3>4. Visit(tr[j], s[j + 1]) \in Seen(D)
      BY <1>2, <3>3, Zenon
    <3> QED
      BY <1>1, <3>1, <3>2, <3>4
  <2> HIDE DEF T
  <2>3. \A j \in 0..n : j \in T
    BY <1>1, <2>1, <2>2, TurnByTurn
  <2> QED
    BY <2>3 DEF T
<1>12. tr \in [0..n -> Seen(D)]
  BY <1>11 DEF tr
<1>13. tr[n] = FoldLeft(Visit, Ok(<<>>), s)
  BY <1>1, <1>8 DEF tr
<1> QED
  BY <1>9, <1>10, <1>12, <1>13 DEF n

LEMMA PreferredParts ==
  ASSUME NEW r
  PROVE  PreferredAllocation(r) =
           IF \/ \E d \in Range(r.available) : ~Usable(d)
              \/ \E d \in Range(r.must) : d \notin Range(r.available)
              \/ Len(FoldLeft(Select, <<>>, r.must)) > r.size
              \/ Len(Filled(r.size, FoldLeft(Select, <<>>, r.must), r.available)) # r.size
           THEN Error
           ELSE Ok(Filled(r.size, FoldLeft(Select, <<>>, r.must), r.available))
BY Zenon DEF PreferredAllocation, Filled, Fill, FoldLeft, MapThenFoldSet

LEMMA ValidateParts ==
  ASSUME NEW cs
  PROVE  ValidateAllocation(cs) = FoldLeft(Visit, Ok(<<>>), FlattenSeq(cs)).ok
BY Zenon DEF ValidateAllocation, Visit, FoldLeft, MapThenFoldSet

----------------------------------------------------------------------------
(* What the loops compute.                                                 *)

LEMMA AppendRange ==
  ASSUME NEW D, NEW a \in Seq(D), NEW e \in D
  PROVE  Range(Append(a, e)) = Range(a) \cup {e}
<1> DEFINE b == Append(a, e)
           m == Len(a)
<1>1. m \in Nat /\ DOMAIN a = 1..m /\ DOMAIN b = 1..(m + 1)
  OBVIOUS
<1>2. b[m + 1] = e /\ \A i \in 1..m : b[i] = a[i]
  OBVIOUS
<1> HIDE DEF b, m
<1>3. Range(b) = {b[i] : i \in 1..(m + 1)} /\ Range(a) = {a[i] : i \in 1..m}
  BY <1>1 DEF Range
<1>4. ASSUME NEW i \in 1..(m + 1) PROVE b[i] \in {a[x] : x \in 1..m} \cup {e}
  <2>1. CASE i = m + 1
    BY <1>2, <2>1
  <2>2. CASE i # m + 1
    <3>1. i \in 1..m
      BY <1>1, <2>2
    <3> QED
      BY <1>2, <3>1
  <2> QED
    BY <2>1, <2>2
<1>5. ASSUME NEW i \in 1..m PROVE a[i] \in {b[x] : x \in 1..(m + 1)}
  <2>1. i \in 1..(m + 1)
    BY <1>1
  <2> QED
    BY <1>2, <2>1
<1>6. e \in {b[x] : x \in 1..(m + 1)}
  BY <1>1, <1>2, m + 1 \in 1..(m + 1)
<1>7. Range(b) = Range(a) \cup {e}
  BY <1>3, <1>4, <1>5, <1>6
<1> QED
  BY <1>7 DEF b

\* ValidateAllocation refuses unusable devices and devices requested before.
Clean(s, i) == \A j \in 1..i : Usable(s[j]) /\ \A k \in 1..(j - 1) : s[k] # s[j]

LEMMA RequestTurn ==
  ASSUME NEW D, NEW s \in Seq(D), NEW i \in 0..(Len(s) - 1), NEW a \in Seen(D), NEW b,
         a.ok <=> Clean(s, i),
         a.ok => \A d \in D : d \in Range(a.ids) <=> \E j \in 1..i : s[j] = d,
         b = Visit(a, s[i + 1])
  PROVE  /\ b.ok <=> Clean(s, i + 1)
         /\ b.ok => \A d \in D : d \in Range(b.ids) <=> \E j \in 1..(i + 1) : s[j] = d
<1> DEFINE e == s[i + 1]
<1>1. e \in D /\ a.ids \in Seq(D) /\ a.ok \in BOOLEAN
  BY DEF Seen
<1>2. CASE a.ok /\ Usable(e) /\ e \notin Range(a.ids)
  <2>1. b = [ok |-> TRUE, ids |-> Append(a.ids, e)]
    BY <1>2 DEF Visit, Ok
  <2>2. b.ok /\ b.ids = Append(a.ids, e)
    BY <2>1
  <2>3. Range(b.ids) = Range(a.ids) \cup {e}
    BY <1>1, <2>2, AppendRange
  <2>4. \A d \in D : d \in Range(b.ids) <=> \E j \in 1..(i + 1) : s[j] = d
    <3> HIDE DEF e
    <3> SUFFICES ASSUME NEW d \in D PROVE d \in Range(b.ids) <=> \E j \in 1..(i + 1) : s[j] = d
      OBVIOUS
    <3>1. d \in Range(b.ids) <=> (\E j \in 1..i : s[j] = d) \/ d = e
      BY <1>2, <2>3
    <3>2. (\E j \in 1..(i + 1) : s[j] = d) <=> (\E j \in 1..i : s[j] = d) \/ d = e
      BY DEF e
    <3> QED
      BY <3>1, <3>2
  <2>5. Clean(s, i + 1)
    <3>1. \A k \in 1..i : s[k] # e
      BY <1>1, <1>2
    <3>2. Clean(s, i)
      BY <1>2
    <3>3. ASSUME NEW j \in 1..(i + 1) PROVE Usable(s[j]) /\ \A k \in 1..(j - 1) : s[k] # s[j]
      <4>1. CASE j = i + 1
        BY <1>2, <3>1, <4>1
      <4>2. CASE j # i + 1
        <5>1. j \in 1..i
          BY <4>2
        <5> QED
          BY <3>2, <5>1 DEF Clean
      <4> QED
        BY <4>1, <4>2
    <3> QED
      BY <3>3 DEF Clean
  <2> QED
    BY <2>2, <2>4, <2>5
<1>3. CASE ~(a.ok /\ Usable(e) /\ e \notin Range(a.ids))
  <2>1. b = [ok |-> FALSE, ids |-> <<>>]
    BY <1>3 DEF Visit, Error
  <2>2. ~b.ok
    BY <2>1
  <2>3. ASSUME Clean(s, i + 1) PROVE FALSE
    <3>1. Clean(s, i)
      BY <2>3 DEF Clean
    <3>2. i + 1 \in 1..(i + 1) /\ (i + 1) - 1 = i
      OBVIOUS
    <3>3. Usable(e) /\ \A k \in 1..i : s[k] # e
      BY <2>3, <3>2 DEF Clean
    <3>4. a.ok
      BY <3>1
    <3> QED
      BY <1>1, <1>3, <3>3, <3>4
  <2> QED
    BY <2>2, <2>3
<1> QED
  BY <1>2, <1>3

LEMMA RequestsValidated ==
  ASSUME NEW D, NEW s \in Seq(D)
  PROVE  FoldLeft(Visit, Ok(<<>>), s).ok <=> (\A d \in Range(s) : Usable(d)) /\ IsInjective(s)
<1> DEFINE n == Len(s)
<1>1. PICK tr \in [0..n -> Seen(D)] :
        /\ tr[0] = Ok(<<>>)
        /\ \A i \in 1..n : tr[i] = Visit(tr[i - 1], s[i])
        /\ tr[n] = FoldLeft(Visit, Ok(<<>>), s)
  BY RequestLoop
<1> DEFINE T == {i \in 0..n : /\ tr[i].ok <=> Clean(s, i)
                              /\ tr[i].ok => \A d \in D : d \in Range(tr[i].ids) <=> \E j \in 1..i : s[j] = d}
<1>2. n \in Nat /\ DOMAIN s = 1..n
  OBVIOUS
<1> HIDE DEF n
<1>3. 0 \in T
  <2>1. tr[0].ok /\ tr[0].ids = <<>>
    BY <1>1 DEF Ok
  <2>2. Range(tr[0].ids) = {}
    BY <2>1 DEF Range
  <2>3. Clean(s, 0)
    BY DEF Clean
  <2> QED
    BY <1>2, <2>1, <2>2, <2>3
<1>4. ASSUME NEW i \in 0..(n - 1), i \in T PROVE i + 1 \in T
  <2>1. i + 1 \in 1..n /\ i + 1 \in 0..n /\ i \in 0..n /\ (i + 1) - 1 = i
    BY <1>2
  <2>2. tr[i + 1] = Visit(tr[i], s[i + 1]) /\ tr[i] \in Seen(D)
    BY <1>1, <2>1
  <2>3. /\ tr[i].ok <=> Clean(s, i)
        /\ tr[i].ok => \A d \in D : d \in Range(tr[i].ids) <=> \E j \in 1..i : s[j] = d
    BY <1>4
  <2>4. i \in 0..(Len(s) - 1)
    BY DEF n
  <2>5. /\ tr[i + 1].ok <=> Clean(s, i + 1)
        /\ tr[i + 1].ok => \A d \in D : d \in Range(tr[i + 1].ids) <=> \E j \in 1..(i + 1) : s[j] = d
    BY <2>2, <2>3, <2>4, RequestTurn
  <2> QED
    BY <2>1, <2>5
<1> HIDE DEF T
<1>5. \A i \in 0..n : i \in T
  BY <1>2, <1>3, <1>4, TurnByTurn, Zenon
<1>6. n \in T
  BY <1>2, <1>5
<1>7. tr[n].ok <=> Clean(s, n)
  BY <1>6 DEF T
<1>8. Clean(s, n) <=> (\A d \in Range(s) : Usable(d)) /\ IsInjective(s)
  <2>1. ASSUME Clean(s, n) PROVE (\A d \in Range(s) : Usable(d)) /\ IsInjective(s)
    <3>1. \A d \in Range(s) : Usable(d)
      BY <1>2, <2>1 DEF Clean, Range
    <3>2. ASSUME NEW x \in 1..n, NEW y \in 1..n, s[x] = s[y] PROVE x = y
      BY <1>2, <2>1, <3>2 DEF Clean
    <3> QED
      BY <1>2, <3>1, <3>2 DEF IsInjective
  <2>2. ASSUME \A d \in Range(s) : Usable(d), IsInjective(s) PROVE Clean(s, n)
    <3>1. ASSUME NEW j \in 1..n PROVE Usable(s[j]) /\ \A k \in 1..(j - 1) : s[k] # s[j]
      <4>1. s[j] \in Range(s)
        BY <1>2 DEF Range
      <4>2. ASSUME NEW k \in 1..(j - 1) PROVE s[k] # s[j]
        BY <1>2, <2>2 DEF IsInjective
      <4> QED
        BY <2>2, <4>1, <4>2
    <3> QED
      BY <3>1 DEF Clean
  <2> QED
    BY <2>1, <2>2
<1> QED
  BY <1>1, <1>7, <1>8

----------------------------------------------------------------------------
(* FlattenSeq, on the requests of one and of any number of containers.     *)

LEMMA FlattenOne ==
  ASSUME NEW a
  PROVE  FlattenSeq(<<a>>) = a
<1> DEFINE q == <<a>>
           Is(f) == f = [i \in 1..1 |-> IF i = 1 THEN q[i] ELSE f[i - 1] \o q[i]]
           fl == CHOOSE f : Is(f)
<1>1. Len(q) = 1 /\ q[1] = a
  OBVIOUS
<1> HIDE DEF q
<1>2. FlattenSeq(q) = fl[1]
  BY <1>1 DEF FlattenSeq
<1>3. Is([i \in 1..1 |-> q[1]])
  OBVIOUS
<1>4. Is(fl)
  BY <1>3, Zenon
<1> HIDE DEF fl
<1>5. fl[1] = q[1]
  BY <1>4
<1> QED
  BY <1>1, <1>2, <1>5 DEF q

\* The concatenation of any number of lists of D is a list of D: the recursive
\* function of FlattenSeq exists, and each of its values is such a list.
LEMMA FlattenAll ==
  ASSUME NEW D, NEW n \in Nat, NEW q \in [1..n -> Seq(D)]
  PROVE  FlattenSeq(q) \in Seq(D) /\ (n = 0 => FlattenSeq(q) = <<>>)
<1> DEFINE Is(f) == f = [i \in 1..n |-> IF i = 1 THEN q[i] ELSE f[i - 1] \o q[i]]
           fl == CHOOSE f : Is(f)
           Upto(g, k) == \A i \in 1..k : g[i] = IF i = 1 THEN q[i] ELSE g[i - 1] \o q[i]
           T == {k \in Nat : \E g \in [1..k -> Seq(D)] : Upto(g, k)}
<1>1. Len(q) = n
  OBVIOUS
<1>2. CASE n = 0
  <2>1. q = <<>>
    BY <1>2
  <2> QED
    BY <1>1, <1>2, <2>1 DEF FlattenSeq
<1>3. CASE n # 0
  <2>1. FlattenSeq(q) = fl[n]
    BY <1>1, <1>3 DEF FlattenSeq
  <2>2. 0 \in T
    <3>1. [i \in 1..0 |-> <<>>] \in [1..0 -> Seq(D)]
      OBVIOUS
    <3>2. Upto([i \in 1..0 |-> <<>>], 0)
      OBVIOUS
    <3> QED
      BY <3>1, <3>2
  <2>3. ASSUME NEW k \in 0..(n - 1), k \in T PROVE k + 1 \in T
    <3>1. PICK g \in [1..k -> Seq(D)] : Upto(g, k)
      BY <2>3
    <3> DEFINE last == IF k = 0 THEN q[1] ELSE g[k] \o q[k + 1]
               h == [i \in 1..(k + 1) |-> IF i = k + 1 THEN last ELSE g[i]]
    <3>2. k + 1 \in 1..n /\ q[k + 1] \in Seq(D) /\ (k # 0 => g[k] \in Seq(D))
      OBVIOUS
    <3>3. last \in Seq(D)
      BY <3>2
    <3> HIDE DEF last
    <3>4. h \in [1..(k + 1) -> Seq(D)]
      BY <3>3
    <3>5. ASSUME NEW i \in 1..(k + 1)
          PROVE  h[i] = IF i = 1 THEN q[i] ELSE h[i - 1] \o q[i]
      <4>1. CASE i = k + 1 /\ k = 0
        <5>1. i = 1 /\ h[1] = last /\ last = q[1]
          BY <4>1 DEF last
        <5> QED
          BY <5>1
      <4>2. CASE i = k + 1 /\ k # 0
        <5>1. last = g[k] \o q[k + 1]
          BY <4>2, Zenon DEF last
        <5>2. i # 1 /\ i - 1 = k /\ h[i] = last /\ h[k] = g[k]
          BY <4>2
        <5> QED
          BY <4>2, <5>1, <5>2
      <4>3. CASE i # k + 1
        <5>1. i \in 1..k /\ h[i] = g[i]
          BY <4>3
        <5>2. i # 1 => h[i - 1] = g[i - 1]
          BY <4>3
        <5> QED
          BY <3>1, <5>1, <5>2
      <4> QED
        BY <4>1, <4>2, <4>3
    <3> HIDE DEF h
    <3>6. Upto(h, k + 1)
      BY <3>5, Zenon
    <3> HIDE DEF Upto
    <3> QED
      BY <3>4, <3>6
  <2> HIDE DEF T
  <2>4. n \in T
    <3>1. \A i \in 0..n : i \in T
      BY <2>2, <2>3, TurnByTurn, Zenon
    <3> QED
      BY <3>1
  <2>5. PICK g \in [1..n -> Seq(D)] : Upto(g, n)
    BY <2>4, Zenon DEF T
  <2>6. Is(g)
    BY <2>5
  <2>7. Is(fl)
    BY <2>6, Zenon
  <2> HIDE DEF fl
  <2>8. \A i \in 1..n : fl[i] = IF i = 1 THEN q[i] ELSE fl[i - 1] \o q[i]
    BY <2>7, Zenon
  <2> DEFINE S == {i \in Nat : i = 0 \/ fl[i] \in Seq(D)}
  <2>9. ASSUME NEW k \in 0..(n - 1), k \in S PROVE k + 1 \in S
    <3>1. k + 1 \in 1..n /\ q[k + 1] \in Seq(D)
      OBVIOUS
    <3>2. k + 1 # 1 => k + 1 - 1 = k /\ fl[k] \in Seq(D)
      BY <2>9
    <3>3. fl[k + 1] = IF k + 1 = 1 THEN q[k + 1] ELSE fl[k] \o q[k + 1]
      BY <2>8, <3>1, <3>2
    <3>4. fl[k + 1] \in Seq(D)
      BY <3>1, <3>2, <3>3
    <3> QED
      BY <3>4
  <2>10. 0 \in S
    OBVIOUS
  <2> HIDE DEF S
  <2>11. \A i \in 0..n : i \in S
    BY <2>9, <2>10, TurnByTurn, Zenon
  <2>12. fl[n] \in Seq(D)
    BY <1>3, <2>11 DEF S
  <2> QED
    BY <1>3, <2>1, <2>12
<1> QED
  BY <1>2, <1>3

----------------------------------------------------------------------------
(* First occurrences.                                                      *)

LEMMA FirstExists ==
  ASSUME NEW D, NEW s \in Seq(D), NEW j \in 1..Len(s)
  PROVE  /\ First(s, s[j]) \in 1..j /\ s[First(s, s[j])] = s[j]
         /\ \A m \in 1..(First(s, s[j]) - 1) : s[m] # s[j]
<1> DEFINE At == {m \in 1..j : s[m] = s[j]}
           Is(n) == s[n] = s[j] /\ \A m \in 1..(n - 1) : s[m] # s[j]
<1>1. At \subseteq Nat /\ At # {}
  OBVIOUS
<1>2. \E x \in At : \A y \in At : ~(<<y, x>> \in OpToRel(<, Nat))
  BY <1>1, NatLessThanWellFounded, WFMin, Zenon
<1>3. PICK x \in At : \A y \in At : ~(y < x)
  BY <1>1, <1>2 DEF OpToRel
<1>4. x \in DOMAIN s /\ Is(x)
  BY <1>3
<1>5. First(s, s[j]) = CHOOSE n \in DOMAIN s : Is(n)
  BY DEF First
<1> HIDE DEF Is
<1>6. First(s, s[j]) \in DOMAIN s /\ Is(First(s, s[j]))
  BY <1>4, <1>5, Zenon
<1>7. First(s, s[j]) \in 1..Len(s)
  BY <1>6
<1>8. First(s, s[j]) <= j
  BY <1>6, <1>7 DEF Is
<1> QED
  BY <1>6, <1>7, <1>8 DEF Is

LEMMA FirstIs ==
  ASSUME NEW D, NEW s \in Seq(D), NEW j \in 1..Len(s), \A m \in 1..(j - 1) : s[m] # s[j]
  PROVE  First(s, s[j]) = j
<1>1. First(s, s[j]) \in 1..j /\ s[First(s, s[j])] = s[j]
  BY FirstExists
<1> QED
  BY <1>1

----------------------------------------------------------------------------
(* How many devices a list names.                                          *)

LEMMA NamedOnce ==
  ASSUME NEW D, NEW s \in Seq(D)
  PROVE  /\ IsFiniteSet(Range(s)) /\ Cardinality(Range(s)) \in Nat
         /\ IsInjective(s) => Cardinality(Range(s)) = Len(s)
<1> DEFINE n == Len(s)
<1>1. n \in Nat /\ DOMAIN s = 1..n /\ s \in [1..n -> Range(s)]
  BY DEF Range
<1> HIDE DEF n
<1>2. IsFiniteSet(1..n) /\ Cardinality(1..n) = n
  BY <1>1, FS_Interval
<1>3. s \in Surjection(1..n, Range(s))
  BY <1>1 DEF Surjection, Range
<1>4. IsFiniteSet(Range(s)) /\ (Cardinality(Range(s)) = Cardinality(1..n) <=> s \in Injection(1..n, Range(s)))
  BY <1>2, <1>3, FS_Surjection, Zenon
<1>5. Cardinality(Range(s)) \in Nat
  BY <1>4, FS_CardinalityType, Zenon
<1>6. IsInjective(s) => s \in Injection(1..n, Range(s))
  BY <1>1, Zenon DEF Injection
<1> QED
  BY <1>2, <1>4, <1>5, <1>6 DEF n

----------------------------------------------------------------------------
(* The must-include loop keeps the first occurrence of every device.       *)

MustSelected(s, i, a) ==
  /\ IsInjective(a)
  /\ \A m \in DOMAIN a : \E j \in 1..i : a[m] = s[j]
  /\ \A j \in 1..i : s[j] \in Range(a)
  /\ Ordered(a, s)

LEMMA AppendKeepsApart ==
  ASSUME NEW D, NEW a \in Seq(D), NEW e \in D, NEW w, IsInjective(a), e \notin Range(a),
         w = Append(a, e)
  PROVE  IsInjective(w)
<1> DEFINE m == Len(a)
<1>1. m \in Nat /\ DOMAIN a = 1..m /\ DOMAIN w = 1..(m + 1)
  OBVIOUS
<1>2. w[m + 1] = e /\ \A i \in 1..m : w[i] = a[i]
  OBVIOUS
<1> HIDE DEF m
<1>3. \A i \in 1..m : a[i] # e
  BY <1>1 DEF Range
<1>4. ASSUME NEW x \in 1..(m + 1), NEW y \in 1..(m + 1), w[x] = w[y] PROVE x = y
  <2>1. CASE x = m + 1 /\ y = m + 1
    BY <2>1
  <2>2. CASE x = m + 1 /\ y \in 1..m
    BY <1>2, <1>3, <1>4, <2>2
  <2>3. CASE x \in 1..m /\ y = m + 1
    BY <1>2, <1>3, <1>4, <2>3
  <2>4. CASE x \in 1..m /\ y \in 1..m
    BY <1>1, <1>2, <1>4, <2>4 DEF IsInjective
  <2>5. \A z \in 1..(m + 1) : z = m + 1 \/ z \in 1..m
    BY <1>1
  <2> QED
    BY <2>1, <2>2, <2>3, <2>4, <2>5
<1> QED
  BY <1>1, <1>4 DEF IsInjective

LEMMA MustTurn ==
  ASSUME NEW D, NEW s \in Seq(D), NEW i \in 0..(Len(s) - 1), NEW a \in Seq(D), NEW b,
         MustSelected(s, i, a), b = Select(a, s[i + 1])
  PROVE  MustSelected(s, i + 1, b)
<1> DEFINE e == s[i + 1]
           m == Len(a)
<1>1. e \in D /\ i + 1 \in 1..Len(s) /\ (i + 1) - 1 = i /\ m \in Nat /\ DOMAIN a = 1..m
  OBVIOUS
<1>2. CASE e \in Range(a)
  <2>1. b = a
    BY <1>2 DEF Select
  <2>2. \A x \in 1..m : \E j \in 1..(i + 1) : a[x] = s[j]
    BY <1>1 DEF MustSelected
  <2>3. \A j \in 1..(i + 1) : s[j] \in Range(a)
    <3>1. \A j \in 1..(i + 1) : j \in 1..i \/ j = i + 1
      OBVIOUS
    <3> QED
      BY <1>2, <3>1 DEF MustSelected
  <2> QED
    BY <1>1, <2>1, <2>2, <2>3 DEF MustSelected
<1>3. CASE e \notin Range(a)
  <2>1. b = Append(a, e)
    BY <1>3 DEF Select
  <2>2. DOMAIN b = 1..(m + 1) /\ b[m + 1] = e /\ \A x \in 1..m : b[x] = a[x]
    BY <2>1
  <2>3. Range(b) = Range(a) \cup {e}
    BY <1>1, <2>1, AppendRange
  <2>4. IsInjective(b)
    <3>1. IsInjective(a)
      BY DEF MustSelected
    <3>2. e \in D
      BY <1>1
    <3> QED
      BY <1>3, <2>1, <3>1, <3>2, AppendKeepsApart, Zenon
  <2>5. First(s, e) = i + 1
    <3>1. \A j \in 1..i : s[j] # e
      BY <1>3 DEF MustSelected
    <3> QED
      BY <1>1, <3>1, FirstIs
  <2>6. ASSUME NEW x \in 1..m PROVE First(s, a[x]) \in 1..i
    <3>1. PICK j \in 1..i : a[x] = s[j]
      BY <1>1 DEF MustSelected
    <3>2. j \in 1..Len(s)
      BY <1>1
    <3>3. First(s, s[j]) \in 1..j
      BY <3>2, FirstExists
    <3> QED
      BY <3>1, <3>3
  <2>7. \A x \in 1..(m + 1) : x = m + 1 \/ x \in 1..m
    BY <1>1
  <2>8. \A x \in 1..(m + 1) : \E j \in 1..(i + 1) : b[x] = s[j]
    <3>1. ASSUME NEW x \in 1..m PROVE \E j \in 1..(i + 1) : b[x] = s[j]
      <4>1. PICK j \in 1..i : a[x] = s[j]
        BY <1>1 DEF MustSelected
      <4> QED
        BY <2>2, <4>1
    <3>2. \E j \in 1..(i + 1) : b[m + 1] = s[j]
      BY <2>2
    <3> QED
      BY <2>7, <3>1, <3>2
  <2>9. \A j \in 1..(i + 1) : s[j] \in Range(b)
    <3>1. \A j \in 1..(i + 1) : j \in 1..i \/ j = i + 1
      OBVIOUS
    <3> QED
      BY <2>3, <3>1 DEF MustSelected
  <2>10. Ordered(b, s)
    <3>1. ASSUME NEW x \in 1..(m + 1), NEW y \in 1..(m + 1), x < y
          PROVE  First(s, b[x]) < First(s, b[y])
      <4>1. x \in 1..m /\ b[x] = a[x]
        BY <1>1, <2>2, <3>1
      <4>2. CASE y = m + 1
        BY <2>2, <2>5, <2>6, <4>1, <4>2
      <4>3. CASE y \in 1..m
        BY <1>1, <2>2, <3>1, <4>1, <4>3 DEF MustSelected, Ordered
      <4> QED
        BY <2>7, <4>2, <4>3
    <3> QED
      BY <2>2, <3>1 DEF Ordered
  <2> QED
    BY <2>2, <2>4, <2>8, <2>9, <2>10 DEF MustSelected
<1> QED
  BY <1>2, <1>3

LEMMA MustIncluded ==
  ASSUME NEW D, NEW s \in Seq(D)
  PROVE  /\ FoldLeft(Select, <<>>, s) \in Seq(D)
         /\ IsInjective(FoldLeft(Select, <<>>, s))
         /\ Range(FoldLeft(Select, <<>>, s)) = Range(s)
         /\ Ordered(FoldLeft(Select, <<>>, s), s)
<1> DEFINE n == Len(s)
<1>1. PICK tr \in [0..n -> Seq(D)] :
        /\ tr[0] = <<>>
        /\ \A i \in 1..n : tr[i] = Select(tr[i - 1], s[i])
        /\ tr[n] = FoldLeft(Select, <<>>, s)
  BY MustLoop
<1> DEFINE T == {i \in 0..n : MustSelected(s, i, tr[i])}
<1>2. n \in Nat /\ DOMAIN s = 1..n
  OBVIOUS
<1> HIDE DEF n
<1>3. 0 \in T
  <2>1. tr[0] = <<>> /\ DOMAIN tr[0] = {} /\ 1..0 = {}
    BY <1>1
  <2>2. MustSelected(s, 0, tr[0])
    BY <2>1 DEF MustSelected, IsInjective, Ordered
  <2> QED
    BY <1>2, <2>2
<1>4. ASSUME NEW i \in 0..(n - 1), i \in T PROVE i + 1 \in T
  <2>1. i + 1 \in 1..n /\ i + 1 \in 0..n /\ i \in 0..n /\ (i + 1) - 1 = i
    BY <1>2
  <2>2. tr[i + 1] = Select(tr[i], s[i + 1]) /\ tr[i] \in Seq(D)
    BY <1>1, <2>1
  <2>3. i \in 0..(Len(s) - 1)
    BY DEF n
  <2>4. MustSelected(s, i + 1, tr[i + 1])
    BY <1>4, <2>2, <2>3, MustTurn
  <2> QED
    BY <2>1, <2>4
<1> HIDE DEF T
<1>5. \A i \in 0..n : i \in T
  BY <1>2, <1>3, <1>4, TurnByTurn, Zenon
<1>6. n \in T
  BY <1>2, <1>5
<1>7. MustSelected(s, n, tr[n]) /\ tr[n] \in Seq(D)
  BY <1>1, <1>2, <1>6 DEF T
<1>8. Range(tr[n]) = Range(s)
  <2>1. ASSUME NEW d \in Range(tr[n]) PROVE d \in Range(s)
    BY <1>2, <1>7 DEF MustSelected, Range
  <2>2. ASSUME NEW d \in Range(s) PROVE d \in Range(tr[n])
    <3>1. PICK j \in 1..n : d = s[j]
      BY <1>2 DEF Range
    <3> QED
      BY <1>7, <3>1 DEF MustSelected
  <2> QED
    BY <2>1, <2>2
<1> QED
  BY <1>1, <1>7, <1>8 DEF MustSelected

----------------------------------------------------------------------------
(* The loop over the available devices adds the earliest ones.             *)

AddedEarliest(size, inc, s, i, a) ==
  /\ Len(inc) <= Len(a) /\ Len(a) <= size
  /\ \A m \in 1..Len(inc) : a[m] = inc[m]
  /\ IsInjective(a) /\ Range(a) \subseteq Range(s)
  /\ \A m \in (Len(inc) + 1)..Len(a) : First(s, a[m]) <= i
  /\ \A m, n \in (Len(inc) + 1)..Len(a) : m < n => First(s, a[m]) < First(s, a[n])
  /\ \A m \in (Len(inc) + 1)..Len(a) : \A d \in Range(s) \ Range(a) : First(s, a[m]) < First(s, d)
  /\ Len(a) < size => \A j \in 1..i : s[j] \in Range(a)

LEMMA FirstInRange ==
  ASSUME NEW D, NEW s \in Seq(D), NEW d \in Range(s)
  PROVE  First(s, d) \in 1..Len(s) /\ s[First(s, d)] = d
<1>1. PICK j \in 1..Len(s) : d = s[j]
  BY DEF Range
<1>2. First(s, s[j]) \in 1..j /\ s[First(s, s[j])] = s[j]
  BY FirstExists
<1> QED
  BY <1>1, <1>2

LEMMA AvailableTurn ==
  ASSUME NEW D, NEW size \in Nat, NEW inc \in Seq(D), NEW s \in Seq(D),
         NEW i \in 0..(Len(s) - 1), NEW a \in Seq(D), NEW b,
         AddedEarliest(size, inc, s, i, a), b = Fill(size, a, s[i + 1])
  PROVE  AddedEarliest(size, inc, s, i + 1, b)
<1> DEFINE e == s[i + 1]
           m == Len(a)
           k == Len(inc)
<1>1. /\ e \in D /\ i + 1 \in 1..Len(s) /\ (i + 1) - 1 = i /\ i \in Nat /\ m \in Nat /\ k \in Nat
      /\ DOMAIN a = 1..m /\ DOMAIN s = 1..Len(s)
  OBVIOUS
<1>2. /\ k <= m /\ m <= size
      /\ \A x \in 1..k : a[x] = inc[x]
      /\ IsInjective(a) /\ Range(a) \subseteq Range(s)
      /\ \A x \in (k + 1)..m : First(s, a[x]) <= i
      /\ \A x, y \in (k + 1)..m : x < y => First(s, a[x]) < First(s, a[y])
      /\ \A x \in (k + 1)..m : \A d \in Range(s) \ Range(a) : First(s, a[x]) < First(s, d)
      /\ m < size => \A j \in 1..i : s[j] \in Range(a)
  BY DEF AddedEarliest
<1>3. e \in Range(s)
  BY <1>1 DEF Range
<1>4. ASSUME NEW x \in (k + 1)..m PROVE First(s, a[x]) \in Nat
  <2>1. a[x] \in Range(a)
    BY <1>1 DEF Range
  <2>2. a[x] \in Range(s)
    BY <1>2, <2>1
  <2> QED
    BY <2>2, FirstInRange
<1>5. CASE m = size \/ e \in Range(a)
  <2>1. b = a
    BY <1>5 DEF Select, Fill
  <2>2. \A x \in (k + 1)..m : First(s, a[x]) <= i + 1
    BY <1>1, <1>2, <1>4
  <2>3. m < size => \A j \in 1..(i + 1) : s[j] \in Range(a)
    <3>1. \A j \in 1..(i + 1) : j \in 1..i \/ j = i + 1
      OBVIOUS
    <3>2. m < size => \A j \in 1..i : s[j] \in Range(a)
      BY <1>2, Zenon
    <3>3. m < size => e \in Range(a)
      <4>1. m \in Nat /\ (m = size \/ e \in Range(a))
        BY <1>1, <1>5, Zenon
      <4> HIDE DEF m, e
      <4> QED
        BY <4>1
    <3> QED
      BY <3>1, <3>2, <3>3
  <2> QED
    BY <1>2, <2>1, <2>2, <2>3 DEF AddedEarliest
<1>6. CASE m # size /\ e \notin Range(a)
  <2> HIDE DEF e
  <2>1. b = Append(a, e)
    BY <1>6 DEF Select, Fill, e
  <2>2. Len(b) = m + 1 /\ b[m + 1] = e /\ \A x \in 1..m : b[x] = a[x]
    BY <1>1, <2>1
  <2>3. Range(b) = Range(a) \cup {e}
    BY <1>1, <2>1, AppendRange
  <2>4. IsInjective(b)
    <3>1. e \in D /\ IsInjective(a)
      BY <1>1, <1>2
    <3> QED
      BY <1>6, <2>1, <3>1, AppendKeepsApart, Zenon
  <2>5. m < size /\ \A j \in 1..i : s[j] \in Range(a)
    <3>1. m <= size /\ (m < size => \A j \in 1..i : s[j] \in Range(a))
      BY <1>2, Zenon
    <3>2. m < size
      <4>1. m \in Nat /\ m # size /\ m <= size
        BY <1>1, <1>6, <3>1, Zenon
      <4> HIDE DEF m
      <4> QED
        BY <4>1
    <3> QED
      BY <3>1, <3>2, Zenon
  <2>6. First(s, e) = i + 1
    <3>1. \A j \in 1..i : s[j] # s[i + 1]
      BY <1>6, <2>5 DEF e
    <3>2. First(s, s[i + 1]) = i + 1
      BY <1>1, <3>1, FirstIs
    <3> QED
      BY <3>2 DEF e
  <2>7. \A x \in (k + 1)..(m + 1) : x = m + 1 \/ (x \in (k + 1)..m /\ x \in 1..m)
    BY <1>1
  <2>8. k <= m + 1 /\ m + 1 <= size
    BY <1>1, <1>2, <2>5
  <2>9. \A x \in 1..k : b[x] = inc[x]
    BY <1>1, <1>2, <2>2
  <2>10. Range(b) \subseteq Range(s)
    BY <1>2, <1>3, <2>3
  <2>11. ASSUME NEW x \in (k + 1)..(m + 1) PROVE First(s, b[x]) <= i + 1
    <3>1. CASE x = m + 1
      BY <1>1, <2>2, <2>6, <3>1
    <3>2. CASE x \in (k + 1)..m /\ x \in 1..m
      BY <1>1, <1>2, <1>4, <2>2, <3>2
    <3> QED
      BY <2>7, <3>1, <3>2
  <2>12. ASSUME NEW x \in (k + 1)..(m + 1), NEW y \in (k + 1)..(m + 1), x < y
         PROVE  First(s, b[x]) < First(s, b[y])
    <3>1. x \in (k + 1)..m /\ b[x] = a[x]
      BY <1>1, <2>2, <2>12
    <3>2. CASE y = m + 1
      BY <1>1, <1>2, <1>4, <2>2, <2>6, <3>1, <3>2
    <3>3. CASE y \in (k + 1)..m /\ y \in 1..m
      BY <1>2, <2>2, <2>12, <3>1, <3>3
    <3> QED
      BY <2>7, <3>2, <3>3
  <2>13. ASSUME NEW x \in (k + 1)..(m + 1), NEW d \in Range(s) \ Range(b)
         PROVE  First(s, b[x]) < First(s, d)
    <3>1. d \in Range(s) \ Range(a) /\ d # e
      BY <2>3
    <3>2. First(s, d) \in 1..Len(s) /\ s[First(s, d)] = d
      BY <3>1, FirstInRange
    <3>3. First(s, d) \notin 1..i /\ First(s, d) # i + 1
      BY <2>5, <3>1, <3>2 DEF e
    <3>4. i + 1 < First(s, d)
      BY <1>1, <3>2, <3>3
    <3>5. CASE x = m + 1
      BY <2>2, <2>6, <3>4, <3>5
    <3>6. CASE x \in (k + 1)..m /\ x \in 1..m
      BY <1>2, <2>2, <3>1, <3>6
    <3> QED
      BY <2>7, <3>5, <3>6
  <2>14. \A j \in 1..(i + 1) : s[j] \in Range(b)
    <3>1. \A j \in 1..(i + 1) : j \in 1..i \/ j = i + 1
      BY <1>1
    <3> QED
      BY <2>3, <2>5, <3>1 DEF e
  <2> QED
    BY <2>2, <2>4, <2>8, <2>9, <2>10, <2>11, <2>12, <2>13, <2>14 DEF AddedEarliest
<1> QED
  BY <1>5, <1>6

LEMMA AvailableAdded ==
  ASSUME NEW D, NEW size \in Nat, NEW inc \in Seq(D), NEW s \in Seq(D),
         Len(inc) <= size, IsInjective(inc), Range(inc) \subseteq Range(s)
  PROVE  Filled(size, inc, s) \in Seq(D) /\ AddedEarliest(size, inc, s, Len(s), Filled(size, inc, s))
<1> DEFINE n == Len(s)
<1>0. PICK tr \in [0..n -> Seq(D)] : AvailableTrace(tr, size, inc, s)
  BY AvailableLoop, Zenon
<1>1. /\ tr[0] = inc
      /\ \A i \in 1..n : tr[i] = Fill(size, tr[i - 1], s[i])
      /\ tr[n] = Filled(size, inc, s)
  BY <1>0, Zenon DEF AvailableTrace
<1> DEFINE T == {i \in 0..n : AddedEarliest(size, inc, s, i, tr[i])}
<1>2. n \in Nat
  OBVIOUS
<1> HIDE DEF n
<1>3. 0 \in T
  <2>1. Len(inc) \in Nat /\ (Len(inc) + 1)..Len(inc) = {} /\ 1..0 = {}
    OBVIOUS
  <2>2. AddedEarliest(size, inc, s, 0, inc)
    BY <2>1 DEF AddedEarliest
  <2> QED
    BY <1>1, <1>2, <2>2
<1>4. ASSUME NEW i \in 0..(n - 1), i \in T PROVE i + 1 \in T
  <2>1. i + 1 \in 1..n /\ i + 1 \in 0..n /\ i \in 0..n /\ (i + 1) - 1 = i
    BY <1>2
  <2>2. tr[i + 1] = Fill(size, tr[i], s[i + 1]) /\ tr[i] \in Seq(D)
    BY <1>1, <2>1
  <2>3. i \in 0..(Len(s) - 1)
    BY DEF n
  <2>4. AddedEarliest(size, inc, s, i, tr[i])
    BY <1>4
  <2>5. AddedEarliest(size, inc, s, i + 1, tr[i + 1])
    BY <2>2, <2>3, <2>4, AvailableTurn, Zenon
  <2> QED
    BY <2>1, <2>5
<1> HIDE DEF T
<1>5. \A i \in 0..n : i \in T
  BY <1>2, <1>3, <1>4, TurnByTurn, Zenon
<1>6. n \in T
  BY <1>2, <1>5
<1> QED
  BY <1>1, <1>2, <1>6 DEF T, n

----------------------------------------------------------------------------
(* PreferredAllocation against its reference.                              *)

Possible(r) ==
  /\ \A d \in Range(r.available) : Usable(d)
  /\ Range(r.must) \subseteq Range(r.available)
  /\ Cardinality(Range(r.must)) <= r.size
  /\ r.size <= Cardinality(Range(r.available))

Answered(r, reply) ==
  /\ reply.ok \in BOOLEAN /\ (reply.ok <=> Possible(r))
  /\ reply.ok => /\ reply.ids \in Seq(Ids) /\ IsInjective(reply.ids)
                 /\ Range(reply.ids) \subseteq Range(r.available)
                 /\ Fits(r, reply.ids)
  /\ reply = IF reply.ok THEN Ok(reply.ids) ELSE Error

FitsParts(must, s, size, sel) ==
  LET k == Cardinality(Range(must))
      head == SubSeq(sel, 1, k)
      tail == SubSeq(sel, k + 1, Len(sel)) IN
  /\ Len(sel) = size /\ IsInjective(sel)
  /\ Range(head) = Range(must) /\ Ordered(head, must)
  /\ Range(tail) \subseteq Range(s) /\ Ordered(tail, s)
  /\ \A d \in Range(s) \ Range(sel), e \in Range(tail) : First(s, e) < First(s, d)

LEMMA PreferredFits ==
  ASSUME NEW D, NEW must \in Seq(D), NEW s \in Seq(D), NEW size \in Nat, NEW inc \in Seq(D), NEW sel \in Seq(D),
         IsInjective(inc), Range(inc) = Range(must), Ordered(inc, must),
         AddedEarliest(size, inc, s, Len(s), sel), Len(sel) = size
  PROVE  FitsParts(must, s, size, sel)
<1> DEFINE k == Cardinality(Range(must))
           head == SubSeq(sel, 1, k)
           tail == SubSeq(sel, k + 1, Len(sel))
<1>1. k = Len(inc) /\ k \in Nat
  <2>1. Cardinality(Range(inc)) = Len(inc)
    BY NamedOnce
  <2> QED
    BY <2>1
<1> HIDE DEF k
<1>2. /\ k <= Len(sel) /\ \A m \in 1..k : sel[m] = inc[m]
      /\ IsInjective(sel) /\ Range(sel) \subseteq Range(s)
      /\ \A m, n \in (k + 1)..Len(sel) : m < n => First(s, sel[m]) < First(s, sel[n])
      /\ \A m \in (k + 1)..Len(sel) : \A d \in Range(s) \ Range(sel) : First(s, sel[m]) < First(s, d)
  BY <1>1 DEF AddedEarliest
<1>3. head = inc
  <2>1. head \in Seq(D) /\ Len(head) = k /\ \A m \in 1..k : head[m] = sel[m]
    BY <1>1, <1>2
  <2>2. DOMAIN head = 1..k /\ DOMAIN inc = 1..k /\ \A m \in 1..k : head[m] = inc[m]
    BY <1>1, <1>2, <2>1
  <2> QED
    BY <1>1, <2>1, <2>2
<1>4. Range(head) = Range(must) /\ Ordered(head, must)
  BY <1>3
<1>5. /\ DOMAIN tail = 1..(Len(sel) - k)
      /\ \A m \in 1..(Len(sel) - k) : m + k \in (k + 1)..Len(sel) /\ m + k \in DOMAIN sel /\ tail[m] = sel[m + k]
  BY <1>1, <1>2
<1> HIDE DEF tail, head
<1>6. ASSUME NEW e \in Range(tail) PROVE \E x \in (k + 1)..Len(sel) : x \in DOMAIN sel /\ e = sel[x]
  BY <1>5 DEF Range
<1>7. Range(tail) \subseteq Range(s)
  <2>1. ASSUME NEW e \in Range(tail) PROVE e \in Range(s)
    <3>1. e \in Range(sel)
      BY <1>6 DEF Range
    <3> QED
      BY <1>2, <3>1
  <2> QED
    BY <2>1
<1>8. Ordered(tail, s)
  <2>1. ASSUME NEW m \in 1..(Len(sel) - k), NEW n \in 1..(Len(sel) - k), m < n
        PROVE  First(s, tail[m]) < First(s, tail[n])
    <3>1. m + k < n + k
      BY <1>1, <2>1
    <3>2. m + k \in (k + 1)..Len(sel) /\ n + k \in (k + 1)..Len(sel) /\ tail[m] = sel[m + k] /\ tail[n] = sel[n + k]
      BY <1>5
    <3> QED
      BY <1>2, <3>1, <3>2
  <2> QED
    BY <1>5, <2>1 DEF Ordered
<1>9. ASSUME NEW d \in Range(s) \ Range(sel), NEW e \in Range(tail) PROVE First(s, e) < First(s, d)
  BY <1>2, <1>6
<1>10. /\ Len(sel) = size /\ IsInjective(sel)
       /\ Range(head) = Range(must) /\ Ordered(head, must)
       /\ Range(tail) \subseteq Range(s) /\ Ordered(tail, s)
       /\ \A d \in Range(s) \ Range(sel), e \in Range(tail) : First(s, e) < First(s, d)
  BY <1>2, <1>4, <1>7, <1>8, <1>9
<1> QED
  BY <1>10, Zenon DEF k, head, tail, FitsParts

LEMMA PreferredAnswers ==
  ASSUME NEW r, r.must \in Seq(Ids), r.available \in Seq(Ids), r.size \in Nat
  PROVE  Answered(r, PreferredAllocation(r))
<1> DEFINE must == r.must
           s == r.available
           size == r.size
           inc == FoldLeft(Select, <<>>, must)
           sel == Filled(size, inc, s)
           reply == PreferredAllocation(r)
<1>1. inc \in Seq(Ids) /\ IsInjective(inc) /\ Range(inc) = Range(must) /\ Ordered(inc, must)
  BY MustIncluded
<1>2. reply = IF \/ \E d \in Range(s) : ~Usable(d)
                 \/ \E d \in Range(must) : d \notin Range(s)
                 \/ Len(inc) > size
                 \/ Len(sel) # size
              THEN Error ELSE Ok(sel)
  BY PreferredParts, Zenon
<1>3. must \in Seq(Ids) /\ s \in Seq(Ids) /\ size \in Nat
  OBVIOUS
<1>4. Fits(r, sel) <=> FitsParts(must, s, size, sel)
  BY Zenon DEF Fits, FitsParts
<1>5. Possible(r) <=> /\ \A d \in Range(s) : Usable(d)
                      /\ Range(must) \subseteq Range(s)
                      /\ Cardinality(Range(must)) <= size
                      /\ size <= Cardinality(Range(s))
  BY DEF Possible
<1> HIDE DEF must, s, size, inc, sel, reply
<1>6. Cardinality(Range(must)) = Len(inc) /\ Len(inc) \in Nat
  <2>1. Cardinality(Range(inc)) = Len(inc)
    BY <1>1, NamedOnce
  <2> QED
    BY <1>1, <2>1
<1>7. IsFiniteSet(Range(s)) /\ Cardinality(Range(s)) \in Nat
  BY <1>3, NamedOnce, Zenon
<1>8. CASE (\A d \in Range(s) : Usable(d)) /\ Range(must) \subseteq Range(s) /\ Len(inc) <= size
  <2>1. sel \in Seq(Ids) /\ AddedEarliest(size, inc, s, Len(s), sel)
    <3>1. Range(inc) \subseteq Range(s)
      BY <1>1, <1>8
    <3>2. Filled(size, inc, s) \in Seq(Ids) /\ AddedEarliest(size, inc, s, Len(s), Filled(size, inc, s))
      BY <1>1, <1>3, <1>8, <3>1, AvailableAdded
    <3> QED
      BY <3>2 DEF sel
  <2>2. Len(sel) \in Nat /\ Len(sel) <= size /\ IsInjective(sel) /\ Range(sel) \subseteq Range(s)
    BY <2>1 DEF AddedEarliest
  <2>3. Cardinality(Range(sel)) = Len(sel)
    BY <2>1, <2>2, NamedOnce
  <2>4. Cardinality(Range(sel)) <= Cardinality(Range(s))
    BY <1>7, <2>2, FS_Subset
  <2>5. CASE Len(sel) = size
    <3>1. reply = Ok(sel)
      <4>1. ~(Len(inc) > size)
        BY <1>3, <1>6, <1>8
      <4> QED
        BY <1>2, <1>8, <2>5, <4>1
    <3>2. reply.ok /\ reply.ids = sel
      BY <3>1 DEF Ok
    <3>3. Possible(r)
      BY <1>3, <1>5, <1>6, <1>7, <1>8, <2>3, <2>4, <2>5
    <3>4. Fits(r, sel)
      BY <1>1, <1>3, <1>4, <2>1, <2>5, PreferredFits, Zenon
    <3> QED
      BY <2>1, <2>2, <3>1, <3>2, <3>3, <3>4 DEF Answered, s, reply
  <2>6. CASE Len(sel) # size
    <3>1. reply = Error
      BY <1>2, <2>6
    <3>2. ~reply.ok /\ reply.ok \in BOOLEAN
      BY <3>1 DEF Error
    <3>3. \A j \in 1..Len(s) : s[j] \in Range(sel)
      <4>1. Len(sel) < size
        BY <1>3, <2>2, <2>6
      <4> QED
        BY <2>1, <4>1 DEF AddedEarliest
    <3>4. Range(s) \subseteq Range(sel)
      BY <1>3, <3>3 DEF Range
    <3>5. Range(s) = Range(sel)
      BY <2>2, <3>4
    <3>6. ~(size <= Cardinality(Range(s)))
      BY <1>3, <2>2, <2>3, <2>6, <3>5
    <3> QED
      BY <1>5, <3>1, <3>2, <3>6 DEF Answered, reply
  <2> QED
    BY <2>5, <2>6
<1>9. CASE ~((\A d \in Range(s) : Usable(d)) /\ Range(must) \subseteq Range(s) /\ Len(inc) <= size)
  <2>1. reply = Error
    <3>1. CASE ~(Len(inc) <= size)
      <4>1. Len(inc) > size
        BY <1>3, <1>6, <3>1
      <4> QED
        BY <1>2, <4>1
    <3>2. CASE ~((\A d \in Range(s) : Usable(d)) /\ Range(must) \subseteq Range(s))
      BY <1>2, <3>2
    <3> QED
      BY <1>9, <3>1, <3>2
  <2>2. ~reply.ok /\ reply.ok \in BOOLEAN
    BY <2>1 DEF Error
  <2>3. ~Possible(r)
    BY <1>5, <1>6, <1>9
  <2> QED
    BY <2>1, <2>2, <2>3 DEF Answered, reply
<1> QED
  BY <1>8, <1>9

----------------------------------------------------------------------------
(* The calls.                                                              *)

\* What is left between the calls: a proposal names each device once, and its
\* devices are usable unless their health changed since.
ProposalStands ==
  /\ stage \in {"none", "preferred", "allocated"}
  /\ stage = "none" => proposed = <<>>
  /\ stage = "preferred" /\ answer.ok =>
       \E ids \in Seq(Ids) : /\ proposed = <<ids>> /\ IsInjective(ids)
                              /\ \A d \in Range(ids) : d \in changed \/ Usable(d)

AllocationInv ==
  ProposalStands /\ PreferredIsReference /\ AllocatedIsExclusive /\ ProposalIsHonoured

LEMMA ListsAreSequences ==
  ASSUME NEW n \in Nat, NEW a \in Lists(n)
  PROVE  a \in Seq(Ids)
<1>1. PICK k \in 0..n : a \in [1..k -> Ids]
  BY DEF Lists
<1> QED
  BY <1>1

LEMMA Validated ==
  ASSUME NEW cs, FlattenSeq(cs) \in Seq(Ids)
  PROVE  ValidateAllocation(cs) <=>
           (\A d \in Range(FlattenSeq(cs)) : Usable(d)) /\ IsInjective(FlattenSeq(cs))
<1> DEFINE s == FlattenSeq(cs)
<1>1. ValidateAllocation(cs) = FoldLeft(Visit, Ok(<<>>), s).ok
  BY ValidateParts, Zenon
<1>2. FoldLeft(Visit, Ok(<<>>), s).ok <=> (\A d \in Range(s) : Usable(d)) /\ IsInjective(s)
  BY RequestsValidated, Zenon
<1> QED
  BY <1>1, <1>2, Zenon

LEMMA InitiallyStands ==
  Init => AllocationInv
BY DEF Init, AllocationInv, ProposalStands, PreferredIsReference, AllocatedIsExclusive,
       ProposalIsHonoured, Error

LEMMA PreferKeeps ==
  ASSUME NEW r \in PreferRequests, GetPreferredAllocation(<<r>>)
  PROVE  AllocationInv'
<1> DEFINE p == PreferredAllocation(r)
           q == <<r>>
<1>1. r.must \in Seq(Ids) /\ r.available \in Seq(Ids) /\ r.size \in Nat
  <2>1. r.must \in Lists(MaxMust) /\ r.available \in Lists(MaxAvailable) /\ r.size \in 0..MaxSize
    BY DEF PreferRequests
  <2>2. MaxMust \in Nat /\ MaxAvailable \in Nat /\ MaxSize \in Nat
    BY AllocationBounds
  <2>3. r.must \in Seq(Ids) /\ r.available \in Seq(Ids)
    BY <2>1, <2>2, ListsAreSequences, Zenon
  <2> QED
    BY <2>1, <2>2, <2>3
<1>2. Answered(r, p)
  BY <1>1, PreferredAnswers, Zenon
<1>3. DOMAIN q = {1} /\ q[1] = r
  OBVIOUS
<1>4. /\ stage' = "preferred" /\ request' = q /\ changed' = {} /\ unhealthy' = unhealthy
      /\ answer' = (IF \A c \in DOMAIN q : [x \in DOMAIN q |-> PreferredAllocation(q[x])][c].ok
                    THEN Ok([c \in DOMAIN q |-> [x \in DOMAIN q |-> PreferredAllocation(q[x])][c].ids])
                    ELSE Error)
      /\ proposed' = answer'.ids
  BY Zenon DEF GetPreferredAllocation
<1> HIDE DEF p, q
<1>5. /\ \A x \in {1} : PreferredAllocation(q[x]) = p
      /\ \A c \in {1} : [x \in {1} |-> PreferredAllocation(q[x])][c] = p
  BY <1>3 DEF p
<1>6. answer' = (IF p.ok THEN Ok([c \in {1} |-> p.ids]) ELSE Error)
  BY <1>3, <1>4, <1>5
<1>7. [c \in {1} |-> p.ids] = <<p.ids>>
  OBVIOUS
<1>8. Possible(r) <=> /\ \A d \in Range(r.available) : Usable(d)
                      /\ Range(r.must) \subseteq Range(r.available)
                      /\ Cardinality(Range(r.must)) <= r.size
                      /\ r.size <= Cardinality(Range(r.available))
  BY DEF Possible
<1>9. request'[1] = r
  BY <1>3, <1>4
<1>10. CASE p.ok
  <2>1. answer'.ok /\ answer'.ids = <<p.ids>> /\ proposed' = <<p.ids>>
    BY <1>4, <1>6, <1>7, <1>10 DEF Ok
  <2>2. Possible(r) /\ p.ids \in Seq(Ids) /\ IsInjective(p.ids) /\ Fits(r, p.ids)
        /\ Range(p.ids) \subseteq Range(r.available)
    BY <1>2, <1>10 DEF Answered
  <2>3. \A d \in Range(p.ids) : Usable(d)'
    BY <1>4, <1>8, <2>2 DEF Usable
  <2>4. ProposalStands'
    BY <1>4, <2>1, <2>2, <2>3 DEF ProposalStands
  <2>5. answer'.ids[1] = p.ids
    BY <2>1
  <2>6. PreferredIsReference'
    <3>1. \A d \in Range(r.available) : Usable(d)'
      BY <1>4, <1>8, <2>2 DEF Usable
    <3> QED
      BY <1>8, <1>9, <2>1, <2>2, <2>5, <3>1 DEF PreferredIsReference
  <2>7. AllocatedIsExclusive' /\ ProposalIsHonoured'
    BY <1>4 DEF AllocatedIsExclusive, ProposalIsHonoured
  <2> QED
    BY <2>4, <2>6, <2>7 DEF AllocationInv
<1>11. CASE ~p.ok
  <2>1. ~answer'.ok
    BY <1>6, <1>11 DEF Error
  <2>2. ~Possible(r)
    BY <1>2, <1>11 DEF Answered
  <2>3. ProposalStands'
    BY <1>4, <2>1 DEF ProposalStands
  <2>4. PreferredIsReference'
    <3>1. \A d \in Range(r.available) : Usable(d)' <=> Usable(d)
      BY <1>4 DEF Usable
    <3> QED
      BY <1>8, <1>9, <2>1, <2>2, <3>1 DEF PreferredIsReference
  <2>5. AllocatedIsExclusive' /\ ProposalIsHonoured'
    BY <1>4 DEF AllocatedIsExclusive, ProposalIsHonoured
  <2> QED
    BY <2>3, <2>4, <2>5 DEF AllocationInv
<1> QED
  BY <1>10, <1>11

LEMMA AllocateIsExclusive ==
  ASSUME NEW cs, FlattenSeq(cs) \in Seq(Ids), Allocate(cs)
  PROVE  /\ AllocatedIsExclusive' /\ PreferredIsReference'
         /\ stage' = "allocated" /\ request' = cs /\ proposed' = proposed /\ changed' = changed
         /\ answer'.ok <=> (\A d \in Range(FlattenSeq(cs)) : Usable(d)) /\ IsInjective(FlattenSeq(cs))
<1>1. /\ stage' = "allocated" /\ request' = cs /\ proposed' = proposed /\ changed' = changed
      /\ unhealthy' = unhealthy
      /\ answer' = IF ValidateAllocation(cs) THEN Ok(cs) ELSE Error
  BY DEF Allocate
<1>2. answer'.ok <=> ValidateAllocation(cs)
  BY <1>1 DEF Ok, Error
<1>3. answer'.ok <=> (\A d \in Range(FlattenSeq(cs)) : Usable(d)) /\ IsInjective(FlattenSeq(cs))
  BY <1>2, Validated, Zenon
<1>4. \A d \in Range(FlattenSeq(cs)) : Usable(d)' <=> Usable(d)
  BY <1>1 DEF Usable
<1>5. AllocatedIsExclusive'
  BY <1>1, <1>3, <1>4 DEF AllocatedIsExclusive
<1>6. PreferredIsReference'
  BY <1>1 DEF PreferredIsReference
<1> QED
  BY <1>1, <1>3, <1>5, <1>6

LEMMA AllocationStep ==
  AllocationInv /\ [Next]_vars => AllocationInv'
<1> SUFFICES ASSUME AllocationInv, [Next]_vars PROVE AllocationInv'
  OBVIOUS
<1>1. CASE \E r \in PreferRequests : GetPreferredAllocation(<<r>>)
  BY <1>1, PreferKeeps
<1>2. ASSUME NEW cs \in AllocateRequests, AllocateOther(cs)
      PROVE  AllocationInv'
  <2>1. PICK n \in 0..MaxContainers : cs \in [1..n -> Lists(MaxIds)]
    BY DEF AllocateRequests
  <2>2. n \in Nat /\ cs \in [1..n -> Seq(Ids)]
    <3>1. MaxIds \in Nat /\ MaxContainers \in Nat
      BY AllocationBounds
    <3>2. \A l \in Lists(MaxIds) : l \in Seq(Ids)
      BY <3>1, ListsAreSequences, Zenon
    <3> QED
      BY <2>1, <3>1, <3>2
  <2>3. FlattenSeq(cs) \in Seq(Ids) /\ (n = 0 => FlattenSeq(cs) = <<>>)
    BY <2>2, FlattenAll, Zenon
  <2>4. stage = "none" /\ Allocate(cs)
    BY <1>2 DEF AllocateOther
  <2>5. cs = <<>> => FlattenSeq(cs) = <<>>
    <3>1. cs = <<>> => n = 0
      BY <2>2
    <3> QED
      BY <2>3, <3>1
  <2>6. /\ AllocatedIsExclusive' /\ PreferredIsReference'
        /\ stage' = "allocated" /\ request' = cs /\ proposed' = proposed /\ changed' = changed
        /\ answer'.ok <=> (\A d \in Range(FlattenSeq(cs)) : Usable(d)) /\ IsInjective(FlattenSeq(cs))
    BY <2>3, <2>4, AllocateIsExclusive, Zenon
  <2>7. proposed = <<>>
    BY <2>4 DEF AllocationInv, ProposalStands
  <2>8. ProposalIsHonoured'
    <3>1. cs = <<>> => answer'.ok
      <4>1. DOMAIN <<>> = {} /\ Range(<<>>) = {} /\ IsInjective(<<>>)
        BY DEF Range, IsInjective
      <4> QED
        BY <2>5, <2>6, <4>1
    <3> QED
      BY <2>6, <2>7, <3>1 DEF ProposalIsHonoured
  <2>9. ProposalStands'
    BY <2>6 DEF ProposalStands
  <2> QED
    BY <2>6, <2>8, <2>9 DEF AllocationInv
<1>3. CASE AllocateProposed
  <2>1. stage = "preferred" /\ answer.ok /\ Allocate(proposed)
    BY <1>3 DEF AllocateProposed
  <2>2. PICK ids \in Seq(Ids) : /\ proposed = <<ids>> /\ IsInjective(ids)
                               /\ \A d \in Range(ids) : d \in changed \/ Usable(d)
    BY <2>1 DEF AllocationInv, ProposalStands
  <2>3. FlattenSeq(proposed) = ids
    BY <2>2, FlattenOne, Zenon
  <2>4. FlattenSeq(proposed) \in Seq(Ids)
    BY <2>3
  <2>5. /\ AllocatedIsExclusive' /\ PreferredIsReference'
        /\ stage' = "allocated" /\ request' = proposed /\ proposed' = proposed /\ changed' = changed
        /\ answer'.ok <=> (\A d \in Range(FlattenSeq(proposed)) : Usable(d)) /\ IsInjective(FlattenSeq(proposed))
    BY <2>1, <2>4, AllocateIsExclusive, Zenon
  <2>6. ProposalIsHonoured'
    <3>1. answer'.ok <=> (\A d \in Range(ids) : Usable(d)) /\ IsInjective(ids)
      BY <2>3, <2>5
    <3>2. FlattenSeq(proposed)' = ids
      BY <2>3, <2>5
    <3>3. Range(ids) \cap changed = {} => answer'.ok
      BY <2>2, <3>1
    <3> QED
      BY <2>5, <3>2, <3>3 DEF ProposalIsHonoured
  <2>7. ProposalStands'
    BY <2>5 DEF ProposalStands
  <2> QED
    BY <2>5, <2>6, <2>7 DEF AllocationInv
<1>4. ASSUME NEW d \in Devices, UpdateHealth(d) PROVE AllocationInv'
  <2>1. /\ stage # "allocated" /\ changed' = changed \cup {d} /\ changed' # {}
        /\ unhealthy' = IF d \in unhealthy THEN unhealthy \ {d} ELSE unhealthy \cup {d}
        /\ stage' = stage /\ request' = request /\ answer' = answer /\ proposed' = proposed
    BY <1>4 DEF UpdateHealth
  <2>2. \A x : x \in changed \/ Usable(x) => x \in changed' \/ Usable(x)'
    BY <2>1 DEF Usable
  <2>3. ProposalStands'
    <3>1. ProposalStands
      BY DEF AllocationInv
    <3>2. ASSUME stage = "preferred", answer.ok
          PROVE  \E ids \in Seq(Ids) : /\ proposed' = <<ids>> /\ IsInjective(ids)
                                        /\ \A x \in Range(ids) : x \in changed' \/ Usable(x)'
      <4>1. PICK ids \in Seq(Ids) : /\ proposed = <<ids>> /\ IsInjective(ids)
                                   /\ \A x \in Range(ids) : x \in changed \/ Usable(x)
        BY <3>1, <3>2 DEF ProposalStands
      <4> QED
        BY <2>1, <2>2, <4>1
    <3> QED
      BY <2>1, <3>1, <3>2 DEF ProposalStands
  <2>4. PreferredIsReference' /\ AllocatedIsExclusive' /\ ProposalIsHonoured'
    BY <2>1 DEF PreferredIsReference, AllocatedIsExclusive, ProposalIsHonoured
  <2> QED
    BY <2>3, <2>4 DEF AllocationInv
<1>5. CASE UNCHANGED vars
  BY <1>5 DEF vars, AllocationInv, ProposalStands, PreferredIsReference, AllocatedIsExclusive,
              ProposalIsHonoured, Usable
<1> QED
  BY <1>1, <1>2, <1>3, <1>4, <1>5 DEF Next

LEMMA AllocationAlways ==
  Spec => []AllocationInv
BY InitiallyStands, AllocationStep, PTL DEF Spec

\* GetPreferredAllocation answers with the list its reference describes exactly
\* when there is one (PreferredAllocation of the resource manager), for lists of
\* every length.
THEOREM PreferenceIsTheReference ==
  Spec => []PreferredIsReference
<1>1. AllocationInv => PreferredIsReference
  BY DEF AllocationInv
<1> QED
  BY <1>1, AllocationAlways, PTL

\* Allocate accepts exactly the requests that name usable devices once
\* (ValidateAllocation), in one container or across containers.
THEOREM AllocationIsExclusive ==
  Spec => []AllocatedIsExclusive
<1>1. AllocationInv => AllocatedIsExclusive
  BY DEF AllocationInv
<1> QED
  BY <1>1, AllocationAlways, PTL

\* What GetPreferredAllocation proposed, Allocate accepts, unless the health of a
\* proposed device changed in between.
THEOREM ProposalsAreHonoured ==
  Spec => []ProposalIsHonoured
<1>1. AllocationInv => ProposalIsHonoured
  BY DEF AllocationInv
<1> QED
  BY <1>1, AllocationAlways, PTL
=============================================================================
