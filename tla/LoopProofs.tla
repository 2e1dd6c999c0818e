----------------------------- MODULE LoopProofs -----------------------------
(***************************************************************************)
(* Loops and sums, for sequences and finite sets of every size.  The       *)
(* models write them with the folds of the community modules, which are    *)
(* recursive functions over subsets; induction over the turns of a loop is *)
(* by least counterexample, with sets in place of predicates.              *)
(***************************************************************************)
EXTENDS Integers, FiniteSets, Sequences, SequencesExt, FiniteSetTheorems,
        WellFoundedInduction, TLAPS

----------------------------------------------------------------------------
\* What holds at the start and is kept by every turn holds after each turn.
LEMMA TurnByTurn ==
  ASSUME NEW n \in Nat, NEW T, 0 \in T, \A i \in 0..(n - 1) : i \in T => i + 1 \in T
  PROVE  \A i \in 0..n : i \in T
<1> DEFINE Bad == {i \in 0..n : i \notin T}
<1>1. SUFFICES ASSUME Bad # {} PROVE FALSE
  OBVIOUS
<1>2. Bad \subseteq Nat
  OBVIOUS
<1> HIDE DEF Bad
<1>3. \E x \in Bad : \A y \in Bad : ~(<<y, x>> \in OpToRel(<, Nat))
  BY <1>1, <1>2, NatLessThanWellFounded, WFMin, Zenon
<1>4. PICK x \in Bad : \A y \in Bad : ~(y < x)
  BY <1>2, <1>3 DEF OpToRel
<1> USE DEF Bad
<1>5. x # 0 /\ x - 1 \in 0..(n - 1) /\ x - 1 < x
  OBVIOUS
<1>6. x - 1 \in T
  BY <1>4, <1>5
<1> QED
  BY <1>5, <1>6

\* A set of indices has a greatest one.
LEMMA MaxOf ==
  ASSUME NEW n \in Nat, NEW t \in SUBSET (1..n), t # {}
  PROVE  Max(t) \in t /\ \A y \in t : y <= Max(t)
<1> DEFINE T == {k \in Nat : \A u \in SUBSET (1..k) : u # {} => \E x \in u : \A y \in u : x >= y}
<1>1. 0 \in T
  <2>1. 1..0 = {}
    OBVIOUS
  <2>2. \A u \in SUBSET (1..0) : u = {}
    BY <2>1
  <2> QED
    BY <2>2
<1>2. ASSUME NEW k \in 0..(n - 1), k \in T PROVE k + 1 \in T
  <2> SUFFICES ASSUME NEW u \in SUBSET (1..(k + 1)), u # {}
               PROVE  \E x \in u : \A y \in u : x >= y
    OBVIOUS
  <2>1. CASE k + 1 \in u
    BY <2>1
  <2>2. CASE k + 1 \notin u
    <3>1. u \in SUBSET (1..k)
      BY <2>2
    <3> QED
      BY <1>2, <3>1
  <2> QED
    BY <2>1, <2>2
<1> HIDE DEF T
<1>3. n \in T
  <2>1. \A i \in 0..n : i \in T
    BY <1>1, <1>2, TurnByTurn, Zenon
  <2> QED
    BY <2>1
<1>4. \E x \in t : \A y \in t : x >= y
  BY <1>3 DEF T
<1>5. Max(t) \in t /\ \A y \in t : Max(t) >= y
  BY <1>4, Zenon DEF Max
<1> QED
  BY <1>5

\* g holds what a loop over s has computed after each set of its turns, when a
\* turn makes F[<<a, s[i]>>] of a.
Looped(g, F, b, n, s) ==
  \A t \in SUBSET (1..n) :
    g[t] = IF t = {} THEN b ELSE F[<<g[t \ {Max(t)}], s[Max(t)]>>]

\* Every loop has such results.
LEMMA LoopExists ==
  ASSUME NEW A, NEW D, NEW F \in [A \X D -> A], NEW b \in A, NEW n \in Nat, NEW s \in [1..n -> D]
  PROVE  \E g \in [SUBSET (1..n) -> A] : Looped(g, F, b, n, s)
<1> DEFINE Is(g, k) == \A t \in SUBSET (1..k) :
                         g[t] = IF t = {} THEN b ELSE F[<<g[t \ {Max(t)}], s[Max(t)]>>]
           T == {k \in Nat : \E g \in [SUBSET (1..k) -> A] : Is(g, k)}
<1>1. 0 \in T
  <2>1. SUBSET (1..0) = {{}}
    OBVIOUS
  <2>2. [t \in SUBSET (1..0) |-> b] \in [SUBSET (1..0) -> A]
    OBVIOUS
  <2>3. Is([t \in SUBSET (1..0) |-> b], 0)
    BY <2>1
  <2> QED
    BY <2>2, <2>3
<1>2. ASSUME NEW k \in 0..(n - 1), k \in T PROVE k + 1 \in T
  <2>1. PICK g \in [SUBSET (1..k) -> A] : Is(g, k)
    BY <1>2
  <2> DEFINE h == [t \in SUBSET (1..(k + 1)) |->
                     IF k + 1 \in t THEN F[<<g[t \ {k + 1}], s[k + 1]>>] ELSE g[t]]
  <2>2. \A t \in SUBSET (1..(k + 1)) :
          /\ k + 1 \in t => t \ {k + 1} \in SUBSET (1..k) /\ Max(t) = k + 1
          /\ k + 1 \notin t => t \in SUBSET (1..k)
    <3> SUFFICES ASSUME NEW t \in SUBSET (1..(k + 1))
                 PROVE  /\ k + 1 \in t => t \ {k + 1} \in SUBSET (1..k) /\ Max(t) = k + 1
                        /\ k + 1 \notin t => t \in SUBSET (1..k)
      OBVIOUS
    <3>1. ASSUME k + 1 \in t PROVE Max(t) = k + 1
      <4>1. k + 1 \in Nat /\ t # {}
        BY <3>1
      <4>2. Max(t) \in t /\ \A y \in t : y <= Max(t)
        BY <4>1, MaxOf, Zenon
      <4>3. Max(t) \in 1..(k + 1) /\ k + 1 <= Max(t)
        BY <3>1, <4>2
      <4> QED
        BY <4>3
    <3>2. ASSUME k + 1 \in t PROVE t \ {k + 1} \in SUBSET (1..k)
      <4>1. ASSUME NEW y \in t \ {k + 1} PROVE y \in 1..k
        OBVIOUS
      <4> QED
        BY <4>1
    <3>3. ASSUME k + 1 \notin t PROVE t \in SUBSET (1..k)
      <4>1. ASSUME NEW y \in t PROVE y \in 1..k
        BY <3>3
      <4> QED
        BY <4>1
    <3> QED
      BY <3>1, <3>2, <3>3, Zenon
  <2>3. h \in [SUBSET (1..(k + 1)) -> A]
    BY <2>2
  <2>4. ASSUME NEW t \in SUBSET (1..(k + 1))
        PROVE  h[t] = IF t = {} THEN b ELSE F[<<h[t \ {Max(t)}], s[Max(t)]>>]
    <3>1. CASE k + 1 \in t
      <4>1. h[t] = F[<<g[t \ {k + 1}], s[k + 1]>>] /\ Max(t) = k + 1 /\ t \ {k + 1} \in SUBSET (1..k)
        BY <2>2, <3>1
      <4>2. t \ {k + 1} \in SUBSET (1..(k + 1)) /\ k + 1 \notin t \ {k + 1}
        OBVIOUS
      <4>3. h[t \ {k + 1}] = g[t \ {k + 1}]
        BY <4>2
      <4> QED
        BY <3>1, <4>1, <4>3
    <3>2. CASE k + 1 \notin t
      <4>1. t \in SUBSET (1..k) /\ h[t] = g[t]
        BY <2>2, <3>2
      <4>2. h[t \ {Max(t)}] = g[t \ {Max(t)}]
        BY <3>2
      <4> QED
        BY <2>1, <4>1, <4>2
    <3> QED
      BY <3>1, <3>2
  <2> HIDE DEF h
  <2>5. Is(h, k + 1)
    BY <2>4, Zenon
  <2> HIDE DEF Is
  <2> QED
    BY <2>3, <2>5
<1> HIDE DEF T
<1>3. n \in T
  <2>1. \A i \in 0..n : i \in T
    BY <1>1, <1>2, TurnByTurn, Zenon
  <2> QED
    BY <2>1
<1>4. \E g \in [SUBSET (1..n) -> A] : Is(g, n)
  BY <1>3, Zenon DEF T
<1> QED
  BY <1>4, Zenon DEF Looped

\* Its turns, in order, when a function on the sets of turns describes it.
LEMMA InOrder ==
  ASSUME NEW n \in Nat, NEW i \in 1..n
  PROVE  /\ 1..i \in SUBSET (1..n) /\ 1..i # {} /\ Max(1..i) = i
         /\ (1..i) \ {Max(1..i)} = 1..(i - 1)
<1>1. 1..i \in SUBSET (1..n) /\ 1..i # {} /\ i \in 1..i
  OBVIOUS
<1>2. Max(1..i) \in 1..i /\ i <= Max(1..i)
  BY <1>1, MaxOf
<1>3. Max(1..i) = i
  BY <1>2
<1>4. (1..i) \ {i} = 1..(i - 1)
  OBVIOUS
<1> QED
  BY <1>1, <1>3, <1>4

----------------------------------------------------------------------------
(* Sums over a finite set.                                                 *)

\* The element a sum adds next.
Pick(t) == CHOOSE x \in t : TRUE

LEMMA Picked ==
  ASSUME NEW S, IsFiniteSet(S), NEW t \in SUBSET S, t # {}
  PROVE  /\ Pick(t) \in t /\ t \ {Pick(t)} \in SUBSET S
         /\ IsFiniteSet(t) /\ Cardinality(t) \in Nat /\ Cardinality(t \ {Pick(t)}) = Cardinality(t) - 1
<1>1. \E x : x \in t
  OBVIOUS
<1>2. Pick(t) \in t
  BY <1>1, Zenon DEF Pick
<1>3. IsFiniteSet(t)
  BY FS_Subset
<1>4. Cardinality(t) \in Nat
  BY <1>3, FS_CardinalityType, Zenon
<1>5. Cardinality(t \ {Pick(t)}) = IF Pick(t) \in t THEN Cardinality(t) - 1 ELSE Cardinality(t)
  BY <1>3, FS_RemoveElement, Zenon
<1> QED
  BY <1>2, <1>3, <1>4, <1>5

\* Induction over the subsets of S.
LEMMA PickByPick ==
  ASSUME NEW S, IsFiniteSet(S), NEW T, {} \in T,
         \A t \in SUBSET S : t # {} /\ t \ {Pick(t)} \in T => t \in T
  PROVE  \A t \in SUBSET S : t \in T
<1> DEFINE n == Cardinality(S)
           K == {k \in Nat : \A t \in SUBSET S : Cardinality(t) <= k => t \in T}
<1>1. n \in Nat
  BY FS_CardinalityType, Zenon
<1>2. \A t \in SUBSET S : IsFiniteSet(t) /\ Cardinality(t) \in Nat /\ Cardinality(t) <= n
  <2> SUFFICES ASSUME NEW t \in SUBSET S
               PROVE  IsFiniteSet(t) /\ Cardinality(t) \in Nat /\ Cardinality(t) <= n
    OBVIOUS
  <2>1. IsFiniteSet(t) /\ Cardinality(t) <= n
    BY FS_Subset
  <2>2. Cardinality(t) \in Nat
    BY <2>1, FS_CardinalityType, Zenon
  <2> QED
    BY <2>1, <2>2
<1>3. 0 \in K
  <2>1. ASSUME NEW t \in SUBSET S, Cardinality(t) <= 0 PROVE t \in T
    <3>1. Cardinality(t) = 0 /\ IsFiniteSet(t)
      BY <1>2, <2>1
    <3>2. t = {}
      BY <3>1, FS_EmptySet
    <3> QED
      BY <3>2
  <2> QED
    BY <2>1
<1>4. ASSUME NEW k \in 0..(n - 1), k \in K PROVE k + 1 \in K
  <2>1. ASSUME NEW t \in SUBSET S, Cardinality(t) <= k + 1 PROVE t \in T
    <3>1. CASE t = {}
      BY <3>1
    <3>2. CASE t # {}
      <4>1. /\ Pick(t) \in t /\ t \ {Pick(t)} \in SUBSET S
            /\ Cardinality(t) \in Nat /\ Cardinality(t \ {Pick(t)}) = Cardinality(t) - 1
        BY <3>2, Picked
      <4>2. Cardinality(t \ {Pick(t)}) <= k
        BY <2>1, <4>1
      <4>3. t \ {Pick(t)} \in T
        BY <1>4, <4>1, <4>2
      <4> QED
        BY <3>2, <4>3
    <3> QED
      BY <3>1, <3>2
  <2> QED
    BY <2>1
<1> HIDE DEF K
<1>5. \A k \in 0..n : k \in K
  BY <1>1, <1>3, <1>4, TurnByTurn, Zenon
<1>6. n \in K
  BY <1>1, <1>5
<1> QED
  BY <1>2, <1>6 DEF K

\* g[t] is the sum of f over t, for every set t of S.
Sums(g, f, S) ==
  \A t \in SUBSET S : g[t] = IF t = {} THEN 0 ELSE f[Pick(t)] + g[t \ {Pick(t)}]

LEMMA SumsExist ==
  ASSUME NEW S, IsFiniteSet(S), NEW f \in [S -> Int]
  PROVE  \E g \in [SUBSET S -> Int] : Sums(g, f, S)
<1> DEFINE n == Cardinality(S)
           Upto(g, k) == \A t \in SUBSET S : Cardinality(t) <= k =>
                           g[t] = IF t = {} THEN 0 ELSE f[Pick(t)] + g[t \ {Pick(t)}]
           K == {k \in Nat : \E g \in [SUBSET S -> Int] : Upto(g, k)}
<1>1. n \in Nat
  BY FS_CardinalityType, Zenon
<1>2. \A t \in SUBSET S : IsFiniteSet(t) /\ Cardinality(t) \in Nat /\ Cardinality(t) <= n
  <2> SUFFICES ASSUME NEW t \in SUBSET S
               PROVE  IsFiniteSet(t) /\ Cardinality(t) \in Nat /\ Cardinality(t) <= n
    OBVIOUS
  <2>1. IsFiniteSet(t) /\ Cardinality(t) <= n
    BY FS_Subset
  <2>2. Cardinality(t) \in Nat
    BY <2>1, FS_CardinalityType, Zenon
  <2> QED
    BY <2>1, <2>2
<1>3. 0 \in K
  <2> DEFINE g == [t \in SUBSET S |-> 0]
  <2>1. g \in [SUBSET S -> Int]
    OBVIOUS
  <2>2. ASSUME NEW t \in SUBSET S, Cardinality(t) <= 0
        PROVE  g[t] = IF t = {} THEN 0 ELSE f[Pick(t)] + g[t \ {Pick(t)}]
    <3>1. Cardinality(t) = 0 /\ IsFiniteSet(t)
      BY <1>2, <2>2
    <3>2. t = {}
      BY <3>1, FS_EmptySet
    <3> QED
      BY <3>2
  <2> HIDE DEF g
  <2>3. Upto(g, 0)
    BY <2>2, Zenon
  <2> HIDE DEF Upto
  <2> QED
    BY <2>1, <2>3
<1>4. ASSUME NEW k \in 0..(n - 1), k \in K PROVE k + 1 \in K
  <2>1. PICK g \in [SUBSET S -> Int] : Upto(g, k)
    BY <1>4
  <2> DEFINE h == [t \in SUBSET S |-> IF t = {} THEN 0 ELSE f[Pick(t)] + g[t \ {Pick(t)}]]
  <2>2. ASSUME NEW t \in SUBSET S, t # {}
        PROVE  /\ Pick(t) \in S /\ t \ {Pick(t)} \in SUBSET S
               /\ Cardinality(t) \in Nat /\ Cardinality(t \ {Pick(t)}) = Cardinality(t) - 1
    BY <2>2, Picked
  <2>3. h \in [SUBSET S -> Int]
    <3>1. ASSUME NEW t \in SUBSET S, t # {} PROVE f[Pick(t)] + g[t \ {Pick(t)}] \in Int
      BY <2>2, <3>1
    <3> QED
      BY <3>1
  <2>4. ASSUME NEW t \in SUBSET S, Cardinality(t) <= k + 1
        PROVE  h[t] = IF t = {} THEN 0 ELSE f[Pick(t)] + h[t \ {Pick(t)}]
    <3>1. CASE t = {}
      BY <3>1
    <3>2. CASE t # {}
      <4> DEFINE u == t \ {Pick(t)}
      <4>1. u \in SUBSET S /\ Cardinality(u) <= k
        BY <2>2, <2>4, <3>2
      <4>2. h[t] = f[Pick(t)] + g[u]
        BY <3>2
      <4> HIDE DEF u
      <4>3. h[u] = IF u = {} THEN 0 ELSE f[Pick(u)] + g[u \ {Pick(u)}]
        BY <4>1
      <4>4. g[u] = IF u = {} THEN 0 ELSE f[Pick(u)] + g[u \ {Pick(u)}]
        BY <2>1, <4>1, Zenon
      <4>5. h[u] = g[u]
        BY <4>3, <4>4
      <4> HIDE DEF h
      <4> QED
        BY <3>2, <4>2, <4>5 DEF u
    <3> QED
      BY <3>1, <3>2
  <2> HIDE DEF h
  <2>5. Upto(h, k + 1)
    BY <2>4, Zenon
  <2> HIDE DEF Upto
  <2> QED
    BY <2>3, <2>5
<1> HIDE DEF K
<1>5. \A k \in 0..n : k \in K
  BY <1>1, <1>3, <1>4, TurnByTurn, Zenon
<1>6. n \in K
  BY <1>1, <1>5
<1>7. PICK g \in [SUBSET S -> Int] : Upto(g, n)
  BY <1>6, Zenon DEF K
<1>8. Sums(g, f, S)
  BY <1>2, <1>7, Zenon DEF Sums
<1> QED
  BY <1>8

LEMMA SumsAreIntegers ==
  ASSUME NEW S, IsFiniteSet(S), NEW f \in [S -> Int], NEW g, Sums(g, f, S)
  PROVE  \A t \in SUBSET S : g[t] \in Int
<1> DEFINE T == {t \in SUBSET S : g[t] \in Int}
<1>1. {} \in T
  <2>1. {} \in SUBSET S
    OBVIOUS
  <2>2. g[{}] = 0
    BY <2>1, Zenon DEF Sums
  <2> QED
    BY <2>1, <2>2
<1>2. ASSUME NEW t \in SUBSET S, t # {}, t \ {Pick(t)} \in T PROVE t \in T
  <2>1. Pick(t) \in S
    BY <1>2, Picked
  <2>2. g[t] = f[Pick(t)] + g[t \ {Pick(t)}]
    BY <1>2 DEF Sums
  <2> QED
    BY <1>2, <2>1, <2>2
<1> HIDE DEF T
<1>3. \A t \in SUBSET S : t \in T
  BY <1>1, <1>2, PickByPick, Zenon
<1> QED
  BY <1>3 DEF T

\* A sum of zeros and ones, a one for each member of M, counts the members of M.
CountsUp(g, M, S) ==
  /\ g[{}] = 0
  /\ \A t \in SUBSET S : t # {} => g[t] = (IF Pick(t) \in M THEN 1 ELSE 0) + g[t \ {Pick(t)}]

LEMMA CountedUp ==
  ASSUME NEW S, IsFiniteSet(S), NEW M \in SUBSET S, NEW g, CountsUp(g, M, S)
  PROVE  g[S] = Cardinality(M)
<1> DEFINE T == {t \in SUBSET S : g[t] = Cardinality(t \cap M)}
<1>4. g[{}] = 0
  BY Zenon DEF CountsUp
<1>1. {} \in T
  <2>1. {} \cap M = {} /\ Cardinality({}) = 0
    BY FS_EmptySet
  <2> QED
    BY <1>4, <2>1
<1>2. ASSUME NEW t \in SUBSET S, t # {}, t \ {Pick(t)} \in T PROVE t \in T
  <2> DEFINE p == Pick(t)
             u == t \ {p}
             m == u \cap M
  <2>1. p \in t /\ g[u] = Cardinality(m)
    BY <1>2, Picked
  <2>2. g[t] = (IF p \in M THEN 1 ELSE 0) + g[u]
    BY <1>2 DEF CountsUp
  <2>3. IsFiniteSet(m) /\ p \notin m
    BY FS_Subset
  <2>4. Cardinality(m) \in Nat
    BY <2>3, FS_CardinalityType, Zenon
  <2>5. CASE p \in M
    <3>1. t \cap M = m \cup {p}
      BY <2>1, <2>5
    <3> HIDE DEF m, p
    <3>2. Cardinality(m \cup {p}) = IF p \in m THEN Cardinality(m) ELSE Cardinality(m) + 1
      BY <2>3, FS_AddElement, Zenon
    <3>3. g[t] = 1 + Cardinality(m)
      BY <2>1, <2>2, <2>5
    <3>4. Cardinality(m \cup {p}) = 1 + Cardinality(m)
      BY <2>3, <2>4, <3>2
    <3>5. g[t] = Cardinality(t \cap M)
      BY <3>1, <3>3, <3>4
    <3> QED
      BY <3>5
  <2>6. CASE p \notin M
    <3>1. t \cap M = m
      BY <2>6
    <3>2. g[t] = g[u]
      BY <2>1, <2>2, <2>4, <2>6
    <3> QED
      BY <2>1, <3>1, <3>2
  <2> QED
    BY <2>5, <2>6
<1> HIDE DEF T
<1>3. \A t \in SUBSET S : t \in T
  BY <1>1, <1>2, PickByPick, Zenon
<1> QED
  <2>1. S \in T
    BY <1>3
  <2>2. S \cap M = M
    OBVIOUS
  <2> QED
    BY <2>1, <2>2 DEF T
=============================================================================
