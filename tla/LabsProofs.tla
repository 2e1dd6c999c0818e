----------------------------- MODULE LabsProofs -----------------------------
(***************************************************************************)
(* Theorems about the experiments, for every number of runs, of failing    *)
(* calls, kills and events.  Each speaks of one experiment, which is the   *)
(* same from the first state on, and rests on an invariant that says what  *)
(* the script and its cluster know at each step of its program.            *)
(***************************************************************************)
EXTENDS Labs, TLAPS

----------------------------------------------------------------------------
(* The size of the image that the image lifecycle experiment builds.       *)

(* Dividing by a positive number leaves a remainder between it and zero.   *)
LEMMA Division ==
  ASSUME NEW x \in Nat, NEW d \in Nat \ {0}
  PROVE  x \div d \in Nat /\ (x \div d) * d <= x /\ x < (x \div d) * d + d
  OBVIOUS

(* RoundSize (run.py:166) gives a multiple of 64 MiB, which falls short of *)
(* the size by less than one MiB and exceeds it by less than 64 MiB.       *)
LEMMA RoundBounds ==
  ASSUME NEW size \in Nat
  PROVE  RoundSize(size) \in Nat /\ size - MiB < RoundSize(size) /\ RoundSize(size) <= size + 63 * MiB
<1>1. Grain \in Nat \ {0}
  BY SizeAssumption DEF Grain
<1>2. size + 63 * MiB \in Nat
  BY SizeAssumption
<1> DEFINE q == (size + 63 * MiB) \div Grain
<1>3. q \in Nat /\ q * Grain <= size + 63 * MiB /\ size + 63 * MiB < q * Grain + Grain
  BY <1>1, <1>2, Division
<1>4. RoundSize(size) = q * Grain
  BY DEF RoundSize
<1> HIDE DEF q
<1>5. q * Grain \in Nat
  BY <1>1, <1>3
<1>6. Grain = 64 * MiB
  BY DEF Grain
<1> QED
  BY <1>3, <1>4, <1>5, <1>6, SizeAssumption

(* Whatever the capacity and the usage of the image file system, the image *)
(* the script builds lifts it more than 255 MiB over one percent of the    *)
(* capacity, and is never smaller than 511 MiB: rounding cannot undo the   *)
(* margin of 256 MiB (run.py:165-166).                                     *)
THEOREM RequiredSuffices ==
  ASSUME NEW capacity \in Nat, NEW used \in Nat
  PROVE  /\ used + RequiredSize(capacity, used) > capacity \div 100 + 255 * MiB
         /\ RequiredSize(capacity, used) > 511 * MiB
<1> DEFINE want == WantedSize(capacity, used)
<1>1. capacity \div 100 \in Nat
  OBVIOUS
<1>2. /\ want \in Nat
      /\ want >= 512 * MiB
      /\ want >= capacity \div 100 - used + 256 * MiB
  BY <1>1, SizeAssumption DEF WantedSize, Larger
<1>3. RoundSize(want) \in Nat /\ want - MiB < RoundSize(want)
  BY <1>2, RoundBounds
<1>4. RequiredSize(capacity, used) = RoundSize(want)
  BY DEF RequiredSize
<1> HIDE DEF want
<1> QED
  BY <1>1, <1>2, <1>3, <1>4, SizeAssumption

----------------------------------------------------------------------------
(* Programs.                                                               *)

\* Step r, with an exception going on n steps ahead.
Open(r, n) == [r EXCEPT !.esc = n, !.part = IF @ = "open" THEN "open" ELSE @]

\* A call outside of any try block raises to the last step, which is the exit.
LEMMA MainAt ==
  ASSUME NEW S, NEW body \in Seq(S)
  PROVE  /\ \A k \in 1..Len(body) : body[k].esc = 0 =>
              Main(body)[k] = Open(body[k], Len(body) + 1 - k)
         /\ Main(body)[Len(body) + 1].op = "exit"
<1> DEFINE n == Len(body)
           g == Guarded(body, "open")
           At(k) == Open(body[k], n + 1 - k)
<1>1. DOMAIN body = 1..n /\ n \in Nat
  OBVIOUS
<1>2. \A k \in 1..n : body[k].esc = 0 => g[k] = At(k)
  BY <1>1, Zenon DEF Guarded, Open
<1>3. g \in Seq({g[i] : i \in 1..n}) /\ Len(g) = n
  <2>1. g = [i \in DOMAIN body |-> g[i]]
    BY Zenon DEF Guarded
  <2> HIDE DEF g
  <2>2. g \in [1..n -> {g[i] : i \in 1..n}]
    BY <1>1, <2>1
  <2> HIDE DEF n
  <2> QED
    BY <1>1, <2>2
<1> HIDE DEF g, n, At
<1>4. Main(body) = g \o <<Bare("exit")>>
  BY Zenon DEF Main, g
<1>5. \A i \in 1..n : (g \o <<Bare("exit")>>)[i] = g[i]
  BY <1>1, <1>3
<1>6. (g \o <<Bare("exit")>>)[n + 1] = Bare("exit")
  BY <1>1, <1>3
<1>7. Bare("exit").op = "exit"
  BY DEF Bare
<1>8. \A k \in 1..n : body[k].esc = 0 => Main(body)[k] = At(k)
  BY <1>2, <1>4, <1>5
<1>9. Main(body)[n + 1].op = "exit"
  BY <1>4, <1>6, <1>7
<1> QED
  BY <1>8, <1>9, Zenon DEF n, At

LEMMA MainStep ==
  ASSUME NEW S, NEW body \in Seq(S)
  PROVE  /\ \A k \in 1..Len(body) : \A op : body[k] = Bare(op) =>
              Main(body)[k].op = op /\ Main(body)[k].esc = Len(body) + 1 - k
         /\ Main(body)[Len(body) + 1].op = "exit"
<1>1. ASSUME NEW k \in 1..Len(body), NEW op, body[k] = Bare(op)
      PROVE  Main(body)[k].op = op /\ Main(body)[k].esc = Len(body) + 1 - k
  <2> DEFINE n == Len(body) + 1 - k
             r == Main(body)[k]
  <2>1. body[k].esc = 0
    BY <1>1 DEF Bare
  <2>2. r = Open(body[k], n)
    BY <2>1, MainAt, Zenon
  <2> HIDE DEF n, r
  <2>3. r = Open(Bare(op), n)
    BY <1>1, <2>2, Zenon
  <2>4. r.op = op /\ r.esc = n
    BY <2>3 DEF Bare, Open
  <2> QED
    BY <2>4, Zenon DEF n, r
<1> QED
  BY <1>1, MainAt, Zenon

----------------------------------------------------------------------------
(* What the steps of a script do to its state, whatever the call is.       *)

\* The record of a run, with memories in M.
Locs(M) == [run : Nat, clean : BOOLEAN, verdict : {"none", "PASS", "FAIL"}, mem : M]

LEMMA SetMem ==
  ASSUME NEW M, loc \in Locs(M), NEW m \in M, Set(m)
  PROVE  loc' \in Locs(M) /\ loc'.mem = m /\ loc'.run = loc.run
<1>1. (loc.clean /\ blame' = blame) \in BOOLEAN
  BY Zenon
<1>2. PICK c \in BOOLEAN : loc' = [loc EXCEPT !.clean = c, !.mem = m]
  BY <1>1, Zenon DEF Set
<1> QED
  BY <1>2 DEF Locs

LEMMA NoteMem ==
  ASSUME NEW M, loc \in Locs(M), Note
  PROVE  loc' \in Locs(M) /\ loc'.mem = loc.mem /\ loc'.run = loc.run
<1>1. loc.mem \in M
  BY DEF Locs
<1> QED
  BY <1>1, SetMem DEF Note

\* A run begins, ends or is killed: the world and the memory stay.
LEMMA RunKeeps ==
  ASSUME NEW M, loc \in Locs(M), NEW s, StartRun \/ EndRun(s) \/ KillRun
  PROVE  /\ loc' \in Locs(M) /\ loc'.mem = loc.mem /\ w' = w
         /\ pc' = 0 \/ (pc' = 1 /\ loc'.run > 0)
<1>1. CASE StartRun
  <2>1. w' = w /\ pc' = 1
    BY <1>1, Zenon DEF StartRun, Begin
  <2>2. loc.run + 1 \in Nat /\ loc.run + 1 > 0
    BY DEF Locs
  <2>3. PICK n : n \in Nat /\ n > 0 /\ loc' = [loc EXCEPT !.run = n, !.clean = TRUE, !.verdict = "none"]
    BY <1>1, <2>2, Zenon DEF StartRun
  <2>4. loc' \in Locs(M) /\ loc'.mem = loc.mem /\ loc'.run = n
    BY <2>3 DEF Locs
  <2> QED
    BY <2>1, <2>3, <2>4
<1>2. CASE EndRun(s)
  <2>1. w' = w /\ pc' = 0
    BY <1>2, Zenon DEF EndRun, Leave
  <2>2. \E v \in {"FAIL", "PASS"} : loc' = [loc EXCEPT !.verdict = v]
    BY <1>2, Zenon DEF EndRun
  <2> QED
    BY <2>1, <2>2 DEF Locs
<1>3. CASE KillRun
  BY <1>3, Zenon DEF KillRun, Die, Leave
<1> QED
  BY <1>1, <1>2, <1>3

\* How a call comes out.
LEMMA CallOutcome ==
  ASSUME NEW s, NEW new, Call(s, new)
  PROVE  (pc' = pc + 1 /\ w' = new) \/ (pc' = pc + s.esc /\ (w' = w \/ w' = new))
BY Zenon DEF Call, Return, Raise

\* A wait and a check leave the world alone.
LEMMA LookOutcome ==
  ASSUME NEW s, NEW c, NEW h, Await(s, c, h) \/ Require(s, c) \/ Fail(s)
  PROVE  w' = w /\ (pc' = pc + 1 \/ pc' = pc + s.esc)
BY Zenon DEF Await, Require, Fail, Call, Return, Raise

\* What has failed is never forgotten.
LEMMA BlameGrows ==
  ASSUME NEW s, NEW new, NEW c, NEW h,
         \/ Call(s, new) \/ Await(s, c, h) \/ Require(s, c) \/ Fail(s)
         \/ StartRun \/ EndRun(s) \/ KillRun
  PROVE  blame \subseteq blame'
BY Zenon DEF Call, Await, Require, Fail, StartRun, EndRun, KillRun, Die, Faults, Fault

----------------------------------------------------------------------------
(* deep-dive-reconcile/run.py.                                             *)

\* The program: its calls in order, each of which raises to the last step.
LEMMA ReconcileSteps ==
  /\ \A k \in 1..17 : ReconcileProgram[k].esc = 18 - k
  /\ ReconcileProgram[1].op = "lab" /\ ReconcileProgram[2].op = "apply_desired"
  /\ ReconcileProgram[3].op = "get_cached" /\ ReconcileProgram[4].op = "patch_two"
  /\ ReconcileProgram[5].op = "replace_stale"
  /\ \A k \in {6, 9, 13} :
       /\ ReconcileProgram[k].op = "get_desired" /\ ReconcileProgram[k + 1].op = "create_effect"
       /\ ReconcileProgram[k + 2].op = "patch_effect"
  /\ \A k \in {12, 16} : ReconcileProgram[k].op = "ack"
  /\ ReconcileProgram[17].op = "one_effect" /\ ReconcileProgram[18].op = "exit"
<1> DEFINE S == {Bare("lab"), Bare("apply_desired"), Bare("get_cached"), Bare("patch_two"),
                 Bare("replace_stale"), Bare("get_desired"), Bare("create_effect"),
                 Bare("patch_effect"), Bare("ack"), Bare("one_effect")}
           body == <<Bare("lab"), Bare("apply_desired"), Bare("get_cached"), Bare("patch_two"),
                     Bare("replace_stale")>>
                   \o reconcile(TRUE) \o reconcile(FALSE) \o reconcile(FALSE) \o <<Bare("one_effect")>>
<1>1. body \in Seq(S) /\ Len(body) = 17
  BY DEF reconcile
<1>2. /\ body[1] = Bare("lab") /\ body[2] = Bare("apply_desired") /\ body[3] = Bare("get_cached")
      /\ body[4] = Bare("patch_two") /\ body[5] = Bare("replace_stale")
      /\ body[6] = Bare("get_desired") /\ body[7] = Bare("create_effect") /\ body[8] = Bare("patch_effect")
      /\ body[9] = Bare("get_desired") /\ body[10] = Bare("create_effect") /\ body[11] = Bare("patch_effect")
      /\ body[12] = Bare("ack") /\ body[13] = Bare("get_desired") /\ body[14] = Bare("create_effect")
      /\ body[15] = Bare("patch_effect") /\ body[16] = Bare("ack") /\ body[17] = Bare("one_effect")
  BY DEF reconcile
<1>3. ReconcileProgram = Main(body)
  BY Zenon DEF ReconcileProgram
<1> HIDE DEF S, body
<1>4. /\ \A k \in 1..17 : \A op : body[k] = Bare(op) =>
            ReconcileProgram[k].op = op /\ ReconcileProgram[k].esc = 18 - k
      /\ ReconcileProgram[18].op = "exit"
  <2>1. /\ \A k \in 1..Len(body) : \A op : body[k] = Bare(op) =>
              Main(body)[k].op = op /\ Main(body)[k].esc = Len(body) + 1 - k
        /\ Main(body)[Len(body) + 1].op = "exit"
    BY <1>1, MainStep, Zenon
  <2>2. /\ \A k \in 1..17 : \A op : body[k] = Bare(op) =>
              ReconcileProgram[k].op = op /\ ReconcileProgram[k].esc = 17 + 1 - k
        /\ ReconcileProgram[17 + 1].op = "exit"
    BY <1>1, <1>3, <2>1, Zenon
  <2> QED
    BY <2>2
<1>5. \A k \in 1..17 : \E op : body[k] = Bare(op)
  BY <1>2
<1> QED
  BY <1>2, <1>4, <1>5

LEMMA ReconcileAt ==
  ASSUME NEW k \in 1..18
  PROVE  LET op == ReconcileProgram[k].op IN
         /\ op = "lab" => k = 1
         /\ op = "apply_desired" => k = 2
         /\ op = "get_cached" => k = 3
         /\ op = "patch_two" => k = 4
         /\ op = "replace_stale" => k = 5
         /\ op = "get_desired" => k \in {6, 9, 13}
         /\ op = "create_effect" => k \in {7, 10, 14}
         /\ op = "patch_effect" => k \in {8, 11, 15}
         /\ op = "ack" => k \in {12, 16}
         /\ op = "one_effect" => k = 17
         /\ op = "exit" => k = 18
         /\ k < 18 => k + ReconcileProgram[k].esc = 18
BY ReconcileSteps

Values == {"none", "one", "two", "edited", "stale-write"}
Objects == [uid : Nat, rv : Nat, value : Values, observed : Values]
EffectMaps == [uid : Nat, value : Values]
Stores == [desired : Objects, effects : SUBSET EffectMaps, uids : Nat]
Memories == [cached : Objects, desired : Objects, created : BOOLEAN, was : SUBSET EffectMaps]

EffectOf(m) == [uid |-> m.desired.uid, value |-> m.desired.value]

\* At every step: one effect at most, of the desired object, and remembered; an
\* acknowledged value was that of an effect.
Sound(x, m) ==
  /\ x.effects \subseteq m.was
  /\ \A e \in x.effects : x.effects = {e} /\ e.uid = x.desired.uid
  /\ x.desired.observed # "none" =>
       x.effects # {} /\ [uid |-> x.desired.uid, value |-> x.desired.observed] \in m.was

\* Before the desired object is applied there is no effect; before the first
\* reconcile nothing is acknowledged, in the cached copy neither; reconcile
\* works on the object that is there, and before the acknowledgement the
\* effect has had the value that was read.
Learned(k, x, m) ==
  /\ k = 2 => x.effects = {} /\ x.desired = NoDesired
  /\ k \in {3, 4, 5} => x.desired.observed = "none"
  /\ k \in {4, 5} => m.cached.uid = x.desired.uid /\ m.cached.observed = "none"
  /\ k \in {7, 8, 10, 11, 12, 14, 15, 16} => m.desired.uid = x.desired.uid
  /\ k \in {8, 11, 15} => x.effects # {} /\ (m.created => EffectOf(m) \in m.was)
  /\ k \in {12, 16} => x.effects # {} /\ EffectOf(m) \in m.was

ReconcileInv ==
  /\ pc \in 0..18 /\ w \in Stores /\ loc \in Locs(Memories)
  /\ Sound(w, loc.mem) /\ Learned(pc, w, loc.mem)

\* A call moves on with its effect, or to the exit with or without it.
LEMMA ReconcileCall ==
  ASSUME ReconcileInv, pc \in 1..17, NEW s, s = ReconcileProgram[pc], NEW new, Call(s, new),
         loc' \in Locs(Memories), new \in Stores,
         Sound(w, loc'.mem), Sound(new, loc'.mem), Learned(pc + 1, new, loc'.mem)
  PROVE  ReconcileInv'
<1>1. pc + s.esc = 18 /\ pc + 1 \in 0..18
  BY ReconcileAt
<1>2. \A x : Learned(18, x, loc'.mem)
  BY DEF Learned
<1>3. CASE pc' = pc + 1 /\ w' = new
  BY <1>1, <1>3 DEF ReconcileInv
<1>4. CASE pc' = 18 /\ (w' = w \/ w' = new)
  BY <1>2, <1>4 DEF ReconcileInv
<1> QED
  BY <1>1, <1>3, <1>4, CallOutcome

\* A write of the value keeps the UID and the acknowledgement.
ValueWritten(o, v, n) == [[o EXCEPT !.value = v] EXCEPT !.rv = n]

LEMMA ValueIsWritten ==
  ASSUME NEW o \in Objects, NEW v \in Values, NEW n \in Nat
  PROVE  /\ ValueWritten(o, v, n) \in Objects /\ ValueWritten(o, v, n).uid = o.uid
         /\ ValueWritten(o, v, n).observed = o.observed
<1> DEFINE p == [o EXCEPT !.value = v]
<1>1. p \in Objects /\ p.uid = o.uid /\ p.observed = o.observed
  BY DEF Objects
<1> HIDE DEF p
<1>2. /\ [p EXCEPT !.rv = n] \in Objects /\ [p EXCEPT !.rv = n].uid = p.uid
      /\ [p EXCEPT !.rv = n].observed = p.observed
  BY <1>1 DEF Objects
<1>3. ValueWritten(o, v, n) = [p EXCEPT !.rv = n]
  BY Zenon DEF ValueWritten, p
<1> QED
  BY <1>1, <1>2, <1>3

\* An acknowledgement keeps the UID.
Acknowledged(o, v, n) == [[o EXCEPT !.observed = v] EXCEPT !.rv = n]

LEMMA AckIsWritten ==
  ASSUME NEW o \in Objects, NEW v \in Values, NEW n \in Nat
  PROVE  /\ Acknowledged(o, v, n) \in Objects /\ Acknowledged(o, v, n).uid = o.uid
         /\ Acknowledged(o, v, n).observed = v
<1> DEFINE p == [o EXCEPT !.observed = v]
<1>1. p \in Objects /\ p.uid = o.uid /\ p.observed = v
  BY DEF Objects
<1> HIDE DEF p
<1>2. /\ [p EXCEPT !.rv = n] \in Objects /\ [p EXCEPT !.rv = n].uid = p.uid
      /\ [p EXCEPT !.rv = n].observed = p.observed
  BY <1>1 DEF Objects
<1>3. Acknowledged(o, v, n) = [p EXCEPT !.rv = n]
  BY Zenon DEF Acknowledged, p
<1> QED
  BY <1>1, <1>2, <1>3

\* The steps before the first reconcile.
LEMMA PreparationKnows ==
  ASSUME ReconcileInv, pc \in 1..18, NEW s, s = ReconcileProgram[pc],
         ReconcileLab(s) \/ ApplyDesired(s) \/ GetCached(s) \/ PatchTwo(s) \/ ReplaceStale(s)
  PROVE  ReconcileInv'
<1>1. w \in Stores /\ loc \in Locs(Memories) /\ loc.mem \in Memories /\ w.desired \in Objects /\ w.uids \in Nat
  BY DEF ReconcileInv, Locs, Stores
<1>2. CASE ReconcileLab(s)
  <2> DEFINE new == [Store EXCEPT !.uids = w.uids]
             m == [ReconcileMem EXCEPT !.was = loc.mem.was]
  <2>1. pc = 1 /\ Call(s, new) /\ Set(m)
    BY <1>2, ReconcileAt DEF ReconcileLab
  <2>2. m \in Memories /\ m.was = loc.mem.was
    BY <1>1 DEF ReconcileMem, Memories, Objects, NoDesired, Values
  <2>3. new \in Stores /\ new.effects = {} /\ new.desired = NoDesired
    BY <1>1 DEF Store, Stores, Objects, NoDesired, Values
  <2> HIDE DEF new, m
  <2>4. loc' \in Locs(Memories) /\ loc'.mem = m
    BY <1>1, <2>1, <2>2, SetMem
  <2>5. Sound(w, m)
    BY <2>2 DEF ReconcileInv, Sound
  <2>6. Sound(new, m) /\ Learned(2, new, m)
    BY <2>3 DEF Sound, Learned, NoDesired
  <2> QED
    BY <2>1, <2>3, <2>4, <2>5, <2>6, ReconcileCall
<1>3. CASE ApplyDesired(s)
  <2> DEFINE d == [uid |-> w.uids + 1, rv |-> 1, value |-> "one", observed |-> "none"]
             new == [w EXCEPT !.uids = @ + 1, !.desired = d]
  <2>1. pc = 2 /\ Call(s, new) /\ Note
    BY <1>3, ReconcileAt DEF ApplyDesired
  <2>2. loc' \in Locs(Memories) /\ loc'.mem = loc.mem
    BY <1>1, <2>1, NoteMem
  <2>3. w.effects = {}
    BY <2>1 DEF ReconcileInv, Learned
  <2>4. d \in Objects /\ d.observed = "none"
    BY <1>1 DEF Objects, Values
  <2> HIDE DEF d
  <2>5. new \in Stores /\ new.effects = {} /\ new.desired = d
    <3>1. w.uids + 1 \in Nat
      BY <1>1
    <3>2. \A n \in Nat : LET x == [w EXCEPT !.uids = n, !.desired = d] IN
            x \in Stores /\ x.effects = w.effects /\ x.desired = d
      BY <1>1, <2>4 DEF Stores
    <3> QED
      BY <2>3, <3>1, <3>2, Zenon
  <2> HIDE DEF new
  <2>6. Sound(new, loc.mem) /\ Learned(3, new, loc.mem)
    BY <2>4, <2>5 DEF Sound, Learned
  <2> QED
    BY <2>1, <2>2, <2>5, <2>6, ReconcileCall DEF ReconcileInv
<1>4. CASE GetCached(s)
  <2> DEFINE m == [loc.mem EXCEPT !.cached = w.desired]
  <2>1. pc = 3 /\ Call(s, w) /\ Set(m)
    BY <1>4, ReconcileAt DEF GetCached
  <2>2. m \in Memories /\ m.was = loc.mem.was /\ m.cached = w.desired
    BY <1>1 DEF Memories
  <2> HIDE DEF m
  <2>3. loc' \in Locs(Memories) /\ loc'.mem = m
    BY <1>1, <2>1, <2>2, SetMem
  <2>4. Sound(w, m) /\ Learned(4, w, m)
    BY <2>1, <2>2 DEF ReconcileInv, Sound, Learned
  <2> QED
    BY <1>1, <2>1, <2>3, <2>4, ReconcileCall
<1>5. CASE PatchTwo(s)
  <2> DEFINE d == ValueWritten(w.desired, "two", w.desired.rv + 1)
             new == [w EXCEPT !.desired = d]
  <2>1. pc = 4 /\ Call(s, new) /\ Note
    BY <1>5, ReconcileAt DEF PatchTwo, Written, ValueWritten
  <2>2. loc' \in Locs(Memories) /\ loc'.mem = loc.mem
    BY <1>1, <2>1, NoteMem
  <2>3. d \in Objects /\ d.uid = w.desired.uid /\ d.observed = w.desired.observed
    <3>1. w.desired.rv + 1 \in Nat /\ "two" \in Values
      BY <1>1 DEF Objects, Values
    <3> QED
      BY <1>1, <3>1, ValueIsWritten
  <2> HIDE DEF d
  <2>4. new \in Stores /\ new.effects = w.effects /\ new.desired = d
    BY <1>1, <2>3 DEF Stores
  <2> HIDE DEF new
  <2>5. Sound(new, loc.mem) /\ Learned(5, new, loc.mem)
    BY <2>1, <2>3, <2>4 DEF ReconcileInv, Sound, Learned
  <2> QED
    BY <2>1, <2>2, <2>4, <2>5, ReconcileCall DEF ReconcileInv
<1>6. CASE ReplaceStale(s)
  <2>1. pc = 5 /\ Note
    BY <1>6, ReconcileAt DEF ReplaceStale
  <2>2. loc' \in Locs(Memories) /\ loc'.mem = loc.mem
    BY <1>1, <2>1, NoteMem
  <2>3. CASE Call(s, w)
    <3>1. Learned(6, w, loc.mem)
      BY DEF Learned
    <3> QED
      BY <1>1, <2>1, <2>2, <2>3, <3>1, ReconcileCall DEF ReconcileInv
  <2>4. CASE ~Call(s, w)
    <3> DEFINE d == ValueWritten(loc.mem.cached, "stale-write", w.desired.rv + 1)
               new == [w EXCEPT !.desired = d]
    <3>1. w' = new /\ Raise(s)
      BY <1>6, <2>4, Zenon DEF ReplaceStale, Written, ValueWritten
    <3>2. pc' = 18
      BY <2>1, <3>1, ReconcileAt DEF Raise
    <3>3. loc.mem.cached \in Objects
      BY <1>1 DEF Memories
    <3>4. d \in Objects /\ d.uid = loc.mem.cached.uid /\ d.observed = loc.mem.cached.observed
      <4>1. w.desired.rv + 1 \in Nat /\ "stale-write" \in Values
        BY <1>1 DEF Objects, Values
      <4> QED
        BY <3>3, <4>1, ValueIsWritten
    <3>5. loc.mem.cached.uid = w.desired.uid /\ loc.mem.cached.observed = "none"
      BY <2>1 DEF ReconcileInv, Learned
    <3> HIDE DEF d
    <3>6. new \in Stores /\ new.effects = w.effects /\ new.desired = d
      BY <1>1, <3>4 DEF Stores
    <3> HIDE DEF new
    <3>7. Sound(new, loc.mem) /\ Learned(18, new, loc.mem)
      BY <3>4, <3>5, <3>6 DEF ReconcileInv, Sound, Learned
    <3> QED
      BY <2>2, <3>1, <3>2, <3>6, <3>7 DEF ReconcileInv
  <2> QED
    BY <2>3, <2>4
<1> QED
  BY <1>2, <1>3, <1>4, <1>5, <1>6

\* The steps of reconcile.
LEMMA ReconcileKnows ==
  ASSUME ReconcileInv, pc \in 1..18, NEW s, s = ReconcileProgram[pc],
         GetDesired(s) \/ CreateEffect(s) \/ PatchEffect(s) \/ Acknowledge(s)
  PROVE  ReconcileInv'
<1>1. /\ w \in Stores /\ loc \in Locs(Memories) /\ loc.mem \in Memories
      /\ w.desired \in Objects /\ loc.mem.desired \in Objects /\ Effect \in EffectMaps
      /\ Effect.uid = loc.mem.desired.uid /\ Sound(w, loc.mem)
  BY DEF ReconcileInv, Locs, Stores, Memories, Effect, EffectMaps, Objects
<1>2. CASE GetDesired(s)
  <2> DEFINE m == [loc.mem EXCEPT !.desired = w.desired]
  <2>1. pc \in {6, 9, 13} /\ Call(s, w) /\ Set(m)
    BY <1>2, ReconcileAt DEF GetDesired
  <2>2. m \in Memories /\ m.was = loc.mem.was /\ m.desired = w.desired
    BY <1>1 DEF Memories
  <2> HIDE DEF m
  <2>3. loc' \in Locs(Memories) /\ loc'.mem = m
    BY <1>1, <2>1, <2>2, SetMem
  <2>4. Sound(w, m)
    BY <1>1, <2>2 DEF Sound
  <2>5. \A k \in {7, 10, 14} : Learned(k, w, m)
    BY <2>2 DEF Learned
  <2>6. pc \in 1..17 /\ pc + 1 \in {7, 10, 14}
    BY <2>1
  <2> QED
    BY <1>1, <2>1, <2>3, <2>4, <2>5, <2>6, ReconcileCall
<1>3. CASE CreateEffect(s)
  <2> DEFINE new == [w EXCEPT !.effects = IF Existing = {} THEN @ \cup {Effect} ELSE @]
             W(x) == IF x # w THEN loc.mem.was \cup {Effect} ELSE loc.mem.was
             M(x) == [loc.mem EXCEPT !.created = (Existing = {}), !.was = W(x)]
  <2>1. pc \in {7, 10, 14} /\ Call(s, new) /\ Set(M(w'))
    BY <1>3, ReconcileAt DEF CreateEffect
  <2>2. pc \in 1..17 /\ pc + 1 \in {8, 11, 15} /\ loc.mem.desired.uid = w.desired.uid
    BY <2>1 DEF ReconcileInv, Learned
  <2>3. Existing = {} <=> w.effects = {}
    BY <1>1, <2>2 DEF Existing, Sound
  <2>4. \A x : /\ M(x) \in Memories /\ M(x).desired = loc.mem.desired
               /\ M(x).created = (Existing = {})
               /\ M(x).was = W(x)
    <3>1. (Existing = {}) \in BOOLEAN
      BY Zenon
    <3>2. \A x : W(x) \in SUBSET EffectMaps
      BY <1>1 DEF Memories
    <3> HIDE DEF W
    <3>3. \A b \in BOOLEAN, S \in SUBSET EffectMaps :
            LET m == [loc.mem EXCEPT !.created = b, !.was = S] IN
            m \in Memories /\ m.desired = loc.mem.desired /\ m.created = b /\ m.was = S
      BY <1>1 DEF Memories
    <3>4. ASSUME NEW x
          PROVE  /\ M(x) \in Memories /\ M(x).desired = loc.mem.desired
                 /\ M(x).created = (Existing = {}) /\ M(x).was = W(x)
      BY <3>1, <3>2, <3>3, Zenon
    <3> QED
      BY <3>4, Zenon
  <2> HIDE DEF M
  <2>5. loc' \in Locs(Memories) /\ loc'.mem = M(w')
    BY <1>1, <2>1, <2>4, SetMem
  <2>6. CASE w.effects = {}
    <3>1. new \in Stores /\ new.effects = {Effect} /\ new.desired = w.desired
      BY <1>1, <2>3, <2>6 DEF Stores
    <3>2. new # w
      BY <2>6, <3>1
    <3> HIDE DEF new
    <3>3. M(new).was = loc.mem.was \cup {Effect} /\ M(w).was = loc.mem.was
      BY <2>4, <3>2
    <3>4. Sound(w, M(w)) /\ Sound(new, M(new))
      BY <1>1, <2>2, <2>6, <3>1, <3>3 DEF Sound
    <3>5. EffectOf(M(new)) = Effect
      BY <2>4 DEF EffectOf, Effect
    <3>6. \A k \in {8, 11, 15} : Learned(k, new, M(new))
      BY <2>2, <2>4, <3>1, <3>3, <3>5 DEF Learned
    <3>7. pc + s.esc = 18 /\ \A x, m : Learned(18, x, m)
      BY <2>2, ReconcileAt DEF Learned
    <3>8. CASE pc' = pc + 1 /\ w' = new
      BY <2>2, <2>5, <3>1, <3>4, <3>6, <3>8 DEF ReconcileInv
    <3>9. CASE pc' = 18 /\ (w' = w \/ w' = new)
      BY <1>1, <2>5, <3>1, <3>4, <3>7, <3>9 DEF ReconcileInv
    <3> QED
      BY <2>1, <3>7, <3>8, <3>9, CallOutcome
  <2>7. CASE w.effects # {}
    <3>1. new = w
      BY <1>1, <2>3, <2>7 DEF Stores
    <3>2. w' = w
      BY <2>1, <3>1, CallOutcome
    <3>3. M(w).was = loc.mem.was /\ M(w).created = FALSE /\ loc'.mem = M(w)
      BY <2>3, <2>4, <2>5, <2>7, <3>2
    <3>4. Sound(w, M(w))
      BY <1>1, <3>3 DEF Sound
    <3>5. \A k \in {8, 11, 15} : Learned(k, w, M(w))
      BY <2>2, <2>4, <2>7, <3>3 DEF Learned
    <3>6. Call(s, w)
      BY <2>1, <3>1
    <3> QED
      BY <1>1, <2>2, <2>5, <3>3, <3>4, <3>5, <3>6, ReconcileCall
  <2> QED
    BY <2>6, <2>7
<1>4. CASE PatchEffect(s)
  <2> DEFINE new == [w EXCEPT !.effects = (@ \ Existing) \cup {Effect}]
             W(x) == IF x # w THEN loc.mem.was \cup {Effect} ELSE loc.mem.was
             M(x) == [loc.mem EXCEPT !.was = W(x)]
  <2>1. pc \in {8, 11, 15} /\ Set(M(w'))
    BY <1>4, ReconcileAt DEF PatchEffect
  <2>2. /\ pc \in 1..17 /\ pc + 1 \in {9, 12, 16} /\ loc.mem.desired.uid = w.desired.uid
        /\ w.effects # {} /\ (loc.mem.created => EffectOf(loc.mem) \in loc.mem.was)
    BY <2>1 DEF ReconcileInv, Learned
  <2>3. EffectOf(loc.mem) = Effect
    BY DEF EffectOf, Effect
  <2>4. \A x : M(x) \in Memories /\ M(x).desired = loc.mem.desired /\ M(x).was = W(x)
    <3>1. \A x : W(x) \in SUBSET EffectMaps
      BY <1>1 DEF Memories
    <3> HIDE DEF W
    <3> QED
      BY <1>1, <3>1 DEF Memories
  <2> HIDE DEF M
  <2>5. loc' \in Locs(Memories) /\ loc'.mem = M(w')
    BY <1>1, <2>1, <2>4, SetMem
  <2>6. EffectOf(M(w')) = Effect
    BY <2>4 DEF EffectOf, Effect
  <2>7. CASE loc.mem.created
    <3>1. w' = w /\ pc' = pc + 1
      BY <1>4, <2>7, Zenon DEF PatchEffect, Return
    <3>2. M(w').was = loc.mem.was /\ Effect \in loc.mem.was
      BY <2>2, <2>3, <2>4, <2>7, <3>1
    <3>3. Sound(w, M(w'))
      BY <1>1, <3>2 DEF Sound
    <3>4. \A k \in {9, 12, 16} : Learned(k, w, M(w'))
      BY <2>2, <2>4, <2>6, <3>2 DEF Learned
    <3> QED
      BY <1>1, <2>2, <2>5, <3>1, <3>3, <3>4 DEF ReconcileInv
  <2>8. CASE ~loc.mem.created
    <3>1. Call(s, new)
      BY <1>4, <2>8, Zenon DEF PatchEffect
    <3>2. Existing = w.effects
      BY <1>1, <2>2 DEF Existing, Sound
    <3>3. new \in Stores /\ new.effects = {Effect} /\ new.desired = w.desired
      BY <1>1, <3>2 DEF Stores
    <3>4. (new = w) => Effect \in loc.mem.was
      BY <1>1, <3>3 DEF Sound
    <3> HIDE DEF new
    <3>5. Effect \in M(new).was /\ loc.mem.was \subseteq M(new).was /\ M(w).was = loc.mem.was
      BY <2>4, <3>4
    <3>6. Sound(w, M(w)) /\ Sound(new, M(new))
      BY <1>1, <2>2, <3>3, <3>5 DEF Sound
    <3>7. pc + s.esc = 18 /\ \A x, m : Learned(18, x, m)
      BY <2>2, ReconcileAt DEF Learned
    <3>8. CASE pc' = pc + 1 /\ w' = new
      <4>1. \A k \in {9, 12, 16} : Learned(k, new, M(new))
        BY <2>2, <2>4, <2>6, <3>3, <3>5, <3>8 DEF Learned
      <4> QED
        BY <2>2, <2>5, <3>3, <3>6, <3>8, <4>1 DEF ReconcileInv
    <3>9. CASE pc' = 18 /\ (w' = w \/ w' = new)
      BY <1>1, <2>5, <3>3, <3>6, <3>7, <3>9 DEF ReconcileInv
    <3> QED
      BY <3>1, <3>7, <3>8, <3>9, CallOutcome
  <2> QED
    BY <2>7, <2>8
<1>5. CASE Acknowledge(s)
  <2> DEFINE d == Acknowledged(w.desired, loc.mem.desired.value, w.desired.rv + 1)
             new == [w EXCEPT !.desired = d]
  <2>1. pc \in {12, 16} /\ Call(s, new) /\ Note
    BY <1>5, ReconcileAt DEF Acknowledge, Written, Acknowledged
  <2>2. loc' \in Locs(Memories) /\ loc'.mem = loc.mem
    BY <1>1, <2>1, NoteMem
  <2>3. d \in Objects /\ d.uid = w.desired.uid /\ d.observed = loc.mem.desired.value
    <3>1. w.desired.rv + 1 \in Nat /\ loc.mem.desired.value \in Values
      BY <1>1 DEF Objects
    <3> QED
      BY <1>1, <3>1, AckIsWritten
  <2>4. /\ pc \in 1..17 /\ pc + 1 \in {13, 17} /\ loc.mem.desired.uid = w.desired.uid
        /\ w.effects # {} /\ EffectOf(loc.mem) \in loc.mem.was
    BY <2>1 DEF ReconcileInv, Learned
  <2> HIDE DEF d
  <2>5. new \in Stores /\ new.effects = w.effects /\ new.desired = d
    BY <1>1, <2>3 DEF Stores
  <2> HIDE DEF new
  <2>6. [uid |-> d.uid, value |-> d.observed] = EffectOf(loc.mem)
    BY <2>3, <2>4 DEF EffectOf
  <2>7. Sound(new, loc.mem)
    BY <1>1, <2>3, <2>4, <2>5, <2>6 DEF Sound
  <2>8. \A k \in {13, 17} : Learned(k, new, loc.mem)
    BY DEF Learned
  <2> QED
    BY <1>1, <2>1, <2>2, <2>4, <2>5, <2>7, <2>8, ReconcileCall
<1> QED
  BY <1>2, <1>3, <1>4, <1>5

\* Another client edits the value of the desired object.
LEMMA OtherClientKnows ==
  ASSUME ReconcileInv, OtherClient
  PROVE  ReconcileInv'
<1> DEFINE d == ValueWritten(w.desired, "edited", w.desired.rv + 1)
           new == [w EXCEPT !.desired = d]
<1>1. /\ w \in Stores /\ loc \in Locs(Memories) /\ w.desired \in Objects /\ w.desired.rv + 1 \in Nat
      /\ "edited" \in Values
  BY DEF ReconcileInv, Locs, Stores, Objects, Values
<1>2. w.desired # NoDesired /\ w' = new /\ pc' = pc /\ loc' = [loc EXCEPT !.clean = FALSE]
  BY Zenon DEF OtherClient, Written, ValueWritten
<1>3. d \in Objects /\ d.uid = w.desired.uid /\ d.observed = w.desired.observed
  BY <1>1, ValueIsWritten
<1> HIDE DEF d
<1>4. new \in Stores /\ new.effects = w.effects /\ new.desired = d
  BY <1>1, <1>3 DEF Stores
<1> HIDE DEF new
<1>5. loc' \in Locs(Memories) /\ loc'.mem = loc.mem
  BY <1>1, <1>2 DEF Locs
<1>6. Sound(new, loc.mem)
  BY <1>3, <1>4 DEF ReconcileInv, Sound
<1>7. Learned(pc, new, loc.mem)
  BY <1>2, <1>3, <1>4 DEF ReconcileInv, Learned
<1> QED
  BY <1>2, <1>4, <1>5, <1>6, <1>7 DEF ReconcileInv

\* The invariant of the experiment is inductive.
LEMMA ReconcileKept ==
  ASSUME ReconcileInv, ReconcileNext
  PROVE  ReconcileInv'
<1>1. loc \in Locs(Memories)
  BY DEF ReconcileInv
<1>2. \A x, m : Learned(0, x, m) /\ Learned(1, x, m) /\ Learned(18, x, m)
  BY DEF Learned
<1>3. ASSUME NEW s, StartRun \/ EndRun(s) \/ KillRun
      PROVE  ReconcileInv'
  <2>1. loc' \in Locs(Memories) /\ loc'.mem = loc.mem /\ w' = w /\ (pc' = 0 \/ pc' = 1)
    BY <1>1, <1>3, RunKeeps
  <2> QED
    BY <1>2, <2>1 DEF ReconcileInv
<1>4. ASSUME ReconcileStep
      PROVE  ReconcileInv'
  <2> DEFINE s == ReconcileProgram[pc]
  <2>1. pc \in 1..18
    BY <1>4 DEF ReconcileInv, ReconcileStep, Idle
  <2>2. \/ ReconcileLab(s) \/ ApplyDesired(s) \/ GetCached(s) \/ PatchTwo(s) \/ ReplaceStale(s)
        \/ GetDesired(s) \/ CreateEffect(s) \/ PatchEffect(s) \/ Acknowledge(s) \/ OneEffect(s)
        \/ EndRun(s)
    BY <1>4, Zenon DEF ReconcileStep
  <2>3. CASE OneEffect(s)
    <3>1. pc = 17 /\ Note /\ pc + s.esc = 18
      BY <2>1, <2>3, ReconcileAt DEF OneEffect
    <3>2. w' = w /\ (pc' = pc + 1 \/ pc' = pc + s.esc)
      BY <2>3, Zenon DEF OneEffect, Require, Fail, Return, Raise
    <3>3. loc' \in Locs(Memories) /\ loc'.mem = loc.mem
      BY <1>1, <3>1, NoteMem
    <3> QED
      BY <1>2, <3>1, <3>2, <3>3 DEF ReconcileInv
  <2>4. CASE EndRun(s)
    BY <1>3, <2>4
  <2> HIDE DEF s
  <2> QED
    BY <2>1, <2>2, <2>3, <2>4, PreparationKnows, ReconcileKnows DEF s
<1> QED
  BY <1>3, <1>4, OtherClientKnows DEF ReconcileNext

(* EffectBeforeAck, for every number of runs, of failing calls, kills and  *)
(* edits: reconcile() of deep-dive-reconcile/run.py, repeated and stopped  *)
(* anywhere, leaves at most one effect, of the desired object that is      *)
(* there, and acknowledges only a value that this effect has had.          *)
THEOREM AcknowledgedWasEffect == Spec => []EffectBeforeAck
<1> DEFINE Inv == lab = "reconcile" => ReconcileInv
<1>1. Init => Inv
  <2>1. ASSUME Init, lab = "reconcile"
        PROVE  ReconcileInit
    BY <2>1 DEF Init
  <2>2. ASSUME ReconcileInit
        PROVE  ReconcileInv
    <3>1. pc = 0 /\ w = Store /\ loc = [run |-> 0, clean |-> TRUE, verdict |-> "none", mem |-> ReconcileMem]
      BY <2>2, Zenon DEF ReconcileInit, FirstRun
    <3>2. Store \in Stores /\ Store.effects = {} /\ Store.desired = NoDesired
      BY DEF Store, Stores, Objects, NoDesired, Values
    <3>3. ReconcileMem \in Memories
      BY DEF ReconcileMem, Memories, Objects, NoDesired, Values
    <3>4. loc \in Locs(Memories)
      BY <3>1, <3>3 DEF Locs
    <3>5. Sound(Store, loc.mem) /\ Learned(0, Store, loc.mem)
      BY <3>2 DEF Sound, Learned, NoDesired
    <3> QED
      BY <3>1, <3>2, <3>4, <3>5 DEF ReconcileInv
  <2> QED
    BY <2>1, <2>2
<1>2. Inv /\ [Next]_scriptVars => Inv'
  <2> SUFFICES ASSUME Inv, [Next]_scriptVars, lab' = "reconcile"
               PROVE  ReconcileInv'
    BY Zenon
  <2>1. CASE Next
    <3>1. lab = "reconcile" /\ ReconcileNext
      BY <2>1 DEF Next
    <3> QED
      BY <3>1, ReconcileKept
  <2>2. CASE UNCHANGED scriptVars
    BY <2>2 DEF scriptVars, ReconcileInv, Sound, Learned
  <2> QED
    BY <2>1, <2>2
<1>3. Inv => EffectBeforeAck
  BY DEF EffectBeforeAck, ReconcileInv, Sound
<1> QED
  BY <1>1, <1>2, <1>3, PTL DEF Spec

----------------------------------------------------------------------------
(* article-crd-conversion: run.py and webhook.py.                          *)

\* The program: each call raises to the last step.
LEMMA CrdSteps ==
  /\ \A k \in 1..21 : CrdProgram[k].esc = 22 - k
  /\ \A k \in {1, 20} : CrdProgram[k].op = "delete_crd"
  /\ CrdProgram[2].op = "lab" /\ CrdProgram[3].op = "make_tls" /\ CrdProgram[4].op = "secret"
  /\ CrdProgram[5].op = "deployment" /\ CrdProgram[6].op = "service"
  /\ CrdProgram[7].op = "apply_crd" /\ CrdProgram[8].op = "established"
  /\ CrdProgram[9].op = "apply_widget"
  /\ \A k \in {10, 11, 16, 19} : CrdProgram[k].op = "expect"
  /\ CrdProgram[12].op = "check_beta" /\ CrdProgram[13].op = "switch_storage"
  /\ CrdProgram[14].op = "storage_is_beta" /\ CrdProgram[15].op = "write_beta"
  /\ CrdProgram[17].op = "unserve_alpha" /\ CrdProgram[18].op = "alpha_unserved"
  /\ CrdProgram[21].op = "delete_ns" /\ CrdProgram[22].op = "exit"
<1> DEFINE body == <<Bare("delete_crd"), Bare("lab"), Bare("make_tls"), Bare("secret"), Bare("deployment"),
                     Bare("service"), Bare("apply_crd"), Bare("established"), Bare("apply_widget"),
                     Expect(Alpha), Expect(Beta), Bare("check_beta"), Bare("switch_storage"),
                     Bare("storage_is_beta"), Bare("write_beta"), Expect(Beta), Bare("unserve_alpha"),
                     Bare("alpha_unserved"), Expect(Beta), Bare("delete_crd"), Bare("delete_ns")>>
           S == {body[k] : k \in 1..21}
<1>1. body \in Seq(S) /\ Len(body) = 21
  OBVIOUS
<1>2. /\ body[1] = Bare("delete_crd") /\ body[2] = Bare("lab") /\ body[3] = Bare("make_tls")
      /\ body[4] = Bare("secret") /\ body[5] = Bare("deployment") /\ body[6] = Bare("service")
      /\ body[7] = Bare("apply_crd") /\ body[8] = Bare("established") /\ body[9] = Bare("apply_widget")
      /\ body[12] = Bare("check_beta") /\ body[13] = Bare("switch_storage")
      /\ body[14] = Bare("storage_is_beta") /\ body[15] = Bare("write_beta")
      /\ body[17] = Bare("unserve_alpha") /\ body[18] = Bare("alpha_unserved")
      /\ body[20] = Bare("delete_crd") /\ body[21] = Bare("delete_ns")
  OBVIOUS
<1>3. body[10] = Expect(Alpha) /\ body[11] = Expect(Beta) /\ body[16] = Expect(Beta) /\ body[19] = Expect(Beta)
  OBVIOUS
<1>4. CrdProgram = Main(body)
  BY Zenon DEF CrdProgram
<1> HIDE DEF body, S
<1>5. /\ \A k \in 1..21 : \A op : body[k] = Bare(op) =>
            CrdProgram[k].op = op /\ CrdProgram[k].esc = 22 - k
      /\ CrdProgram[22].op = "exit"
  <2>1. /\ \A k \in 1..Len(body) : \A op : body[k] = Bare(op) =>
              Main(body)[k].op = op /\ Main(body)[k].esc = Len(body) + 1 - k
        /\ Main(body)[Len(body) + 1].op = "exit"
    BY <1>1, MainStep, Zenon
  <2>2. /\ \A k \in 1..21 : \A op : body[k] = Bare(op) =>
              CrdProgram[k].op = op /\ CrdProgram[k].esc = 21 + 1 - k
        /\ CrdProgram[21 + 1].op = "exit"
    BY <1>1, <1>4, <2>1, Zenon
  <2> QED
    BY <2>2
<1>6. ASSUME NEW k \in 1..21, NEW v, body[k] = Expect(v)
      PROVE  CrdProgram[k].op = "expect" /\ CrdProgram[k].esc = 22 - k
  <2> DEFINE n == Len(body) + 1 - k
             r == Main(body)[k]
  <2>1. body[k].esc = 0
    BY <1>6 DEF Expect
  <2>2. k \in 1..Len(body)
    BY <1>1
  <2>3. r = Open(body[k], n)
    BY <1>1, <2>1, <2>2, MainAt, Zenon
  <2>4. n = 22 - k
    BY <1>1
  <2> HIDE DEF n, r
  <2>5. r = Open(Expect(v), n)
    BY <1>6, <2>3, Zenon
  <2>6. r.op = "expect" /\ r.esc = n
    BY <2>5 DEF Expect, Open
  <2> QED
    BY <1>4, <2>4, <2>6, Zenon DEF r
<1>7. \A k \in {10, 11, 16, 19} : CrdProgram[k].op = "expect" /\ CrdProgram[k].esc = 22 - k
  BY <1>3, <1>6
<1>8. \A k \in (1..21) \ {10, 11, 16, 19} : CrdProgram[k].esc = 22 - k
  BY <1>2, <1>5
<1> QED
  BY <1>2, <1>5, <1>7, <1>8

LEMMA CrdAt ==
  ASSUME NEW k \in 1..22
  PROVE  LET op == CrdProgram[k].op IN
         /\ op = "delete_crd" => k \in {1, 20}
         /\ op = "lab" => k = 2
         /\ op = "make_tls" => k = 3
         /\ op = "secret" => k = 4
         /\ op = "deployment" => k = 5
         /\ op = "service" => k = 6
         /\ op = "apply_crd" => k = 7
         /\ op \in {"established", "apply_widget", "expect", "check_beta", "switch_storage",
                    "storage_is_beta", "write_beta", "unserve_alpha", "alpha_unserved"} => k \in 8..19
         /\ op = "delete_ns" => k = 21
         /\ op = "exit" => k = 22
         /\ k < 22 => k + CrdProgram[k].esc = 22
BY CrdSteps

\* The Widget of the script, in the two versions.
AlphaWidget == [version |-> Alpha, spec |-> [label |-> "alpha", replicas |-> 3], status |-> 0]
BetaWidget == [version |-> Beta, spec |-> [displayName |-> "alpha", replicas |-> 3], status |-> 0]

\* What convert_object makes of a spec.
ConvertedSpec(spec, desired) ==
  IF desired = Beta
  THEN [displayName |-> get(spec, "displayName", get(spec, "label", "")), replicas |-> get(spec, "replicas", 1)]
  ELSE [label |-> get(spec, "label", get(spec, "displayName", "")), replicas |-> get(spec, "replicas", 1)]

LEMMA Converted ==
  ASSUME NEW v, NEW sp, NEW st, NEW desired
  PROVE  convert_object([version |-> v, spec |-> sp, status |-> st], desired)
           = [version |-> desired, spec |-> ConvertedSpec(sp, desired), status |-> st]
<1> DEFINE o == [version |-> v, spec |-> sp, status |-> st]
           c == ConvertedSpec(sp, desired)
           r == convert_object(o, desired)
<1>1. o.spec = sp
  OBVIOUS
<1>2. r = [o EXCEPT !.version = desired, !.spec = ConvertedSpec(o.spec, desired)]
  BY Zenon DEF convert_object, ConvertedSpec
<1>3. r = [o EXCEPT !.version = desired, !.spec = c]
  <2> HIDE DEF o, r
  <2> QED
    BY <1>1, <1>2, Zenon
<1> HIDE DEF r, c
<1>4. r = [version |-> desired, spec |-> c, status |-> st]
  BY <1>3
<1> QED
  BY <1>4, Zenon DEF r, c

LEMMA SpecsConvert ==
  LET a == [label |-> "alpha", replicas |-> 3]
      b == [displayName |-> "alpha", replicas |-> 3]
  IN  /\ ConvertedSpec(a, Beta) = b /\ ConvertedSpec(b, Beta) = b
      /\ ConvertedSpec(b, Alpha) = a /\ ConvertedSpec(a, Alpha) = a
BY DEF ConvertedSpec, get, Alpha, Beta

LEMMA WidgetConverts ==
  /\ convert_object(AlphaWidget, Beta) = BetaWidget /\ convert_object(BetaWidget, Beta) = BetaWidget
  /\ convert_object(BetaWidget, Alpha) = AlphaWidget /\ convert_object(AlphaWidget, Alpha) = AlphaWidget
<1> DEFINE a == [label |-> "alpha", replicas |-> 3]
           b == [displayName |-> "alpha", replicas |-> 3]
<1>1. /\ ConvertedSpec(a, Beta) = b /\ ConvertedSpec(b, Beta) = b
      /\ ConvertedSpec(b, Alpha) = a /\ ConvertedSpec(a, Alpha) = a
  BY SpecsConvert
<1>2. AlphaWidget = [version |-> Alpha, spec |-> a, status |-> 0]
  BY Zenon DEF AlphaWidget
<1>3. BetaWidget = [version |-> Beta, spec |-> b, status |-> 0]
  BY Zenon DEF BetaWidget
<1> HIDE DEF a, b
<1>4. ASSUME NEW d
      PROVE  /\ convert_object(AlphaWidget, d) = [version |-> d, spec |-> ConvertedSpec(a, d), status |-> 0]
             /\ convert_object(BetaWidget, d) = [version |-> d, spec |-> ConvertedSpec(b, d), status |-> 0]
  <2>1. convert_object([version |-> Alpha, spec |-> a, status |-> 0], d)
          = [version |-> d, spec |-> ConvertedSpec(a, d), status |-> 0]
    BY Converted
  <2>2. convert_object([version |-> Beta, spec |-> b, status |-> 0], d)
          = [version |-> d, spec |-> ConvertedSpec(b, d), status |-> 0]
    BY Converted
  <2> QED
    BY <1>2, <1>3, <2>1, <2>2, Zenon
<1> QED
  BY <1>1, <1>2, <1>3, <1>4, Zenon

\* The API server stores of the applied Widget what the schema declares.
LEMMA WidgetPruned ==
  Prune([version |-> Alpha, status |-> 0, spec |-> [label |-> "alpha", replicas |-> 3, unknown |-> "pruned"]])
    = AlphaWidget
<1> DEFINE sp == [label |-> "alpha", replicas |-> 3, unknown |-> "pruned"]
           D == DOMAIN sp \cap Declared(Alpha)
           o == [version |-> Alpha, status |-> 0, spec |-> sp]
           r == Restrict(sp, D)
           a == [label |-> "alpha", replicas |-> 3]
<1>1. D = {"label", "replicas"}
  BY DEF Declared, Required
<1>2. r = [x \in {"label", "replicas"} |-> sp[x]]
  BY <1>1, Zenon DEF Restrict
<1>3. sp["label"] = "alpha" /\ sp["replicas"] = 3
  OBVIOUS
<1>4. r = a
  <2> HIDE DEF sp, r
  <2> QED
    BY <1>2, <1>3
<1>5. Prune(o) = [o EXCEPT !.spec = r]
  BY Zenon DEF Prune
<1> HIDE DEF r
<1>6. [o EXCEPT !.spec = r] = [version |-> Alpha, spec |-> r, status |-> 0]
  OBVIOUS
<1> QED
  BY <1>4, <1>5, <1>6, Zenon DEF AlphaWidget

\* The spec of version v with name n.
FullSpec(v, n, r) ==
  IF v = Beta THEN [displayName |-> n, replicas |-> r] ELSE [label |-> n, replicas |-> r]

LEMMA LabelSpec ==
  ASSUME NEW n, NEW r, NEW spec, spec = [label |-> n, replicas |-> r]
  PROVE  /\ DOMAIN spec = {"label", "replicas"} /\ spec["label"] = n /\ spec["replicas"] = r
         /\ spec = [f \in {"label", "replicas"} |-> spec[f]]
OBVIOUS

LEMMA NameSpec ==
  ASSUME NEW n, NEW r, NEW spec, spec = [displayName |-> n, replicas |-> r]
  PROVE  /\ DOMAIN spec = {"displayName", "replicas"} /\ spec["displayName"] = n /\ spec["replicas"] = r
         /\ spec = [f \in {"displayName", "replicas"} |-> spec[f]]
OBVIOUS

LEMMA NamedFields ==
  ASSUME NEW v \in Versions, NEW n, NEW r, NEW spec, spec = FullSpec(v, n, r)
  PROVE  /\ DOMAIN spec = Declared(v) /\ spec[Required(v)] = n /\ spec["replicas"] = r
         /\ spec = [f \in Declared(v) |-> spec[f]]
<1>1. CASE v = Alpha
  <2>1. spec = [label |-> n, replicas |-> r]
    BY <1>1, Zenon DEF FullSpec, Alpha, Beta
  <2>2. Required(v) = "label" /\ Declared(v) = {"label", "replicas"}
    BY <1>1, Zenon DEF Required, Declared
  <2>3. /\ DOMAIN spec = {"label", "replicas"} /\ spec["label"] = n /\ spec["replicas"] = r
        /\ spec = [f \in {"label", "replicas"} |-> spec[f]]
    BY <2>1, LabelSpec
  <2> QED
    BY <2>2, <2>3, Zenon
<1>2. CASE v = Beta
  <2>1. spec = [displayName |-> n, replicas |-> r]
    BY <1>2, Zenon DEF FullSpec
  <2>2. Required(v) = "displayName" /\ Declared(v) = {"displayName", "replicas"}
    BY <1>2, Zenon DEF Required, Declared, Alpha, Beta
  <2>3. /\ DOMAIN spec = {"displayName", "replicas"} /\ spec["displayName"] = n /\ spec["replicas"] = r
        /\ spec = [f \in {"displayName", "replicas"} |-> spec[f]]
    BY <2>1, NameSpec
  <2> QED
    BY <2>2, <2>3, Zenon
<1> QED
  BY <1>1, <1>2 DEF Versions

\* The conversion of a spec that the schema of version u accepts.
LEMMA AcceptedConverts ==
  ASSUME NEW u \in Versions, NEW v \in Versions, NEW sp,
         DOMAIN sp \subseteq Declared(u), Required(u) \in DOMAIN sp
  PROVE  ConvertedSpec(sp, v) = FullSpec(v, sp[Required(u)], get(sp, "replicas", 1))
<1> DEFINE n == sp[Required(u)]
           r == get(sp, "replicas", 1)
<1>1. CASE v = Alpha
  <2>1. get(sp, "label", get(sp, "displayName", "")) = n
    BY DEF get, Required, Declared, Versions, Alpha, Beta
  <2>2. ConvertedSpec(sp, v) = [label |-> get(sp, "label", get(sp, "displayName", "")), replicas |-> r]
    BY <1>1, Zenon DEF ConvertedSpec, Alpha, Beta
  <2>3. ConvertedSpec(sp, v) = [label |-> n, replicas |-> r]
    BY <2>1, <2>2, Zenon
  <2> QED
    BY <1>1, <2>3, Zenon DEF FullSpec, Alpha, Beta
<1>2. CASE v = Beta
  <2>1. get(sp, "displayName", get(sp, "label", "")) = n
    BY DEF get, Required, Declared, Versions, Alpha, Beta
  <2>2. ConvertedSpec(sp, v) = [displayName |-> get(sp, "displayName", get(sp, "label", "")), replicas |-> r]
    BY <1>2, Zenon DEF ConvertedSpec
  <2>3. ConvertedSpec(sp, v) = [displayName |-> n, replicas |-> r]
    BY <2>1, <2>2, Zenon
  <2> QED
    BY <1>2, <2>3, Zenon DEF FullSpec
<1> QED
  BY <1>1, <1>2 DEF Versions

\* There and back: the name stays, and replicas that are not there become 1.
LEMMA SpecRoundTrip ==
  ASSUME NEW u \in Versions, NEW v \in Versions, NEW sp,
         DOMAIN sp \subseteq Declared(u), Required(u) \in DOMAIN sp
  PROVE  /\ DOMAIN ConvertedSpec(sp, v) = Declared(v)
         /\ ConvertedSpec(ConvertedSpec(sp, v), u) = [f \in Declared(u) |-> get(sp, f, 1)]
<1> DEFINE n == sp[Required(u)]
           r == get(sp, "replicas", 1)
           there == ConvertedSpec(sp, v)
           back == ConvertedSpec(there, u)
<1>1. there = FullSpec(v, n, r)
  BY AcceptedConverts, Zenon
<1>2. get(sp, Required(u), 1) = n
  BY Zenon DEF get
<1> HIDE DEF n, r, there
<1>3. DOMAIN there = Declared(v) /\ there[Required(v)] = n /\ there["replicas"] = r
  BY <1>1, NamedFields
<1>4. get(there, "replicas", 1) = r /\ Required(v) \in DOMAIN there
  BY <1>3 DEF get, Declared
<1>5. back = FullSpec(u, n, r)
  <2>1. back = FullSpec(u, there[Required(v)], get(there, "replicas", 1))
    BY <1>3, <1>4, AcceptedConverts
  <2> QED
    BY <1>3, <1>4, <2>1
<1> HIDE DEF back
<1>6. /\ DOMAIN back = Declared(u) /\ back[Required(u)] = n /\ back["replicas"] = r
      /\ back = [f \in Declared(u) |-> back[f]]
  BY <1>5, NamedFields
<1>7. \A f \in Declared(u) : back[f] = get(sp, f, 1)
  BY <1>2, <1>6 DEF Declared, r
<1>8. back = [f \in Declared(u) |-> get(sp, f, 1)]
  BY <1>6, <1>7
<1> QED
  BY <1>3, <1>8 DEF there, back

\* convert_object on every Widget that a schema accepts.
LEMMA WidgetsRoundTrip ==
  ASSUME NEW o \in Widgets, NEW v \in Versions
  PROVE  LET there == convert_object(o, v)
             back == convert_object(there, o.version) IN
         /\ DOMAIN there.spec = Declared(v)
         /\ back.spec = [f \in Declared(o.version) |-> get(o.spec, f, 1)]
         /\ back.status = o.status
<1>1. PICK u \in Versions : o \in [version : {u}, spec : Accepted(u), status : {0, 1}]
  BY Zenon DEF Widgets
<1> DEFINE sp == o.spec
           st == o.status
<1>2. o = [version |-> u, spec |-> sp, status |-> st] /\ o.version = u /\ sp \in Accepted(u)
  BY <1>1
<1>3. sp \in [{Required(u)} -> {"", "alpha"}]
      \/ \E r \in {1, 3}, n \in {"", "alpha"} : sp = [f \in Declared(u) |-> IF f = "replicas" THEN r ELSE n]
  <2> HIDE DEF sp
  <2> DEFINE Full(n) == {[f \in Declared(u) |-> IF f = "replicas" THEN r ELSE n] : r \in {1, 3}}
  <2>1. sp \in [{Required(u)} -> {"", "alpha"}] \cup UNION {Full(n) : n \in {"", "alpha"}}
    BY <1>2, Zenon DEF Accepted
  <2>2. \A n : sp \in Full(n) => \E r \in {1, 3} : sp = [f \in Declared(u) |-> IF f = "replicas" THEN r ELSE n]
    BY Zenon
  <2> HIDE DEF Full
  <2>3. sp \in [{Required(u)} -> {"", "alpha"}] \/ \E n \in {"", "alpha"} : sp \in Full(n)
    BY <2>1, Zenon
  <2> QED
    BY <2>2, <2>3, Zenon
<1>4. DOMAIN sp \subseteq Declared(u) /\ Required(u) \in DOMAIN sp
  <2> HIDE DEF sp
  <2>1. Required(u) \in Declared(u)
    BY DEF Declared
  <2> QED
    BY <1>3, <2>1
<1> HIDE DEF sp, st
<1> DEFINE c == ConvertedSpec(sp, v)
           d == ConvertedSpec(c, u)
<1>5. DOMAIN c = Declared(v) /\ d = [f \in Declared(u) |-> get(sp, f, 1)]
  BY <1>4, SpecRoundTrip
<1>6. convert_object(o, v) = [version |-> v, spec |-> c, status |-> st]
  <2>1. convert_object([version |-> u, spec |-> sp, status |-> st], v) = [version |-> v, spec |-> c, status |-> st]
    BY Converted
  <2> QED
    BY <1>2, <2>1, Zenon
<1> HIDE DEF c
<1>7. convert_object([version |-> v, spec |-> c, status |-> st], u) = [version |-> u, spec |-> d, status |-> st]
  BY Converted
<1> HIDE DEF d
<1> DEFINE there == convert_object(o, v)
           back == convert_object(there, u)
<1>8. back = [version |-> u, spec |-> d, status |-> st]
  BY <1>6, <1>7, Zenon
<1> HIDE DEF there, back
<1>9. there.spec = c /\ back.spec = d /\ back.status = st
  BY <1>6, <1>8 DEF there
<1> QED
  BY <1>2, <1>5, <1>9, Zenon DEF there, back, sp, st

Crds ==
  [exists : BOOLEAN, bundle : Nat, storage : Versions, served : SUBSET Versions,
   stored : SUBSET Versions, established : BOOLEAN, live : SUBSET Versions]
StoredWidgets == {NoWidget, AlphaWidget, BetaWidget}
CrdWorlds ==
  [ns : BOOLEAN, files : Nat, secret : Nat, pod : Nat, service : BOOLEAN, crd : Crds, widget : StoredWidgets]

\* At every step: where there is a Widget there are its CRD and the webhook.
Held(x) ==
  x.widget # NoWidget => x.crd.exists /\ x.ns /\ x.service /\ x.pod # 0 /\ x.crd.bundle = x.pod

\* No CRD while the namespace is replaced and until a new one is applied; the
\* certificate of this run goes from the files to the CRD and to the Pod.
Prepared(k, x, run) ==
  /\ k # 0 => run > 0
  /\ k \in 2..7 \/ k = 21 => x.crd = NoCrd /\ x.widget = NoWidget
  /\ k \in 3..20 => x.ns
  /\ k \in 4..20 => x.files = run
  /\ k \in 5..20 => x.secret = x.files
  /\ k \in 6..20 => x.pod = x.files
  /\ k \in 7..20 => x.service
  /\ k \in 8..20 => x.crd.exists /\ x.crd.bundle = x.files

CrdInv ==
  /\ pc \in 0..22 /\ w \in CrdWorlds /\ loc \in Locs({{}})
  /\ Held(w) /\ Prepared(pc, w, loc.run)

LEMMA CrdTypes ==
  /\ NoCrd \in Crds /\ NoCrd.exists = FALSE /\ Cluster \in CrdWorlds /\ Cluster.widget = NoWidget
  /\ NoWidget \in StoredWidgets /\ AlphaWidget \in StoredWidgets /\ BetaWidget \in StoredWidgets
<1>1. NoWidget \in StoredWidgets /\ AlphaWidget \in StoredWidgets /\ BetaWidget \in StoredWidgets
  BY Zenon DEF StoredWidgets
<1>2. NoCrd \in Crds /\ NoCrd.exists = FALSE
  BY DEF NoCrd, Crds, Versions
<1> QED
  BY <1>1, <1>2 DEF Cluster, CrdWorlds

LEMMA CrdCall ==
  ASSUME CrdInv, pc \in 1..21, Note, NEW s, s = CrdProgram[pc], NEW new, Call(s, new),
         new \in CrdWorlds, Held(new), Prepared(pc + 1, new, loc.run)
  PROVE  CrdInv'
<1>1. pc + s.esc = 22 /\ pc + 1 \in 0..22 /\ loc.run > 0
  BY CrdAt DEF CrdInv, Prepared
<1>2. loc' \in Locs({{}}) /\ loc'.run = loc.run
  BY NoteMem DEF CrdInv
<1>3. \A x : Prepared(22, x, loc.run)
  BY <1>1 DEF Prepared
<1>4. CASE pc' = pc + 1 /\ w' = new
  BY <1>1, <1>2, <1>4 DEF CrdInv
<1>5. CASE pc' = 22 /\ (w' = w \/ w' = new)
  BY <1>2, <1>3, <1>5 DEF CrdInv
<1> QED
  BY <1>1, <1>4, <1>5, CallOutcome

\* From the CRD to its deletion nothing touches the webhook.
LEMMA CrdServes ==
  ASSUME CrdInv, pc \in 8..19, Note, NEW s, s = CrdProgram[pc], NEW new \in CrdWorlds,
         new.ns = w.ns, new.files = w.files, new.secret = w.secret, new.pod = w.pod, new.service = w.service,
         new.crd.exists = w.crd.exists, new.crd.bundle = w.crd.bundle,
         (pc' = pc + 1 /\ w' = new) \/ (pc' = pc + s.esc /\ (w' = w \/ w' = new))
  PROVE  CrdInv'
<1>1. pc + s.esc = 22 /\ pc + 1 \in 9..20 /\ loc.run > 0
  BY CrdAt DEF CrdInv, Prepared
<1>2. loc' \in Locs({{}}) /\ loc'.run = loc.run
  BY NoteMem DEF CrdInv
<1>3. \A x : Prepared(22, x, loc.run)
  BY <1>1 DEF Prepared
<1>4. /\ w.ns /\ w.files = loc.run /\ w.secret = w.files /\ w.pod = w.files /\ w.service
      /\ w.crd.exists /\ w.crd.bundle = w.files
  BY DEF CrdInv, Prepared
<1>5. Held(new) /\ Prepared(pc + 1, new, loc.run)
  BY <1>1, <1>4 DEF Held, Prepared
<1>6. CASE pc' = pc + 1 /\ w' = new
  BY <1>1, <1>2, <1>5, <1>6 DEF CrdInv
<1>7. CASE pc' = 22 /\ (w' = w \/ w' = new)
  BY <1>2, <1>3, <1>5, <1>7 DEF CrdInv
<1> QED
  BY <1>1, <1>6, <1>7

\* The steps that put the experiment together and that take it away.
LEMMA CrdSetUpKept ==
  ASSUME CrdInv, pc \in 1..22, NEW s, s = CrdProgram[pc], Note,
         DeleteCrd(s) \/ NewLab(s) \/ DeleteNs(s)
  PROVE  CrdInv'
<1>1. w \in CrdWorlds /\ w.crd \in Crds /\ w.widget \in StoredWidgets /\ loc \in Locs({{}})
  BY DEF CrdInv, CrdWorlds
<1>2. CASE DeleteCrd(s)
  <2> DEFINE new == [w EXCEPT !.crd = NoCrd, !.widget = NoWidget]
  <2>1. pc \in {1, 20} /\ pc + s.esc = 22 /\ loc.run > 0
    BY <1>2, CrdAt DEF DeleteCrd, CrdInv, Prepared
  <2>2. new \in CrdWorlds /\ new.crd = NoCrd /\ new.widget = NoWidget
    BY <1>1, CrdTypes DEF CrdWorlds
  <2>3. CASE Call(s, new)
    <3> HIDE DEF new
    <3>1. Held(new) /\ Prepared(pc + 1, new, loc.run)
      BY <2>1, <2>2 DEF Held, Prepared
    <3> QED
      BY <2>1, <2>2, <2>3, <3>1, CrdCall
  <2>4. CASE Fail(s)
    <3>1. w' = w /\ pc' = 22
      BY <2>1, <2>4 DEF Fail, Raise
    <3>2. loc' \in Locs({{}}) /\ loc'.run = loc.run
      BY <1>1, NoteMem
    <3> QED
      BY <2>1, <3>1, <3>2 DEF CrdInv, Prepared
  <2> QED
    BY <1>2, <2>3, <2>4, Zenon DEF DeleteCrd
<1>3. ASSUME NEW b \in BOOLEAN, s.op \in {"lab", "delete_ns"}, b = (s.op = "lab"), Empty(s, b)
      PROVE  CrdInv'
  <2> DEFINE new == [w EXCEPT !.ns = b, !.secret = 0, !.pod = 0, !.service = FALSE, !.widget = NoWidget]
  <2>1. (pc = 2 /\ b = TRUE) \/ (pc = 21 /\ b = FALSE)
    BY <1>3, CrdAt
  <2>2. w.crd = NoCrd /\ w.widget = NoWidget /\ loc.run > 0
    BY <2>1 DEF CrdInv, Prepared
  <2>3. ~Stuck
    BY <2>2 DEF Stuck
  <2>4. EmptyNs(b) = new
    <3>1. (b \/ Stuck) = b
      BY <2>3
    <3> QED
      BY <2>3, <3>1, Zenon DEF EmptyNs
  <2>5. Call(s, new)
    BY <1>3, <2>3, <2>4, Zenon DEF Empty
  <2>6. new \in CrdWorlds /\ new.ns = b /\ new.crd = NoCrd /\ new.widget = NoWidget
    BY <1>1, <2>2, CrdTypes DEF CrdWorlds
  <2> HIDE DEF new
  <2>7. Held(new) /\ Prepared(pc + 1, new, loc.run)
    BY <2>1, <2>2, <2>6 DEF Held, Prepared
  <2> QED
    BY <2>1, <2>5, <2>6, <2>7, CrdCall
<1>4. CASE NewLab(s)
  BY <1>3, <1>4 DEF NewLab
<1>5. CASE DeleteNs(s)
  BY <1>3, <1>5 DEF DeleteNs
<1> QED
  BY <1>2, <1>4, <1>5

\* The certificate and the webhook.
LEMMA CrdWebhookKept ==
  ASSUME CrdInv, pc \in 1..22, NEW s, s = CrdProgram[pc], Note,
         make_tls(s) \/ CreateSecret(s) \/ RolloutWebhook(s) \/ ApplyService(s) \/ ApplyCrd(s)
  PROVE  CrdInv'
<1>1. /\ w \in CrdWorlds /\ w.crd \in Crds /\ w.widget \in StoredWidgets /\ loc \in Locs({{}})
      /\ loc.run \in Nat /\ w.files \in Nat /\ w.secret \in Nat
  BY DEF CrdInv, CrdWorlds, Locs
<1>2. ASSUME NEW new, pc \in 3..7, Call(s, new), new \in CrdWorlds, new.widget = NoWidget,
             Prepared(pc + 1, new, loc.run)
      PROVE  CrdInv'
  <2>1. Held(new)
    BY <1>2 DEF Held
  <2> QED
    BY <1>2, <2>1, CrdCall
<1>3. CASE make_tls(s)
  <2> DEFINE new == [w EXCEPT !.files = loc.run]
  <2>1. pc = 3 /\ Call(s, new)
    BY <1>3, CrdAt DEF make_tls
  <2>2. /\ new \in CrdWorlds /\ new.widget = w.widget /\ new.crd = w.crd /\ new.files = loc.run
        /\ new.ns = w.ns
    BY <1>1 DEF CrdWorlds
  <2> HIDE DEF new
  <2>3. new.widget = NoWidget /\ Prepared(4, new, loc.run)
    BY <2>1, <2>2 DEF CrdInv, Prepared
  <2> QED
    BY <1>2, <2>1, <2>2, <2>3
<1>4. CASE CreateSecret(s)
  <2> DEFINE new == [w EXCEPT !.secret = w.files]
  <2>1. pc = 4 /\ Call(s, new)
    BY <1>4, CrdAt DEF CreateSecret
  <2>2. /\ new \in CrdWorlds /\ new.widget = w.widget /\ new.crd = w.crd /\ new.files = w.files
        /\ new.ns = w.ns /\ new.secret = w.files
    BY <1>1 DEF CrdWorlds
  <2> HIDE DEF new
  <2>3. new.widget = NoWidget /\ Prepared(5, new, loc.run)
    BY <2>1, <2>2 DEF CrdInv, Prepared
  <2> QED
    BY <1>2, <2>1, <2>2, <2>3
<1>5. CASE RolloutWebhook(s)
  <2> DEFINE new == [w EXCEPT !.pod = w.secret]
  <2>1. pc = 5 /\ Call(s, new)
    BY <1>5, CrdAt DEF RolloutWebhook
  <2>2. /\ new \in CrdWorlds /\ new.widget = w.widget /\ new.crd = w.crd /\ new.files = w.files
        /\ new.ns = w.ns /\ new.secret = w.secret /\ new.pod = w.secret
    BY <1>1 DEF CrdWorlds
  <2> HIDE DEF new
  <2>3. new.widget = NoWidget /\ Prepared(6, new, loc.run)
    BY <2>1, <2>2 DEF CrdInv, Prepared
  <2> QED
    BY <1>2, <2>1, <2>2, <2>3
<1>6. CASE ApplyService(s)
  <2> DEFINE new == [w EXCEPT !.service = TRUE]
  <2>1. pc = 6 /\ Call(s, new)
    BY <1>6, CrdAt DEF ApplyService
  <2>2. /\ new \in CrdWorlds /\ new.widget = w.widget /\ new.crd = w.crd /\ new.files = w.files
        /\ new.ns = w.ns /\ new.secret = w.secret /\ new.pod = w.pod /\ new.service = TRUE
    BY <1>1 DEF CrdWorlds
  <2> HIDE DEF new
  <2>3. new.widget = NoWidget /\ Prepared(7, new, loc.run)
    BY <2>1, <2>2 DEF CrdInv, Prepared
  <2> QED
    BY <1>2, <2>1, <2>2, <2>3
<1>7. CASE ApplyCrd(s)
  <2> DEFINE c == [NoCrd EXCEPT !.exists = TRUE, !.bundle = w.files, !.served = Versions]
             new == [w EXCEPT !.crd = c]
  <2>1. pc = 7 /\ Call(s, new)
    BY <1>7, CrdAt DEF ApplyCrd
  <2>2. c \in Crds /\ c.exists = TRUE /\ c.bundle = w.files
    BY <1>1 DEF NoCrd, Crds, Versions
  <2> HIDE DEF c
  <2>3. /\ new \in CrdWorlds /\ new.widget = w.widget /\ new.crd = c /\ new.files = w.files
        /\ new.ns = w.ns /\ new.secret = w.secret /\ new.pod = w.pod /\ new.service = w.service
    BY <1>1, <2>2 DEF CrdWorlds
  <2> HIDE DEF new
  <2>4. new.widget = NoWidget /\ Prepared(8, new, loc.run)
    BY <2>1, <2>2, <2>3 DEF CrdInv, Prepared
  <2> QED
    BY <1>2, <2>1, <2>3, <2>4
<1> QED
  BY <1>3, <1>4, <1>5, <1>6, <1>7

\* A read of the Widget in version v1beta1.
LEMMA ReadBeta ==
  ASSUME CrdInv, Read(Beta) # NoWidget
  PROVE  Read(Beta) = BetaWidget
<1>1. w.widget \in StoredWidgets
  BY DEF CrdInv, CrdWorlds
<1>2. w.widget # NoWidget
  BY Zenon DEF Read
<1>3. w.widget = AlphaWidget \/ w.widget = BetaWidget
  BY <1>1, <1>2, Zenon DEF StoredWidgets
<1>4. AlphaWidget.version = Alpha /\ BetaWidget.version = Beta /\ Alpha # Beta
  BY DEF AlphaWidget, BetaWidget, Alpha, Beta
<1>5. CASE w.widget = BetaWidget
  BY <1>4, <1>5, Zenon DEF Read
<1>6. CASE w.widget = AlphaWidget
  <2>1. Read(Beta) = do_POST(<<w.widget>>, Beta)[1]
    BY <1>4, <1>6, Zenon DEF Read
  <2>2. do_POST(<<w.widget>>, Beta)[1] = convert_object(w.widget, Beta)
    BY DEF do_POST
  <2> QED
    BY <1>6, <2>1, <2>2, WidgetConverts, Zenon
<1> QED
  BY <1>3, <1>5, <1>6

\* The Widget and its migration.
LEMMA CrdMigrationKept ==
  ASSUME CrdInv, pc \in 1..22, NEW s, s = CrdProgram[pc], Note,
         \/ established(s) \/ ApplyWidget(s) \/ resource_exists(s) \/ CheckBeta(s) \/ SwitchStorage(s)
         \/ storage_is_beta(s) \/ WriteBeta(s) \/ UnserveAlpha(s) \/ alpha_unserved(s)
  PROVE  CrdInv'
<1>1. w \in CrdWorlds /\ w.crd \in Crds /\ w.widget \in StoredWidgets
  BY DEF CrdInv, CrdWorlds
<1>2. pc \in 8..19
  BY CrdAt DEF established, ApplyWidget, resource_exists, CheckBeta, SwitchStorage, storage_is_beta,
               WriteBeta, UnserveAlpha, alpha_unserved
<1>3. ASSUME w' = w, pc' = pc + 1 \/ pc' = pc + s.esc
      PROVE  CrdInv'
  BY <1>1, <1>2, <1>3, CrdServes
<1>4. CASE established(s) \/ resource_exists(s) \/ storage_is_beta(s) \/ alpha_unserved(s) \/ CheckBeta(s)
  <2>1. \E c, h : Await(s, c, h) \/ Require(s, c)
    BY <1>4, Zenon DEF established, resource_exists, storage_is_beta, alpha_unserved, CheckBeta
  <2> QED
    BY <1>3, <2>1, LookOutcome
<1>5. ASSUME NEW x \in StoredWidgets, Call(s, [w EXCEPT !.widget = x])
      PROVE  CrdInv'
  <2> DEFINE new == [w EXCEPT !.widget = x]
  <2>1. /\ new \in CrdWorlds /\ new.crd = w.crd /\ new.files = w.files /\ new.ns = w.ns
        /\ new.secret = w.secret /\ new.pod = w.pod /\ new.service = w.service
    BY <1>1, <1>5 DEF CrdWorlds
  <2> HIDE DEF new
  <2>2. (pc' = pc + 1 /\ w' = new) \/ (pc' = pc + s.esc /\ (w' = w \/ w' = new))
    BY <1>5, CallOutcome DEF new
  <2> QED
    BY <1>2, <2>1, <2>2, CrdServes
<1>6. ASSUME NEW c \in Crds, c.exists = w.crd.exists, c.bundle = w.crd.bundle, Call(s, [w EXCEPT !.crd = c])
      PROVE  CrdInv'
  <2> DEFINE new == [w EXCEPT !.crd = c]
  <2>1. /\ new \in CrdWorlds /\ new.crd = c /\ new.files = w.files /\ new.ns = w.ns
        /\ new.secret = w.secret /\ new.pod = w.pod /\ new.service = w.service
    BY <1>1, <1>6 DEF CrdWorlds
  <2> HIDE DEF new
  <2>2. (pc' = pc + 1 /\ w' = new) \/ (pc' = pc + s.esc /\ (w' = w \/ w' = new))
    BY <1>6, CallOutcome DEF new
  <2> QED
    BY <1>2, <1>6, <2>1, <2>2, CrdServes
<1>7. CASE ApplyWidget(s)
  <2>1. Fail(s) \/ Call(s, [w EXCEPT !.widget = AlphaWidget])
    BY <1>7, WidgetPruned, Zenon DEF ApplyWidget
  <2>2. CASE Fail(s)
    BY <1>3, <2>2, LookOutcome
  <2> QED
    BY <1>5, <2>1, <2>2, CrdTypes
<1>8. CASE WriteBeta(s)
  <2>1. CASE Read(Beta) = NoWidget
    <3>1. Fail(s)
      BY <1>8, <2>1, Zenon DEF WriteBeta
    <3> QED
      BY <1>3, <3>1, LookOutcome
  <2>2. CASE Read(Beta) # NoWidget
    <3>1. Read(Beta) = BetaWidget
      BY <2>2, ReadBeta
    <3>2. Call(s, [w EXCEPT !.widget = convert_object(BetaWidget, w.crd.storage)])
      BY <1>8, <2>2, <3>1, Zenon DEF WriteBeta
    <3>3. w.crd.storage \in Versions
      BY <1>1 DEF Crds
    <3>4. convert_object(BetaWidget, w.crd.storage) \in StoredWidgets
      BY <3>3, WidgetConverts, Zenon DEF Versions, StoredWidgets
    <3> QED
      BY <1>5, <3>2, <3>4
  <2> QED
    BY <2>1, <2>2
<1>9. CASE SwitchStorage(s)
  <2> DEFINE c == [w.crd EXCEPT !.storage = Beta]
  <2>1. Call(s, [w EXCEPT !.crd = c])
    BY <1>9, Zenon DEF SwitchStorage
  <2>2. c \in Crds /\ c.exists = w.crd.exists /\ c.bundle = w.crd.bundle
    BY <1>1 DEF Crds, Versions
  <2> QED
    BY <1>6, <2>1, <2>2
<1>10. CASE UnserveAlpha(s)
  <2> DEFINE c == [w.crd EXCEPT !.served = {Beta}]
  <2>1. Call(s, [w EXCEPT !.crd = c])
    BY <1>10, Zenon DEF UnserveAlpha
  <2>2. c \in Crds /\ c.exists = w.crd.exists /\ c.bundle = w.crd.bundle
    BY <1>1 DEF Crds, Versions
  <2> QED
    BY <1>6, <2>1, <2>2
<1> QED
  BY <1>4, <1>7, <1>8, <1>9, <1>10

\* The API server gets to know the CRD.
LEMMA CrdSyncKept ==
  ASSUME CrdInv, CrdSync
  PROVE  CrdInv'
<1>1. w \in CrdWorlds /\ w.crd \in Crds
  BY DEF CrdInv, CrdWorlds
<1> DEFINE c == [w.crd EXCEPT !.established = TRUE, !.live = w.crd.served,
                              !.stored = w.crd.stored \cup {w.crd.storage}]
           new == [w EXCEPT !.crd = c]
<1>2. w.crd.exists /\ pc' = pc /\ loc' = loc
  BY Zenon DEF CrdSync, Aside
<1>3. w' = new
  <2>1. w' = [w EXCEPT !.crd.established = TRUE, !.crd.live = w.crd.served,
                       !.crd.stored = @ \cup {w.crd.storage}]
    BY Zenon DEF CrdSync
  <2> QED
    BY <1>1, <2>1 DEF CrdWorlds, Crds
<1>4. c \in Crds /\ c.exists = w.crd.exists /\ c.bundle = w.crd.bundle
  BY <1>1 DEF Crds
<1> HIDE DEF c
<1>5. /\ new \in CrdWorlds /\ new.crd = c /\ new.files = w.files /\ new.ns = w.ns
      /\ new.secret = w.secret /\ new.pod = w.pod /\ new.service = w.service /\ new.widget = w.widget
  BY <1>1, <1>4 DEF CrdWorlds
<1> HIDE DEF new
<1>6. w.crd # NoCrd
  BY <1>2, CrdTypes
<1>7. Held(new) /\ Prepared(pc, new, loc.run)
  BY <1>2, <1>4, <1>5, <1>6 DEF CrdInv, Held, Prepared
<1> QED
  BY <1>2, <1>3, <1>5, <1>7 DEF CrdInv

LEMMA CrdKept ==
  ASSUME CrdInv, CrdNext
  PROVE  CrdInv'
<1>1. ASSUME NEW s, StartRun \/ EndRun(s) \/ KillRun
      PROVE  CrdInv'
  <2>1. loc' \in Locs({{}}) /\ w' = w /\ (pc' = 0 \/ (pc' = 1 /\ loc'.run > 0))
    BY <1>1, RunKeeps DEF CrdInv
  <2> QED
    BY <2>1 DEF CrdInv, Prepared
<1>2. ASSUME CrdStep
      PROVE  CrdInv'
  <2> DEFINE s == CrdProgram[pc]
  <2>1. pc \in 1..22
    BY <1>2 DEF CrdInv, CrdStep, Idle
  <2>2. \/ /\ \/ DeleteCrd(s) \/ NewLab(s) \/ make_tls(s) \/ CreateSecret(s) \/ RolloutWebhook(s)
              \/ ApplyService(s) \/ ApplyCrd(s) \/ established(s) \/ ApplyWidget(s)
              \/ resource_exists(s) \/ CheckBeta(s) \/ SwitchStorage(s) \/ storage_is_beta(s)
              \/ WriteBeta(s) \/ UnserveAlpha(s) \/ alpha_unserved(s) \/ DeleteNs(s)
           /\ Note
        \/ EndRun(s)
    BY <1>2, Zenon DEF CrdStep
  <2>3. CASE EndRun(s)
    BY <1>1, <2>3
  <2> HIDE DEF s
  <2> QED
    BY <2>1, <2>2, <2>3, CrdSetUpKept, CrdWebhookKept, CrdMigrationKept DEF s
<1> QED
  BY <1>1, <1>2, CrdSyncKept DEF CrdNext

LEMMA CrdInvariant == Spec => [](lab = "crd" => CrdInv)
<1> DEFINE Inv == lab = "crd" => CrdInv
<1>1. Init => Inv
  <2>1. ASSUME Init, lab = "crd"
        PROVE  CrdInit
    BY <2>1 DEF Init
  <2>2. ASSUME CrdInit
        PROVE  CrdInv
    <3>1. pc = 0 /\ w = Cluster /\ loc = [run |-> 0, clean |-> TRUE, verdict |-> "none", mem |-> {}]
      BY <2>2, Zenon DEF CrdInit, FirstRun
    <3>2. loc \in Locs({{}})
      BY <3>1 DEF Locs
    <3>3. Held(w) /\ Prepared(0, w, loc.run)
      BY <3>1, CrdTypes DEF Held, Prepared
    <3> QED
      BY <3>1, <3>2, <3>3, CrdTypes DEF CrdInv
  <2> QED
    BY <2>1, <2>2
<1>2. Inv /\ [Next]_scriptVars => Inv'
  <2> SUFFICES ASSUME Inv, [Next]_scriptVars, lab' = "crd"
               PROVE  CrdInv'
    BY Zenon
  <2>1. CASE Next
    <3>1. lab = "crd" /\ CrdNext
      BY <2>1 DEF Next
    <3> QED
      BY <3>1, CrdKept
  <2>2. CASE UNCHANGED scriptVars
    BY <2>2 DEF scriptVars, CrdInv, Held, Prepared
  <2> QED
    BY <2>1, <2>2
<1> QED
  BY <1>1, <1>2, PTL DEF Spec

(* WebhookOutlivesObjects, for every number of runs, of failing calls and  *)
(* of kills: a Widget that is not stored in the storage version of its CRD *)
(* can be converted, because run.py deletes the CRD before it replaces or  *)
(* deletes the namespace of the webhook, and gives the webhook's Pod and   *)
(* the CRD the certificate of the same run.                                *)
THEOREM WidgetsCanBeDeleted == Spec => []WebhookOutlivesObjects
<1>1. (lab = "crd" => CrdInv) => WebhookOutlivesObjects
  BY DEF CrdInv, Held, WebhookOutlivesObjects, Stuck, Reachable
<1> QED
  BY <1>1, CrdInvariant, PTL

(* ConversionRoundTrip: convert_object of webhook.py takes every Widget    *)
(* that a schema accepts to the other version and back without a loss, and *)
(* the Widget the script has applied still has its name and its replicas   *)
(* after the migration, wherever the runs before have stopped.             *)
THEOREM ConversionLosesNothing == Spec => []ConversionRoundTrip
<1>1. ASSUME lab = "crd" => CrdInv
      PROVE  ConversionRoundTrip
  <2> SUFFICES ASSUME lab = "crd", NEW o \in Widgets, NEW v \in Versions
               PROVE  LET there == convert_object(o, v)
                          back == convert_object(there, o.version) IN
                      /\ DOMAIN there.spec = Declared(v)
                      /\ back.spec = [f \in Declared(o.version) |-> get(o.spec, f, 1)]
                      /\ back.status = o.status
                      /\ w.widget # NoWidget /\ w.widget.version = Beta
                         => convert_object(w.widget, Alpha).spec = [label |-> "alpha", replicas |-> 3]
    BY Zenon DEF ConversionRoundTrip
  <2>1. ASSUME w.widget # NoWidget, w.widget.version = Beta
        PROVE  convert_object(w.widget, Alpha).spec = [label |-> "alpha", replicas |-> 3]
    <3>1. w.widget \in StoredWidgets
      BY <1>1 DEF CrdInv, CrdWorlds
    <3>2. AlphaWidget.version # Beta
      BY DEF AlphaWidget, Alpha, Beta
    <3>3. w.widget = BetaWidget
      BY <2>1, <3>1, <3>2, Zenon DEF StoredWidgets
    <3>4. convert_object(w.widget, Alpha) = AlphaWidget
      BY <3>3, WidgetConverts, Zenon
    <3>5. AlphaWidget.spec = [label |-> "alpha", replicas |-> 3]
      BY DEF AlphaWidget
    <3> QED
      BY <3>4, <3>5, Zenon
  <2> QED
    BY <2>1, WidgetsRoundTrip, Zenon
<1> QED
  BY <1>1, CrdInvariant, PTL

----------------------------------------------------------------------------
(* article-pvc-expansion/run.py.                                           *)

ClassNames == {"article-expand", "article-no-expand"}

\* The program: each call raises to the last step.
LEMMA PvcSteps ==
  /\ \A k \in 1..23 : PvcProgram[k].esc = 24 - k
  /\ PvcProgram[1].op = "pvc_lab" /\ PvcProgram[2].op = "driver"
  /\ \A k \in {3, 4} : PvcProgram[k].op = "class" /\ PvcProgram[k].name \in ClassNames
  /\ PvcProgram[5].op = "pvc_expand" /\ PvcProgram[6].op = "bound_expand"
  /\ \A k \in {7, 13} : PvcProgram[k].op = "writer" /\ PvcProgram[k + 1].op = "writer_ready"
  /\ PvcProgram[9].op = "write_proof" /\ PvcProgram[10].op = "patch_128"
  /\ PvcProgram[11].op = "resize_pending" /\ PvcProgram[12].op = "delete_writer"
  /\ PvcProgram[15].op = "expanded" /\ PvcProgram[16].op = "read_proof" /\ PvcProgram[17].op = "shrink"
  /\ PvcProgram[18].op = "pvc_no_expand" /\ PvcProgram[19].op = "bound_no_expand"
  /\ PvcProgram[20].op = "no_expand" /\ PvcProgram[21].op = "driver_log"
  /\ PvcProgram[22].op = "pvc_ns_gone" /\ PvcProgram[23].op = "delete_classes" /\ PvcProgram[24].op = "exit"
<1> DEFINE body == <<Bare("pvc_lab"), Bare("driver"), StorageClass("article-expand"),
                     StorageClass("article-no-expand"), Bare("pvc_expand"), Bare("bound_expand"),
                     Bare("writer"), Bare("writer_ready"), Bare("write_proof"),
                     Bare("patch_128"), Bare("resize_pending"), Bare("delete_writer"), Bare("writer"),
                     Bare("writer_ready"), Bare("expanded"), Bare("read_proof"), Bare("shrink"),
                     Bare("pvc_no_expand"), Bare("bound_no_expand"), Bare("no_expand"), Bare("driver_log"),
                     Bare("pvc_ns_gone"), Bare("delete_classes")>>
           S == {body[k] : k \in 1..23}
<1>1. body \in Seq(S) /\ Len(body) = 23
  OBVIOUS
<1>2. /\ body[1] = Bare("pvc_lab") /\ body[2] = Bare("driver") /\ body[5] = Bare("pvc_expand")
      /\ body[6] = Bare("bound_expand") /\ body[7] = Bare("writer") /\ body[8] = Bare("writer_ready")
      /\ body[9] = Bare("write_proof") /\ body[10] = Bare("patch_128") /\ body[11] = Bare("resize_pending")
      /\ body[12] = Bare("delete_writer") /\ body[13] = Bare("writer") /\ body[14] = Bare("writer_ready")
      /\ body[15] = Bare("expanded") /\ body[16] = Bare("read_proof") /\ body[17] = Bare("shrink")
      /\ body[18] = Bare("pvc_no_expand") /\ body[19] = Bare("bound_no_expand") /\ body[20] = Bare("no_expand")
      /\ body[21] = Bare("driver_log") /\ body[22] = Bare("pvc_ns_gone") /\ body[23] = Bare("delete_classes")
  OBVIOUS
<1>3. body[3] = StorageClass("article-expand") /\ body[4] = StorageClass("article-no-expand")
  OBVIOUS
<1>4. PvcProgram = Main(body)
  BY Zenon DEF PvcProgram
<1> HIDE DEF body, S
<1>5. /\ \A k \in 1..23 : \A op : body[k] = Bare(op) =>
            PvcProgram[k].op = op /\ PvcProgram[k].esc = 24 - k
      /\ PvcProgram[24].op = "exit"
  <2>1. /\ \A k \in 1..Len(body) : \A op : body[k] = Bare(op) =>
              Main(body)[k].op = op /\ Main(body)[k].esc = Len(body) + 1 - k
        /\ Main(body)[Len(body) + 1].op = "exit"
    BY <1>1, MainStep, Zenon
  <2>2. /\ \A k \in 1..23 : \A op : body[k] = Bare(op) =>
              PvcProgram[k].op = op /\ PvcProgram[k].esc = 23 + 1 - k
        /\ PvcProgram[23 + 1].op = "exit"
    BY <1>1, <1>4, <2>1, Zenon
  <2> QED
    BY <2>2
<1>6. ASSUME NEW k \in 1..23, NEW name \in ClassNames, body[k] = StorageClass(name)
      PROVE  PvcProgram[k].op = "class" /\ PvcProgram[k].name \in ClassNames /\ PvcProgram[k].esc = 24 - k
  <2> DEFINE n == Len(body) + 1 - k
             r == Main(body)[k]
  <2>1. body[k].esc = 0
    BY <1>6 DEF StorageClass
  <2>2. k \in 1..Len(body)
    BY <1>1
  <2>3. r = Open(body[k], n)
    BY <1>1, <2>1, <2>2, MainAt, Zenon
  <2>4. n = 24 - k
    BY <1>1
  <2> HIDE DEF n, r
  <2>5. r = Open(StorageClass(name), n)
    BY <1>6, <2>3, Zenon
  <2>6. r.op = "class" /\ r.esc = n /\ r.name = name
    BY <2>5 DEF StorageClass, Open
  <2> QED
    BY <1>4, <2>4, <2>6, Zenon DEF r
<1>7. \A k \in {3, 4} : PvcProgram[k].op = "class" /\ PvcProgram[k].name \in ClassNames /\ PvcProgram[k].esc = 24 - k
  <2>0. "article-expand" \in ClassNames /\ "article-no-expand" \in ClassNames
    BY Zenon DEF ClassNames
  <2>1. 3 \in 1..23 /\ 4 \in 1..23
    OBVIOUS
  <2>2. PvcProgram[3].op = "class" /\ PvcProgram[3].name \in ClassNames /\ PvcProgram[3].esc = 24 - 3
    BY <1>3, <1>6, <2>0, <2>1, Zenon
  <2>3. PvcProgram[4].op = "class" /\ PvcProgram[4].name \in ClassNames /\ PvcProgram[4].esc = 24 - 4
    BY <1>3, <1>6, <2>0, <2>1, Zenon
  <2> QED
    BY <2>2, <2>3, Zenon
<1>8. \A k \in (1..23) \ {3, 4} : PvcProgram[k].esc = 24 - k
  BY <1>2, <1>5
<1> QED
  BY <1>2, <1>5, <1>7, <1>8

LEMMA PvcAt ==
  ASSUME NEW k \in 1..24
  PROVE  LET op == PvcProgram[k].op IN
         /\ op = "pvc_lab" => k = 1
         /\ op = "driver" => k = 2
         /\ op = "class" => k \in {3, 4} /\ PvcProgram[k].name \in ClassNames
         /\ op = "pvc_expand" => k = 5
         /\ op = "bound_expand" => k = 6
         /\ op = "writer" => k \in {7, 13}
         /\ op = "writer_ready" => k \in {8, 14}
         /\ op = "write_proof" => k = 9
         /\ op = "patch_128" => k = 10
         /\ op = "resize_pending" => k = 11
         /\ op = "delete_writer" => k = 12
         /\ op = "expanded" => k = 15
         /\ op = "read_proof" => k = 16
         /\ op = "shrink" => k = 17
         /\ op = "pvc_no_expand" => k = 18
         /\ op = "bound_no_expand" => k = 19
         /\ op = "no_expand" => k = 20
         /\ op = "driver_log" => k = 21
         /\ op = "pvc_ns_gone" => k = 22
         /\ op = "delete_classes" => k = 23
         /\ op = "exit" => k = 24
         /\ k < 24 => k + PvcProgram[k].esc = 24
BY PvcSteps

ClaimStates ==
  [exists : BOOLEAN, volume : Nat, request : Nat, allocated : Nat, capacity : Nat, pending : BOOLEAN]
NoData == [v \in {} |-> ""]
Data == {NoData} \cup {[v \in {n} |-> "persistent"] : n \in Nat}
PvcWorlds ==
  [ns : BOOLEAN, classes : SUBSET ClassNames, claim : [Claims -> ClaimStates],
   writer : {"none", "starting", "ready"}, data : Data, volumes : Nat, log : SUBSET Nat]
PvcMems == [volume : Nat, evidence : SUBSET Nat]

\* What the driver has allocated lies between the file system and the request.
Fits(c) ==
  /\ c.capacity <= c.allocated /\ c.allocated <= c.request
  /\ c.pending <=> c.capacity < c.allocated
  /\ c.volume = 0 => c.allocated = 0

\* The evidence is of the volume that is remembered, and of a claim whose
\* expansion is over.
Evident(c, m) ==
  /\ m.evidence \subseteq {m.volume}
  /\ m.evidence # {} /\ c.exists => c.capacity = 128 /\ c.request = 128

\* The evidence of an earlier run is forgotten; the volume is known from the
\* first wait on, the request has grown with the patch, the file system after
\* the second wait.
Expanding(k, c, m) ==
  /\ k \in 2..21 => m.evidence = {}
  /\ k \in 7..22 => c.volume = m.volume /\ c.volume # 0
  /\ k \in 11..22 => c.request = 128
  /\ k \in 16..22 => c.capacity = 128

PvcInv ==
  /\ pc \in 0..24 /\ w \in PvcWorlds /\ loc \in Locs(PvcMems)
  /\ Fits(w.claim["expand"]) /\ Evident(w.claim["expand"], loc.mem)
  /\ Expanding(pc, w.claim["expand"], loc.mem)

LEMMA PvcTypes ==
  /\ NoClaim \in ClaimStates /\ NoClaim.exists = FALSE /\ Fits(NoClaim) /\ Storage \in PvcWorlds
  /\ Storage.claim["expand"] = NoClaim /\ PvcMem \in PvcMems /\ PvcMem.evidence = {}
<1>1. NoClaim \in ClaimStates /\ NoClaim.exists = FALSE /\ Fits(NoClaim)
  <2>1. /\ NoClaim \in ClaimStates /\ NoClaim.exists = FALSE /\ NoClaim.capacity = 0 /\ NoClaim.allocated = 0
        /\ NoClaim.request = 0 /\ NoClaim.pending = FALSE
    BY DEF NoClaim, ClaimStates
  <2>2. 0 <= 0 /\ ~(0 < 0)
    OBVIOUS
  <2> QED
    BY <2>1, <2>2 DEF Fits
<1>2. PvcMem \in PvcMems /\ PvcMem.evidence = {}
  BY DEF PvcMem, PvcMems
<1>3. NoData \in Data
  BY Zenon DEF Data
<1>4. Storage = [ns |-> FALSE, classes |-> {}, claim |-> [c \in Claims |-> NoClaim], writer |-> "none",
                 data |-> NoData, volumes |-> 0, log |-> {}]
  BY Zenon DEF Storage, NoData
<1>5. Storage \in PvcWorlds /\ Storage.claim["expand"] = NoClaim
  BY <1>1, <1>3, <1>4 DEF PvcWorlds, Claims
<1> QED
  BY <1>1, <1>2, <1>5

\* A step of the script that ends in world w or new.
LEMMA PvcMoves ==
  ASSUME PvcInv, pc \in 1..23, NEW s, s = PvcProgram[pc], NEW new \in PvcWorlds,
         (pc' = pc + 1 /\ w' = new) \/ (pc' = pc + s.esc /\ (w' = w \/ w' = new)),
         loc' \in Locs(PvcMems), Fits(new.claim["expand"]), Evident(w.claim["expand"], loc'.mem),
         Evident(new.claim["expand"], loc'.mem), Expanding(pc + 1, new.claim["expand"], loc'.mem)
  PROVE  PvcInv'
<1>1. pc + s.esc = 24 /\ pc + 1 \in 0..24
  BY PvcAt
<1>2. \A c : Expanding(24, c, loc'.mem)
  BY DEF Expanding
<1>3. CASE pc' = pc + 1 /\ w' = new
  BY <1>1, <1>3 DEF PvcInv
<1>4. CASE pc' = 24 /\ (w' = w \/ w' = new)
  BY <1>2, <1>4 DEF PvcInv
<1> QED
  BY <1>1, <1>3, <1>4

\* A step that concerns neither the claim nor the memory.
LEMMA PvcMovesOn ==
  ASSUME PvcInv, pc \in {2, 3, 4, 7, 8, 9, 11, 12, 13, 14, 16, 17, 18, 19, 20, 23},
         NEW s, s = PvcProgram[pc], NEW new \in PvcWorlds, new.claim["expand"] = w.claim["expand"],
         (pc' = pc + 1 /\ w' = new) \/ (pc' = pc + s.esc /\ (w' = w \/ w' = new)), Note
  PROVE  PvcInv'
<1>1. loc' \in Locs(PvcMems) /\ loc'.mem = loc.mem
  BY NoteMem DEF PvcInv
<1>2. Expanding(pc + 1, w.claim["expand"], loc.mem)
  BY DEF PvcInv, Expanding
<1>3. Fits(w.claim["expand"]) /\ Evident(w.claim["expand"], loc.mem) /\ pc \in 1..23
  BY DEF PvcInv
<1> QED
  BY <1>1, <1>2, <1>3, PvcMoves

\* A claim is written.
LEMMA ClaimWritten ==
  ASSUME w \in PvcWorlds, NEW c \in Claims, NEW x \in ClaimStates,
         NEW new, new = [w EXCEPT !.claim = [w.claim EXCEPT ![c] = x]]
  PROVE  /\ new \in PvcWorlds /\ new.claim[c] = x
         /\ c # "expand" => new.claim["expand"] = w.claim["expand"]
<1> DEFINE f == [w.claim EXCEPT ![c] = x]
<1>1. f \in [Claims -> ClaimStates] /\ f[c] = x /\ (c # "expand" => f["expand"] = w.claim["expand"])
  BY DEF PvcWorlds, Claims
<1> HIDE DEF f
<1>2. new \in PvcWorlds /\ new.claim = f
  BY <1>1 DEF PvcWorlds, f
<1> QED
  BY <1>1, <1>2

\* The steps that leave the expanding claim alone.
LEMMA PvcOthersKept ==
  ASSUME PvcInv, pc \in 1..24, NEW s, s = PvcProgram[pc],
         \/ ReadDriver(s) \/ apply_global(s) \/ DeleteClasses(s) \/ (pvc(s) /\ s.op = "pvc_no_expand")
         \/ (Bound(s) /\ s.op = "bound_no_expand") \/ consumer(s) \/ WriterReady(s) \/ DeleteWriter(s)
         \/ WriteProof(s) \/ ReadProof(s) \/ Refused(s) \/ resize_pending(s)
  PROVE  PvcInv'
<1>1. w \in PvcWorlds
  BY DEF PvcInv
<1>2. /\ pc \in {2, 3, 4, 7, 8, 9, 11, 12, 13, 14, 16, 17, 18, 19, 20, 23}
      /\ s.op = "class" => s.name \in ClassNames
  BY PvcAt DEF ReadDriver, apply_global, DeleteClasses, consumer, WriterReady, DeleteWriter, WriteProof,
               ReadProof, Refused, resize_pending
<1>3. ASSUME Note, w' = w, pc' = pc + 1 \/ pc' = pc + s.esc
      PROVE  PvcInv'
  BY <1>1, <1>2, <1>3, PvcMovesOn
<1>4. ASSUME Note, NEW new \in PvcWorlds, new.claim["expand"] = w.claim["expand"], Call(s, new)
      PROVE  PvcInv'
  <2>1. (pc' = pc + 1 /\ w' = new) \/ (pc' = pc + s.esc /\ (w' = w \/ w' = new))
    BY <1>4, CallOutcome
  <2> QED
    BY <1>2, <1>4, <2>1, PvcMovesOn
<1>5. CASE ReadDriver(s) \/ ReadProof(s) \/ Refused(s) \/ WriterReady(s) \/ resize_pending(s)
           \/ (Bound(s) /\ s.op = "bound_no_expand")
  <2>1. Note /\ \E c, h : Await(s, c, h) \/ Fail(s) \/ Call(s, w)
    <3>1. CASE Bound(s) /\ s.op = "bound_no_expand"
      BY <3>1 DEF Bound
    <3>2. CASE ReadDriver(s) \/ ReadProof(s) \/ Refused(s) \/ WriterReady(s) \/ resize_pending(s)
      BY <3>2, Zenon DEF ReadDriver, ReadProof, Refused, WriterReady, resize_pending
    <3> QED
      BY <1>5, <3>1, <3>2
  <2>2. CASE Call(s, w)
    BY <1>1, <1>4, <2>1, <2>2
  <2>3. CASE \E c, h : Await(s, c, h) \/ Fail(s)
    BY <1>3, <2>1, <2>3, LookOutcome
  <2> QED
    BY <2>1, <2>2, <2>3
<1>6. CASE apply_global(s)
  <2> DEFINE new == [w EXCEPT !.classes = @ \cup {s.name}]
  <2>1. Note /\ Call(s, new) /\ s.name \in ClassNames
    BY <1>2, <1>6, Zenon DEF apply_global
  <2>2. new \in PvcWorlds /\ new.claim = w.claim
    BY <1>1, <2>1 DEF PvcWorlds
  <2> HIDE DEF new
  <2> QED
    BY <1>4, <2>1, <2>2
<1>7. CASE DeleteClasses(s)
  <2> DEFINE new == [w EXCEPT !.classes = {}]
  <2>1. Note /\ Call(s, new)
    BY <1>7, Zenon DEF DeleteClasses
  <2>2. new \in PvcWorlds /\ new.claim = w.claim
    BY <1>1 DEF PvcWorlds
  <2> HIDE DEF new
  <2> QED
    BY <1>4, <2>1, <2>2
<1>8. CASE pvc(s) /\ s.op = "pvc_no_expand"
  <2> DEFINE x == [NoClaim EXCEPT !.exists = TRUE, !.request = 64]
             new == [w EXCEPT !.claim = [w.claim EXCEPT !["no-expand"] = x]]
  <2>1. Note /\ Call(s, new)
    BY <1>8, Zenon DEF pvc
  <2>2. x \in ClaimStates /\ "no-expand" \in Claims /\ "no-expand" # "expand"
    BY DEF NoClaim, ClaimStates, Claims
  <2> HIDE DEF x
  <2>3. new \in PvcWorlds /\ new.claim["expand"] = w.claim["expand"]
    BY <1>1, <2>2, ClaimWritten
  <2> HIDE DEF new
  <2> QED
    BY <1>4, <2>1, <2>3
<1>9. CASE consumer(s) \/ DeleteWriter(s)
  <2> DEFINE new(x) == [w EXCEPT !.writer = x]
  <2>1. Note /\ (Call(s, new("starting")) \/ Call(s, new("none")))
    BY <1>9, Zenon DEF consumer, DeleteWriter
  <2>2. \A x \in {"starting", "none"} : new(x) \in PvcWorlds /\ new(x).claim = w.claim
    BY <1>1 DEF PvcWorlds
  <2> HIDE DEF new
  <2> QED
    BY <1>4, <2>1, <2>2
<1>10. CASE WriteProof(s)
  <2> DEFINE d == [v \in {w.claim["expand"].volume} |-> "persistent"]
             new == [w EXCEPT !.data = d]
  <2>1. Note /\ Call(s, new)
    BY <1>10, Zenon DEF WriteProof, Expand
  <2>2. d \in Data
    <3>1. w.claim["expand"].volume \in Nat
      BY <1>1 DEF PvcWorlds, Claims, ClaimStates
    <3> QED
      BY <3>1, Zenon DEF Data
  <2> HIDE DEF d
  <2>3. new \in PvcWorlds /\ new.claim = w.claim
    BY <1>1, <2>2 DEF PvcWorlds
  <2> HIDE DEF new
  <2> QED
    BY <1>4, <2>1, <2>3
<1> QED
  BY <1>5, <1>6, <1>7, <1>8, <1>9, <1>10

\* The steps that make, expand and delete the claim, and the evidence.
LEMMA PvcClaimKept ==
  ASSUME PvcInv, pc \in 1..24, NEW s, s = PvcProgram[pc],
         \/ PvcNs(s) \/ (pvc(s) /\ s.op = "pvc_expand") \/ (Bound(s) /\ s.op = "bound_expand")
         \/ Patch128(s) \/ expanded(s) \/ DriverLog(s)
  PROVE  PvcInv'
<1> DEFINE E == w.claim["expand"]
<1>1. /\ w \in PvcWorlds /\ loc \in Locs(PvcMems) /\ loc.mem \in PvcMems /\ E \in ClaimStates
      /\ Fits(E) /\ Evident(E, loc.mem) /\ Expanding(pc, E, loc.mem)
  BY DEF PvcInv, PvcWorlds, Locs, Claims
<1>2. E.capacity \in Nat /\ E.allocated \in Nat /\ E.request \in Nat /\ E.volume \in Nat /\ E.pending \in BOOLEAN
  BY <1>1 DEF ClaimStates
<1>3. CASE PvcNs(s)
  <2> DEFINE b == (s.op = "pvc_lab")
             new == [w EXCEPT !.ns = b, !.claim = [c \in Claims |-> NoClaim], !.writer = "none", !.data = NoData]
  <2>1. Call(s, new) /\ (IF b THEN Set(PvcMem) ELSE Note)
    BY <1>3, Zenon DEF PvcNs, NoData
  <2>2. pc = 1 \/ (pc = 22 /\ ~b)
    BY <1>3, PvcAt DEF PvcNs
  <2>3. b \in BOOLEAN
    BY Zenon
  <2> HIDE DEF b
  <2>4. new \in PvcWorlds /\ new.claim["expand"] = NoClaim
    <3>1. NoData \in Data
      BY Zenon DEF Data
    <3> QED
      BY <1>1, <2>3, <3>1, PvcTypes DEF PvcWorlds, Claims
  <2> HIDE DEF new
  <2>5. CASE b
    <3>1. loc' \in Locs(PvcMems) /\ loc'.mem = PvcMem
      BY <1>1, <2>1, <2>5, PvcTypes, SetMem
    <3>2. Evident(E, PvcMem) /\ Evident(NoClaim, PvcMem)
      BY PvcTypes DEF Evident
    <3>3. Expanding(2, NoClaim, PvcMem)
      BY PvcTypes DEF Expanding
    <3> QED
      BY <2>1, <2>2, <2>4, <2>5, <3>1, <3>2, <3>3, PvcMoves, PvcTypes, CallOutcome
  <2>6. CASE ~b
    <3>1. loc' \in Locs(PvcMems) /\ loc'.mem = loc.mem
      BY <1>1, <2>1, <2>6, NoteMem
    <3>2. Evident(NoClaim, loc.mem)
      BY <1>1, PvcTypes DEF Evident
    <3>3. pc = 22
      BY <1>3, <2>6, PvcAt DEF PvcNs, b
    <3>4. Expanding(23, NoClaim, loc.mem)
      BY DEF Expanding
    <3> QED
      BY <1>1, <2>1, <2>4, <3>1, <3>2, <3>3, <3>4, PvcMoves, PvcTypes, CallOutcome
  <2> QED
    BY <2>5, <2>6
<1>4. CASE pvc(s) /\ s.op = "pvc_expand"
  <2> DEFINE x == [NoClaim EXCEPT !.exists = TRUE, !.request = 64]
             new == [w EXCEPT !.claim = [w.claim EXCEPT !["expand"] = x]]
  <2>1. Note /\ Call(s, new)
    BY <1>4, Zenon DEF pvc
  <2>2. pc = 5 /\ loc.mem.evidence = {}
    BY <1>1, <1>4, PvcAt DEF Expanding
  <2>3. /\ x \in ClaimStates /\ "expand" \in Claims /\ x.capacity = 0 /\ x.allocated = 0 /\ x.request = 64
        /\ x.pending = FALSE
    BY DEF NoClaim, ClaimStates, Claims
  <2> HIDE DEF x
  <2>4. new \in PvcWorlds /\ new.claim["expand"] = x
    BY <1>1, <2>3, ClaimWritten
  <2> HIDE DEF new
  <2>5. Fits(x)
    BY <2>3 DEF Fits
  <2>6. Evident(x, loc.mem) /\ Expanding(6, x, loc.mem)
    BY <2>2 DEF Evident, Expanding
  <2>7. loc' \in Locs(PvcMems) /\ loc'.mem = loc.mem
    BY <1>1, <2>1, NoteMem
  <2> QED
    BY <1>1, <2>1, <2>2, <2>4, <2>5, <2>6, <2>7, PvcMoves, CallOutcome
<1>5. CASE Bound(s) /\ s.op = "bound_expand"
  <2> DEFINE m == [loc.mem EXCEPT !.volume = E.volume]
  <2>1. Await(s, E.volume # 0, FALSE) /\ Set(m)
    BY <1>5, Zenon DEF Bound, Expand
  <2>2. pc = 6 /\ loc.mem.evidence = {}
    BY <1>1, <1>5, PvcAt DEF Expanding
  <2>3. m \in PvcMems /\ m.volume = E.volume /\ m.evidence = {}
    BY <1>1, <1>2, <2>2 DEF PvcMems
  <2>4. E.volume # 0 /\ Call(s, w)
    BY <2>1, Zenon DEF Await
  <2> HIDE DEF m
  <2>5. loc' \in Locs(PvcMems) /\ loc'.mem = m
    BY <1>1, <2>1, <2>3, SetMem
  <2>6. Evident(E, m) /\ Expanding(7, E, m)
    BY <2>3, <2>4 DEF Evident, Expanding
  <2> QED
    BY <1>1, <2>2, <2>4, <2>5, <2>6, PvcMoves, CallOutcome
<1>6. CASE Patch128(s)
  <2> DEFINE x == [w.claim["expand"] EXCEPT !.request = 128]
             new == [w EXCEPT !.claim = [w.claim EXCEPT !["expand"] = x]]
  <2>1. pc = 10 /\ Note /\ loc.mem.evidence = {} /\ E.volume = loc.mem.volume /\ E.volume # 0
    BY <1>1, <1>6, PvcAt DEF Patch128, Expanding
  <2>2. loc' \in Locs(PvcMems) /\ loc'.mem = loc.mem
    BY <1>1, <2>1, NoteMem
  <2>3. CASE Fail(s)
    <3>1. w' = w /\ pc' = 24
      BY <2>1, <2>3, PvcAt DEF Fail, Raise
    <3>2. Expanding(24, E, loc.mem)
      BY DEF Expanding
    <3> QED
      BY <1>1, <2>2, <3>1, <3>2 DEF PvcInv
  <2>4. CASE Admitted("expand", 128) /\ Call(s, new)
    <3>1. 128 >= E.request
      BY <2>4 DEF Admitted
    <3>2. /\ x \in ClaimStates /\ "expand" \in Claims /\ x.capacity = E.capacity /\ x.allocated = E.allocated
          /\ x.request = 128 /\ x.pending = E.pending /\ x.volume = E.volume
      BY <1>1 DEF ClaimStates, Claims
    <3> HIDE DEF x
    <3>3. new \in PvcWorlds /\ new.claim["expand"] = x
      BY <1>1, <3>2, ClaimWritten
    <3> HIDE DEF new, E
    <3>4. Fits(x)
      BY <1>1, <1>2, <3>1, <3>2 DEF Fits
    <3>5. Evident(x, loc.mem) /\ Expanding(11, x, loc.mem)
      BY <2>1, <3>2 DEF Evident, Expanding
    <3> QED
      BY <1>1, <2>1, <2>2, <2>4, <3>3, <3>4, <3>5, PvcMoves, CallOutcome DEF E
  <2> QED
    BY <1>6, <2>3, <2>4, Zenon DEF Patch128
<1>7. CASE expanded(s)
  <2>1. Await(s, E.capacity = 128, FALSE) /\ Note
    BY <1>7, Zenon DEF expanded, Expand
  <2>2. pc = 15 /\ E.request = 128 /\ loc.mem.evidence = {} /\ E.volume = loc.mem.volume /\ E.volume # 0
    BY <1>1, <1>7, PvcAt DEF expanded, Expanding
  <2>3. E.capacity = 128 /\ Call(s, w)
    BY <2>1, Zenon DEF Await
  <2>4. loc' \in Locs(PvcMems) /\ loc'.mem = loc.mem
    BY <1>1, <2>1, NoteMem
  <2>5. Expanding(16, E, loc.mem)
    BY <2>2, <2>3 DEF Expanding
  <2> QED
    BY <1>1, <2>2, <2>3, <2>4, <2>5, PvcMoves, CallOutcome
<1>8. CASE DriverLog(s)
  <2> DEFINE L == ExpandedCalls
             m == [loc.mem EXCEPT !.evidence = L]
  <2>1. (Fail(s) \/ Call(s, w)) /\ Set(m)
    BY <1>8, Zenon DEF DriverLog
  <2>2. /\ pc = 21 /\ E.request = 128 /\ E.capacity = 128 /\ E.volume = loc.mem.volume /\ E.volume # 0
    BY <1>1, <1>8, PvcAt DEF DriverLog, Expanding
  <2>3. L \subseteq {E.volume}
    BY DEF ExpandedCalls, Expand
  <2>4. L \in SUBSET Nat
    BY <1>2, <2>3
  <2> HIDE DEF L
  <2>5. m \in PvcMems /\ m.volume = loc.mem.volume /\ m.evidence = L
    BY <1>1, <2>4 DEF PvcMems
  <2> HIDE DEF m
  <2>6. loc' \in Locs(PvcMems) /\ loc'.mem = m
    BY <1>1, <2>1, <2>5, SetMem
  <2>7. Evident(E, m) /\ Expanding(22, E, m)
    BY <2>2, <2>3, <2>5 DEF Evident, Expanding
  <2>8. w' = w /\ (pc' = pc + 1 \/ pc' = pc + s.esc)
    BY <2>1, LookOutcome, CallOutcome
  <2> QED
    BY <1>1, <2>2, <2>6, <2>7, <2>8, PvcMoves
<1> QED
  BY <1>3, <1>4, <1>5, <1>6, <1>7, <1>8

\* The driver and the kubelet.
LEMMA PvcDriverKept ==
  ASSUME PvcInv, Provisioner \/ Resizer \/ MountVolume
  PROVE  PvcInv'
<1> DEFINE E == w.claim["expand"]
<1>1. /\ w \in PvcWorlds /\ loc \in Locs(PvcMems) /\ loc.mem \in PvcMems /\ E \in ClaimStates
      /\ Fits(E) /\ Evident(E, loc.mem) /\ Expanding(pc, E, loc.mem) /\ w.volumes + 1 \in Nat \ {0}
      /\ w.log \subseteq Nat
  BY DEF PvcInv, PvcWorlds, Locs, Claims
<1>2. /\ E.capacity \in Nat /\ E.allocated \in Nat /\ E.request \in Nat /\ E.volume \in Nat
      /\ E.pending \in BOOLEAN /\ E.exists \in BOOLEAN
  BY <1>1 DEF ClaimStates
<1>3. pc' = pc /\ loc' = loc
  BY Zenon DEF Provisioner, Resizer, MountVolume, Aside
<1>4. ASSUME NEW new \in PvcWorlds, w' = new, Fits(new.claim["expand"]),
             Evident(new.claim["expand"], loc.mem), Expanding(pc, new.claim["expand"], loc.mem)
      PROVE  PvcInv'
  BY <1>3, <1>4 DEF PvcInv
<1>0. /\ {"claim", "log", "writer"} \subseteq DOMAIN w /\ "expand" \in DOMAIN w.claim
      /\ {"allocated", "capacity", "pending"} \subseteq DOMAIN w.claim["expand"]
  BY <1>1 DEF PvcWorlds, ClaimStates, Claims
<1>5. CASE Provisioner
  <2> DEFINE x(c) == [w.claim[c] EXCEPT !.volume = w.volumes + 1, !.capacity = w.claim[c].request,
                                        !.allocated = w.claim[c].request]
             f(c) == [w.claim EXCEPT ![c] = x(c)]
             new(c) == [w EXCEPT !.volumes = w.volumes + 1, !.claim = f(c)]
  <2>1. PICK c \in Claims : w.claim[c].volume = 0 /\ w' = new(c)
    BY <1>5, Zenon DEF Provisioner
  <2>3. w.claim[c] \in ClaimStates
    BY <1>1 DEF PvcWorlds
  <2>4. /\ x(c) \in ClaimStates /\ x(c).exists = w.claim[c].exists /\ x(c).volume = w.volumes + 1
        /\ x(c).request = w.claim[c].request /\ x(c).allocated = w.claim[c].request
        /\ x(c).capacity = w.claim[c].request /\ x(c).pending = w.claim[c].pending
    BY <1>1, <2>3 DEF ClaimStates
  <2> HIDE DEF x
  <2>5. /\ f(c) \in [Claims -> ClaimStates] /\ (c = "expand" => f(c)["expand"] = x(c))
        /\ (c # "expand" => f(c)["expand"] = E)
    BY <1>1, <2>4 DEF PvcWorlds, Claims
  <2> HIDE DEF f
  <2>6. new(c) \in PvcWorlds /\ new(c).claim = f(c)
    BY <1>1, <2>5 DEF PvcWorlds
  <2> HIDE DEF new
  <2>7. CASE c # "expand"
    BY <1>1, <1>4, <2>1, <2>5, <2>6, <2>7
  <2>8. CASE c = "expand"
    <3>1. E.volume = 0 /\ E.allocated = 0 /\ E.capacity = 0 /\ ~E.pending
      BY <1>1, <1>2, <2>1, <2>8 DEF Fits
    <3>2. /\ x(c).exists = E.exists /\ x(c).volume # 0 /\ x(c).request = E.request /\ x(c).allocated = E.request
          /\ x(c).capacity = E.request /\ ~x(c).pending
      BY <1>1, <2>4, <2>8, <3>1
    <3> HIDE DEF E
    <3>3. Fits(x(c))
      BY <1>2, <3>2 DEF Fits
    <3>4. Evident(x(c), loc.mem) /\ Expanding(pc, x(c), loc.mem)
      BY <1>1, <3>1, <3>2 DEF Evident, Expanding
    <3> QED
      BY <1>4, <2>1, <2>5, <2>6, <2>8, <3>3, <3>4
  <2> QED
    BY <2>7, <2>8
<1>6. CASE Resizer
  <2>1. /\ E.volume # 0 /\ E.request > E.allocated
        /\ w' = [w EXCEPT !.claim["expand"].allocated = E.request, !.claim["expand"].pending = TRUE,
                          !.log = @ \cup {E.volume}]
    BY <1>6, Zenon DEF Resizer, Expand
  <2> DEFINE x == [w.claim["expand"] EXCEPT !.allocated = E.request, !.pending = TRUE]
             f == [w.claim EXCEPT !["expand"] = x]
             new == [w EXCEPT !.claim = f, !.log = @ \cup {E.volume}]
  <2>2. w' = new
    <3>1. PICK r, l : r = E.request /\ l = w.log \cup {E.volume}
      OBVIOUS
    <3>2. w' = [w EXCEPT !.claim["expand"].allocated = r, !.claim["expand"].pending = TRUE, !.log = l]
      BY <2>1, <3>1, Zenon
    <3>3. new = [w EXCEPT !.claim = [w.claim EXCEPT !["expand"] = [w.claim["expand"] EXCEPT !.allocated = r,
                                                                                            !.pending = TRUE]],
                          !.log = l]
      BY <3>1, Zenon
    <3>4. [w EXCEPT !.claim["expand"].allocated = r, !.claim["expand"].pending = TRUE, !.log = l]
          = [w EXCEPT !.claim = [w.claim EXCEPT !["expand"] = [w.claim["expand"] EXCEPT !.allocated = r,
                                                                                        !.pending = TRUE]],
                      !.log = l]
      BY <1>0
    <3> QED
      BY <3>2, <3>3, <3>4, Zenon
  <2>3. /\ x \in ClaimStates /\ x.exists = E.exists /\ x.volume = E.volume /\ x.request = E.request
        /\ x.allocated = E.request /\ x.capacity = E.capacity /\ x.pending
    BY <1>1, <1>2 DEF ClaimStates
  <2> HIDE DEF x
  <2>4. f \in [Claims -> ClaimStates] /\ f["expand"] = x
    BY <1>1, <2>3 DEF PvcWorlds, Claims
  <2> HIDE DEF f
  <2>5. new \in PvcWorlds /\ new.claim = f
    BY <1>1, <1>2, <2>4 DEF PvcWorlds
  <2> HIDE DEF new, E
  <2>6. Fits(x)
    BY <1>1, <1>2, <2>1, <2>3 DEF Fits
  <2>7. Evident(x, loc.mem) /\ Expanding(pc, x, loc.mem)
    BY <1>1, <1>2, <2>1, <2>3 DEF Evident, Expanding, Fits
  <2> QED
    BY <1>4, <2>2, <2>4, <2>5, <2>6, <2>7
<1>7. CASE MountVolume
  <2> DEFINE L == IF E.pending THEN w.log \cup {E.volume} ELSE w.log
  <2>1. w' = [w EXCEPT !.writer = "ready", !.claim["expand"].capacity = E.allocated,
                       !.claim["expand"].pending = FALSE, !.log = L]
    BY <1>7, Zenon DEF MountVolume, Expand
  <2>2. L \subseteq Nat
    BY <1>1, <1>2
  <2> HIDE DEF L
  <2> DEFINE x == [w.claim["expand"] EXCEPT !.capacity = E.allocated, !.pending = FALSE]
             f == [w.claim EXCEPT !["expand"] = x]
             new == [w EXCEPT !.writer = "ready", !.claim = f, !.log = L]
  <2>3. w' = new
    <3>1. PICK a : a = E.allocated
      OBVIOUS
    <3>2. w' = [w EXCEPT !.writer = "ready", !.claim["expand"].capacity = a, !.claim["expand"].pending = FALSE,
                         !.log = L]
      BY <2>1, <3>1, Zenon
    <3>3. new = [w EXCEPT !.writer = "ready",
                          !.claim = [w.claim EXCEPT !["expand"] = [w.claim["expand"] EXCEPT !.capacity = a,
                                                                                            !.pending = FALSE]],
                          !.log = L]
      BY <3>1, Zenon
    <3>4. [w EXCEPT !.writer = "ready", !.claim["expand"].capacity = a, !.claim["expand"].pending = FALSE, !.log = L]
          = [w EXCEPT !.writer = "ready",
                      !.claim = [w.claim EXCEPT !["expand"] = [w.claim["expand"] EXCEPT !.capacity = a,
                                                                                        !.pending = FALSE]],
                      !.log = L]
      BY <1>0
    <3> QED
      BY <3>2, <3>3, <3>4, Zenon
  <2>4. /\ x \in ClaimStates /\ x.exists = E.exists /\ x.volume = E.volume /\ x.request = E.request
        /\ x.allocated = E.allocated /\ x.capacity = E.allocated /\ ~x.pending
    BY <1>1, <1>2 DEF ClaimStates
  <2> HIDE DEF x
  <2>5. f \in [Claims -> ClaimStates] /\ f["expand"] = x
    BY <1>1, <2>4 DEF PvcWorlds, Claims
  <2> HIDE DEF f
  <2>6. new \in PvcWorlds /\ new.claim = f
    BY <1>1, <2>2, <2>5 DEF PvcWorlds
  <2> HIDE DEF new, E
  <2>7. Fits(x)
    BY <1>1, <1>2, <2>4 DEF Fits
  <2>8. Evident(x, loc.mem) /\ Expanding(pc, x, loc.mem)
    BY <1>1, <1>2, <2>4 DEF Evident, Expanding, Fits
  <2> QED
    BY <1>4, <2>3, <2>5, <2>6, <2>7, <2>8
<1> QED
  BY <1>5, <1>6, <1>7

LEMMA PvcKept ==
  ASSUME PvcInv, PvcNext
  PROVE  PvcInv'
<1>1. ASSUME NEW s, StartRun \/ EndRun(s) \/ KillRun
      PROVE  PvcInv'
  <2>1. loc' \in Locs(PvcMems) /\ loc'.mem = loc.mem /\ w' = w /\ (pc' = 0 \/ pc' = 1)
    BY <1>1, RunKeeps DEF PvcInv
  <2>2. \A c, m : Expanding(0, c, m) /\ Expanding(1, c, m)
    BY DEF Expanding
  <2> QED
    BY <2>1, <2>2 DEF PvcInv
<1>2. ASSUME PvcStep
      PROVE  PvcInv'
  <2> DEFINE s == PvcProgram[pc]
  <2>1. pc \in 1..24
    BY <1>2 DEF PvcInv, PvcStep, Idle
  <2>2. \/ PvcNs(s) \/ ReadDriver(s) \/ apply_global(s) \/ DeleteClasses(s) \/ pvc(s) \/ Bound(s)
        \/ consumer(s) \/ WriterReady(s) \/ DeleteWriter(s) \/ WriteProof(s) \/ ReadProof(s)
        \/ Patch128(s) \/ Refused(s) \/ resize_pending(s) \/ expanded(s) \/ DriverLog(s) \/ EndRun(s)
    BY <1>2, Zenon DEF PvcStep
  <2>3. CASE EndRun(s)
    BY <1>1, <2>3
  <2> HIDE DEF s
  <2>4. /\ pvc(s) => s.op = "pvc_expand" \/ s.op = "pvc_no_expand"
        /\ Bound(s) => s.op = "bound_expand" \/ s.op = "bound_no_expand"
    BY Zenon DEF pvc, Bound
  <2> QED
    BY <2>1, <2>2, <2>3, <2>4, PvcOthersKept, PvcClaimKept DEF s
<1> QED
  BY <1>1, <1>2, PvcDriverKept DEF PvcNext

(* ExpansionIsOwn, for every number of runs, of failing calls and of       *)
(* kills: what run.py of article-pvc-expansion takes from the driver's log *)
(* is about the volume of its own claim, and the claim reports a pending   *)
(* resize exactly while the file system is smaller than the volume.        *)
THEOREM EvidenceIsOwn == Spec => []ExpansionIsOwn
<1> DEFINE Inv == lab = "pvc" => PvcInv
<1>1. Init => Inv
  <2>1. ASSUME Init, lab = "pvc"
        PROVE  PvcInit
    BY <2>1 DEF Init
  <2>2. ASSUME PvcInit
        PROVE  PvcInv
    <3>1. pc = 0 /\ w = Storage /\ loc = [run |-> 0, clean |-> TRUE, verdict |-> "none", mem |-> PvcMem]
      BY <2>2, Zenon DEF PvcInit, FirstRun
    <3>2. loc \in Locs(PvcMems) /\ loc.mem = PvcMem
      BY <3>1, PvcTypes DEF Locs
    <3>3. Evident(NoClaim, PvcMem) /\ Expanding(0, NoClaim, PvcMem)
      BY PvcTypes DEF Evident, Expanding
    <3> QED
      BY <3>1, <3>2, <3>3, PvcTypes DEF PvcInv
  <2> QED
    BY <2>1, <2>2
<1>2. Inv /\ [Next]_scriptVars => Inv'
  <2> SUFFICES ASSUME Inv, [Next]_scriptVars, lab' = "pvc"
               PROVE  PvcInv'
    BY Zenon
  <2>1. CASE Next
    <3>1. lab = "pvc" /\ PvcNext
      BY <2>1 DEF Next
    <3> QED
      BY <3>1, PvcKept
  <2>2. CASE UNCHANGED scriptVars
    BY <2>2 DEF scriptVars, PvcInv, Fits, Evident, Expanding
  <2> QED
    BY <2>1, <2>2
<1>3. Inv => ExpansionIsOwn
  <2> SUFFICES ASSUME PvcInv
               PROVE  /\ loc.mem.evidence \subseteq {loc.mem.volume}
                      /\ Expand.pending = (Expand.capacity < Expand.allocated)
                      /\ loc.mem.evidence # {} /\ ~Idle /\ Expand.exists => Expand.capacity = 128
    BY Zenon DEF ExpansionIsOwn
  <2>1. Expand.pending \in BOOLEAN
    BY DEF PvcInv, PvcWorlds, Claims, ClaimStates, Expand
  <2>2. (Expand.capacity < Expand.allocated) \in BOOLEAN
    OBVIOUS
  <2>3. Expand.pending <=> Expand.capacity < Expand.allocated
    BY Zenon DEF PvcInv, Fits, Expand
  <2>4. Expand.pending = (Expand.capacity < Expand.allocated)
    BY <2>1, <2>2, <2>3
  <2> QED
    BY <2>4, Zenon DEF PvcInv, Evident, Expand
<1> QED
  BY <1>1, <1>2, <1>3, PTL DEF Spec

----------------------------------------------------------------------------
(* article-image-lifecycle/run.py.                                         *)

\* The program: each call raises to the last step.
LEMMA ImageSteps ==
  /\ \A k \in 1..16 : ImageProgram[k].esc = 17 - k
  /\ ImageProgram[1].op = "image_ns" /\ ImageProgram[2].op = "apply_ok" /\ ImageProgram[3].op = "ready_ok"
  /\ ImageProgram[4].op = "apply_fail" /\ ImageProgram[5].op = "pull_failed"
  /\ ImageProgram[6].op = "images_before" /\ ImageProgram[7].op = "stats"
  /\ ImageProgram[8].op = "size_limit" /\ ImageProgram[9].op = "write_blob"
  /\ ImageProgram[10].op = "docker_build" /\ ImageProgram[11].op = "kind_load"
  /\ ImageProgram[12].op = "images_loaded" /\ ImageProgram[13].op = "restart_kubelet"
  /\ ImageProgram[14].op = "gc_evaluated" /\ ImageProgram[15].op = "images_after"
  /\ ImageProgram[16].op = "image_ns_gone" /\ ImageProgram[17].op = "exit"
<1> DEFINE body == <<Bare("image_ns"), Bare("apply_ok"), Bare("ready_ok"), Bare("apply_fail"),
                     Bare("pull_failed"), Bare("images_before"), Bare("stats"), Bare("size_limit"),
                     Bare("write_blob"), Bare("docker_build"), Bare("kind_load"), Bare("images_loaded"),
                     Bare("restart_kubelet"), Bare("gc_evaluated"), Bare("images_after"),
                     Bare("image_ns_gone")>>
           S == {body[k] : k \in 1..16}
<1>1. body \in Seq(S) /\ Len(body) = 16
  OBVIOUS
<1>2. /\ body[1] = Bare("image_ns") /\ body[2] = Bare("apply_ok") /\ body[3] = Bare("ready_ok")
      /\ body[4] = Bare("apply_fail") /\ body[5] = Bare("pull_failed") /\ body[6] = Bare("images_before")
      /\ body[7] = Bare("stats") /\ body[8] = Bare("size_limit") /\ body[9] = Bare("write_blob")
      /\ body[10] = Bare("docker_build") /\ body[11] = Bare("kind_load") /\ body[12] = Bare("images_loaded")
      /\ body[13] = Bare("restart_kubelet") /\ body[14] = Bare("gc_evaluated")
      /\ body[15] = Bare("images_after") /\ body[16] = Bare("image_ns_gone")
  OBVIOUS
<1>3. ImageProgram = Main(body)
  BY Zenon DEF ImageProgram
<1> HIDE DEF body, S
<1>4. /\ \A k \in 1..16 : \A op : body[k] = Bare(op) =>
            ImageProgram[k].op = op /\ ImageProgram[k].esc = 17 - k
      /\ ImageProgram[17].op = "exit"
  <2>1. /\ \A k \in 1..Len(body) : \A op : body[k] = Bare(op) =>
              Main(body)[k].op = op /\ Main(body)[k].esc = Len(body) + 1 - k
        /\ Main(body)[Len(body) + 1].op = "exit"
    BY <1>1, MainStep, Zenon
  <2>2. /\ \A k \in 1..16 : \A op : body[k] = Bare(op) =>
              ImageProgram[k].op = op /\ ImageProgram[k].esc = 16 + 1 - k
        /\ ImageProgram[16 + 1].op = "exit"
    BY <1>1, <1>3, <2>1, Zenon
  <2> QED
    BY <2>2
<1>5. \A k \in 1..16 : \E op : body[k] = Bare(op)
  BY <1>2
<1> QED
  BY <1>2, <1>4, <1>5

LEMMA ImageAt ==
  ASSUME NEW k \in 1..17
  PROVE  LET op == ImageProgram[k].op IN
         /\ op = "image_ns" => k = 1
         /\ op = "apply_ok" => k = 2
         /\ op = "ready_ok" => k = 3
         /\ op = "apply_fail" => k = 4
         /\ op = "pull_failed" => k = 5
         /\ op = "images_before" => k = 6
         /\ op = "stats" => k = 7
         /\ op = "size_limit" => k = 8
         /\ op = "write_blob" => k = 9
         /\ op = "docker_build" => k = 10
         /\ op = "kind_load" => k = 11
         /\ op = "images_loaded" => k = 12
         /\ op = "restart_kubelet" => k = 13
         /\ op = "gc_evaluated" => k = 14
         /\ op = "images_after" => k = 15
         /\ op = "image_ns_gone" => k = 16
         /\ op = "exit" => k = 17
         /\ k < 17 => k + ImageProgram[k].esc = 17
BY ImageSteps

Pulls ==
  [ok : {"none", "pending", "ready"}, fail : {"none", "pending", "ErrImagePull", "ImagePullBackOff"}]
ImageWorlds ==
  [ns : BOOLEAN, pods : Pulls, capacity : Nat, other : Nat, blob : Nat, built : Nat, images : SUBSET Nat,
   size : Nat, alpine : BOOLEAN, journal : SUBSET Nat, boot : Nat]
ImageMems == [required : Nat, capacity : Nat, used : Nat]

\* A kubelet that is starting has an image to collect, and a reason to.
Filled(x, m) ==
  x.boot # 0 => /\ x.images # {} /\ x.other + x.size > x.capacity \div 100 + 255 * MiB
                /\ m.required <= SizeLimit

\* The kubelet is restarted by step 13 only; until the image is loaded the
\* file system is filled as it was read, then the image is there in addition.
Filling(k, x, m) ==
  /\ k \in 1..13 => x.boot = 0
  /\ k \in 8..11 => m.used = x.other + x.size
  /\ k \in 8..13 => m.capacity = x.capacity /\ m.required = RequiredSize(m.capacity, m.used)
  /\ k \in 9..13 => m.required <= SizeLimit
  /\ k \in {10, 11} => x.blob = m.required
  /\ k \in {12, 13} => x.images # {} /\ x.other + x.size = m.used + m.required

ImageInv ==
  /\ pc \in 0..17 /\ w \in ImageWorlds /\ loc \in Locs(ImageMems)
  /\ "gc" \notin blame => Filled(w, loc.mem) /\ Filling(pc, w, loc.mem)

\* A step of the script that ends in world w or new.
LEMMA ImageMoves ==
  ASSUME ImageInv, pc \in 1..16, NEW s, s = ImageProgram[pc], NEW new \in ImageWorlds,
         (pc' = pc + 1 /\ w' = new) \/ (pc' = pc + s.esc /\ (w' = w \/ w' = new)),
         loc' \in Locs(ImageMems), blame \subseteq blame',
         "gc" \notin blame =>
           Filled(w, loc'.mem) /\ Filled(new, loc'.mem) /\ Filling(pc + 1, new, loc'.mem)
  PROVE  ImageInv'
<1>1. pc + s.esc = 17 /\ pc + 1 \in 0..17
  BY ImageAt
<1>2. \A x : Filling(17, x, loc'.mem)
  BY DEF Filling
<1>3. "gc" \notin blame' => "gc" \notin blame
  OBVIOUS
<1>4. CASE pc' = pc + 1 /\ w' = new
  BY <1>1, <1>3, <1>4 DEF ImageInv
<1>5. CASE pc' = 17 /\ (w' = w \/ w' = new)
  BY <1>2, <1>3, <1>5 DEF ImageInv
<1> QED
  BY <1>1, <1>4, <1>5

\* A step that concerns neither the image file system nor the memory.
LEMMA ImageMovesOn ==
  ASSUME ImageInv, pc \in {2, 3, 4, 5, 6, 10, 12, 14, 15, 16}, NEW s, s = ImageProgram[pc],
         NEW new \in ImageWorlds, new.capacity = w.capacity, new.other = w.other, new.blob = w.blob,
         new.images = w.images, new.size = w.size, new.boot = w.boot, Note, blame \subseteq blame',
         (pc' = pc + 1 /\ w' = new) \/ (pc' = pc + s.esc /\ (w' = w \/ w' = new))
  PROVE  ImageInv'
<1>1. loc' \in Locs(ImageMems) /\ loc'.mem = loc.mem
  BY NoteMem DEF ImageInv
<1>2. "gc" \notin blame => Filled(w, loc.mem) /\ Filled(new, loc.mem)
  BY DEF ImageInv, Filled
<1>3. "gc" \notin blame => Filling(pc + 1, new, loc.mem)
  BY DEF ImageInv, Filling
<1> QED
  BY <1>1, <1>2, <1>3, ImageMoves

\* The steps that leave the image file system alone.
LEMMA ImageOthersKept ==
  ASSUME ImageInv, pc \in 1..17, NEW s, s = ImageProgram[pc],
         \/ (ImageNs(s) /\ s.op = "image_ns_gone") \/ apply_obj(s) \/ ReadyOk(s) \/ pull_failed(s)
         \/ image_present(s) \/ DockerBuild(s) \/ ImagesLoaded(s) \/ gc_evaluated(s)
  PROVE  ImageInv'
<1>1. w \in ImageWorlds /\ w.pods \in Pulls /\ loc \in Locs(ImageMems) /\ loc.run \in Nat
  BY DEF ImageInv, ImageWorlds, Locs
<1>2. pc \in {2, 3, 4, 5, 6, 10, 12, 14, 15, 16}
  BY ImageAt DEF apply_obj, ReadyOk, pull_failed, image_present, DockerBuild, ImagesLoaded, gc_evaluated
<1>3. ASSUME Note, NEW new \in ImageWorlds, Call(s, new), new.capacity = w.capacity, new.other = w.other,
             new.blob = w.blob, new.images = w.images, new.size = w.size, new.boot = w.boot
      PROVE  ImageInv'
  <2>1. (pc' = pc + 1 /\ w' = new) \/ (pc' = pc + s.esc /\ (w' = w \/ w' = new))
    BY <1>3, CallOutcome
  <2>2. blame \subseteq blame'
    BY <1>3, BlameGrows
  <2> QED
    BY <1>2, <1>3, <2>1, <2>2, ImageMovesOn
<1>4. CASE ReadyOk(s) \/ pull_failed(s) \/ image_present(s) \/ ImagesLoaded(s) \/ gc_evaluated(s)
  <2>1. Note /\ \E c, h : Await(s, c, h) \/ Fail(s) \/ Call(s, w)
    BY <1>4, Zenon DEF ReadyOk, pull_failed, image_present, ImagesLoaded, gc_evaluated
  <2>2. CASE Call(s, w)
    BY <1>1, <1>3, <2>1, <2>2
  <2>3. CASE \E c, h : Await(s, c, h) \/ Fail(s)
    <3>1. w' = w /\ (pc' = pc + 1 \/ pc' = pc + s.esc) /\ blame \subseteq blame'
      BY <2>3, LookOutcome, BlameGrows
    <3> QED
      BY <1>1, <1>2, <2>1, <3>1, ImageMovesOn
  <2> QED
    BY <2>1, <2>2, <2>3
<1>5. ASSUME Note, NEW b \in BOOLEAN, NEW p \in Pulls, Call(s, [w EXCEPT !.ns = b, !.pods = p])
      PROVE  ImageInv'
  <2> DEFINE new == [w EXCEPT !.ns = b, !.pods = p]
  <2>1. /\ new \in ImageWorlds /\ new.capacity = w.capacity /\ new.other = w.other /\ new.blob = w.blob
        /\ new.images = w.images /\ new.size = w.size /\ new.boot = w.boot
    BY <1>1 DEF ImageWorlds
  <2> HIDE DEF new
  <2> QED
    BY <1>3, <1>5, <2>1 DEF new
<1>6. CASE ImageNs(s) /\ s.op = "image_ns_gone"
  <2>1. Note /\ Call(s, [w EXCEPT !.ns = FALSE, !.pods = NoPulls])
    BY <1>6 DEF ImageNs
  <2>2. NoPulls \in Pulls
    BY DEF NoPulls, Pulls
  <2> QED
    BY <1>5, <2>1, <2>2
<1>7. ASSUME Note, NEW p \in Pulls, Call(s, [w EXCEPT !.pods = p])
      PROVE  ImageInv'
  <2> DEFINE new == [w EXCEPT !.pods = p]
  <2>1. /\ new \in ImageWorlds /\ new.capacity = w.capacity /\ new.other = w.other /\ new.blob = w.blob
        /\ new.images = w.images /\ new.size = w.size /\ new.boot = w.boot
    BY <1>1 DEF ImageWorlds
  <2> HIDE DEF new
  <2> QED
    BY <1>3, <1>7, <2>1 DEF new
<1>8. CASE apply_obj(s)
  <2> DEFINE p == [w.pods EXCEPT !.ok = "pending"]
             q == [w.pods EXCEPT !.fail = "pending"]
  <2>1. Note /\ (Call(s, [w EXCEPT !.pods = p]) \/ Call(s, [w EXCEPT !.pods = q]))
    BY <1>8, Zenon DEF apply_obj
  <2>2. p \in Pulls /\ q \in Pulls
    BY <1>1 DEF Pulls
  <2> HIDE DEF p, q
  <2> QED
    BY <1>7, <2>1, <2>2
<1>9. CASE DockerBuild(s)
  <2> DEFINE new == [w EXCEPT !.built = loc.run]
  <2>1. Note /\ Call(s, new)
    BY <1>9, Zenon DEF DockerBuild
  <2>2. /\ new \in ImageWorlds /\ new.capacity = w.capacity /\ new.other = w.other /\ new.blob = w.blob
        /\ new.images = w.images /\ new.size = w.size /\ new.boot = w.boot
    BY <1>1 DEF ImageWorlds
  <2> HIDE DEF new
  <2> QED
    BY <1>3, <2>1, <2>2
<1> QED
  BY <1>4, <1>6, <1>8, <1>9

LEMMA RequiredIsNat ==
  ASSUME NEW capacity \in Nat, NEW used \in Nat
  PROVE  RequiredSize(capacity, used) \in Nat
<1>1. capacity \div 100 \in Nat
  OBVIOUS
<1>2. WantedSize(capacity, used) \in Nat
  BY <1>1, SizeAssumption DEF WantedSize, Larger
<1> QED
  BY <1>2, RoundBounds DEF RequiredSize

\* The steps from the first reading to the restart of the kubelet.
LEMMA ImageFillKept ==
  ASSUME ImageInv, pc \in 1..17, NEW s, s = ImageProgram[pc],
         \/ (ImageNs(s) /\ s.op = "image_ns") \/ node_stats(s) \/ CheckLimit(s) \/ WriteBlob(s)
         \/ KindLoad(s) \/ RestartKubelet(s)
  PROVE  ImageInv'
<1>1. /\ w \in ImageWorlds /\ loc \in Locs(ImageMems) /\ loc.run \in Nat /\ loc.mem \in ImageMems
      /\ w.capacity \in Nat /\ w.other \in Nat /\ w.size \in Nat /\ w.blob \in Nat /\ w.built \in Nat
      /\ w.images \subseteq Nat /\ loc.mem.required \in Nat
  BY DEF ImageInv, ImageWorlds, Locs, ImageMems
<1>2. "gc" \notin blame => Filled(w, loc.mem) /\ Filling(pc, w, loc.mem)
  BY DEF ImageInv
<1>3. pc \in 1..13
  BY ImageAt DEF node_stats, CheckLimit, WriteBlob, KindLoad, RestartKubelet
<1>4. "gc" \notin blame => w.boot = 0 /\ \A m : Filled(w, m)
  BY <1>2, <1>3 DEF Filling, Filled
<1>5. ASSUME NEW new \in ImageWorlds, Call(s, new), loc' \in Locs(ImageMems),
             "gc" \notin blame => Filled(new, loc'.mem) /\ Filling(pc + 1, new, loc'.mem)
      PROVE  ImageInv'
  <2>1. (pc' = pc + 1 /\ w' = new) \/ (pc' = pc + s.esc /\ (w' = w \/ w' = new))
    BY <1>5, CallOutcome
  <2>2. blame \subseteq blame'
    BY <1>5, BlameGrows
  <2>3. pc \in 1..16
    BY <1>3
  <2> QED
    BY <1>4, <1>5, <2>1, <2>2, <2>3, ImageMoves
<1>6. CASE ImageNs(s) /\ s.op = "image_ns"
  <2> DEFINE new == [w EXCEPT !.ns = TRUE, !.pods = NoPulls]
  <2>1. Call(s, new) /\ Set(ImageMem) /\ pc = 1
    BY <1>6, ImageAt DEF ImageNs
  <2>2. ImageMem \in ImageMems /\ NoPulls \in Pulls
    BY DEF ImageMem, ImageMems, NoPulls, Pulls
  <2>3. new \in ImageWorlds /\ new.boot = w.boot
    BY <1>1, <2>2 DEF ImageWorlds
  <2> HIDE DEF new
  <2>4. loc' \in Locs(ImageMems)
    BY <1>1, <2>1, <2>2, SetMem
  <2>5. "gc" \notin blame => Filled(new, loc'.mem) /\ Filling(2, new, loc'.mem)
    BY <1>4, <2>3 DEF Filled, Filling
  <2> QED
    BY <1>5, <2>1, <2>3, <2>4, <2>5
<1>7. CASE node_stats(s)
  <2> DEFINE u == w.other + w.size
             r == RequiredSize(w.capacity, u)
             m == [loc.mem EXCEPT !.capacity = w.capacity, !.used = u, !.required = r]
  <2>1. Call(s, w) /\ Set(m)
    BY <1>7, Zenon DEF node_stats, Used
  <2>2. pc = 7
    BY <1>7, ImageAt DEF node_stats
  <2>8. u \in Nat /\ w.capacity \in Nat
    BY <1>1
  <2>3. u \in Nat /\ r \in Nat
    <3> HIDE DEF u
    <3> QED
      BY <2>8, RequiredIsNat, Zenon
  <2> HIDE DEF r
  <2>4. m \in ImageMems /\ m.capacity = w.capacity /\ m.used = w.other + w.size /\ m.required = r
    BY <1>1, <2>3 DEF ImageMems
  <2>5. m.required = RequiredSize(m.capacity, m.used)
    <3> HIDE DEF m
    <3> QED
      BY <2>4 DEF r
  <2> HIDE DEF m
  <2>6. loc' \in Locs(ImageMems) /\ loc'.mem = m
    BY <1>1, <2>1, <2>4, SetMem
  <2>7. "gc" \notin blame => Filling(8, w, m)
    BY <1>4, <2>4, <2>5 DEF Filling
  <2> QED
    BY <1>1, <1>4, <1>5, <2>1, <2>2, <2>6, <2>7
<1>8. CASE CheckLimit(s)
  <2>1. pc = 8 /\ Note /\ Require(s, loc.mem.required <= SizeLimit)
    BY <1>8, ImageAt DEF CheckLimit
  <2>2. loc' \in Locs(ImageMems) /\ loc'.mem = loc.mem
    BY <1>1, <2>1, NoteMem
  <2>3. w' = w /\ blame' = blame
    BY <2>1, Zenon DEF Require, Fail
  <2>4. CASE loc.mem.required <= SizeLimit
    <3>1. pc' = 9
      BY <2>1, <2>4 DEF Require, Return
    <3>2. "gc" \notin blame => Filling(9, w, loc.mem)
      BY <1>2, <2>1, <2>4 DEF Filling
    <3> QED
      BY <1>1, <1>2, <2>2, <2>3, <3>1, <3>2 DEF ImageInv
  <2>5. CASE ~(loc.mem.required <= SizeLimit)
    <3>1. pc' = pc + s.esc
      BY <2>1, <2>5, Zenon DEF Require, Fail, Raise
    <3>2. pc' = 17
      BY <2>1, <3>1, ImageAt
    <3>3. Filling(17, w, loc.mem)
      BY DEF Filling
    <3> QED
      BY <1>1, <1>2, <2>2, <2>3, <3>2, <3>3 DEF ImageInv
  <2> QED
    BY <2>4, <2>5
<1>9. CASE WriteBlob(s)
  <2> DEFINE new == [w EXCEPT !.blob = loc.mem.required]
  <2>1. Call(s, new) /\ Note /\ pc = 9
    BY <1>9, ImageAt DEF WriteBlob
  <2>2. /\ new \in ImageWorlds /\ new.boot = w.boot /\ new.other = w.other /\ new.size = w.size
        /\ new.capacity = w.capacity /\ new.blob = loc.mem.required
    BY <1>1 DEF ImageWorlds
  <2> HIDE DEF new
  <2>3. loc' \in Locs(ImageMems) /\ loc'.mem = loc.mem
    BY <1>1, <2>1, NoteMem
  <2>4. "gc" \notin blame => Filled(new, loc.mem) /\ Filling(10, new, loc.mem)
    BY <1>2, <1>4, <2>1, <2>2 DEF Filled, Filling
  <2> QED
    BY <1>5, <2>1, <2>2, <2>3, <2>4
<1>10. CASE KindLoad(s)
  <2> DEFINE new == [w EXCEPT !.images = @ \cup {w.built}, !.size = @ + w.blob]
  <2>1. Call(s, new) /\ Note /\ pc = 11
    BY <1>10, ImageAt DEF KindLoad
  <2>2. /\ new \in ImageWorlds /\ new.boot = w.boot /\ new.other = w.other /\ new.size = w.size + w.blob
        /\ new.capacity = w.capacity /\ new.images = w.images \cup {w.built}
    <3>1. w.images \cup {w.built} \in SUBSET Nat /\ w.size + w.blob \in Nat
      BY <1>1
    <3> QED
      BY <1>1, <3>1 DEF ImageWorlds
  <2> HIDE DEF new
  <2>3. loc' \in Locs(ImageMems) /\ loc'.mem = loc.mem
    BY <1>1, <2>1, NoteMem
  <2>4. "gc" \notin blame => new.images # {} /\ new.other + new.size = loc.mem.used + loc.mem.required
    BY <1>1, <1>2, <2>1, <2>2 DEF Filling
  <2>5. "gc" \notin blame => Filled(new, loc.mem) /\ Filling(12, new, loc.mem)
    BY <1>2, <1>4, <2>1, <2>2, <2>4 DEF Filled, Filling
  <2> QED
    BY <1>5, <2>1, <2>2, <2>3, <2>5
<1>11. CASE RestartKubelet(s)
  <2> DEFINE new == [w EXCEPT !.boot = loc.run]
  <2>1. Call(s, new) /\ Note /\ pc = 13
    BY <1>11, ImageAt DEF RestartKubelet
  <2>2. /\ new \in ImageWorlds /\ new.other = w.other /\ new.size = w.size
        /\ new.capacity = w.capacity /\ new.images = w.images
    BY <1>1 DEF ImageWorlds
  <2> HIDE DEF new
  <2>3. loc' \in Locs(ImageMems) /\ loc'.mem = loc.mem
    BY <1>1, <2>1, NoteMem
  <2>4. loc.mem.used \in Nat /\ loc.mem.capacity \in Nat
    BY <1>1 DEF ImageMems
  <2>5. loc.mem.used + RequiredSize(loc.mem.capacity, loc.mem.used) > loc.mem.capacity \div 100 + 255 * MiB
    BY <2>4, RequiredSuffices
  <2>6. "gc" \notin blame => Filled(new, loc.mem) /\ Filling(14, new, loc.mem)
    BY <1>2, <2>1, <2>2, <2>5 DEF Filled, Filling
  <2> QED
    BY <1>5, <2>1, <2>2, <2>3, <2>6
<1> QED
  BY <1>6, <1>7, <1>8, <1>9, <1>10, <1>11

\* The kubelet, which pulls, starts and collects.
LEMMA ImageKubeletKept ==
  ASSUME ImageInv, ImageKubelet \/ KubeletBoot \/ PeriodicGc
  PROVE  ImageInv'
<1>1. /\ w \in ImageWorlds /\ w.pods \in Pulls /\ loc \in Locs(ImageMems) /\ pc \in 0..17
      /\ w.boot \in Nat /\ w.journal \subseteq Nat /\ loc.run \in Nat /\ w.alpine \in BOOLEAN
  BY DEF ImageInv, ImageWorlds, Locs
<1>2. "gc" \notin blame => Filled(w, loc.mem) /\ Filling(pc, w, loc.mem)
  BY DEF ImageInv
<1>3. CASE ImageKubelet
  <2>1. pc' = pc /\ loc' = loc /\ blame' = blame
    BY <1>3, Zenon DEF ImageKubelet, Aside
  <2>2. ASSUME NEW p \in Pulls, NEW a \in BOOLEAN, w' = [w EXCEPT !.pods = p, !.alpine = a]
        PROVE  ImageInv'
    <3>1. /\ w' \in ImageWorlds /\ w'.boot = w.boot /\ w'.other = w.other /\ w'.size = w.size
          /\ w'.capacity = w.capacity /\ w'.images = w.images /\ w'.blob = w.blob
      BY <1>1, <2>2 DEF ImageWorlds
    <3>2. "gc" \notin blame => Filled(w', loc.mem) /\ Filling(pc, w', loc.mem)
      BY <1>2, <3>1 DEF Filled, Filling
    <3> QED
      BY <1>1, <2>1, <3>1, <3>2 DEF ImageInv
  <2>3. \/ w' = [w EXCEPT !.pods.ok = "ready", !.alpine = TRUE]
        \/ w' = [w EXCEPT !.pods.fail = "ErrImagePull"]
        \/ w' = [w EXCEPT !.pods.fail = "ImagePullBackOff"]
    BY <1>3, Zenon DEF ImageKubelet
  <2> DEFINE p1 == [w.pods EXCEPT !.ok = "ready"]
             p2 == [w.pods EXCEPT !.fail = "ErrImagePull"]
             p3 == [w.pods EXCEPT !.fail = "ImagePullBackOff"]
  <2>4. \/ w' = [w EXCEPT !.pods = p1, !.alpine = TRUE]
        \/ w' = [w EXCEPT !.pods = p2, !.alpine = w.alpine]
        \/ w' = [w EXCEPT !.pods = p3, !.alpine = w.alpine]
    BY <1>1, <2>3 DEF ImageWorlds, Pulls
  <2>5. p1 \in Pulls /\ p2 \in Pulls /\ p3 \in Pulls
    BY <1>1 DEF Pulls
  <2> HIDE DEF p1, p2, p3
  <2> QED
    BY <1>1, <2>2, <2>4, <2>5
<1>4. Collected \in ImageWorlds /\ Collected.journal = w.journal
  BY <1>1 DEF Collected, ImageWorlds
<1>5. CASE KubeletBoot
  <2> DEFINE x == IF OverThreshold THEN Collected ELSE w
             j == IF OverThreshold THEN w.journal \cup {w.boot} ELSE w.journal
  <2>1. w.boot # 0 /\ pc' = pc /\ loc' = loc /\ blame' = blame
    BY <1>5, Zenon DEF KubeletBoot, Aside
  <2>2. x \in ImageWorlds /\ j \in SUBSET Nat /\ x.journal = w.journal
    BY <1>1, <1>4
  <2>3. w' = [x EXCEPT !.boot = 0, !.journal = IF OverThreshold THEN @ \cup {w.boot} ELSE @]
    BY <1>5, Zenon DEF KubeletBoot
  <2>4. w' = [x EXCEPT !.boot = 0, !.journal = IF OverThreshold THEN x.journal \cup {w.boot} ELSE x.journal]
    <3> HIDE DEF x
    <3> QED
      BY <2>2, <2>3 DEF ImageWorlds
  <2>5. w' = [x EXCEPT !.boot = 0, !.journal = j]
    <3> HIDE DEF x
    <3> QED
      BY <2>2, <2>4
  <2> HIDE DEF x, j
  <2>6. w' \in ImageWorlds /\ w'.boot = 0
    BY <2>2, <2>5 DEF ImageWorlds
  <2>7. "gc" \notin blame => pc \notin 1..13
    BY <1>2, <2>1 DEF Filling
  <2>8. "gc" \notin blame => Filled(w', loc.mem) /\ Filling(pc, w', loc.mem)
    BY <2>6, <2>7 DEF Filled, Filling
  <2> QED
    BY <1>1, <2>1, <2>6, <2>8 DEF ImageInv
<1>6. CASE PeriodicGc
  <2>1. /\ pc' = pc /\ loc' = [loc EXCEPT !.clean = FALSE] /\ blame' = blame \cup {"gc"}
        /\ w' = [Collected EXCEPT !.journal = @ \cup {loc.run}]
    BY <1>6, Zenon DEF PeriodicGc, Fault
  <2>2. loc' \in Locs(ImageMems)
    BY <1>1, <2>1 DEF Locs
  <2>3. w' \in ImageWorlds
    <3>1. w.journal \cup {loc.run} \in SUBSET Nat
      BY <1>1
    <3> QED
      BY <1>4, <2>1, <3>1 DEF ImageWorlds
  <2> QED
    BY <1>1, <2>1, <2>2, <2>3 DEF ImageInv
<1> QED
  BY <1>3, <1>5, <1>6

LEMMA ImageKept ==
  ASSUME ImageInv, ImageNext
  PROVE  ImageInv'
<1>1. ASSUME NEW s, (StartRun /\ w.boot = 0) \/ EndRun(s) \/ KillRun
      PROVE  ImageInv'
  <2>1. loc' \in Locs(ImageMems) /\ loc'.mem = loc.mem /\ w' = w /\ (pc' = 0 \/ pc' = 1)
    BY <1>1, RunKeeps DEF ImageInv
  <2>2. blame \subseteq blame'
    BY <1>1, BlameGrows
  <2>3. StartRun => pc' = 1
    BY Zenon DEF StartRun, Begin
  <2>4. EndRun(s) \/ KillRun => pc' = 0
    BY Zenon DEF EndRun, KillRun, Die, Leave
  <2>5. \A x, m : Filling(0, x, m) /\ (x.boot = 0 => Filling(1, x, m))
    BY DEF Filling
  <2>6. Filling(pc', w, loc.mem)
    BY <1>1, <2>3, <2>4, <2>5
  <2>7. "gc" \notin blame' => Filled(w, loc.mem)
    BY <2>2 DEF ImageInv
  <2> QED
    BY <2>1, <2>6, <2>7 DEF ImageInv
<1>2. ASSUME ImageStep
      PROVE  ImageInv'
  <2> DEFINE s == ImageProgram[pc]
  <2>1. pc \in 1..17
    BY <1>2 DEF ImageInv, ImageStep, Idle
  <2>2. \/ ImageNs(s) \/ apply_obj(s) \/ ReadyOk(s) \/ pull_failed(s) \/ image_present(s)
        \/ node_stats(s) \/ CheckLimit(s) \/ WriteBlob(s) \/ DockerBuild(s) \/ KindLoad(s)
        \/ ImagesLoaded(s) \/ RestartKubelet(s) \/ gc_evaluated(s) \/ EndRun(s)
    BY <1>2, Zenon DEF ImageStep
  <2>3. CASE EndRun(s)
    BY <1>1, <2>3
  <2> HIDE DEF s
  <2>4. ImageNs(s) => s.op = "image_ns" \/ s.op = "image_ns_gone"
    BY Zenon DEF ImageNs
  <2> QED
    BY <2>1, <2>2, <2>3, <2>4, ImageOthersKept, ImageFillKept DEF s
<1> QED
  BY <1>1, <1>2, ImageKubeletKept DEF ImageNext, ImageStart

(* ImageForcesCollection, for every number of runs, of failing calls and   *)
(* of kills, whatever the size of a mebibyte: when run.py of               *)
(* article-image-lifecycle restarts the kubelet, an unused image is there  *)
(* and fills the file system 255 MiB beyond the threshold, unless the      *)
(* kubelet has collected images on its own.                                *)
THEOREM RestartForcesCollection == Spec => []ImageForcesCollection
<1> DEFINE Inv == lab = "image" => ImageInv
<1>1. Init => Inv
  <2>1. ASSUME Init, lab = "image"
        PROVE  ImageInit
    BY <2>1 DEF Init
  <2>2. ASSUME ImageInit
        PROVE  ImageInv
    <3>1. pc = 0 /\ loc = [run |-> 0, clean |-> TRUE, verdict |-> "none", mem |-> ImageMem]
      BY <2>2, Zenon DEF ImageInit, FirstRun
    <3>2. PICK fs \in FileSystems : w = ImageNode(fs[1], fs[2])
      BY <2>2, Zenon DEF ImageInit
    <3>3. fs[1] \in Nat /\ fs[2] \in Nat
      BY SizeAssumption DEF FileSystems, GiB
    <3>4. w \in ImageWorlds /\ w.boot = 0
      BY <3>2, <3>3 DEF ImageNode, ImageWorlds, NoPulls, Pulls
    <3>5. loc \in Locs(ImageMems)
      BY <3>1 DEF Locs, ImageMem, ImageMems
    <3>6. Filled(w, loc.mem) /\ Filling(0, w, loc.mem)
      BY <3>4 DEF Filled, Filling
    <3> QED
      BY <3>1, <3>4, <3>5, <3>6 DEF ImageInv
  <2> QED
    BY <2>1, <2>2
<1>2. Inv /\ [Next]_scriptVars => Inv'
  <2> SUFFICES ASSUME Inv, [Next]_scriptVars, lab' = "image"
               PROVE  ImageInv'
    BY Zenon
  <2>1. CASE Next
    <3>1. lab = "image" /\ ImageNext
      BY <2>1 DEF Next
    <3> QED
      BY <3>1, ImageKept
  <2>2. CASE UNCHANGED scriptVars
    BY <2>2 DEF scriptVars, ImageInv, Filled, Filling
  <2> QED
    BY <2>1, <2>2
<1>3. Inv => ImageForcesCollection
  BY Zenon DEF ImageForcesCollection, ImageInv, Filled, Used
<1> QED
  BY <1>1, <1>2, <1>3, PTL DEF Spec

----------------------------------------------------------------------------
(* article-job-cronjob/run.py.                                             *)

LEMMA CronSteps ==
  /\ \A k \in 1..15 : CronProgram[k].esc = 16 - k
  /\ CronProgram[1].op = "cron_lab"
  /\ \A k \in 2..10 : CronProgram[k].op \in {"apply_job", "wait_job", "job_pods"}
  /\ CronProgram[11].op = "apply_cron" /\ CronProgram[12].op = "first_jobs"
  /\ CronProgram[13].op = "sleep" /\ CronProgram[14].op = "overlap"
  /\ CronProgram[15].op = "cron_ns" /\ CronProgram[16].op = "exit"
<1> DEFINE body == <<Bare("cron_lab")>>
                   \o JobSteps("indexed", "Complete", 4) \o JobSteps("policy-fail", "Failed", 1)
                   \o JobSteps("backoff-limit", "Failed", 2)
                   \o <<Bare("apply_cron"), Bare("first_jobs"), Bare("sleep"), Bare("overlap"), Bare("cron_ns")>>
           JobOps == {"apply_job", "wait_job", "job_pods"}
           S == {body[k] : k \in 1..15}
<1>1. body \in Seq(S) /\ Len(body) = 15
  BY DEF JobSteps
<1>2. /\ body[1] = Bare("cron_lab") /\ body[11] = Bare("apply_cron") /\ body[12] = Bare("first_jobs")
      /\ body[13] = Bare("sleep") /\ body[14] = Bare("overlap") /\ body[15] = Bare("cron_ns")
  BY DEF JobSteps
<1>3. /\ body[2] = OfJob("apply_job", "indexed", "Complete", 4)
      /\ body[3] = OfJob("wait_job", "indexed", "Complete", 4)
      /\ body[4] = OfJob("job_pods", "indexed", "Complete", 4)
      /\ body[5] = OfJob("apply_job", "policy-fail", "Failed", 1)
      /\ body[6] = OfJob("wait_job", "policy-fail", "Failed", 1)
      /\ body[7] = OfJob("job_pods", "policy-fail", "Failed", 1)
      /\ body[8] = OfJob("apply_job", "backoff-limit", "Failed", 2)
      /\ body[9] = OfJob("wait_job", "backoff-limit", "Failed", 2)
      /\ body[10] = OfJob("job_pods", "backoff-limit", "Failed", 2)
  BY DEF JobSteps
<1>4. CronProgram = Main(body)
  BY Zenon DEF CronProgram
<1> HIDE DEF body, S
<1>5. \A k \in 2..10 : \E op \in JobOps : \E j, c, n : body[k] = OfJob(op, j, c, n)
  BY <1>3
<1>6. /\ \A k \in 1..15 : body[k].esc = 0 => CronProgram[k] = Open(body[k], 16 - k)
      /\ CronProgram[16].op = "exit"
  <2>1. /\ \A k \in 1..Len(body) : body[k].esc = 0 => Main(body)[k] = Open(body[k], Len(body) + 1 - k)
        /\ Main(body)[Len(body) + 1].op = "exit"
    BY <1>1, MainAt, Zenon
  <2>2. /\ \A k \in 1..15 : body[k].esc = 0 => CronProgram[k] = Open(body[k], 15 + 1 - k)
        /\ CronProgram[15 + 1].op = "exit"
    BY <1>1, <1>4, <2>1, Zenon
  <2>3. \A k \in 1..15 : 15 + 1 - k = 16 - k
    OBVIOUS
  <2> QED
    BY <2>2, <2>3
<1>7. ASSUME NEW k \in 1..15, NEW op, body[k] = Bare(op)
      PROVE  CronProgram[k].op = op /\ CronProgram[k].esc = 16 - k
  <2> DEFINE r == CronProgram[k]
             n == 16 - k
  <2>1. Bare(op).esc = 0
    BY DEF Bare
  <2>2. r = Open(Bare(op), n)
    BY <1>6, <1>7, <2>1, Zenon
  <2> HIDE DEF r, n
  <2>3. r.op = op /\ r.esc = n
    BY <2>2 DEF Bare, Open
  <2> QED
    BY <2>3, Zenon DEF r, n
<1>8. ASSUME NEW k \in 2..10
      PROVE  CronProgram[k].op \in JobOps /\ CronProgram[k].esc = 16 - k
  <2> DEFINE r == CronProgram[k]
             i == 16 - k
  <2>0. PICK op \in JobOps : \E j, c, n : body[k] = OfJob(op, j, c, n)
    BY <1>5, Zenon
  <2>1. PICK j, c, n : body[k] = OfJob(op, j, c, n)
    BY <2>0, Zenon
  <2>2. OfJob(op, j, c, n).esc = 0 /\ k \in 1..15
    BY DEF OfJob
  <2>3. r = Open(OfJob(op, j, c, n), i)
    BY <1>6, <2>1, <2>2, Zenon
  <2> HIDE DEF r, i
  <2>4. r.op = op /\ r.esc = i
    BY <2>3 DEF OfJob, Open
  <2> QED
    BY <2>4, Zenon DEF r, i
<1>9. /\ CronProgram[1].op = "cron_lab" /\ CronProgram[1].esc = 16 - 1
      /\ CronProgram[11].op = "apply_cron" /\ CronProgram[11].esc = 16 - 11
      /\ CronProgram[12].op = "first_jobs" /\ CronProgram[12].esc = 16 - 12
      /\ CronProgram[13].op = "sleep" /\ CronProgram[13].esc = 16 - 13
      /\ CronProgram[14].op = "overlap" /\ CronProgram[14].esc = 16 - 14
      /\ CronProgram[15].op = "cron_ns" /\ CronProgram[15].esc = 16 - 15
  BY <1>2, <1>7
<1>10. \A k \in 1..15 : CronProgram[k].esc = 16 - k
  <2>1. \A k \in 1..15 : k \in 2..10 \/ k \in {1, 11, 12, 13, 14, 15}
    OBVIOUS
  <2> QED
    BY <1>8, <1>9, <2>1
<1> QED
  BY <1>6, <1>8, <1>9, <1>10

LEMMA CronAt ==
  ASSUME NEW k \in 1..16
  PROVE  /\ CronProgram[k].op = "cron_lab" => k = 1
         /\ CronProgram[k].op \in {"apply_job", "wait_job", "job_pods"} => k \in 2..10
         /\ CronProgram[k].op = "apply_cron" => k = 11
         /\ CronProgram[k].op = "first_jobs" => k = 12
         /\ CronProgram[k].op = "sleep" => k = 13
         /\ CronProgram[k].op = "overlap" => k = 14
         /\ CronProgram[k].op = "cron_ns" => k = 15
         /\ CronProgram[k].op = "exit" => k = 16
         /\ k < 16 => k + CronProgram[k].esc = 16
<1>1. k \in 2..10 \/ k \in {1, 11, 12, 13, 14, 15, 16}
  OBVIOUS
<1> QED
  BY <1>1, CronSteps

CronStates ==
  [applied : BOOLEAN, now : Nat, jobs : Nat, end : Nat, seen : Nat, missed : BOOLEAN, skipped : Nat]
CronMems == [until : Nat, exercised : BOOLEAN]

\* The first Job of the CronJob begins at a full minute and outlasts the next.
Punctual(c) ==
  /\ c.jobs = 0 => ~c.missed /\ c.skipped = 0
  /\ c.missed => c.skipped > 0
  /\ c.jobs = 1 => /\ c.seen % 12 = 0 /\ c.seen <= c.now /\ c.end >= c.seen + 15
                   /\ c.now >= c.seen + 12 => c.skipped > 0

\* The script has seen a Job and sleeps beyond the end of one that takes no
\* time to start.
Sleeping(k, c, m) ==
  /\ k \in {13, 14} => c.jobs > 0
  /\ k \in {13, 14} /\ c.jobs = 1 => m.until >= c.seen + 15
  /\ k = 14 => c.now >= m.until

CronInv ==
  /\ pc \in 0..16 /\ w = [job |-> w.job, cron |-> w.cron] /\ w.cron \in CronStates
  /\ loc \in Locs(CronMems) /\ loc.mem.exercised
  /\ Punctual(w.cron) /\ Sleeping(pc, w.cron, loc.mem)

LEMMA InSteps == Seconds(75) = 15 /\ Seconds(10) = 2 /\ Minute = 12 /\ OverlapSleep = 15
BY DEF Seconds, Minute, OverlapSleep

LEMMA CronMoves ==
  ASSUME CronInv, pc \in 1..15, NEW s, s = CronProgram[pc], NEW new,
         (pc' = pc + 1 /\ w' = new) \/ (pc' = pc + s.esc /\ (w' = w \/ w' = new)),
         new = [job |-> new.job, cron |-> new.cron], new.cron \in CronStates, Punctual(new.cron),
         loc' \in Locs(CronMems), loc'.mem.exercised, Sleeping(pc + 1, new.cron, loc'.mem)
  PROVE  CronInv'
<1>1. pc + s.esc = 16 /\ pc + 1 \in 0..16
  BY CronAt
<1>2. \A c, m : Sleeping(16, c, m)
  BY DEF Sleeping
<1>3. CASE pc' = pc + 1 /\ w' = new
  BY <1>1, <1>3 DEF CronInv
<1>4. CASE pc' = 16 /\ (w' = w \/ w' = new)
  BY <1>2, <1>4 DEF CronInv
<1> QED
  BY <1>1, <1>3, <1>4

\* The steps before the CronJob, and those that begin anew.
LEMMA CronOthersKept ==
  ASSUME CronInv, pc \in 1..16, NEW s, s = CronProgram[pc],
         CronLab(s) \/ ApplyJob(s) \/ WaitJob(s) \/ job_pods(s) \/ ApplyCron(s)
  PROVE  CronInv'
<1>1. /\ w = [job |-> w.job, cron |-> w.cron] /\ w.cron \in CronStates /\ loc \in Locs(CronMems)
      /\ loc.mem \in CronMems /\ loc.mem.exercised /\ Punctual(w.cron)
  BY DEF CronInv, Locs
<1>2. \A k \in {2, 3, 4, 5, 6, 7, 8, 9, 10, 11, 12, 16} : \A c, m : Sleeping(k, c, m)
  BY DEF Sleeping
<1>3. NoCron \in CronStates /\ Punctual(NoCron)
  BY DEF NoCron, CronStates, Punctual
<1>4. CASE CronLab(s)
  <2>1. Call(s, JobCluster) /\ Set(CronMem)
    BY <1>4, Zenon DEF CronLab
  <2>2. pc \in {1, 15}
    BY <1>4, CronAt DEF CronLab
  <2>3. CronMem \in CronMems /\ CronMem.exercised
    BY DEF CronMem, CronMems
  <2>4. loc' \in Locs(CronMems) /\ loc'.mem = CronMem
    BY <1>1, <2>1, <2>3, SetMem
  <2>5. JobCluster = [job |-> JobCluster.job, cron |-> JobCluster.cron] /\ JobCluster.cron = NoCron
    BY DEF JobCluster
  <2>6. (pc' = pc + 1 /\ w' = JobCluster) \/ (pc' = pc + s.esc /\ (w' = w \/ w' = JobCluster))
    BY <2>1, CallOutcome
  <2>7. Sleeping(pc + 1, JobCluster.cron, loc'.mem) /\ pc \in 1..15
    BY <1>2, <2>2
  <2> QED
    BY <1>3, <2>3, <2>4, <2>5, <2>6, <2>7, CronMoves
<1>5. ASSUME pc \in 2..11, Note, NEW new, new = [job |-> new.job, cron |-> new.cron],
             new.cron \in CronStates, Punctual(new.cron), Call(s, new) \/ Fail(s)
      PROVE  CronInv'
  <2>1. loc' \in Locs(CronMems) /\ loc'.mem = loc.mem
    BY <1>1, <1>5, NoteMem
  <2>2. (pc' = pc + 1 /\ w' = new) \/ (pc' = pc + s.esc /\ (w' = w \/ w' = new))
    BY <1>5, CallOutcome, Zenon DEF Fail, Raise
  <2>3. Sleeping(pc + 1, new.cron, loc'.mem) /\ pc \in 1..15
    BY <1>2, <1>5
  <2> QED
    BY <1>1, <1>5, <2>1, <2>2, <2>3, CronMoves
<1>6. CASE WaitJob(s) \/ job_pods(s)
  <2>1. Note /\ (Call(s, w) \/ Fail(s))
    BY <1>6, Zenon DEF WaitJob, job_pods, Await
  <2>2. s.op \in {"apply_job", "wait_job", "job_pods"}
    BY <1>6, Zenon DEF WaitJob, job_pods
  <2>3. pc \in 2..11
    BY <2>2, CronAt
  <2> QED
    BY <1>1, <1>5, <2>1, <2>3
<1>7. CASE ApplyJob(s)
  <2> DEFINE j == [w.job EXCEPT ![s.job].applied = TRUE]
             new == [w EXCEPT !.job = j]
  <2>1. Note /\ Call(s, new) /\ s.op \in {"apply_job", "wait_job", "job_pods"}
    BY <1>7, Zenon DEF ApplyJob
  <2>2. pc \in 2..11
    BY <2>1, CronAt
  <2> HIDE DEF j
  <2>3. new = [job |-> j, cron |-> w.cron]
    BY <1>1
  <2> HIDE DEF new
  <2> QED
    BY <1>1, <1>5, <2>1, <2>2, <2>3
<1>8. CASE ApplyCron(s)
  <2> DEFINE c(n) == [NoCron EXCEPT !.applied = TRUE, !.now = n]
             new(n) == [w EXCEPT !.cron = c(n)]
  <2>1. PICK n \in {0, 1, Minute \div 2, Minute - 1} : Note /\ Call(s, new(n))
    BY <1>8, Zenon DEF ApplyCron
  <2>2. n \in Nat
    BY <2>1, InSteps
  <2>3. pc = 11
    BY <1>8, CronAt DEF ApplyCron
  <2>4. c(n) \in CronStates /\ c(n).jobs = 0 /\ ~c(n).missed /\ c(n).skipped = 0
    BY <2>2 DEF NoCron, CronStates
  <2> HIDE DEF c
  <2>5. new(n) = [job |-> w.job, cron |-> c(n)]
    BY <1>1
  <2> HIDE DEF new
  <2>6. Punctual(c(n))
    BY <2>4 DEF Punctual
  <2> QED
    BY <1>5, <2>1, <2>3, <2>4, <2>5, <2>6
<1> QED
  BY <1>4, <1>6, <1>7, <1>8

\* The CronJob is seen, the sleep, and the second look.
LEMMA CronCheckKept ==
  ASSUME CronInv, pc \in 1..16, NEW s, s = CronProgram[pc],
         FirstJobs(s) \/ SleepOver(s) \/ OverlapCheck(s)
  PROVE  CronInv'
<1> DEFINE c == w.cron
<1>1. /\ w = [job |-> w.job, cron |-> w.cron] /\ c \in CronStates /\ loc \in Locs(CronMems)
      /\ loc.mem \in CronMems /\ loc.mem.exercised /\ Punctual(c) /\ Sleeping(pc, c, loc.mem)
  BY DEF CronInv, Locs
<1>2. c.now \in Nat /\ c.seen \in Nat /\ c.jobs \in Nat /\ c.skipped \in Nat /\ loc.mem.until \in Nat
  BY <1>1 DEF CronStates, CronMems
<1>3. ASSUME NEW m \in CronMems, m.exercised, Set(m), Call(s, w) \/ Fail(s), pc \in 1..15,
             pc' = pc + 1 => Sleeping(pc + 1, c, m)
      PROVE  CronInv'
  <2>1. loc' \in Locs(CronMems) /\ loc'.mem = m
    BY <1>1, <1>3, SetMem
  <2>2. w' = w /\ (pc' = pc + 1 \/ pc' = pc + s.esc)
    BY <1>3, CallOutcome, Zenon DEF Fail, Raise
  <2>3. pc + s.esc = 16
    BY <1>3, CronAt
  <2>4. \A x : Sleeping(16, x, m)
    BY DEF Sleeping
  <2> QED
    BY <1>1, <1>3, <2>1, <2>2, <2>3, <2>4 DEF CronInv
<1>4. CASE FirstJobs(s)
  <2> DEFINE u == c.now + OverlapSleep
             m == [loc.mem EXCEPT !.until = u]
  <2>1. Set(m) /\ (Call(s, w) \/ Fail(s)) /\ c.jobs > 0
    BY <1>4, Zenon DEF FirstJobs, cron_jobs
  <2>2. pc = 12
    BY <1>4, CronAt DEF FirstJobs
  <2>3. u \in Nat /\ u = c.now + 15
    BY <1>2, InSteps
  <2> HIDE DEF u
  <2>4. m \in CronMems /\ m.until = u /\ m.exercised = loc.mem.exercised
    BY <1>1, <2>3 DEF CronMems
  <2> HIDE DEF m
  <2>5. Sleeping(13, c, m)
    BY <1>1, <1>2, <2>1, <2>3, <2>4 DEF Sleeping, Punctual
  <2>6. pc \in 1..15 /\ Sleeping(pc + 1, c, m)
    BY <2>2, <2>5
  <2>7. m.exercised
    BY <1>1, <2>4, Zenon
  <2> QED
    BY <1>3, <2>1, <2>4, <2>6, <2>7, Zenon
<1>5. CASE SleepOver(s)
  <2>1. Note /\ Call(s, w) /\ c.now >= loc.mem.until
    BY <1>5, Zenon DEF SleepOver
  <2>2. pc = 13
    BY <1>5, CronAt DEF SleepOver
  <2>3. Sleeping(14, c, loc.mem)
    BY <1>1, <2>1, <2>2 DEF Sleeping
  <2> QED
    BY <1>1, <1>3, <2>1, <2>2, <2>3 DEF Note
<1>6. CASE OverlapCheck(s)
  <2> DEFINE b == (c.jobs = 1 => c.skipped > 0)
             m == [loc.mem EXCEPT !.exercised = b]
  <2>1. Set(m) /\ (Call(s, w) \/ Fail(s))
    BY <1>6, Zenon DEF OverlapCheck, cron_jobs
  <2>2. pc = 14
    BY <1>6, CronAt DEF OverlapCheck
  <2>3. b
    BY <1>1, <1>2, <2>2 DEF Sleeping, Punctual
  <2>4. b \in BOOLEAN
    BY Zenon
  <2> HIDE DEF b
  <2>5. m \in CronMems /\ m.exercised = b
    BY <1>1, <2>4 DEF CronMems
  <2> HIDE DEF m
  <2>6. Sleeping(15, c, m)
    BY DEF Sleeping
  <2>7. pc \in 1..15 /\ Sleeping(pc + 1, c, m)
    BY <2>2, <2>6
  <2>8. m.exercised
    BY <2>3, <2>5, Zenon
  <2> QED
    BY <1>3, <2>1, <2>5, <2>7, <2>8, Zenon
<1> QED
  BY <1>4, <1>5, <1>6

\* Five seconds pass.
LEMMA CronTickKept ==
  ASSUME CronInv, Tick
  PROVE  CronInv'
<1> DEFINE d == w.cron
           c == [d EXCEPT !.now = @ + 1]
           active == c.jobs > 0 /\ c.now < c.end
           due == c.now % Minute = 0 \/ c.missed
           skip == [c EXCEPT !.missed = TRUE, !.skipped = IF c.missed THEN @ ELSE @ + 1]
           start(delay) == [c EXCEPT !.jobs = @ + 1, !.missed = FALSE,
                                     !.end = c.now + delay + Seconds(75), !.seen = c.now]
<1>1. /\ w = [job |-> w.job, cron |-> w.cron] /\ d \in CronStates /\ loc \in Locs(CronMems)
      /\ loc.mem \in CronMems /\ loc.mem.exercised /\ Punctual(d) /\ Sleeping(pc, d, loc.mem) /\ pc \in 0..16
  BY DEF CronInv, Locs
<1>2. /\ d.now \in Nat /\ d.seen \in Nat /\ d.jobs \in Nat /\ d.skipped \in Nat /\ d.end \in Nat
      /\ d.missed \in BOOLEAN /\ d.applied \in BOOLEAN /\ loc.mem.until \in Nat
  BY <1>1 DEF CronStates, CronMems
<1>3. pc' = pc /\ loc' = loc
  BY Zenon DEF Tick, Aside
<1>4. pc \in {12, 13}
  <2>1. pc \in 1..16 /\ CronProgram[pc].op \in {"first_jobs", "sleep"}
    BY <1>1 DEF Tick, Waiting, Idle
  <2> QED
    BY <2>1, CronAt
<1>5. \E delay \in 0..Seconds(10) : w' = [w EXCEPT !.cron = IF due /\ active THEN skip
                                                            ELSE IF due THEN start(delay) ELSE c]
  BY Zenon DEF Tick
<1>6. /\ c \in CronStates /\ c.now = d.now + 1 /\ c.jobs = d.jobs /\ c.end = d.end /\ c.seen = d.seen
      /\ c.missed = d.missed /\ c.skipped = d.skipped
  <2> DEFINE n == d.now + 1
  <2>1. n \in Nat /\ c = [d EXCEPT !.now = n]
    BY <1>1, <1>2 DEF CronStates
  <2> HIDE DEF n, c
  <2> QED
    BY <1>1, <2>1 DEF CronStates, n
<1>7. ASSUME NEW x \in CronStates, w' = [w EXCEPT !.cron = x], Punctual(x),
             pc = 13 => x.jobs > 0, pc = 13 /\ x.jobs = 1 => x.seen = d.seen /\ d.jobs = 1
      PROVE  CronInv'
  <2>1. w' = [job |-> w.job, cron |-> x]
    BY <1>1, <1>7
  <2>2. w' = [job |-> w'.job, cron |-> w'.cron] /\ w'.cron = x
    BY <2>1
  <2>3. Sleeping(pc, x, loc.mem)
    BY <1>1, <1>4, <1>7 DEF Sleeping
  <2> QED
    BY <1>1, <1>3, <1>7, <2>2, <2>3 DEF CronInv
<1> HIDE DEF c
<1>8. (due => c.now % 12 = 0 \/ d.missed) /\ (c.now % 12 = 0 => due)
  BY <1>6, InSteps
<1>9. CASE due /\ active
  <2> DEFINE n == IF c.missed THEN c.skipped ELSE c.skipped + 1
             x == [c EXCEPT !.missed = TRUE, !.skipped = n]
  <2>1. w' = [w EXCEPT !.cron = x]
    <3>1. skip = x
      BY <1>6 DEF CronStates
    <3> QED
      BY <1>5, <1>9, <3>1, Zenon
  <2>2. n \in Nat /\ n > 0
    BY <1>1, <1>2, <1>6 DEF Punctual
  <2> HIDE DEF n
  <2>3. /\ x \in CronStates /\ x.now = d.now + 1 /\ x.jobs = d.jobs /\ x.end = d.end /\ x.seen = d.seen
        /\ x.missed /\ x.skipped = n
    BY <1>6, <2>2 DEF CronStates
  <2> HIDE DEF x
  <2>4. d.jobs > 0
    BY <1>6, <1>9
  <2>5. Punctual(x)
    BY <1>1, <1>2, <2>2, <2>3, <2>4 DEF Punctual
  <2> QED
    BY <1>7, <2>1, <2>3, <2>4, <2>5
<1>10. CASE due /\ ~active
  <2> DEFINE e(delay) == c.now + delay + Seconds(75)
             n == c.jobs + 1
             x(delay) == [c EXCEPT !.jobs = n, !.missed = FALSE, !.end = e(delay), !.seen = c.now]
  <2>1. PICK delay \in 0..Seconds(10) : w' = [w EXCEPT !.cron = x(delay)]
    <3>1. \A delay : start(delay) = x(delay)
      BY <1>6 DEF CronStates
    <3> QED
      BY <1>5, <1>10, <3>1, Zenon
  <2>2. delay \in Nat /\ e(delay) \in Nat /\ n \in Nat /\ n = d.jobs + 1 /\ e(delay) >= c.now + 15 /\ c.now \in Nat
    BY <1>2, <1>6, <2>1, InSteps
  <2> HIDE DEF e, n
  <2>3. /\ x(delay) \in CronStates /\ x(delay).now = c.now /\ x(delay).jobs = n /\ x(delay).end = e(delay)
        /\ x(delay).seen = c.now /\ ~x(delay).missed /\ x(delay).skipped = d.skipped
    BY <1>6, <2>2 DEF CronStates
  <2> HIDE DEF x
  <2>4. d.jobs = 0 => c.now % 12 = 0
    BY <1>1, <1>8, <1>10 DEF Punctual
  <2>5. n # 0 /\ (n = 1 => d.jobs = 0)
    BY <1>2, <2>2
  <2>6. Punctual(x(delay))
    BY <2>2, <2>3, <2>4, <2>5 DEF Punctual
  <2>7. pc = 13 => d.jobs # 0
    BY <1>1 DEF Sleeping
  <2>8. pc = 13 => x(delay).jobs > 0 /\ x(delay).jobs # 1
    BY <1>2, <2>2, <2>3, <2>7
  <2> QED
    BY <1>7, <2>1, <2>3, <2>6, <2>8
<1>11. CASE ~due
  <2>1. w' = [w EXCEPT !.cron = c]
    BY <1>5, <1>11, Zenon
  <2>2. c.now = d.seen + 12 /\ d.seen % 12 = 0 => c.now % 12 = 0
    BY <1>2, <1>6
  <2>3. Punctual(c)
    BY <1>1, <1>2, <1>6, <1>8, <1>11, <2>2 DEF Punctual
  <2>4. pc = 13 => c.jobs > 0
    BY <1>1, <1>6 DEF Sleeping
  <2> QED
    BY <1>6, <1>7, <2>1, <2>3, <2>4
<1> QED
  BY <1>9, <1>10, <1>11

LEMMA CronKept ==
  ASSUME CronInv, CronNext
  PROVE  CronInv'
<1>1. ASSUME NEW s, StartRun \/ EndRun(s) \/ KillRun
      PROVE  CronInv'
  <2>1. loc' \in Locs(CronMems) /\ loc'.mem = loc.mem /\ w' = w /\ (pc' = 0 \/ pc' = 1)
    BY <1>1, RunKeeps DEF CronInv
  <2>2. \A c, m : Sleeping(0, c, m) /\ Sleeping(1, c, m)
    BY DEF Sleeping
  <2> QED
    BY <2>1, <2>2 DEF CronInv
<1>2. ASSUME CronStep
      PROVE  CronInv'
  <2> DEFINE s == CronProgram[pc]
  <2>1. pc \in 1..16
    BY <1>2 DEF CronInv, CronStep, Idle
  <2>2. \/ CronLab(s) \/ ApplyJob(s) \/ WaitJob(s) \/ job_pods(s) \/ ApplyCron(s)
        \/ FirstJobs(s) \/ SleepOver(s) \/ OverlapCheck(s) \/ EndRun(s)
    BY <1>2, Zenon DEF CronStep
  <2>3. CASE EndRun(s)
    BY <1>1, <2>3
  <2> HIDE DEF s
  <2> QED
    BY <2>1, <2>2, <2>3, CronOthersKept, CronCheckKept DEF s
<1>3. ASSUME JobController
      PROVE  CronInv'
  <2>1. pc' = pc /\ loc' = loc
    BY <1>3, Zenon DEF JobController, Aside
  <2>2. \E x : w' = [w EXCEPT !.job = x]
    <3>1. PICK j \in JobNames : StartPod(j) \/ EndPod(j) \/ Conclude(j)
      BY <1>3, Zenon DEF JobController
    <3>2. CASE StartPod(j)
      BY <3>2, Zenon DEF StartPod
    <3>3. CASE EndPod(j)
      BY <3>3, Zenon DEF EndPod
    <3>4. CASE Conclude(j)
      BY <3>4, Zenon DEF Conclude
    <3> QED
      BY <3>1, <3>2, <3>3, <3>4
  <2>3. PICK x : w' = [job |-> x, cron |-> w.cron]
    BY <2>2 DEF CronInv
  <2>4. w' = [job |-> w'.job, cron |-> w'.cron] /\ w'.cron = w.cron
    BY <2>3
  <2> QED
    BY <2>1, <2>4 DEF CronInv
<1> QED
  BY <1>1, <1>2, <1>3, CronTickKept DEF CronNext

(* OverlapIsExercised, for every number of runs, of failing calls and of   *)
(* kills: when the overlap check of run.py of article-job-cronjob finds    *)
(* only the first Job, Forbid has skipped a schedule point, however late   *)
(* within the minute the CronJob came, the Job was seen and its Pod began. *)
THEOREM OverlapWasExercised == Spec => []OverlapIsExercised
<1> DEFINE Inv == lab = "cron" => CronInv
<1>1. Init => Inv
  <2>1. ASSUME Init, lab = "cron"
        PROVE  CronInit
    BY <2>1 DEF Init
  <2>2. ASSUME CronInit
        PROVE  CronInv
    <3>1. pc = 0 /\ loc = [run |-> 0, clean |-> TRUE, verdict |-> "none", mem |-> CronMem]
      BY <2>2, Zenon DEF CronInit, FirstRun
    <3>2. w = [job |-> w.job, cron |-> w.cron] /\ w.cron = NoCron
      BY <2>2 DEF CronInit, JobCluster
    <3>3. NoCron \in CronStates /\ Punctual(NoCron)
      BY DEF NoCron, CronStates, Punctual
    <3>4. loc \in Locs(CronMems) /\ loc.mem.exercised
      BY <3>1 DEF Locs, CronMem, CronMems
    <3>5. Sleeping(0, w.cron, loc.mem)
      BY DEF Sleeping
    <3> QED
      BY <3>1, <3>2, <3>3, <3>4, <3>5 DEF CronInv
  <2> QED
    BY <2>1, <2>2
<1>2. Inv /\ [Next]_scriptVars => Inv'
  <2> SUFFICES ASSUME Inv, [Next]_scriptVars, lab' = "cron"
               PROVE  CronInv'
    BY Zenon
  <2>1. CASE Next
    <3>1. lab = "cron" /\ CronNext
      BY <2>1 DEF Next
    <3> QED
      BY <3>1, CronKept
  <2>2. CASE UNCHANGED scriptVars
    BY <2>2 DEF scriptVars, CronInv, Punctual, Sleeping
  <2> QED
    BY <2>1, <2>2
<1>3. Inv => OverlapIsExercised
  BY Zenon DEF OverlapIsExercised, CronInv
<1> QED
  BY <1>1, <1>2, <1>3, PTL DEF Spec
=============================================================================
