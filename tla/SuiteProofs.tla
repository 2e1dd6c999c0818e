---------------------------- MODULE SuiteProofs ----------------------------
(***************************************************************************)
(* Proofs about the larger scripts, for every number of runs, failing      *)
(* calls and kills: the audit of hpa/advanced/run.py; the two test         *)
(* runners, volcano-hami/run-tests.py and hami-mock-gpu/run-tests.py,      *)
(* whose cases follow one another on one cluster; and the cluster of       *)
(* hpa/advanced/run.py, its types and what the finally blocks of all the   *)
(* scripts leave behind.                                                   *)
(***************************************************************************)
EXTENDS WatchProofs, LoopProofs

----------------------------------------------------------------------------
(* hpa/advanced/run.py: the audit of the case real.                        *)

\* The first steps of real(), up to its look at the broker.
FreshFirst(p) ==
  /\ p[1].op = "drophpa" /\ p[2].op = "scale" /\ p[3].op = "wait"
  /\ p[4].op = "check" /\ p[4].pred = "fresh"

LEMMA ManySteps ==
  ASSUME NEW a, NEW b, NEW c, NEW d, NEW e, NEW f, NEW g
  PROVE  IsSeq(<<a, b, c, d, e, f, g>>, 7)
<1> DEFINE s == <<a, b, c, d, e, f, g>>
<1>1. s = [i \in 1..7 |-> s[i]] /\ 7 \in Nat
  OBVIOUS
<1> HIDE DEF s
<1>2. IsSeq(s, 7)
  BY <1>1, FunctionIsSeq DEF IsSeq
<1> QED
  BY <1>2 DEF s

LEMMA TryIsSeq ==
  ASSUME NEW b, NEW n, NEW f, NEW m, IsSeq(b, n), IsSeq(f, m)
  PROVE  IsSeq(Try(b, f), n + m + 1)
<1> DEFINE S == {b[i] : i \in 1..n}
           F == {f[i] : i \in 1..m}
           U == S \cup F
           t == Try(b, f)
<1>1. b \in Seq(S) /\ f \in Seq(F) /\ Len(b) = n /\ Len(f) = m /\ n \in Nat /\ m \in Nat
  BY DEF IsSeq
<1>2. S \subseteq U /\ F \subseteq U
  OBVIOUS
<1> HIDE DEF S, F, U
<1>3. b \in Seq(U) /\ f \in Seq(U)
  BY <1>1, <1>2, SeqOfMore
<1>4. IsTry(b, f, t)
  BY <1>3, TryAt, Zenon
<1> HIDE DEF t
<1>5. t \in Seq({t[i] : i \in 1..(n + m + 1)}) /\ Len(t) = n + m + 1
  BY <1>1, <1>4, Zenon DEF IsTry
<1>6. n + m + 1 \in Nat
  BY <1>1
<1> QED
  BY <1>5, <1>6, Zenon DEF IsSeq, t

LEMMA RealBegins ==
  FreshFirst(Program("real"))
<1> DEFINE r1 == DropHpa("consumer", FALSE)
           r2 == ScaleTo("consumer", 1)
           r3 == ready("consumer")
           r4 == Check("fresh", "consumer", 0)
           h == <<r1, r2, r3, r4, Enqueue(16, FALSE),
                  Wait("drained", "consumer", 0, 180, FALSE),
                  Apply("consumer", HpaConsumer), steady(1, "consumer"), Enqueue(16, FALSE),
                  wait_for("more", "consumer", 1), wait_for("drained", "consumer", 0),
                  steady(1, "consumer"), Produce(60), wait_for("drained", "consumer", 0),
                  steady(1, "consumer"), Patch("consumer", [min |-> 4]), steady(4, "consumer")>>
           b == <<Follow(TRUE), Enqueue(0, TRUE), wait_for("inflight", "consumer", 0),
                  Patch("consumer", [min |-> 1, window |-> 0]),
                  wait_for("draining", "consumer", 1), wait_for("drained", "consumer", 0),
                  steady(1, "consumer")>>
           f == <<Follow(FALSE)>>
           t == Try(b, f)
           e == <<Check("audit", "consumer", 0)>>
           g == h \o t
           q == g \o e
           p == Program("real")
<1>1. /\ r1.esc = 0 /\ r1.op = "drophpa" /\ r2.esc = 0 /\ r2.op = "scale" /\ r3.esc = 0 /\ r3.op = "wait"
      /\ r4.esc = 0 /\ r4.op = "check" /\ r4.pred = "fresh"
  BY DEF DropHpa, ScaleTo, ready, Wait, Check
<1>2. p = Main(q)
  <2>1. real = q
    BY Zenon DEF real
  <2>2. p = Main(real)
    BY DEF Program
  <2> QED
    BY <2>1, <2>2, Zenon
<1>3. IsSeq(h, 17) /\ h[1] = r1 /\ h[2] = r2 /\ h[3] = r3 /\ h[4] = r4
  <2> HIDE DEF r1, r2, r3, r4
  <2>1. h = [i \in 1..17 |-> h[i]] /\ 17 \in Nat
    OBVIOUS
  <2>2. h[1] = r1 /\ h[2] = r2 /\ h[3] = r3 /\ h[4] = r4
    OBVIOUS
  <2> HIDE DEF h
  <2>3. IsSeq(h, 17)
    BY <2>1, FunctionIsSeq DEF IsSeq
  <2> QED
    BY <2>2, <2>3
<1>4. IsSeq(b, 7)
  BY ManySteps, Zenon
<1>5. IsSeq(f, 1) /\ IsSeq(e, 1)
  BY OneStep, Zenon
<1> HIDE DEF r1, r2, r3, r4, h, b, f, e
<1>6. IsSeq(t, 7 + 1 + 1)
  BY <1>4, <1>5, TryIsSeq, Zenon
<1> HIDE DEF t
<1>7. Joins(h, 17, t, 7 + 1 + 1, g)
  BY <1>3, <1>6, JoinSeqs, Zenon
<1> HIDE DEF g
<1>8. Joins(g, 17 + (7 + 1 + 1), e, 1, q)
  <2>1. IsSeq(g, 17 + (7 + 1 + 1))
    BY <1>7, Zenon DEF Joins
  <2> QED
    BY <1>5, <2>1, JoinSeqs, Zenon
<1> HIDE DEF q
<1>9. IsSeq(q, 27)
  <2>1. IsSeq(q, 17 + (7 + 1 + 1) + 1)
    BY <1>8, Zenon DEF Joins
  <2> QED
    BY <2>1
<1>10. q[1] = r1 /\ q[2] = r2 /\ q[3] = r3 /\ q[4] = r4
  <2>1. \A i \in 1..4 : i \in 1..17 /\ i \in 1..(17 + (7 + 1 + 1))
    OBVIOUS
  <2>2. \A i \in 1..4 : q[i] = h[i]
    BY <1>7, <1>8, <2>1, Zenon DEF Joins
  <2> QED
    BY <1>3, <2>2
<1>11. IsMain(q, 27, p)
  BY <1>2, <1>9, MainOf, Zenon
<1>12. \A k \in 1..4 : q[k].esc = 0 => \E x : p[k] = Open(q[k], x)
  <2>1. \A k \in 1..4 : k \in 1..27
    OBVIOUS
  <2> QED
    BY <1>11, <2>1, Zenon DEF IsMain
<1> HIDE DEF p
<1>13. PICK x1 : p[1] = Open(r1, x1)
  BY <1>1, <1>10, <1>12
<1>14. PICK x2 : p[2] = Open(r2, x2)
  BY <1>1, <1>10, <1>12
<1>15. PICK x3 : p[3] = Open(r3, x3)
  BY <1>1, <1>10, <1>12
<1>16. PICK x4 : p[4] = Open(r4, x4)
  BY <1>1, <1>10, <1>12
<1>17. p[1].op = "drophpa"
  BY <1>13 DEF Open, r1, DropHpa
<1>18. p[2].op = "scale"
  BY <1>14 DEF Open, r2, ScaleTo
<1>19. p[3].op = "wait"
  BY <1>15 DEF Open, r3, ready, Wait
<1>20. p[4].op = "check" /\ p[4].pred = "fresh"
  BY <1>16 DEF Open, r4, Check
<1> QED
  BY <1>17, <1>18, <1>19, <1>20 DEF FreshFirst, p

\* What is known of the tasks that the broker has accepted: from the look at
\* the broker on, and after a PASS, they are of the current run.
AuditKnows == w.accepted \subseteq {loc.run}
AuditInv ==
  /\ "accepted" \in DOMAIN w /\ {"case", "run", "verdict"} \subseteq DOMAIN loc
  /\ raised \/ pc \in Nat
  /\ pc = 0 \/ loc.verdict = "none"
  /\ loc.case = "real" /\ ~raised /\ pc > 4 => AuditKnows
  /\ loc.case = "real" /\ loc.verdict = "PASS" => AuditKnows

\* Nothing but new tasks of the current run joins the accepted ones.
Joining(new) ==
  /\ "accepted" \in DOMAIN new
  /\ new.accepted = w.accepted \/ new.accepted = w.accepted \cup {loc.run}

\* The step goes on, or raises.
GoesOn == raised' \/ (~raised /\ pc' = pc + 1)

\* The record of the run stays.
SameRun ==
  /\ {"case", "run", "verdict"} \subseteq DOMAIN loc'
  /\ loc'.case = loc.case /\ loc'.run = loc.run /\ loc'.verdict = loc.verdict

LEMMA CallJoins ==
  ASSUME "accepted" \in DOMAIN w, NEW s, NEW new, Joining(new), Call(s, new)
  PROVE  Joining(w') /\ GoesOn
<1>1. Joining(w)
  BY DEF Joining
<1>2. w' = w \/ w' = new
  BY Zenon DEF Call
<1>3. Joining(w')
  BY <1>1, <1>2, Zenon
<1>4. (pc' = pc + 1 /\ raised' = raised) \/ raised' = TRUE
  BY Zenon DEF Call, Return, Raise
<1>5. GoesOn
  BY <1>4, Zenon DEF GoesOn
<1> QED
  BY <1>3, <1>5

LEMMA FailJoins ==
  ASSUME "accepted" \in DOMAIN w, NEW s, Fail(s)
  PROVE  Joining(w') /\ GoesOn
<1>1. w' = w /\ raised' = TRUE
  BY Zenon DEF Fail, Raise
<1>2. GoesOn
  BY <1>1, Zenon DEF GoesOn
<1> QED
  BY <1>1, <1>2 DEF Joining

\* The calls of the scenarios.
LEMMA HpaCallJoins ==
  ASSUME "accepted" \in DOMAIN w, NEW s, HpaCall(s)
  PROVE  Joining(w') /\ GoesOn
<1>1. Joining(w)
  BY DEF Joining
<1>2. CASE apply(s) \/ ApplyCopy(s)
  <2>1. PICK spec : ApplyHpa(s, spec)
    BY <1>2, Zenon DEF apply, ApplyCopy
  <2> DEFINE n == w.hpa[s.t].metrics = {}
             new == [w EXCEPT !.hpa[s.t] = spec, !.desired[s.t] = IF n THEN 0 ELSE @,
                              !.active[s.t] = IF n THEN FALSE ELSE @, !.age[s.t] = IF n THEN 0 ELSE @]
  <2>2. Call(s, new)
    BY <2>1, Zenon DEF ApplyHpa
  <2>3. Joining(new)
    BY DEF Joining
  <2> HIDE DEF new
  <2> QED
    BY <2>2, <2>3, CallJoins
<1>3. CASE patch(s)
  <2> DEFINE h == w.hpa[s.t]
             v == [f \in DOMAIN h |-> IF f \in DOMAIN s.fields THEN s.fields[f] ELSE h[f]]
             new == [w EXCEPT !.hpa[s.t] = v]
  <2>1. Call(s, new)
    BY <1>3, Zenon DEF patch
  <2> HIDE DEF v
  <2>2. Joining(new)
    BY DEF Joining
  <2> HIDE DEF new
  <2> QED
    BY <2>1, <2>2, CallJoins
<1>4. CASE DeleteHpa(s)
  <2> DEFINE new == [w EXCEPT !.hpa[s.t] = NoHpa, !.desired[s.t] = 0, !.active[s.t] = FALSE]
  <2>1. Fail(s) \/ Call(s, new)
    BY <1>4, Zenon DEF DeleteHpa
  <2>2. Joining(new)
    BY DEF Joining
  <2> HIDE DEF new
  <2> QED
    BY <2>1, <2>2, CallJoins, FailJoins
<1>5. CASE scale(s) \/ ScaleComponent(s) \/ BlockedDeployment(s)
  <2> DEFINE a == [w EXCEPT !.rep[s.t] = s.n]
             b == [w EXCEPT !.up[s.t] = s.on, !.gauge = IF s.t = "queue" /\ ~s.on THEN 0 ELSE @]
             c == [w EXCEPT !.rep["blocked"] = s.n]
  <2>1. Call(s, a) \/ Call(s, b) \/ Call(s, c)
    BY <1>5, Zenon DEF scale, ScaleComponent, BlockedDeployment
  <2>2. Joining(a) /\ Joining(b) /\ Joining(c)
    BY DEF Joining
  <2> HIDE DEF a, b, c
  <2> QED
    BY <2>1, <2>2, CallJoins
<1>6. CASE gauge(s) \/ LoadDeployment(s) \/ HttpLoadDeployment(s) \/ FollowLogs(s)
  <2> DEFINE a == [w EXCEPT !.gauge = s.n]
             b == [w EXCEPT !.load = s.on]
             c == [w EXCEPT !.rate = s.rate, !.payload = s.payload]
             d == [w EXCEPT !.follow = s.on]
  <2>1. Fail(s) \/ Call(s, a) \/ Call(s, b) \/ Call(s, c) \/ Call(s, d)
    BY <1>6, Zenon DEF gauge, LoadDeployment, HttpLoadDeployment, FollowLogs
  <2>2. Joining(a) /\ Joining(b) /\ Joining(c) /\ Joining(d)
    BY DEF Joining
  <2> HIDE DEF a, b, c, d
  <2> QED
    BY <2>1, <2>2, CallJoins, FailJoins
<1>7. CASE ReadyDelay(s)
  <2> DEFINE new == [w EXCEPT !.slow = s.on, !.warm = IF s.on THEN Longest ELSE 0,
                              !.rep = IF s.on THEN @ ELSE [@ EXCEPT !["web"] = 1, !["consumer"] = 1]]
  <2>1. Call(s, new)
    BY <1>7, Zenon DEF ReadyDelay
  <2>2. Joining(new)
    BY DEF Joining
  <2> HIDE DEF new
  <2> QED
    BY <2>1, <2>2, CallJoins
<1>8. CASE EnqueueTasks(s)
  <2> DEFINE new == [w EXCEPT !.work = @ + s.n, !.busy = IF s.long THEN Longest ELSE @,
                              !.accepted = @ \cup {loc.run}]
  <2>1. Call(s, new)
    BY <1>8, Zenon DEF EnqueueTasks
  <2>2. Joining(new)
    BY DEF Joining
  <2> HIDE DEF new
  <2> QED
    BY <2>1, <2>2, CallJoins
<1>9. CASE check(s)
  <2>1. Fail(s) \/ Call(s, w)
    BY <1>9, Zenon DEF check
  <2> QED
    BY <1>1, <2>1, CallJoins, FailJoins
<1>10. CASE EndTry(s)
  <2>1. w' = w /\ ((pc' = pc + 1 /\ raised' = raised) \/ raised' = TRUE)
    BY <1>10, Zenon DEF EndTry, Return, Raise
  <2>2. GoesOn
    BY <2>1, Zenon DEF GoesOn
  <2> QED
    BY <1>1, <2>1, <2>2
<1> QED
  BY <1>2, <1>3, <1>4, <1>5, <1>6, <1>7, <1>8, <1>9, <1>10, Zenon DEF HpaCall

LEMMA JoiningKnows ==
  ASSUME Joining(w'), SameRun, AuditKnows
  PROVE  AuditKnows'
BY DEF Joining, SameRun, AuditKnows

\* A step of a scenario.
LEMMA GoingOnKept ==
  ASSUME AuditInv, pc # 0, Joining(w'), GoesOn, SameRun,
         loc.case = "real" /\ pc = 4 /\ ~raised' => w'.accepted = {}
  PROVE  AuditInv'
<1>1. "accepted" \in DOMAIN w' /\ {"case", "run", "verdict"} \subseteq DOMAIN loc'
  BY DEF Joining, SameRun
<1>2. loc'.verdict = "none"
  BY DEF AuditInv, SameRun
<1>3. raised' \/ (~raised /\ pc \in Nat /\ pc' = pc + 1)
  BY DEF AuditInv, GoesOn
<1>4. raised' \/ pc' \in Nat
  BY <1>3
<1>5. ASSUME loc'.case = "real", ~raised', pc' > 4
      PROVE  AuditKnows'
  <2>1. loc.case = "real"
    BY <1>5 DEF SameRun
  <2>2. CASE pc = 4
    BY <1>5, <2>1, <2>2 DEF AuditKnows
  <2>3. CASE pc # 4
    <3>1. pc > 4 /\ ~raised
      BY <1>3, <1>5, <2>3
    <3>2. AuditKnows
      BY <2>1, <3>1 DEF AuditInv
    <3> QED
      BY <3>2, JoiningKnows
  <2> QED
    BY <2>2, <2>3
<1>6. ~(loc'.verdict = "PASS")
  BY <1>2
<1> QED
  BY <1>1, <1>2, <1>4, <1>5, <1>6 DEF AuditInv

\* A step that stays where it is: a poll, the cluster, time.
LEMMA StayingKept ==
  ASSUME AuditInv, Joining(w'), pc' = pc, raised' <=> raised, SameRun
  PROVE  AuditInv'
<1>1. "accepted" \in DOMAIN w' /\ {"case", "run", "verdict"} \subseteq DOMAIN loc'
  BY DEF Joining, SameRun
<1>2. AuditKnows => AuditKnows'
  BY JoiningKnows
<1> QED
  BY <1>1, <1>2 DEF AuditInv, SameRun

LEMMA ClearedSame ==
  ASSUME AuditInv, loc' = Cleared
  PROVE  SameRun
BY DEF AuditInv, Cleared, SameRun

LEMMA HpaStepKept ==
  ASSUME AuditInv, HpaStep
  PROVE  AuditInv'
<1> DEFINE s == Here
<1>1. pc # 0 /\ "accepted" \in DOMAIN w /\ {"case", "run", "verdict"} \subseteq DOMAIN loc
  BY DEF HpaStep, Idle, AuditInv
<1>2. (HpaCall(s) /\ loc' = Cleared) \/ ReadHpa(s) \/ WaitFor(s) \/ HoldFor(s) \/ Finish(s)
  BY Zenon DEF HpaStep
<1>3. loc.case = "real" => /\ pc = 1 => s.op = "drophpa"
                           /\ pc = 2 => s.op = "scale"
                           /\ pc = 3 => s.op = "wait"
                           /\ pc = 4 => s.op = "check" /\ s.pred = "fresh"
  BY RealBegins, Zenon DEF Here, FreshFirst
<1>4. Joining(w)
  BY <1>1 DEF Joining
<1> HIDE DEF s
<1>5. CASE HpaCall(s) /\ loc' = Cleared
  <2>1. Joining(w') /\ GoesOn
    BY <1>1, <1>5, HpaCallJoins
  <2>2. SameRun
    BY <1>5, ClearedSame
  <2>3. ASSUME loc.case = "real", pc = 4, ~raised'
        PROVE  w'.accepted = {}
    <3>1. s.op = "check" /\ s.pred = "fresh"
      BY <1>3, <2>3
    <3>2. check(s)
      BY <1>5, <3>1 DEF HpaCall, apply, ApplyCopy, patch, DeleteHpa, scale, ScaleComponent, gauge,
                        LoadDeployment, HttpLoadDeployment, ReadyDelay, BlockedDeployment, EnqueueTasks,
                        FollowLogs, EndTry
    <3>3. ~Fail(s)
      BY <2>3 DEF Fail, Raise
    <3>4. Holds(s.pred, s.t, s.n) /\ Call(s, w)
      BY <3>2, <3>3, Zenon DEF check
    <3>5. FreshBroker
      <4>1. \A a, b : Holds("fresh", a, b) => FreshBroker
        BY DEF Holds
      <4> QED
        BY <3>1, <3>4, <4>1, Zenon
    <3>6. w' = w
      BY <3>4, Zenon DEF Call
    <3> QED
      BY <3>5, <3>6 DEF FreshBroker
  <2> QED
    BY <1>1, <2>1, <2>2, <2>3, GoingOnKept
<1>6. ASSUME NEW ok, Over(s, ok), s.op \in {"wait", "hold"}
      PROVE  AuditInv'
  <2>1. w' = w /\ loc' = Cleared /\ ((pc' = pc + 1 /\ raised' = raised) \/ raised' = TRUE)
    BY <1>6, Zenon DEF Over, Require, Fail, Return, Raise
  <2>2. GoesOn
    BY <2>1, Zenon DEF GoesOn
  <2>3. SameRun
    BY <2>1, ClearedSame
  <2>4. ~(loc.case = "real" /\ pc = 4)
    BY <1>3, <1>6
  <2>5. Joining(w')
    BY <1>4, <2>1
  <2> QED
    BY <1>1, <2>2, <2>3, <2>4, <2>5, GoingOnKept
<1>7. ASSUME NEW add, NEW ok, Sleep(add, ok)
      PROVE  AuditInv'
  <2>1. w' = Later(add) /\ pc' = pc /\ (raised' <=> raised)
        /\ loc' = [loc EXCEPT !.polls = loc.polls + 1, !.saw = NoHpa, !.rows = ok]
    BY <1>7, Zenon DEF Sleep
  <2>2. Joining(w')
    <3> DEFINE a == [u \in Targets |-> Min({Longest, w.age[u] + 1})]
               b == Minus(w.work + add, w.rdy["consumer"])
               c == Minus(w.busy, 1)
               d == Minus(w.warm, 1)
    <3>1. w' = [w EXCEPT !.since = @ + 1, !.age = a, !.work = b, !.busy = c, !.warm = d,
                         !.accepted = IF add > 0 THEN @ \cup {loc.run} ELSE @]
      BY <2>1, Zenon DEF Later
    <3> HIDE DEF a, b, c, d
    <3> QED
      BY <1>1, <3>1 DEF Joining
  <2>3. SameRun
    <3> DEFINE n == loc.polls + 1
    <3>1. loc' = [loc EXCEPT !.polls = n, !.saw = NoHpa, !.rows = ok]
      BY <2>1
    <3> HIDE DEF n
    <3> QED
      BY <1>1, <3>1 DEF SameRun
  <2> QED
    BY <2>1, <2>2, <2>3, StayingKept
<1>8. CASE ReadHpa(s)
  <2>1. w' = w
    BY <1>8, Zenon DEF ReadHpa
  <2>2. Joining(w')
    BY <1>4, <2>1
  <2>3. \/ \E x : loc' = [loc EXCEPT !.saw = x] /\ pc' = pc /\ raised' = raised
        \/ raised' = TRUE /\ loc' = Cleared
    BY <1>8, Zenon DEF ReadHpa, Raise
  <2>4. CASE \E x : loc' = [loc EXCEPT !.saw = x] /\ pc' = pc /\ raised' = raised
    <3>1. PICK x : loc' = [loc EXCEPT !.saw = x] /\ pc' = pc /\ raised' = raised
      BY <2>4, Zenon
    <3>2. SameRun
      BY <1>1, <3>1 DEF SameRun
    <3>3. raised' <=> raised
      BY <3>1, Zenon
    <3> QED
      BY <2>2, <3>1, <3>2, <3>3, StayingKept
  <2>5. CASE raised' = TRUE /\ loc' = Cleared
    <3>1. GoesOn /\ raised'
      BY <2>5, Zenon DEF GoesOn
    <3>2. SameRun
      BY <2>5, ClearedSame
    <3> QED
      BY <1>1, <2>2, <3>1, <3>2, GoingOnKept
  <2> QED
    BY <2>3, <2>4, <2>5
<1>9. CASE WaitFor(s) \/ HoldFor(s)
  <2>1. s.op \in {"wait", "hold"}
    BY <1>9 DEF WaitFor, HoldFor
  <2>2. (\E ok : Over(s, ok)) \/ \E add, ok : Sleep(add, ok)
    BY <1>9, Zenon DEF WaitFor, HoldFor
  <2> QED
    BY <1>6, <1>7, <2>1, <2>2, Zenon
<1>10. CASE Finish(s)
  <2>1. s.op = "exit" /\ pc' = 0 /\ raised' = FALSE /\ w' = w
    BY <1>10, Zenon DEF Finish, Leave
  <2>2. PICK v, y : /\ loc' = [loc EXCEPT !.verdict = v, !.proxy = y]
                    /\ raised => v = "FAIL"
    BY <1>10, Zenon DEF Finish
  <2>3. /\ {"case", "run", "verdict"} \subseteq DOMAIN loc'
        /\ loc'.case = loc.case /\ loc'.run = loc.run /\ loc'.verdict = v
    BY <1>1, <2>2
  <2>4. ASSUME loc.case = "real", ~raised
        PROVE  AuditKnows
    <3>1. pc \in Nat /\ pc \notin 1..4
      BY <1>3, <2>1, <2>4 DEF AuditInv
    <3>2. pc > 4
      BY <1>1, <3>1
    <3> QED
      BY <2>4, <3>2 DEF AuditInv
  <2>5. ASSUME loc'.case = "real", loc'.verdict = "PASS"
        PROVE  AuditKnows'
    <3>1. AuditKnows
      BY <2>2, <2>3, <2>4, <2>5
    <3> QED
      BY <2>1, <2>3, <3>1 DEF AuditKnows
  <2>6. ~(pc' > 4) /\ pc' \in Nat
    BY <2>1
  <2> QED
    BY <1>1, <2>1, <2>3, <2>5, <2>6 DEF AuditInv
<1> QED
  BY <1>2, <1>5, <1>8, <1>9, <1>10

LEMMA HpaKept ==
  ASSUME AuditInv, HpaNext
  PROVE  AuditInv'
<1>1. "accepted" \in DOMAIN w /\ {"case", "run", "verdict"} \subseteq DOMAIN loc
  BY DEF AuditInv
<1>2. CASE Sync
  <2> DEFINE a == [t \in Targets |-> Settled(t)]
             b == [t \in Targets |-> Scaled(t)]
             c == IF w.slow /\ Scaled("web") > w.rep["web"] THEN Longest ELSE w.warm
             d == [t \in Targets |-> IF w.hpa[t].metrics = {} THEN 0
                                     ELSE IF Active(t) THEN Scaled(t) ELSE w.desired[t]]
             e == [t \in Targets |-> w.hpa[t].metrics # {} /\ Active(t)]
             f == [t \in Targets |-> IF Active(t) /\ Demand(t) < w.rep[t] THEN w.age[t] ELSE 0]
  <2>1. /\ w' = [w EXCEPT !.since = 0, !.rdy = a, !.rep = b, !.warm = c, !.desired = d, !.active = e, !.age = f]
        /\ pc' = pc /\ loc' = loc /\ (raised' <=> raised)
    BY <1>2, Zenon DEF Sync
  <2> HIDE DEF a, b, c, d, e, f
  <2>2. Joining(w') /\ SameRun
    BY <1>1, <2>1 DEF Joining, SameRun
  <2> QED
    BY <2>1, <2>2, StayingKept
<1>3. CASE Rest
  <2> DEFINE a == [u \in Targets |-> Min({Longest, w.age[u] + 1})]
             b == Minus(w.work + 0, w.rdy["consumer"])
             c == Minus(w.busy, 1)
             d == Minus(w.warm, 1)
             g == w.since + 1
  <2>1. /\ w' = [w EXCEPT !.since = g, !.age = a, !.work = b, !.busy = c, !.warm = d,
                          !.accepted = IF 0 > 0 THEN @ \cup {loc.run} ELSE @]
        /\ pc' = pc /\ loc' = loc /\ (raised' <=> raised)
    BY <1>3, Zenon DEF Rest, Later
  <2> HIDE DEF a, b, c, d, g
  <2>2. Joining(w') /\ SameRun
    BY <1>1, <2>1 DEF Joining, SameRun
  <2> QED
    BY <2>1, <2>2, StayingKept
<1>4. CASE RestartBroker
  <2>1. w' = [w EXCEPT !.accepted = {}] /\ pc' = pc /\ loc' = loc /\ (raised' <=> raised)
    BY <1>4, Zenon DEF RestartBroker
  <2>2. "accepted" \in DOMAIN w' /\ w'.accepted = {}
    BY <1>1, <2>1
  <2>3. AuditKnows'
    BY <2>2 DEF AuditKnows
  <2> QED
    BY <1>1, <2>1, <2>2, <2>3 DEF AuditInv
<1>5. CASE Start
  <2>1. w' = w /\ raised' = FALSE /\ pc' \in {0, 1}
    BY <1>5, Zenon DEF Start, Begin, Leave
  <2>2. PICK c, y : \/ loc' = [[Cleared EXCEPT !.case = c, !.run = @ + 1, !.verdict = "none"] EXCEPT !.proxy = y]
                    \/ loc' = [Cleared EXCEPT !.case = c, !.run = @ + 1, !.verdict = "none"]
    BY <1>5, Zenon DEF Start
  <2>3. {"case", "run", "verdict"} \subseteq DOMAIN loc' /\ loc'.verdict = "none"
    BY <1>1, <2>2 DEF Cleared
  <2>4. ~(pc' > 4) /\ pc' \in Nat
    BY <2>1
  <2> QED
    BY <1>1, <2>1, <2>3, <2>4 DEF AuditInv
<1>6. CASE Kill
  <2>1. w' = w /\ raised' = FALSE /\ pc' = 0 /\ pc # 0
    BY <1>6, Zenon DEF Kill, Die, Leave, Idle
  <2>2. PICK y : loc' = [Cleared EXCEPT !.proxy = y]
    BY <1>6, Zenon DEF Kill
  <2>3. {"case", "run", "verdict"} \subseteq DOMAIN loc' /\ loc'.verdict = loc.verdict
    BY <1>1, <2>2 DEF Cleared
  <2>4. loc.verdict = "none" /\ ~(pc' > 4) /\ pc' \in Nat
    BY <2>1 DEF AuditInv
  <2> QED
    BY <1>1, <2>1, <2>3, <2>4 DEF AuditInv
<1> QED
  BY <1>2, <1>3, <1>4, <1>5, <1>6, HpaStepKept, Zenon DEF HpaNext

(* AuditIsOwn, for every set of cases, every number of runs and of failing *)
(* calls: when the case real of hpa/advanced/run.py has passed, the tasks  *)
(* that its audit compares are of that run, whatever a run that failed or  *)
(* was killed has left in the broker.                                      *)
THEOREM AuditsAreOwn == Spec => []AuditIsOwn
<1> DEFINE Inv == lab = "hpa" => AuditInv
<1>1. Init => Inv
  <2>1. ASSUME Init, lab = "hpa"
        PROVE  HpaInit
    BY <2>1 DEF Init
  <2>2. ASSUME HpaInit
        PROVE  AuditInv
    <3>1. w = Setup /\ pc = 0
      BY <2>2, Zenon DEF HpaInit
    <3>2. "accepted" \in DOMAIN w
      BY <3>1 DEF Setup
    <3>3. loc.verdict = "none" /\ {"case", "run", "verdict"} \subseteq DOMAIN loc
      BY <2>2 DEF HpaInit
    <3> QED
      BY <3>1, <3>2, <3>3 DEF AuditInv
  <2> QED
    BY <2>1, <2>2
<1>2. Inv /\ [Next]_scriptVars => Inv'
  <2> SUFFICES ASSUME Inv, [Next]_scriptVars, lab' = "hpa"
               PROVE  AuditInv'
    BY Zenon
  <2>1. CASE Next
    <3>1. lab = "hpa" /\ HpaNext
      BY <2>1 DEF Next
    <3> QED
      BY <3>1, HpaKept
  <2>2. CASE UNCHANGED scriptVars
    BY <2>2, Zenon DEF scriptVars, AuditInv, AuditKnows
  <2> QED
    BY <2>1, <2>2
<1>3. Inv => AuditIsOwn
  BY Zenon DEF AuditIsOwn, AuditInv, AuditKnows
<1> QED
  BY <1>1, <1>2, <1>3, PTL DEF Spec

----------------------------------------------------------------------------
(* The test runners: the steps of their cases.                             *)

\* A case does not configure, empty the cluster, begin or end by itself.
Reserved == {"cm", "restart", "fn", "delete_all", "exit"}
TameStep(r) == {"op", "esc", "part"} \subseteq DOMAIN r /\ r.esc = 0 /\ r.op \notin Reserved
Tame(s) == \E T : s \in Seq(T) /\ \A r \in T : TameStep(r)

LEMMA TameJoin ==
  ASSUME NEW s, NEW t, Tame(s), Tame(t)
  PROVE  Tame(s \o t)
<1>1. PICK S : s \in Seq(S) /\ \A r \in S : TameStep(r)
  BY Zenon DEF Tame
<1>2. PICK T : t \in Seq(T) /\ \A r \in T : TameStep(r)
  BY Zenon DEF Tame
<1> DEFINE U == S \cup T
<1>3. S \subseteq U /\ T \subseteq U /\ \A r \in U : TameStep(r)
  BY <1>1, <1>2
<1> HIDE DEF U
<1>4. s \in Seq(U) /\ t \in Seq(U)
  BY <1>1, <1>2, <1>3, SeqOfMore
<1>5. s \o t \in Seq(U)
  BY <1>4
<1> QED
  BY <1>3, <1>5, Zenon DEF Tame

LEMMA TameOf ==
  ASSUME NEW n \in Nat, NEW s, s = [i \in 1..n |-> s[i]], \A i \in 1..n : TameStep(s[i])
  PROVE  Tame(s)
<1>1. s \in Seq({s[i] : i \in 1..n})
  BY FunctionIsSeq
<1>2. \A r \in {s[i] : i \in 1..n} : TameStep(r)
  OBVIOUS
<1> QED
  BY <1>1, <1>2, Zenon DEF Tame

LEMMA TameOne ==
  ASSUME NEW a, TameStep(a)
  PROVE  Tame(<<a>>)
<1> DEFINE s == <<a>>
<1>1. s = [i \in 1..1 |-> s[i]] /\ 1 \in Nat /\ \A i \in 1..1 : TameStep(s[i])
  OBVIOUS
<1> QED
  BY <1>1, TameOf, Zenon

LEMMA TameTwo ==
  ASSUME NEW a, NEW b, TameStep(a), TameStep(b)
  PROVE  Tame(<<a, b>>)
<1> DEFINE s == <<a, b>>
<1>1. s = [i \in 1..2 |-> s[i]] /\ 2 \in Nat /\ \A i \in 1..2 : TameStep(s[i])
  OBVIOUS
<1> QED
  BY <1>1, TameOf, Zenon

LEMMA TameThree ==
  ASSUME NEW a, NEW b, NEW c, TameStep(a), TameStep(b), TameStep(c)
  PROVE  Tame(<<a, b, c>>)
<1> DEFINE s == <<a, b, c>>
<1>1. s = [i \in 1..3 |-> s[i]] /\ 3 \in Nat /\ \A i \in 1..3 : TameStep(s[i])
  OBVIOUS
<1> QED
  BY <1>1, TameOf, Zenon

LEMMA TameFour ==
  ASSUME NEW a, NEW b, NEW c, NEW d, TameStep(a), TameStep(b), TameStep(c), TameStep(d)
  PROVE  Tame(<<a, b, c, d>>)
<1> DEFINE s == <<a, b, c, d>>
<1>1. s = [i \in 1..4 |-> s[i]] /\ 4 \in Nat /\ \A i \in 1..4 : TameStep(s[i])
  OBVIOUS
<1> QED
  BY <1>1, TameOf, Zenon

LEMMA TameFive ==
  ASSUME NEW a, NEW b, NEW c, NEW d, NEW e,
         TameStep(a), TameStep(b), TameStep(c), TameStep(d), TameStep(e)
  PROVE  Tame(<<a, b, c, d, e>>)
<1> DEFINE s == <<a, b, c, d, e>>
<1>1. s = [i \in 1..5 |-> s[i]] /\ 5 \in Nat /\ \A i \in 1..5 : TameStep(s[i])
  OBVIOUS
<1> QED
  BY <1>1, TameOf, Zenon

LEMMA TameSix ==
  ASSUME NEW a, NEW b, NEW c, NEW d, NEW e, NEW f,
         TameStep(a), TameStep(b), TameStep(c), TameStep(d), TameStep(e), TameStep(f)
  PROVE  Tame(<<a, b, c, d, e, f>>)
<1> DEFINE s == <<a, b, c, d, e, f>>
<1>1. s = [i \in 1..6 |-> s[i]] /\ 6 \in Nat /\ \A i \in 1..6 : TameStep(s[i])
  OBVIOUS
<1> QED
  BY <1>1, TameOf, Zenon

LEMMA TameSeven ==
  ASSUME NEW a, NEW b, NEW c, NEW d, NEW e, NEW f, NEW g,
         TameStep(a), TameStep(b), TameStep(c), TameStep(d), TameStep(e), TameStep(f), TameStep(g)
  PROVE  Tame(<<a, b, c, d, e, f, g>>)
<1> DEFINE s == <<a, b, c, d, e, f, g>>
<1>1. s = [i \in 1..7 |-> s[i]] /\ 7 \in Nat /\ \A i \in 1..7 : TameStep(s[i])
  OBVIOUS
<1> QED
  BY <1>1, TameOf, Zenon

LEMMA TameBare ==
  ASSUME NEW op, op \notin Reserved
  PROVE  TameStep(Bare(op))
BY DEF TameStep, Bare

LEMMA TameVStep ==
  ASSUME NEW op, op \notin Reserved, NEW name, NEW arg
  PROVE  TameStep(VStep(op, name, arg))
BY DEF TameStep, VStep

----------------------------------------------------------------------------
(* volcano-hami/run-tests.py.                                              *)

\* The tests, one after another.
LEMMA TestsAreTame ==
  ASSUME NEW i \in 1..19
  PROVE  Tame(test(i))
<1>1. /\ "job" \notin Reserved /\ "queue" \notin Reserved /\ "running" \notin Reserved
      /\ "assert" \notin Reserved /\ "phase" \notin Reserved /\ "unplaced" \notin Reserved
      /\ "delete" \notin Reserved /\ "no_pods" \notin Reserved /\ "read" \notin Reserved
      /\ "command" \notin Reserved /\ "state" \notin Reserved /\ "refused" \notin Reserved
      /\ "places" \notin Reserved /\ "expired" \notin Reserved /\ "created" \notin Reserved
  BY DEF Reserved
<1>2. ASSUME NEW n, NEW x
      PROVE  /\ TameStep(applyJob(n, x)) /\ TameStep(queue(n)) /\ TameStep(running(n, x))
             /\ TameStep(fewer(n, x)) /\ TameStep(phase(n, x)) /\ TameStep(VStep("places", n, x))
             /\ TameStep(created(n))
  BY <1>1, TameVStep, Zenon DEF applyJob, queue, running, fewer, phase, created
<1>3. ASSUME NEW n, NEW x
      PROVE  /\ TameStep(VStep("unplaced", n, x)) /\ TameStep(VStep("delete", n, x))
             /\ TameStep(VStep("no_pods", n, x)) /\ TameStep(VStep("command", n, x))
             /\ TameStep(VStep("state", n, x)) /\ TameStep(VStep("refused", n, x))
             /\ TameStep(VStep("expired", n, x))
  BY <1>1, TameVStep, Zenon
<1>4. TameStep(Bare("read")) /\ TameStep(snapshot) /\ TameStep(exec)
  BY <1>1, TameBare, Zenon DEF snapshot, exec
<1>5. ASSUME NEW n, NEW x
      PROVE  Tame(notPlaced(n)) /\ Tame(delete_job(n)) /\ Tame(queue_command(n, x)) /\ Tame(pendingJob(n))
  <2>1. Tame(notPlaced(n)) /\ Tame(delete_job(n)) /\ Tame(queue_command(n, x))
    BY <1>3, TameTwo, Zenon DEF notPlaced, delete_job, queue_command
  <2>2. Tame(<<created(n)>>)
    BY <1>2, TameOne, Zenon
  <2> QED
    BY <2>1, <2>2, TameJoin, Zenon DEF pendingJob
<1>6. Tame(complete) /\ Tame(abort)
  BY <1>2, TameTwo, Zenon DEF complete, abort
<1>7. Tame(elastic) /\ Tame(binpack) /\ Tame(affinity) /\ Tame(ttl) /\ Tame(gpu_basic) /\ Tame(gpu_share) /\ Tame(gpu_spread)
  BY <1>2, <1>3, <1>4, TameThree, Zenon
     DEF elastic, binpack, affinity, ttl, gpu_basic, gpu_share, gpu_spread
<1>8. Tame(plugins)
  BY <1>2, <1>4, TameFive, Zenon DEF plugins
<1>9. Tame(preempt)
  BY <1>2, <1>4, TameSeven, Zenon DEF preempt
<1>10. Tame(reclaim)
  BY <1>2, TameSeven, Zenon DEF reclaim
<1>11. Tame(gang)
  <2>1. Tame(<<applyJob("holder", vjob(2, 2, 90)), running("holder", 2), applyJob("gang", vjob(3, 3, 50))>>)
    BY <1>2, TameThree, Zenon
  <2>2. Tame(<<snapshot>>) /\ Tame(<<running("gang", 3)>>)
    BY <1>2, <1>4, TameOne, Zenon
  <2> QED
    BY <1>5, <2>1, <2>2, TameJoin, Zenon DEF gang
<1>12. Tame(quota)
  <2> DEFINE four == [vjob(1, 1, 40) EXCEPT !.q = "limited"]
  <2>1. Tame(<<queue("limited"), applyJob("first", four), running("first", 1), applyJob("second", four),
               phase("second", "Pending")>>)
    BY <1>2, TameFive, Zenon
  <2>2. Tame(<<snapshot>>) /\ Tame(<<running("second", 1)>>)
    BY <1>2, <1>4, TameOne, Zenon
  <2> QED
    BY <1>5, <2>1, <2>2, TameJoin, Zenon DEF quota
<1>13. Tame(closed)
  <2> DEFINE one == [vjob(1, 1, 1) EXCEPT !.q = "closed"]
  <2>1. Tame(<<queue("closed")>>) /\ Tame(<<VStep("refused", "closed", "none")>>)
    BY <1>2, <1>3, TameOne, Zenon
  <2>2. Tame(<<applyJob("closed", one), running("closed", 1)>>)
    BY <1>2, TameTwo, Zenon
  <2> QED
    BY <1>5, <2>1, <2>2, TameJoin, Zenon DEF closed
<1>14. ASSUME NEW k
       PROVE  Tame(gpu_reject(k))
  <2> DEFINE x == CASE k = "memory" -> gpuJob(1, 1, 50, 25, GpusOfW1)
                    [] k = "cores" -> gpuJob(1, 1, 3, 101, GpusOfW1)
                    [] k = "number" -> gpuJob(1, 3, 3, 25, GpusOfW1)
  <2>1. gpu_reject(k) = <<applyJob("reject", x)>> \o pendingJob("reject")
    BY Zenon DEF gpu_reject
  <2> HIDE DEF x
  <2>2. Tame(<<applyJob("reject", x)>>)
    BY <1>2, TameOne, Zenon
  <2> QED
    BY <1>5, <2>1, <2>2, TameJoin, Zenon
<1>15. Tame(gpu_full)
  <2>1. Tame(<<applyJob("full", gpuJob(2, 1, 40, 100, GpusOfW1)), running("full", 2),
               applyJob("waiting", gpuJob(1, 1, 1, 1, GpusOfW1))>>)
    BY <1>2, TameThree, Zenon
  <2>2. Tame(<<running("waiting", 1)>>)
    BY <1>2, TameOne, Zenon
  <2> QED
    BY <1>5, <2>1, <2>2, TameJoin, Zenon DEF gpu_full
<1>16. /\ test(1) = complete /\ test(2) = gang /\ test(3) = elastic /\ test(4) = quota /\ test(5) = closed
       /\ test(6) = preempt /\ test(7) = reclaim /\ test(8) = binpack /\ test(9) = affinity
       /\ test(10) = plugins
  BY DEF test
<1>17. /\ test(11) = abort /\ test(12) = ttl /\ test(13) = gpu_basic /\ test(14) = gpu_share
       /\ test(15) = gpu_spread /\ test(16) = gpu_reject("memory") /\ test(17) = gpu_reject("cores")
       /\ test(18) = gpu_reject("number") /\ test(19) = gpu_full
  BY DEF test
<1>18. \/ i = 1 \/ i = 2 \/ i = 3 \/ i = 4 \/ i = 5 \/ i = 6 \/ i = 7 \/ i = 8 \/ i = 9 \/ i = 10
       \/ i = 11 \/ i = 12 \/ i = 13 \/ i = 14 \/ i = 15 \/ i = 16 \/ i = 17 \/ i = 18 \/ i = 19
  OBVIOUS
<1> QED
  BY <1>6, <1>7, <1>8, <1>9, <1>10, <1>11, <1>12, <1>13, <1>14, <1>15, <1>16, <1>17, <1>18, Zenon

\* How many steps switch the scheduler.
Setting(i) == IF i \in Modes THEN 4 ELSE 0

\* The steps of a case up to its function.
IsOpening(h, i) ==
  /\ IsSeq(h, 5 + Setting(i))
  /\ h[1] = Bare("delete_jobs") /\ h[2] = Bare("empty") /\ h[3] = Bare("delete_queues")
  /\ i \in Modes => /\ h[4] = Bare("read") /\ h[5] = VStep("cm", modeOf(i), "none")
                    /\ h[6] = Bare("restart") /\ h[7] = Bare("status")
  /\ h[4 + Setting(i)] = queue("lab") /\ h[5 + Setting(i)] = Bare("fn")

LEMMA StepsOf ==
  ASSUME NEW n \in Nat, NEW f, f = [i \in 1..n |-> f[i]]
  PROVE  IsSeq(f, n)
BY FunctionIsSeq DEF IsSeq

LEMMA OpeningOf ==
  ASSUME NEW i, NEW setup, setup = IF i \in Modes THEN config(modeOf(i)) ELSE <<>>
  PROVE  IsOpening(clean \o setup \o <<queue("lab"), Bare("fn")>>, i)
<1> DEFINE e == <<queue("lab"), Bare("fn")>>
           g == clean \o setup
           h == g \o e
<1>1. IsSeq(clean, 3) /\ clean[1] = Bare("delete_jobs") /\ clean[2] = Bare("empty") /\ clean[3] = Bare("delete_queues")
  <2>1. clean = [j \in 1..3 |-> clean[j]] /\ 3 \in Nat /\ clean[1] = Bare("delete_jobs") /\ clean[2] = Bare("empty")
        /\ clean[3] = Bare("delete_queues")
    BY DEF clean
  <2>2. IsSeq(clean, 3)
    BY <2>1, FunctionIsSeq DEF IsSeq
  <2> QED
    BY <2>1, <2>2
<1>2. IsSeq(e, 2) /\ e[1] = queue("lab") /\ e[2] = Bare("fn")
  <2>1. e = [j \in 1..2 |-> e[j]] /\ 2 \in Nat /\ e[1] = queue("lab") /\ e[2] = Bare("fn")
    OBVIOUS
  <2> HIDE DEF e
  <2>2. IsSeq(e, 2)
    BY <2>1, FunctionIsSeq DEF IsSeq
  <2> QED
    BY <2>1, <2>2
<1> HIDE DEF e
<1>3. CASE i \in Modes
  <2>1. setup = <<Bare("read"), VStep("cm", modeOf(i), "none"), Bare("restart"), Bare("status")>> /\ Setting(i) = 4
    BY <1>3 DEF config, Setting
  <2>2. /\ setup = [j \in 1..4 |-> setup[j]] /\ 4 \in Nat /\ setup[1] = Bare("read")
        /\ setup[2] = VStep("cm", modeOf(i), "none") /\ setup[3] = Bare("restart") /\ setup[4] = Bare("status")
    BY <2>1
  <2>3. IsSeq(setup, 4)
    BY <2>2, StepsOf, Zenon
  <2>4. Joins(clean, 3, setup, 4, g)
    BY <1>1, <2>3, JoinSeqs, Zenon
  <2> HIDE DEF g
  <2>5. Joins(g, 7, e, 2, h)
    <3>1. IsSeq(g, 3 + 4)
      BY <2>4, Zenon DEF Joins
    <3>2. IsSeq(g, 7)
      BY <3>1
    <3> QED
      BY <1>2, <3>2, JoinSeqs, Zenon
  <2> HIDE DEF h
  <2>6. IsSeq(h, 9)
    <3>1. IsSeq(h, 7 + 2)
      BY <2>5, Zenon DEF Joins
    <3> QED
      BY <3>1
  <2>7. /\ \A k \in 1..3 : h[k] = clean[k]
        /\ \A k \in 1..4 : h[3 + k] = setup[k]
        /\ \A k \in 1..2 : h[7 + k] = e[k]
    <3>1. /\ \A k \in 1..7 : h[k] = g[k]
          /\ \A k \in 1..3 : g[k] = clean[k]
          /\ \A k \in 1..4 : g[3 + k] = setup[k]
          /\ \A k \in 1..2 : h[7 + k] = e[k]
      BY <2>4, <2>5, Zenon DEF Joins
    <3>2. (\A k \in 1..3 : k \in 1..7) /\ \A k \in 1..4 : 3 + k \in 1..7
      OBVIOUS
    <3> QED
      BY <3>1, <3>2, Zenon
  <2>8. h[1] = clean[1] /\ h[2] = clean[2] /\ h[3] = clean[3]
    BY <2>7
  <2>9. h[4] = setup[1] /\ h[5] = setup[2] /\ h[6] = setup[3] /\ h[7] = setup[4]
    <3>1. h[3 + 1] = setup[1] /\ h[3 + 2] = setup[2] /\ h[3 + 3] = setup[3] /\ h[3 + 4] = setup[4]
      BY <2>7
    <3> QED
      BY <3>1
  <2>10. h[8] = e[1] /\ h[9] = e[2]
    <3>1. h[7 + 1] = e[1] /\ h[7 + 2] = e[2]
      BY <2>7
    <3> QED
      BY <3>1
  <2>11. IsSeq(h, 5 + Setting(i)) /\ h[4 + Setting(i)] = e[1] /\ h[5 + Setting(i)] = e[2]
    <3>1. 5 + Setting(i) = 9 /\ 4 + Setting(i) = 8
      BY <2>1
    <3> QED
      BY <2>6, <2>10, <3>1, Zenon
  <2> QED
    BY <1>1, <1>2, <2>2, <2>8, <2>9, <2>11, Zenon DEF IsOpening, h, g, e
<1>4. CASE i \notin Modes
  <2>1. setup = <<>> /\ Setting(i) = 0
    BY <1>4 DEF Setting
  <2>2. setup = [j \in 1..0 |-> setup[j]] /\ 0 \in Nat
    BY <2>1
  <2>3. IsSeq(setup, 0)
    BY <2>2, StepsOf, Zenon
  <2>4. Joins(clean, 3, setup, 0, g)
    BY <1>1, <2>3, JoinSeqs, Zenon
  <2> HIDE DEF g
  <2>5. Joins(g, 3, e, 2, h)
    <3>1. IsSeq(g, 3 + 0)
      BY <2>4, Zenon DEF Joins
    <3>2. IsSeq(g, 3)
      BY <3>1
    <3> QED
      BY <1>2, <3>2, JoinSeqs, Zenon
  <2> HIDE DEF h
  <2>6. IsSeq(h, 5)
    <3>1. IsSeq(h, 3 + 2)
      BY <2>5, Zenon DEF Joins
    <3> QED
      BY <3>1
  <2>7. /\ \A k \in 1..3 : h[k] = clean[k]
        /\ \A k \in 1..2 : h[3 + k] = e[k]
    BY <2>4, <2>5, Zenon DEF Joins
  <2>8. h[1] = clean[1] /\ h[2] = clean[2] /\ h[3] = clean[3]
    BY <2>7
  <2>9. h[4] = e[1] /\ h[5] = e[2]
    <3>1. h[3 + 1] = e[1] /\ h[3 + 2] = e[2]
      BY <2>7
    <3> QED
      BY <3>1
  <2>10. IsSeq(h, 5 + Setting(i)) /\ h[4 + Setting(i)] = e[1] /\ h[5 + Setting(i)] = e[2]
    <3>1. 5 + Setting(i) = 5 /\ 4 + Setting(i) = 4
      BY <2>1
    <3> QED
      BY <2>6, <2>9, <3>1, Zenon
  <2> QED
    BY <1>1, <1>2, <1>4, <2>8, <2>10, Zenon DEF IsOpening, h, g, e
<1> QED
  BY <1>3, <1>4

\* A step has the fields of a step, and no finally block yet.
Loose(r) == {"op", "esc", "part"} \subseteq DOMAIN r /\ r.esc = 0

LEMMA InnerKeeps ==
  ASSUME NEW r, Loose(r), NEW n, NEW part
  PROVE  Opened(Inner(r, n, part), r.op, n)
BY DEF Inner, Loose, Opened

LEMMA OpenKeeps ==
  ASSUME NEW r, Loose(r), NEW n
  PROVE  Opened(Open(r, n), r.op, n)
BY DEF Open, Loose, Opened

\* A case: the steps a, whatever they raise the snapshot, and the exit.
IsCaught(a, n, p) ==
  /\ \A k \in 1..n : p[k] = Inner(a[k], n + 1 - k, "try")
  /\ p[n + 1].op = "read" /\ p[n + 2].op = "endtry" /\ p[n + 3].op = "exit"

LEMMA CaughtOf ==
  ASSUME NEW a, NEW n, IsSeq(a, n), \A k \in 1..n : Loose(a[k])
  PROVE  IsCaught(a, n, Main(Try(a, <<snapshot>>)))
<1> DEFINE f == <<snapshot>>
           t == Try(a, f)
           p == Main(t)
           S == {a[i] : i \in 1..n}
           F == {f[i] : i \in 1..1}
           U == S \cup F
<1>1. IsSeq(f, 1) /\ f[1] = Bare("read")
  BY OneStep, Zenon DEF snapshot
<1> HIDE DEF f
<1>2. a \in Seq(S) /\ f \in Seq(F) /\ Len(a) = n /\ Len(f) = 1 /\ n \in Nat
  BY <1>1 DEF IsSeq
<1>3. S \subseteq U /\ F \subseteq U
  OBVIOUS
<1>4. IsSeq(t, n + 1 + 1)
  BY <1>1, TryIsSeq, Zenon
<1> HIDE DEF S, F, U
<1>5. a \in Seq(U) /\ f \in Seq(U)
  BY <1>2, <1>3, SeqOfMore
<1>6. IsTry(a, f, t)
  BY <1>5, TryAt, Zenon
<1> HIDE DEF t
<1>7. /\ \A k \in 1..n : a[k].esc = 0 => t[k] = Inner(a[k], n + 1 - k, "try")
      /\ \A k \in 1..1 : t[n + k] = [f[k] EXCEPT !.part = "finally"]
      /\ t[n + 1 + 1] = Bare("endtry")
  BY <1>2, <1>6, Zenon DEF IsTry
<1>8. IsMain(t, n + 1 + 1, p)
  BY <1>4, MainOf, Zenon
<1> HIDE DEF p
<1>9. ASSUME NEW k \in 1..n
      PROVE  p[k] = Inner(a[k], n + 1 - k, "try")
  <2>1. Loose(a[k])
    OBVIOUS
  <2>2. t[k] = Inner(a[k], n + 1 - k, "try")
    BY <1>7, <2>1 DEF Loose
  <2>3. t[k].esc = n + 1 - k
    <3>1. Opened(Inner(a[k], n + 1 - k, "try"), a[k].op, n + 1 - k)
      BY <2>1, InnerKeeps, Zenon
    <3> QED
      BY <2>2, <3>1, Zenon DEF Opened
  <2>4. t[k].esc # 0 /\ k \in 1..(n + 1 + 1)
    BY <1>2, <2>3
  <2> QED
    BY <1>8, <2>2, <2>4, Zenon DEF IsMain
<1>10. p[n + 1].op = "read"
  <2> DEFINE r == t[n + 1]
  <2>1. r = [Bare("read") EXCEPT !.part = "finally"]
    BY <1>1, <1>7
  <2>2. Loose(r) /\ r.op = "read"
    BY <2>1 DEF Loose, Bare
  <2>3. n + 1 \in 1..(n + 1 + 1)
    BY <1>2
  <2>4. PICK x : p[n + 1] = Open(r, x)
    BY <1>8, <2>2, <2>3, Zenon DEF IsMain, Loose
  <2> HIDE DEF r
  <2>5. Opened(Open(r, x), r.op, x)
    BY <2>2, OpenKeeps, Zenon
  <2> QED
    BY <2>2, <2>4, <2>5, Zenon DEF Opened
<1>11. p[n + 2].op = "endtry"
  <2> DEFINE r == t[n + 1 + 1]
  <2>1. Loose(r) /\ r.op = "endtry"
    BY <1>7 DEF Loose, Bare
  <2>2. n + 1 + 1 \in 1..(n + 1 + 1) /\ n + 1 + 1 = n + 2
    BY <1>2
  <2>3. PICK x : p[n + 1 + 1] = Open(r, x)
    BY <1>8, <2>1, <2>2, Zenon DEF IsMain, Loose
  <2> HIDE DEF r
  <2>4. p[n + 1 + 1].op = "endtry"
    <3>1. Opened(Open(r, x), r.op, x)
      BY <2>1, OpenKeeps, Zenon
    <3> QED
      BY <2>1, <2>3, <3>1, Zenon DEF Opened
  <2> QED
    BY <2>2, <2>4
<1>12. p[n + 3].op = "exit"
  <2>1. p[n + 1 + 1 + 1].op = "exit"
    BY <1>8, Zenon DEF IsMain
  <2>2. n + 1 + 1 + 1 = n + 3
    BY <1>2
  <2> QED
    BY <2>1, <2>2
<1> QED
  BY <1>9, <1>10, <1>11, <1>12 DEF IsCaught, p, t, f

\* p is the program of the i-th test; its last step is the (n + 1)-st.
IsTest(p, i, n) ==
  /\ n \in Nat /\ n >= 5 + Setting(i)
  /\ p[1].op = "delete_jobs" /\ p[2].op = "empty" /\ p[3].op = "delete_queues"
  /\ i \in Modes => /\ p[4].op = "read" /\ p[5].op = "cm" /\ p[5].name = modeOf(i)
                    /\ p[6].op = "restart" /\ p[7].op = "status"
  /\ p[4 + Setting(i)].op = "queue" /\ p[5 + Setting(i)].op = "fn"
  /\ \A k \in (6 + Setting(i))..n : p[k].op \notin Reserved
  /\ p[n + 1].op = "exit"

LEMMA TameSteps ==
  ASSUME NEW s, Tame(s)
  PROVE  IsSeq(s, Len(s)) /\ \A k \in 1..Len(s) : TameStep(s[k])
<1>1. PICK T : s \in Seq(T) /\ \A r \in T : TameStep(r)
  BY Zenon DEF Tame
<1>2. Len(s) \in Nat /\ s = [i \in 1..Len(s) |-> s[i]] /\ \A k \in 1..Len(s) : s[k] \in T
  BY <1>1
<1>3. IsSeq(s, Len(s))
  BY <1>2, StepsOf, Zenon
<1> QED
  BY <1>1, <1>2, <1>3, Zenon

LEMMA CaseAt ==
  ASSUME NEW i \in 1..19
  PROVE  \E n : IsTest(case(i), i, n)
<1> DEFINE d == Setting(i)
           setup == IF i \in Modes THEN config(modeOf(i)) ELSE <<>>
           h == clean \o setup \o <<queue("lab"), Bare("fn")>>
           b == test(i)
           a == h \o b
           m == Len(b)
           N == 5 + d + m
           p == Main(Try(a, <<snapshot>>))
<1>1. case(i) = p
  BY Zenon DEF case
<1>2. IsOpening(h, i)
  BY OpeningOf, Zenon
<1>3. IsSeq(b, m) /\ \A k \in 1..m : TameStep(b[k])
  BY TestsAreTame, TameSteps, Zenon
<1>4. d \in {0, 4} /\ (i \in Modes => d = 4)
  BY DEF Setting
<1> HIDE DEF d, setup, h, b, m
<1>5. m \in Nat
  BY <1>3, Zenon DEF IsSeq
<1>6. Joins(h, 5 + d, b, m, a)
  <2>1. IsSeq(h, 5 + d)
    BY <1>2, Zenon DEF IsOpening, d
  <2> QED
    BY <1>3, <2>1, JoinSeqs, Zenon
<1> HIDE DEF a
<1>7. IsSeq(a, N) /\ N \in Nat
  <2>1. IsSeq(a, 5 + d + m)
    BY <1>6, Zenon DEF Joins
  <2> QED
    BY <1>4, <1>5, <2>1
<1>8. \A k \in 1..(5 + d) : a[k] = h[k]
  BY <1>6, Zenon DEF Joins
<1>9. \A k \in 1..m : a[(5 + d) + k] = b[k]
  BY <1>6, Zenon DEF Joins
<1>10. /\ h[1] = Bare("delete_jobs") /\ h[2] = Bare("empty") /\ h[3] = Bare("delete_queues")
       /\ i \in Modes => /\ h[4] = Bare("read") /\ h[5] = VStep("cm", modeOf(i), "none")
                         /\ h[6] = Bare("restart") /\ h[7] = Bare("status")
       /\ h[4 + d] = queue("lab") /\ h[5 + d] = Bare("fn")
  BY <1>2, Zenon DEF IsOpening, d
<1>11. ASSUME NEW op, NEW r, r = Bare(op)
       PROVE  Loose(r)
  BY <1>11 DEF Loose, Bare
<1>12. ASSUME NEW op, NEW x, NEW y, NEW r, r = VStep(op, x, y)
       PROVE  Loose(r)
  BY <1>12 DEF Loose, VStep
<1>13. ASSUME NEW k \in 1..(5 + d)
       PROVE  Loose(a[k])
  <2>1. k \in 1..3 \/ k = 4 + d \/ k = 5 + d \/ (i \in Modes /\ k \in 4..7)
    BY <1>4 DEF d, Setting
  <2>2. a[k] = h[k]
    BY <1>8
  <2>3. CASE k \in 1..3 \/ k = 4 + d \/ k = 5 + d
    <3>1. k = 1 \/ k = 2 \/ k = 3 \/ k = 4 + d \/ k = 5 + d
      BY <2>3
    <3>2. (\E op : h[k] = Bare(op)) \/ h[k] = VStep("queue", "lab", "none")
      BY <1>10, <3>1, Zenon DEF queue
    <3> QED
      BY <1>11, <1>12, <2>2, <3>2, Zenon
  <2>4. CASE i \in Modes /\ k \in 4..7
    <3>1. k = 4 \/ k = 5 \/ k = 6 \/ k = 7
      BY <2>4
    <3>2. (\E op : h[k] = Bare(op)) \/ h[k] = VStep("cm", modeOf(i), "none")
      BY <1>10, <2>4, <3>1, Zenon
    <3> QED
      BY <1>11, <1>12, <2>2, <3>2, Zenon
  <2> QED
    BY <2>1, <2>3, <2>4
<1>14. ASSUME NEW k \in (6 + d)..N
       PROVE  TameStep(a[k])
  <2> DEFINE j == k - (5 + d)
  <2>1. j \in 1..m /\ (5 + d) + j = k
    BY <1>4, <1>5
  <2> HIDE DEF j
  <2> QED
    BY <1>3, <1>9, <2>1, Zenon
<1>15. ASSUME NEW k \in 1..N
       PROVE  Loose(a[k])
  <2>1. k \in 1..(5 + d) \/ k \in (6 + d)..N
    BY <1>4, <1>5
  <2> QED
    BY <1>13, <1>14, <2>1, Zenon DEF TameStep, Loose
<1> HIDE DEF N
<1>16. IsCaught(a, N, p)
  BY <1>7, <1>15, CaughtOf, Zenon
<1> HIDE DEF p
<1>17. ASSUME NEW k \in 1..N
       PROVE  p[k] = Inner(a[k], N + 1 - k, "try")
  BY <1>16, Zenon DEF IsCaught
<1>18. ASSUME NEW k \in 1..N
       PROVE  p[k].op = a[k].op
  <2>1. Opened(Inner(a[k], N + 1 - k, "try"), a[k].op, N + 1 - k)
    BY <1>15, InnerKeeps, Zenon
  <2> QED
    BY <1>17, <2>1, Zenon DEF Opened
<1>19. ASSUME NEW k \in 1..N, k \in 1..(5 + d), NEW op, h[k] = Bare(op)
       PROVE  p[k].op = op
  <2>1. p[k].op = a[k].op
    BY <1>18
  <2>2. a[k] = Bare(op)
    BY <1>8, <1>19
  <2>3. Bare(op).op = op
    BY DEF Bare
  <2> QED
    BY <2>1, <2>2, <2>3, Zenon
<1>20. /\ \A k \in 1..3 : k \in 1..N /\ k \in 1..(5 + d)
       /\ 4 + d \in 1..N /\ 5 + d \in 1..N /\ 4 + d \in 1..(5 + d) /\ 5 + d \in 1..(5 + d)
  BY <1>4, <1>5 DEF N
<1>26. p[1].op = "delete_jobs" /\ p[2].op = "empty" /\ p[3].op = "delete_queues"
  <2>1. /\ 1 \in 1..N /\ 2 \in 1..N /\ 3 \in 1..N
        /\ 1 \in 1..(5 + d) /\ 2 \in 1..(5 + d) /\ 3 \in 1..(5 + d)
    BY <1>20
  <2>2. p[1].op = "delete_jobs"
    BY <1>10, <1>19, <2>1, Zenon
  <2>3. p[2].op = "empty"
    BY <1>10, <1>19, <2>1, Zenon
  <2>4. p[3].op = "delete_queues"
    BY <1>10, <1>19, <2>1, Zenon
  <2> QED
    BY <2>2, <2>3, <2>4
<1>27. p[4 + d].op = "queue" /\ p[5 + d].op = "fn"
  <2>1. p[5 + d].op = "fn"
    BY <1>10, <1>19, <1>20, Zenon
  <2>2. p[4 + d].op = a[4 + d].op
    BY <1>18, <1>20, Zenon
  <2>3. a[4 + d] = VStep("queue", "lab", "none")
    BY <1>8, <1>10, <1>20, Zenon DEF queue
  <2>4. VStep("queue", "lab", "none").op = "queue"
    BY DEF VStep
  <2> QED
    BY <2>1, <2>2, <2>3, <2>4, Zenon
<1>21. ASSUME i \in Modes
       PROVE  /\ p[4].op = "read" /\ p[5].op = "cm" /\ p[5].name = modeOf(i)
              /\ p[6].op = "restart" /\ p[7].op = "status"
  <2>1. /\ 4 \in 1..N /\ 5 \in 1..N /\ 6 \in 1..N /\ 7 \in 1..N
        /\ 4 \in 1..(5 + d) /\ 5 \in 1..(5 + d) /\ 6 \in 1..(5 + d) /\ 7 \in 1..(5 + d)
    BY <1>4, <1>5, <1>21 DEF N
  <2>5. p[4].op = "read"
    BY <1>10, <1>19, <1>21, <2>1, Zenon
  <2>6. p[6].op = "restart"
    BY <1>10, <1>19, <1>21, <2>1, Zenon
  <2>7. p[7].op = "status"
    BY <1>10, <1>19, <1>21, <2>1, Zenon
  <2> DEFINE r == p[5]
             x == N + 1 - 5
             y == modeOf(i)
  <2>8. a[5] = VStep("cm", y, "none")
    BY <1>8, <1>10, <1>21, <2>1, Zenon
  <2>3. r = Inner(VStep("cm", y, "none"), x, "try")
    BY <1>17, <2>1, <2>8, Zenon
  <2> HIDE DEF r, x, y
  <2>4. r.op = "cm" /\ r.name = y
    BY <2>3 DEF Inner, VStep
  <2> QED
    BY <2>4, <2>5, <2>6, <2>7 DEF r, y
<1>22. ASSUME NEW k \in (6 + d)..(N + 2)
       PROVE  p[k].op \notin Reserved
  <2>1. CASE k \in (6 + d)..N
    <3>1. k \in 1..N
      BY <1>4, <2>1
    <3>2. p[k].op = a[k].op
      BY <1>18, <3>1, Zenon
    <3> QED
      BY <1>14, <2>1, <3>2, Zenon DEF TameStep
  <2>2. CASE k = N + 1 \/ k = N + 2
    <3>1. p[N + 1].op = "read" /\ p[N + 2].op = "endtry"
      BY <1>16, Zenon DEF IsCaught
    <3> QED
      BY <2>2, <3>1 DEF Reserved
  <2> QED
    BY <1>4, <1>5, <2>1, <2>2 DEF N
<1>23. p[N + 2 + 1].op = "exit"
  <2>1. p[N + 3].op = "exit"
    BY <1>16, Zenon DEF IsCaught
  <2> QED
    BY <1>7, <2>1
<1>24. N + 2 \in Nat /\ N + 2 >= 5 + d
  BY <1>4, <1>5 DEF N
<1>25. IsTest(p, i, N + 2)
  BY <1>26, <1>27, <1>21, <1>22, <1>23, <1>24 DEF IsTest, d
<1> QED
  BY <1>1, <1>25, Zenon

\* The program of the whole suite at its i-th part, the first and the last included.
IsPart(p, i, n) ==
  \/ i = 0 /\ n = 1 /\ p[1].op = "namespace" /\ p[2].op = "exit"
  \/ i \in 1..19 /\ IsTest(p, i, n)
  \/ /\ i = 20 /\ n = 3 /\ p[1].op = "delete_jobs" /\ p[2].op = "empty" /\ p[3].op = "delete_queues"
     /\ p[4].op = "exit"

LEMMA PartAt ==
  ASSUME NEW i \in 0..20
  PROVE  \E n : IsPart(Programs[i], i, n)
<1>1. CASE i = 0
  <2> DEFINE q == <<Bare("namespace")>>
             p == Main(q)
  <2>1. Programs[i] = p
    BY <1>1 DEF Programs, LastTest
  <2>2. IsSeq(q, 1) /\ q[1] = Bare("namespace")
    BY OneStep, Zenon
  <2>3. IsMain(q, 1, p)
    BY <2>2, MainOf, Zenon
  <2>4. 1 \in 1..1
    OBVIOUS
  <2>5. Opened(p[1], "namespace", 1 + 1 - 1)
    BY <2>2, <2>3, <2>4, PlainInMain, Zenon
  <2>6. p[1].op = "namespace" /\ p[1 + 1].op = "exit"
    BY <2>3, <2>5, Zenon DEF Opened, IsMain
  <2> HIDE DEF p
  <2>7. p[2].op = "exit"
    BY <2>6
  <2> QED
    BY <1>1, <2>1, <2>6, <2>7, Zenon DEF IsPart
<1>2. CASE i \in 1..19
  <2>1. Programs[i] = case(i)
    BY <1>2 DEF Programs, LastTest
  <2> QED
    BY <1>2, <2>1, CaseAt, Zenon DEF IsPart
<1>3. CASE i = 20
  <2> DEFINE p == Main(clean)
  <2>1. Programs[i] = p
    BY <1>3 DEF Programs, LastTest
  <2>2. clean = [j \in 1..3 |-> clean[j]] /\ 3 \in Nat /\ clean[1] = Bare("delete_jobs")
        /\ clean[2] = Bare("empty") /\ clean[3] = Bare("delete_queues")
    BY DEF clean
  <2>3. IsSeq(clean, 3)
    BY <2>2, StepsOf, Zenon
  <2>4. IsMain(clean, 3, p)
    BY <2>3, MainOf, Zenon
  <2>5. 1 \in 1..3 /\ 2 \in 1..3 /\ 3 \in 1..3
    OBVIOUS
  <2>6. /\ Opened(p[1], "delete_jobs", 3 + 1 - 1) /\ Opened(p[2], "empty", 3 + 1 - 2)
        /\ Opened(p[3], "delete_queues", 3 + 1 - 3)
    BY <2>2, <2>4, <2>5, PlainInMain, Zenon
  <2>7. /\ p[1].op = "delete_jobs" /\ p[2].op = "empty" /\ p[3].op = "delete_queues"
        /\ p[3 + 1].op = "exit"
    BY <2>4, <2>6, Zenon DEF Opened, IsMain
  <2> HIDE DEF p
  <2>8. p[4].op = "exit"
    BY <2>7
  <2> QED
    BY <1>3, <2>1, <2>7, <2>8, Zenon DEF IsPart
<1> QED
  BY <1>1, <1>2, <1>3

\* What the calls of a case do to the world, by the name of the call.
Still == {"delete_queues", "read", "cm", "restart", "status", "queue"}
VolcanoFields == {"jobs", "cm", "loaded", "rolling", "kept"}
JobFields == {"spec", "at", "phase", "pods"}
Formed(jobs) == \A n \in DOMAIN jobs : JobFields \subseteq DOMAIN jobs[n]
Shaped(v) == VolcanoFields \subseteq DOMAIN v /\ Formed(v.jobs)
ActsAs(s, v) ==
  /\ Shaped(v) /\ v.loaded = w.loaded
  /\ s.op # "delete_jobs" => v.kept = w.kept
  /\ s.op # "cm" => v.cm = w.cm
  /\ s.op # "restart" => (v.rolling <=> w.rolling)
  /\ s.op \in Still \cup {"empty"} => v.jobs = w.jobs

\* After the delete of clean(), and after its wait: what becomes of the Jobs.
InSight(v) == \A n \in DOMAIN v.jobs : n \in v.kept \/ v.jobs[n].pods \/ Ended(v.jobs[n])
OutOfSight(v) == \A n \in DOMAIN v.jobs : n \in v.kept \/ Ended(v.jobs[n])
NoneHasPods(v) == \A n \in DOMAIN v.jobs : ~v.jobs[n].pods

\* A call has ended well only as its name says.
EndsAs(s, v) ==
  /\ s.op = "delete_jobs" => InSight(v)
  /\ s.op = "empty" => NoneHasPods(v)
  /\ s.op = "cm" => v.cm = s.name
  /\ s.op = "restart" => v.rolling
  /\ s.op = "status" => ~w.rolling

\* One call of a case.
Calls(s) ==
  /\ ActsAs(s, w') /\ GoesOn /\ s.op \notin {"fn", "exit"}
  /\ raised' \/ EndsAs(s, w')
  /\ Set(loc.mem)

LEMMA CallIs ==
  ASSUME NEW s, NEW new, Call(s, new)
  PROVE  (w' = w \/ w' = new) /\ GoesOn /\ (raised' \/ w' = new)
<1>1. \/ w' = new /\ pc' = pc + 1 /\ raised' = raised
      \/ (w' = w \/ w' = new) /\ raised' = TRUE
  BY Zenon DEF Call, Return, Raise
<1>2. CASE w' = new /\ pc' = pc + 1 /\ raised' = raised
  BY <1>2, Zenon DEF GoesOn
<1>3. CASE (w' = w \/ w' = new) /\ raised' = TRUE
  BY <1>3, Zenon DEF GoesOn
<1> QED
  BY <1>1, <1>2, <1>3, Zenon

LEMMA QuietIs ==
  ASSUME NEW s, NEW new, Quiet(s, new)
  PROVE  (w' = w \/ w' = new) /\ GoesOn
<1>1. \/ Call(s, new)
      \/ (w' = w \/ w' = new) /\ pc' = pc + 1 /\ raised' = raised
  BY Zenon DEF Quiet, Return
<1>2. CASE Call(s, new)
  BY <1>2, CallIs, Zenon
<1>3. CASE (w' = w \/ w' = new) /\ pc' = pc + 1 /\ raised' = raised
  BY <1>3, Zenon DEF GoesOn
<1> QED
  BY <1>1, <1>2, <1>3

LEMMA FailIs ==
  ASSUME NEW s, Fail(s)
  PROVE  w' = w /\ GoesOn /\ raised'
BY Zenon DEF Fail, Raise, GoesOn

LEMMA AwaitIs ==
  ASSUME NEW s, NEW cond, NEW hopeless, Await(s, cond, hopeless)
  PROVE  w' = w /\ GoesOn /\ (raised' \/ cond)
<1>1. (cond /\ Call(s, w)) \/ Fail(s)
  BY Zenon DEF Await
<1> QED
  BY <1>1, CallIs, FailIs, Zenon

LEMMA RequireIs ==
  ASSUME NEW s, NEW cond, Require(s, cond)
  PROVE  w' = w /\ GoesOn
<1>1. (pc' = pc + 1 /\ raised' = raised /\ w' = w) \/ Fail(s)
  BY Zenon DEF Require, Return
<1>2. CASE pc' = pc + 1 /\ raised' = raised /\ w' = w
  BY <1>2, Zenon DEF GoesOn
<1>3. CASE Fail(s)
  BY <1>3, FailIs, Zenon
<1> QED
  BY <1>1, <1>2, <1>3, Zenon

LEMMA ActsSame ==
  ASSUME Shaped(w), NEW s
  PROVE  ActsAs(s, w)
BY Zenon DEF ActsAs

\* The calls of VolcanoStep: all of its disjuncts but the beginning of the
\* function and the end of the program.
VolcanoCall(s) ==
  \/ DeleteJobs(s) \/ WaitEmpty(s) \/ DeleteQueues(s) \/ CreateNamespace(s) \/ ReadCluster(s)
  \/ WriteConfig(s) \/ RestartScheduler(s) \/ RolloutDone(s) \/ ApplyQueue(s)
  \/ ApplyVolcanoJob(s) \/ AwaitRunning(s) \/ AssertRunning(s) \/ AwaitPhase(s)
  \/ AwaitPods(s) \/ StillUnplaced(s) \/ DeleteJob(s) \/ NoPods(s) \/ CountPlaces(s) \/ TtlExpires(s)
  \/ CommandQueue(s) \/ AwaitState(s) \/ CreateRefused(s)
  \/ EndTry(s) /\ Note

\* Calls that say nothing but that they leave the configuration alone.
PlainOp(s) == s.op \notin {"delete_jobs", "empty", "cm", "restart", "status", "fn", "exit"}

LEMMA PlainEnds ==
  ASSUME NEW s, PlainOp(s), NEW v, v = w', ActsAs(s, v), GoesOn, Set(loc.mem)
  PROVE  Calls(s)
BY DEF Calls, PlainOp, EndsAs

LEMMA CallsAre ==
  ASSUME Shaped(w), NEW s, VolcanoCall(s)
  PROVE  Calls(s)
<1>1. ActsAs(s, w)
  BY ActsSame, Zenon
<1>2. ASSUME PlainOp(s), w' = w, GoesOn, Note
      PROVE  Calls(s)
  <2>1. ActsAs(s, w')
    BY <1>1, <1>2
  <2> QED
    BY <1>2, <2>1, PlainEnds, Zenon DEF Note
<1>3. ASSUME NEW new, ActsAs(s, new), PlainOp(s), w' = w \/ w' = new, GoesOn, Note
      PROVE  Calls(s)
  <2>1. ActsAs(s, w')
    BY <1>1, <1>3
  <2> QED
    BY <1>3, <2>1, PlainEnds, Zenon DEF Note
<1>4. CASE DeleteJobs(s)
  <2>1. PICK jobs : /\ \/ jobs = <<>>
                       \/ \E left, bare \in SUBSET DOMAIN w.jobs : jobs = Remains(left, bare)
                    /\ w' = Swept(jobs) /\ (Return \/ Raise(s))
    BY <1>4, Zenon DEF DeleteJobs
  <2>2. s.op = "delete_jobs" /\ Note
    BY <1>4, Zenon DEF DeleteJobs
  <2>3. GoesOn
    BY <2>1, Zenon DEF Return, Raise, GoesOn
  <2>4. Formed(jobs)
    <3>1. CASE jobs = <<>>
      BY <3>1 DEF Formed
    <3>2. CASE \E left, bare \in SUBSET DOMAIN w.jobs : jobs = Remains(left, bare)
      <4>1. PICK left \in SUBSET DOMAIN w.jobs, bare \in SUBSET DOMAIN w.jobs : jobs = Remains(left, bare)
        BY <3>2
      <4> DEFINE one(n) == [w.jobs[n] EXCEPT !.pods = FALSE, !.at = Nowhere(w.jobs[n].spec)]
      <4>2. ASSUME NEW n PROVE DOMAIN one(n) = DOMAIN w.jobs[n]
        OBVIOUS
      <4>3. jobs = [n \in left |-> IF n \in bare THEN one(n) ELSE w.jobs[n]]
        BY <4>1, Zenon DEF Remains
      <4> HIDE DEF one
      <4>4. \A n \in DOMAIN jobs : n \in DOMAIN w.jobs /\ DOMAIN jobs[n] = DOMAIN w.jobs[n]
        BY <4>2, <4>3
      <4> QED
        BY <4>4 DEF Shaped, Formed
    <3> QED
      BY <2>1, <3>1, <3>2
  <2> DEFINE kept == {n \in DOMAIN jobs : ~jobs[n].pods}
  <2>5. w' = [w EXCEPT !.jobs = jobs, !.kept = kept]
    BY <2>1, Zenon DEF Swept
  <2>6. \A n \in DOMAIN jobs : n \in kept \/ jobs[n].pods
    OBVIOUS
  <2> HIDE DEF kept
  <2>7. /\ VolcanoFields \subseteq DOMAIN w' /\ w'.jobs = jobs /\ w'.kept = kept
        /\ w'.loaded = w.loaded /\ w'.cm = w.cm /\ (w'.rolling <=> w.rolling)
    BY <2>5 DEF Shaped, VolcanoFields
  <2>8. ActsAs(s, w')
    BY <2>2, <2>4, <2>7 DEF ActsAs, Shaped, Still
  <2>9. EndsAs(s, w')
    <3>1. InSight(w')
      BY <2>6, <2>7, Zenon DEF InSight
    <3> QED
      BY <2>2, <3>1 DEF EndsAs
  <2> QED
    BY <2>2, <2>3, <2>8, <2>9 DEF Calls, Note
<1>5. CASE WaitEmpty(s)
  <2> DEFINE none == NoneHasPods(w)
             late == TRUE
  <2>1. s.op = "empty" /\ Await(s, none, late) /\ Note
    BY <1>5, Zenon DEF WaitEmpty, NoneHasPods
  <2> HIDE DEF none, late
  <2>2. w' = w /\ GoesOn /\ (raised' \/ none)
    <3>1. (none /\ Call(s, w)) \/ Fail(s)
      BY <2>1, Zenon DEF Await
    <3>2. CASE Call(s, w)
      BY <3>1, <3>2, CallIs, FailIs, Zenon
    <3> QED
      BY <3>1, <3>2, FailIs, Zenon
  <2>3. raised' \/ EndsAs(s, w')
    <3>1. raised' \/ NoneHasPods(w')
      BY <2>2 DEF none
    <3> QED
      BY <2>1, <3>1 DEF EndsAs
  <2>4. ActsAs(s, w')
    BY <1>1, <2>2
  <2> QED
    BY <2>1, <2>2, <2>3, <2>4 DEF Calls, Note
<1>6. CASE DeleteQueues(s)
  <2> DEFINE new == [w EXCEPT !.queues = <<>>]
  <2>1. PlainOp(s) /\ s.op = "delete_queues"
    BY <1>6 DEF DeleteQueues, PlainOp
  <2>2. ActsAs(s, new)
    BY <2>1 DEF ActsAs, Shaped, VolcanoFields, Still
  <2>3. Quiet(s, new) /\ Note
    BY <1>6, Zenon DEF DeleteQueues
  <2> HIDE DEF new
  <2>4. (w' = w \/ w' = new) /\ GoesOn
    BY <2>3, QuietIs, Zenon
  <2> QED
    BY <1>3, <2>1, <2>2, <2>3, <2>4, Zenon
<1>7. CASE CreateNamespace(s)
  <2>1. PlainOp(s)
    BY <1>7 DEF CreateNamespace, PlainOp
  <2>2. Quiet(s, w) /\ Note
    BY <1>7, Zenon DEF CreateNamespace
  <2> QED
    BY <1>2, <2>1, <2>2, QuietIs, Zenon
<1>8. CASE ReadCluster(s)
  <2>1. PlainOp(s)
    BY <1>8 DEF ReadCluster, PlainOp
  <2>2. Call(s, w) /\ Note
    BY <1>8, Zenon DEF ReadCluster
  <2> QED
    BY <1>2, <2>1, <2>2, CallIs, Zenon
<1>9. CASE WriteConfig(s)
  <2> DEFINE new == [w EXCEPT !.cm = s.name]
  <2>1. s.op = "cm" /\ Call(s, new) /\ Note
    BY <1>9, Zenon DEF WriteConfig
  <2>2. ActsAs(s, new) /\ EndsAs(s, new)
    BY <2>1 DEF ActsAs, EndsAs, Shaped, VolcanoFields, Still
  <2> HIDE DEF new
  <2>3. (w' = w \/ w' = new) /\ GoesOn /\ (raised' \/ w' = new)
    BY <2>1, CallIs, Zenon
  <2>4. ActsAs(s, w')
    BY <1>1, <2>2, <2>3
  <2>5. raised' \/ EndsAs(s, w')
    BY <2>2, <2>3
  <2> QED
    BY <2>1, <2>3, <2>4, <2>5 DEF Calls, Note
<1>10. CASE RestartScheduler(s)
  <2> DEFINE new == [w EXCEPT !.rolling = TRUE]
  <2>1. s.op = "restart" /\ Call(s, new) /\ Note
    BY <1>10, Zenon DEF RestartScheduler
  <2>2. ActsAs(s, new) /\ EndsAs(s, new)
    BY <2>1 DEF ActsAs, EndsAs, Shaped, VolcanoFields, Still
  <2> HIDE DEF new
  <2>3. (w' = w \/ w' = new) /\ GoesOn /\ (raised' \/ w' = new)
    BY <2>1, CallIs, Zenon
  <2>4. ActsAs(s, w')
    BY <1>1, <2>2, <2>3
  <2>5. raised' \/ EndsAs(s, w')
    BY <2>2, <2>3
  <2> QED
    BY <2>1, <2>3, <2>4, <2>5 DEF Calls, Note
<1>11. CASE RolloutDone(s)
  <2>1. s.op = "status" /\ Await(s, ~w.rolling, FALSE) /\ Note
    BY <1>11, Zenon DEF RolloutDone
  <2>2. w' = w /\ GoesOn /\ (raised' \/ ~w.rolling)
    BY <2>1, AwaitIs, Zenon
  <2>3. raised' \/ EndsAs(s, w')
    BY <2>1, <2>2 DEF EndsAs
  <2>4. ActsAs(s, w')
    BY <1>1, <2>2
  <2> QED
    BY <2>1, <2>2, <2>3, <2>4 DEF Calls, Note
<1>12. CASE ApplyQueue(s)
  <2> DEFINE q == Plus(w.queues, s.name, "Open")
             new == IF s.name \in DOMAIN w.queues THEN w ELSE [w EXCEPT !.queues = q]
  <2>1. PlainOp(s) /\ s.op = "queue"
    BY <1>12 DEF ApplyQueue, PlainOp
  <2>2. Call(s, new) /\ Note
    BY <1>12, Zenon DEF ApplyQueue
  <2> HIDE DEF q
  <2>3. ActsAs(s, new)
    BY <2>1 DEF ActsAs, Shaped, VolcanoFields, Still
  <2> HIDE DEF new
  <2>4. (w' = w \/ w' = new) /\ GoesOn
    BY <2>2, CallIs, Zenon
  <2> QED
    BY <1>3, <2>1, <2>2, <2>3, <2>4, Zenon
<1>13. CASE ApplyVolcanoJob(s)
  <2> DEFINE one == [spec |-> s.arg, at |-> Nowhere(s.arg), phase |-> "Pending", pods |-> FALSE]
             q == Plus(w.jobs, s.name, one)
             new == [w EXCEPT !.jobs = q]
  <2>1. PlainOp(s) /\ s.op = "job"
    BY <1>13 DEF ApplyVolcanoJob, PlainOp
  <2>2. (Call(s, new) \/ Call(s, w) \/ Fail(s)) /\ Note
    BY <1>13, Zenon DEF ApplyVolcanoJob
  <2>3. Formed(q)
    <3>1. JobFields \subseteq DOMAIN one
      BY DEF JobFields
    <3> HIDE DEF one
    <3> QED
      BY <3>1 DEF Plus, Formed, Shaped
  <2> HIDE DEF q
  <2>4. ActsAs(s, new)
    BY <2>1, <2>3 DEF ActsAs, Shaped, VolcanoFields, Still
  <2> HIDE DEF new
  <2>5. (w' = w \/ w' = new) /\ GoesOn
    BY <2>2, CallIs, FailIs, Zenon
  <2> QED
    BY <1>3, <2>1, <2>2, <2>4, <2>5, Zenon
<1>14. CASE AwaitRunning(s) \/ AwaitPhase(s) \/ AwaitPods(s) \/ NoPods(s) \/ AwaitState(s)
  <2>1. PlainOp(s)
    BY <1>14 DEF AwaitRunning, AwaitPhase, AwaitPods, NoPods, AwaitState, PlainOp
  <2>2. PICK cond, hopeless : Await(s, cond, hopeless) /\ Note
    BY <1>14, Zenon DEF AwaitRunning, AwaitPhase, AwaitPods, NoPods, AwaitState
  <2>3. w' = w /\ GoesOn
    BY <2>2, AwaitIs, Zenon
  <2> QED
    BY <1>2, <2>1, <2>2, <2>3, Zenon
<1>15. CASE AssertRunning(s) \/ CountPlaces(s)
  <2>1. PlainOp(s)
    BY <1>15 DEF AssertRunning, CountPlaces, PlainOp
  <2>2. PICK cond : Require(s, cond) /\ Note
    BY <1>15, Zenon DEF AssertRunning, CountPlaces
  <2> QED
    BY <1>2, <2>1, <2>2, RequireIs, Zenon
<1>16. CASE StillUnplaced(s)
  <2>1. PlainOp(s)
    BY <1>16 DEF StillUnplaced, PlainOp
  <2>2. (Call(s, w) \/ Fail(s)) /\ Note
    BY <1>16, Zenon DEF StillUnplaced
  <2> QED
    BY <1>2, <2>1, <2>2, CallIs, FailIs, Zenon
<1>17. CASE DeleteJob(s) \/ TtlExpires(s)
  <2> DEFINE q == Restrict(w.jobs, DOMAIN w.jobs \ {s.name})
             new == [w EXCEPT !.jobs = q]
  <2>1. PlainOp(s) /\ s.op \in {"delete", "expired"}
    BY <1>17 DEF DeleteJob, TtlExpires, PlainOp
  <2>2. Call(s, new) /\ Note
    BY <1>17, Zenon DEF DeleteJob, TtlExpires, WithoutJobs
  <2>5. Formed(q)
    BY DEF Restrict, Formed, Shaped
  <2> HIDE DEF q
  <2>3. ActsAs(s, new)
    BY <2>1, <2>5 DEF ActsAs, Shaped, VolcanoFields, Still
  <2> HIDE DEF new
  <2>4. (w' = w \/ w' = new) /\ GoesOn
    BY <2>2, CallIs, Zenon
  <2> QED
    BY <1>3, <2>1, <2>2, <2>3, <2>4, Zenon
<1>18. CASE CommandQueue(s)
  <2> DEFINE new == [w EXCEPT !.queues[s.name] = s.arg]
  <2>1. PlainOp(s) /\ s.op = "command"
    BY <1>18 DEF CommandQueue, PlainOp
  <2>2. Call(s, new) /\ Note
    BY <1>18, Zenon DEF CommandQueue
  <2>3. ActsAs(s, new)
    BY <2>1 DEF ActsAs, Shaped, VolcanoFields, Still
  <2> HIDE DEF new
  <2>4. (w' = w \/ w' = new) /\ GoesOn
    BY <2>2, CallIs, Zenon
  <2> QED
    BY <1>3, <2>1, <2>2, <2>3, <2>4, Zenon
<1>19. CASE CreateRefused(s)
  <2>1. PlainOp(s)
    BY <1>19 DEF CreateRefused, PlainOp
  <2>2. (Quiet(s, w) \/ Fail(s)) /\ Note
    BY <1>19, Zenon DEF CreateRefused
  <2> QED
    BY <1>2, <2>1, <2>2, QuietIs, FailIs, Zenon
<1>20. CASE EndTry(s) /\ Note
  <2>1. PlainOp(s)
    BY <1>20 DEF EndTry, PlainOp
  <2>2. w' = w /\ ((pc' = pc + 1 /\ raised' = raised) \/ raised' = TRUE)
    BY <1>20, Zenon DEF EndTry, Return, Raise
  <2>3. GoesOn
    BY <2>2, Zenon DEF GoesOn
  <2> QED
    BY <1>2, <1>20, <2>1, <2>2, <2>3, Zenon
<1> QED
  BY <1>4, <1>5, <1>6, <1>7, <1>8, <1>9, <1>10, <1>11, <1>12, <1>13, <1>14, <1>15, <1>16, <1>17,
     <1>18, <1>19, <1>20, Zenon DEF VolcanoCall

\* The plugin that the case at i needs is the one of the last case that named one.
LEMMA IntendedIs ==
  ASSUME NEW i \in 1..19
  PROVE  /\ i \in 1..6 => Intended(i) = "proportion"
         /\ i = 7 => Intended(i) = "capacity"
         /\ i \in 8..19 => Intended(i) = "proportion"
<1> DEFINE S == {m \in Modes : m <= i}
<1>1. Intended(i) = modeOf(Max(S))
  BY Zenon DEF Intended
<1>2. Max(S) = CHOOSE x \in S : \A y \in S : x >= y
  BY Zenon DEF Max
<1>3. CASE i \in 1..6
  <2>1. S = {1}
    BY <1>3 DEF Modes
  <2> HIDE DEF S
  <2>2. Max(S) = 1
    BY <1>2, <2>1
  <2> QED
    BY <1>1, <1>3, <2>2 DEF modeOf
<1>4. CASE i = 7
  <2>1. S = {1, 7}
    BY <1>4 DEF Modes
  <2> HIDE DEF S
  <2>2. Max(S) = 7
    BY <1>2, <2>1
  <2> QED
    BY <1>1, <1>4, <2>2 DEF modeOf
<1>5. CASE i \in 8..19
  <2>1. S = {1, 7, 8}
    BY <1>5 DEF Modes
  <2> HIDE DEF S
  <2>2. Max(S) = 8
    BY <1>2, <2>1
  <2> QED
    BY <1>1, <1>5, <2>2 DEF modeOf
<1> QED
  BY <1>3, <1>4, <1>5

LEMMA IntendedStays ==
  ASSUME NEW i \in 1..18, i + 1 \notin Modes
  PROVE  Intended(i + 1) = Intended(i)
<1>1. i \in 1..19 /\ i + 1 \in 1..19
  OBVIOUS
<1>2. \/ i \in 1..6 /\ i + 1 \in 1..6
      \/ i \in 8..19 /\ i + 1 \in 8..19
  BY DEF Modes
<1> DEFINE j == i + 1
<1> HIDE DEF j
<1>3. j \in 1..19 /\ ((i \in 1..6 /\ j \in 1..6) \/ (i \in 8..19 /\ j \in 8..19))
  BY <1>1, <1>2 DEF j
<1>4. Intended(j) = Intended(i)
  BY <1>1, <1>3, IntendedIs
<1> QED
  BY <1>4 DEF j

LEMMA NamedIsIntended ==
  ASSUME NEW i \in Modes
  PROVE  Intended(i) = modeOf(i)
<1>1. i \in 1..19 /\ (i = 1 \/ i = 7 \/ i = 8)
  BY DEF Modes
<1> QED
  BY <1>1, IntendedIs DEF modeOf

\* Where the calls that the invariant is about stand in a test.
StepOfTest(r, i, n, k) ==
  /\ r.op = "cm" => i \in Modes /\ k = 5
  /\ r.op = "restart" => i \in Modes /\ k = 6
  /\ r.op = "fn" => k = 5 + Setting(i)
  /\ r.op = "exit" => k = n + 1
  /\ k = 1 => r.op = "delete_jobs"
  /\ k = 2 => r.op = "empty"
  /\ k \in 3..(4 + Setting(i)) => r.op \in Still
  /\ i \in Modes /\ k = 5 => r.op = "cm" /\ r.name = modeOf(i)
  /\ i \in Modes /\ k = 6 => r.op = "restart"
  /\ i \in Modes /\ k = 7 => r.op = "status"
  /\ k = n + 1 => r.op = "exit"
  /\ k = 5 + Setting(i) => r.op = "fn"

LEMMA OpsOfTest ==
  ASSUME NEW p, NEW i, NEW n, IsTest(p, i, n), NEW k \in 1..(n + 1)
  PROVE  StepOfTest(p[k], i, n, k)
<1> USE DEF StepOfTest
<1> DEFINE d == Setting(i)
<1>1. d \in {0, 4} /\ (i \in Modes <=> d = 4)
  BY DEF Setting
<1>2. n \in Nat /\ n >= 5 + d
  BY Zenon DEF IsTest
<1>3. \/ k = 1 \/ k = 2 \/ k = 3 \/ (d = 4 /\ (k = 4 \/ k = 5 \/ k = 6 \/ k = 7)) \/ k = 4 + d \/ k = 5 + d
      \/ k \in (6 + d)..n \/ k = n + 1
  BY <1>1, <1>2
<1>4. p[1].op = "delete_jobs" /\ p[2].op = "empty" /\ p[3].op = "delete_queues"
  BY Zenon DEF IsTest
<1>5. i \in Modes => /\ p[4].op = "read" /\ p[5].op = "cm" /\ p[5].name = modeOf(i)
                     /\ p[6].op = "restart" /\ p[7].op = "status"
  BY Zenon DEF IsTest
<1>6. p[4 + d].op = "queue" /\ p[5 + d].op = "fn" /\ p[n + 1].op = "exit"
  BY Zenon DEF IsTest
<1>7. \A m \in (6 + d)..n : p[m].op \notin Reserved
  BY Zenon DEF IsTest
<1> DEFINE o == p[k].op
<1> HIDE DEF d, o
<1>8. CASE k = 1
  <2>1. o = "delete_jobs"
    BY <1>4, <1>8 DEF o
  <2> QED
    BY <1>1, <1>2, <1>8, <2>1 DEF d, o
<1>9. CASE k = 2
  <2>1. o = "empty"
    BY <1>4, <1>9 DEF o
  <2> QED
    BY <1>1, <1>2, <1>9, <2>1 DEF d, o
<1>10. CASE k = 3
  <2>1. o = "delete_queues"
    BY <1>4, <1>10 DEF o
  <2> QED
    BY <1>1, <1>2, <1>10, <2>1 DEF d, o, Still
<1>11. CASE d = 4 /\ (k = 4 \/ k = 5 \/ k = 6 \/ k = 7)
  <2>1. i \in Modes /\ d = 4
    BY <1>1, <1>11
  <2>2. CASE k = 4
    <3>1. o = "read"
      BY <1>5, <2>1, <2>2 DEF o
    <3> QED
      BY <1>2, <2>1, <2>2, <3>1 DEF d, o, Still
  <2>3. CASE k = 5
    <3>1. o = "cm" /\ p[k].name = modeOf(i)
      BY <1>5, <2>1, <2>3 DEF o
    <3> QED
      BY <1>2, <2>1, <2>3, <3>1 DEF d, o, Still
  <2>4. CASE k = 6
    <3>1. o = "restart"
      BY <1>5, <2>1, <2>4 DEF o
    <3> QED
      BY <1>2, <2>1, <2>4, <3>1 DEF d, o, Still
  <2>5. CASE k = 7
    <3>1. o = "status"
      BY <1>5, <2>1, <2>5 DEF o
    <3> QED
      BY <1>2, <2>1, <2>5, <3>1 DEF d, o, Still
  <2> QED
    BY <1>11, <2>2, <2>3, <2>4, <2>5
<1>12. CASE k = 4 + d
  <2>1. o = "queue"
    BY <1>6, <1>12 DEF o
  <2> QED
    BY <1>1, <1>2, <1>12, <2>1 DEF d, o, Still
<1>13. CASE k = 5 + d
  <2>1. o = "fn"
    BY <1>6, <1>13 DEF o
  <2> QED
    BY <1>1, <1>2, <1>13, <2>1 DEF d, o
<1>14. CASE k \in (6 + d)..n
  <2>1. o \notin Reserved
    BY <1>7, <1>14 DEF o
  <2> QED
    BY <1>1, <1>2, <1>14, <2>1 DEF d, o, Reserved
<1>15. CASE k = n + 1
  <2>1. o = "exit"
    BY <1>6, <1>15 DEF o
  <2> QED
    BY <1>1, <1>2, <1>15, <2>1 DEF d, o
<1> QED
  BY <1>3, <1>8, <1>9, <1>10, <1>11, <1>12, <1>13, <1>14, <1>15

\* The scheduler of the world v before the k-th step of the i-th case.
Under(v, i, k) ==
  /\ i \in Modes => /\ k >= 6 => v.cm = modeOf(i)
                    /\ k >= 7 => v.cm = modeOf(i) /\ (v.rolling \/ v.loaded = modeOf(i))
                    /\ k >= 8 => ~v.rolling
  /\ i \in (1..19) \ Modes => v.cm = Intended(i) /\ v.loaded = Intended(i) /\ ~v.rolling

\* The Jobs of others, from the delete of clean() to the function of the case.
Vacant(v, i, k) ==
  i \in 1..19 => /\ k = 2 => InSight(v)
                 /\ k \in 3..(5 + Setting(i)) => OutOfSight(v)

\* Where the program is, as long as nothing has failed.
OnTrack(v, mem, k) ==
  /\ mem.sound /\ mem.case \in 0..20
  /\ \E n : IsPart(Programs[mem.case], mem.case, n) /\ n \in Nat /\ k \in 1..(n + 1)
  /\ Under(v, mem.case, k) /\ Vacant(v, mem.case, k)

SuiteFields == /\ {"run", "clean", "verdict", "mem"} \subseteq DOMAIN loc
               /\ {"case", "only", "failed", "sound"} \subseteq DOMAIN loc.mem

VolcanoInv ==
  /\ Shaped(w) /\ SuiteFields
  /\ pc = 0 \/ loc.verdict = "none"
  /\ pc # 0 /\ ~raised /\ ~loc.mem.failed /\ loc.mem.only = 0 => OnTrack(w, loc.mem, pc)
  /\ loc.verdict = "PASS" /\ loc.mem.only = 0 => loc.mem.sound

\* The calls of one case.
LEMMA TrackCalls ==
  ASSUME NEW i \in 1..19, NEW n, IsTest(Programs[i], i, n), NEW k \in 1..(n + 1),
         NEW s, s = Programs[i][k], Calls(s), ~raised', Under(w, i, k), Vacant(w, i, k)
  PROVE  k + 1 \in 1..(n + 1) /\ Under(w', i, k + 1) /\ Vacant(w', i, k + 1)
<1> DEFINE d == Setting(i)
           o == s.op
<1>1. d \in {0, 4} /\ (i \in Modes <=> d = 4)
  BY DEF Setting
<1>2. n \in Nat /\ n >= 5 + d
  BY Zenon DEF IsTest
<1>3. /\ o = "cm" => i \in Modes /\ k = 5
      /\ o = "restart" => i \in Modes /\ k = 6
      /\ k = 1 => o = "delete_jobs"
      /\ k = 2 => o = "empty"
      /\ k \in 3..(4 + d) => o \in Still
      /\ i \in Modes /\ k = 5 => o = "cm" /\ s.name = modeOf(i)
      /\ i \in Modes /\ k = 6 => o = "restart"
      /\ i \in Modes /\ k = 7 => o = "status"
      /\ k = n + 1 => o = "exit"
      /\ k = 5 + d => o = "fn"
  <2>1. StepOfTest(s, i, n, k)
    BY OpsOfTest, Zenon
  <2> QED
    BY <2>1, Zenon DEF StepOfTest
<1>4. /\ w'.loaded = w.loaded
      /\ o # "delete_jobs" => w'.kept = w.kept
      /\ o # "cm" => w'.cm = w.cm
      /\ o # "restart" => (w'.rolling <=> w.rolling)
      /\ o \in Still \cup {"empty"} => w'.jobs = w.jobs
  BY Zenon DEF Calls, ActsAs
<1>5. /\ o = "delete_jobs" => InSight(w')
      /\ o = "empty" => NoneHasPods(w')
      /\ o = "cm" => w'.cm = s.name
      /\ o = "restart" => w'.rolling
      /\ o = "status" => ~w.rolling
  BY Zenon DEF Calls, EndsAs
<1>6. o \notin {"fn", "exit"}
  BY Zenon DEF Calls
<1> HIDE DEF d, o
<1>7. k \in Nat /\ k # n + 1 /\ k # 5 + d
  BY <1>2, <1>3, <1>6
<1>8. k + 1 \in 1..(n + 1)
  BY <1>2, <1>7
<1>9. Vacant(w', i, k + 1)
  <2>1. CASE k = 1
    <3>1. InSight(w')
      BY <1>3, <1>5, <2>1
    <3>2. k + 1 = 2 /\ k + 1 \notin 3..(5 + d)
      BY <1>1, <2>1
    <3> QED
      BY <3>1, <3>2 DEF Vacant, d
  <2>2. CASE k = 2
    <3>1. InSight(w) /\ o = "empty"
      BY <1>3, <2>2 DEF Vacant
    <3>2. w'.jobs = w.jobs /\ w'.kept = w.kept /\ NoneHasPods(w')
      BY <1>4, <1>5, <3>1
    <3>3. OutOfSight(w')
      BY <3>1, <3>2, Zenon DEF InSight, OutOfSight, NoneHasPods
    <3>4. k + 1 # 2
      BY <2>2
    <3> QED
      BY <3>3, <3>4, Zenon DEF Vacant
  <2>3. CASE k \in 3..(4 + d)
    <3>1. k \in 3..(5 + d) /\ k + 1 # 2
      BY <1>1, <2>3
    <3>2. OutOfSight(w)
      BY <3>1, Zenon DEF Vacant, d
    <3>3. w'.jobs = w.jobs /\ w'.kept = w.kept
      BY <1>3, <1>4, <2>3 DEF Still
    <3>4. OutOfSight(w')
      BY <3>2, <3>3, Zenon DEF OutOfSight
    <3> QED
      BY <3>1, <3>4, Zenon DEF Vacant
  <2>4. CASE k # 1 /\ k # 2 /\ k \notin 3..(4 + d)
    <3>1. k + 1 \notin 3..(5 + d) /\ k + 1 # 2
      BY <1>1, <1>7, <2>4
    <3> QED
      BY <3>1 DEF Vacant, d
  <2> QED
    BY <2>1, <2>2, <2>3, <2>4
<1>10. Under(w', i, k + 1)
  <2>1. CASE i \in Modes
    <3>1. /\ k >= 6 => w.cm = modeOf(i)
          /\ k >= 7 => w.rolling \/ w.loaded = modeOf(i)
          /\ k >= 8 => ~w.rolling
      BY <2>1 DEF Under
    <3>2. i \notin (1..19) \ Modes
      BY <2>1
    <3>3. k + 1 >= 6 => w'.cm = modeOf(i)
      BY <1>3, <1>4, <1>5, <1>7, <2>1, <3>1
    <3>4. k + 1 >= 7 => w'.rolling \/ w'.loaded = modeOf(i)
      BY <1>3, <1>4, <1>5, <1>7, <2>1, <3>1
    <3>5. k + 1 >= 8 => ~w'.rolling
      BY <1>3, <1>4, <1>5, <1>7, <2>1, <3>1
    <3> QED
      BY <1>7, <3>2, <3>3, <3>4, <3>5 DEF Under
  <2>2. CASE i \notin Modes
    <3>1. w.cm = Intended(i) /\ w.loaded = Intended(i) /\ ~w.rolling
      BY <2>2 DEF Under
    <3>2. o # "cm" /\ o # "restart"
      BY <1>3, <2>2
    <3> QED
      BY <1>4, <2>2, <3>1, <3>2 DEF Under
  <2> QED
    BY <2>1, <2>2
<1> QED
  BY <1>8, <1>9, <1>10

\* A call, in a case or outside of one.
LEMMA TrackStep ==
  ASSUME NEW i \in 0..20, NEW n, IsPart(Programs[i], i, n), NEW k \in 1..(n + 1), n \in Nat,
         NEW s, s = Programs[i][k], Calls(s), ~raised', Under(w, i, k), Vacant(w, i, k)
  PROVE  k + 1 \in 1..(n + 1) /\ Under(w', i, k + 1) /\ Vacant(w', i, k + 1)
<1>1. s.op # "exit"
  BY DEF Calls
<1>2. CASE i \in 1..19
  <2>1. IsTest(Programs[i], i, n)
    BY <1>2 DEF IsPart
  <2> QED
    BY <1>2, <2>1, TrackCalls
<1>3. CASE i = 0 \/ i = 20
  <2>1. Programs[i][n + 1].op = "exit"
    <3>1. CASE i = 0
      BY <3>1 DEF IsPart
    <3>2. CASE i = 20
      BY <3>2 DEF IsPart
    <3> QED
      BY <1>3, <3>1, <3>2
  <2>2. k # n + 1
    BY <1>1, <2>1
  <2>3. k + 1 \in 1..(n + 1)
    BY <2>2
  <2>4. i \notin Modes /\ i \notin 1..19
    BY <1>3 DEF Modes
  <2> QED
    BY <2>3, <2>4 DEF Under, Vacant
<1> QED
  BY <1>2, <1>3

LEMMA NotedMem ==
  ASSUME SuiteFields, NEW mem, Set(mem), {"case", "only", "failed", "sound"} \subseteq DOMAIN mem
  PROVE  SuiteFields' /\ loc'.mem = mem /\ loc'.verdict = loc.verdict
<1> DEFINE c == loc.clean /\ blame' = blame
<1>1. loc' = [loc EXCEPT !.clean = c, !.mem = mem]
  BY Zenon DEF Set
<1> HIDE DEF c
<1> QED
  BY <1>1 DEF SuiteFields

LEMMA VolcanoCallKept ==
  ASSUME VolcanoInv, pc # 0, NEW s, s = Programs[loc.mem.case][pc], Calls(s)
  PROVE  VolcanoInv'
<1>1. SuiteFields' /\ loc'.mem = loc.mem /\ loc'.verdict = loc.verdict
  BY NotedMem, Zenon DEF Calls, VolcanoInv, SuiteFields
<1>2. Shaped(w)'
  BY DEF Calls, ActsAs
<1>3. loc'.verdict = "none"
  BY <1>1 DEF VolcanoInv
<1>4. ASSUME ~raised', ~loc.mem.failed, loc.mem.only = 0
      PROVE  OnTrack(w', loc.mem, pc')
  <2>1. ~raised /\ pc' = pc + 1
    BY <1>4 DEF Calls, GoesOn
  <2>2. OnTrack(w, loc.mem, pc)
    BY <1>4, <2>1 DEF VolcanoInv
  <2> DEFINE i == loc.mem.case
  <2>3. PICK n : IsPart(Programs[i], i, n) /\ n \in Nat /\ pc \in 1..(n + 1)
    BY <2>2, Zenon DEF OnTrack
  <2>4. i \in 0..20 /\ loc.mem.sound /\ Under(w, i, pc) /\ Vacant(w, i, pc)
    BY <2>2, Zenon DEF OnTrack
  <2>5. pc + 1 \in 1..(n + 1) /\ Under(w', i, pc + 1) /\ Vacant(w', i, pc + 1)
    BY <1>4, <2>3, <2>4, TrackStep
  <2> QED
    BY <2>1, <2>3, <2>4, <2>5, Zenon DEF OnTrack
<1> QED
  BY <1>1, <1>2, <1>3, <1>4 DEF VolcanoInv

\* The function of a case starts.
LEMMA CallFnKept ==
  ASSUME VolcanoInv, pc # 0, NEW s, s = Programs[loc.mem.case][pc], CallFn(s)
  PROVE  VolcanoInv'
<1> DEFINE i == loc.mem.case
           b == loc.mem.sound /\ w.loaded = Intended(i) /\ OutOfSight(w)
           mem == [loc.mem EXCEPT !.sound = b]
<1>1. s.op = "fn" /\ w' = w /\ pc' = pc + 1 /\ raised' = raised /\ Set(mem)
  BY Zenon DEF CallFn, Return, OutOfSight
<1>2. SuiteFields
  BY Zenon DEF VolcanoInv
<1> HIDE DEF b
<1>3. /\ {"case", "only", "failed", "sound"} \subseteq DOMAIN mem
      /\ mem.case = i /\ mem.only = loc.mem.only /\ (mem.failed <=> loc.mem.failed) /\ (mem.sound <=> b)
  BY <1>2 DEF SuiteFields
<1> HIDE DEF mem
<1>4. SuiteFields' /\ loc'.mem = mem /\ loc'.verdict = loc.verdict
  BY <1>1, <1>2, <1>3, NotedMem, Zenon
<1>5. Shaped(w)' /\ loc'.verdict = "none"
  BY <1>1, <1>4 DEF VolcanoInv, Shaped
<1>6. ASSUME ~raised', ~loc.mem.failed, loc.mem.only = 0
      PROVE  OnTrack(w', mem, pc')
  <2>1. OnTrack(w, loc.mem, pc)
    BY <1>1, <1>6 DEF VolcanoInv
  <2>2. PICK n : IsPart(Programs[i], i, n) /\ n \in Nat /\ pc \in 1..(n + 1)
    BY <2>1, Zenon DEF OnTrack
  <2>3. i \in 0..20 /\ loc.mem.sound /\ Under(w, i, pc) /\ Vacant(w, i, pc)
    BY <2>1, Zenon DEF OnTrack
  <2>4. i \in 1..19 /\ IsTest(Programs[i], i, n)
    <3>1. CASE i = 0
      <4>1. n = 1 /\ Programs[i][1].op = "namespace" /\ Programs[i][2].op = "exit"
        BY <2>2, <3>1 DEF IsPart
      <4> QED
        BY <1>1, <2>2, <4>1
    <3>2. CASE i = 20
      <4>1. /\ n = 3 /\ Programs[i][1].op = "delete_jobs" /\ Programs[i][2].op = "empty"
            /\ Programs[i][3].op = "delete_queues" /\ Programs[i][4].op = "exit"
        BY <2>2, <3>2 DEF IsPart
      <4> QED
        BY <1>1, <2>2, <4>1
    <3> QED
      BY <2>2, <2>3, <3>1, <3>2 DEF IsPart
  <2>5. pc = 5 + Setting(i)
    <3>1. StepOfTest(s, i, n, pc)
      BY <2>2, <2>4, OpsOfTest, Zenon
    <3> QED
      BY <1>1, <3>1, Zenon DEF StepOfTest
  <2>6. Setting(i) \in {0, 4} /\ (i \in Modes <=> Setting(i) = 4)
    BY DEF Setting
  <2>7. OutOfSight(w)
    <3>1. pc \in 3..(5 + Setting(i))
      BY <2>5, <2>6
    <3> QED
      BY <2>3, <2>4, <3>1 DEF Vacant
  <2>8. w.loaded = Intended(i)
    <3>1. CASE i \in Modes
      <4>1. w.loaded = modeOf(i)
        BY <2>3, <2>5, <2>6, <3>1 DEF Under
      <4> QED
        BY <3>1, <4>1, NamedIsIntended
    <3>2. CASE i \notin Modes
      BY <2>3, <2>4, <3>2 DEF Under
    <3> QED
      BY <3>1, <3>2
  <2>9. mem.sound
    BY <1>3, <2>3, <2>7, <2>8 DEF b
  <2>10. pc # n + 1
    BY <2>4, <2>5, <2>6 DEF IsTest
  <2>11. pc' \in 1..(n + 1)
    BY <1>1, <2>2, <2>10
  <2>12. Vacant(w', i, pc')
    <3>1. pc' \notin 3..(5 + Setting(i)) /\ pc' # 2
      BY <1>1, <2>5, <2>6
    <3> QED
      BY <3>1 DEF Vacant
  <2>13. Under(w', i, pc')
    <3>1. pc >= 8 <=> i \in Modes
      BY <2>5, <2>6
    <3> QED
      BY <1>1, <2>2, <2>3, <3>1 DEF Under
  <2> QED
    BY <1>3, <2>2, <2>3, <2>9, <2>11, <2>12, <2>13, Zenon DEF OnTrack
<1>7. loc'.verdict # "PASS"
  BY <1>5
<1> QED
  BY <1>3, <1>4, <1>5, <1>6, <1>7, Zenon DEF VolcanoInv

\* A case is recorded, and the next one begins.
LEMMA RecordKept ==
  ASSUME VolcanoInv, pc # 0, NEW s, s = Programs[loc.mem.case][pc], RecordCase(s)
  PROVE  VolcanoInv'
<1> DEFINE i == loc.mem.case
           b == loc.mem.failed \/ raised
           j == NextTest
           mem == [loc.mem EXCEPT !.case = j, !.failed = b]
<1>1. s.op = "exit" /\ w' = w /\ pc' = 1 /\ raised' = FALSE /\ Set(mem) /\ i \in 0..19
  BY DEF RecordCase, Begin, LastTest
<1>2. SuiteFields
  BY Zenon DEF VolcanoInv
<1>3. loc.mem.only = 0 => j = i + 1
  BY DEF NextTest, AllTests
<1> HIDE DEF b, j
<1>4. /\ {"case", "only", "failed", "sound"} \subseteq DOMAIN mem
      /\ mem.case = j /\ mem.only = loc.mem.only /\ (mem.failed <=> b) /\ (mem.sound <=> loc.mem.sound)
  BY <1>2 DEF SuiteFields
<1> HIDE DEF mem
<1>5. SuiteFields' /\ loc'.mem = mem /\ loc'.verdict = loc.verdict
  BY <1>1, <1>2, <1>4, NotedMem, Zenon
<1>6. Shaped(w)' /\ loc'.verdict = "none"
  BY <1>1, <1>5 DEF VolcanoInv, Shaped
<1>7. ASSUME ~mem.failed, mem.only = 0
      PROVE  OnTrack(w', mem, pc')
  <2>1. ~raised /\ ~loc.mem.failed /\ loc.mem.only = 0
    BY <1>4, <1>7 DEF b
  <2>2. OnTrack(w, loc.mem, pc)
    BY <2>1 DEF VolcanoInv
  <2>3. PICK n : IsPart(Programs[i], i, n) /\ n \in Nat /\ pc \in 1..(n + 1)
    BY <2>2, Zenon DEF OnTrack
  <2>4. loc.mem.sound /\ Under(w, i, pc)
    BY <2>2, Zenon DEF OnTrack
  <2>5. j \in 0..20 /\ j = i + 1
    BY <1>1, <1>3, <2>1
  <2>6. PICK m : IsPart(Programs[j], j, m)
    BY <2>5, PartAt, Zenon
  <2>7. m \in Nat /\ 1 \in 1..(m + 1)
    <3>1. m \in Nat
      <4>1. m = 1 \/ m = 3 \/ IsTest(Programs[j], j, m)
        BY <2>6, Zenon DEF IsPart
      <4> QED
        BY <4>1 DEF IsTest
    <3> QED
      BY <3>1
  <2>8. Vacant(w', j, 1)
    BY DEF Vacant
  <2>9. Under(w', j, 1)
    <3>1. CASE j \in Modes \/ j \notin 1..19
      BY <3>1 DEF Under, Modes
    <3>2. CASE j \notin Modes /\ j \in 1..19
      <4>1. i \in 1..18
        BY <1>1, <2>5, <3>2 DEF Modes
      <4>2. IsTest(Programs[i], i, n)
        BY <2>3, <4>1 DEF IsPart
      <4>3. StepOfTest(s, i, n, pc)
        BY <2>3, <4>2, OpsOfTest, Zenon
      <4>4. pc = n + 1
        BY <1>1, <4>3, Zenon DEF StepOfTest
      <4>5. Setting(i) \in {0, 4} /\ (i \in Modes <=> Setting(i) = 4) /\ n >= 5 + Setting(i)
        BY <4>2 DEF Setting, IsTest
      <4>6. w.cm = Intended(i) /\ w.loaded = Intended(i) /\ ~w.rolling
        <5>1. CASE i \in Modes
          <6>1. pc >= 8
            BY <2>3, <4>4, <4>5, <5>1
          <6>2. w.cm = modeOf(i) /\ w.loaded = modeOf(i) /\ ~w.rolling
            BY <2>3, <2>4, <5>1, <6>1 DEF Under
          <6> QED
            BY <5>1, <6>2, NamedIsIntended
        <5>2. CASE i \notin Modes
          BY <2>4, <4>1, <5>2 DEF Under
        <5> QED
          BY <5>1, <5>2
      <4>7. Intended(j) = Intended(i)
        BY <2>5, <3>2, <4>1, IntendedStays
      <4> QED
        BY <1>1, <3>2, <4>6, <4>7 DEF Under
    <3> QED
      BY <3>1, <3>2
  <2> QED
    BY <1>1, <1>4, <2>4, <2>5, <2>6, <2>7, <2>8, <2>9, Zenon DEF OnTrack
<1>8. loc'.verdict # "PASS"
  BY <1>6
<1> QED
  BY <1>5, <1>6, <1>7, <1>8, Zenon DEF VolcanoInv

\* The program ends.
LEMMA ExitKept ==
  ASSUME VolcanoInv, pc # 0, NEW s, ExitSuite(s)
  PROVE  VolcanoInv'
<1> DEFINE v == IF raised \/ loc.mem.failed THEN "FAIL" ELSE "PASS"
<1>1. w' = w /\ pc' = 0 /\ loc' = [loc EXCEPT !.verdict = v]
  BY Zenon DEF ExitSuite, Leave
<1>2. SuiteFields /\ Shaped(w)
  BY Zenon DEF VolcanoInv
<1>3. v = "PASS" => ~raised /\ ~loc.mem.failed
  OBVIOUS
<1> HIDE DEF v
<1>4. SuiteFields' /\ loc'.mem = loc.mem /\ loc'.verdict = v
  BY <1>1, <1>2 DEF SuiteFields
<1>5. loc'.verdict = "PASS" /\ loc'.mem.only = 0 => loc'.mem.sound
  <2>1. ASSUME v = "PASS", loc.mem.only = 0
        PROVE  loc.mem.sound
    BY <1>3, <2>1, Zenon DEF VolcanoInv, OnTrack
  <2> QED
    BY <1>4, <2>1
<1>6. Shaped(w)'
  BY <1>1, <1>2 DEF Shaped
<1> QED
  BY <1>1, <1>4, <1>5, <1>6 DEF VolcanoInv

LEMMA VolcanoStepKept ==
  ASSUME VolcanoInv, VolcanoStep
  PROVE  VolcanoInv'
<1> DEFINE s == Programs[loc.mem.case][pc]
<1>1. VolcanoCall(s) \/ CallFn(s) \/ RecordCase(s) \/ ExitSuite(s)
  BY Zenon DEF VolcanoStep, VolcanoCall
<1>2. pc # 0 /\ Shaped(w)
  BY Zenon DEF VolcanoStep, Idle, VolcanoInv
<1>3. CASE VolcanoCall(s)
  <2>1. Calls(s)
    BY <1>2, <1>3, CallsAre, Zenon
  <2> QED
    BY <1>2, <2>1, VolcanoCallKept, Zenon
<1>4. CASE CallFn(s)
  BY <1>2, <1>4, CallFnKept, Zenon
<1>5. CASE RecordCase(s)
  BY <1>2, <1>5, RecordKept, Zenon
<1>6. CASE ExitSuite(s)
  BY <1>2, <1>6, ExitKept, Zenon
<1> QED
  BY <1>1, <1>3, <1>4, <1>5, <1>6, Zenon

\* The world moves: the script is where it was.
LEMMA AsideKept ==
  ASSUME VolcanoInv, Aside, Shaped(w)',
         \A i, k : Under(w, i, k) => Under(w', i, k),
         \A i, k : Vacant(w, i, k) => Vacant(w', i, k)
  PROVE  VolcanoInv'
<1>1. pc' = pc /\ (raised' <=> raised) /\ loc' = loc
  BY Zenon DEF Aside
<1>2. SuiteFields' /\ (loc'.verdict = loc.verdict) /\ loc'.mem = loc.mem
  BY <1>1, Zenon DEF VolcanoInv, SuiteFields
<1>3. OnTrack(w, loc.mem, pc) => OnTrack(w', loc.mem, pc)
  BY Zenon DEF OnTrack
<1> QED
  BY <1>1, <1>2, <1>3, Zenon DEF VolcanoInv

\* The controllers work on Jobs that are there: Pods go only when a Job has
\* ended, and it has ended for good.
JobsMove(f) ==
  /\ DOMAIN f = DOMAIN w.jobs
  /\ \A n \in DOMAIN f : /\ JobFields \subseteq DOMAIN f[n]
                         /\ w.jobs[n].pods => f[n].pods \/ Ended(f[n])
                         /\ Ended(w.jobs[n]) => Ended(f[n])

LEMMA JobMoves ==
  ASSUME VolcanoInv, Aside, NEW f, JobsMove(f), w' = [w EXCEPT !.jobs = f]
  PROVE  VolcanoInv'
<1>1. VolcanoFields \subseteq DOMAIN w
  BY Zenon DEF VolcanoInv, Shaped
<1>2. /\ VolcanoFields \subseteq DOMAIN w' /\ w'.cm = w.cm /\ w'.loaded = w.loaded
      /\ (w'.rolling <=> w.rolling) /\ w'.kept = w.kept /\ w'.jobs = f
  BY <1>1 DEF VolcanoFields
<1>3. Shaped(w)'
  <2>1. Formed(f)
    BY Zenon DEF JobsMove, Formed
  <2> QED
    BY <1>2, <2>1 DEF Shaped
<1>4. \A i, k : Under(w, i, k) => Under(w', i, k)
  BY <1>2, Zenon DEF Under
<1>5. (InSight(w) => InSight(w')) /\ (OutOfSight(w) => OutOfSight(w'))
  BY <1>2, Zenon DEF InSight, OutOfSight, JobsMove
<1>6. \A i, k : Vacant(w, i, k) => Vacant(w', i, k)
  BY <1>5, Zenon DEF Vacant
<1> QED
  BY <1>3, <1>4, <1>6, AsideKept

\* One Job becomes j.
LEMMA JobMoved ==
  ASSUME VolcanoInv, Aside, NEW name \in DOMAIN w.jobs, NEW j, JobFields \subseteq DOMAIN j,
         w.jobs[name].pods => j.pods \/ Ended(j), Ended(w.jobs[name]) => Ended(j),
         w' = [w EXCEPT !.jobs[name] = j]
  PROVE  VolcanoInv'
<1> DEFINE f == [w.jobs EXCEPT ![name] = j]
<1>1. w' = [w EXCEPT !.jobs = f]
  OBVIOUS
<1>2. DOMAIN f = DOMAIN w.jobs /\ \A n \in DOMAIN w.jobs : f[n] = IF n = name THEN j ELSE w.jobs[n]
  OBVIOUS
<1> HIDE DEF f
<1>3. \A n \in DOMAIN w.jobs : JobFields \subseteq DOMAIN w.jobs[n]
  BY Zenon DEF VolcanoInv, Shaped, Formed
<1>4. JobsMove(f)
  <2> SUFFICES ASSUME NEW n \in DOMAIN w.jobs
               PROVE  /\ JobFields \subseteq DOMAIN f[n]
                      /\ w.jobs[n].pods => f[n].pods \/ Ended(f[n])
                      /\ Ended(w.jobs[n]) => Ended(f[n])
    BY <1>2, Zenon DEF JobsMove
  <2>1. CASE n = name
    <3>1. f[n] = j
      BY <1>2, <2>1, Zenon
    <3> QED
      BY <2>1, <3>1, Zenon
  <2>2. CASE n # name
    <3>1. f[n] = w.jobs[n]
      BY <1>2, <2>2, Zenon
    <3> QED
      BY <1>3, <3>1, Zenon
  <2> QED
    BY <2>1, <2>2
<1> QED
  BY <1>1, <1>4, JobMoves, Zenon

LEMMA RolloutKept ==
  ASSUME VolcanoInv, Rollout
  PROVE  VolcanoInv'
<1>1. w.rolling /\ w' = [w EXCEPT !.rolling = FALSE, !.loaded = w.cm] /\ Aside
  BY Zenon DEF Rollout
<1>2. VolcanoFields \subseteq DOMAIN w /\ Formed(w.jobs)
  BY Zenon DEF VolcanoInv, Shaped
<1>3. /\ VolcanoFields \subseteq DOMAIN w' /\ w'.cm = w.cm /\ w'.loaded = w.cm /\ ~w'.rolling
      /\ w'.jobs = w.jobs /\ w'.kept = w.kept
  BY <1>1, <1>2 DEF VolcanoFields
<1>4. ASSUME NEW i, NEW k, Under(w, i, k)
      PROVE  Under(w', i, k)
  <2>1. i \notin (1..19) \ Modes
    BY <1>1, <1>4, Zenon DEF Under
  <2>2. i \in Modes => /\ k >= 6 => w.cm = modeOf(i)
                       /\ k >= 7 => w.cm = modeOf(i)
                       /\ k >= 8 => ~w.rolling
    BY <1>4, Zenon DEF Under
  <2> QED
    BY <1>3, <2>1, <2>2 DEF Under
<1>5. \A i, k : Vacant(w, i, k) => Vacant(w', i, k)
  BY <1>3, Zenon DEF Vacant, InSight, OutOfSight
<1>6. Shaped(w)'
  BY <1>2, <1>3 DEF Shaped
<1> QED
  BY <1>1, <1>4, <1>5, <1>6, AsideKept

LEMMA VolcanoKept ==
  ASSUME VolcanoInv, VolcanoNext
  PROVE  VolcanoInv'
<1>1. SuiteFields /\ Shaped(w)
  BY Zenon DEF VolcanoInv
<1>2. ASSUME NEW name \in DOMAIN w.jobs
      PROVE  JobFields \subseteq DOMAIN w.jobs[name]
  BY <1>1, Zenon DEF Shaped, Formed
<1>3. CASE VolcanoEnqueues \/ VolcanoAllocates \/ VolcanoEvicts \/ JobEnds
  <2>1. Aside
    BY <1>3, Zenon DEF VolcanoEnqueues, VolcanoAllocates, VolcanoEvicts, JobEnds
  <2>2. CASE VolcanoEnqueues
    <3>1. PICK name \in DOMAIN w.jobs : ~Ended(w.jobs[name]) /\ w' = [w EXCEPT !.jobs[name].pods = TRUE]
      BY <2>2, Zenon DEF VolcanoEnqueues
    <3> DEFINE j == [w.jobs[name] EXCEPT !.pods = TRUE]
    <3>2. w' = [w EXCEPT !.jobs[name] = j]
      BY <3>1
    <3>3. JobFields \subseteq DOMAIN j /\ j.pods
      BY <1>2 DEF JobFields
    <3> HIDE DEF j
    <3> QED
      BY <2>1, <3>1, <3>2, <3>3, JobMoved, Zenon
  <2>3. CASE VolcanoAllocates
    <3>1. PICK name, at :
                 /\ name \in DOMAIN w.jobs /\ JobActive(name)
                 /\ w' = [w EXCEPT !.jobs[name].at = at, !.jobs[name].phase = "Running"]
      BY <2>3, Zenon DEF VolcanoAllocates
    <3> DEFINE j == [w.jobs[name] EXCEPT !.at = at, !.phase = "Running"]
    <3>2. w' = [w EXCEPT !.jobs[name] = j]
      BY <3>1
    <3>3. JobFields \subseteq DOMAIN j /\ j.pods = w.jobs[name].pods
      BY <1>2, <3>1 DEF JobFields
    <3>4. ~Ended(w.jobs[name]) /\ (w.jobs[name].pods => j.pods)
      BY <3>1, <3>3, Zenon DEF JobActive
    <3> HIDE DEF j
    <3> QED
      BY <2>1, <3>1, <3>2, <3>3, <3>4, JobMoved, Zenon
  <2>4. CASE VolcanoEvicts
    <3>1. PICK name, p : name \in DOMAIN w.jobs /\ w' = [w EXCEPT !.jobs[name].at[p] = @ - 1]
      BY <2>4, Zenon DEF VolcanoEvicts
    <3> DEFINE x == w.jobs[name].at[p] - 1
    <3>2. w' = [w EXCEPT !.jobs[name].at[p] = x]
      BY <3>1
    <3> HIDE DEF x
    <3> DEFINE at == [w.jobs[name].at EXCEPT ![p] = x]
    <3>3. w' = [w EXCEPT !.jobs[name].at = at]
      BY <3>2
    <3> HIDE DEF at
    <3> DEFINE j == [w.jobs[name] EXCEPT !.at = at]
    <3>4. w' = [w EXCEPT !.jobs[name] = j]
      BY <3>3
    <3>5. /\ JobFields \subseteq DOMAIN j /\ j.pods = w.jobs[name].pods
          /\ j.phase = w.jobs[name].phase /\ j.spec = w.jobs[name].spec
      BY <1>2, <3>1 DEF JobFields
    <3>6. (w.jobs[name].pods => j.pods) /\ (Ended(w.jobs[name]) => Ended(j))
      BY <3>5, Zenon DEF Ended
    <3> HIDE DEF j
    <3> QED
      BY <2>1, <3>1, <3>4, <3>5, <3>6, JobMoved, Zenon
  <2>5. CASE JobEnds
    <3>1. PICK name \in DOMAIN w.jobs, left \in BOOLEAN :
                 w' = [w EXCEPT !.jobs[name] =
                         [spec |-> w.jobs[name].spec, at |-> Nowhere(w.jobs[name].spec),
                          phase |-> w.jobs[name].spec.ends, pods |-> left]]
      BY <2>5, Zenon DEF JobEnds
    <3> DEFINE spec == w.jobs[name].spec
               at == Nowhere(spec)
               j == [spec |-> spec, at |-> at, phase |-> spec.ends, pods |-> left]
    <3>2. w' = [w EXCEPT !.jobs[name] = j]
      BY <3>1, Zenon
    <3> HIDE DEF spec, at
    <3>3. JobFields \subseteq DOMAIN j /\ Ended(j)
      BY DEF JobFields, Ended
    <3> HIDE DEF j
    <3> QED
      BY <2>1, <3>2, <3>3, JobMoved, Zenon
  <2> QED
    BY <1>3, <2>2, <2>3, <2>4, <2>5
<1>4. CASE StartSuite
  <2>1. w' = w /\ pc' = 1 /\ raised' = FALSE
    BY <1>4, Zenon DEF StartSuite, Begin
  <2>2. PICK only \in 0..19 :
               loc' = [loc EXCEPT !.run = @ + 1, !.clean = TRUE, !.verdict = "none",
                                  !.mem = [VolcanoMem EXCEPT !.only = only]]
    BY <1>4, Zenon DEF StartSuite, LastTest
  <2> DEFINE r == loc.run + 1
             mem == [VolcanoMem EXCEPT !.only = only]
  <2>3. loc' = [loc EXCEPT !.run = r, !.clean = TRUE, !.verdict = "none", !.mem = mem]
    BY <2>2
  <2>4. /\ {"case", "only", "failed", "sound"} \subseteq DOMAIN mem /\ mem.case = 0
        /\ mem.sound
    BY DEF VolcanoMem
  <2> HIDE DEF r, mem
  <2>5. SuiteFields' /\ loc'.verdict = "none" /\ loc'.mem = mem
    BY <1>1, <2>3, <2>4 DEF SuiteFields
  <2>6. OnTrack(w', mem, 1)
    <3>1. 0 \in 0..20
      OBVIOUS
    <3>2. PICK n : IsPart(Programs[0], 0, n)
      BY <3>1, PartAt, Zenon
    <3>3. n \in Nat /\ 1 \in 1..(n + 1)
      BY <3>2 DEF IsPart
    <3>4. Under(w', 0, 1) /\ Vacant(w', 0, 1)
      BY DEF Under, Vacant, Modes
    <3> QED
      BY <2>4, <3>1, <3>2, <3>3, <3>4, Zenon DEF OnTrack
  <2>7. Shaped(w)' /\ loc'.verdict # "PASS"
    BY <1>1, <2>1, <2>5 DEF Shaped
  <2> QED
    BY <2>1, <2>5, <2>6, <2>7, Zenon DEF VolcanoInv
<1>5. CASE KillRun
  <2>1. w' = w /\ pc' = 0 /\ loc' = loc /\ pc # 0
    BY <1>5, Zenon DEF KillRun, Die, Leave, Idle
  <2>2. loc.verdict = "none"
    BY <2>1 DEF VolcanoInv
  <2>3. SuiteFields' /\ Shaped(w)' /\ loc'.verdict # "PASS"
    BY <1>1, <2>1, <2>2 DEF SuiteFields, Shaped
  <2> QED
    BY <2>1, <2>3, Zenon DEF VolcanoInv
<1> QED
  BY <1>3, <1>4, <1>5, RolloutKept, VolcanoStepKept, Zenon DEF VolcanoNext

(* PassMeansIntended, for every number of runs, of failing calls and of    *)
(* kills: when volcano-hami/run-tests.py has run all its tests and exits   *)
(* with 0, every case has begun under the plugin that the list of tests    *)
(* puts before it, and has met no Jobs of others but those that had no     *)
(* Pods after the delete of clean() and those that had ended.  config()    *)
(* waits for the restarted scheduler and clean() for the Pods to go; a     *)
(* case that names no plugin inherits it from one that has passed.         *)
THEOREM SuitePassIsSound == Spec => []PassMeansIntended
<1> DEFINE Inv == lab = "volcano" => VolcanoInv
<1>1. Init => Inv
  <2>1. ASSUME Init, lab = "volcano"
        PROVE  VolcanoInit
    BY <2>1 DEF Init
  <2>2. ASSUME VolcanoInit
        PROVE  VolcanoInv
    <3>1. w = VolcanoCluster /\ FirstRun(VolcanoMem)
      BY <2>2, Zenon DEF VolcanoInit
    <3>2. Shaped(w)
      BY <3>1 DEF VolcanoCluster, VolcanoFields, Shaped, Formed
    <3>3. pc = 0 /\ SuiteFields /\ loc.verdict = "none"
      BY <3>1 DEF FirstRun, SuiteFields, VolcanoMem
    <3>4. loc.verdict # "PASS"
      BY <3>3
    <3> QED
      BY <3>2, <3>3, <3>4, Zenon DEF VolcanoInv
  <2> QED
    BY <2>1, <2>2
<1>2. Inv /\ [Next]_scriptVars => Inv'
  <2> SUFFICES ASSUME Inv, [Next]_scriptVars, lab' = "volcano"
               PROVE  VolcanoInv'
    BY Zenon
  <2>1. CASE Next
    <3>1. lab = "volcano" /\ VolcanoNext
      BY <2>1 DEF Next
    <3> QED
      BY <3>1, VolcanoKept
  <2>2. CASE UNCHANGED scriptVars
    <3>1. lab = "volcano" /\ w' = w /\ loc' = loc /\ pc' = pc /\ (raised' <=> raised)
      BY <2>2, Zenon DEF scriptVars
    <3>2. VolcanoInv
      BY <3>1, Zenon
    <3>3. SuiteFields'
      BY <3>1, <3>2, Zenon DEF VolcanoInv, SuiteFields
    <3>4. Shaped(w)'
      BY <3>1, <3>2, Zenon DEF VolcanoInv, Shaped
    <3> QED
      BY <3>1, <3>2, <3>3, <3>4, Zenon DEF VolcanoInv
  <2> QED
    BY <2>1, <2>2
<1>3. Inv => PassMeansIntended
  BY Zenon DEF PassMeansIntended, VolcanoInv, AllTests
<1> QED
  BY <1>1, <1>2, <1>3, PTL DEF Spec

----------------------------------------------------------------------------
(* hami-mock-gpu/run-tests.py: lists of names.                             *)

IsList(s) == \E S : s \in Seq(S)
Lists(s, x) == \E k \in 1..Len(s) : s[k] = x

LEMMA ListAppend ==
  ASSUME NEW s, IsList(s), NEW x
  PROVE  IsList(Append(s, x)) /\ Lists(Append(s, x), x) /\ \A y : Lists(s, y) => Lists(Append(s, x), y)
<1>1. PICK S : s \in Seq(S)
  BY DEF IsList
<1> DEFINE T == S \cup {x}
           t == Append(s, x)
           n == Len(s)
<1>2. s \in Seq(T) /\ x \in T
  <2>1. S \subseteq T /\ x \in T
    OBVIOUS
  <2> HIDE DEF T
  <2> QED
    BY <1>1, <2>1, SeqOfMore
<1> HIDE DEF T
<1>3. t \in Seq(T) /\ Len(t) = n + 1 /\ n \in Nat /\ t[n + 1] = x /\ \A k \in 1..n : t[k] = s[k]
  BY <1>2
<1> HIDE DEF t, n
<1>4. IsList(t)
  BY <1>3, Zenon DEF IsList
<1>5. Lists(t, x)
  <2>1. n + 1 \in 1..Len(t)
    BY <1>3
  <2> QED
    BY <1>3, <2>1, Zenon DEF Lists
<1>6. ASSUME NEW y, Lists(s, y)
      PROVE  Lists(t, y)
  <2>1. PICK k \in 1..n : s[k] = y
    BY <1>6 DEF Lists, n
  <2>2. k \in 1..Len(t) /\ t[k] = y
    BY <1>3, <2>1
  <2> QED
    BY <2>2 DEF Lists
<1> QED
  BY <1>4, <1>5, <1>6 DEF t

LEMMA ListTail ==
  ASSUME NEW s, IsList(s), s # <<>>
  PROVE  IsList(Tail(s)) /\ \A y : Lists(s, y) /\ y # Head(s) => Lists(Tail(s), y)
<1>1. PICK S : s \in Seq(S)
  BY DEF IsList
<1> DEFINE t == Tail(s)
           n == Len(s)
<1>2. /\ t \in Seq(S) /\ Len(t) = n - 1 /\ n \in Nat /\ s[1] = Head(s)
      /\ \A k \in 1..(n - 1) : t[k] = s[k + 1]
  BY <1>1
<1>3. IsList(t)
  BY <1>2, Zenon DEF IsList
<1> HIDE DEF t
<1>4. ASSUME NEW y, Lists(s, y), y # Head(s)
      PROVE  Lists(t, y)
  <2>1. PICK k \in 1..n : s[k] = y
    BY <1>4 DEF Lists
  <2> HIDE DEF n
  <2>2. k # 1
    BY <1>2, <1>4, <2>1
  <2>3. k - 1 \in 1..(n - 1) /\ (k - 1) + 1 = k
    BY <1>2, <2>2
  <2>4. t[k - 1] = y
    BY <1>2, <2>1, <2>3
  <2> QED
    BY <1>2, <2>3, <2>4 DEF Lists
<1> QED
  BY <1>3, <1>4 DEF t

LEMMA LeastIndex ==
  ASSUME NEW I, I \subseteq Nat, I # {}
  PROVE  Min(I) \in I
<1>1. \E x \in I : \A y \in I : ~(<<y, x>> \in OpToRel(<, Nat))
  BY NatLessThanWellFounded, WFMin, Zenon
<1>4. PICK x \in I : \A y \in I : ~(y < x)
  BY <1>1 DEF OpToRel
<1>2. x \in I /\ \A y \in I : x <= y
  BY <1>4
<1>3. Min(I) = CHOOSE z \in I : \A y \in I : z <= y
  BY Zenon DEF Min
<1> QED
  BY <1>2, <1>3

LEMMA ListRemove ==
  ASSUME NEW s, IsList(s), NEW x
  PROVE  IsList(RemoveFirst(s, x)) /\ \A y : Lists(s, y) /\ y # x => Lists(RemoveFirst(s, x), y)
<1> DEFINE n == Len(s)
           I == {i \in 1..n : s[i] = x}
           t == RemoveFirst(s, x)
<1>1. PICK S : s \in Seq(S)
  BY DEF IsList
<1>2. n \in Nat /\ I \subseteq Nat
  BY <1>1
<1>3. CASE I = {}
  <2>1. ~\E i \in 1..Len(s) : s[i] = x
    BY <1>3
  <2>2. t = s
    BY <2>1, Zenon DEF RemoveFirst
  <2> QED
    BY <2>2
<1>4. CASE I # {}
  <2> DEFINE m == Min(I)
  <2>1. \E i \in 1..Len(s) : s[i] = x
    BY <1>4
  <2>2. SelectInSeq(s, LAMBDA v : v = x) = m
    BY <1>4, Zenon DEF SelectInSeq
  <2>3. t = SubSeq(s, 1, m - 1) \o SubSeq(s, m + 1, Len(s))
    BY <2>1, <2>2, Zenon DEF RemoveFirst, RemoveAt
  <2>4. m \in I
    BY <1>2, <1>4, LeastIndex, Zenon
  <2>5. m \in 1..n /\ s[m] = x
    BY <2>4
  <2> HIDE DEF m, I
  <2> DEFINE a == SubSeq(s, 1, m - 1)
             b == SubSeq(s, m + 1, n)
  <2>6. a \in Seq(S) /\ Len(a) = m - 1 /\ \A k \in 1..(m - 1) : a[k] = s[k]
    BY <1>1, <2>5
  <2>7. b \in Seq(S) /\ Len(b) = n - m /\ \A k \in 1..(n - m) : b[k] = s[m + k]
    BY <1>1, <2>5
  <2>8. t = a \o b
    BY <2>3
  <2> HIDE DEF a, b, t, n
  <2>9. /\ t \in Seq(S) /\ Len(t) = n - 1
        /\ \A k \in 1..(m - 1) : t[k] = a[k]
        /\ \A k \in 1..(n - m) : t[(m - 1) + k] = b[k]
    <3>1. Joined(S, a, b, t)
      BY <2>6, <2>7, <2>8, JoinAt, Zenon
    <3>2. /\ t \in Seq(S) /\ Len(t) = Len(a) + Len(b)
          /\ \A k \in 1..Len(a) : t[k] = a[k]
          /\ \A k \in 1..Len(b) : t[Len(a) + k] = b[k]
      BY <3>1, Zenon DEF Joined
    <3>3. Len(a) = m - 1 /\ Len(b) = n - m
      BY <2>6, <2>7, Zenon
    <3>4. (m - 1) + (n - m) = n - 1
      BY <1>2, <2>5
    <3> QED
      BY <3>2, <3>3, <3>4, Zenon
  <2>10. IsList(t)
    BY <2>9, Zenon DEF IsList
  <2>11. ASSUME NEW y, Lists(s, y), y # x
         PROVE  Lists(t, y)
    <3>1. PICK k \in 1..n : s[k] = y
      BY <2>11 DEF Lists, n
    <3>2. k # m
      BY <2>5, <2>11, <3>1
    <3>3. CASE k < m
      <4>1. k \in 1..(m - 1) /\ k \in 1..(n - 1)
        BY <1>2, <2>5, <3>3
      <4>2. t[k] = y
        BY <2>6, <2>9, <3>1, <4>1
      <4> QED
        BY <2>9, <4>1, <4>2 DEF Lists
    <3>4. CASE k > m
      <4>1. k - m \in 1..(n - m) /\ m + (k - m) = k /\ (m - 1) + (k - m) \in 1..(n - 1)
        BY <1>2, <2>5, <3>4
      <4>2. t[(m - 1) + (k - m)] = y
        BY <2>7, <2>9, <3>1, <4>1
      <4> QED
        BY <2>9, <4>1, <4>2, Zenon DEF Lists
    <3> QED
      BY <1>2, <2>5, <3>2, <3>3, <3>4
  <2> QED
    BY <2>10, <2>11 DEF t
<1> QED
  BY <1>3, <1>4

----------------------------------------------------------------------------
(* The cases.                                                              *)

LEMMA TameNamed ==
  ASSUME NEW op, op \notin Reserved, NEW name
  PROVE  TameStep(Named(op, name))
BY DEF TameStep, Named

LEMMA TamePod ==
  ASSUME NEW name, NEW spec, NEW ann
  PROVE  TameStep(pod(name, spec, ann))
BY DEF TameStep, pod, Reserved

LEMMA TameReady ==
  ASSUME NEW name, NEW devs
  PROVE  TameStep(readyOn(name, devs))
BY DEF TameStep, readyOn, Reserved

LEMMA CasesAreTame ==
  ASSUME NEW i \in 1..23
  PROVE  Tame(CaseBody(i))
<1>1. /\ "event" \notin Reserved /\ "recheck" \notin Reserved /\ "delete" \notin Reserved
      /\ "nodes" \notin Reserved /\ "exec" \notin Reserved /\ "two" \notin Reserved
      /\ "rollout" \notin Reserved
  BY DEF Reserved
<1>2. ASSUME NEW x
      PROVE  TameStep(Named("event", x)) /\ TameStep(Named("recheck", x)) /\ TameStep(deletePod(x)) /\ TameStep(Named("two", x))
  BY <1>1, TameNamed, Zenon DEF deletePod
<1>3. TameStep(Bare("nodes")) /\ TameStep(Bare("exec")) /\ TameStep(Bare("rollout"))
  BY <1>1, TameBare, Zenon
<1>4. ASSUME NEW x
      PROVE  TameStep(readyPod(x))
  BY TameReady, Zenon DEF readyPod
<1>5. ASSUME NEW x
      PROVE  Tame(pending(x))
  BY <1>2, TameTwo, Zenon DEF pending
<1>6. ASSUME NEW x
      PROVE  TameStep(Share(x)) /\ TameStep(Slot(x))
  BY TamePod, Zenon DEF Share, Slot
<1>7. Tame(base)
  BY <1>3, TameOne, Zenon DEF base
<1>8. Tame(percent)
  BY <1>4, TamePod, TameTwo, Zenon DEF percent
<1>9. Tame(basic) /\ Tame(multicontainer)
  BY <1>2, <1>3, <1>4, TamePod, TameThree, Zenon DEF basic, multicontainer
<1>10. Tame(multiGpu)
  BY <1>2, <1>3, <1>4, TamePod, TameFour, Zenon DEF multiGpu
<1>11. Tame(shared)
  BY <1>6, TameReady, TameSix, Zenon DEF shared
<1>12. Tame(restart)
  BY <1>3, <1>4, TamePod, TameSeven, Zenon DEF restart
<1>13. Tame(reject("memory")) /\ Tame(reject("cores")) /\ Tame(reject("cards"))
  <2> DEFINE x == [OnW1 EXCEPT !.mem = 40961]
             y == [OnW1 EXCEPT !.cores = Clamp(101)]
             z == [OnW1 EXCEPT !.gpus = 3]
             a == <<pod(<<"reject-memory">>, x, Ann0)>>
             b == <<pod(<<"core-clamp">>, y, Ann0), readyPod(<<"core-clamp">>), Bare("exec")>>
             c == <<pod(<<"reject-cards">>, z, Ann0)>>
  <2>3. /\ reject("memory") = a \o pending(<<"reject-memory">>) /\ reject("cores") = b
        /\ reject("cards") = c \o pending(<<"reject-cards">>)
    BY DEF reject
  <2> HIDE DEF x, y, z
  <2>1. Tame(a) /\ Tame(c)
    BY TamePod, TameOne, Zenon
  <2>2. Tame(b)
    BY <1>3, <1>4, TamePod, TameThree, Zenon
  <2> HIDE DEF a, b, c
  <2> QED
    BY <1>5, <2>1, <2>2, <2>3, TameJoin, Zenon
<1>14. ASSUME NEW resource
       PROVE  Tame(budget(resource))
  <2> DEFINE sized(m, c) == [OnW1 EXCEPT !.mem = m, !.cores = c]
             x == IF resource = "memory" THEN sized(30000, 10) ELSE sized(1024, 60)
             y == IF resource = "memory" THEN sized(12000, 10) ELSE sized(1024, 50)
  <2>1. budget(resource) =
          <<pod(<<"holder">>, x, UseU0), readyPod(<<"holder">>), pod(<<"blocked">>, y, UseU0)>>
          \o pending(<<"blocked">>) \o <<deletePod(<<"holder">>), readyPod(<<"blocked">>)>>
    BY DEF budget
  <2> HIDE DEF x, y
  <2>2. Tame(<<pod(<<"holder">>, x, UseU0), readyPod(<<"holder">>), pod(<<"blocked">>, y, UseU0)>>)
    BY <1>4, TamePod, TameThree, Zenon
  <2>3. Tame(<<deletePod(<<"holder">>), readyPod(<<"blocked">>)>>)
    BY <1>2, <1>4, TameTwo, Zenon
  <2> QED
    BY <1>5, <2>1, <2>2, <2>3, TameJoin, Zenon
<1>15. Tame(exclusive)
  <2>1. Tame(<<pod(<<"exclusive">>, [OnW1 EXCEPT !.mem = DevMem, !.cores = 100], UseU0),
               readyPod(<<"exclusive">>), pod(<<"blocked">>, [OnW1 EXCEPT !.mem = 1, !.cores = 1], UseU0)>>)
    BY <1>4, TamePod, TameThree, Zenon
  <2> QED
    BY <1>5, <2>1, TameJoin, Zenon DEF exclusive
<1>16. ASSUME NEW devs
       PROVE  Tame(select(devs))
  <2> DEFINE a == <<pod(<<"selection">>, OnW1, [Ann0 EXCEPT !.devs = devs])>>
             b == IF devs = {} THEN pending(<<"selection">>) ELSE <<readyOn(<<"selection">>, devs)>>
  <2>1. Tame(a) /\ Tame(<<readyOn(<<"selection">>, devs)>>)
    BY TamePod, TameReady, TameOne, Zenon
  <2>2. Tame(b)
    BY <1>5, <2>1, Zenon
  <2>3. select(devs) = a \o b
    BY Zenon DEF select
  <2> HIDE DEF a, b
  <2> QED
    BY <2>1, <2>2, <2>3, TameJoin, Zenon
<1>17. ASSUME NEW scope, NEW how
       PROVE  Tame(policyPair(scope, how))
  <2> DEFINE one(j) == <<pod(<<"policy", j>>, IF scope = "gpu" THEN OnW1 ELSE Spec0,
                             [Ann0 EXCEPT !.scope = scope, !.policy = how]),
                         readyPod(<<"policy", j>>)>>
             r == [op |-> "compare", esc |-> 0, part |-> "open", scope |-> scope, policy |-> how]
  <2>1. Tame(one(0)) /\ Tame(one(1))
    BY <1>4, TamePod, TameTwo, Zenon
  <2>2. TameStep(r)
    BY DEF TameStep, Reserved
  <2>3. Tame(<<r>>)
    BY <2>2, TameOne, Zenon
  <2>4. policyPair(scope, how) = one(0) \o one(1) \o <<r>>
    BY Zenon DEF policyPair
  <2> HIDE DEF one, r
  <2> QED
    BY <2>1, <2>3, <2>4, TameJoin, Zenon
<1>18. Tame(slots)
  <2> DEFINE step(k) == IF k % 2 = 1 THEN Slot(k \div 2) ELSE readyPod(<<"slot", (k - 1) \div 2>>)
             a == [k \in 1..20 |-> step(k)]
             b == <<Slot(10)>>
             c == <<deletePod(<<"slot", 0>>), readyPod(<<"slot", 10>>)>>
  <2>1. ASSUME NEW k PROVE TameStep(step(k))
    BY <1>4, <1>6, Zenon
  <2>2. slots = a \o b \o pending(<<"slot", 10>>) \o c
    BY Zenon DEF slots
  <2> HIDE DEF step
  <2>3. a = [k \in 1..20 |-> a[k]] /\ 20 \in Nat /\ \A k \in 1..20 : TameStep(a[k])
    BY <2>1
  <2> HIDE DEF a
  <2>4. Tame(a)
    BY <2>3, TameOf, Zenon
  <2>5. Tame(b)
    BY <1>6, TameOne, Zenon
  <2>6. Tame(c)
    BY <1>2, <1>4, TameTwo, Zenon
  <2> HIDE DEF b, c
  <2> QED
    BY <1>5, <2>2, <2>4, <2>5, <2>6, TameJoin, Zenon
<1>19. /\ CaseBody(1) = base /\ CaseBody(2) = basic /\ CaseBody(3) = shared /\ CaseBody(4) = multiGpu
       /\ CaseBody(5) = percent /\ CaseBody(6) = reject("memory") /\ CaseBody(7) = reject("cores")
       /\ CaseBody(8) = reject("cards")
  BY DEF CaseBody
<1>20. /\ CaseBody(9) = budget("memory") /\ CaseBody(10) = budget("cores") /\ CaseBody(11) = exclusive
       /\ CaseBody(12) = select(Devices) /\ CaseBody(13) = select({}) /\ CaseBody(14) = select({})
       /\ CaseBody(15) = select(U1) /\ CaseBody(16) = select(U1)
  BY DEF CaseBody
<1>21. /\ CaseBody(17) = policyPair("gpu", "binpack") /\ CaseBody(18) = policyPair("gpu", "spread")
       /\ CaseBody(19) = policyPair("node", "binpack") /\ CaseBody(20) = policyPair("node", "spread")
       /\ CaseBody(21) = multicontainer /\ CaseBody(22) = slots /\ CaseBody(23) = restart
  BY DEF CaseBody
<1>22. \/ i = 1 \/ i = 2 \/ i = 3 \/ i = 4 \/ i = 5 \/ i = 6 \/ i = 7 \/ i = 8 \/ i = 9 \/ i = 10
       \/ i = 11 \/ i = 12 \/ i = 13 \/ i = 14 \/ i = 15 \/ i = 16 \/ i = 17 \/ i = 18 \/ i = 19
       \/ i = 20 \/ i = 21 \/ i = 22 \/ i = 23
  OBVIOUS
<1> QED
  BY <1>7, <1>8, <1>9, <1>10, <1>11, <1>12, <1>13, <1>14, <1>15, <1>16, <1>17, <1>18, <1>19, <1>20,
     <1>21, <1>22, Zenon

Size(i) == Len(CaseBody(i))

\* The program of the i-th case: n calls, each of which raises to the exit.
IsCase(p, i, n) ==
  /\ n \in Nat /\ Len(p) = n + 1 /\ p[n + 1].op = "exit"
  /\ \A k \in 1..n : p[k].esc = n + 1 - k
  /\ i = 0 => n = 1 /\ p[1].op = "delete_all"

LEMMA MainLength ==
  ASSUME NEW q, NEW n, IsSeq(q, n)
  PROVE  Len(Main(q)) = n + 1
<1> DEFINE S == {q[i] : i \in 1..n}
           g == Guarded(q, "open")
<1>1. q \in Seq(S) /\ Len(q) = n /\ n \in Nat
  BY DEF IsSeq
<1> HIDE DEF S
<1>2. IsGuarded(q, "open", g)
  BY <1>1, GuardedAt, Zenon
<1>3. Main(q) = g \o <<Bare("exit")>>
  BY Zenon DEF Main
<1> HIDE DEF g
<1>4. g \in Seq({g[i] : i \in 1..n}) /\ Len(g) = n
  BY <1>1, <1>2, Zenon DEF IsGuarded
<1> QED
  BY <1>1, <1>3, <1>4

LEMMA CaseIs ==
  ASSUME NEW i \in 0..23
  PROVE  IsCase(Main(CaseBody(i)), i, Size(i))
<1> DEFINE q == CaseBody(i)
           n == Size(i)
           p == Main(q)
<1>1. IsSeq(q, n) /\ \A k \in 1..n : Loose(q[k])
  <2>1. CASE i = 0
    <3> DEFINE r == Bare("delete_all")
    <3>1. q = <<r>>
      BY <2>1 DEF CaseBody
    <3>2. IsSeq(<<r>>, 1) /\ <<r>>[1] = r
      BY OneStep, Zenon
    <3>3. Loose(r)
      BY DEF Loose, Bare
    <3> HIDE DEF r
    <3>4. n = 1
      BY <3>1 DEF Size
    <3>5. IsSeq(q, n) /\ q[1] = r
      BY <3>1, <3>2, <3>4
    <3> HIDE DEF q, n
    <3>6. \A k \in 1..n : Loose(q[k])
      BY <3>3, <3>4, <3>5
    <3> QED
      BY <3>5, <3>6
  <2>2. CASE i \in 1..23
    <3>1. Tame(q)
      BY <2>2, CasesAreTame, Zenon
    <3> HIDE DEF q
    <3>2. IsSeq(q, Len(q)) /\ \A k \in 1..Len(q) : TameStep(q[k])
      BY <3>1, TameSteps, Zenon
    <3>3. n = Len(q)
      BY Zenon DEF q, Size
    <3> QED
      BY <3>2, <3>3, Zenon DEF TameStep, Loose
  <2> QED
    BY <2>1, <2>2
<1>2. i = 0 => n = 1 /\ p[1].op = "delete_all"
  <2> SUFFICES ASSUME i = 0 PROVE n = 1 /\ p[1].op = "delete_all"
    OBVIOUS
  <2> DEFINE r == Bare("delete_all")
  <2>1. q = <<r>>
    BY DEF CaseBody
  <2>2. IsSeq(<<r>>, 1) /\ <<r>>[1] = r
    BY OneStep, Zenon
  <2>3. n = 1
    BY <2>1 DEF Size
  <2>4. IsMain(q, 1, p)
    BY <2>1, <2>2, MainOf, Zenon
  <2>5. 1 \in 1..1
    OBVIOUS
  <2>6. Opened(p[1], "delete_all", 1 + 1 - 1)
    BY <2>1, <2>2, <2>4, <2>5, PlainInMain, Zenon
  <2> QED
    BY <2>3, <2>6, Zenon DEF Opened
<1> HIDE DEF q, n
<1>3. IsMain(q, n, p) /\ Len(p) = n + 1
  BY <1>1, MainOf, MainLength, Zenon
<1> HIDE DEF p
<1>4. ASSUME NEW k \in 1..n
      PROVE  p[k].esc = n + 1 - k
  <2>1. Loose(q[k])
    BY <1>1
  <2>2. p[k] = Open(q[k], n + 1 - k)
    BY <1>3, <2>1, Zenon DEF IsMain, Loose
  <2>3. Opened(Open(q[k], n + 1 - k), q[k].op, n + 1 - k)
    BY <2>1, OpenKeeps, Zenon
  <2> QED
    BY <2>2, <2>3, Zenon DEF Opened
<1>5. n \in Nat /\ p[n + 1].op = "exit"
  BY <1>1, <1>3, Zenon DEF IsSeq, IsMain
<1> QED
  BY <1>2, <1>3, <1>4, <1>5, Zenon DEF IsCase, q, n, p

----------------------------------------------------------------------------
(* What is known of the Pods that are there.                               *)

\* While a case runs: the runner has the Pod in active, or its apply failed.
KnownPods(v, mem) ==
  \A x \in DOMAIN v.pods : x \in mem.lost \/ Lists(mem.active, x)

\* During the cleanup: it is still to be deleted, or its delete has failed.
DuePods(v, mem) ==
  \A x \in DOMAIN v.pods :
    x \in mem.lost \/ (Lists(mem.active, x) /\ (x \in mem.hit \/ Lists(mem.todo, x)))

\* When a case starts.
OldPods(v, mem) ==
  \A x \in DOMAIN v.pods : x \in mem.lost \/ (Lists(mem.active, x) /\ x \in mem.hit)

GpuFields(mem) ==
  /\ {"case", "active", "todo", "failed", "hit", "lost"} \subseteq DOMAIN mem
  /\ IsList(mem.active) /\ IsList(mem.todo)

GpuKnows(v, mem, k, r) ==
  /\ mem.case \in 0..23 /\ k \in 1..(Size(mem.case) + 2)
  /\ mem.case = 0 /\ (k = 3 \/ (k = 2 /\ ~r)) => DOMAIN v.pods = {}
  /\ mem.case > 0 => /\ k = 1 => OldPods(v, mem)
                     /\ k <= Size(mem.case) + 1 => KnownPods(v, mem)
                     /\ k = Size(mem.case) + 2 => DuePods(v, mem)

GpuInv ==
  /\ "pods" \in DOMAIN w /\ {"run", "clean", "verdict", "mem"} \subseteq DOMAIN loc
  /\ GpuFields(loc.mem)
  /\ pc = 0 => loc.mem.case = 0
  /\ pc # 0 => GpuKnows(w, loc.mem, pc, raised)

\* What a call of a case does.
GpuMoves(s) ==
  \/ pc' = pc + 1 /\ (raised' <=> raised)
  \/ pc' = pc + s.esc /\ raised'
GpuCalls(s, mem) ==
  /\ GpuMoves(s) /\ s.op # "exit" /\ "pods" \in DOMAIN w'
  /\ Set(mem) /\ GpuFields(mem) /\ mem.case = loc.mem.case
  /\ KnownPods(w, loc.mem) => KnownPods(w', mem)
  /\ s.op = "delete_all" /\ ~raised' => DOMAIN w'.pods = {}

LEMMA GpuCallIs ==
  ASSUME NEW s, NEW new, Call(s, new)
  PROVE  /\ GpuMoves(s) /\ (w' = w \/ w' = new)
         /\ blame' = blame => w' = new
         /\ raised' \/ w' = new
<1>1. \/ w' = new /\ pc' = pc + 1 /\ raised' = raised
      \/ /\ w' = w \/ w' = new
         /\ raised' = TRUE /\ pc' = pc + s.esc /\ Faults(s)
  BY Zenon DEF Call, Return, Raise
<1>2. CASE w' = new /\ pc' = pc + 1 /\ raised' = raised
  BY <1>2, Zenon DEF GpuMoves
<1>3. CASE (w' = w \/ w' = new) /\ raised' = TRUE /\ pc' = pc + s.esc /\ Faults(s)
  <2>1. blame' # blame
    BY <1>3 DEF Faults, Fault
  <2> QED
    BY <1>3, <2>1, Zenon DEF GpuMoves
<1> QED
  BY <1>1, <1>2, <1>3, Zenon

LEMMA GpuFailIs ==
  ASSUME NEW s, Fail(s)
  PROVE  GpuMoves(s) /\ w' = w /\ raised'
BY Zenon DEF Fail, Raise, GpuMoves

LEMMA GpuAwaitIs ==
  ASSUME NEW s, NEW cond, NEW hopeless, Await(s, cond, hopeless)
  PROVE  GpuMoves(s) /\ w' = w
<1>1. Call(s, w) \/ Fail(s)
  BY Zenon DEF Await
<1> QED
  BY <1>1, GpuCallIs, GpuFailIs, Zenon

LEMMA GpuRequireIs ==
  ASSUME NEW s, NEW cond, Require(s, cond)
  PROVE  GpuMoves(s) /\ w' = w
<1>1. (pc' = pc + 1 /\ raised' = raised /\ w' = w) \/ Fail(s)
  BY Zenon DEF Require, Return
<1>2. CASE pc' = pc + 1 /\ raised' = raised /\ w' = w
  BY <1>2, Zenon DEF GpuMoves
<1>3. CASE Fail(s)
  BY <1>3, GpuFailIs, Zenon
<1> QED
  BY <1>1, <1>2, <1>3, Zenon

\* A call that creates no Pod, and after which the runner knows what it knew.
LEMMA NoNewPods ==
  ASSUME GpuInv, NEW s, GpuMoves(s), s.op # "exit", "pods" \in DOMAIN w', DOMAIN w'.pods \subseteq DOMAIN w.pods,
         Note, s.op = "delete_all" /\ ~raised' => DOMAIN w'.pods = {}
  PROVE  GpuCalls(s, loc.mem)
<1>1. KnownPods(w, loc.mem) => KnownPods(w', loc.mem)
  BY Zenon DEF KnownPods
<1>2. GpuFields(loc.mem) /\ Set(loc.mem)
  BY Zenon DEF GpuInv, Note
<1> QED
  BY <1>1, <1>2, Zenon DEF GpuCalls

LEMMA CreatePodCalls ==
  ASSUME GpuInv, NEW s, CreatePod(s)
  PROVE  \E mem : GpuCalls(s, mem)
<1>1. s.op = "pod"
  BY Zenon DEF CreatePod
<1>2. "pods" \in DOMAIN w /\ GpuFields(loc.mem)
  BY Zenon DEF GpuInv
<1>3. CASE Fail(s) /\ Note
  <2>1. GpuMoves(s) /\ w' = w
    BY <1>3, GpuFailIs, Zenon
  <2> QED
    BY <1>1, <1>2, <1>3, <2>1, NoNewPods
<1>4. CASE ~(Fail(s) /\ Note)
  <2> DEFINE new == Applied(s)
             a == IF blame' = blame THEN Append(loc.mem.active, s.name) ELSE loc.mem.active
             l == IF blame' = blame THEN loc.mem.lost ELSE loc.mem.lost \cup {s.name}
             mem == [loc.mem EXCEPT !.active = a, !.lost = l]
  <2>1. Call(s, new) /\ Set(mem)
    BY <1>4, Zenon DEF CreatePod
  <2>2. "pods" \in DOMAIN new /\ DOMAIN new.pods = DOMAIN w.pods \cup {s.name}
    <3> DEFINE p == [spec |-> s.spec, ann |-> s.ann, alloc |-> Unplaced]
               f == [n \in DOMAIN w.pods \cup {s.name} |-> IF n = s.name THEN p ELSE w.pods[n]]
               g == [w.pods EXCEPT ![s.name].ann = s.ann]
    <3>1. /\ There(s.name) => new = [w EXCEPT !.pods = g]
          /\ ~There(s.name) => new = [w EXCEPT !.pods = f]
      BY Zenon DEF Applied
    <3>2. DOMAIN f = DOMAIN w.pods \cup {s.name} /\ DOMAIN g = DOMAIN w.pods
      OBVIOUS
    <3> HIDE DEF new, f, g
    <3>3. CASE There(s.name)
      <4>1. "pods" \in DOMAIN new /\ new.pods = g
        BY <1>2, <3>1, <3>3
      <4> QED
        BY <3>2, <3>3, <4>1 DEF There
    <3>4. CASE ~There(s.name)
      <4>1. "pods" \in DOMAIN new /\ new.pods = f
        BY <1>2, <3>1, <3>4
      <4> QED
        BY <3>2, <4>1
    <3> QED
      BY <3>3, <3>4
  <2>3. /\ IsList(a) /\ \A y : Lists(loc.mem.active, y) => Lists(a, y)
        /\ loc.mem.lost \subseteq l /\ (s.name \in l \/ Lists(a, s.name))
    <3>1. IsList(loc.mem.active)
      BY <1>2 DEF GpuFields
    <3>2. CASE blame' = blame
      <4>1. a = Append(loc.mem.active, s.name) /\ l = loc.mem.lost
        BY <3>2
      <4> HIDE DEF a, l
      <4> QED
        BY <3>1, <4>1, ListAppend, Zenon
    <3>3. CASE blame' # blame
      <4>1. a = loc.mem.active /\ l = loc.mem.lost \cup {s.name}
        BY <3>3
      <4> HIDE DEF a, l
      <4> QED
        BY <3>1, <4>1
    <3> QED
      BY <3>2, <3>3
  <2> HIDE DEF a, l, new
  <2>4. /\ {"case", "active", "todo", "failed", "hit", "lost"} \subseteq DOMAIN mem
        /\ mem.case = loc.mem.case /\ mem.active = a /\ mem.lost = l /\ mem.todo = loc.mem.todo
    BY <1>2 DEF GpuFields
  <2> HIDE DEF mem
  <2>5. GpuFields(mem)
    BY <1>2, <2>3, <2>4 DEF GpuFields
  <2>6. GpuMoves(s) /\ (w' = w \/ w' = new)
    BY <2>1, GpuCallIs, Zenon
  <2>7. "pods" \in DOMAIN w' /\ DOMAIN w'.pods \subseteq DOMAIN w.pods \cup {s.name}
    BY <1>2, <2>2, <2>6
  <2>8. ASSUME KnownPods(w, loc.mem), NEW x \in DOMAIN w'.pods
        PROVE  x \in mem.lost \/ Lists(mem.active, x)
    <3>1. x \in DOMAIN w.pods \/ x = s.name
      BY <2>7, <2>8
    <3>2. x \in DOMAIN w.pods => x \in loc.mem.lost \/ Lists(loc.mem.active, x)
      BY <2>8 DEF KnownPods
    <3> QED
      BY <2>3, <2>4, <3>1, <3>2
  <2>9. KnownPods(w, loc.mem) => KnownPods(w', mem)
    BY <2>8, Zenon DEF KnownPods
  <2>10. GpuCalls(s, mem)
    BY <1>1, <2>1, <2>4, <2>5, <2>6, <2>7, <2>9 DEF GpuCalls
  <2> QED
    BY <2>10
<1> QED
  BY <1>3, <1>4

LEMMA WithoutPod ==
  ASSUME "pods" \in DOMAIN w, NEW name
  PROVE  "pods" \in DOMAIN Without(name) /\ DOMAIN Without(name).pods = DOMAIN w.pods \ {name}
<1> DEFINE D == DOMAIN w.pods \ {name}
           f == Restrict(w.pods, D)
           v == Without(name)
<1>1. v = [w EXCEPT !.pods = f]
  BY Zenon DEF Without
<1>2. DOMAIN f = D
  BY DEF Restrict
<1> HIDE DEF f, D, v
<1>3. "pods" \in DOMAIN v /\ v.pods = f
  BY <1>1
<1> QED
  BY <1>2, <1>3 DEF v, D

LEMMA DeleteCalls ==
  ASSUME GpuInv, NEW s, DeleteInCase(s)
  PROVE  \E mem : GpuCalls(s, mem)
<1>1. s.op = "delete"
  BY Zenon DEF DeleteInCase
<1>2. "pods" \in DOMAIN w /\ GpuFields(loc.mem)
  BY Zenon DEF GpuInv
<1>3. CASE Fail(s) /\ Note
  <2>1. GpuMoves(s) /\ w' = w
    BY <1>3, GpuFailIs, Zenon
  <2> QED
    BY <1>1, <1>2, <1>3, <2>1, NoNewPods
<1>4. CASE ~(Fail(s) /\ Note)
  <2> DEFINE new == Without(s.name)
             a == IF blame' = blame THEN RemoveFirst(loc.mem.active, s.name) ELSE loc.mem.active
             h == IF blame' = blame THEN loc.mem.hit ELSE loc.mem.hit \cup {s.name}
             mem == [loc.mem EXCEPT !.active = a, !.hit = h]
  <2>1. Call(s, new) /\ Set(mem)
    BY <1>4, Zenon DEF DeleteInCase
  <2>2. "pods" \in DOMAIN new /\ DOMAIN new.pods = DOMAIN w.pods \ {s.name}
    BY <1>2, WithoutPod, Zenon
  <2>3. /\ IsList(a) /\ \A y : Lists(loc.mem.active, y) /\ y # s.name => Lists(a, y)
        /\ blame' # blame => a = loc.mem.active
    <3>1. IsList(loc.mem.active)
      BY <1>2 DEF GpuFields
    <3>2. CASE blame' = blame
      <4>1. a = RemoveFirst(loc.mem.active, s.name)
        BY <3>2
      <4> HIDE DEF a
      <4> QED
        BY <3>1, <3>2, <4>1, ListRemove, Zenon
    <3>3. CASE blame' # blame
      BY <3>1, <3>3
    <3> QED
      BY <3>2, <3>3
  <2> HIDE DEF a, h, new
  <2>4. /\ {"case", "active", "todo", "failed", "hit", "lost"} \subseteq DOMAIN mem
        /\ mem.case = loc.mem.case /\ mem.active = a /\ mem.lost = loc.mem.lost /\ mem.todo = loc.mem.todo
    BY <1>2 DEF GpuFields
  <2> HIDE DEF mem
  <2>5. GpuFields(mem)
    BY <1>2, <2>3, <2>4 DEF GpuFields
  <2>6. GpuMoves(s) /\ (w' = w \/ w' = new) /\ (blame' = blame => w' = new)
    BY <2>1, GpuCallIs, Zenon
  <2>7. "pods" \in DOMAIN w' /\ DOMAIN w'.pods \subseteq DOMAIN w.pods /\ (blame' = blame => s.name \notin DOMAIN w'.pods)
    BY <1>2, <2>2, <2>6
  <2>8. ASSUME KnownPods(w, loc.mem), NEW x \in DOMAIN w'.pods
        PROVE  x \in mem.lost \/ Lists(mem.active, x)
    <3>1. x \in loc.mem.lost \/ Lists(loc.mem.active, x)
      BY <2>7, <2>8 DEF KnownPods
    <3> QED
      BY <2>3, <2>4, <2>7, <2>8, <3>1
  <2>9. KnownPods(w, loc.mem) => KnownPods(w', mem)
    BY <2>8, Zenon DEF KnownPods
  <2>10. GpuCalls(s, mem)
    BY <1>1, <2>1, <2>4, <2>5, <2>6, <2>7, <2>9 DEF GpuCalls
  <2> QED
    BY <2>10
<1> QED
  BY <1>3, <1>4

\* The calls of a case: all but its end.
GpuCall(s) ==
  \/ CreatePod(s) \/ ready_(s) \/ NoNodeBefore(s) \/ NoNodeAfter(s) \/ DeleteInCase(s)
  \/ DeleteAll(s) \/ ReadOnly(s) \/ TwoShares(s) \/ ComparePolicy(s)

LEMMA GpuCallsAre ==
  ASSUME GpuInv, NEW s, GpuCall(s)
  PROVE  \E mem : GpuCalls(s, mem)
<1>1. "pods" \in DOMAIN w
  BY Zenon DEF GpuInv
<1>2. ASSUME s.op \notin {"exit", "delete_all"}, GpuMoves(s), w' = w, Note
      PROVE  \E mem : GpuCalls(s, mem)
  BY <1>1, <1>2, NoNewPods
<1>3. CASE ready_(s)
  <2>1. (\E c, h : Await(s, c, h)) \/ Fail(s)
    BY <1>3, Zenon DEF ready_
  <2>2. GpuMoves(s) /\ w' = w
    BY <2>1, GpuAwaitIs, GpuFailIs, Zenon
  <2>3. s.op \notin {"exit", "delete_all"} /\ Note
    BY <1>3 DEF ready_
  <2> QED
    BY <1>2, <2>2, <2>3, Zenon
<1>4. CASE NoNodeBefore(s)
  <2>1. (\E c, h : Await(s, c, h)) \/ Fail(s)
    BY <1>4, Zenon DEF NoNodeBefore
  <2>2. GpuMoves(s) /\ w' = w
    BY <2>1, GpuAwaitIs, GpuFailIs, Zenon
  <2>3. s.op \notin {"exit", "delete_all"} /\ Note
    BY <1>4 DEF NoNodeBefore
  <2> QED
    BY <1>2, <2>2, <2>3, Zenon
<1>5. CASE NoNodeAfter(s)
  <2>1. Call(s, w) \/ Fail(s)
    BY <1>5, Zenon DEF NoNodeAfter
  <2>2. GpuMoves(s) /\ w' = w
    BY <2>1, GpuCallIs, GpuFailIs, Zenon
  <2>3. s.op \notin {"exit", "delete_all"} /\ Note
    BY <1>5 DEF NoNodeAfter
  <2> QED
    BY <1>2, <2>2, <2>3, Zenon
<1>6. CASE ReadOnly(s)
  <2>1. GpuMoves(s) /\ w' = w
    BY <1>6, GpuCallIs, Zenon DEF ReadOnly
  <2>2. s.op \notin {"exit", "delete_all"} /\ Note
    BY <1>6 DEF ReadOnly
  <2> QED
    BY <1>2, <2>1, <2>2, Zenon
<1>7. CASE TwoShares(s) \/ ComparePolicy(s)
  <2>1. \E c : Require(s, c)
    BY <1>7, Zenon DEF TwoShares, ComparePolicy
  <2>2. GpuMoves(s) /\ w' = w
    BY <2>1, GpuRequireIs, Zenon
  <2>3. s.op \notin {"exit", "delete_all"} /\ Note
    BY <1>7 DEF TwoShares, ComparePolicy
  <2> QED
    BY <1>2, <2>2, <2>3, Zenon
<1>8. CASE DeleteAll(s)
  <2> DEFINE new == [w EXCEPT !.pods = <<>>]
  <2>1. s.op = "delete_all" /\ Call(s, new) /\ Note
    BY <1>8, Zenon DEF DeleteAll
  <2>2. "pods" \in DOMAIN new /\ DOMAIN new.pods = {}
    BY <1>1
  <2> HIDE DEF new
  <2>3. GpuMoves(s) /\ (w' = w \/ w' = new) /\ (raised' \/ w' = new)
    BY <2>1, GpuCallIs, Zenon
  <2>4. "pods" \in DOMAIN w' /\ DOMAIN w'.pods \subseteq DOMAIN w.pods /\ (raised' \/ DOMAIN w'.pods = {})
    BY <1>1, <2>2, <2>3
  <2>5. s.op # "exit"
    BY <2>1
  <2> QED
    BY <2>1, <2>3, <2>4, <2>5, NoNewPods, Zenon
<1> QED
  BY <1>3, <1>4, <1>5, <1>6, <1>7, <1>8, CreatePodCalls, DeleteCalls, Zenon DEF GpuCall

LEMMA GpuNoted ==
  ASSUME GpuInv, NEW mem, Set(mem)
  PROVE  {"run", "clean", "verdict", "mem"} \subseteq DOMAIN loc' /\ loc'.mem = mem
<1> DEFINE c == loc.clean /\ blame' = blame
<1>1. loc' = [loc EXCEPT !.clean = c, !.mem = mem]
  BY Zenon DEF Set
<1> HIDE DEF c
<1>2. {"run", "clean", "verdict", "mem"} \subseteq DOMAIN loc
  BY Zenon DEF GpuInv
<1> QED
  BY <1>1, <1>2

LEMMA GpuCallKept ==
  ASSUME GpuInv, pc # 0, ~InCleanup, NEW s, s = Current[pc], NEW mem, GpuCalls(s, mem)
  PROVE  GpuInv'
<1> DEFINE i == loc.mem.case
           n == Size(i)
           p == Main(CaseBody(i))
<1>1. GpuKnows(w, loc.mem, pc, raised)
  BY Zenon DEF GpuInv
<1>2. i \in 0..23 /\ pc \in 1..(n + 2)
  BY <1>1, Zenon DEF GpuKnows
<1>3. IsCase(p, i, n)
  BY <1>2, CaseIs, Zenon
<1>4. s = p[pc] /\ pc # Len(p) + 1
  BY Zenon DEF Current, InCleanup
<1> HIDE DEF p, n
<1>5. n \in Nat /\ Len(p) = n + 1 /\ p[n + 1].op = "exit"
  BY <1>3, Zenon DEF IsCase
<1>6. s.op # "exit" /\ GpuMoves(s)
  BY Zenon DEF GpuCalls
<1>7. pc \in 1..n
  <2>1. pc # n + 1
    BY <1>4, <1>5, <1>6
  <2> QED
    BY <1>2, <1>4, <1>5, <2>1
<1>8. s.esc = n + 1 - pc
  BY <1>3, <1>4, <1>7, Zenon DEF IsCase
<1>9. pc' \in 2..(n + 1)
  BY <1>5, <1>6, <1>7, <1>8 DEF GpuMoves
<1>10. /\ {"run", "clean", "verdict", "mem"} \subseteq DOMAIN loc' /\ loc'.mem = mem
       /\ GpuFields(mem) /\ mem.case = i /\ "pods" \in DOMAIN w'
  BY GpuNoted, Zenon DEF GpuCalls
<1>11. ASSUME i = 0, pc' = 3 \/ (pc' = 2 /\ ~raised')
       PROVE  DOMAIN w'.pods = {}
  <2>1. n = 1 /\ p[1].op = "delete_all"
    BY <1>3, <1>11, Zenon DEF IsCase
  <2>2. pc = 1 /\ pc' = 2
    BY <1>7, <1>9, <2>1
  <2>3. s.op = "delete_all" /\ ~raised'
    BY <1>4, <1>11, <2>1, <2>2
  <2> QED
    BY <2>3, Zenon DEF GpuCalls
<1>12. ASSUME i > 0
       PROVE  KnownPods(w', mem)
  <2>1. KnownPods(w, loc.mem)
    <3>1. pc <= Size(loc.mem.case) + 1
      BY <1>5, <1>7 DEF n
    <3> QED
      BY <1>1, <1>12, <3>1, Zenon DEF GpuKnows
  <2> QED
    BY <2>1, Zenon DEF GpuCalls
<1>13. pc' \in 1..(n + 2) /\ pc' # 1 /\ pc' # n + 2 /\ pc' # 0
  BY <1>5, <1>9
<1>14. GpuKnows(w', mem, pc', raised')
  BY <1>2, <1>10, <1>11, <1>12, <1>13, Zenon DEF GpuKnows, n
<1> QED
  BY <1>10, <1>13, <1>14, Zenon DEF GpuInv

\* The case is over, and the Pods in active are next.
LEMMA CaseEndsKept ==
  ASSUME GpuInv, pc # 0, ~InCleanup, NEW s, s = Current[pc], CaseEnds(s)
  PROVE  GpuInv'
<1> DEFINE i == loc.mem.case
           n == Size(i)
           p == Main(CaseBody(i))
           b == loc.mem.failed \/ raised
           mem == [loc.mem EXCEPT !.todo = loc.mem.active, !.failed = b]
<1>1. /\ s.op = "exit" /\ ~(i = 0 /\ raised) /\ pc' = pc + 1 /\ w' = w /\ Set(mem)
  BY Zenon DEF CaseEnds
<1>2. GpuKnows(w, loc.mem, pc, raised) /\ GpuFields(loc.mem)
  BY Zenon DEF GpuInv
<1>3. i \in 0..23 /\ pc \in 1..(n + 2)
  BY <1>2, Zenon DEF GpuKnows
<1>4. IsCase(p, i, n)
  BY <1>3, CaseIs, Zenon
<1>5. s = p[pc] /\ pc # Len(p) + 1
  BY Zenon DEF Current, InCleanup
<1> HIDE DEF b
<1>6. /\ {"case", "active", "todo", "failed", "hit", "lost"} \subseteq DOMAIN mem /\ mem.case = i
      /\ mem.active = loc.mem.active /\ mem.todo = loc.mem.active /\ mem.lost = loc.mem.lost
      /\ mem.hit = loc.mem.hit
  BY <1>2 DEF GpuFields
<1> HIDE DEF p, n, mem
<1>7. n \in Nat /\ Len(p) = n + 1 /\ (i = 0 => n = 1 /\ p[1].op = "delete_all")
  BY <1>4, Zenon DEF IsCase
<1>8. pc \in 1..(n + 1) /\ pc' \in 2..(n + 2)
  BY <1>1, <1>3, <1>5, <1>7
<1>9. GpuFields(mem)
  BY <1>2, <1>6, Zenon DEF GpuFields
<1>10. {"run", "clean", "verdict", "mem"} \subseteq DOMAIN loc' /\ loc'.mem = mem /\ "pods" \in DOMAIN w'
  BY <1>1, GpuNoted, Zenon DEF GpuInv
<1>11. ASSUME i = 0
       PROVE  DOMAIN w'.pods = {}
  <2>1. n = 1 /\ p[1].op = "delete_all"
    BY <1>7, <1>11
  <2>2. pc = 2
    BY <1>1, <1>5, <1>8, <2>1
  <2>3. ~raised
    BY <1>1, <1>11, Zenon
  <2> QED
    BY <1>1, <1>2, <1>11, <2>2, <2>3, Zenon DEF GpuKnows
<1>12. ASSUME i > 0
       PROVE  KnownPods(w', mem) /\ DuePods(w', mem)
  <2>1. KnownPods(w, loc.mem)
    <3>1. pc <= Size(loc.mem.case) + 1
      BY <1>7, <1>8 DEF n
    <3> QED
      BY <1>2, <1>12, <3>1, Zenon DEF GpuKnows
  <2> QED
    BY <1>1, <1>6, <2>1, Zenon DEF KnownPods, DuePods
<1>13. pc' # 1 /\ pc' # 0 /\ pc' \in 1..(n + 2)
  BY <1>7, <1>8
<1>14. GpuKnows(w', mem, pc', raised')
  BY <1>3, <1>6, <1>11, <1>12, <1>13, Zenon DEF GpuKnows, n
<1> QED
  BY <1>9, <1>10, <1>13, <1>14, Zenon DEF GpuInv

\* One turn of the cleanup, in any of its outcomes.
LEMMA CleanedUp ==
  ASSUME GpuInv, pc # 0, InCleanup, pc' = pc, raised' <=> raised, NEW mem, Set(mem), GpuFields(mem),
         mem.case = loc.mem.case, "pods" \in DOMAIN w', DOMAIN w'.pods \subseteq DOMAIN w.pods,
         DuePods(w, loc.mem) => DuePods(w', mem)
  PROVE  GpuInv'
<1> DEFINE i == loc.mem.case
           n == Size(i)
           p == Main(CaseBody(i))
<1>1. GpuKnows(w, loc.mem, pc, raised)
  BY Zenon DEF GpuInv
<1>2. i \in 0..23 /\ pc \in 1..(n + 2)
  BY <1>1, Zenon DEF GpuKnows
<1>3. IsCase(p, i, n)
  BY <1>2, CaseIs, Zenon
<1>4. pc = Len(p) + 1
  BY Zenon DEF Current, InCleanup
<1> HIDE DEF p, n
<1>5. n \in Nat /\ Len(p) = n + 1 /\ (i = 0 => n = 1)
  BY <1>3, Zenon DEF IsCase
<1>6. pc = n + 2 /\ pc # 1 /\ ~(pc <= n + 1)
  BY <1>4, <1>5
<1>7. ASSUME i = 0
      PROVE  DOMAIN w'.pods = {}
  <2>1. pc = 3
    BY <1>5, <1>6, <1>7
  <2>2. DOMAIN w.pods = {}
    BY <1>1, <1>7, <2>1, Zenon DEF GpuKnows
  <2> QED
    BY <2>2
<1>8. ASSUME i > 0
      PROVE  DuePods(w', mem)
  <2>1. DuePods(w, loc.mem)
    BY <1>1, <1>6, <1>8, Zenon DEF GpuKnows, n
  <2> QED
    BY <2>1
<1>9. GpuKnows(w', mem, pc', raised')
  BY <1>2, <1>6, <1>7, <1>8, Zenon DEF GpuKnows, n
<1>10. {"run", "clean", "verdict", "mem"} \subseteq DOMAIN loc' /\ loc'.mem = mem
  BY GpuNoted, Zenon
<1> QED
  BY <1>9, <1>10, Zenon DEF GpuInv

LEMMA CleanOneKept ==
  ASSUME GpuInv, pc # 0, InCleanup, CleanOne
  PROVE  GpuInv'
<1> DEFINE name == Head(loc.mem.todo)
           t == Tail(loc.mem.todo)
           rest == [loc.mem EXCEPT !.todo = t]
           v == Without(name)
<1>1. "pods" \in DOMAIN w /\ GpuFields(loc.mem)
  BY Zenon DEF GpuInv
<1>2. pc' = pc /\ (raised' <=> raised) /\ loc.mem.todo # <<>>
  BY Zenon DEF CleanOne
<1>3. IsList(t) /\ \A y : Lists(loc.mem.todo, y) /\ y # name => Lists(t, y)
  BY <1>1, <1>2, ListTail, Zenon DEF GpuFields
<1>4. "pods" \in DOMAIN v /\ DOMAIN v.pods = DOMAIN w.pods \ {name}
  BY <1>1, WithoutPod, Zenon
<1>5. \/ w' = v /\ Set([rest EXCEPT !.active = RemoveFirst(rest.active, name)])
      \/ (w' = w \/ w' = v) /\ Set([rest EXCEPT !.hit = rest.hit \cup {name}])
      \/ ~There(name) /\ w' = w /\ Set(rest)
  BY Zenon DEF CleanOne
<1> HIDE DEF name, t, v
<1>6. /\ {"case", "active", "todo", "failed", "hit", "lost"} \subseteq DOMAIN rest
      /\ rest.case = loc.mem.case /\ rest.active = loc.mem.active /\ rest.todo = t
      /\ rest.lost = loc.mem.lost /\ rest.hit = loc.mem.hit
  BY <1>1 DEF GpuFields
<1> HIDE DEF rest
<1>7. IsList(rest.active) /\ GpuFields(rest)
  BY <1>1, <1>3, <1>6, Zenon DEF GpuFields
<1>8. CASE w' = v /\ Set([rest EXCEPT !.active = RemoveFirst(rest.active, name)])
  <2> DEFINE a == RemoveFirst(rest.active, name)
             mem == [rest EXCEPT !.active = a]
  <2>1. IsList(a) /\ \A y : Lists(rest.active, y) /\ y # name => Lists(a, y)
    BY <1>7, ListRemove, Zenon
  <2>2. Set(mem)
    BY <1>8
  <2> HIDE DEF a
  <2>3. /\ {"case", "active", "todo", "failed", "hit", "lost"} \subseteq DOMAIN mem
        /\ mem.case = rest.case /\ mem.active = a /\ mem.todo = rest.todo /\ mem.lost = rest.lost
        /\ mem.hit = rest.hit
    BY <1>6
  <2> HIDE DEF mem
  <2>4. GpuFields(mem)
    BY <1>7, <2>1, <2>3, Zenon DEF GpuFields
  <2>5. "pods" \in DOMAIN w' /\ DOMAIN w'.pods = DOMAIN w.pods \ {name}
    BY <1>4, <1>8
  <2>6. ASSUME DuePods(w, loc.mem), NEW x \in DOMAIN w'.pods
        PROVE  x \in mem.lost \/ (Lists(mem.active, x) /\ (x \in mem.hit \/ Lists(mem.todo, x)))
    <3>1. x \in DOMAIN w.pods /\ x # name
      BY <2>5, <2>6
    <3>2. x \in loc.mem.lost \/ (Lists(loc.mem.active, x) /\ (x \in loc.mem.hit \/ Lists(loc.mem.todo, x)))
      BY <2>6, <3>1, Zenon DEF DuePods
    <3> QED
      BY <1>3, <1>6, <2>1, <2>3, <3>1, <3>2, Zenon
  <2>7. DuePods(w, loc.mem) => DuePods(w', mem)
    BY <2>6, Zenon DEF DuePods
  <2>8. DOMAIN w'.pods \subseteq DOMAIN w.pods
    BY <2>5
  <2>9. mem.case = loc.mem.case
    BY <1>6, <2>3
  <2> QED
    BY <1>2, <2>2, <2>4, <2>5, <2>7, <2>8, <2>9, CleanedUp, Zenon
<1>9. CASE (w' = w \/ w' = v) /\ Set([rest EXCEPT !.hit = rest.hit \cup {name}])
  <2> DEFINE h == rest.hit \cup {name}
             mem == [rest EXCEPT !.hit = h]
  <2>1. name \in h /\ rest.hit \subseteq h
    OBVIOUS
  <2>2. Set(mem)
    BY <1>9
  <2> HIDE DEF h
  <2>3. /\ {"case", "active", "todo", "failed", "hit", "lost"} \subseteq DOMAIN mem
        /\ mem.case = rest.case /\ mem.active = rest.active /\ mem.todo = rest.todo /\ mem.lost = rest.lost
        /\ mem.hit = h
    BY <1>6
  <2> HIDE DEF mem
  <2>4. GpuFields(mem)
    BY <1>7, <2>3, Zenon DEF GpuFields
  <2>5. "pods" \in DOMAIN w' /\ DOMAIN w'.pods \subseteq DOMAIN w.pods
    BY <1>1, <1>4, <1>9
  <2>6. ASSUME DuePods(w, loc.mem), NEW x \in DOMAIN w'.pods
        PROVE  x \in mem.lost \/ (Lists(mem.active, x) /\ (x \in mem.hit \/ Lists(mem.todo, x)))
    <3>1. x \in DOMAIN w.pods
      BY <2>5, <2>6
    <3>2. x \in loc.mem.lost \/ (Lists(loc.mem.active, x) /\ (x \in loc.mem.hit \/ Lists(loc.mem.todo, x)))
      BY <2>6, <3>1, Zenon DEF DuePods
    <3>3. CASE x = name
      BY <1>6, <2>1, <2>3, <3>2, <3>3, Zenon
    <3>4. CASE x # name
      BY <1>3, <1>6, <2>1, <2>3, <3>2, <3>4, Zenon
    <3> QED
      BY <3>3, <3>4
  <2>7. DuePods(w, loc.mem) => DuePods(w', mem)
    BY <2>6, Zenon DEF DuePods
  <2>8. mem.case = loc.mem.case
    BY <1>6, <2>3
  <2> QED
    BY <1>2, <2>2, <2>4, <2>5, <2>7, <2>8, CleanedUp, Zenon
<1>10. CASE ~There(name) /\ w' = w /\ Set(rest)
  <2>1. "pods" \in DOMAIN w' /\ DOMAIN w'.pods \subseteq DOMAIN w.pods /\ name \notin DOMAIN w'.pods
    BY <1>1, <1>10 DEF There
  <2>2. ASSUME DuePods(w, loc.mem), NEW x \in DOMAIN w'.pods
        PROVE  x \in rest.lost \/ (Lists(rest.active, x) /\ (x \in rest.hit \/ Lists(rest.todo, x)))
    <3>1. x \in DOMAIN w.pods /\ x # name
      BY <2>1, <2>2
    <3>2. x \in loc.mem.lost \/ (Lists(loc.mem.active, x) /\ (x \in loc.mem.hit \/ Lists(loc.mem.todo, x)))
      BY <2>2, <3>1, Zenon DEF DuePods
    <3> QED
      BY <1>3, <1>6, <3>1, <3>2, Zenon
  <2>3. DuePods(w, loc.mem) => DuePods(w', rest)
    BY <2>2, Zenon DEF DuePods
  <2> QED
    BY <1>2, <1>6, <1>7, <1>10, <2>1, <2>3, CleanedUp, Zenon
<1> QED
  BY <1>5, <1>8, <1>9, <1>10, Zenon

\* The next case begins when the cleanup has been through its list.
LEMMA NextCaseKept ==
  ASSUME GpuInv, pc # 0, InCleanup, NextCase
  PROVE  GpuInv'
<1> DEFINE i == loc.mem.case
           n == Size(i)
           p == Main(CaseBody(i))
           j == i + 1
           mem == [loc.mem EXCEPT !.case = j]
<1>1. GpuKnows(w, loc.mem, pc, raised) /\ GpuFields(loc.mem) /\ "pods" \in DOMAIN w
  BY Zenon DEF GpuInv
<1>2. i \in 0..23
  BY <1>1, Zenon DEF GpuKnows
<1>3. loc.mem.todo = <<>> /\ i < 23 /\ pc' = 1 /\ w' = w /\ Set([loc.mem EXCEPT !.case = @ + 1])
  BY Zenon DEF NextCase, Begin, LastCase
<1>4. Set(mem)
  BY <1>3, Zenon
<1>5. IsCase(p, i, n) /\ pc = Len(p) + 1
  BY <1>2, CaseIs, Zenon DEF Current, InCleanup
<1> HIDE DEF p, n
<1>6. n \in Nat /\ Len(p) = n + 1 /\ (i = 0 => n = 1)
  BY <1>5, Zenon DEF IsCase
<1>7. j \in 0..23 /\ j > 0 /\ i \in 0..23 /\ (i = 0 \/ i > 0)
  <2>1. i < 23
    BY <1>3, Zenon
  <2> HIDE DEF i
  <2> QED
    BY <1>2, <2>1
<1>8. IsCase(Main(CaseBody(j)), j, Size(j))
  BY <1>7, CaseIs, Zenon
<1>9. Size(j) \in Nat
  BY <1>8, Zenon DEF IsCase
<1> HIDE DEF j
<1>10. /\ {"case", "active", "todo", "failed", "hit", "lost"} \subseteq DOMAIN mem /\ mem.case = j
       /\ mem.active = loc.mem.active /\ mem.todo = loc.mem.todo /\ mem.lost = loc.mem.lost
       /\ mem.hit = loc.mem.hit
  BY <1>1 DEF GpuFields
<1> HIDE DEF mem
<1>11. GpuFields(mem)
  BY <1>1, <1>10, Zenon DEF GpuFields
<1>12. OldPods(w, loc.mem)
  <2>1. CASE i = 0
    <3>1. pc = 3
      BY <1>5, <1>6, <2>1
    <3>2. DOMAIN w.pods = {}
      BY <1>1, <2>1, <3>1, Zenon DEF GpuKnows
    <3> QED
      BY <3>2 DEF OldPods
  <2>2. CASE i > 0
    <3>1. pc = n + 2
      BY <1>5, <1>6
    <3>2. DuePods(w, loc.mem)
      BY <1>1, <2>2, <3>1, Zenon DEF GpuKnows, n
    <3>3. \A x : ~Lists(loc.mem.todo, x)
      BY <1>3 DEF Lists
    <3> QED
      BY <3>2, <3>3, Zenon DEF DuePods, OldPods
  <2> QED
    BY <1>7, <2>1, <2>2
<1>13. OldPods(w', mem)
  BY <1>3, <1>10, <1>12, Zenon DEF OldPods
<1>14. KnownPods(w', mem)
  BY <1>13, Zenon DEF OldPods, KnownPods
<1>15. pc' \in 1..(Size(j) + 2) /\ pc' # Size(j) + 2 /\ j # 0 /\ pc' # 0
  BY <1>3, <1>7, <1>9
<1>16. GpuKnows(w', mem, pc', raised')
  BY <1>7, <1>10, <1>13, <1>14, <1>15, Zenon DEF GpuKnows
<1>17. {"run", "clean", "verdict", "mem"} \subseteq DOMAIN loc' /\ loc'.mem = mem /\ "pods" \in DOMAIN w'
  BY <1>1, <1>3, <1>4, GpuNoted, Zenon
<1> QED
  BY <1>11, <1>15, <1>16, <1>17, Zenon DEF GpuInv

LEMMA GpuMemFields ==
  GpuFields(GpuMem) /\ GpuMem.case = 0
<1>1. <<>> \in Seq({})
  OBVIOUS
<1>2. IsList(<<>>)
  BY <1>1, Zenon DEF IsList
<1> DEFINE e == <<>>
<1>3. GpuMem = [case |-> 0, active |-> e, todo |-> e, failed |-> FALSE, hit |-> {}, lost |-> {}]
  BY DEF GpuMem
<1> HIDE DEF e
<1>4. /\ {"case", "active", "todo", "failed", "hit", "lost"} \subseteq DOMAIN GpuMem /\ GpuMem.case = 0
      /\ GpuMem.active = e /\ GpuMem.todo = e
  BY <1>3
<1> QED
  BY <1>2, <1>4, Zenon DEF GpuFields, e

\* A run ends or is killed.
LEMMA GpuStops ==
  ASSUME GpuInv, w' = w, pc' = 0, NEW v, loc' = [loc EXCEPT !.verdict = v, !.mem = GpuMem]
  PROVE  GpuInv'
<1>1. "pods" \in DOMAIN w /\ {"run", "clean", "verdict", "mem"} \subseteq DOMAIN loc
  BY Zenon DEF GpuInv
<1>2. {"run", "clean", "verdict", "mem"} \subseteq DOMAIN loc' /\ loc'.mem = GpuMem
  BY <1>1
<1> QED
  BY <1>1, <1>2, GpuMemFields, Zenon DEF GpuInv

LEMMA GpuKept ==
  ASSUME GpuInv, GpuNext
  PROVE  GpuInv'
<1>1. "pods" \in DOMAIN w /\ {"run", "clean", "verdict", "mem"} \subseteq DOMAIN loc /\ GpuFields(loc.mem)
  BY Zenon DEF GpuInv
<1>2. CASE GpuStep
  <2> DEFINE s == Current[pc]
  <2>1. pc # 0
    BY <1>2, Zenon DEF GpuStep, Idle
  <2>2. \/ ~InCleanup /\ (GpuCall(s) \/ CaseEnds(s))
        \/ InCleanup /\ (CleanOne \/ NextCase)
        \/ \E bad : SuiteEnds(bad)
    BY <1>2, Zenon DEF GpuStep, GpuCall
  <2>3. CASE ~InCleanup /\ GpuCall(s)
    <3>1. PICK mem : GpuCalls(s, mem)
      BY <2>3, GpuCallsAre, Zenon
    <3> QED
      BY <2>1, <2>3, <3>1, GpuCallKept, Zenon
  <2>4. CASE ~InCleanup /\ CaseEnds(s)
    BY <2>1, <2>4, CaseEndsKept, Zenon
  <2>5. CASE InCleanup /\ CleanOne
    BY <2>1, <2>5, CleanOneKept, Zenon
  <2>6. CASE InCleanup /\ NextCase
    BY <2>1, <2>6, NextCaseKept, Zenon
  <2>7. CASE \E bad : SuiteEnds(bad)
    <3>1. w' = w /\ pc' = 0
      BY <2>7, Zenon DEF SuiteEnds, Leave
    <3>2. PICK v : loc' = [loc EXCEPT !.verdict = v, !.mem = GpuMem]
      BY <2>7, Zenon DEF SuiteEnds
    <3> QED
      BY <3>1, <3>2, GpuStops, Zenon
  <2> QED
    BY <2>2, <2>3, <2>4, <2>5, <2>6, <2>7, Zenon
<1>3. CASE HamiScheduler
  <2>1. pc' = pc /\ (raised' <=> raised) /\ loc' = loc
    BY <1>3, Zenon DEF HamiScheduler, Aside
  <2>2. "pods" \in DOMAIN w' /\ DOMAIN w'.pods = DOMAIN w.pods
    <3>1. \/ \E name, a : w' = [w EXCEPT !.pods[name].alloc = a]
          \/ \E e : w' = [w EXCEPT !.events = e]
      BY <1>3, Zenon DEF HamiScheduler
    <3>2. CASE \E name, a : w' = [w EXCEPT !.pods[name].alloc = a]
      BY <1>1, <3>2
    <3>3. CASE \E e : w' = [w EXCEPT !.events = e]
      BY <1>1, <3>3
    <3> QED
      BY <3>1, <3>2, <3>3
  <2>3. GpuKnows(w, loc.mem, pc, raised) => GpuKnows(w', loc.mem, pc, raised)
    BY <2>2, Zenon DEF GpuKnows, OldPods, KnownPods, DuePods
  <2>4. pc # 0 => GpuKnows(w', loc'.mem, pc', raised')
    BY <2>1, <2>3, Zenon DEF GpuInv, GpuKnows
  <2> QED
    BY <1>1, <2>1, <2>2, <2>4, Zenon DEF GpuInv
<1>4. CASE StartRun
  <2>1. w' = w /\ pc' = 1 /\ raised' = FALSE /\ pc = 0
    BY <1>4, Zenon DEF StartRun, Begin, Idle
  <2> DEFINE r == loc.run + 1
  <2>2. loc' = [loc EXCEPT !.run = r, !.clean = TRUE, !.verdict = "none"]
    BY <1>4 DEF StartRun
  <2> HIDE DEF r
  <2>3. {"run", "clean", "verdict", "mem"} \subseteq DOMAIN loc' /\ loc'.mem = loc.mem
    BY <1>1, <2>2
  <2>4. loc.mem.case = 0
    BY <2>1 DEF GpuInv
  <2>5. Size(0) \in Nat
    <3>1. 0 \in 0..23
      OBVIOUS
    <3> QED
      BY <3>1, CaseIs, Zenon DEF IsCase
  <2>6. GpuKnows(w', loc.mem, 1, FALSE)
    BY <2>4, <2>5 DEF GpuKnows
  <2>7. GpuKnows(w', loc'.mem, pc', raised')
    BY <2>1, <2>3, <2>6, Zenon
  <2>8. pc' # 0
    BY <2>1
  <2> QED
    BY <1>1, <2>1, <2>3, <2>7, <2>8, Zenon DEF GpuInv
<1>5. CASE GpuKill
  <2>1. w' = w /\ pc' = 0 /\ loc' = [loc EXCEPT !.mem = GpuMem]
    BY <1>5, Zenon DEF GpuKill, Die, Leave
  <2>2. loc' = [loc EXCEPT !.verdict = loc.verdict, !.mem = GpuMem]
    BY <1>1, <2>1
  <2> QED
    BY <2>1, <2>2, GpuStops, Zenon
<1> QED
  BY <1>2, <1>3, <1>4, <1>5, Zenon DEF GpuNext

(* LeftoverIsExplained, for every number of runs, of failing calls and of  *)
(* kills: a Pod that is there when a case of hami-mock-gpu/run-tests.py    *)
(* starts is one whose own delete or apply has failed.  The cleanup of     *)
(* check() goes through a copy of active and goes on after a delete that   *)
(* fails, so that one such Pod does not keep the others.                   *)
THEOREM LeftoversAreExplained == Spec => []LeftoverIsExplained
<1> DEFINE Inv == lab = "gpu" => GpuInv
<1>1. Init => Inv
  <2>1. ASSUME Init, lab = "gpu"
        PROVE  GpuInit
    BY <2>1 DEF Init
  <2>2. ASSUME GpuInit
        PROVE  GpuInv
    <3>1. w = GpuCluster /\ FirstRun(GpuMem)
      BY <2>2, Zenon DEF GpuInit
    <3>2. "pods" \in DOMAIN w
      BY <3>1 DEF GpuCluster
    <3>3. pc = 0 /\ {"run", "clean", "verdict", "mem"} \subseteq DOMAIN loc /\ loc.mem = GpuMem
      BY <3>1 DEF FirstRun
    <3> QED
      BY <3>2, <3>3, GpuMemFields, Zenon DEF GpuInv
  <2> QED
    BY <2>1, <2>2
<1>2. Inv /\ [Next]_scriptVars => Inv'
  <2> SUFFICES ASSUME Inv, [Next]_scriptVars, lab' = "gpu"
               PROVE  GpuInv'
    BY Zenon
  <2>1. CASE Next
    <3>1. lab = "gpu" /\ GpuNext
      BY <2>1 DEF Next
    <3> QED
      BY <3>1, GpuKept
  <2>2. CASE UNCHANGED scriptVars
    <3>1. lab = "gpu" /\ w' = w /\ loc' = loc /\ pc' = pc /\ (raised' <=> raised)
      BY <2>2, Zenon DEF scriptVars
    <3>2. GpuInv
      BY <3>1, Zenon
    <3>3. pc # 0 => GpuKnows(w', loc'.mem, pc', raised')
      BY <3>1, <3>2, Zenon DEF GpuInv, GpuKnows
    <3> QED
      BY <3>1, <3>2, <3>3, Zenon DEF GpuInv
  <2> QED
    BY <2>1, <2>2
<1>3. Inv => LeftoverIsExplained
  <2> SUFFICES ASSUME GpuInv, pc = 1, loc.mem.case > 0, NEW name \in DOMAIN w.pods
               PROVE  \/ name \in loc.mem.hit /\ \E i \in DOMAIN loc.mem.active : loc.mem.active[i] = name
                      \/ name \in loc.mem.lost
    BY Zenon DEF LeftoverIsExplained
  <2>1. pc # 0
    OBVIOUS
  <2>2. OldPods(w, loc.mem)
    BY <2>1, Zenon DEF GpuInv, GpuKnows
  <2>3. name \in loc.mem.lost \/ (Lists(loc.mem.active, name) /\ name \in loc.mem.hit)
    BY <2>2, Zenon DEF OldPods
  <2>4. DOMAIN loc.mem.active = 1..Len(loc.mem.active)
    BY DEF GpuInv, GpuFields, IsList
  <2> QED
    BY <2>3, <2>4, Zenon DEF Lists
<1> QED
  BY <1>1, <1>2, <1>3, PTL DEF Spec

----------------------------------------------------------------------------
(* What the finally blocks of hpa/advanced/run.py undo: the programs.      *)

LEMMA SpecsAre ==
  /\ HpaQueue \in Specs /\ HpaMulti \in Specs /\ HpaConsumer \in Specs /\ HpaPods \in Specs /\ HpaBytes \in Specs
  /\ \A p \in {"pods", "percent"} : HpaPolicy(p) \in Specs
<1>1. 30 \div 5 = 6 /\ 0 \div 5 = 0 /\ 60 \div 5 = 12
  OBVIOUS
<1>2. Polls(30) = 6 /\ Polls(0) = 0 /\ Longest = 12
  BY <1>1 DEF Polls, Longest
<1>3. ASSUME NEW m \in SUBSET {"queue", "tasks", "rps", "bytes", "cpu"}, NEW s \in {0, 30},
             NEW p \in {"none", "pods", "percent"}
      PROVE  Manifest(m, s, p) \in Specs
  <2> DEFINE n == Polls(s)
  <2>1. n \in 0..Longest /\ 1 \in 0..MaxReplicas
    BY <1>2 DEF MaxReplicas
  <2> HIDE DEF n
  <2>2. Manifest(m, s, p) = [metrics |-> m, window |-> n, policy |-> p, min |-> 1]
    BY DEF Manifest, n
  <2> QED
    BY <2>1, <2>2 DEF Specs
<1>4. {"queue"} \in SUBSET {"queue", "tasks", "rps", "bytes", "cpu"} /\ {"cpu", "queue"} \in SUBSET {"queue", "tasks", "rps", "bytes", "cpu"}
      /\ {"tasks"} \in SUBSET {"queue", "tasks", "rps", "bytes", "cpu"} /\ {"rps"} \in SUBSET {"queue", "tasks", "rps", "bytes", "cpu"}
      /\ {"bytes"} \in SUBSET {"queue", "tasks", "rps", "bytes", "cpu"}
  OBVIOUS
<1>5. 0 \in {0, 30} /\ 30 \in {0, 30} /\ "none" \in {"none", "pods", "percent"}
      /\ {"pods", "percent"} \subseteq {"none", "pods", "percent"}
  OBVIOUS
<1>6. HpaQueue \in Specs /\ HpaMulti \in Specs /\ HpaConsumer \in Specs /\ HpaPods \in Specs /\ HpaBytes \in Specs
  BY <1>3, <1>4, <1>5, Zenon DEF HpaQueue, HpaMulti, HpaConsumer, HpaPods, HpaBytes
<1>7. \A p \in {"pods", "percent"} : HpaPolicy(p) \in Specs
  BY <1>3, <1>4, <1>5 DEF HpaPolicy
<1> QED
  BY <1>6, <1>7

\* The calls that turn nothing on or off.
LEMMA ObjectCalls ==
  ASSUME NEW F
  PROVE  /\ \A t \in Targets : \A spec \in Specs : Mild(Apply(t, spec), F)
         /\ \A t \in Targets : Mild(CopyHpa(t), F)
         /\ \A t \in Targets : \A e \in Edits : Mild(Patch(t, e), F)
         /\ \A t \in Targets : \A must : Mild(DropHpa(t, must), F)
         /\ \A t \in Targets : \A n \in 0..MaxReplicas : Mild(ScaleTo(t, n), F)
         /\ \A n \in 0..35 : Mild(Gauge(n), F)
         /\ \A on \in BOOLEAN : Mild(Slow(on), F)
         /\ \A n \in 0..MaxReplicas : Mild(Deploy(n), F)
         /\ \A n \in Nat : \A long : Mild(Enqueue(n, long), F)
<1>1. ASSUME NEW t \in Targets, NEW spec \in Specs
      PROVE  Mild(Apply(t, spec), F)
  <2> DEFINE r == Apply(t, spec)
  <2>1. r.op = "apply" /\ r.esc = 0 /\ r.part = "open" /\ r.t = t /\ r.spec = spec /\ Takes(r, "op")
        /\ Takes(r, "esc") /\ Takes(r, "part") /\ Takes(r, "t") /\ Takes(r, "spec")
    BY DEF Apply, Takes
  <2> HIDE DEF r
  <2>2. Proper(r) /\ r.op \notin Turning /\ r.op # "lease"
    BY <2>1 DEF Proper, Turning
  <2> QED
    BY <2>1, <2>2, QuietFits DEF r
<1>2. ASSUME NEW t \in Targets
      PROVE  Mild(CopyHpa(t), F)
  <2> DEFINE r == CopyHpa(t)
  <2>1. r.op = "copy" /\ r.esc = 0 /\ r.part = "open" /\ r.t = t /\ Takes(r, "op")
        /\ Takes(r, "esc") /\ Takes(r, "part") /\ Takes(r, "t")
    BY DEF CopyHpa, Takes
  <2> HIDE DEF r
  <2>2. Proper(r) /\ r.op \notin Turning /\ r.op # "lease"
    BY <2>1 DEF Proper, Turning
  <2> QED
    BY <2>1, <2>2, QuietFits DEF r
<1>3. ASSUME NEW t \in Targets, NEW e \in Edits
      PROVE  Mild(Patch(t, e), F)
  <2> DEFINE r == Patch(t, e)
  <2>1. r.op = "patch" /\ r.esc = 0 /\ r.part = "open" /\ r.t = t /\ r.fields = e /\ Takes(r, "op")
        /\ Takes(r, "esc") /\ Takes(r, "part") /\ Takes(r, "t") /\ Takes(r, "fields")
    BY DEF Patch, Takes
  <2> HIDE DEF r
  <2>2. Proper(r) /\ r.op \notin Turning /\ r.op # "lease"
    BY <2>1 DEF Proper, Turning
  <2> QED
    BY <2>1, <2>2, QuietFits DEF r
<1>4. ASSUME NEW t \in Targets, NEW must
      PROVE  Mild(DropHpa(t, must), F)
  <2> DEFINE r == DropHpa(t, must)
  <2>1. r.op = "drophpa" /\ r.esc = 0 /\ r.part = "open" /\ r.t = t /\ Takes(r, "op")
        /\ Takes(r, "esc") /\ Takes(r, "part") /\ Takes(r, "t")
    BY DEF DropHpa, Takes
  <2> HIDE DEF r
  <2>2. Proper(r) /\ r.op \notin Turning /\ r.op # "lease"
    BY <2>1 DEF Proper, Turning
  <2> QED
    BY <2>1, <2>2, QuietFits DEF r
<1>5. ASSUME NEW t \in Targets, NEW n \in 0..MaxReplicas
      PROVE  Mild(ScaleTo(t, n), F)
  <2> DEFINE r == ScaleTo(t, n)
  <2>1. r.op = "scale" /\ r.esc = 0 /\ r.part = "open" /\ r.t = t /\ r.n = n /\ Takes(r, "op")
        /\ Takes(r, "esc") /\ Takes(r, "part") /\ Takes(r, "t") /\ Takes(r, "n")
    BY DEF ScaleTo, Takes
  <2> HIDE DEF r
  <2>2. Proper(r) /\ r.op \notin Turning /\ r.op # "lease"
    BY <2>1 DEF Proper, Turning
  <2> QED
    BY <2>1, <2>2, QuietFits DEF r
<1>6. ASSUME NEW n \in 0..35
      PROVE  Mild(Gauge(n), F)
  <2> DEFINE r == Gauge(n)
  <2>1. r.op = "gauge" /\ r.esc = 0 /\ r.part = "open" /\ r.n = n /\ Takes(r, "op")
        /\ Takes(r, "esc") /\ Takes(r, "part") /\ Takes(r, "n")
    BY DEF Gauge, Takes
  <2> HIDE DEF r
  <2>2. Proper(r) /\ r.op \notin Turning /\ r.op # "lease"
    BY <2>1 DEF Proper, Turning
  <2> QED
    BY <2>1, <2>2, QuietFits DEF r
<1>7. ASSUME NEW on \in BOOLEAN
      PROVE  Mild(Slow(on), F)
  <2> DEFINE r == Slow(on)
  <2>1. r.op = "slow" /\ r.esc = 0 /\ r.part = "open" /\ r.on = on /\ Takes(r, "op")
        /\ Takes(r, "esc") /\ Takes(r, "part") /\ Takes(r, "on")
    BY DEF Slow, Takes
  <2> HIDE DEF r
  <2>2. Proper(r) /\ r.op \notin Turning /\ r.op # "lease"
    BY <2>1 DEF Proper, Turning
  <2> QED
    BY <2>1, <2>2, QuietFits DEF r
<1>8. ASSUME NEW n \in 0..MaxReplicas
      PROVE  Mild(Deploy(n), F)
  <2> DEFINE r == Deploy(n)
  <2>1. r.op = "deploy" /\ r.esc = 0 /\ r.part = "open" /\ r.n = n /\ Takes(r, "op")
        /\ Takes(r, "esc") /\ Takes(r, "part") /\ Takes(r, "n")
    BY DEF Deploy, Takes
  <2> HIDE DEF r
  <2>2. Proper(r) /\ r.op \notin Turning /\ r.op # "lease"
    BY <2>1 DEF Proper, Turning
  <2> QED
    BY <2>1, <2>2, QuietFits DEF r
<1>9. ASSUME NEW n \in Nat, NEW long
      PROVE  Mild(Enqueue(n, long), F)
  <2> DEFINE r == Enqueue(n, long)
  <2>1. r.op = "enqueue" /\ r.esc = 0 /\ r.part = "open" /\ r.n = n /\ Takes(r, "op")
        /\ Takes(r, "esc") /\ Takes(r, "part") /\ Takes(r, "n")
    BY DEF Enqueue, Takes
  <2> HIDE DEF r
  <2>2. Proper(r) /\ r.op \notin Turning /\ r.op # "lease"
    BY <2>1 DEF Proper, Turning
  <2> QED
    BY <2>1, <2>2, QuietFits DEF r
<1> QED
  BY <1>1, <1>2, <1>3, <1>4, <1>5, <1>6, <1>7, <1>8, <1>9

LEMMA TurnCalls ==
  /\ \A c \in Components : /\ Turns(Switch(c, FALSE)) /\ \A D : After(Switch(c, FALSE), D) \subseteq D \cup {c}
                           /\ Turns(Switch(c, TRUE)) /\ \A D : After(Switch(c, TRUE), D) \subseteq D \ {c}
  /\ Turns(Load(TRUE)) /\ \A D : After(Load(TRUE), D) \subseteq D \cup {"load"}
  /\ Turns(Load(FALSE)) /\ \A D : After(Load(FALSE), D) \subseteq D \ {"load"}
  /\ Turns(Follow(TRUE)) /\ \A D : After(Follow(TRUE), D) \subseteq D \cup {"follow"}
  /\ Turns(Follow(FALSE)) /\ \A D : After(Follow(FALSE), D) \subseteq D \ {"follow"}
  /\ \A x \in {15, 35} : \A y \in 0..2 :
       Turns(HttpLoad(x, y)) /\ \A D : After(HttpLoad(x, y), D) \subseteq D \cup {"rate"}
  /\ Turns(HttpLoad(0, 0)) /\ \A D : After(HttpLoad(0, 0), D) \subseteq D \ {"rate"}
<1>1. ASSUME NEW c \in Components, NEW on \in BOOLEAN
      PROVE  /\ Turns(Switch(c, on))
             /\ on => \A D : After(Switch(c, on), D) \subseteq D \ {c}
             /\ ~on => \A D : After(Switch(c, on), D) \subseteq D \cup {c}
  <2> DEFINE r == Switch(c, on)
  <2>1. r.op = "switch" /\ r.esc = 0 /\ r.part = "open" /\ r.t = c /\ (r.on <=> on) /\ r.on \in BOOLEAN
        /\ Takes(r, "op") /\ Takes(r, "esc") /\ Takes(r, "part") /\ Takes(r, "t") /\ Takes(r, "on")
    BY DEF Switch, Takes
  <2> HIDE DEF r
  <2>2. Turns(r)
    BY <2>1 DEF Turns, Proper, Turning
  <2>3. (on => \A D : After(r, D) \subseteq D \ {c}) /\ (~on => \A D : After(r, D) \subseteq D \cup {c})
    BY <2>1 DEF After, TurnsOn, TurnsOff
  <2> QED
    BY <2>2, <2>3 DEF r
<1>2. ASSUME NEW on \in BOOLEAN
      PROVE  /\ Turns(Load(on))
             /\ on => \A D : After(Load(on), D) \subseteq D \cup {"load"}
             /\ ~on => \A D : After(Load(on), D) \subseteq D \ {"load"}
  <2> DEFINE r == Load(on)
  <2>1. r.op = "load" /\ r.esc = 0 /\ r.part = "open" /\ (r.on <=> on) /\ r.on \in BOOLEAN
        /\ Takes(r, "op") /\ Takes(r, "esc") /\ Takes(r, "part") /\ Takes(r, "on")
    BY DEF Load, Takes
  <2> HIDE DEF r
  <2>2. Turns(r)
    BY <2>1 DEF Turns, Proper, Turning
  <2>3. (~on => \A D : After(r, D) \subseteq D \ {"load"}) /\ (on => \A D : After(r, D) \subseteq D \cup {"load"})
    BY <2>1 DEF After, TurnsOn, TurnsOff
  <2> QED
    BY <2>2, <2>3 DEF r
<1>3. ASSUME NEW on \in BOOLEAN
      PROVE  /\ Turns(Follow(on))
             /\ on => \A D : After(Follow(on), D) \subseteq D \cup {"follow"}
             /\ ~on => \A D : After(Follow(on), D) \subseteq D \ {"follow"}
  <2> DEFINE r == Follow(on)
  <2>1. r.op = "follow" /\ r.esc = 0 /\ r.part = "open" /\ (r.on <=> on) /\ r.on \in BOOLEAN
        /\ Takes(r, "op") /\ Takes(r, "esc") /\ Takes(r, "part") /\ Takes(r, "on")
    BY DEF Follow, Takes
  <2> HIDE DEF r
  <2>2. Turns(r)
    BY <2>1 DEF Turns, Proper, Turning
  <2>3. (~on => \A D : After(r, D) \subseteq D \ {"follow"}) /\ (on => \A D : After(r, D) \subseteq D \cup {"follow"})
    BY <2>1 DEF After, TurnsOn, TurnsOff
  <2> QED
    BY <2>2, <2>3 DEF r
<1>4. ASSUME NEW x \in {0, 15, 35}, NEW y \in 0..2
      PROVE  /\ Turns(HttpLoad(x, y))
             /\ x # 0 => \A D : After(HttpLoad(x, y), D) \subseteq D \cup {"rate"}
             /\ x = 0 => \A D : After(HttpLoad(x, y), D) \subseteq D \ {"rate"}
  <2> DEFINE r == HttpLoad(x, y)
  <2>1. r.op = "http_load" /\ r.esc = 0 /\ r.part = "open" /\ r.rate = x /\ r.payload = y
        /\ Takes(r, "op") /\ Takes(r, "esc") /\ Takes(r, "part") /\ Takes(r, "rate") /\ Takes(r, "payload")
    BY DEF HttpLoad, Takes
  <2> HIDE DEF r
  <2>2. Turns(r)
    BY <2>1 DEF Turns, Proper, Turning
  <2>3. (x = 0 => \A D : After(r, D) \subseteq D \ {"rate"}) /\ (x # 0 => \A D : After(r, D) \subseteq D \cup {"rate"})
    BY <2>1 DEF After, TurnsOn, TurnsOff
  <2> QED
    BY <2>2, <2>3 DEF r
<1>5. \A c \in Components : /\ Turns(Switch(c, FALSE)) /\ \A D : After(Switch(c, FALSE), D) \subseteq D \cup {c}
                            /\ Turns(Switch(c, TRUE)) /\ \A D : After(Switch(c, TRUE), D) \subseteq D \ {c}
  BY <1>1, Zenon
<1>6. /\ \A x \in {15, 35} : \A y \in 0..2 :
           Turns(HttpLoad(x, y)) /\ \A D : After(HttpLoad(x, y), D) \subseteq D \cup {"rate"}
      /\ Turns(HttpLoad(0, 0)) /\ \A D : After(HttpLoad(0, 0), D) \subseteq D \ {"rate"}
  <2>1. \A x \in {15, 35} : x \in {0, 15, 35} /\ x # 0
    OBVIOUS
  <2>2. 0 \in {0, 15, 35} /\ 0 \in 0..2
    OBVIOUS
  <2> QED
    BY <1>4, <2>1, <2>2, Zenon
<1> QED
  BY <1>2, <1>3, <1>5, <1>6, Zenon

LEMMA TurnMild ==
  ASSUME NEW r, Turns(r), NEW F, After(r, F) \subseteq F
  PROVE  Mild(r, F)
<1>1. r.op # "lease"
  BY DEF Turns, Turning
<1> QED
  BY <1>1, Zenon DEF Mild, Turns

LEMMA TargetNames == "worker" \in Targets /\ "web" \in Targets /\ "consumer" \in Targets /\ "blocked" \in Targets
BY DEF Targets

\* The waits, by the names of the script.
LEMMA WaitCalls ==
  ASSUME NEW F
  PROVE  /\ \A pred \in Conditions : \A t, n : Mild(wait_for(pred, t, n), F)
         /\ \A t, n : Mild(steady(n, t), F)
         /\ \A t : Mild(ready(t), F)
         /\ \A secs, t : Mild(hold(secs, t), F)
<1>1. "steady" \in Conditions /\ "ready" \in Conditions /\ "any" \in Conditions
  BY DEF Conditions
<1>2. \A pred \in Conditions : \A t, n, secs, hpa : Mild(Wait(pred, t, n, secs, hpa), F)
  BY LookCalls, Zenon
<1>3. \A pred \in Conditions : \A t, n, secs, rows : Mild(Hold(secs, pred, t, n, rows), F)
  BY LookCalls, Zenon
<1>4. \A pred \in Conditions : \A t, n : Mild(wait_for(pred, t, n), F)
  BY <1>2, Zenon DEF wait_for
<1>5. \A t, n : Mild(steady(n, t), F)
  BY <1>1, <1>4, Zenon DEF steady
<1>6. \A t : Mild(ready(t), F)
  BY <1>1, <1>2, Zenon DEF ready
<1>7. \A secs, t : Mild(hold(secs, t), F)
  BY <1>1, <1>3, Zenon DEF hold
<1> QED
  BY <1>4, <1>5, <1>6, <1>7, Zenon

LEMMA ResetMild == MildSeq(reset_worker, {})
<1>1. Mild(Apply("worker", HpaQueue), {}) /\ Mild(Gauge(0), {}) /\ Mild(steady(1, "worker"), {})
  <2>1. 0 \in 0..35
    OBVIOUS
  <2> QED
    BY <2>1, TargetNames, SpecsAre, ObjectCalls, WaitCalls, Zenon
<1> QED
  BY <1>1, MildThree, Zenon DEF reset_worker

LEMMA LevelMild ==
  ASSUME NEW q \in 0..35, NEW n
  PROVE  MildSeq(level(q, n), {})
<1>1. Mild(Gauge(q), {}) /\ Mild(steady(n, "worker"), {})
  BY ObjectCalls, WaitCalls, Zenon
<1> QED
  BY <1>1, MildTwo, Zenon DEF level

LEMMA StepsMild == MildSeq(steps, {})
<1>1. 0 \in 0..35 /\ 5 \in 0..35 /\ 15 \in 0..35 /\ 25 \in 0..35 /\ 35 \in 0..35
  OBVIOUS
<1> DEFINE x1 == reset_worker \o level(15, 2)
           x2 == x1 \o level(25, 3)
           x3 == x2 \o level(35, 4)
           x4 == x3 \o level(25, 3)
           x5 == x4 \o level(15, 2)
           x6 == x5 \o level(5, 1)
           x7 == x6 \o level(35, 4)
           y == <<Patch("worker", [window |-> Polls(60)]), Gauge(0), Hold(25, "requested", "worker", 4, "all"),
                  Gauge(35), hold(20, "worker")>>
           x8 == x7 \o y
           x9 == x8 \o level(0, 1)
<1>2. MildSeq(level(15, 2), {}) /\ MildSeq(level(25, 3), {}) /\ MildSeq(level(35, 4), {})
      /\ MildSeq(level(5, 1), {}) /\ MildSeq(level(0, 1), {})
  BY <1>1, LevelMild, Zenon
<1>3. MildSeq(y, {})
  <2>1. [window |-> Polls(60)] \in Edits /\ "requested" \in Conditions
    BY DEF Edits, Conditions
  <2>2. Mild(Patch("worker", [window |-> Polls(60)]), {}) /\ Mild(Gauge(0), {}) /\ Mild(Gauge(35), {})
    BY <1>1, <2>1, TargetNames, ObjectCalls, Zenon
  <2>3. Mild(Hold(25, "requested", "worker", 4, "all"), {}) /\ Mild(hold(20, "worker"), {})
    BY <2>1, LookCalls, WaitCalls, Zenon
  <2> QED
    BY <2>2, <2>3, MildFive, Zenon
<1> HIDE DEF y
<1>4. MildSeq(x1, {})
  BY <1>2, ResetMild, MildJoin, Zenon
<1> HIDE DEF x1
<1>5. MildSeq(x2, {})
  BY <1>2, <1>4, MildJoin, Zenon
<1> HIDE DEF x2
<1>6. MildSeq(x3, {})
  BY <1>2, <1>5, MildJoin, Zenon
<1> HIDE DEF x3
<1>7. MildSeq(x4, {})
  BY <1>2, <1>6, MildJoin, Zenon
<1> HIDE DEF x4
<1>8. MildSeq(x5, {})
  BY <1>2, <1>7, MildJoin, Zenon
<1> HIDE DEF x5
<1>9. MildSeq(x6, {})
  BY <1>2, <1>8, MildJoin, Zenon
<1> HIDE DEF x6
<1>10. MildSeq(x7, {})
  BY <1>2, <1>9, MildJoin, Zenon
<1> HIDE DEF x7
<1>11. MildSeq(x8, {})
  BY <1>3, <1>10, MildJoin, Zenon
<1> HIDE DEF x8
<1>12. MildSeq(x9, {})
  BY <1>2, <1>11, MildJoin, Zenon
<1> QED
  BY <1>12, Zenon DEF steps, x9, x8, x7, x6, x5, x4, x3, x2, x1, y

LEMMA PolicyMild ==
  ASSUME NEW p \in {"pods", "percent"}
  PROVE  MildSeq(policy(p), {})
<1>1. 0 \in 0..35 /\ 35 \in 0..35
  OBVIOUS
<1> DEFINE y == <<Apply("worker", HpaPolicy(p)), hold(35, "worker")>>
           z == <<hold(35, "worker")>>
           x1 == reset_worker \o y
           x2 == x1 \o level(35, 4)
           x3 == x2 \o z
           x4 == x3 \o level(0, 1)
<1>2. MildSeq(level(35, 4), {}) /\ MildSeq(level(0, 1), {})
  BY <1>1, LevelMild, Zenon
<1>3. Mild(Apply("worker", HpaPolicy(p)), {}) /\ Mild(hold(35, "worker"), {})
  BY TargetNames, SpecsAre, ObjectCalls, WaitCalls, Zenon
<1>4. MildSeq(y, {}) /\ MildSeq(z, {})
  BY <1>3, MildTwo, MildOne, Zenon
<1> HIDE DEF y, z
<1>5. MildSeq(x1, {})
  BY <1>4, ResetMild, MildJoin, Zenon
<1> HIDE DEF x1
<1>6. MildSeq(x2, {})
  BY <1>2, <1>5, MildJoin, Zenon
<1> HIDE DEF x2
<1>7. MildSeq(x3, {})
  BY <1>4, <1>6, MildJoin, Zenon
<1> HIDE DEF x3
<1>8. MildSeq(x4, {})
  BY <1>2, <1>7, MildJoin, Zenon
<1> QED
  BY <1>8, Zenon DEF policy, x4, x3, x2, x1, y, z

LEMMA PoliciesMild == MildSeq(policies, {})
<1>1. MildSeq(policy("pods"), {}) /\ MildSeq(policy("percent"), {})
  BY PolicyMild
<1> QED
  BY <1>1, MildJoin, Zenon DEF policies

LEMMA SchedulingMild == MildSeq(scheduling, {})
<1> DEFINE y == <<Gauge(35), Deploy(1), CopyHpa("blocked"),
                  wait_for("pending", "blocked", 4),
                  DropHpa("blocked", TRUE), Deploy(0),
                  DropHpa("web", FALSE), ScaleTo("web", 1), Slow(TRUE), ready("web"),
                  CopyHpa("web"), wait_for("partial", "web", 4), steady(4, "web"),
                  Gauge(0), steady(1, "web"),
                  DropHpa("web", TRUE), Slow(FALSE), ready("web")>>
<1>1. 0 \in 0..35 /\ 35 \in 0..35 /\ 0 \in 0..MaxReplicas /\ 1 \in 0..MaxReplicas
  BY DEF MaxReplicas
<1>2. "pending" \in Conditions /\ "partial" \in Conditions /\ TRUE \in BOOLEAN /\ FALSE \in BOOLEAN
  BY DEF Conditions
<1>3. Mild(Gauge(35), {}) /\ Mild(Deploy(1), {}) /\ Mild(CopyHpa("blocked"), {}) /\ Mild(DropHpa("blocked", TRUE), {})
  BY <1>1, TargetNames, ObjectCalls, Zenon
<1>4. Mild(Deploy(0), {}) /\ Mild(DropHpa("web", FALSE), {}) /\ Mild(ScaleTo("web", 1), {}) /\ Mild(Slow(TRUE), {})
  BY <1>1, <1>2, TargetNames, ObjectCalls, Zenon
<1>5. Mild(CopyHpa("web"), {}) /\ Mild(Gauge(0), {}) /\ Mild(DropHpa("web", TRUE), {}) /\ Mild(Slow(FALSE), {})
  BY <1>1, <1>2, TargetNames, ObjectCalls, Zenon
<1>6. Mild(wait_for("pending", "blocked", 4), {}) /\ Mild(ready("web"), {}) /\ Mild(wait_for("partial", "web", 4), {})
      /\ Mild(steady(4, "web"), {}) /\ Mild(steady(1, "web"), {})
  BY <1>2, WaitCalls, Zenon
<1>7. MildSeq(y, {})
  BY <1>3, <1>4, <1>5, <1>6, MildEighteen, Zenon
<1> HIDE DEF y
<1>8. MildSeq(reset_worker \o y, {})
  BY <1>7, ResetMild, MildJoin, Zenon
<1> QED
  BY <1>8, Zenon DEF scheduling, y

\* Restore switches the component on again.
LEMMA RestoreLeads ==
  ASSUME NEW c \in Components
  PROVE  Leads(Restore(c), {c}, {}, TRUE)
<1>1. Turns(Switch(c, TRUE)) /\ After(Switch(c, TRUE), {c}) \subseteq {c} \ {c}
  BY TurnCalls, Zenon
<1>2. After(Switch(c, TRUE), {c}) \subseteq {}
  BY <1>1
<1>3. Leads(<<Switch(c, TRUE)>>, {c}, {}, TRUE)
  BY <1>1, <1>2, ThingNames, TurnLeads, Zenon
<1>4. Mild(ready(c), {})
  BY WaitCalls, Zenon
<1>5. Leads(<<ready(c)>>, {}, {}, TRUE)
  BY <1>4, MildOne, LeadsMild, Zenon
<1>6. Leads(<<Switch(c, TRUE)>> \o <<ready(c)>>, {c}, {}, TRUE)
  BY <1>3, <1>5, LeadsJoin, Zenon
<1>7. <<Switch(c, TRUE)>> \o <<ready(c)>> = <<Switch(c, TRUE), ready(c)>>
  BY Tupled, Zenon
<1> QED
  BY <1>6, <1>7 DEF Restore

\* A call that turns c off, and the try block that turns it on again.
LEMMA SwitchedOff ==
  ASSUME NEW c \in Components
  PROVE  Leads(<<Switch(c, FALSE)>>, {}, {c}, TRUE)
<1>1. Turns(Switch(c, FALSE)) /\ After(Switch(c, FALSE), {}) \subseteq {} \cup {c}
  BY TurnCalls, Zenon
<1>2. After(Switch(c, FALSE), {}) \subseteq {c}
  BY <1>1
<1> QED
  BY <1>1, <1>2, ThingNames, TurnLeads, Zenon

LEMMA OutageLeads ==
  ASSUME NEW c \in Components
  PROVE  Leads(outage(c), {}, {}, FALSE)
<1> DEFINE b == <<hold(40, "worker"), Hold(5, "held", "worker", 4, "all")>>
           a == <<Switch(c, FALSE)>>
           t == Try(b, Restore(c))
<1>1. Leads(a, {}, {c}, FALSE)
  BY SwitchedOff, LeadsFlat, Zenon
<1>2. "held" \in Conditions /\ 35 \in 0..35
  BY DEF Conditions
<1>3. Mild(hold(40, "worker"), {c}) /\ Mild(Hold(5, "held", "worker", 4, "all"), {c})
  BY <1>2, WaitCalls, LookCalls, Zenon
<1>4. MildSeq(b, {c})
  BY <1>3, MildTwo, Zenon
<1> HIDE DEF b, a
<1>5. Leads(t, {c}, {}, FALSE)
  BY <1>4, ThingNames, RestoreLeads, LeadsTry, Zenon
<1> HIDE DEF t
<1>6. Leads(a \o t, {}, {}, FALSE)
  BY <1>1, <1>5, LeadsJoin, Zenon
<1>7. Leads(level(35, 4), {}, {}, FALSE)
  BY <1>2, LevelMild, MildFlat, Zenon
<1>8. Leads(a \o t \o level(35, 4), {}, {}, FALSE)
  BY <1>6, <1>7, LeadsJoin, Zenon
<1> QED
  BY <1>8 DEF outage, a, b, t

LEMMA FailuresLead == Leads(failures, {}, {}, FALSE)
<1>1. 0 \in 0..35 /\ 35 \in 0..35 /\ "queue" \in Components /\ "prometheus" \in Components /\ "adapter" \in Components
  BY DEF Components
<1> DEFINE x1 == reset_worker \o level(35, 4)
           x2 == x1 \o outage("queue")
           x3 == x2 \o outage("prometheus")
           x4 == x3 \o outage("adapter")
           x5 == x4 \o level(0, 1)
<1>2. Leads(level(35, 4), {}, {}, FALSE) /\ Leads(level(0, 1), {}, {}, FALSE)
  BY <1>1, LevelMild, MildFlat, Zenon
<1>3. Leads(reset_worker, {}, {}, FALSE)
  BY ResetMild, MildFlat, Zenon
<1>4. Leads(outage("queue"), {}, {}, FALSE) /\ Leads(outage("prometheus"), {}, {}, FALSE) /\ Leads(outage("adapter"), {}, {}, FALSE)
  BY <1>1, OutageLeads, Zenon
<1>5. Leads(x1, {}, {}, FALSE)
  BY <1>2, <1>3, LeadsJoin, Zenon
<1> HIDE DEF x1
<1>6. Leads(x2, {}, {}, FALSE)
  BY <1>4, <1>5, LeadsJoin, Zenon
<1> HIDE DEF x2
<1>7. Leads(x3, {}, {}, FALSE)
  BY <1>4, <1>6, LeadsJoin, Zenon
<1> HIDE DEF x3
<1>8. Leads(x4, {}, {}, FALSE)
  BY <1>4, <1>7, LeadsJoin, Zenon
<1> HIDE DEF x4
<1>9. Leads(x5, {}, {}, FALSE)
  BY <1>2, <1>8, LeadsJoin, Zenon
<1> QED
  BY <1>9, Zenon DEF failures, x1, x2, x3, x4, x5

LEMMA LoadTurns ==
  /\ Turns(Load(TRUE)) /\ After(Load(TRUE), {}) \subseteq {"load"} /\ Mild(Load(TRUE), {"adapter", "load"})
  /\ Leads(<<Load(FALSE)>>, {"load"}, {}, TRUE) /\ Leads(<<Load(FALSE)>>, {"adapter", "load"}, {"adapter"}, TRUE)
<1>1. Turns(Load(TRUE)) /\ \A D : After(Load(TRUE), D) \subseteq D \cup {"load"}
  BY TurnCalls, Zenon
<1>2. Turns(Load(FALSE)) /\ \A D : After(Load(FALSE), D) \subseteq D \ {"load"}
  BY TurnCalls, Zenon
<1>3. After(Load(TRUE), {}) \subseteq {"load"} /\ After(Load(TRUE), {"adapter", "load"}) \subseteq {"adapter", "load"}
  <2>1. After(Load(TRUE), {}) \subseteq {} \cup {"load"}
    BY <1>1
  <2>2. After(Load(TRUE), {"adapter", "load"}) \subseteq {"adapter", "load"} \cup {"load"}
    BY <1>1
  <2> QED
    BY <2>1, <2>2
<1>4. After(Load(FALSE), {"load"}) \subseteq {} /\ After(Load(FALSE), {"adapter", "load"}) \subseteq {"adapter"}
  <2>1. After(Load(FALSE), {"load"}) \subseteq {"load"} \ {"load"}
    BY <1>2
  <2>2. After(Load(FALSE), {"adapter", "load"}) \subseteq {"adapter", "load"} \ {"load"}
    BY <1>2
  <2> QED
    BY <2>1, <2>2
<1>5. Mild(Load(TRUE), {"adapter", "load"})
  BY <1>1, <1>3, TurnMild
<1>6. Leads(<<Load(FALSE)>>, {"load"}, {}, TRUE)
  BY <1>2, <1>4, ThingNames, TurnLeads, Zenon
<1>7. Leads(<<Load(FALSE)>>, {"adapter", "load"}, {"adapter"}, TRUE)
  <2>1. {"adapter"} \subseteq Things /\ {"adapter", "load"} \subseteq Things
    BY ThingNames, Zenon
  <2> QED
    BY <1>2, <1>4, <2>1, TurnLeads, Zenon
<1> QED
  BY <1>1, <1>3, <1>5, <1>6, <1>7

LEMMA MultiLeads == Leads(multi, {}, {}, FALSE)
<1> DEFINE y1 == <<Apply("worker", HpaMulti)>>
           y2 == <<hold(25, "worker"), Gauge(0), Switch("adapter", FALSE)>>
           b1 == <<wait_for("inactive", "worker", 0), Hold(45, "requested", "worker", 4, "all")>>
           t1 == Try(b1, Restore("adapter"))
           y3 == <<steady(1, "worker"), Switch("adapter", FALSE)>>
           b2 == <<Load(TRUE), steady(4, "worker"), Check("no_metric", "worker", 0)>>
           f2 == <<Load(FALSE)>> \o Restore("adapter")
           t2 == Try(b2, f2)
           y4 == <<Load(TRUE)>>
           b3 == <<steady(4, "worker")>>
           f3 == <<Load(FALSE)>>
           t3 == Try(b3, f3)
           y5 == <<steady(1, "worker")>>
<1>1. 0 \in 0..35 /\ 35 \in 0..35 /\ "adapter" \in Components /\ "inactive" \in Conditions /\ "requested" \in Conditions
      /\ "no_metric" \in Conditions
  BY DEF Components, Conditions
<1>2. Leads(level(35, 4), {}, {}, FALSE) /\ Leads(level(0, 1), {}, {}, FALSE) /\ Leads(reset_worker, {}, {}, FALSE)
  BY <1>1, LevelMild, ResetMild, MildFlat, Zenon
<1>3. Leads(y1, {}, {}, FALSE)
  <2>1. Mild(Apply("worker", HpaMulti), {})
    BY TargetNames, SpecsAre, ObjectCalls, Zenon
  <2> QED
    BY <2>1, MildOne, MildFlat, Zenon
<1>4. Leads(y2, {}, {"adapter"}, FALSE)
  <2>1. Mild(hold(25, "worker"), {}) /\ Mild(Gauge(0), {})
    BY <1>1, WaitCalls, ObjectCalls, Zenon
  <2>2. Leads(<<hold(25, "worker"), Gauge(0)>>, {}, {}, TRUE)
    BY <2>1, MildTwo, LeadsMild, Zenon
  <2>3. Leads(<<hold(25, "worker"), Gauge(0)>> \o <<Switch("adapter", FALSE)>>, {}, {"adapter"}, TRUE)
    BY <1>1, <2>2, SwitchedOff, LeadsJoin, Zenon
  <2>4. <<hold(25, "worker"), Gauge(0)>> \o <<Switch("adapter", FALSE)>> = y2
    BY Tupled, Zenon
  <2> QED
    BY <2>3, <2>4, LeadsFlat
<1>5. Leads(t1, {"adapter"}, {}, FALSE)
  <2>1. Mild(wait_for("inactive", "worker", 0), {"adapter"}) /\ Mild(Hold(45, "requested", "worker", 4, "all"), {"adapter"})
    BY <1>1, WaitCalls, LookCalls, Zenon
  <2>2. MildSeq(b1, {"adapter"})
    BY <2>1, MildTwo, Zenon
  <2> QED
    BY <1>1, <2>2, ThingNames, RestoreLeads, LeadsTry, Zenon
<1>6. Leads(y3, {}, {"adapter", "load"}, FALSE)
  <2>1. Mild(steady(1, "worker"), {})
    BY WaitCalls, Zenon
  <2>2. Leads(<<steady(1, "worker")>>, {}, {}, TRUE)
    BY <2>1, MildOne, LeadsMild, Zenon
  <2>3. Turns(Switch("adapter", FALSE)) /\ After(Switch("adapter", FALSE), {}) \subseteq {} \cup {"adapter"}
    BY <1>1, TurnCalls, Zenon
  <2>4. After(Switch("adapter", FALSE), {}) \subseteq {"adapter", "load"}
    BY <2>3
  <2>5. Leads(<<Switch("adapter", FALSE)>>, {}, {"adapter", "load"}, TRUE)
    BY <2>3, <2>4, ThingNames, TurnLeads, Zenon
  <2>6. Leads(<<steady(1, "worker")>> \o <<Switch("adapter", FALSE)>>, {}, {"adapter", "load"}, TRUE)
    BY <2>2, <2>5, LeadsJoin, Zenon
  <2>7. <<steady(1, "worker")>> \o <<Switch("adapter", FALSE)>> = y3
    BY Tupled, Zenon
  <2> QED
    BY <2>6, <2>7, LeadsFlat
<1>7. Leads(t2, {"adapter", "load"}, {}, FALSE)
  <2>1. Mild(steady(4, "worker"), {"adapter", "load"}) /\ Mild(Check("no_metric", "worker", 0), {"adapter", "load"})
    BY <1>1, WaitCalls, LookCalls, Zenon
  <2>2. MildSeq(b2, {"adapter", "load"})
    BY <2>1, LoadTurns, MildThree, Zenon
  <2>3. Leads(f2, {"adapter", "load"}, {}, TRUE)
    BY <1>1, LoadTurns, RestoreLeads, LeadsJoin, Zenon
  <2> HIDE DEF f2, b2
  <2> QED
    BY <2>2, <2>3, ThingNames, LeadsTry, Zenon
<1>8. Leads(y4, {}, {"load"}, FALSE)
  BY LoadTurns, ThingNames, TurnLeads, LeadsFlat, Zenon
<1>9. Leads(t3, {"load"}, {}, FALSE)
  <2>1. Mild(steady(4, "worker"), {"load"})
    BY WaitCalls, Zenon
  <2>2. MildSeq(b3, {"load"})
    BY <2>1, MildOne, Zenon
  <2> QED
    BY <2>2, LoadTurns, ThingNames, LeadsTry, Zenon
<1>10. Leads(y5, {}, {}, FALSE)
  <2>1. Mild(steady(1, "worker"), {})
    BY WaitCalls, Zenon
  <2> QED
    BY <2>1, MildOne, MildFlat, Zenon
<1> HIDE DEF y1, y2, t1, y3, t2, y4, t3, y5
<1> DEFINE x1 == reset_worker \o y1
           x2 == x1 \o level(35, 4)
           x3 == x2 \o y2
           x4 == x3 \o t1
           x5 == x4 \o y3
           x6 == x5 \o t2
           x7 == x6 \o level(0, 1)
           x8 == x7 \o y4
           x9 == x8 \o t3
           x10 == x9 \o y5
<1>11. Leads(x1, {}, {}, FALSE)
  BY <1>2, <1>3, LeadsJoin, Zenon
<1> HIDE DEF x1
<1>12. Leads(x2, {}, {}, FALSE)
  BY <1>2, <1>11, LeadsJoin, Zenon
<1> HIDE DEF x2
<1>13. Leads(x3, {}, {"adapter"}, FALSE)
  BY <1>4, <1>12, LeadsJoin, Zenon
<1> HIDE DEF x3
<1>14. Leads(x4, {}, {}, FALSE)
  BY <1>5, <1>13, LeadsJoin, Zenon
<1> HIDE DEF x4
<1>15. Leads(x5, {}, {"adapter", "load"}, FALSE)
  BY <1>6, <1>14, LeadsJoin, Zenon
<1> HIDE DEF x5
<1>16. Leads(x6, {}, {}, FALSE)
  BY <1>7, <1>15, LeadsJoin, Zenon
<1> HIDE DEF x6
<1>17. Leads(x7, {}, {}, FALSE)
  BY <1>2, <1>16, LeadsJoin, Zenon
<1> HIDE DEF x7
<1>18. Leads(x8, {}, {"load"}, FALSE)
  BY <1>8, <1>17, LeadsJoin, Zenon
<1> HIDE DEF x8
<1>19. Leads(x9, {}, {}, FALSE)
  BY <1>9, <1>18, LeadsJoin, Zenon
<1> HIDE DEF x9
<1>20. Leads(x10, {}, {}, FALSE)
  BY <1>10, <1>19, LeadsJoin, Zenon
<1> QED
  BY <1>20, Zenon DEF multi, x1, x2, x3, x4, x5, x6, x7, x8, x9, x10, y1, y2, t1, b1, y3, t2, b2, f2, y4, t3, b3, f3, y5

LEMMA RateTurns ==
  /\ \A x \in {15, 35} : \A y \in 0..2 : /\ Turns(HttpLoad(x, y)) /\ After(HttpLoad(x, y), {}) \subseteq {"rate"}
                                         /\ Mild(HttpLoad(x, y), {"rate"})
  /\ Leads(<<HttpLoad(0, 0)>>, {"rate"}, {}, TRUE) /\ Mild(HttpLoad(0, 0), {})
<1>1. ASSUME NEW x \in {15, 35}, NEW y \in 0..2
      PROVE  Turns(HttpLoad(x, y)) /\ After(HttpLoad(x, y), {}) \subseteq {"rate"} /\ Mild(HttpLoad(x, y), {"rate"})
  <2>1. Turns(HttpLoad(x, y)) /\ \A D : After(HttpLoad(x, y), D) \subseteq D \cup {"rate"}
    BY TurnCalls, Zenon
  <2>2. After(HttpLoad(x, y), {}) \subseteq {} \cup {"rate"} /\ After(HttpLoad(x, y), {"rate"}) \subseteq {"rate"} \cup {"rate"}
    BY <2>1, Zenon
  <2>3. After(HttpLoad(x, y), {}) \subseteq {"rate"} /\ After(HttpLoad(x, y), {"rate"}) \subseteq {"rate"}
    BY <2>2
  <2> QED
    BY <2>1, <2>3, TurnMild, Zenon
<1>2. Turns(HttpLoad(0, 0)) /\ \A D : After(HttpLoad(0, 0), D) \subseteq D \ {"rate"}
  BY TurnCalls, Zenon
<1>3. After(HttpLoad(0, 0), {}) \subseteq {} \ {"rate"} /\ After(HttpLoad(0, 0), {"rate"}) \subseteq {"rate"} \ {"rate"}
  BY <1>2, Zenon
<1>4. After(HttpLoad(0, 0), {}) \subseteq {} /\ After(HttpLoad(0, 0), {"rate"}) \subseteq {}
  BY <1>3
<1>5. Leads(<<HttpLoad(0, 0)>>, {"rate"}, {}, TRUE)
  BY <1>2, <1>4, ThingNames, TurnLeads, Zenon
<1>6. Mild(HttpLoad(0, 0), {})
  BY <1>2, <1>4, TurnMild, Zenon
<1> QED
  BY <1>1, <1>5, <1>6, Zenon

LEMMA PodsLead == Leads(pods, {}, {}, FALSE)
<1> DEFINE y == <<Apply("web", HpaPods), steady(1, "web"), HttpLoad(35, 0)>>
           b == <<wait_for("atleast", "web", 3), Hold(60, "full", "web", 4, "last")>>
           f == <<HttpLoad(0, 0)>>
           t == Try(b, f)
           z == <<steady(1, "web")>>
<1>1. "atleast" \in Conditions /\ "full" \in Conditions /\ 35 \in {15, 35} /\ 0 \in 0..2
  BY DEF Conditions
<1>2. Mild(Apply("web", HpaPods), {}) /\ Mild(steady(1, "web"), {})
  BY TargetNames, SpecsAre, ObjectCalls, WaitCalls, Zenon
<1>3. Leads(y, {}, {"rate"}, FALSE)
  <2>1. MildSeq(<<Apply("web", HpaPods), steady(1, "web")>>, {})
    BY <1>2, MildTwo, Zenon
  <2>2. Turns(HttpLoad(35, 0)) /\ After(HttpLoad(35, 0), {}) \subseteq {"rate"}
    BY <1>1, RateTurns, Zenon
  <2>3. Leads(<<Apply("web", HpaPods), steady(1, "web")>> \o <<HttpLoad(35, 0)>>, {}, {"rate"}, TRUE)
    BY <2>1, <2>2, ThingNames, LeadsTurn, Zenon
  <2>4. <<Apply("web", HpaPods), steady(1, "web")>> \o <<HttpLoad(35, 0)>> = y
    BY Tupled, Zenon
  <2> QED
    BY <2>3, <2>4, LeadsFlat
<1>4. Leads(t, {"rate"}, {}, FALSE)
  <2>1. Mild(wait_for("atleast", "web", 3), {"rate"}) /\ Mild(Hold(60, "full", "web", 4, "last"), {"rate"})
    BY <1>1, WaitCalls, LookCalls, Zenon
  <2>2. MildSeq(b, {"rate"})
    BY <2>1, MildTwo, Zenon
  <2> QED
    BY <2>2, RateTurns, ThingNames, LeadsTry, Zenon
<1>5. Leads(z, {}, {}, FALSE)
  BY <1>2, MildOne, MildFlat, Zenon
<1> HIDE DEF y, t, z
<1>6. Leads(y \o t, {}, {}, FALSE)
  BY <1>3, <1>4, LeadsJoin, Zenon
<1>7. Leads(y \o t \o z, {}, {}, FALSE)
  BY <1>5, <1>6, LeadsJoin, Zenon
<1> QED
  BY <1>7, Zenon DEF pods, y, t, b, f, z

LEMMA ThroughputMild ==
  ASSUME NEW rate \in {15, 35}, NEW payload \in 0..2, NEW n
  PROVE  MildSeq(throughput(rate, payload, n), {"rate"})
<1>1. "full" \in Conditions /\ "throughput" \in Conditions
  BY DEF Conditions
<1>2. Mild(HttpLoad(rate, payload), {"rate"})
  BY RateTurns, Zenon
<1>3. Mild(steady(n, "web"), {"rate"}) /\ Mild(Hold(45, "full", "web", n, "all"), {"rate"})
      /\ Mild(Check("throughput", "web", rate), {"rate"})
  BY <1>1, WaitCalls, LookCalls, Zenon
<1> QED
  BY <1>2, <1>3, MildFour, Zenon DEF throughput

LEMMA ThroughputLeads ==
  ASSUME NEW spec \in Specs, NEW r \in {15, 35}, NEW p \in 0..2, NEW q \in {15, 35}, NEW l \in 0..2
  PROVE  Leads(application_throughput(spec, <<r, p>>, <<q, l>>), {}, {}, FALSE)
<1> DEFINE y == <<HttpLoad(0, 0), Apply("web", spec), steady(1, "web")>>
           b == throughput(r, p, 4) \o throughput(q, l, 2)
           f == <<HttpLoad(0, 0)>>
           t == Try(b, f)
           z == <<steady(1, "web"), Check("throughput", "web", 0)>>
<1>1. "throughput" \in Conditions
  BY DEF Conditions
<1>2. Mild(Apply("web", spec), {}) /\ Mild(steady(1, "web"), {}) /\ Mild(Check("throughput", "web", 0), {})
  BY <1>1, TargetNames, ObjectCalls, WaitCalls, LookCalls, Zenon
<1>3. Leads(y, {}, {"rate"}, FALSE)
  <2>1. MildSeq(y, {})
    BY <1>2, RateTurns, MildThree, Zenon
  <2>2. y # <<>>
    OBVIOUS
  <2> HIDE DEF y
  <2> QED
    BY <2>1, <2>2, ThingNames, LeadsUp, LeadsFlat, Zenon
<1>4. Leads(t, {"rate"}, {}, FALSE)
  <2>1. MildSeq(throughput(r, p, 4), {"rate"}) /\ MildSeq(throughput(q, l, 2), {"rate"})
    BY ThroughputMild, Zenon
  <2>2. MildSeq(b, {"rate"})
    BY <2>1, MildJoin, Zenon
  <2> HIDE DEF b
  <2> QED
    BY <2>2, RateTurns, ThingNames, LeadsTry, Zenon
<1>5. Leads(z, {}, {}, FALSE)
  BY <1>2, MildTwo, MildFlat, Zenon
<1> HIDE DEF y, t, z
<1>6. Leads(y \o t, {}, {}, FALSE)
  BY <1>3, <1>4, LeadsJoin, Zenon
<1>7. Leads(y \o t \o z, {}, {}, FALSE)
  BY <1>5, <1>6, LeadsJoin, Zenon
<1> QED
  <2> DEFINE u == <<r, p>>
             v == <<q, l>>
  <2>1. u[1] = r /\ u[2] = p /\ v[1] = q /\ v[2] = l
    OBVIOUS
  <2> HIDE DEF u, v
  <2>2. application_throughput(spec, u, v) = y \o t \o z
    BY <2>1, Zenon DEF application_throughput, y, t, b, f, z
  <2> QED
    BY <1>7, <2>2, Zenon DEF u, v

LEMMA RequestsLead == Leads(requests, {}, {}, FALSE) /\ Leads(bandwidth, {}, {}, FALSE)
<1>1. 35 \in {15, 35} /\ 15 \in {15, 35} /\ 0 \in 0..2 /\ 1 \in 0..2 /\ 2 \in 0..2
  OBVIOUS
<1>2. HpaPods \in Specs /\ HpaBytes \in Specs
  BY SpecsAre, Zenon
<1>3. Leads(application_throughput(HpaPods, <<35, 0>>, <<15, 0>>), {}, {}, FALSE)
  BY <1>1, <1>2, ThroughputLeads, Zenon
<1>4. Leads(application_throughput(HpaBytes, <<35, 2>>, <<35, 1>>), {}, {}, FALSE)
  BY <1>1, <1>2, ThroughputLeads, Zenon
<1> QED
  BY <1>3, <1>4, Zenon DEF requests, bandwidth

LEMMA RealLeads == Leads(real, {}, {}, FALSE)
<1> DEFINE y == <<DropHpa("consumer", FALSE), ScaleTo("consumer", 1), ready("consumer"),
                  Check("fresh", "consumer", 0), Enqueue(16, FALSE),
                  Wait("drained", "consumer", 0, 180, FALSE),
                  Apply("consumer", HpaConsumer), steady(1, "consumer"), Enqueue(16, FALSE),
                  wait_for("more", "consumer", 1), wait_for("drained", "consumer", 0),
                  steady(1, "consumer"), Produce(60), wait_for("drained", "consumer", 0),
                  steady(1, "consumer"), Patch("consumer", [min |-> 4]), steady(4, "consumer")>>
           b == <<Follow(TRUE), Enqueue(0, TRUE), wait_for("inflight", "consumer", 0),
                  Patch("consumer", [min |-> 1, window |-> 0]),
                  wait_for("draining", "consumer", 1), wait_for("drained", "consumer", 0),
                  steady(1, "consumer")>>
           f == <<Follow(FALSE)>>
           t == Try(b, f)
           z == <<Check("audit", "consumer", 0)>>
<1>1. /\ "fresh" \in Conditions /\ "drained" \in Conditions /\ "more" \in Conditions /\ "inflight" \in Conditions
      /\ "draining" \in Conditions /\ "audit" \in Conditions
  BY DEF Conditions
<1>2. 1 \in 0..MaxReplicas /\ 16 \in Nat /\ 0 \in Nat /\ [min |-> 4] \in Edits /\ [min |-> 1, window |-> 0] \in Edits
  BY DEF MaxReplicas, Edits
<1>3. Leads(y, {}, {"follow"}, FALSE)
  <2>1. Mild(DropHpa("consumer", FALSE), {}) /\ Mild(ScaleTo("consumer", 1), {}) /\ Mild(Enqueue(16, FALSE), {})
    BY <1>2, TargetNames, ObjectCalls, Zenon
  <2>2. Mild(Apply("consumer", HpaConsumer), {}) /\ Mild(Patch("consumer", [min |-> 4]), {})
    BY <1>2, TargetNames, SpecsAre, ObjectCalls, Zenon
  <2>3. Mild(ready("consumer"), {}) /\ Mild(steady(1, "consumer"), {}) /\ Mild(steady(4, "consumer"), {})
    BY WaitCalls, Zenon
  <2>4. Mild(Check("fresh", "consumer", 0), {}) /\ Mild(Wait("drained", "consumer", 0, 180, FALSE), {}) /\ Mild(Produce(60), {})
    BY <1>1, LookCalls, Zenon
  <2>5. Mild(wait_for("more", "consumer", 1), {}) /\ Mild(wait_for("drained", "consumer", 0), {})
    BY <1>1, WaitCalls, Zenon
  <2>6. MildSeq(y, {})
    BY <2>1, <2>2, <2>3, <2>4, <2>5, MildSeventeen, Zenon
  <2>7. y # <<>>
    OBVIOUS
  <2> HIDE DEF y
  <2> QED
    BY <2>6, <2>7, ThingNames, LeadsUp, LeadsFlat, Zenon
<1>4. Leads(t, {"follow"}, {}, FALSE)
  <2>1. Turns(Follow(TRUE)) /\ After(Follow(TRUE), {"follow"}) \subseteq {"follow"} \cup {"follow"}
    BY TurnCalls, Zenon
  <2>2. After(Follow(TRUE), {"follow"}) \subseteq {"follow"}
    BY <2>1
  <2>3. Mild(Follow(TRUE), {"follow"})
    BY <2>1, <2>2, TurnMild, Zenon
  <2>4. Mild(Enqueue(0, TRUE), {"follow"}) /\ Mild(Patch("consumer", [min |-> 1, window |-> 0]), {"follow"})
    BY <1>2, TargetNames, ObjectCalls, Zenon
  <2>5. /\ Mild(wait_for("inflight", "consumer", 0), {"follow"}) /\ Mild(wait_for("draining", "consumer", 1), {"follow"})
        /\ Mild(wait_for("drained", "consumer", 0), {"follow"}) /\ Mild(steady(1, "consumer"), {"follow"})
    BY <1>1, WaitCalls, Zenon
  <2>6. MildSeq(b, {"follow"})
    BY <2>3, <2>4, <2>5, MildSeven, Zenon
  <2>7. Turns(Follow(FALSE)) /\ After(Follow(FALSE), {"follow"}) \subseteq {"follow"} \ {"follow"}
    BY TurnCalls, Zenon
  <2>8. After(Follow(FALSE), {"follow"}) \subseteq {}
    BY <2>7
  <2>9. Leads(f, {"follow"}, {}, TRUE)
    BY <2>7, <2>8, ThingNames, TurnLeads, Zenon
  <2> HIDE DEF b, f
  <2> QED
    BY <2>6, <2>9, ThingNames, LeadsTry, Zenon
<1>5. Leads(z, {}, {}, FALSE)
  <2>1. Mild(Check("audit", "consumer", 0), {})
    BY <1>1, LookCalls, Zenon
  <2> QED
    BY <2>1, MildOne, MildFlat, Zenon
<1> HIDE DEF y, t, z
<1>6. Leads(y \o t, {}, {}, FALSE)
  BY <1>3, <1>4, LeadsJoin, Zenon
<1>7. Leads(y \o t \o z, {}, {}, FALSE)
  BY <1>5, <1>6, LeadsJoin, Zenon
<1> QED
  BY <1>7, Zenon DEF real, y, t, b, f, z

\* Every scenario of the HPA experiment.
LEMMA ProgramIsTidy ==
  ASSUME NEW c \in CaseNames
  PROVE  \E n, D : Tidy(Program(c), n, D)
<1> DEFINE Lead(q) == Leads(q, {}, {}, FALSE)
<1>1. Lead(steps) /\ Lead(policies) /\ Lead(scheduling)
  BY StepsMild, PoliciesMild, SchedulingMild, MildFlat, Zenon
<1>2. Lead(real) /\ Lead(multi) /\ Lead(failures) /\ Lead(pods) /\ Lead(requests) /\ Lead(bandwidth)
  BY RealLeads, MultiLeads, FailuresLead, PodsLead, RequestsLead, Zenon
<1> HIDE DEF Lead
<1>3. \E q : Lead(q) /\ Program(c) = Main(q)
  <2>1. CASE c = "steps"
    BY <1>1, <2>1 DEF Program
  <2>2. CASE c = "policies"
    BY <1>1, <2>2 DEF Program
  <2>3. CASE c = "real"
    BY <1>2, <2>3 DEF Program
  <2>4. CASE c = "multi"
    BY <1>2, <2>4 DEF Program
  <2>5. CASE c = "failures"
    BY <1>2, <2>5 DEF Program
  <2>6. CASE c = "scheduling"
    BY <1>1, <2>6 DEF Program
  <2>7. CASE c = "pods"
    BY <1>2, <2>7 DEF Program
  <2>8. CASE c = "requests"
    BY <1>2, <2>8 DEF Program
  <2>9. CASE c = "bandwidth"
    BY <1>2, <2>9 DEF Program
  <2> QED
    BY <2>1, <2>2, <2>3, <2>4, <2>5, <2>6, <2>7, <2>8, <2>9 DEF CaseNames
<1>4. PICK q : Lead(q) /\ Program(c) = Main(q)
  BY <1>3
<1> QED
  BY <1>4, MainTidy, Zenon DEF Lead

----------------------------------------------------------------------------
(* The cluster of the HPA experiment.                                      *)

Counted == [Targets -> 0..MaxReplicas]

HpaWorlds ==
  [hpa : [Targets -> Specs], rep : Counted, rdy : Counted, desired : Counted,
   active : [Targets -> BOOLEAN], age : [Targets -> 0..Longest], up : [Components -> BOOLEAN],
   since : 0..SyncPolls, gauge : 0..35, load : BOOLEAN, rate : {0, 15, 35}, payload : 0..2,
   slow : BOOLEAN, warm : 0..Longest, work : Nat, busy : 0..Longest,
   accepted : SUBSET (1..MaxRuns), follow : BOOLEAN]

\* What is on.
HpaLeft(v) ==
  {x \in Things : \/ x \in Components /\ ~v.up[x]
                  \/ x = "load" /\ v.load
                  \/ x = "rate" /\ v.rate # 0
                  \/ x = "follow" /\ v.follow}

\* The call may turn the world into new.
HpaMay(s, new) == new \in HpaWorlds /\ HpaLeft(new) \subseteq After(s, HpaLeft(w))

LEMMA LongestIs == Longest \in Nat /\ Longest = 12
BY DEF Longest, Polls

LEMMA SameLeft ==
  ASSUME NEW v, NEW u, v.up = u.up, v.load = u.load, v.rate = u.rate, v.follow = u.follow
  PROVE  HpaLeft(v) = HpaLeft(u)
BY DEF HpaLeft

LEMMA QuietMay ==
  ASSUME NEW s, s.op \notin Turning, NEW new \in HpaWorlds, w.up = new.up, w.load = new.load, w.rate = new.rate,
         w.follow = new.follow
  PROVE  HpaMay(s, new)
<1>1. HpaLeft(new) = HpaLeft(w)
  BY SameLeft
<1>2. HpaLeft(w) \subseteq Things
  BY DEF HpaLeft
<1>3. After(s, HpaLeft(w)) = HpaLeft(w)
  BY <1>2, QuietAfter
<1> QED
  BY <1>1, <1>3 DEF HpaMay

LEMMA SpecEdited ==
  ASSUME NEW h \in Specs, NEW e \in Edits
  PROVE  [f \in DOMAIN h |-> IF f \in DOMAIN e THEN e[f] ELSE h[f]] \in Specs
<1> DEFINE r == [f \in DOMAIN h |-> IF f \in DOMAIN e THEN e[f] ELSE h[f]]
<1>1. DOMAIN h = {"metrics", "window", "policy", "min"} /\ h \in Specs
  BY DEF Specs
<1>2. h.metrics \in SUBSET {"queue", "tasks", "rps", "bytes", "cpu"} /\ h.window \in 0..Longest
      /\ h.policy \in {"none", "pods", "percent"} /\ h.min \in 0..MaxReplicas
  BY DEF Specs
<1>3. /\ DOMAIN e \subseteq {"window", "min"}
      /\ "window" \in DOMAIN e => e.window \in 0..Longest
      /\ "min" \in DOMAIN e => e.min \in 0..MaxReplicas
  <2>1. Polls(60) \in 0..Longest /\ 0 \in 0..Longest /\ 1 \in 0..MaxReplicas /\ 4 \in 0..MaxReplicas
    BY LongestIs DEF Polls, Longest, MaxReplicas
  <2>2. CASE e = [window |-> Polls(60)]
    BY <2>1, <2>2
  <2>3. CASE e = [min |-> 4]
    BY <2>1, <2>3
  <2>4. CASE e = [min |-> 1, window |-> 0]
    BY <2>1, <2>4
  <2> QED
    BY <2>2, <2>3, <2>4 DEF Edits
<1>4. r = [metrics |-> r.metrics, window |-> r.window, policy |-> r.policy, min |-> r.min]
  <2>1. DOMAIN r = {"metrics", "window", "policy", "min"}
    BY <1>1
  <2>2. r = [f \in {"metrics", "window", "policy", "min"} |-> r[f]]
    BY <2>1
  <2> HIDE DEF r
  <2> QED
    BY <2>2
<1>5. r.metrics = h.metrics /\ r.policy = h.policy
      /\ r.window = (IF "window" \in DOMAIN e THEN e.window ELSE h.window)
      /\ r.min = (IF "min" \in DOMAIN e THEN e.min ELSE h.min)
  BY <1>1, <1>3
<1> HIDE DEF r
<1>6. r.metrics \in SUBSET {"queue", "tasks", "rps", "bytes", "cpu"} /\ r.window \in 0..Longest
      /\ r.policy \in {"none", "pods", "percent"} /\ r.min \in 0..MaxReplicas
  BY <1>2, <1>3, <1>5
<1> QED
  BY <1>4, <1>6 DEF Specs, r

LEMMA NoHpaIs == NoHpa \in Specs
BY LongestIs DEF NoHpa, Specs, MaxReplicas

\* The calls that change objects.
LEMMA ApplyMay ==
  ASSUME w \in HpaWorlds, NEW s, s.op \notin Turning, NEW t \in Targets, NEW spec \in Specs, NEW n
  PROVE  HpaMay(s, [w EXCEPT !.hpa[t] = spec, !.desired[t] = IF n THEN 0 ELSE @,
                             !.active[t] = IF n THEN FALSE ELSE @, !.age[t] = IF n THEN 0 ELSE @])
<1> DEFINE new == [w EXCEPT !.hpa[t] = spec, !.desired[t] = IF n THEN 0 ELSE @,
                            !.active[t] = IF n THEN FALSE ELSE @, !.age[t] = IF n THEN 0 ELSE @]
<1>1. 0 \in 0..MaxReplicas /\ 0 \in 0..Longest
  BY LongestIs DEF MaxReplicas
<1>2. new \in HpaWorlds
  BY <1>1 DEF HpaWorlds, Counted
<1>3. w.up = new.up /\ w.load = new.load /\ w.rate = new.rate /\ w.follow = new.follow
  BY DEF HpaWorlds
<1> HIDE DEF new
<1>4. HpaMay(s, new)
  BY <1>2, <1>3, QuietMay
<1> QED
  BY <1>4 DEF new

\* What a call of a scenario does: it may change the world as it should, it
\* fails without having turned anything, or it ends a try block.
HpaDoes(s) ==
  \/ \E new : HpaMay(s, new) /\ Call(s, new)
  \/ s.op \notin Turning /\ Fail(s)
  \/ EndTry(s)

LEMMA DoesCall ==
  ASSUME NEW s, NEW new, HpaMay(s, new), Call(s, new)
  PROVE  HpaDoes(s)
BY Zenon DEF HpaDoes

LEMMA DoesFail ==
  ASSUME NEW s, s.op \notin Turning, Fail(s)
  PROVE  HpaDoes(s)
BY Zenon DEF HpaDoes

LEMMA HpaCallDoes ==
  ASSUME w \in HpaWorlds, NEW s, Proper(s), HpaCall(s), loc.run \in 1..MaxRuns
  PROVE  HpaDoes(s)
<1>1. CASE apply(s)
  <2>1. s.op = "apply" /\ ApplyHpa(s, s.spec)
    BY <1>1, Zenon DEF apply
  <2>2. s.t \in Targets /\ s.spec \in Specs /\ s.op \notin Turning
    BY <2>1 DEF Proper, BareOps, Turning
  <2> DEFINE n == w.hpa[s.t].metrics = {}
             new == [w EXCEPT !.hpa[s.t] = s.spec, !.desired[s.t] = IF n THEN 0 ELSE @,
                              !.active[s.t] = IF n THEN FALSE ELSE @, !.age[s.t] = IF n THEN 0 ELSE @]
  <2>3. Call(s, new)
    BY <2>1, Zenon DEF ApplyHpa
  <2>4. HpaMay(s, new)
    BY <2>2, ApplyMay, Zenon
  <2> HIDE DEF new
  <2> QED
    BY <2>3, <2>4, DoesCall
<1>2. CASE ApplyCopy(s)
  <2>1. s.op = "copy" /\ ApplyHpa(s, w.hpa["worker"])
    BY <1>2, Zenon DEF ApplyCopy
  <2>2. s.t \in Targets /\ w.hpa["worker"] \in Specs /\ s.op \notin Turning
    BY <2>1 DEF Proper, BareOps, Turning, HpaWorlds, Targets
  <2> DEFINE n == w.hpa[s.t].metrics = {}
             new == [w EXCEPT !.hpa[s.t] = w.hpa["worker"], !.desired[s.t] = IF n THEN 0 ELSE @,
                              !.active[s.t] = IF n THEN FALSE ELSE @, !.age[s.t] = IF n THEN 0 ELSE @]
  <2>3. Call(s, new)
    BY <2>1, Zenon DEF ApplyHpa
  <2>4. HpaMay(s, new)
    BY <2>2, ApplyMay, Zenon
  <2> HIDE DEF new
  <2> QED
    BY <2>3, <2>4, DoesCall
<1>3. CASE patch(s)
  <2> DEFINE h == w.hpa[s.t]
             e == [f \in DOMAIN h |-> IF f \in DOMAIN s.fields THEN s.fields[f] ELSE h[f]]
             new == [w EXCEPT !.hpa[s.t] = e]
  <2>1. s.op = "patch" /\ Call(s, new)
    BY <1>3, Zenon DEF patch
  <2>2. s.t \in Targets /\ s.fields \in Edits /\ s.op \notin Turning
    BY <2>1 DEF Proper, BareOps, Turning
  <2>3. h \in Specs
    BY <2>2 DEF HpaWorlds
  <2> HIDE DEF h
  <2>4. e \in Specs
    BY <2>2, <2>3, SpecEdited
  <2> HIDE DEF e
  <2>5. new \in HpaWorlds
    BY <2>2, <2>4 DEF HpaWorlds
  <2>6. w.up = new.up /\ w.load = new.load /\ w.rate = new.rate /\ w.follow = new.follow
    BY DEF HpaWorlds
  <2> HIDE DEF new
  <2> QED
    BY <2>1, <2>2, <2>5, <2>6, QuietMay, DoesCall
<1>4. CASE DeleteHpa(s)
  <2> DEFINE new == [w EXCEPT !.hpa[s.t] = NoHpa, !.desired[s.t] = 0, !.active[s.t] = FALSE]
  <2>1. s.op = "drophpa" /\ (Fail(s) \/ Call(s, new))
    BY <1>4, Zenon DEF DeleteHpa
  <2>2. s.t \in Targets /\ s.op \notin Turning
    BY <2>1 DEF Proper, BareOps, Turning
  <2>3. 0 \in 0..MaxReplicas
    BY DEF MaxReplicas
  <2>4. new \in HpaWorlds
    BY <2>2, <2>3, NoHpaIs DEF HpaWorlds, Counted
  <2>5. w.up = new.up /\ w.load = new.load /\ w.rate = new.rate /\ w.follow = new.follow
    BY DEF HpaWorlds
  <2> HIDE DEF new
  <2> QED
    BY <2>1, <2>2, <2>4, <2>5, QuietMay, DoesCall, DoesFail
<1>5. CASE scale(s)
  <2> DEFINE new == [w EXCEPT !.rep[s.t] = s.n]
  <2>1. s.op = "scale" /\ Call(s, new)
    BY <1>5, Zenon DEF scale
  <2>2. s.t \in Targets /\ s.n \in 0..MaxReplicas /\ s.op \notin Turning
    BY <2>1 DEF Proper, BareOps, Turning
  <2>3. new \in HpaWorlds
    BY <2>2 DEF HpaWorlds, Counted
  <2>4. w.up = new.up /\ w.load = new.load /\ w.rate = new.rate /\ w.follow = new.follow
    BY DEF HpaWorlds
  <2> HIDE DEF new
  <2> QED
    BY <2>1, <2>2, <2>3, <2>4, QuietMay, DoesCall
<1>6. CASE ScaleComponent(s)
  <2> DEFINE g == IF s.t = "queue" /\ ~s.on THEN 0 ELSE w.gauge
             new == [w EXCEPT !.up[s.t] = s.on, !.gauge = g]
  <2>1. s.op = "switch" /\ Call(s, new)
    BY <1>6, Zenon DEF ScaleComponent
  <2>2. s.t \in Components /\ s.on \in BOOLEAN
    BY <2>1 DEF Proper, BareOps
  <2>7. g \in 0..35
    BY DEF HpaWorlds
  <2> HIDE DEF g
  <2>3. new \in HpaWorlds
    BY <2>2, <2>7 DEF HpaWorlds
  <2>4. /\ w.load = new.load /\ w.rate = new.rate /\ w.follow = new.follow
        /\ \A x \in Components : new.up[x] = IF x = s.t THEN s.on ELSE w.up[x]
    BY <2>2 DEF HpaWorlds
  <2> HIDE DEF new
  <2>5. ASSUME NEW x \in HpaLeft(new)
        PROVE  x \in After(s, HpaLeft(w))
    <3>1. x \in Things
      BY DEF HpaLeft
    <3>2. CASE x \in Components /\ x = s.t
      <4>1. ~s.on
        BY <2>4, <3>2 DEF HpaLeft, Components
      <4> QED
        BY <2>1, <3>1, <3>2, <4>1 DEF After, TurnsOn
    <3>3. CASE ~(x \in Components /\ x = s.t)
      <4>1. x \in HpaLeft(w)
        BY <2>4, <3>1, <3>3 DEF HpaLeft
      <4>2. ~TurnsOff(s, x)
        BY <2>1, <2>2, <3>3 DEF TurnsOff
      <4> QED
        BY <3>1, <4>1, <4>2 DEF After
    <3> QED
      BY <3>2, <3>3
  <2>6. HpaMay(s, new)
    BY <2>3, <2>5 DEF HpaMay
  <2> QED
    BY <2>1, <2>6, DoesCall
<1>7. CASE gauge(s)
  <2> DEFINE new == [w EXCEPT !.gauge = s.n]
  <2>1. s.op = "gauge" /\ (Fail(s) \/ Call(s, new))
    BY <1>7, Zenon DEF gauge
  <2>2. s.n \in 0..35 /\ s.op \notin Turning
    BY <2>1 DEF Proper, BareOps, Turning
  <2>3. new \in HpaWorlds
    BY <2>2 DEF HpaWorlds
  <2>4. w.up = new.up /\ w.load = new.load /\ w.rate = new.rate /\ w.follow = new.follow
    BY DEF HpaWorlds
  <2> HIDE DEF new
  <2> QED
    BY <2>1, <2>2, <2>3, <2>4, QuietMay, DoesCall, DoesFail
<1>8. CASE LoadDeployment(s)
  <2> DEFINE new == [w EXCEPT !.load = s.on]
  <2>1. s.op = "load" /\ Call(s, new)
    BY <1>8, Zenon DEF LoadDeployment
  <2>2. s.on \in BOOLEAN
    BY <2>1 DEF Proper, BareOps
  <2>3. new \in HpaWorlds
    BY <2>2 DEF HpaWorlds
  <2>4. w.up = new.up /\ (new.load <=> s.on) /\ w.rate = new.rate /\ w.follow = new.follow
    BY <2>2 DEF HpaWorlds
  <2> HIDE DEF new
  <2>5. HpaLeft(new) \subseteq After(s, HpaLeft(w))
    BY <2>1, <2>4 DEF HpaLeft, After, TurnsOn, TurnsOff, Components
  <2> QED
    BY <2>1, <2>3, <2>5, DoesCall DEF HpaMay
<1>9. CASE HttpLoadDeployment(s)
  <2> DEFINE new == [w EXCEPT !.rate = s.rate, !.payload = s.payload]
  <2>1. s.op = "http_load" /\ Call(s, new)
    BY <1>9, Zenon DEF HttpLoadDeployment
  <2>2. s.rate \in {0, 15, 35} /\ s.payload \in 0..2
    BY <2>1 DEF Proper, BareOps
  <2>3. new \in HpaWorlds
    BY <2>2 DEF HpaWorlds
  <2>4. w.up = new.up /\ w.load = new.load /\ new.rate = s.rate /\ w.follow = new.follow
    BY <2>2 DEF HpaWorlds
  <2> HIDE DEF new
  <2>5. HpaLeft(new) \subseteq After(s, HpaLeft(w))
    BY <2>1, <2>4 DEF HpaLeft, After, TurnsOn, TurnsOff, Components
  <2> QED
    BY <2>1, <2>3, <2>5, DoesCall DEF HpaMay
<1>10. CASE FollowLogs(s)
  <2> DEFINE new == [w EXCEPT !.follow = s.on]
  <2>1. s.op = "follow" /\ Call(s, new)
    BY <1>10, Zenon DEF FollowLogs
  <2>2. s.on \in BOOLEAN
    BY <2>1 DEF Proper, BareOps
  <2>3. new \in HpaWorlds
    BY <2>2 DEF HpaWorlds
  <2>4. w.up = new.up /\ w.load = new.load /\ w.rate = new.rate /\ (new.follow <=> s.on)
    BY <2>2 DEF HpaWorlds
  <2> HIDE DEF new
  <2>5. HpaLeft(new) \subseteq After(s, HpaLeft(w))
    BY <2>1, <2>4 DEF HpaLeft, After, TurnsOn, TurnsOff, Components
  <2> QED
    BY <2>1, <2>3, <2>5, DoesCall DEF HpaMay
<1>11. CASE ReadyDelay(s)
  <2> DEFINE a == IF s.on THEN Longest ELSE 0
             b == IF s.on THEN w.rep ELSE [w.rep EXCEPT !["web"] = 1, !["consumer"] = 1]
             new == [w EXCEPT !.slow = s.on, !.warm = a, !.rep = b]
  <2>1. s.op = "slow" /\ Call(s, new)
    BY <1>11, Zenon DEF ReadyDelay
  <2>2. s.on \in BOOLEAN /\ s.op \notin Turning
    BY <2>1 DEF Proper, BareOps, Turning
  <2>3. a \in 0..Longest
    BY LongestIs
  <2>4. b \in Counted
    <3>1. w.rep \in Counted /\ 1 \in 0..MaxReplicas
      BY DEF HpaWorlds, MaxReplicas
    <3> QED
      BY <3>1 DEF Counted
  <2> HIDE DEF a, b
  <2>5. new \in HpaWorlds
    BY <2>2, <2>3, <2>4 DEF HpaWorlds
  <2>6. w.up = new.up /\ w.load = new.load /\ w.rate = new.rate /\ w.follow = new.follow
    BY DEF HpaWorlds
  <2> HIDE DEF new
  <2> QED
    BY <2>1, <2>2, <2>5, <2>6, QuietMay, DoesCall
<1>12. CASE BlockedDeployment(s)
  <2> DEFINE new == [w EXCEPT !.rep["blocked"] = s.n]
  <2>1. s.op = "deploy" /\ Call(s, new)
    BY <1>12, Zenon DEF BlockedDeployment
  <2>2. s.n \in 0..MaxReplicas /\ s.op \notin Turning
    BY <2>1 DEF Proper, BareOps, Turning
  <2>3. new \in HpaWorlds
    BY <2>2 DEF HpaWorlds, Counted
  <2>4. w.up = new.up /\ w.load = new.load /\ w.rate = new.rate /\ w.follow = new.follow
    BY DEF HpaWorlds
  <2> HIDE DEF new
  <2> QED
    BY <2>1, <2>2, <2>3, <2>4, QuietMay, DoesCall
<1>13. CASE EnqueueTasks(s)
  <2> DEFINE a == w.work + s.n
             b == IF s.long THEN Longest ELSE w.busy
             c == w.accepted \cup {loc.run}
             new == [w EXCEPT !.work = a, !.busy = b, !.accepted = c]
  <2>1. s.op = "enqueue" /\ Call(s, new)
    BY <1>13, Zenon DEF EnqueueTasks
  <2>2. s.n \in Nat /\ s.op \notin Turning
    BY <2>1 DEF Proper, BareOps, Turning
  <2>3. a \in Nat /\ b \in 0..Longest /\ c \subseteq 1..MaxRuns
    BY <2>2, LongestIs DEF HpaWorlds
  <2> HIDE DEF a, b, c
  <2>4. new \in HpaWorlds
    BY <2>3 DEF HpaWorlds
  <2>5. w.up = new.up /\ w.load = new.load /\ w.rate = new.rate /\ w.follow = new.follow
    BY DEF HpaWorlds
  <2> HIDE DEF new
  <2> QED
    BY <2>1, <2>2, <2>4, <2>5, QuietMay, DoesCall
<1>14. CASE check(s)
  <2>1. s.op = "check" /\ (Fail(s) \/ Call(s, w))
    BY <1>14, Zenon DEF check
  <2>2. s.op \notin Turning
    BY <2>1 DEF Turning
  <2>3. HpaMay(s, w)
    BY <2>2, QuietMay
  <2> QED
    BY <2>1, <2>2, <2>3, DoesCall, DoesFail
<1> QED
  BY <1>1, <1>2, <1>3, <1>4, <1>5, <1>6, <1>7, <1>8, <1>9, <1>10, <1>11, <1>12, <1>13, <1>14, Zenon DEF HpaCall, HpaDoes

LEMMA EndTryMoves ==
  ASSUME NEW s, EndTry(s), NEW L, L \subseteq Things
  PROVE  (Promised' => Promised) /\ Moving(s, pc, pc', L, L, Promised')
<1>1. s.op = "endtry" /\ blame' = blame /\ (Raise(s) \/ pc' = pc + 1)
  BY Zenon DEF EndTry, Return
<1>2. s.op \notin Turning
  BY <1>1 DEF Turning
<1> QED
  BY <1>1, <1>2, FailMoves, GoMoves

\* A step of the script keeps blame and raised in their types.
Blames == {"body", "open", "cleanup", "kill"}

LEMMA BlameKept ==
  ASSUME blame \subseteq Blames, NEW s, blame' = blame \/ Faults(s)
  PROVE  blame' \subseteq Blames
<1>1. CASE blame' = blame
  BY <1>1
<1>2. CASE Faults(s)
  <2>1. PICK kind \in {"cleanup", "body", "open"} : blame' = blame \cup {kind}
    BY <1>2, FaultPromise
  <2> QED
    BY <2>1 DEF Blames
<1> QED
  BY <1>1, <1>2

----------------------------------------------------------------------------
(* The invariant of the HPA experiment.                                    *)

HpaLoc(l) ==
  /\ {"case", "run", "polls", "saw", "rows", "proxy", "verdict"} \subseteq DOMAIN l
  /\ l.case \in Cases /\ l.run \in 0..MaxRuns /\ l.rows \in BOOLEAN
  /\ l.proxy \in {"none", "own", "orphan"} /\ l.verdict \in {"none", "PASS", "FAIL"}

HpaInv ==
  /\ w \in HpaWorlds /\ HpaLoc(loc) /\ raised \in BOOLEAN /\ blame \subseteq Blames
  /\ pc = 0 /\ Promised => HpaLeft(w) = {} /\ loc.proxy = "none"
  /\ pc # 0 => /\ loc.run # 0 /\ TrackAt(Program(loc.case), pc, HpaLeft(w), Promised)
               /\ Promised => loc.proxy = "own"

\* The script goes on within its program.
LEMMA HpaMoves ==
  ASSUME HpaInv, pc # 0, Here.op # "exit", w' \in HpaWorlds, Promised' => Promised,
         Moving(Here, pc, pc', HpaLeft(w), HpaLeft(w'), Promised'),
         HpaLoc(loc'), loc'.case = loc.case, loc'.run = loc.run, loc'.proxy = loc.proxy,
         raised' \in BOOLEAN, blame' \subseteq Blames
  PROVE  HpaInv'
<1> DEFINE L == HpaLeft(w)
           p == Program(loc.case)
<1>1. TrackAt(p, pc, L, Promised) /\ loc.run # 0 /\ (Promised => loc.proxy = "own")
  BY DEF HpaInv
<1>2. Here = p[pc]
  BY DEF Here
<1>3. PICK M : M = HpaLeft(w')
  OBVIOUS
<1>4. PICK ok : ok = Promised'
  OBVIOUS
<1>5. PICK j : j = pc'
  OBVIOUS
<1>6. TrackAt(p, j, M, ok)
  <2>1. Moving(Here, pc, j, L, M, ok)
    BY <1>3, <1>4, <1>5
  <2>2. ok => Promised
    BY <1>4
  <2> HIDE DEF p, L
  <2> QED
    BY <1>1, <1>2, <2>1, <2>2, TrackMoves, Zenon
<1>7. j # 0
  BY <1>6, TrackKnows, Zenon
<1>8. Program(loc'.case) = p
  OBVIOUS
<1>9. TrackAt(Program(loc'.case), pc', HpaLeft(w'), Promised')
  BY <1>3, <1>4, <1>5, <1>6, <1>8
<1>10. pc' # 0 /\ loc'.run # 0 /\ (Promised' => loc'.proxy = "own")
  BY <1>1, <1>5, <1>7
<1> QED
  BY <1>9, <1>10 DEF HpaInv

LEMMA HpaHere ==
  ASSUME HpaInv, pc # 0
  PROVE  pc \in Nat /\ loc.run \in 1..MaxRuns /\ (Here.op = "exit" \/ Proper(Here)) /\ HpaLeft(w) \subseteq Things
<1>1. TrackAt(Program(loc.case), pc, HpaLeft(w), Promised) /\ loc.run # 0 /\ loc.run \in 0..MaxRuns
  BY DEF HpaInv, HpaLoc
<1>2. pc \in Nat /\ (Here.op = "exit" \/ Proper(Here))
  BY <1>1, TrackKnows, Zenon DEF Here
<1>3. loc.run \in 1..MaxRuns
  BY <1>1, ScriptAssumption
<1>4. HpaLeft(w) \subseteq Things
  BY DEF HpaLeft
<1> QED
  BY <1>2, <1>3, <1>4

LEMMA LocCleared ==
  ASSUME HpaLoc(loc), loc' = Cleared
  PROVE  HpaLoc(loc') /\ loc'.case = loc.case /\ loc'.run = loc.run /\ loc'.proxy = loc.proxy
BY DEF HpaLoc, Cleared

\* A call of the scenario.
LEMMA HpaCallKept ==
  ASSUME HpaInv, pc # 0, HpaCall(Here), loc' = Cleared
  PROVE  HpaInv'
<1> DEFINE s == Here
<1>1. w \in HpaWorlds /\ HpaLoc(loc) /\ raised \in BOOLEAN /\ blame \subseteq Blames
  BY DEF HpaInv
<1>2. s.op # "exit"
  BY DEF HpaCall, apply, ApplyCopy, patch, DeleteHpa, scale, ScaleComponent, gauge, LoadDeployment,
         HttpLoadDeployment, ReadyDelay, BlockedDeployment, EnqueueTasks, FollowLogs, check, EndTry
<1>3. Proper(s) /\ loc.run \in 1..MaxRuns /\ HpaLeft(w) \subseteq Things
  BY <1>2, HpaHere
<1>4. HpaDoes(s)
  BY <1>1, <1>3, HpaCallDoes
<1>5. HpaLoc(loc') /\ loc'.case = loc.case /\ loc'.run = loc.run /\ loc'.proxy = loc.proxy
  BY <1>1, LocCleared
<1> HIDE DEF s
<1>6. /\ w' \in HpaWorlds /\ (Promised' => Promised) /\ Moving(s, pc, pc', HpaLeft(w), HpaLeft(w'), Promised')
      /\ raised' \in BOOLEAN /\ blame' \subseteq Blames
  <2>1. CASE \E new : HpaMay(s, new) /\ Call(s, new)
    <3>1. PICK new : HpaMay(s, new) /\ Call(s, new)
      BY <2>1, Zenon
    <3>2. new \in HpaWorlds /\ HpaLeft(new) \subseteq After(s, HpaLeft(w))
      BY <3>1, Zenon DEF HpaMay
    <3>3. w' = w \/ w' = new
      BY <3>1, Zenon DEF Call
    <3>4. w' \in HpaWorlds
      BY <1>1, <3>2, <3>3
    <3>5. PICK M : M = HpaLeft(w')
      OBVIOUS
    <3>6. (w' = new => M = HpaLeft(new)) /\ (w' = w => M = HpaLeft(w))
      BY <3>5
    <3>7. (Promised' => Promised) /\ Moving(s, pc, pc', HpaLeft(w), M, Promised')
      BY <3>1, <3>2, <3>6, CallMoves
    <3>8. (raised' = raised \/ raised' = TRUE) /\ (blame' = blame \/ Faults(s))
      BY <3>1, Zenon DEF Call, Return, Raise
    <3>9. raised' \in BOOLEAN /\ blame' \subseteq Blames
      BY <1>1, <3>8, BlameKept
    <3> QED
      BY <3>4, <3>5, <3>7, <3>9
  <2>2. CASE s.op \notin Turning /\ Fail(s)
    <3>1. w' = w /\ blame' = blame /\ Raise(s) /\ raised' = TRUE
      BY <2>2, Zenon DEF Fail, Raise
    <3>2. (Promised' => Promised) /\ Moving(s, pc, pc', HpaLeft(w), HpaLeft(w), Promised')
      BY <2>2, <3>1, FailMoves
    <3> QED
      BY <1>1, <3>1, <3>2
  <2>3. CASE EndTry(s)
    <3>1. w' = w /\ blame' = blame /\ (raised' = raised \/ raised' = TRUE)
      BY <2>3, Zenon DEF EndTry, Return, Raise
    <3>2. (Promised' => Promised) /\ Moving(s, pc, pc', HpaLeft(w), HpaLeft(w), Promised')
      BY <1>3, <2>3, EndTryMoves
    <3> QED
      BY <1>1, <3>1, <3>2
  <2> QED
    BY <1>4, <2>1, <2>2, <2>3, Zenon DEF HpaDoes
<1> QED
  BY <1>2, <1>5, <1>6, HpaMoves DEF s

----------------------------------------------------------------------------
(* The autoscaler and time.                                                *)

LEMMA MinOfTwo ==
  ASSUME NEW a \in Nat, NEW b \in Nat
  PROVE  Min({a, b}) \in Nat /\ Min({a, b}) <= a /\ Min({a, b}) <= b
<1>1. \E x \in {a, b} : \A y \in {a, b} : x =< y
  OBVIOUS
<1> QED
  BY <1>1 DEF Min

LEMMA MaxOfSome ==
  ASSUME NEW n \in Nat, NEW S \in SUBSET (0..n), S # {}
  PROVE  Max(S) \in S
<1> DEFINE T == {x + 1 : x \in S}
<1>1. T \in SUBSET (1..(n + 1)) /\ T # {} /\ n + 1 \in Nat
  <2>1. \A x \in S : x \in 0..n /\ x + 1 \in 1..(n + 1)
    OBVIOUS
  <2>2. \A y \in T : y \in 1..(n + 1)
    BY <2>1
  <2>3. PICK x : x \in S
    OBVIOUS
  <2>4. x + 1 \in T
    BY <2>3
  <2> QED
    BY <2>2, <2>4
<1>2. Max(T) \in T /\ \A y \in T : y <= Max(T)
  <2> HIDE DEF T
  <2> QED
    BY <1>1, MaxOf
<1>3. PICK x \in S : Max(T) = x + 1
  BY <1>2
<1>4. \A y \in S : y + 1 \in T
  OBVIOUS
<1> HIDE DEF T
<1>5. \A y \in S : y + 1 <= x + 1
  BY <1>2, <1>3, <1>4
<1>6. \A y \in S : x >= y
  <2>1. x \in Nat /\ \A y \in S : y \in Nat
    OBVIOUS
  <2> QED
    BY <1>5, <2>1
<1> QED
  BY <1>6 DEF Max

LEMMA ProposalIs ==
  ASSUME w \in HpaWorlds, NEW m \in {"queue", "tasks", "rps", "bytes", "cpu"}
  PROVE  Proposal(m) \in Nat
<1>1. w.gauge \in 0..35 /\ w.work \in Nat /\ w.rate \in {0, 15, 35} /\ w.payload \in 0..2
  BY DEF HpaWorlds
<1>2. CASE m = "queue"
  BY <1>1, <1>2 DEF Proposal, CeilDiv
<1>3. CASE m = "tasks"
  BY <1>1, <1>3 DEF Proposal
<1>4. CASE m = "rps"
  BY <1>1, <1>4 DEF Proposal, CeilDiv
<1>5. CASE m = "bytes"
  <2>1. w.rate * w.payload \in Nat
    BY <1>1
  <2>2. Proposal(m) = CeilDiv(w.rate * w.payload, 20)
    BY <1>5 DEF Proposal
  <2>3. \A k \in Nat : CeilDiv(k, 20) \in Nat
    BY DEF CeilDiv
  <2> QED
    BY <2>1, <2>2, <2>3
<1>6. CASE m = "cpu"
  BY <1>6 DEF Proposal, MaxReplicas
<1> QED
  BY <1>2, <1>3, <1>4, <1>5, <1>6

LEMMA DemandIs ==
  ASSUME w \in HpaWorlds, NEW t \in Targets
  PROVE  Demand(t) \in 0..MaxReplicas
<1> DEFINE N == {"queue", "tasks", "rps", "bytes", "cpu"}
           S == {w.hpa[t].min} \cup {Proposal(m) : m \in Known(t)}
           q == Proposal("queue")
           a == Proposal("tasks")
           r == Proposal("rps")
           b == Proposal("bytes")
           c == Proposal("cpu")
           k == w.hpa[t].min
<1>1. w.hpa[t] \in Specs
  BY DEF HpaWorlds
<1>2. w.hpa[t].metrics \subseteq N /\ k \in 0..MaxReplicas
  BY <1>1 DEF Specs
<1>3. Known(t) \subseteq N
  BY <1>2 DEF Known
<1>4. q \in Nat /\ a \in Nat /\ r \in Nat /\ b \in Nat /\ c \in Nat /\ k \in Nat
  BY <1>2, ProposalIs DEF MaxReplicas
<1>5. S \subseteq {q, a, r, b, c, k} /\ k \in S
  BY <1>3
<1> HIDE DEF q, a, r, b, c, k, S
<1>6. {q, a, r, b, c, k} \subseteq 0..(q + a + r + b + c + k) /\ q + a + r + b + c + k \in Nat
  BY <1>4
<1>7. S \in SUBSET (0..(q + a + r + b + c + k)) /\ S # {}
  BY <1>5, <1>6
<1>8. Max(S) \in S
  BY <1>6, <1>7, MaxOfSome
<1>9. Max(S) \in Nat
  BY <1>4, <1>5, <1>8
<1>10. Demand(t) = Min({MaxReplicas, Max(S)})
  BY DEF Demand, S
<1>11. MaxReplicas \in Nat
  BY DEF MaxReplicas
<1>12. Min({MaxReplicas, Max(S)}) \in Nat /\ Min({MaxReplicas, Max(S)}) <= MaxReplicas
  BY <1>9, <1>11, MinOfTwo
<1> QED
  BY <1>10, <1>11, <1>12

LEMMA ScaledIs ==
  ASSUME w \in HpaWorlds, NEW t \in Targets
  PROVE  Scaled(t) \in 0..MaxReplicas
<1> DEFINE d == Demand(t)
           r == w.rep[t]
           one == IF d > r THEN r + 1 ELSE IF d < r THEN r - 1 ELSE r
<1>1. d \in 0..MaxReplicas /\ r \in 0..MaxReplicas /\ MaxReplicas \in Nat
  BY DemandIs DEF HpaWorlds, Counted, MaxReplicas
<1>2. Scaled(t) \in {r, one, Min({d, 2 * r}), d}
  BY DEF Scaled
<1> HIDE DEF d, r
<1>3. one \in 0..MaxReplicas
  BY <1>1
<1>4. 2 * r \in Nat /\ d \in Nat
  BY <1>1
<1>5. Min({d, 2 * r}) \in Nat /\ Min({d, 2 * r}) <= d
  BY <1>4, MinOfTwo
<1>6. Min({d, 2 * r}) \in 0..MaxReplicas
  BY <1>1, <1>5
<1> QED
  BY <1>1, <1>2, <1>3, <1>6

LEMMA SyncIs ==
  ASSUME w \in HpaWorlds, Sync
  PROVE  w' \in HpaWorlds /\ HpaLeft(w') = HpaLeft(w)
<1> DEFINE a == [t \in Targets |-> Settled(t)]
           b == [t \in Targets |-> Scaled(t)]
           c == IF w.slow /\ Scaled("web") > w.rep["web"] THEN Longest ELSE w.warm
           d == [t \in Targets |-> IF w.hpa[t].metrics = {} THEN 0
                                   ELSE IF Active(t) THEN Scaled(t) ELSE w.desired[t]]
           e == [t \in Targets |-> w.hpa[t].metrics # {} /\ Active(t)]
           f == [t \in Targets |-> IF Active(t) /\ Demand(t) < w.rep[t] THEN w.age[t] ELSE 0]
<1>1. w' = [w EXCEPT !.since = 0, !.rdy = a, !.rep = b, !.warm = c, !.desired = d, !.active = e, !.age = f]
  BY Zenon DEF Sync
<1>2. w.rdy \in Counted /\ w.rep \in Counted /\ w.desired \in Counted /\ w.warm \in 0..Longest
      /\ w.age \in [Targets -> 0..Longest]
  BY DEF HpaWorlds
<1>3. 0 \in 0..MaxReplicas /\ 0 \in 0..Longest /\ Longest \in 0..Longest /\ 0 \in 0..SyncPolls
  BY LongestIs DEF MaxReplicas, SyncPolls
<1>4. a \in Counted
  <2>1. \A t \in Targets : Settled(t) \in 0..MaxReplicas
    BY <1>2, <1>3 DEF Settled, Counted
  <2> QED
    BY <2>1 DEF Counted
<1>5. b \in Counted
  BY ScaledIs DEF Counted
<1>6. c \in 0..Longest
  BY <1>2, <1>3
<1>7. d \in Counted
  <2>1. \A t \in Targets : Scaled(t) \in 0..MaxReplicas /\ w.desired[t] \in 0..MaxReplicas
    BY <1>2, ScaledIs DEF Counted
  <2> QED
    BY <1>3, <2>1 DEF Counted
<1>8. e \in [Targets -> BOOLEAN]
  OBVIOUS
<1>9. f \in [Targets -> 0..Longest]
  BY <1>2, <1>3
<1> HIDE DEF a, b, c, d, e, f
<1>10. w' \in HpaWorlds
  BY <1>1, <1>3, <1>4, <1>5, <1>6, <1>7, <1>8, <1>9 DEF HpaWorlds
<1>11. w'.up = w.up /\ w'.load = w.load /\ w'.rate = w.rate /\ w'.follow = w.follow
  BY <1>1 DEF HpaWorlds
<1> QED
  BY <1>10, <1>11, SameLeft

LEMMA LaterIs ==
  ASSUME w \in HpaWorlds, NEW add \in Nat, w.since < SyncPolls, add > 0 => loc.run \in 1..MaxRuns
  PROVE  Later(add) \in HpaWorlds /\ HpaLeft(Later(add)) = HpaLeft(w)
<1> DEFINE a == [u \in Targets |-> Min({Longest, w.age[u] + 1})]
           b == Minus(w.work + add, w.rdy["consumer"])
           c == Minus(w.busy, 1)
           d == Minus(w.warm, 1)
           g == w.since + 1
           h == IF add > 0 THEN w.accepted \cup {loc.run} ELSE w.accepted
           new == [w EXCEPT !.since = g, !.age = a, !.work = b, !.busy = c, !.warm = d, !.accepted = h]
<1>1. Later(add) = new
  BY Zenon DEF Later
<1>2. /\ w.age \in [Targets -> 0..Longest] /\ w.work \in Nat /\ w.rdy["consumer"] \in 0..MaxReplicas /\ w.busy \in 0..Longest
      /\ w.warm \in 0..Longest /\ w.since \in 0..SyncPolls /\ w.accepted \subseteq 1..MaxRuns
  BY DEF HpaWorlds, Counted, Targets
<1>3. a \in [Targets -> 0..Longest]
  <2>1. ASSUME NEW u \in Targets
        PROVE  Min({Longest, w.age[u] + 1}) \in 0..Longest
    <3>1. Longest \in Nat /\ w.age[u] + 1 \in Nat
      BY <1>2, LongestIs
    <3> DEFINE x == w.age[u] + 1
    <3> HIDE DEF x
    <3>2. Min({Longest, x}) \in Nat /\ Min({Longest, x}) <= Longest
      BY <3>1, MinOfTwo DEF x
    <3> QED
      BY <3>1, <3>2 DEF x
  <2> QED
    BY <2>1
<1>4. b \in Nat
  BY <1>2 DEF Minus, MaxReplicas
<1>5. c \in 0..Longest /\ d \in 0..Longest
  BY <1>2, LongestIs DEF Minus
<1>6. g \in 0..SyncPolls
  BY <1>2 DEF SyncPolls
<1>7. h \subseteq 1..MaxRuns
  BY <1>2
<1> HIDE DEF a, b, c, d, g, h
<1>8. new \in HpaWorlds
  BY <1>3, <1>4, <1>5, <1>6, <1>7 DEF HpaWorlds
<1>9. new.up = w.up /\ new.load = w.load /\ new.rate = w.rate /\ new.follow = w.follow
  BY DEF HpaWorlds
<1> HIDE DEF new
<1> QED
  BY <1>1, <1>8, <1>9, SameLeft

LEMMA HoldsIs ==
  ASSUME w \in HpaWorlds, NEW p \in Conditions, NEW t, NEW n
  PROVE  Holds(p, t, n) \in BOOLEAN
<1>1. t \in Components => w.up[t] \in BOOLEAN
  BY DEF HpaWorlds
<1>2. CASE p \in {"any", "steady", "inactive", "requested", "held", "full", "more", "atleast", "pending"}
  BY <1>2 DEF Holds, Steady
<1>7. CASE p = "throughput"
  <2>1. w.up["prometheus"] \in BOOLEAN /\ w.up["adapter"] \in BOOLEAN
    BY DEF HpaWorlds, Components
  <2> QED
    BY <1>7, <2>1 DEF Holds
<1>3. CASE p \in {"partial", "draining", "drained", "inflight", "audit"}
  <2>1. CASE p = "partial"
    BY <2>1 DEF Holds
  <2>2. CASE p = "draining"
    BY <2>2 DEF Holds
  <2>3. CASE p = "drained"
    BY <2>3 DEF Holds
  <2>4. CASE p = "inflight"
    BY <2>4 DEF Holds
  <2>5. CASE p = "audit"
    BY <2>5 DEF Holds
  <2> QED
    BY <1>3, <2>1, <2>2, <2>3, <2>4, <2>5
<1>5. CASE p = "fresh"
  <2>1. Holds(p, t, n) = FreshBroker
    BY <1>5 DEF Holds
  <2> QED
    BY <2>1 DEF FreshBroker
<1>6. CASE p = "no_metric"
  <2>1. Holds(p, t, n) = ~Available("queue")
    BY <1>6 DEF Holds
  <2> QED
    BY <2>1
<1>4. CASE p = "ready"
  BY <1>1, <1>4 DEF Holds
<1> QED
  BY <1>2, <1>3, <1>4, <1>5, <1>6, <1>7 DEF Conditions

\* The polls of a wait or a hold.
LEMMA OverKept ==
  ASSUME HpaInv, pc # 0, Here.op \in {"wait", "hold"}, NEW ok, Over(Here, ok)
  PROVE  HpaInv'
<1> DEFINE s == Here
<1>1. w \in HpaWorlds /\ HpaLoc(loc) /\ raised \in BOOLEAN /\ blame \subseteq Blames
  BY DEF HpaInv
<1>2. s.op # "exit" /\ s.op \notin Turning
  BY DEF Turning
<1>3. HpaLeft(w) \subseteq Things
  BY HpaHere
<1> HIDE DEF s
<1>4. w' = w /\ blame' = blame /\ loc' = Cleared /\ (Raise(s) \/ pc' = pc + 1) /\ (raised' = raised \/ raised' = TRUE)
  BY Zenon DEF Over, Require, Fail, Return, Raise, s
<1>5. HpaLoc(loc') /\ loc'.case = loc.case /\ loc'.run = loc.run /\ loc'.proxy = loc.proxy
  BY <1>1, <1>4, LocCleared
<1>6. (Promised' => Promised) /\ Moving(s, pc, pc', HpaLeft(w), HpaLeft(w), Promised')
  BY <1>2, <1>3, <1>4, FailMoves, GoMoves
<1>7. raised' \in BOOLEAN /\ blame' \subseteq Blames /\ w' \in HpaWorlds
  BY <1>1, <1>4
<1>8. Moving(s, pc, pc', HpaLeft(w), HpaLeft(w'), Promised')
  BY <1>4, <1>6
<1> QED
  BY <1>2, <1>5, <1>6, <1>7, <1>8, HpaMoves DEF s

LEMMA SleepKept ==
  ASSUME HpaInv, pc # 0, Here.op # "exit", NEW add \in Nat, NEW ok \in BOOLEAN, Sleep(add, ok)
  PROVE  HpaInv'
<1>1. w \in HpaWorlds /\ HpaLoc(loc) /\ raised \in BOOLEAN /\ blame \subseteq Blames
  BY DEF HpaInv
<1>2. loc.run \in 1..MaxRuns
  BY HpaHere
<1> DEFINE n == loc.polls + 1
<1>3. w.since < SyncPolls /\ w' = Later(add) /\ pc' = pc /\ raised' = raised /\ blame' = blame
      /\ loc' = [loc EXCEPT !.polls = n, !.saw = NoHpa, !.rows = ok]
  BY Zenon DEF Sleep
<1> HIDE DEF n
<1>4. w' \in HpaWorlds /\ HpaLeft(w') = HpaLeft(w)
  BY <1>1, <1>2, <1>3, LaterIs
<1>5. HpaLoc(loc') /\ loc'.case = loc.case /\ loc'.run = loc.run /\ loc'.proxy = loc.proxy
  BY <1>1, <1>3 DEF HpaLoc
<1>6. (Promised' => Promised) /\ Moving(Here, pc, pc', HpaLeft(w), HpaLeft(w), Promised')
  BY <1>3, StayMoves
<1>7. raised' \in BOOLEAN /\ blame' \subseteq Blames
  BY <1>1, <1>3
<1>8. Moving(Here, pc, pc', HpaLeft(w), HpaLeft(w'), Promised')
  BY <1>4, <1>6
<1> QED
  BY <1>4, <1>5, <1>6, <1>7, <1>8, HpaMoves

LEMMA ReadKept ==
  ASSUME HpaInv, pc # 0, ReadHpa(Here)
  PROVE  HpaInv'
<1> DEFINE s == Here
<1>1. w \in HpaWorlds /\ HpaLoc(loc) /\ raised \in BOOLEAN /\ blame \subseteq Blames
  BY DEF HpaInv
<1>2. s.op # "exit" /\ s.op \notin Turning
  BY DEF ReadHpa, Turning
<1>3. HpaLeft(w) \subseteq Things
  BY HpaHere
<1> HIDE DEF s
<1>4. w' = w
  BY Zenon DEF ReadHpa
<1>5. \/ \E x : loc' = [loc EXCEPT !.saw = x] /\ pc' = pc /\ raised' = raised /\ blame' = blame
      \/ Raise(s) /\ raised' = TRUE /\ loc' = Cleared /\ (blame' = blame \/ Faults(s))
  BY Zenon DEF ReadHpa, Raise, s
<1>6. CASE \E x : loc' = [loc EXCEPT !.saw = x] /\ pc' = pc /\ raised' = raised /\ blame' = blame
  <2>1. PICK x : loc' = [loc EXCEPT !.saw = x] /\ pc' = pc /\ raised' = raised /\ blame' = blame
    BY <1>6, Zenon
  <2>2. HpaLoc(loc') /\ loc'.case = loc.case /\ loc'.run = loc.run /\ loc'.proxy = loc.proxy
    BY <1>1, <2>1 DEF HpaLoc
  <2>3. (Promised' => Promised) /\ Moving(s, pc, pc', HpaLeft(w), HpaLeft(w), Promised')
    BY <2>1, StayMoves
  <2>4. raised' \in BOOLEAN /\ blame' \subseteq Blames /\ w' \in HpaWorlds
    BY <1>1, <1>4, <2>1
  <2>5. Moving(s, pc, pc', HpaLeft(w), HpaLeft(w'), Promised')
    BY <1>4, <2>3
  <2> QED
    BY <1>2, <2>2, <2>3, <2>4, <2>5, HpaMoves DEF s
<1>7. CASE Raise(s) /\ raised' = TRUE /\ loc' = Cleared /\ (blame' = blame \/ Faults(s))
  <2>1. HpaLoc(loc') /\ loc'.case = loc.case /\ loc'.run = loc.run /\ loc'.proxy = loc.proxy
    BY <1>1, <1>7, LocCleared
  <2>2. (Promised' => Promised) /\ Moving(s, pc, pc', HpaLeft(w), HpaLeft(w), Promised')
    BY <1>2, <1>7, FailMoves
  <2>3. blame' \subseteq Blames
    BY <1>1, <1>7, BlameKept
  <2>4. raised' \in BOOLEAN /\ w' \in HpaWorlds
    BY <1>1, <1>4, <1>7
  <2>5. Moving(s, pc, pc', HpaLeft(w), HpaLeft(w'), Promised')
    BY <1>4, <2>2
  <2> QED
    BY <1>2, <2>1, <2>2, <2>3, <2>4, <2>5, HpaMoves DEF s
<1> QED
  BY <1>5, <1>6, <1>7

LEMMA HpaStepTidy ==
  ASSUME HpaInv, HpaStep
  PROVE  HpaInv'
<1>1. pc # 0
  BY DEF HpaStep, Idle
<1>2. (HpaCall(Here) /\ loc' = Cleared) \/ ReadHpa(Here) \/ WaitFor(Here) \/ HoldFor(Here) \/ Finish(Here)
  BY Zenon DEF HpaStep
<1>3. w \in HpaWorlds /\ HpaLoc(loc)
  BY DEF HpaInv
<1>4. CASE WaitFor(Here)
  <2>1. Here.op = "wait"
    BY <1>4, Zenon DEF WaitFor
  <2>2. (\E ok : Over(Here, ok)) \/ Sleep(0, TRUE)
    BY <1>4, Zenon DEF WaitFor
  <2>3. Here.op \in {"wait", "hold"} /\ Here.op # "exit"
    BY <2>1
  <2>4. 0 \in Nat /\ TRUE \in BOOLEAN
    OBVIOUS
  <2> QED
    BY <1>1, <2>2, <2>3, <2>4, OverKept, SleepKept, Zenon
<1>5. CASE HoldFor(Here)
  <2> DEFINE now == Holds(Here.pred, Here.t, Here.n)
             ok == IF Here.rows = "last" THEN now ELSE loc.rows /\ now
  <2>1. Here.op = "hold"
    BY <1>5, Zenon DEF HoldFor
  <2>2. Sleep(Here.add, ok) \/ Over(Here, loc.rows)
    BY <1>5, Zenon DEF HoldFor
  <2>3. Proper(Here)
    BY <1>1, <2>1, HpaHere
  <2>4. Here.add \in Nat /\ Here.pred \in Conditions
    BY <2>1, <2>3 DEF Proper, BareOps
  <2>5. now \in BOOLEAN
    BY <1>3, <2>4, HoldsIs
  <2> HIDE DEF now
  <2>6. ok \in BOOLEAN
    BY <2>5
  <2> HIDE DEF ok
  <2>7. Here.op \in {"wait", "hold"} /\ Here.op # "exit"
    BY <2>1
  <2> QED
    BY <1>1, <2>2, <2>4, <2>6, <2>7, OverKept, SleepKept, Zenon
<1>6. CASE Finish(Here)
  <2> DEFINE v == IF raised THEN "FAIL" ELSE "PASS"
             y == IF loc.proxy = "own" THEN "none" ELSE loc.proxy
  <2>1. Here.op = "exit" /\ pc' = 0 /\ raised' = FALSE /\ w' = w /\ blame' = blame
        /\ loc' = [loc EXCEPT !.verdict = v, !.proxy = y]
    BY <1>6, Zenon DEF Finish, Leave
  <2>2. v \in {"PASS", "FAIL"} /\ y \in {"none", "orphan"}
    BY <1>3 DEF HpaLoc
  <2>3. Promised => HpaLeft(w) = {} /\ loc.proxy = "own"
    <3>1. TrackAt(Program(loc.case), pc, HpaLeft(w), Promised) /\ (Promised => loc.proxy = "own")
      BY <1>1 DEF HpaInv
    <3>2. Program(loc.case)[pc].op \in {"exit", "lease"}
      BY <2>1 DEF Here
    <3> QED
      BY <3>1, <3>2, TrackKnows, Zenon
  <2>4. Promised => y = "none"
    BY <2>3
  <2> HIDE DEF v, y
  <2>5. HpaLoc(loc') /\ loc'.proxy = y
    BY <1>3, <2>1, <2>2 DEF HpaLoc
  <2>6. Promised' => Promised
    BY <2>1 DEF Promised
  <2>7. raised' \in BOOLEAN /\ blame' \subseteq Blames /\ w' \in HpaWorlds /\ HpaLeft(w') = HpaLeft(w)
    BY <2>1 DEF HpaInv
  <2> QED
    BY <2>1, <2>3, <2>4, <2>5, <2>6, <2>7 DEF HpaInv
<1> QED
  BY <1>1, <1>2, <1>4, <1>5, <1>6, HpaCallKept, ReadKept, Zenon

\* The cluster and time, while the script waits or between two runs.
LEMMA AroundKept ==
  ASSUME HpaInv, w' \in HpaWorlds, HpaLeft(w') = HpaLeft(w), pc' = pc, raised' = raised, loc' = loc, blame' = blame
  PROVE  HpaInv'
<1>1. PICK ok : ok = Promised
  OBVIOUS
<1>2. ok = Promised'
  BY <1>1 DEF Promised
<1>3. PICK L : L = HpaLeft(w)
  OBVIOUS
<1>4. L = HpaLeft(w')
  BY <1>3
<1>5. pc # 0 => TrackAt(Program(loc.case), pc, L, ok)
  BY <1>1, <1>3 DEF HpaInv
<1>6. pc' # 0 => TrackAt(Program(loc'.case), pc', HpaLeft(w'), Promised')
  BY <1>2, <1>4, <1>5
<1>7. HpaLoc(loc')
  BY DEF HpaInv
<1>8. Promised' => Promised
  BY DEF Promised
<1> QED
  BY <1>6, <1>7, <1>8 DEF HpaInv

LEMMA HpaNextTidy ==
  ASSUME HpaInv, HpaNext
  PROVE  HpaInv'
<1>1. w \in HpaWorlds /\ HpaLoc(loc) /\ raised \in BOOLEAN /\ blame \subseteq Blames
  BY DEF HpaInv
<1>2. CASE Sync
  <2>1. w' \in HpaWorlds /\ HpaLeft(w') = HpaLeft(w)
    BY <1>1, <1>2, SyncIs
  <2>2. pc' = pc /\ raised' = raised /\ loc' = loc /\ blame' = blame
    BY <1>2, Zenon DEF Sync
  <2> QED
    BY <2>1, <2>2, AroundKept
<1>3. CASE Rest
  <2>1. w.since < SyncPolls /\ w' = Later(0) /\ pc' = pc /\ raised' = raised /\ loc' = loc /\ blame' = blame
    BY <1>3, Zenon DEF Rest
  <2>2. 0 \in Nat /\ ~(0 > 0)
    OBVIOUS
  <2>3. Later(0) \in HpaWorlds /\ HpaLeft(Later(0)) = HpaLeft(w)
    BY <1>1, <2>1, <2>2, LaterIs
  <2> QED
    BY <2>1, <2>3, AroundKept
<1>4. CASE RestartBroker
  <2>1. w' = [w EXCEPT !.accepted = {}] /\ pc' = pc /\ raised' = raised /\ loc' = loc /\ blame' = blame
    BY <1>4, Zenon DEF RestartBroker
  <2>2. w' \in HpaWorlds
    BY <1>1, <2>1 DEF HpaWorlds
  <2>3. w'.up = w.up /\ w'.load = w.load /\ w'.rate = w.rate /\ w'.follow = w.follow
    BY <1>1, <2>1 DEF HpaWorlds
  <2> QED
    BY <2>1, <2>2, <2>3, SameLeft, AroundKept
<1>5. CASE Start
  <2>1. w' = w /\ blame' = blame /\ raised' = FALSE /\ pc = 0 /\ loc.run < MaxRuns
    BY <1>5, Zenon DEF Start, Idle, Begin, Leave
  <2> DEFINE n == loc.run + 1
             q == IF loc.proxy = "none" THEN "own" ELSE loc.proxy
             new(c) == [Cleared EXCEPT !.case = c, !.run = n, !.verdict = "none"]
  <2>2. PICK c \in Cases : \/ pc' = 1 /\ loc' = [new(c) EXCEPT !.proxy = IF @ = "none" THEN "own" ELSE @]
                           \/ loc.proxy = "orphan" /\ pc' = 0 /\ loc' = new(c)
    <3>1. Cleared.run = loc.run
      BY <1>1 DEF Cleared, HpaLoc
    <3> DEFINE old(c) == [Cleared EXCEPT !.case = c, !.run = @ + 1, !.verdict = "none"]
    <3>2. PICK c \in Cases : \/ Begin /\ loc' = [old(c) EXCEPT !.proxy = IF @ = "none" THEN "own" ELSE @]
                             \/ loc.proxy = "orphan" /\ Leave /\ loc' = old(c)
      BY <1>5, Zenon DEF Start
    <3>3. old(c) = new(c)
      BY <3>1
    <3> HIDE DEF old, new
    <3> QED
      BY <3>2, <3>3 DEF Begin, Leave
  <2>3. n \in 0..MaxRuns /\ n # 0
    BY <1>1, <2>1, ScriptAssumption DEF HpaLoc
  <2>4. q \in {"own", "orphan"}
    BY <1>1 DEF HpaLoc
  <2> HIDE DEF n
  <2>5. HpaLoc(new(c)) /\ new(c).proxy = loc.proxy /\ new(c).case = c /\ new(c).run = n
        /\ {"case", "run", "polls", "saw", "rows", "proxy", "verdict"} \subseteq DOMAIN new(c)
    BY <1>1, <2>3 DEF HpaLoc, Cleared
  <2> HIDE DEF new
  <2>6. Promised' => Promised
    BY <2>1 DEF Promised
  <2>7. Promised => HpaLeft(w) = {} /\ loc.proxy = "none"
    BY <2>1 DEF HpaInv
  <2>8. CASE pc' = 1 /\ loc' = [new(c) EXCEPT !.proxy = IF @ = "none" THEN "own" ELSE @]
    <3>1. loc' = [new(c) EXCEPT !.proxy = q]
      BY <2>5, <2>8
    <3>2. Promised => q = "own"
      BY <2>7
    <3> HIDE DEF q
    <3>3. HpaLoc(loc') /\ loc'.proxy = q /\ loc'.case = c /\ loc'.run = n
      BY <2>4, <2>5, <3>1 DEF HpaLoc
    <3>4. c \in CaseNames
      BY HpaAssumption
    <3>5. PICK ok : ok = Promised'
      OBVIOUS
    <3>6. PICK L : L = HpaLeft(w')
      OBVIOUS
    <3>7. ok => L = {}
      BY <2>1, <2>6, <2>7, <3>5, <3>6
    <3>8. TrackAt(Program(c), 1, L, ok)
      BY <3>4, <3>7, ProgramIsTidy, TrackStarts, Zenon
    <3>9. TrackAt(Program(loc'.case), pc', HpaLeft(w'), Promised')
      BY <2>8, <3>3, <3>5, <3>6, <3>8
    <3>10. w' \in HpaWorlds /\ raised' \in BOOLEAN /\ blame' \subseteq Blames /\ pc' # 0
      <4>1. pc' = 1
        BY <2>8, Zenon
      <4>2. pc' # 0
        BY <4>1
      <4>3. raised' \in BOOLEAN
        BY <2>1
      <4> QED
        BY <1>1, <2>1, <4>2, <4>3, Zenon
    <3> QED
      BY <2>3, <2>6, <3>2, <3>3, <3>9, <3>10 DEF HpaInv
  <2>9. CASE loc.proxy = "orphan" /\ pc' = 0 /\ loc' = new(c)
    <3>1. ~Promised'
      BY <2>6, <2>7, <2>9
    <3>2. w' \in HpaWorlds /\ raised' \in BOOLEAN /\ blame' \subseteq Blames /\ HpaLoc(loc')
      BY <1>1, <2>1, <2>5, <2>9
    <3> QED
      BY <2>9, <3>1, <3>2 DEF HpaInv
  <2> QED
    BY <2>2, <2>8, <2>9
<1>6. CASE Kill
  <2> DEFINE q == IF loc.proxy = "own" THEN "orphan" ELSE loc.proxy
  <2>1. w' = w /\ raised' = FALSE /\ pc' = 0 /\ blame' = blame \cup {"kill"}
    BY <1>6, Zenon DEF Kill, Die, Leave, Fault
  <2>2. Cleared.proxy = loc.proxy
    BY <1>1 DEF Cleared, HpaLoc
  <2>3. loc' = [Cleared EXCEPT !.proxy = q]
    <3>1. loc' = [Cleared EXCEPT !.proxy = IF @ = "own" THEN "orphan" ELSE @]
      BY <1>6 DEF Kill
    <3>2. [Cleared EXCEPT !.proxy = IF @ = "own" THEN "orphan" ELSE @] = [Cleared EXCEPT !.proxy = q]
      BY <2>2
    <3> QED
      BY <3>1, <3>2, Zenon
  <2>4. q \in {"none", "orphan"}
    BY <1>1 DEF HpaLoc
  <2> HIDE DEF q
  <2>5. HpaLoc(loc')
    BY <1>1, <2>3, <2>4 DEF HpaLoc, Cleared
  <2>6. ~Promised' /\ blame' \subseteq Blames
    BY <1>1, <2>1 DEF Promised, Blames
  <2>7. w' \in HpaWorlds /\ raised' \in BOOLEAN
    BY <1>1, <2>1
  <2> QED
    BY <2>1, <2>5, <2>6, <2>7 DEF HpaInv
<1> QED
  BY <1>2, <1>3, <1>4, <1>5, <1>6, HpaStepTidy, Zenon DEF HpaNext

LEMMA HpaBegins ==
  ASSUME HpaInit
  PROVE  HpaInv
<1>1. w = Setup /\ pc = 0 /\ raised = FALSE /\ blame = {}
  BY Zenon DEF HpaInit
<1>2. HpaLoc(loc) /\ loc.proxy = "none"
  <2>1. loc \in [case : Cases, run : {0}, polls : {0}, saw : {NoHpa}, rows : {TRUE}, proxy : {"none"}, verdict : {"none"}]
    BY Zenon DEF HpaInit
  <2>2. {"case", "run", "polls", "saw", "rows", "proxy", "verdict"} \subseteq DOMAIN loc
    BY <2>1
  <2>3. loc.case \in Cases /\ loc.run = 0 /\ loc.rows = TRUE /\ loc.proxy = "none" /\ loc.verdict = "none"
    BY <2>1
  <2>4. loc.run \in 0..MaxRuns
    BY <2>3, ScriptAssumption
  <2>5. loc.rows \in BOOLEAN
    BY <2>3
  <2> QED
    BY <2>2, <2>3, <2>4, <2>5 DEF HpaLoc
<1>3. Setup \in HpaWorlds
  <2>1. HpaQueue \in Specs /\ NoHpa \in Specs
    BY SpecsAre, NoHpaIs, Zenon
  <2>2. 0 \in 0..MaxReplicas /\ 1 \in 0..MaxReplicas /\ 0 \in 0..Longest /\ 0 \in 0..SyncPolls
    BY LongestIs DEF MaxReplicas, SyncPolls
  <2> QED
    BY <2>1, <2>2 DEF Setup, HpaWorlds, Counted
<1>4. HpaLeft(Setup) = {}
  BY DEF HpaLeft, Setup
<1> QED
  BY <1>1, <1>2, <1>3, <1>4 DEF HpaInv

----------------------------------------------------------------------------
(* The theorems.                                                           *)

\* What is on, in the experiment that runs.
TidyInv ==
  /\ lab = "hpa" => HpaInv
  /\ lab = "watch" => WatchTidy
  /\ lab = "ha" => HaTidy

LEMMA TidyBegins ==
  ASSUME Init
  PROVE  TidyInv
<1>1. lab = "hpa" => HpaInit
  BY DEF Init
<1>2. lab = "watch" => WatchInit
  BY DEF Init
<1>3. lab = "ha" => HaInit
  BY DEF Init
<1> QED
  BY <1>1, <1>2, <1>3, HpaBegins, WatchBegins, HaBegins, Zenon DEF TidyInv

LEMMA TidyStays ==
  ASSUME TidyInv, [Next]_scriptVars
  PROVE  TidyInv'
<1>1. CASE Next
  <2>1. lab' = lab
    BY <1>1, Zenon DEF Next
  <2>2. (lab = "hpa" => HpaNext) /\ (lab = "watch" => WatchNext) /\ (lab = "ha" => HaNext)
    BY <1>1 DEF Next
  <2>3. lab = "hpa" => HpaInv'
    BY <2>2, HpaNextTidy, Zenon DEF TidyInv
  <2>4. lab = "watch" => WatchTidy'
    BY <2>2, WatchNextTidy, Zenon DEF TidyInv
  <2>5. lab = "ha" => HaTidy'
    BY <2>2, HaNextTidy, Zenon DEF TidyInv
  <2> QED
    BY <2>1, <2>3, <2>4, <2>5 DEF TidyInv
<1>2. CASE UNCHANGED scriptVars
  <2>1. lab' = lab /\ pc' = pc /\ raised' = raised /\ w' = w /\ loc' = loc /\ blame' = blame
    BY <1>2, Zenon DEF scriptVars
  <2>2. lab = "hpa" => HpaInv'
    <3>1. lab = "hpa" => HpaInv /\ w' \in HpaWorlds /\ HpaLeft(w') = HpaLeft(w)
      BY <2>1 DEF TidyInv, HpaInv
    <3> QED
      BY <2>1, <3>1, AroundKept
  <2>3. lab = "watch" => WatchTidy'
    <3>1. (Promised' <=> Promised) /\ DOMAIN w' = DOMAIN w /\ w'.proxy = w.proxy /\ RunStays
      BY <2>1 DEF Promised, RunStays
    <3> QED
      BY <2>1, <3>1, WatchAroundKept, Zenon DEF TidyInv
  <2>4. lab = "ha" => HaTidy'
    <3>1. DOMAIN w' = DOMAIN w /\ w'.paused = w.paused
      BY <2>1
    <3> QED
      BY <2>1, <3>1, HaAroundKept, Zenon DEF TidyInv
  <2> QED
    BY <2>1, <2>2, <2>3, <2>4 DEF TidyInv
<1> QED
  BY <1>1, <1>2

(* Restored, for every number of runs, failing calls, kills and restarts   *)
(* of the API server: a run that was not killed and whose failing calls    *)
(* were all inside try blocks leaves no metrics component at zero, no load *)
(* and no reader of logs (hpa/advanced/run.py:443), no proxy               *)
(* (article-watch-consistency/run.py:257) and no paused node               *)
(* (article-control-ha/failover.py:30).                                    *)
THEOREM RunsLeaveNothing == Spec => []Restored
<1>1. Init => TidyInv
  BY TidyBegins
<1>2. TidyInv /\ [Next]_scriptVars => TidyInv'
  BY TidyStays
<1>3. TidyInv => Restored
  <2> SUFFICES ASSUME TidyInv, pc = 0, Promised
               PROVE  CASE lab = "hpa" -> OutageUndone
                        [] lab = "watch" -> WatchUndone
                        [] lab = "ha" -> HaUndone
                        [] OTHER -> TRUE
    BY Zenon DEF Restored, Idle, Promised
  <2>1. ASSUME lab = "hpa"
        PROVE  OutageUndone
    <3>1. w \in HpaWorlds /\ HpaLeft(w) = {} /\ loc.proxy = "none"
      BY <2>1 DEF TidyInv, HpaInv
    <3>2. \A c \in Components : w.up[c]
      BY <3>1 DEF HpaLeft, Things
    <3>3. ~w.load /\ w.rate = 0 /\ ~w.follow
      BY <3>1 DEF HpaLeft, Things
    <3> QED
      BY <3>1, <3>2, <3>3 DEF OutageUndone
  <2>2. ASSUME lab = "watch"
        PROVE  WatchUndone
    <3>1. WatchLeft(w) = {}
      BY <2>2 DEF TidyInv, WatchTidy
    <3> QED
      BY <3>1 DEF WatchLeft, WatchUndone, Things
  <2>3. ASSUME lab = "ha"
        PROVE  HaUndone
    <3>1. HaLeft(w) = {}
      BY <2>3 DEF TidyInv, HaTidy
    <3> QED
      BY <3>1 DEF HaLeft, HaUndone, Things
  <2> QED
    BY <2>1, <2>2, <2>3
<1> QED
  BY <1>1, <1>2, <1>3, PTL DEF Spec

(* HpaTypeOK, for every set of scenarios, number of runs, failing calls    *)
(* and kills: no order of scenarios, no configuration an earlier run has   *)
(* left and no sequence of decisions of the autoscaler takes a Deployment  *)
(* beyond its maximum, or a window beyond the longest of the manifests.    *)
THEOREM HpaTypeCorrect == Spec => []HpaTypeOK
<1>1. Init => TidyInv
  BY TidyBegins
<1>2. TidyInv /\ [Next]_scriptVars => TidyInv'
  BY TidyStays
<1>3. TidyInv => HpaTypeOK
  <2> SUFFICES ASSUME TidyInv, lab = "hpa"
               PROVE  HpaTypeOK
    BY DEF HpaTypeOK
  <2>1. HpaInv
    BY Zenon DEF TidyInv
  <2>2. w \in HpaWorlds /\ HpaLoc(loc) /\ raised \in BOOLEAN
    BY <2>1, Zenon DEF HpaInv
  <2>3. pc \in Nat
    <3>1. CASE pc = 0
      BY <3>1
    <3>2. CASE pc # 0
      BY <2>1, <3>2, HpaHere
    <3> QED
      BY <3>1, <3>2
  <2>4. /\ w.hpa \in [Targets -> Specs] /\ w.rep \in Counted /\ w.rdy \in Counted /\ w.desired \in Counted
        /\ w.active \in [Targets -> BOOLEAN] /\ w.age \in [Targets -> 0..Longest]
        /\ w.up \in [Components -> BOOLEAN] /\ w.since \in 0..SyncPolls
        /\ w.gauge \in 0..35 /\ w.rate \in {0, 15, 35} /\ w.payload \in 0..2
        /\ w.busy \in 0..Longest /\ w.warm \in 0..Longest /\ w.work \in Nat
        /\ w.accepted \subseteq 1..MaxRuns
    BY <2>2 DEF HpaWorlds
  <2>5. {w.load, w.slow, w.follow} \subseteq BOOLEAN
    BY <2>2 DEF HpaWorlds
  <2>6. \A f \in {w.rep, w.rdy, w.desired} : f \in [Targets -> 0..MaxReplicas]
    BY <2>4 DEF Counted
  <2>7. loc.rows \in BOOLEAN /\ loc.case \in Cases /\ loc.run \in 0..MaxRuns
        /\ loc.proxy \in {"none", "own", "orphan"} /\ loc.verdict \in {"none", "PASS", "FAIL"}
    BY <2>2, Zenon DEF HpaLoc
  <2>8. w.hpa \in [Targets -> [metrics : SUBSET {"queue", "tasks", "rps", "bytes", "cpu"},
                              window : 0..Longest, policy : {"none", "pods", "percent"},
                              min : 0..MaxReplicas]]
    BY <2>4, Zenon DEF Specs
  <2>9. blame \subseteq {"body", "open", "cleanup", "kill"}
    BY <2>1, Zenon DEF HpaInv, Blames
  <2> QED
    BY <2>2, <2>3, <2>4, <2>5, <2>6, <2>7, <2>8, <2>9, Zenon DEF HpaTypeOK
<1> QED
  BY <1>1, <1>2, <1>3, PTL DEF Spec

=============================================================================
