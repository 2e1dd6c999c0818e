------------------------------ MODULE HpaCases ------------------------------
(***************************************************************************)
(* The scenarios of hpa/advanced/run.py, each as the sequence of calls it  *)
(* makes.  What a call does is defined in HpaLab.  Times are counted in    *)
(* polls of 5 seconds.  emit() and stage() only write evidence and are     *)
(* left out, as are reads whose result is only recorded.                   *)
(***************************************************************************)
EXTENDS Script

\* run.py sleeps 5 seconds between two snapshots.
Polls(seconds) == seconds \div 5

(* The manifests: which metrics, the scale-down window, the rate policy.   *)
Manifest(metrics, window, policy) ==
  [metrics |-> metrics, window |-> Polls(window), policy |-> policy, min |-> 1]
HpaQueue    == Manifest({"queue"}, 30, "none")
HpaMulti    == Manifest({"cpu", "queue"}, 30, "none")
HpaConsumer == Manifest({"tasks"}, 30, "none")
HpaPods     == Manifest({"rps"}, 30, "none")
HpaBytes    == Manifest({"bytes"}, 30, "none")
HpaPolicy(p) == Manifest({"queue"}, 0, p)

(* The calls.                                                              *)
Apply(t, spec)    == [op |-> "apply", esc |-> 0, part |-> "open", t |-> t, spec |-> spec]
CopyHpa(t)        == [op |-> "copy", esc |-> 0, part |-> "open", t |-> t]
Patch(t, fields)  == [op |-> "patch", esc |-> 0, part |-> "open", t |-> t, fields |-> fields]
DropHpa(t, must)  == [op |-> "drophpa", esc |-> 0, part |-> "open", t |-> t, must |-> must]
ScaleTo(t, n)     == [op |-> "scale", esc |-> 0, part |-> "open", t |-> t, n |-> n]
Switch(c, on)     == [op |-> "switch", esc |-> 0, part |-> "open", t |-> c, on |-> on]
Gauge(n)          == [op |-> "gauge", esc |-> 0, part |-> "open", n |-> n]
Load(on)          == [op |-> "load", esc |-> 0, part |-> "open", on |-> on]
HttpLoad(r, size) == [op |-> "http_load", esc |-> 0, part |-> "open", rate |-> r, payload |-> size]
Slow(on)          == [op |-> "slow", esc |-> 0, part |-> "open", on |-> on]
Deploy(n)         == [op |-> "deploy", esc |-> 0, part |-> "open", n |-> n]
Enqueue(n, long)  == [op |-> "enqueue", esc |-> 0, part |-> "open", n |-> n, long |-> long]
Follow(on)        == [op |-> "follow", esc |-> 0, part |-> "open", on |-> on]
Check(pred, t, n) == [op |-> "check", esc |-> 0, part |-> "open", pred |-> pred, t |-> t, n |-> n, hpa |-> FALSE]

(* Waiting.  hpa: the poll reads the HPA first; add: tasks submitted       *)
(* meanwhile, in units of what one consumer does between two polls.        *)
Wait(pred, t, n, secs, hpa) ==
  [op |-> "wait", esc |-> 0, part |-> "open", pred |-> pred, t |-> t, n |-> n, limit |-> Polls(secs), hpa |-> hpa]
Hold(secs, pred, t, n, rows) ==
  [op |-> "hold", esc |-> 0, part |-> "open", pred |-> pred, t |-> t, n |-> n, limit |-> Polls(secs), hpa |-> TRUE,
                   rows |-> rows, add |-> 0]
wait_forShort(pred, t, n) == Wait(pred, t, n, 30, TRUE)
wait_for(pred, t, n) == Wait(pred, t, n, 240, TRUE)
steady(n, t) == wait_for("steady", t, n)
ready(t) == Wait("ready", t, 0, 180, FALSE)
hold(secs, t) == Hold(secs, "any", t, 0, "all")
Restore(c) == <<Switch(c, TRUE), ready(c)>>

----------------------------------------------------------------------------
(* The scenarios.                                                          *)

reset_worker == <<Apply("worker", HpaQueue), Gauge(0), steady(1, "worker")>>

level(q, n) == <<Gauge(q), steady(n, "worker")>>

steps ==
  reset_worker
  \o level(15, 2) \o level(25, 3) \o level(35, 4)
  \o level(25, 3) \o level(15, 2) \o level(5, 1) \o level(35, 4)
  \o <<Patch("worker", [window |-> Polls(60)]), Gauge(0),
       Hold(25, "requested", "worker", 4, "all"),
       Gauge(35), hold(20, "worker")>>
  \o level(0, 1)

policy(p) ==
  reset_worker \o <<Apply("worker", HpaPolicy(p)), hold(35, "worker")>>
  \o level(35, 4) \o <<hold(35, "worker")>> \o level(0, 1)

policies == policy("pods") \o policy("percent")

multi ==
  reset_worker \o <<Apply("worker", HpaMulti)>> \o level(35, 4)
  \o <<hold(25, "worker"), Gauge(0), Switch("adapter", FALSE)>>
  \o Try(<<wait_for("inactive", "worker", 0), Hold(45, "requested", "worker", 4, "all")>>,
         Restore("adapter"))
  \o <<steady(1, "worker"), Switch("adapter", FALSE)>>
  \o Try(<<Load(TRUE), steady(4, "worker"), Check("no_metric", "worker", 0)>>,
         <<Load(FALSE)>> \o Restore("adapter"))
  \o level(0, 1) \o <<Load(TRUE)>>
  \o Try(<<steady(4, "worker")>>, <<Load(FALSE)>>)
  \o <<steady(1, "worker")>>

\* Mutant: nothing in the finally block.
outageNoFinally(c) ==
  <<Switch(c, FALSE)>>
  \o Try(<<hold(40, "worker"), Hold(5, "held", "worker", 4, "all")>>, <<>>)
  \o Restore(c) \o level(35, 4)

outage(c) ==
  <<Switch(c, FALSE)>>
  \o Try(<<hold(40, "worker"), Hold(5, "held", "worker", 4, "all")>>, Restore(c))
  \o level(35, 4)

failures ==
  reset_worker \o level(35, 4)
  \o outage("queue") \o outage("prometheus") \o outage("adapter")
  \o level(0, 1)

scheduling ==
  reset_worker
  \o <<Gauge(35), Deploy(1), CopyHpa("blocked"),
       wait_for("pending", "blocked", 4),
       DropHpa("blocked", TRUE), Deploy(0),
       DropHpa("web", FALSE), ScaleTo("web", 1), Slow(TRUE), ready("web"),
       CopyHpa("web"), wait_for("partial", "web", 4), steady(4, "web"),
       Gauge(0), steady(1, "web"),
       DropHpa("web", TRUE), Slow(FALSE), ready("web")>>

pods ==
  <<Apply("web", HpaPods), steady(1, "web"), HttpLoad(35, 0)>>
  \o Try(<<wait_for("atleast", "web", 3), Hold(60, "full", "web", 4, "last")>>,
         <<HttpLoad(0, 0)>>)
  \o <<steady(1, "web")>>

\* One pass of the loop of application_throughput.
throughput(rate, payload, n) ==
  <<HttpLoad(rate, payload), steady(n, "web"), Hold(45, "full", "web", n, "all"),
    Check("throughput", "web", rate)>>

application_throughput(spec, high, low) ==
  <<HttpLoad(0, 0), Apply("web", spec), steady(1, "web")>>
  \o Try(throughput(high[1], high[2], 4) \o throughput(low[1], low[2], 2),
         <<HttpLoad(0, 0)>>)
  \o <<steady(1, "web"), Check("throughput", "web", 0)>>

requests  == application_throughput(HpaPods, <<35, 0>>, <<15, 0>>)
bandwidth == application_throughput(HpaBytes, <<35, 2>>, <<35, 1>>)

\* 80 tasks of one second are 16 units; the producer adds 10 s of work per poll.
Produce(secs) == [Hold(secs, "any", "consumer", 0, "all") EXCEPT !.add = 2]

real ==
  <<DropHpa("consumer", FALSE), ScaleTo("consumer", 1), ready("consumer"),
    Check("fresh", "consumer", 0), Enqueue(16, FALSE),
    Wait("drained", "consumer", 0, 180, FALSE),
    Apply("consumer", HpaConsumer), steady(1, "consumer"), Enqueue(16, FALSE),
    wait_for("more", "consumer", 1), wait_for("drained", "consumer", 0),
    steady(1, "consumer"), Produce(60), wait_for("drained", "consumer", 0),
    steady(1, "consumer"), Patch("consumer", [min |-> 4]), steady(4, "consumer")>>
  \o Try(<<Follow(TRUE), Enqueue(0, TRUE), wait_for("inflight", "consumer", 0),
           Patch("consumer", [min |-> 1, window |-> 0]),
           wait_for("draining", "consumer", 1), wait_for("drained", "consumer", 0),
           steady(1, "consumer")>>,
         <<Follow(FALSE)>>)
  \o <<Check("audit", "consumer", 0)>>

\* globals()[args.case]: the cases the command line offers.
CaseNames == {"steps", "policies", "real", "multi", "failures", "scheduling", "pods",
              "requests", "bandwidth"}
Program(c) ==
  Main(CASE c = "steps"      -> steps
         [] c = "policies"   -> policies
         [] c = "real"       -> real
         [] c = "multi"      -> multi
         [] c = "failures"   -> failures
         [] c = "scheduling" -> scheduling
         [] c = "pods"       -> pods
         [] c = "requests"   -> requests
         [] c = "bandwidth"  -> bandwidth)
=============================================================================
