---------------------------- MODULE WatchClient ----------------------------
(***************************************************************************)
(* article-watch-consistency/run.py: a client of the list and watch API.   *)
(* It provokes an expired resource version, lists, watches from the listed *)
(* version until a Pod appears, and resumes the watch from the last        *)
(* version it has seen until that Pod is deleted.                          *)
(*                                                                         *)
(* External: the API server, with a revision that every write raises, the  *)
(* log of the changes to Pods, and a watch cache that reaches back to the  *)
(* revision of its own start.  Leases are renewed every few seconds, so    *)
(* the revision has moved on before the API server is back from a restart. *)
(***************************************************************************)
EXTENDS Script, SequencesExt

CONSTANT MaxLeases   \* bound: writes to other objects

ASSUME WatchAssumption == MaxLeases \in Nat

PodNames == {"before", "after"}
NoPod == "absent"

ApiServer == [rev |-> 1, base |-> 0, log |-> <<>>, pod |-> [p \in PodNames |-> NoPod],
              proxy |-> 0, pos |-> 0, leases |-> 0]
\* The variables of the script; got and upto, the version of the last event, are history.
NothingSeen == [expired |-> 0, list |-> 0, last |-> 0, got |-> <<>>, upto |-> 0]

\* Pod p enters a phase, which is written and logged.
Changed(p, phase, type) ==
  [w EXCEPT !.rev = @ + 1, !.pod[p] = phase,
            !.log = Append(@, [rev |-> w.rev + 1, type |-> type, name |-> p])]

Kubelet ==
  \E p \in PodNames :
    /\ \/ w.pod[p] = "pending" /\ w' = Changed(p, "scheduled", "MODIFIED")
       \/ w.pod[p] = "scheduled" /\ w' = Changed(p, "running", "MODIFIED")
       \/ w.pod[p] = "deleting" /\ w' = Changed(p, NoPod, "DELETED")
    /\ Aside /\ UNCHANGED blame

Lease ==
  /\ w.leases < MaxLeases
  /\ w' = [w EXCEPT !.rev = @ + 1, !.leases = @ + 1]
  /\ Aside /\ UNCHANGED blame

\* The API server restarts by itself: the watch cache begins anew, the watch breaks.
ApiServerCrash ==
  /\ Fault("crash")
  /\ w' = [w EXCEPT !.base = w.rev, !.pos = -1]
  /\ UNCHANGED <<pc, raised>> /\ loc' = [loc EXCEPT !.clean = FALSE]

----------------------------------------------------------------------------
(* The script.                                                             *)

WatchProgram ==
  Main(<<Bare("new_lab"), Bare("proxy")>>
       \o Try(<<Bare("version"), Bare("restart"), Bare("version"), Bare("expired"),
                Bare("apply_before"), Bare("ready_before"), Bare("list"),
                Bare("watch_list"), Bare("apply_after"), Bare("read_added"),
                Bare("watch_last"), Bare("delete_after"), Bare("read_deleted")>>,
              <<Bare("stop_proxy")>>)
       \o <<Bare("delete_ns")>>)

\* Deleting the namespace deletes its Pods.
GonePods ==
  LET there == SetToSeq({p \in PodNames : w.pod[p] # NoPod})
      events == [i \in DOMAIN there |-> [rev |-> w.rev + i, type |-> "DELETED", name |-> there[i]]]
  IN  [w EXCEPT !.rev = @ + Len(there), !.log = @ \o events, !.pod = [p \in PodNames |-> NoPod]]

EmptyLab(s) ==
  /\ s.op \in {"new_lab", "delete_ns"}
  /\ Call(s, GonePods) /\ Set(NothingSeen)

(* w.proxy is the run whose proxy has the port, 0 when it is free.  While  *)
(* the proxy of an earlier run has it, the new one exits unnoticed; a run  *)
(* terminates its own child only.                                          *)
StartProxy(s) ==
  s.op = "proxy" /\ Call(s, [w EXCEPT !.proxy = IF @ = 0 THEN loc.run ELSE @]) /\ Note
StopProxy(s) ==
  s.op = "stop_proxy" /\ Call(s, [w EXCEPT !.proxy = IF @ = loc.run THEN 0 ELSE @]) /\ Note
Version(s) == s.op = "version" /\ Await(s, w.proxy # 0, TRUE) /\ Note

\* The listed revision is compacted, then the API server is stopped and comes back.
compact_etcd_and_restart_apiserver(s) ==
  /\ s.op = "restart"
  /\ Call(s, [w EXCEPT !.rev = @ + 1, !.base = w.rev + 1, !.pos = -1])
  /\ Set([loc.mem EXCEPT !.expired = w.rev])

\* A watch can begin at version rv unless the watch cache begins later.
Expired(rv) == rv < w.base

ExpectExpired(s) == s.op = "expired" /\ Require(s, Expired(loc.mem.expired)) /\ Note

Create(s, p) == Call(s, Changed(p, "pending", "ADDED"))
ApplyPod(s) ==
  \/ s.op = "apply_before" /\ Create(s, "before") /\ Note
  \/ s.op = "apply_after" /\ Create(s, "after") /\ Note

ReadyBefore(s) == s.op = "ready_before" /\ Await(s, w.pod["before"] = "running", FALSE) /\ Note

ListPods(s) ==
  /\ s.op = "list" /\ Call(s, w)
  /\ Set([loc.mem EXCEPT !.list = w.rev, !.last = w.rev, !.got = <<>>, !.upto = w.rev])

\* Mutant: the second watch begins where the first began.
WatchFromList(s) ==
  /\ s.op \in {"watch_list", "watch_last"}
  /\ IF Expired(loc.mem.list) THEN Fail(s) ELSE Call(s, [w EXCEPT !.pos = loc.mem.list])
  /\ Note

Watch(s) ==
  /\ s.op \in {"watch_list", "watch_last"}
  /\ LET rv == IF s.op = "watch_list" THEN loc.mem.list ELSE loc.mem.last IN
     IF Expired(rv) THEN Fail(s) ELSE Call(s, [w EXCEPT !.pos = rv])
  /\ Note

DeleteAfter(s) ==
  /\ s.op = "delete_after"
  /\ Call(s, IF w.pod["after"] = NoPod THEN w ELSE Changed("after", "deleting", "MODIFIED"))
  /\ Note

\* The event the loop is waiting for.
Wanted(s, e) ==
  /\ e.name = "after"
  /\ e.type = IF s.op = "read_added" THEN "ADDED" ELSE "DELETED"

(* One turn of a read loop: the next event after the position of the       *)
(* stream.  Only the first loop keeps the version of the event in last_rv. *)
ReadEvent(s) ==
  /\ s.op \in {"read_added", "read_deleted"}
  /\ \E e \in {ev \in Range(w.log) : w.pos # -1 /\ ev.rev > w.pos} :
       /\ \A ev \in Range(w.log) : ev.rev > w.pos => e.rev <= ev.rev
       /\ w' = [w EXCEPT !.pos = e.rev] /\ UNCHANGED blame
       /\ IF Wanted(s, e) THEN Return ELSE UNCHANGED <<pc, raised>>
       /\ Set([loc.mem EXCEPT !.got = Append(@, e), !.upto = e.rev,
                              !.last = IF s.op = "read_added" THEN e.rev ELSE @])

\* The stream ends before the event: broken, or after its 30 seconds.
StreamEnds(s) ==
  /\ s.op \in {"read_added", "read_deleted"}
  /\ \/ w.pos = -1 /\ Fail(s) /\ Note
     \/ Faults(s) /\ Raise(s) /\ w' = [w EXCEPT !.pos = -1] /\ Note

WatchStep ==
  /\ ~Idle
  /\ \E s \in {WatchProgram[pc]} :
       \/ EmptyLab(s) \/ StartProxy(s) \/ StopProxy(s) \/ Version(s)
       \/ compact_etcd_and_restart_apiserver(s) \/ ExpectExpired(s) \/ ApplyPod(s)
       \/ ReadyBefore(s) \/ ListPods(s) \/ Watch(s) \/ DeleteAfter(s) \/ ReadEvent(s)
       \/ StreamEnds(s) \/ EndRun(s) \/ (EndTry(s) /\ Note)

WatchInit == w = ApiServer /\ FirstRun(NothingSeen)
WatchNext == WatchStep \/ Kubelet \/ Lease \/ ApiServerCrash \/ StartRun \/ KillRun

\* The proxy is the only thing the script has to put away itself.
WatchUndone == w.proxy = 0

----------------------------------------------------------------------------
(* The two watches together show every change since the list, in order and *)
(* once, up to the last event received: the second begins at the version   *)
(* of the last event of the first (line 223), so changes made while no     *)
(* watch was open are neither missed nor repeated.                         *)
WatchSeesEveryChange ==
  lab = "watch" /\ ~Idle =>
    /\ Range(loc.mem.got) = {e \in Range(w.log) : loc.mem.list < e.rev /\ e.rev <= loc.mem.upto}
    /\ \A i, j \in DOMAIN loc.mem.got : i < j => loc.mem.got[i].rev < loc.mem.got[j].rev
=============================================================================
