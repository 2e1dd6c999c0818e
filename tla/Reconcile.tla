----------------------------- MODULE Reconcile -----------------------------
(***************************************************************************)
(* deep-dive-reconcile/run.py: a reconcile function whose effect is a      *)
(* ConfigMap named after the UID of the desired one.  It is called three   *)
(* times, the first time without its acknowledgement, after a write of a   *)
(* stale copy that the API server has to refuse.                           *)
(*                                                                         *)
(* External: the API server, with a version per object, and another client *)
(* that may edit the desired value at any time.                            *)
(***************************************************************************)
EXTENDS Script

NoDesired == [uid |-> 0, rv |-> 0, value |-> "none", observed |-> "none"]
Store == [desired |-> NoDesired, effects |-> {}, uids |-> 0]
ReconcileMem == [cached |-> NoDesired, desired |-> NoDesired, created |-> FALSE, was |-> {}]

\* A write to the desired object.
Written(d) == [w EXCEPT !.desired = [d EXCEPT !.rv = w.desired.rv + 1]]

OtherClient ==
  /\ w.desired # NoDesired /\ Fault("edit")
  /\ w' = Written([w.desired EXCEPT !.value = "edited"])
  /\ UNCHANGED <<pc, raised>> /\ loc' = [loc EXCEPT !.clean = FALSE]

\* Mutant: the acknowledgement comes before the effect.
reconcileAcksFirst(crash) ==
  <<Bare("get_desired"), Bare("ack"), Bare("create_effect"), Bare("patch_effect")>>

\* reconcile(crash) stops before the acknowledgement.
reconcile(crash) ==
  <<Bare("get_desired"), Bare("create_effect"), Bare("patch_effect")>>
  \o IF crash THEN <<>> ELSE <<Bare("ack")>>

ReconcileProgram ==
  Main(<<Bare("lab"), Bare("apply_desired"), Bare("get_cached"), Bare("patch_two"),
         Bare("replace_stale")>>
       \o reconcile(TRUE) \o reconcile(FALSE) \o reconcile(FALSE) \o <<Bare("one_effect")>>)

ReconcileLab(s) == s.op = "lab" /\ Call(s, [Store EXCEPT !.uids = w.uids]) /\ Set([ReconcileMem EXCEPT !.was = loc.mem.was])

ApplyDesired(s) ==
  /\ s.op = "apply_desired"
  /\ Call(s, [w EXCEPT !.uids = @ + 1,
                       !.desired = [uid |-> w.uids + 1, rv |-> 1, value |-> "one", observed |-> "none"]])
  /\ Note

GetCached(s) ==
  s.op = "get_cached" /\ Call(s, w) /\ Set([loc.mem EXCEPT !.cached = w.desired])

PatchTwo(s) ==
  s.op = "patch_two" /\ Call(s, Written([w.desired EXCEPT !.value = "two"])) /\ Note

\* A replace carries the version it was read at: the conflict is what the script expects.
ReplaceStale(s) ==
  /\ s.op = "replace_stale"
  /\ IF loc.mem.cached.rv = w.desired.rv
     THEN w' = Written([loc.mem.cached EXCEPT !.value = "stale-write"]) /\ Raise(s) /\ UNCHANGED blame
     ELSE Call(s, w)
  /\ Note

GetDesired(s) ==
  s.op = "get_desired" /\ Call(s, w) /\ Set([loc.mem EXCEPT !.desired = w.desired])

Effect == [uid |-> loc.mem.desired.uid, value |-> loc.mem.desired.value]
Existing == {e \in w.effects : e.uid = loc.mem.desired.uid}

\* The effect is created, unless a reconcile before has created it.
CreateEffect(s) ==
  /\ s.op = "create_effect"
  /\ Call(s, [w EXCEPT !.effects = IF Existing = {} THEN @ \cup {Effect} ELSE @])
  /\ Set([loc.mem EXCEPT !.created = (Existing = {}),
                         !.was = IF w' # w THEN @ \cup {Effect} ELSE @])

\* Then its data are patched.
PatchEffect(s) ==
  /\ s.op = "patch_effect"
  /\ IF loc.mem.created THEN Return /\ UNCHANGED <<w, blame>>
     ELSE Call(s, [w EXCEPT !.effects = (@ \ Existing) \cup {Effect}])
  /\ Set([loc.mem EXCEPT !.was = IF w' # w THEN @ \cup {Effect} ELSE @])

\* A merge patch of the annotation, whatever the value is by now.
Acknowledge(s) ==
  /\ s.op = "ack"
  /\ Call(s, Written([w.desired EXCEPT !.observed = loc.mem.desired.value]))
  /\ Note

OneEffect(s) ==
  /\ s.op = "one_effect"
  /\ Require(s, \E e \in w.effects : w.effects = {e} /\ e.value = "two") /\ Note

ReconcileStep ==
  /\ ~Idle
  /\ \E s \in {ReconcileProgram[pc]} :
       \/ ReconcileLab(s) \/ ApplyDesired(s) \/ GetCached(s) \/ PatchTwo(s) \/ ReplaceStale(s)
       \/ GetDesired(s) \/ CreateEffect(s) \/ PatchEffect(s) \/ Acknowledge(s) \/ OneEffect(s)
       \/ EndRun(s)

ReconcileInit == w = Store /\ FirstRun(ReconcileMem)
ReconcileNext == ReconcileStep \/ OtherClient \/ StartRun \/ KillRun

----------------------------------------------------------------------------
(* However often reconcile is repeated, and wherever it stops, there is at *)
(* most one effect, it belongs to the desired object that is there, and    *)
(* the value that is acknowledged has been the value of that effect, also  *)
(* when the desired value is edited between the read (line 17) and the     *)
(* acknowledgement (line 26).                                              *)
EffectBeforeAck ==
  lab = "reconcile" =>
    /\ \A e \in w.effects : w.effects = {e} /\ e.uid = w.desired.uid
    /\ w.desired.observed # "none" =>
         w.effects # {} /\ [uid |-> w.desired.uid, value |-> w.desired.observed] \in loc.mem.was
=============================================================================
