---------------------------- MODULE PvcExpansion ----------------------------
(***************************************************************************)
(* article-pvc-expansion/run.py: a claim is expanded while a Pod uses it,  *)
(* the Pod is replaced so that the node side can follow, and two requests  *)
(* that must be refused are made.                                          *)
(*                                                                         *)
(* External: the API server, which admits a larger request only if the     *)
(* StorageClass allows it and never a smaller one; the CSI driver, which   *)
(* makes and expands volumes and logs its calls, in a Pod that outlives    *)
(* the runs; the kubelet, which expands the file system when it mounts.    *)
(***************************************************************************)
EXTENDS Script

Claims == {"expand", "no-expand"}
Allows(class) == class = "article-expand"
ClassOf(claim) == IF claim = "expand" THEN "article-expand" ELSE "article-no-expand"

NoClaim == [exists |-> FALSE, volume |-> 0, request |-> 0, allocated |-> 0, capacity |-> 0, pending |-> FALSE]
Storage ==
  [ns |-> FALSE, classes |-> {}, claim |-> [c \in Claims |-> NoClaim], writer |-> "none",
   data |-> [v \in {} |-> ""], volumes |-> 0, log |-> {}]
PvcMem == [volume |-> 0, evidence |-> {}]

Expand == w.claim["expand"]

Provisioner ==
  /\ \E c \in Claims :
       /\ w.claim[c].exists /\ w.claim[c].volume = 0 /\ ClassOf(c) \in w.classes
       /\ w' = [w EXCEPT !.volumes = @ + 1,
                         !.claim[c] = [@ EXCEPT !.volume = w.volumes + 1, !.capacity = w.claim[c].request,
                                                !.allocated = w.claim[c].request]]
  /\ Aside /\ UNCHANGED blame

\* ControllerExpandVolume: the volume is larger, the file system is not yet.
Resizer ==
  /\ Expand.volume # 0 /\ Expand.request > Expand.allocated
  /\ w' = [w EXCEPT !.claim["expand"].allocated = Expand.request, !.claim["expand"].pending = TRUE,
                    !.log = @ \cup {Expand.volume}]
  /\ Aside /\ UNCHANGED blame

\* NodeExpandVolume, when the Pod starts.
MountVolume ==
  /\ w.writer = "starting" /\ Expand.volume # 0
  /\ w' = [w EXCEPT !.writer = "ready", !.claim["expand"].capacity = Expand.allocated,
                    !.claim["expand"].pending = FALSE,
                    !.log = IF Expand.pending THEN @ \cup {Expand.volume} ELSE @]
  /\ Aside /\ UNCHANGED blame

----------------------------------------------------------------------------
(* The script.  Sizes in MiB.                                              *)

StorageClass(name) == [op |-> "class", esc |-> 0, part |-> "open", name |-> name]

PvcProgram ==
  Main(<<Bare("pvc_lab"), Bare("driver"), StorageClass("article-expand"),
         StorageClass("article-no-expand"), Bare("pvc_expand"), Bare("bound_expand"),
         Bare("writer"), Bare("writer_ready"), Bare("write_proof"),
         Bare("patch_128"), Bare("resize_pending"), Bare("delete_writer"), Bare("writer"),
         Bare("writer_ready"), Bare("expanded"), Bare("read_proof"), Bare("shrink"),
         Bare("pvc_no_expand"), Bare("bound_no_expand"), Bare("no_expand"), Bare("driver_log"),
         Bare("pvc_ns_gone"), Bare("delete_classes")>>)

\* The claims and the Pod go with their namespace, the volumes with their claims.
PvcNs(s) ==
  /\ s.op \in {"pvc_lab", "pvc_ns_gone"}
  /\ Call(s, [w EXCEPT !.ns = (s.op = "pvc_lab"), !.claim = [c \in Claims |-> NoClaim],
                       !.writer = "none", !.data = [v \in {} |-> ""]])
  /\ IF s.op = "pvc_lab" THEN Set(PvcMem) ELSE Note

ReadDriver(s) == s.op = "driver" /\ Call(s, w) /\ Note

apply_global(s) ==
  s.op = "class" /\ Call(s, [w EXCEPT !.classes = @ \cup {s.name}]) /\ Note
DeleteClasses(s) == s.op = "delete_classes" /\ Call(s, [w EXCEPT !.classes = {}]) /\ Note

pvc(s) ==
  /\ s.op \in {"pvc_expand", "pvc_no_expand"}
  /\ LET c == IF s.op = "pvc_expand" THEN "expand" ELSE "no-expand" IN
     Call(s, [w EXCEPT !.claim[c] = [NoClaim EXCEPT !.exists = TRUE, !.request = 64]])
  /\ Note

Bound(s) ==
  \/ s.op = "bound_expand" /\ Await(s, Expand.volume # 0, FALSE)
     /\ Set([loc.mem EXCEPT !.volume = Expand.volume])
  \/ s.op = "bound_no_expand" /\ Await(s, w.claim["no-expand"].volume # 0, FALSE) /\ Note

consumer(s) == s.op = "writer" /\ Call(s, [w EXCEPT !.writer = "starting"]) /\ Note
WriterReady(s) == s.op = "writer_ready" /\ Await(s, w.writer = "ready", FALSE) /\ Note
DeleteWriter(s) == s.op = "delete_writer" /\ Call(s, [w EXCEPT !.writer = "none"]) /\ Note

WriteProof(s) ==
  /\ s.op = "write_proof"
  /\ Call(s, [w EXCEPT !.data = [v \in {Expand.volume} |-> "persistent"]]) /\ Note
ReadProof(s) ==
  /\ s.op = "read_proof"
  /\ (IF Expand.volume \in DOMAIN w.data /\ w.data[Expand.volume] = "persistent" THEN Call(s, w) ELSE Fail(s))
  /\ Note

\* A request of the API server to change a claim.
Admitted(c, size) == size >= w.claim[c].request /\ (size > w.claim[c].request => Allows(ClassOf(c)))

Patch128(s) ==
  /\ s.op = "patch_128"
  /\ (IF Admitted("expand", 128) THEN Call(s, [w EXCEPT !.claim["expand"].request = 128]) ELSE Fail(s))
  /\ Note

\* Requests that must be refused: it is an error if they are not.
Refused(s) ==
  \/ s.op = "shrink" /\ (IF Admitted("expand", 64) THEN Fail(s) ELSE Call(s, w)) /\ Note
  \/ s.op = "no_expand" /\ (IF Admitted("no-expand", 128) THEN Fail(s) ELSE Call(s, w)) /\ Note

resize_pending(s) ==
  s.op = "resize_pending" /\ Await(s, Expand.pending /\ Expand.allocated = 128, Expand.capacity = 128) /\ Note
expanded(s) == s.op = "expanded" /\ Await(s, Expand.capacity = 128, FALSE) /\ Note

\* Mutant: the calls for any volume.
ExpandedCallsOfAny == w.log

\* The calls of the driver that name the volume of this claim.
ExpandedCalls == {v \in w.log : v = Expand.volume}

DriverLog(s) ==
  /\ s.op = "driver_log"
  /\ IF ExpandedCalls = {} THEN Fail(s) ELSE Call(s, w)
  /\ Set([loc.mem EXCEPT !.evidence = ExpandedCalls])

PvcStep ==
  /\ ~Idle
  /\ \E s \in {PvcProgram[pc]} :
       \/ PvcNs(s) \/ ReadDriver(s) \/ apply_global(s) \/ DeleteClasses(s) \/ pvc(s) \/ Bound(s)
       \/ consumer(s) \/ WriterReady(s) \/ DeleteWriter(s) \/ WriteProof(s) \/ ReadProof(s)
       \/ Patch128(s) \/ Refused(s) \/ resize_pending(s) \/ expanded(s) \/ DriverLog(s) \/ EndRun(s)

PvcInit == w = Storage /\ FirstRun(PvcMem)
PvcNext == PvcStep \/ Provisioner \/ Resizer \/ MountVolume \/ StartRun \/ KillRun

----------------------------------------------------------------------------
(* The driver's log outlives the runs, but what a run takes from it is     *)
(* about its own volume (run.py:204-209), and the claim reports the new    *)
(* capacity only after the Pod was replaced: the size that was allocated   *)
(* by the driver and the file system differ exactly while the resize is    *)
(* pending, from the patch to the new Pod, wherever a run stops.           *)
ExpansionIsOwn ==
  lab = "pvc" =>
    /\ loc.mem.evidence \subseteq {loc.mem.volume}
    /\ Expand.pending = (Expand.capacity < Expand.allocated)
    /\ loc.mem.evidence # {} /\ ~Idle /\ Expand.exists => Expand.capacity = 128
=============================================================================
