--------------------------- MODULE ImageLifecycle ---------------------------
(***************************************************************************)
(* article-image-lifecycle/run.py: a Pod that pulls its image, a Pod that  *)
(* cannot, and an unused image large enough to make the kubelet collect    *)
(* images when it is restarted.                                            *)
(*                                                                         *)
(* External: the node with its images, the size of what is in its image    *)
(* file system, the kubelet, which collects unused images when more than   *)
(* one percent is used, and its journal, which outlives a run.             *)
(***************************************************************************)
EXTENDS Script, ImageSize

\* Capacity and usage of the image file system before the first run.
FileSystems == {20 * GiB, 100 * GiB + 1, 800 * GiB - 1} \X {0, 63 * MiB + 1, GiB + 1, 200 * MiB + 2}

NoPulls == [ok |-> "none", fail |-> "none"]
ImageNode(capacity, used) ==
  [ns |-> FALSE, pods |-> NoPulls, capacity |-> capacity, other |-> used,
   blob |-> 0, built |-> 0, images |-> {}, size |-> 0, alpine |-> FALSE, journal |-> {}, boot |-> 0]
ImageMem == [required |-> 0, capacity |-> 0, used |-> 0]

Used == w.other + w.size

ImageKubelet ==
  /\ \/ w.pods.ok = "pending" /\ w' = [w EXCEPT !.pods.ok = "ready", !.alpine = TRUE]
     \/ w.pods.fail = "pending" /\ w' = [w EXCEPT !.pods.fail = "ErrImagePull"]
     \/ w.pods.fail = "ErrImagePull" /\ w' = [w EXCEPT !.pods.fail = "ImagePullBackOff"]
  /\ Aside /\ UNCHANGED blame

\* Unused images go when too much is used; an image of a running Pod stays.
Collected ==
  [w EXCEPT !.images = {}, !.size = 0, !.alpine = @ /\ w.pods.ok = "ready"]
OverThreshold == Used >= w.capacity \div 100

\* After a restart: a line in the journal, by the run that restarted the kubelet.
KubeletBoot ==
  /\ w.boot # 0
  /\ w' = [(IF OverThreshold THEN Collected ELSE w) EXCEPT
             !.boot = 0, !.journal = IF OverThreshold THEN @ \cup {w.boot} ELSE @]
  /\ Aside /\ UNCHANGED blame

\* The collection that comes every five minutes.
PeriodicGc ==
  /\ OverThreshold /\ w.images # {} /\ Fault("gc")
  /\ w' = [Collected EXCEPT !.journal = @ \cup {loc.run}]
  /\ UNCHANGED <<pc, raised>> /\ loc' = [loc EXCEPT !.clean = FALSE]

----------------------------------------------------------------------------
(* The script.                                                             *)

ImageProgram ==
  Main(<<Bare("image_ns"), Bare("apply_ok"), Bare("ready_ok"), Bare("apply_fail"),
         Bare("pull_failed"), Bare("images_before"), Bare("stats"), Bare("size_limit"),
         Bare("write_blob"), Bare("docker_build"), Bare("kind_load"), Bare("images_loaded"),
         Bare("restart_kubelet"), Bare("gc_evaluated"), Bare("images_after"), Bare("image_ns_gone")>>)

ImageNs(s) ==
  \/ s.op = "image_ns" /\ Call(s, [w EXCEPT !.ns = TRUE, !.pods = NoPulls]) /\ Set(ImageMem)
  \/ s.op = "image_ns_gone" /\ Call(s, [w EXCEPT !.ns = FALSE, !.pods = NoPulls]) /\ Note

apply_obj(s) ==
  \/ s.op = "apply_ok" /\ Call(s, [w EXCEPT !.pods.ok = "pending"]) /\ Note
  \/ s.op = "apply_fail" /\ Call(s, [w EXCEPT !.pods.fail = "pending"]) /\ Note
ReadyOk(s) == s.op = "ready_ok" /\ Await(s, w.pods.ok = "ready", FALSE) /\ Note
pull_failed(s) == s.op = "pull_failed" /\ Await(s, w.pods.fail = "ImagePullBackOff", FALSE) /\ Note

image_present(s) ==
  /\ s.op \in {"images_before", "images_after"}
  /\ (IF w.alpine THEN Call(s, w) ELSE Fail(s)) /\ Note

\* The size is computed from one reading of the node's statistics.
node_stats(s) ==
  /\ s.op = "stats" /\ Call(s, w)
  /\ Set([loc.mem EXCEPT !.capacity = w.capacity, !.used = Used,
                         !.required = RequiredSize(w.capacity, Used)])
CheckLimit(s) == s.op = "size_limit" /\ Require(s, loc.mem.required <= SizeLimit) /\ Note

WriteBlob(s) == s.op = "write_blob" /\ Call(s, [w EXCEPT !.blob = loc.mem.required]) /\ Note
DockerBuild(s) == s.op = "docker_build" /\ Call(s, [w EXCEPT !.built = loc.run]) /\ Note
\* A load adds an image; the one of an earlier run loses its tag and stays.
KindLoad(s) ==
  s.op = "kind_load" /\ Call(s, [w EXCEPT !.images = @ \cup {w.built}, !.size = @ + w.blob]) /\ Note
ImagesLoaded(s) ==
  s.op = "images_loaded" /\ (IF w.built \in w.images THEN Call(s, w) ELSE Fail(s)) /\ Note

RestartKubelet(s) == s.op = "restart_kubelet" /\ Call(s, [w EXCEPT !.boot = loc.run]) /\ Note

\* The last lines of the journal may be of an earlier collection.
gc_evaluated(s) == s.op = "gc_evaluated" /\ Await(s, w.journal # {}, w.boot = 0) /\ Note

ImageStep ==
  /\ ~Idle
  /\ \E s \in {ImageProgram[pc]} :
       \/ ImageNs(s) \/ apply_obj(s) \/ ReadyOk(s) \/ pull_failed(s) \/ image_present(s)
       \/ node_stats(s) \/ CheckLimit(s) \/ WriteBlob(s) \/ DockerBuild(s) \/ KindLoad(s)
       \/ ImagesLoaded(s) \/ RestartKubelet(s) \/ gc_evaluated(s) \/ EndRun(s)

\* The collection after a restart takes seconds, the next run is later.
ImageStart == w.boot = 0 /\ StartRun

ImageInit == (\E fs \in FileSystems : w = ImageNode(fs[1], fs[2])) /\ FirstRun(ImageMem)
ImageNext == ImageStep \/ ImageKubelet \/ KubeletBoot \/ PeriodicGc \/ ImageStart \/ KillRun

\* The script refuses a file system that would need too large an image.
ImageRefused == loc.mem.required > SizeLimit

----------------------------------------------------------------------------
(* When the kubelet is restarted the unused image is there and fills the   *)
(* image file system beyond the threshold by 255 MiB, unless the kubelet   *)
(* has collected it on its own: for every capacity and usage that is read  *)
(* (run.py:161-166), after a run that failed anywhere before, with its     *)
(* blob or its image left behind.                                          *)
ImageForcesCollection ==
  lab = "image" /\ w.boot # 0 /\ "gc" \notin blame =>
    /\ w.images # {} /\ Used > w.capacity \div 100 + 255 * MiB
    /\ loc.mem.required <= SizeLimit
=============================================================================
