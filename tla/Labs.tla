-------------------------------- MODULE Labs --------------------------------
(***************************************************************************)
(* The experiments, each on a cluster of its own: one of them is chosen    *)
(* and started MaxRuns times, with up to MaxFaults failing calls, kills or *)
(* events of its own kind.                                                 *)
(***************************************************************************)
EXTENDS HpaLab, CrdConversion, WatchClient, GpuSuite, ControlHa, Reconcile, CronForbid,
        ImageLifecycle, PvcExpansion, VolcanoSuite

Init ==
  \/ lab = "hpa" /\ HpaInit
  \/ lab = "crd" /\ CrdInit
  \/ lab = "watch" /\ WatchInit
  \/ lab = "gpu" /\ GpuInit
  \/ lab = "ha" /\ HaInit
  \/ lab = "reconcile" /\ ReconcileInit
  \/ lab = "cron" /\ CronInit
  \/ lab = "image" /\ ImageInit
  \/ lab = "pvc" /\ PvcInit
  \/ lab = "volcano" /\ VolcanoInit

Next ==
  /\ \/ lab = "hpa" /\ HpaNext
     \/ lab = "crd" /\ CrdNext
     \/ lab = "watch" /\ WatchNext
     \/ lab = "gpu" /\ GpuNext
     \/ lab = "ha" /\ HaNext
     \/ lab = "reconcile" /\ ReconcileNext
     \/ lab = "cron" /\ CronNext
     \/ lab = "image" /\ ImageNext
     \/ lab = "pvc" /\ PvcNext
     \/ lab = "volcano" /\ VolcanoNext
  /\ UNCHANGED lab

Spec == Init /\ [][Next]_scriptVars

----------------------------------------------------------------------------
(* A run that was not killed, and whose calls outside of its try blocks    *)
(* and in its finally blocks did not fail, leaves nothing behind that a    *)
(* finally block is there to undo: no metrics component at zero, no load,  *)
(* no reader of logs (hpa/advanced/run.py:443), no proxy                   *)
(* (article-watch-consistency/run.py:257), no paused node                  *)
(* (article-control-ha/failover.py:30).                                    *)
Restored ==
  Idle /\ blame \cap {"open", "cleanup", "kill"} = {} =>
    CASE lab = "hpa" -> OutageUndone
      [] lab = "watch" -> WatchUndone
      [] lab = "ha" -> HaUndone
      [] OTHER -> TRUE

(* A run in which every call succeeds passes, whatever an earlier run that *)
(* failed or was killed at any point has left: the experiments that start  *)
(* by deleting what they own (Lab(), article-next-common/lab.py:57;        *)
(* run-tests.py:162) can be repeated.  article-control-ha promises it only *)
(* as long as nothing has failed before, article-image-lifecycle refuses a *)
(* file system that is too large, and article-job-cronjob is left out: its *)
(* last check races with the end of the first Job.                         *)
RerunPasses ==
  loc.verdict = "FAIL" =>
    \/ lab \in {"hpa", "cron"}
    \/ ~loc.clean
    \/ lab = "ha" /\ blame # {}
    \/ lab = "image" /\ ImageRefused
=============================================================================
