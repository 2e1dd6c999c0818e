----------------------------- MODULE CronForbid -----------------------------
(***************************************************************************)
(* article-job-cronjob/run.py: three Jobs, then a CronJob whose Jobs run   *)
(* longer than its period and must not overlap.  The last check sleeps as  *)
(* long as a Job does, across a schedule point, and looks again.           *)
(*                                                                         *)
(* External: the controllers of Jobs and CronJobs.  Forbid skips a         *)
(* schedule point while a Job is active and makes up for it as soon as the *)
(* Job is over.  Time runs in steps of five seconds.                       *)
(***************************************************************************)
EXTENDS Script

Seconds(n) == n \div 5
Minute == Seconds(60)

----------------------------------------------------------------------------
(* Jobs.                                                                   *)

JobNames == {"indexed", "policy-fail", "backoff-limit"}

\* failJob: podFailurePolicy ends the Job at the first Pod that fails.
job(name) ==
  CASE name = "indexed" ->
         [completions |-> 4, parallelism |-> 2, ok |-> TRUE, backoffLimit |-> 0, failJob |-> FALSE]
    [] name = "policy-fail" ->
         [completions |-> 1, parallelism |-> 1, ok |-> FALSE, backoffLimit |-> 3, failJob |-> TRUE]
    [] name = "backoff-limit" ->
         [completions |-> 1, parallelism |-> 1, ok |-> FALSE, backoffLimit |-> 1, failJob |-> FALSE]

NoJob == [applied |-> FALSE, pods |-> {}, condition |-> "none"]
NoCron == [applied |-> FALSE, now |-> 0, jobs |-> 0, end |-> 0, seen |-> 0, missed |-> FALSE, skipped |-> 0]
JobCluster == [job |-> [j \in JobNames |-> NoJob], cron |-> NoCron]

In(j, phase) == {p \in w.job[j].pods : p.phase = phase}

\* A Pod for an index that has none, within the parallelism.
StartPod(j) ==
  \E i \in 0..(job(j).completions - 1) :
    /\ Cardinality(In(j, "running")) < job(j).parallelism
    /\ \A p \in w.job[j].pods : p.index = i => p.phase = "failed"
    /\ Cardinality(In(j, "failed")) <= job(j).backoffLimit
    /\ ~(job(j).failJob /\ In(j, "failed") # {})
    /\ w' = [w EXCEPT !.job[j].pods =
               @ \cup {[index |-> i, attempt |-> Cardinality(In(j, "failed")), phase |-> "running"]}]

EndPod(j) ==
  \E p \in In(j, "running") :
    w' = [w EXCEPT !.job[j].pods =
            (@ \ {p}) \cup {[p EXCEPT !.phase = IF job(j).ok THEN "succeeded" ELSE "failed"]}]

Conclude(j) ==
  \/ /\ Cardinality(In(j, "succeeded")) = job(j).completions
     /\ w' = [w EXCEPT !.job[j].condition = "Complete"]
  \/ /\ \/ Cardinality(In(j, "failed")) > job(j).backoffLimit
        \/ job(j).failJob /\ In(j, "failed") # {}
     /\ w' = [w EXCEPT !.job[j].condition = "Failed"]

JobController ==
  /\ \E j \in JobNames :
       /\ w.job[j].applied /\ w.job[j].condition = "none"
       /\ StartPod(j) \/ EndPod(j) \/ Conclude(j)
  /\ Aside /\ UNCHANGED blame

----------------------------------------------------------------------------
(* The script.                                                             *)

OfJob(op, j, condition, count) ==
  [op |-> op, esc |-> 0, part |-> "open", job |-> j, condition |-> condition, count |-> count]
JobSteps(j, condition, count) ==
  <<OfJob("apply_job", j, condition, count), OfJob("wait_job", j, condition, count),
    OfJob("job_pods", j, condition, count)>>

\* time.sleep(75).  Mutant: sleep(45).
OverlapSleepShort == Seconds(45)
OverlapSleep == Seconds(75)

CronProgram ==
  Main(<<Bare("cron_lab")>>
       \o JobSteps("indexed", "Complete", 4) \o JobSteps("policy-fail", "Failed", 1)
       \o JobSteps("backoff-limit", "Failed", 2)
       \o <<Bare("apply_cron"), Bare("first_jobs"), Bare("sleep"), Bare("overlap"), Bare("cron_ns")>>)

CronMem == [until |-> 0, exercised |-> TRUE]

CronLab(s) == s.op \in {"cron_lab", "cron_ns"} /\ Call(s, JobCluster) /\ Set(CronMem)

ApplyJob(s) == s.op = "apply_job" /\ Call(s, [w EXCEPT !.job[s.job].applied = TRUE]) /\ Note
WaitJob(s) ==
  /\ s.op = "wait_job"
  /\ Await(s, w.job[s.job].condition = s.condition, w.job[s.job].condition # "none") /\ Note

\* The Pods of the Job: their number, and for the indexed one their indices.
job_pods(s) ==
  /\ s.op = "job_pods"
  /\ IF /\ Cardinality(w.job[s.job].pods) = s.count
        /\ {p.index : p \in w.job[s.job].pods} = 0..(job(s.job).completions - 1)
     THEN Call(s, w) ELSE Fail(s)
  /\ Note

\* The CronJob is applied at any time within a minute.
ApplyCron(s) ==
  /\ s.op = "apply_cron"
  /\ \E t \in {0, 1, Minute \div 2, Minute - 1} :
       Call(s, [w EXCEPT !.cron = [NoCron EXCEPT !.applied = TRUE, !.now = t]])
  /\ Note

cron_jobs == w.cron.jobs
OverTime(deadline) == w.cron.now > deadline

\* A poll every two seconds: the first Job is seen at once or one step later.
FirstJobs(s) ==
  /\ s.op = "first_jobs" /\ cron_jobs > 0
  /\ IF cron_jobs = 1 THEN Call(s, w) ELSE Fail(s)
  /\ Set([loc.mem EXCEPT !.until = w.cron.now + OverlapSleep])

SleepOver(s) == s.op = "sleep" /\ w.cron.now >= loc.mem.until /\ Call(s, w) /\ Note

\* Another Job by now means to the script that Forbid did not work.
OverlapCheck(s) ==
  /\ s.op = "overlap"
  /\ IF cron_jobs = 1 THEN Call(s, w) ELSE Fail(s)
  /\ Set([loc.mem EXCEPT !.exercised = (cron_jobs = 1 => w.cron.skipped > 0)])

\* The script is asleep or polling, and at most one step late.
Waiting ==
  /\ ~Idle
  /\ \E s \in {CronProgram[pc]} :
       \/ s.op = "first_jobs" /\ (cron_jobs = 0 \/ ~OverTime(w.cron.seen))
       \/ s.op = "sleep" /\ ~OverTime(loc.mem.until)

\* Five seconds pass.  A Job takes 75 seconds and up to ten to start.
Tick ==
  /\ Waiting /\ w.cron.applied
  /\ LET c == [w.cron EXCEPT !.now = @ + 1]
         active == c.jobs > 0 /\ c.now < c.end
         due == c.now % Minute = 0 \/ c.missed
     IN  \E delay \in 0..Seconds(10) :
           w' = [w EXCEPT !.cron =
             IF due /\ active
             THEN [c EXCEPT !.missed = TRUE, !.skipped = IF c.missed THEN @ ELSE @ + 1]
             ELSE IF due
             THEN [c EXCEPT !.jobs = @ + 1, !.missed = FALSE, !.end = c.now + delay + Seconds(75),
                            !.seen = c.now]
             ELSE c]
  /\ Aside /\ UNCHANGED blame

CronStep ==
  /\ ~Idle
  /\ \E s \in {CronProgram[pc]} :
       \/ CronLab(s) \/ ApplyJob(s) \/ WaitJob(s) \/ job_pods(s) \/ ApplyCron(s) \/ FirstJobs(s)
       \/ SleepOver(s) \/ OverlapCheck(s) \/ EndRun(s)

CronInit == w = JobCluster /\ FirstRun(CronMem)
CronNext == CronStep \/ JobController \/ Tick \/ StartRun \/ KillRun

----------------------------------------------------------------------------
(* The overlap check says something: when it finds only the first Job, a   *)
(* schedule point has come while that Job was active and Forbid has        *)
(* skipped it (run.py:178-180), at whatever time within the minute the     *)
(* CronJob was applied, however late the poll saw the first Job and        *)
(* however long its Pod took to start.                                     *)
OverlapIsExercised ==
  lab = "cron" => loc.mem.exercised
=============================================================================
