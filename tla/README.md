# Verification of k8sdev

This directory specifies the programs of the repository that have a protocol
of their own, in TLA+. TLC checks small instances; TLAPS proves the invariants
that matter most for every value of the constants.

## The system

k8sdev is a collection of Kubernetes programs and experiments. Four Go programs
have a protocol of their own. Most of the rest are Python scripts that drive a
cluster: they inject a fault or a change, wait, assert what they observe, and
put things back. What can go wrong in a script is what a failing call or a kill
leaves behind, a wait that is satisfied by something older, and an assertion
that holds although nothing was exercised.

| component | state | operations | hard part | correct when |
|---|---|---|---|---|
| task broker, `hpa/advanced/main.go` | `tasks`, `events` under one mutex | `/enqueue`, `/claim`, `/ack`, `/stats`, `/metrics`; `reap` runs inside each request but `/enqueue` | leases that end by time, acks that come late, restarts that forget everything | a task is leased to one worker at a time, in order, done once; the log audits it |
| consumer, same file | its loop, `ctx`, `draining` | claim, sleep, ack, drain on SIGTERM | calls that fail or time out, SIGTERM at any moment, container restarts under the same HOSTNAME | no task is executed by two Pods at a time, a drain leaves nothing behind |
| device plugin, `extended-resource/main.go` | socket, watcher, one goroutine per stream | `serve`, `registerWithRetry`, `ListAndWatch`, `GracefulStop` | kubelet restarts between any two steps, streams that outlive their reader | the plugin ends up registered, the kubelet sees the health of the devices |
| resource manager, `extended-resource/resource_manager.go` | devices, a channel with one slot | `UpdateHealth`, `Devices`, `PreferredAllocation`, `ValidateAllocation` | signals that are dropped, health that changes between two calls | no change is lost, no device is given twice |
| node webhook, `admission-webhook/main.go` | `nodeList`, `next`, `cache` | `/mutate`, `Next`, `reload` every minute | concurrent requests, a node list that shrinks | round robin in range, the same Pod gets the same node |
| admission server library, `admission-webhook/pkg` | hooks by group and version | `New`, `Create` of two review versions | mostly wiring | the review of each version answers the request it got |
| scheduler plugin, `scheduler/internal` | none | `Filter`, `PostFilter` | none | a labelled Pod only lands on a node with its label |
| HPA experiment, `hpa/advanced/run.py` | HPA, Deployments, broker, metrics components, `kubectl proxy` | nine scenarios, `wait_for`, `hold`, `snapshot`, `outage` | HPA and Deployment read at different times, an outage that must be undone | a run whose calls succeed passes in any order of scenarios and undoes its outage |
| CRD conversion, `article-crd-conversion` | CRD, Widget in its stored version, webhook, certificate | `convert_object`, switch of the storage version, end of the old version | deleting the webhook before the objects that need it | conversions lose nothing, the CRD can be deleted |
| watch client, `article-watch-consistency` | list version, last event, proxy | compaction, list, watch, reconnect | changes while no watch is open, an API server that restarts | every change is seen once, in order |
| control plane faults, `article-control-ha` | manifests on three nodes, paused nodes | `components.py`, `failover.py`, `api-outage.py` | a failure between taking away and remembering | what was taken away is put back |
| reconcile experiment, `deep-dive-reconcile` | desired object, effect, acknowledgement | `reconcile`, the stale replace | a stop between effect and acknowledgement, an edit in between | one effect, acknowledged after it existed |
| Job and CronJob experiment, `article-job-cronjob` | Jobs, Pods, the clock | three Jobs, `concurrencyPolicy: Forbid` | a sleep as long as the Job | the overlap check has seen an overlap |
| image lifecycle, `article-image-lifecycle` | images, image file system, journal | size, build, load, restart of the kubelet | rounding, leftovers of a failed run | the image forces a collection |
| PVC expansion, `article-pvc-expansion` | claims, volumes, the driver's log | expand, replace the Pod, two refusals | a log that outlives the runs | the evidence is about the run's own volume |
| GPU runners, `hami-mock-gpu/run-tests.py`, `volcano-hami/run-tests.py` | Pods or Jobs with their devices, `active`, scheduler configuration | 23 and 19 cases, `check()`, `case()`, `clean()`, `config()` | a case that runs on what an earlier one left | leftovers are explained, a pass means what the list of tests says |
| lab libraries, `article-next-common`, `deep-dive-common` | namespace of a lab | `Lab()`, `k`, `wait`, `apply`, `get`, `patch` | none of their own | part of the scripts above |
| other experiments (`article-*`, `deep-dive-*`, `kubevirt-*`, ...) | the cluster | a few calls and an assertion | see below | the cluster is left as it was found |

The broker and the consumers interact over HTTP: a consumer posts `/claim`,
sleeps for the duration of the task, and posts `/ack`. The HPA reads the
broker's counters and removes consumer Pods with SIGTERM. The plugin and the
kubelet call each other over two unix sockets: the plugin registers, the
kubelet opens `ListAndWatch` and calls `Allocate`. The webhook is called by the
API server. The programs do not call each other, with one
exception: `hpa/advanced/run.py` drives the broker and the consumers, which
appear in its model as the tasks accepted and the metrics they cause.

`PROJECT.json` lists every component with its status and the hazards of this
code at the lines where they bite.

## Modules

| module | what it is |
|---|---|
| `TaskQueue` | broker, consumers, network and time |
| `LeaseQueue` | what the broker promises: an ordered queue with leases |
| `TaskQueueStats` | `counts()` on top of `TaskQueue` |
| `MCTaskQueue` | the instance for TLC: symmetry of the consumers |
| `LoopProofs` | lemmas about loops, folds and sums, proved without induction |
| `TaskQueueProofs` | theorems about `TaskQueue` (types, audit, leases, what becomes of a task) and `TaskQueueStats`; the broker implements `LeaseQueue` |
| `DevicePlugin` | `serve`, `ListAndWatch`, `UpdateHealth` and the kubelet |
| `DevicePluginProofs` | theorems about `DevicePlugin` |
| `Allocation` | `PreferredAllocation` and `ValidateAllocation` with their handlers |
| `AllocationProofs` | theorems about `Allocation` |
| `WebhookService`, `MCWebhookService` | the node webhook, and its instance for TLC |
| `WebhookProofs` | theorems about `WebhookService` |
| `Script` | how a Python script runs: calls that succeed or fail, `try`/`finally`, kills, runs |
| `HpaCases`, `HpaLab` | the nine scenarios of the HPA experiment, and the cluster they run against |
| `CrdConversion` | conversion webhook and storage migration |
| `WatchClient` | list, watch, reconnect |
| `ControlHa` | the three control plane scripts |
| `Reconcile` | the reconcile function |
| `CronForbid` | Jobs and the CronJob that must not overlap |
| `ImageSize`, `ImageLifecycle` | the size of the unused image, and the experiment around it |
| `PvcExpansion` | expansion of a claim |
| `GpuSuite`, `VolcanoSuite` | the two test runners with all their cases |
| `Labs` | all the experiments, one per behaviour, with what they have in common |
| `LabsProofs` | lemmas about programs, calls and runs of `Script`; theorems about `ImageSize` and five experiments |
| `WatchProofs` | programs with `finally` blocks and what they undo; theorems about the watch experiment and the control plane scripts |
| `SuiteProofs` | theorems about the HPA experiment, the two test runners, and what the scripts leave behind |

### TaskQueue

Each handler of the broker holds `mu` from its first to its last access, so a
handler is one action: `Grant` and `GrantNothing` are the two ends of `/claim`;
`AckDone`, `AckConflict` and `AckUnknown` those of `/ack`; `Enqueue` and
`Observe` (`/stats`, `/metrics`) the rest. `reap` is part of all of them but
`Enqueue`, as in the code.

A consumer is a program counter (`pc`), the task it holds (`job`), the rest of
its sleep (`run`) and the age of its call (`age`). A call takes three steps:
the send (`BeginClaim`, `FinishRun`), the handler (`ServeClaim`, `ServeAck`)
and the arrival of the answer (`RecvClaim`, `RecvAck`). `PostFails` ends a call
at any point; the request is lost, or it stays on its way and reaches the broker
at any later time (`LateClaim`, `LateAck`). `Sigterm`, `Drain`, `Exit`, `Crash`
and `BrokerRestart` are the life of the processes.

Time is relative: a lease is what is left until its deadline. `Tick` is one unit.
It waits for calls that reach `Timeout` and sleepers that are `Slack` late, which
is how the 5 s client timeout and a bounded scheduling delay enter the model.
`Slack` is a parameter, not a promise of the code; the properties about time
state the relation they need, `Slack + 2 * Timeout <= Grace`. The code has
`Grace` = 20 s and `Timeout` = 5 s, so it tolerates a wake-up 10 s late.

Data that is left out: times of events, durations beyond a few ticks, the JSON
of `/stats`. Events are one log per task, with the attempt they belong to, which
the code does not record and no action reads; `rejected_ack` events are a set.
`executed`, `epoch` and the attempt of an ack are history.

### DevicePlugin

`pc` follows `serve`: remove the socket, watch the directory, listen, register
(with retries), serve. `stage` follows each `ListAndWatch` goroutine: read the
devices, send, select. A send on the channel with one slot goes to one of the
parked goroutines, or into the slot, or is dropped. Which parked goroutine gets
it is left open, as the language does. The kubelet is external: it forgets its
plugins when it stops, empties the directory when it starts, opens one stream
per registration and forgets a plugin whose stream ends.

### Allocation

The loops are folds over the request. One container is proposed at a time, as
the kubelet asks. `Allocate` may name any number of containers, none included
(`AllocateRequests`, at most `MaxContainers`; 2 in the run, so that duplicates
across containers occur). `changed` remembers whose health changed after the proposal.

### WebhookService

A request is one goroutine: arrive, `cache.Load`, `Next`, store. Writing to a
nil `NodeSelector` panics, `net/http` recovers and the request is aborted;
the round robin has advanced and the cache has not been written. `Next()`
indexes `nodeList.Items` and panics for an index outside of it, and takes a
remainder that panics for an empty list (`Items`, `AssignNext`); both are outcomes
of the model. A body that is an `AdmissionReview` does not decode, since its
`kind` is a string, and is answered with 400. A request whose object is no Pod
gets an answer without a body, because the inner `err` hides the outer one.

### The experiments

A script is data: a sequence of steps, one for each call that it makes, with the
place an exception goes to. `Try` and `Main` of `Script` build these sequences
from the blocks of the source, and `pc` walks along them. A step is an action of
the module of its script; its guard looks at the record (`s.op`) the way the
source's line says which call is made. `Call(s, new)` is the rule they share:
the call turns the world `w` into `new` and returns, or it fails, with or without
its effect, and raises. `Await` is `wait()`: it returns when the condition holds,
or raises when it can no longer come true, which stands for the deadline.

The fault model is the same for all of them. A call outside of `try`, in a `try`
block, or in a `finally` block may fail, before or after its effect; the script
may be killed between any two calls, which runs no `finally` block; and where the
environment acts on its own (an API server restart, an edit by another client, a
collection by the kubelet) that is a fault too. `blame` records which kinds have
happened, each at most once and at most `MaxFaults` together. Then the script is
started again on the world that is left.

What a script asserts about Kubernetes needs a Kubernetes to hold in. Each module
has a small external one: an autoscaler with windows and policies, an API server
that converts or keeps versions, kubelets that follow manifests, schedulers with
room and quotas. They are written from what the scripts rely on and are marked
external in the map.

Details that matter:

- `HpaLab`: a snapshot is two reads, HPA and then Deployment, and the autoscaler
  may act between them. Time counts in polls of 5 s, and a wait takes no sample at
  its deadline. The policies apply at each look of the autoscaler; their periods
  of 30 s are left out, which lets it move faster and changes no outcome.
- `CrdConversion`: deleting the CRD decodes its objects, which needs the webhook
  whenever an object is stored in another version than the storage version.
- `WatchClient`: a watch delivers the log after its version, or says that the
  version has expired; the read loop takes one event at a time. The first loop
  advances `last_rv`, the second does not; `upto`, the version of the last event
  of either, is history. The port belongs to the proxy of one run: a killed run
  leaves its proxy on it, and a later run stops only its own.
- `ControlHa`: `stopped` grows after the move, as in the source, so a move that
  fails after its effect is forgotten.
- `CronForbid`: time runs in steps of 5 s; the CronJob is applied at the start,
  in the middle or at the end of a minute, its Pods take up to 10 s to start.
- `GpuSuite`: the cleanup of `check()` walks a copy of `active`; events outlive
  their Pods.
- `VolcanoSuite`: `clean()` ignores the result of its delete and waits for Pods,
  not for Jobs. A Job is without Pods before it is enqueued, after its end, or
  when a delete fails half way; such a Job is still there in the next case, where
  an apply of the same name leaves it or is refused. Calls with `check=False` raise on a timeout only; the plugin a
  case names is loaded by the scheduler when its restart is over. The scheduler
  treats the plugins alike but for reclaim between queues, which needs `capacity`.

## Runs

| run | instance | shows |
|---|---|---|
| `timely` | 2 consumers, 2 tasks, 1 lost call, 1 crash, grace = 2 timeouts | type, audit trail, leases, exclusive execution, once without faults, drains |
| `slow` | 2 consumers, 2 tasks, 1 lost call, 1 broker restart, wake-ups later than the lease | audit trail, counters, refinement of `LeaseQueue` |
| `live` | 2 consumers, one evictable, 2 tasks, 1 lost call | every task is done, every drain ends |
| `drain_loss`, `stale_ack` | 1 task | two comments of `main.go` that the code does not keep |
| `plugin_safe` | 2 devices, 3 streams, 2 health changes, 1 kubelet restart, 1 lost answer, failures | no restart and, with one stream, no update is missed |
| `plugin_live` | 5 streams, 2 kubelet restarts, 1 lost answer | the plugin ends up serving, or stopped |
| `plugin_health` | 1 device, 2 streams, 1 lost answer | a notification taken by a dead stream |
| `allocation` | 3 devices and an unknown id, lists up to 3, with duplicates | both algorithms against their reference |
| `webhook` | 3 nodes, 2 Pods, 3 requests, 1 change of the cluster | round robin, bounds, sticky cache |
| `webhook_patch` | 1 request | the patch that is thrown away |
| `labs` | each experiment started twice, 1 fault | the properties of the next table |

| property of `labs` | what could really be wrong |
|---|---|
| `CleanRunPasses` | a scenario that depends on the one before it |
| `SteadyIsCurrent` | a wait for n replicas that combines two reads of different moments, or is satisfied by replicas that an outage has frozen |
| `AuditIsOwn` | the audit of `real()` counts the tasks of an earlier run |
| `Restored` | after a run whose body failed, a metrics component is still at zero, a load or a proxy is still running, a node is still paused |
| `RerunPasses` | a run that failed or was killed leaves something that makes the next one fail |
| `ConversionRoundTrip`, `WebhookOutlivesObjects` | a field lost between versions; a CRD that can never be deleted |
| `WatchSeesEveryChange` | an event missed or repeated over the reconnect |
| `ManifestsRestored` | a manifest missing for a reason other than its own failed move or a failed restore |
| `EffectBeforeAck` | an acknowledgement without the effect it is for, or two effects |
| `OverlapIsExercised` | the check of Forbid passes although no schedule point fell into the Job |
| `ImageForcesCollection` | rounding, or the leftovers of a failed run, leave the file system under its threshold |
| `ExpansionIsOwn` | the log line of an earlier volume passes for this expansion |
| `LeftoverIsExplained` | one Pod that cannot be deleted keeps the others |
| `PassMeansIntended` | the suite exits with 0 although a case ran under another plugin, or next to a Job that `clean()` saw with Pods |

Three exceptions are part of `RerunPasses`, because the code has them. A clean
run of `article-job-cronjob` can fail: the check sleeps 75 s, as long as the Job,
so a Job that started at once is over and the skipped schedule has been made up
for when it looks; what is shown for it is the other side, `OverlapIsExercised`.
The scripts of `article-control-ha` create objects under fixed names and cannot be
repeated after a failure. `article-image-lifecycle` refuses file systems that
would need an image over 6 GiB. The HPA experiment has `CleanRunPasses` instead,
with the one refusal that its code makes.

Bounds. Two consumers are enough for every conflict between an owner and
another, and a third would only be another "other". Two tasks are needed for
the order of the queue and for a consumer that moves on while an ack is late.
Each fault is one unit of budget; `stale_ack` shows that one is enough for the
known surprises. `plugin_live` needs as many streams as registrations can be
accepted: with two restarts and one lost answer five are never exceeded to the
point of blocking `Dial`, or `EventuallyServing` would fail. The lists of
`allocation` are long enough for duplicates on both sides of the size, and two
containers for a device that both of them name.

In `labs` one fault is enough for each point at which a script can stop, and the
second run for what it leaves; a second fault multiplies the states without a new
kind of leftover, since the first run's world is the only thing the second run
sees. `MiB` is 4 units, so that sizes that are not multiples of a mebibyte occur;
the theorem covers the real unit. `--only` of the Volcano suite is one test or
all, the two ways in which a case gets its predecessor's configuration or not.

`CHECK_DEADLOCK FALSE` is set where the system may really stop: a plugin that
has exited, a bounded number of requests that has been used up, or scripts that
are over.

### What does not hold

Four runs end in a violation, each against a line of the repository:

- `drain_loss`: "已领取任务仍会执行并 ACK" (`main.go:106`). An ack that fails is
  logged and not repeated.
- `stale_ack`: "过期或重复确认会记录并拒绝" (`main.go:281`). An ack names its
  worker and not its attempt.
- `plugin_health`: the failure that `main_test.go:56` looks for occurs when two
  handlers receive from the one channel.
- `webhook_patch`: "修改 k8s 的资源" (`admission-webhook/README.md:1`). The
  computed patch is not put into the response.

Some hazards are met by the code and covered by no property, and `PROJECT.json`
says so in a note: overlapping requests for one Pod may get two nodes, a `mv`
whose answer is lost is not undone, a pause outside of the `try` is not undone,
and the check of the CronJob may raise a false alarm. The properties next to them
(`SerialRequestsAgree`, `ManifestsRestored`, `Restored`, `OverlapIsExercised`) state
these exceptions.

## Fairness

`TaskQueue`: weak fairness of `Tick` and of each consumer's own steps and calls.
Goroutines that can run do run, `net/http` serves what it accepted, and sleeps
end. Nothing obliges the environment: enqueues, scrapes, faults and SIGTERM are
not fair, and neither are late requests. One consumer is never evicted, because
the HPA keeps `minReplicas` 1; with none left, tasks rightly wait.

`DevicePlugin`: weak fairness of `serve` and of each handler; a unix socket
whose peer is gone is noticed; a kubelet that is down is started again (systemd)
and dials what registered. SIGTERM, restarts and health changes are not fair.

## Proofs

`TaskQueueProofs`, for every set of consumers, every number of tasks and faults
and every duration, from `ConsumerAssumption`, `TimeAssumption` and
`BoundAssumption`:

- `TypeCorrect`: with `JobTyped` (a consumer that works holds a real task id).
- `AuditCorrect`: `AuditTrail` is inductive together with `Fresh` (an id that is
  not yet enqueued has no log). Each handler appends at most an expiry and then
  a claim or an ack to a log; three lemmas (`TrailExpire`, `TrailClaim`,
  `TrailAck`) say what each append does, and the handlers only cite them.
- `LeaseCoversWork`: `TimelyWorkerKeepsLease` says that a lease is not over; the
  inductive `LeaseInv` says how much of it is left at each point of the loop: at
  least the work, plus a timeout for the ack, plus what the call so far has not
  used up. `Timers` bounds the clocks that `Tick` holds back.
- `ExclusiveExecution` follows: two consumers on one task would both be its
  worker.

- `BrokerIsLeaseQueue`: `Spec` implements `LeaseQueue!Spec` under the mapping
  `QueueView`. `ReapReleases` says that `reap` is the release of a set of leases
  of the abstract queue; with it each handler maps to one abstract step, and
  every step of a consumer or of the network to a stutter. It needs `AuditTrail`
  (a slot that is not leased has no worker) besides the types.
- `DoneMeansExecuted`: inductive as `EarnedInv`. An ack that is on its way, late
  ones included, is of a task its sender has slept (`AcksAreEarned`); once the
  broker has been restarted, a Pod with a job of the old one owns nothing of the
  new one (`OldJobsOwnNothing`), which needs that no call is late
  (`NothingLate`).
- `ClaimedOnce`, `DrainIsClean`: both from `OutcomeInv`. Without faults every
  lease has a Pod that works on it (`LeasesAreWorkedOn`), so a Pod that has
  returned has none; and with the lease times of `LeaseInv` none of them ends, so
  a task that was claimed is done or still leased to its first worker
  (`OnceInv`).
- `CountersMatchTheLog`: `TallyInv` says of one task how many events of each kind
  its log has: as many claims as attempts, an expiry less than that while it is
  leased or done, one completion when it is done. What the sums and the filters of
  `counts()` are over all the tasks follows with `CountedUp` of `LoopProofs`.

`LoopProofs` has what the loops of the code need. The prover cannot use the
library's induction theorems, so what a fold computes is proved from the
recursive function that the community modules define it by: the function exists
(`LoopExists`: the longest prefix for which it does is the whole), it has one
value per turn (`TurnByTurn`), and a statement about every turn holds because
there would be a least turn at which it fails. `Picked` and `PickByPick` do this
for `SelectSeq`-like loops, `SumsExist`, `SumsAreIntegers` and `CountedUp` for
sums over a set.

`AllocationProofs`, for every set of devices and for lists of every length, from
the assumptions of `Allocation`:

- `PreferenceIsTheReference`: each of the three loops of `PreferredAllocation` gets
  a lemma about its state before every turn. The reference has no loop: the list
  that is answered begins with the required devices in their order, goes on with
  available ones in theirs, has no device twice and has the size asked for.
- `AllocationIsExclusive`: the set `seen` of `ValidateAllocation` is, before each
  turn, what the earlier containers have named. The request may have any number of
  containers: `FlattenAll` says that the device ids of any number of lists, one
  after the other, are again a list of ids, which the loop runs over.
- `ProposalsAreHonoured`: `ProposalStands` remembers that the devices proposed are
  different and were usable; a device that no longer is, is one whose health has
  changed.

`DevicePluginProofs`, for every number of devices, streams, restarts and lost
answers:

- `RestartIsNoticed`: inductive with "from listening on the watcher is there",
  which is why the code watches before it listens.
- `NoLostUpdate`: `WaitingHandlerIsUpToDate` needs to know, at each stage of the
  only handler, that what it is about to send is current or an update is still
  in the channel (`FirstStream`).
- `PluginTypeCorrect`: in three parts (`serve`, streams, health), since few
  actions touch more than one.

`WebhookProofs`, for every number of requests, Pods and changes of a finite
cluster, from `ServiceAssumption`:

- `FailsOnlyForNilSelector`: `ServiceInv`. Neither the remainder nor the index of
  `Next()` panics: the list in use is never empty and has no node twice. `Sorted` is defined by choice; that a finite set of nodes has
  an order is proved from a smallest set without one (`OrderExists`). The
  index is taken modulo the length of the list at the time of the call, so that a
  shorter list is never left.
- `SerialRequestsGetOneNode`: `SerialInv`. Requests arrive in order, what had
  ended stays ended, and as long as the requests of a Pod do not overlap the
  cache remembers the node of each that was answered (`Remembers`).
- `EveryNodeInTurn`: `LastRound` says where in the list each of the last nodes
  handed out is, counted back from `next`; two of them less than a round apart
  have different places (`Turn`, arithmetic modulo the length).

`LabsProofs`, for every capacity, usage and unit of size, from
`SizeAssumption`:

- `RequiredSuffices`: the image lifts the file system more than 255 MiB over the
  threshold. The code adds 63 MiB before it divides by 64 MiB, so up to one MiB is
  cut off (`RoundBounds`, from `Division`); the margin of 256 MiB in the code is
  what absorbs it.

`LabsProofs`, `WatchProofs` and `SuiteProofs`, for every number of runs, of failing calls, of
kills and of events of the environment, from `ScriptAssumption`, `SizeAssumption`,
`WatchAssumption` and `HpaAssumption`. TLC starts each script twice and lets one thing go wrong;
the theorems have no such limit. All of them are built alike. `MainAt` (and
`TryAt` for `finally` blocks) computes where an exception in step k of a program
goes; a lemma per experiment tabulates its program (`ReconcileSteps`, ...);
`CallOutcome`, `SetMem`, `NoteMem` and `RunKeeps` say what a call, a change of
the script's memory and the begin or end of a run do. The invariant has a part
that holds at every step and one that says what is known at step k; a call that
fails goes to a step where nothing needs to be known.

- `AcknowledgedWasEffect` (`ReconcileInv` = `Sound` and `Learned`): the crux is the
  effect that another client's edit leaves behind: before the acknowledgement the
  effect has had the value that was read, which need not be the one there now.
- `WidgetsCanBeDeleted`, `ConversionLosesNothing` (`CrdInv` = `Held` and
  `Prepared`): where there is a Widget, its CRD and the webhook are there, because
  the script waits for the deletion of the CRD before it deletes the namespace,
  and the certificate goes from one run's files to the CRD and to the Pod. The
  round trip itself is proved by cases over the optional fields.
- `EvidenceIsOwn` (`PvcInv` = `Fits`, `Evident` and `Expanding`).
- `RestartForcesCollection` (`ImageInv` = `Filled` and `Filling`): what was read
  is still true when the image is loaded, and `RequiredSuffices` does the rest. It
  is stated for as long as the kubelet has not collected images on its own.
- `OverlapWasExercised` (`CronInv` = `Punctual` and `Sleeping`): the first Job
  begins at a full minute and outlasts the next one, at which a point is skipped;
  the sleep of 75 s ends after that minute whenever it began.
- `EveryChangeOnce` (`WatchInv` = `Logged`, `Seen` and `Streaming`): the log has
  one change per revision; what was received is exactly the part of the log
  between the list and the last event (`upto`), strictly ordered; an open stream
  stands at the last event or has not delivered anything. `last`, from which the
  second watch starts, is `upto` until that watch has begun. The property is stated as the set
  of events received and their order rather than as a filtered sequence, which
  says the same of a log in order and needs no induction over it.
- `OutagesAreUndone` (`HaInv` = `Away` and `InReach`): a manifest that is not in
  its place, and whose own move has not failed, is one the script has in `stopped`
  and has still to bring back at or after the current step; the nodes concerned
  are not paused. A table (`Cur`, `Upto`) says for every step of the three scripts
  which component its `finally` block is about and how far it has come.
- `AuditsAreOwn` (`AuditInv`): only the scenario `real` matters. From the look at
  the broker on, what the broker has accepted is of the current run.
- `SuitePassIsSound` (`VolcanoInv` = `OnTrack`, with `Under` and `Vacant`): as long
  as nothing has failed, the scheduler runs, or is about to be restarted with, the
  plugin of the case. What clean() may leave is followed from its delete
  (`InSight`: a Job is one that the delete left without Pods, or has Pods, or has
  ended) over the wait for no Pods to the start of the function (`OutOfSight`: it
  is of the first or of the third kind). The nineteen
  programs are handled as one: `IsTest` describes a case by its kind of set-up and
  the number of its steps, and what a step does depends on nothing else.
- `LeftoversAreExplained` (`GpuInv` = `KnownPods`, `DuePods`, `OldPods`): every Pod is
  in `active` or its apply failed; during the cleanup it is also still in the
  copy of the list or its delete failed; what is left when the next case starts
  is of the second kind.
- `RunsLeaveNothing` (`TidyInv`), which is `Restored`. A step of a program may turn
  things on or off (`TurnsOn`, `TurnsOff`, `After`): a metrics component at zero, a
  load, the follower of the logs, the proxy, a paused node. `Leads(s, A, B, flat)`
  says of a block s that there is a bound on what is on before each of its steps,
  from A at its start to B at its end, which every step keeps (`Links`): at the
  next step, and where its exception goes, there with and without its effect,
  since a call may fail after it. Blocks compose in sequence (`LeadsJoin`) and
  under `finally` (`LeadsTry`, where the last part turns off what the body may
  leave on), up to whole programs, where nothing is on at the exit (`Tidy`,
  `MainTidy`). That is shown of the nine scenarios, of the watch experiment and of
  the three control plane scripts, one block at a time; the invariants `HpaInv`,
  `WatchTidy` and `HaTidy` say that no more is on than the bound of the current
  step (`TrackAt`) and follow every action; `WatchTidy` adds that no earlier run's
  proxy is on the port as long as the promise stands. The promise ends (`Promised`) with a
  kill, with a call that fails outside of any block and with one that fails in a
  `finally` block, the three the property excludes; an assertion or a wait that
  does not hold ends it nowhere.
- `HpaTypeCorrect`, which is `HpaTypeOK`: the same invariant carries the types of the
  cluster, since what a step turns on is read off typed fields. The arithmetic of
  the autoscaler is in it: a proposal stays between the minimum and the maximum
  whatever the metrics say (`ProposalIs`, `SyncIs`).

### Only model-checked

- Liveness (`EveryTaskDone`, `DrainEnds`, `EventuallyServing`, `TermEnds`), which
  the prover does not cover.
- `CleanRunPasses`: it says that the waits of the nine HPA scenarios are over
  before their deadlines, by bounds on how long the autoscaler takes, in every
  scenario by its own numbers.
- `SteadyIsCurrent`: it depends on which HPA each scenario has applied, and on what
  the autoscaler may do with that one between the two reads.
- `RerunPasses`: that a run after which nothing was left passes is what the whole
  of every experiment computes, call by call, from whatever state an earlier run
  ended in; a proof would restate each of the programs.

## Not modelled, and the plan

1. Done: the task queue with its abstract queue and its proofs; the device
   plugin with its proofs; the allocation algorithms; the node webhook; the
   experiments of `labs`, with a theorem for every one of their safety invariants
   but `RerunPasses`.
2. Not modelled yet: the admission server library (grouping of hooks, UID
   handling of the two review versions) and the webhook of the admission
   experiment; `article-upgrade`, `pod-lifecycle-source` and the shell scripts of
   `kubevirt-*`, which would be further programs of `Script`; the smaller GPU
   suites, which reuse `check()` and `case()` with other requests.

Left out for good: the HTTP load modes (atomic counters only), the scheduler
plugin (one comparison of a label), the generated OpenAPI code, plotting and
set-up scripts, and the experiments that are a straight list of kubectl calls
without anything to put back: what they assert is about Kubernetes, whose state
is outside the repository. Evidence that scripts only write down (`save`,
`emit`, `snapshot` files) is left out of the models of the scripts.
