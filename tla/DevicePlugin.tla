---------------------------- MODULE DevicePlugin ----------------------------
(***************************************************************************)
(* The device plugin of extended-resource/: the serve loop that registers  *)
(* with the kubelet and notices its restarts, the resource manager with    *)
(* its one-slot channel of health updates, and the ListAndWatch handlers,  *)
(* one goroutine per stream, that compete for that slot.                   *)
(*                                                                         *)
(* The kubelet is external: it registers plugins in memory, opens one      *)
(* ListAndWatch stream per registration, and empties the plugin directory  *)
(* when it starts.                                                         *)
(***************************************************************************)
EXTENDS Integers

CONSTANTS
  Devices,        \* the ids the resource manager knows
  Strangers,      \* ids it does not know
  MaxUpdates,     \* bound: health changes
  MaxStreams,     \* bound: ListAndWatch streams ever opened
  MaxKubelets,    \* bound: restarts of the kubelet
  MaxTimeouts,    \* bound: registrations whose answer is lost
  Failures        \* 1 if the watcher or the listener may fail, which ends the process

ASSUME PluginBounds ==
  /\ Devices \cap Strangers = {}
  /\ MaxUpdates \in Nat /\ MaxStreams \in Nat /\ MaxKubelets \in Nat
  /\ MaxTimeouts \in Nat /\ Failures \in 0..1

VARIABLES
  unhealthy,   \* the devices whose Health is Unhealthy
  token,       \* the updates channel holds its one element
  stage,       \* where each ListAndWatch goroutine is
  snap,        \* the device list it read and has still to send
  dropped,     \* streams whose context is done on the plugin's side
  opened,      \* how many streams were opened
  pc,          \* where serve is
  socket,      \* the plugin's socket file exists
  watching,    \* the fsnotify watcher is on the directory
  removed,     \* it holds a remove event of the socket
  cancelled,   \* SIGTERM was delivered
  up,          \* the kubelet runs
  registered,  \* the kubelet knows the plugin
  current,     \* the stream the kubelet reads, 0 for none
  view,        \* the unhealthy devices by its last message
  updates, kubelets, timeouts

streamVars  == <<stage, snap, dropped, opened>>
serveVars   == <<pc, socket, watching, removed>>
kubeletVars == <<up, registered, current, view>>
boundVars   == <<updates, kubelets, timeouts>>
vars == <<unhealthy, token, streamVars, serveVars, cancelled, kubeletVars, boundVars>>

Streams == 1..MaxStreams
Live == {"snapshot", "sending", "select", "parked"}
Ended == {"exited", "failed"}
Parked == {s \in Streams : stage[s] = "parked"}

----------------------------------------------------------------------------
(* The resource manager.                                                   *)

\* Mutant: an unbuffered channel.  The send is dropped when nobody is parked.
UpdateHealthUnbuffered(d) ==
  /\ d \in Devices /\ updates < MaxUpdates /\ pc \notin Ended
  /\ updates' = updates + 1
  /\ unhealthy' = IF d \in unhealthy THEN unhealthy \ {d} ELSE unhealthy \cup {d}
  /\ IF Parked # {}
     THEN \E s \in Parked : stage' = [stage EXCEPT ![s] = "snapshot"]
     ELSE UNCHANGED stage
  /\ UNCHANGED <<token, snap, dropped, opened, serveVars, cancelled, kubeletVars, kubelets, timeouts>>

\* Mutant: the id is not looked up.
UpdateHealthUnknown(d) ==
  /\ updates < MaxUpdates /\ pc \notin Ended
  /\ updates' = updates + 1
  /\ unhealthy' = IF d \in unhealthy THEN unhealthy \ {d} ELSE unhealthy \cup {d}
  /\ UNCHANGED <<token, streamVars, serveVars, cancelled, kubeletVars, kubelets, timeouts>>

\* UpdateHealth of a known device with a health that differs: the change, and a
\* non-blocking send.  One of the goroutines parked in the select takes the
\* value at once.
UpdateHealth(d) ==
  /\ d \in Devices /\ updates < MaxUpdates /\ pc \notin Ended
  /\ updates' = updates + 1
  /\ unhealthy' = IF d \in unhealthy THEN unhealthy \ {d} ELSE unhealthy \cup {d}
  /\ IF Parked # {}
     THEN (\E s \in Parked : stage' = [stage EXCEPT ![s] = "snapshot"]) /\ UNCHANGED token
     ELSE token' = TRUE /\ UNCHANGED stage
  /\ UNCHANGED <<snap, dropped, opened, serveVars, cancelled, kubeletVars, kubelets, timeouts>>

----------------------------------------------------------------------------
(* ListAndWatch(stream s).                                                 *)

To(s, l) == stage' = [stage EXCEPT ![s] = l]
OnlyStream == UNCHANGED <<unhealthy, opened, serveVars, cancelled, up, registered, current, boundVars>>

\* manager.Devices(): a copy under the read lock.
Snapshot(s) ==
  /\ stage[s] = "snapshot"
  /\ To(s, "sending")
  /\ snap' = [snap EXCEPT ![s] = unhealthy]
  /\ UNCHANGED <<token, dropped, view>> /\ OnlyStream

\* stream.Send: the message reaches the kubelet if it still reads the stream;
\* on a broken stream Send fails, or fills a buffer nobody will read.
Send(s) ==
  /\ stage[s] = "sending"
  /\ \/ s = current /\ s \notin dropped /\ view' = snap[s] /\ To(s, "select")
     \/ /\ s # current \/ s \in dropped
        /\ UNCHANGED view
        /\ To(s, "select") \/ To(s, "returned")
  /\ UNCHANGED <<token, snap, dropped>> /\ OnlyStream

\* The select, entered with the update ready, the context done, or neither.
TakeUpdate(s) ==
  /\ stage[s] = "select" /\ token
  /\ token' = FALSE
  /\ To(s, "snapshot")
  /\ UNCHANGED <<snap, dropped, view>> /\ OnlyStream

SeeDone(s) ==
  /\ stage[s] = "select" /\ s \in dropped
  /\ To(s, "returned")
  /\ UNCHANGED <<token, snap, dropped, view>> /\ OnlyStream

Park(s) ==
  /\ stage[s] = "select" /\ ~token /\ s \notin dropped
  /\ To(s, "parked")
  /\ UNCHANGED <<token, snap, dropped, view>> /\ OnlyStream

\* Mutant: ListAndWatch does not select on the context of its stream.
DropStreamsUnseen(S) ==
  dropped' = dropped \cup S /\ UNCHANGED stage

\* The plugin's side notices that the contexts of the streams in S are done; a
\* goroutine parked in the select wakes in that branch.
DropStreams(S) ==
  /\ dropped' = dropped \cup S
  /\ stage' = [s \in Streams |-> IF s \in S /\ stage[s] = "parked"
                                 THEN "returned" ELSE stage[s]]

\* The server learns that the kubelet closed the connection of stream s.
Disconnect(s) ==
  /\ stage[s] \in Live /\ s # current /\ s \notin dropped
  /\ DropStreams({s})
  /\ UNCHANGED <<token, snap, view>> /\ OnlyStream

----------------------------------------------------------------------------
(* run and serve.                                                          *)

OnlyServe == UNCHANGED <<unhealthy, token, snap, opened, cancelled, view, updates, kubelets>>
KeepStreams == UNCHANGED <<stage, dropped>>
Running == {s \in Streams : stage[s] \in Live}

\* removeSocket, before there is a watcher that could see it.
RemoveSocket ==
  /\ pc = "remove"
  /\ pc' = "watch" /\ socket' = FALSE
  /\ UNCHANGED <<watching, removed, up, registered, current, timeouts>>
  /\ OnlyServe /\ KeepStreams

\* Mutant: watcher.Add is left out.
WatchLate ==
  /\ pc = "watch"
  /\ pc' = "listen" /\ UNCHANGED <<watching, removed>>
  /\ UNCHANGED <<socket, up, registered, current, timeouts>>
  /\ OnlyServe /\ KeepStreams

Watch ==
  /\ pc = "watch"
  /\ pc' = "listen" /\ watching' = TRUE /\ removed' = FALSE
  /\ UNCHANGED <<socket, up, registered, current, timeouts>>
  /\ OnlyServe /\ KeepStreams

Listen ==
  /\ pc = "listen"
  /\ pc' = "register" /\ socket' = TRUE
  /\ UNCHANGED <<watching, removed, up, registered, current, timeouts>>
  /\ OnlyServe /\ KeepStreams

\* The kubelet accepts: it forgets an earlier endpoint of the resource, whose
\* stream it closes, and will open a stream to this one.
Accept == registered' = TRUE /\ current' = 0 /\ UNCHANGED up

\* register() succeeds.
RegisterOk ==
  /\ pc = "register" /\ up /\ ~cancelled
  /\ Accept
  /\ pc' = "serve"
  /\ UNCHANGED <<socket, watching, removed, timeouts>> /\ OnlyServe /\ KeepStreams

\* register() fails: no kubelet, or its answer is lost although it accepted.
RegisterFails ==
  /\ pc = "register"
  /\ \/ (~up \/ cancelled) /\ UNCHANGED <<up, registered, current, timeouts>>
     \/ up /\ timeouts < MaxTimeouts /\ timeouts' = timeouts + 1 /\ Accept
  /\ pc' = "backoff"
  /\ UNCHANGED <<socket, watching, removed>> /\ OnlyServe /\ KeepStreams

RegisterAgain ==
  /\ pc = "backoff" /\ ~cancelled
  /\ pc' = "register"
  /\ UNCHANGED <<socket, watching, removed, up, registered, current, timeouts>>
  /\ OnlyServe /\ KeepStreams

\* server.Stop and the deferred closes: the listener unlinks its socket, the
\* watcher goes, every connection is closed.  The kubelet forgets a plugin whose
\* stream ends, but still dials one it has just accepted.
Stop ==
  /\ DropStreams(Running)
  /\ current' = 0 /\ registered' = (registered /\ current = 0)
  /\ socket' = FALSE /\ watching' = FALSE /\ removed' = FALSE

\* The process ends and takes its goroutines along.
Exit(how) ==
  /\ pc' = how
  /\ stage' = [s \in Streams |-> IF stage[s] \in Live THEN "returned" ELSE stage[s]]
  /\ dropped' = dropped \cup Running
  /\ current' = 0 /\ registered' = (registered /\ current = 0)
  /\ socket' = FALSE /\ watching' = FALSE /\ removed' = FALSE

\* registerWithRetry returns ctx.Err().
GiveUp ==
  /\ pc = "backoff" /\ cancelled
  /\ Exit("exited")
  /\ UNCHANGED <<up, timeouts>> /\ OnlyServe

\* Mutant: the plugin registers again without listening again.
SeeRemovedRegisters ==
  /\ pc = "serve" /\ removed
  /\ IF cancelled THEN Exit("exited") ELSE Stop /\ pc' = "register"
  /\ UNCHANGED <<up, timeouts>> /\ OnlyServe

\* The watcher reports that the socket was removed: the kubelet restarted.  run
\* looks at the context before it serves again.
SeeRemoved ==
  /\ pc = "serve" /\ removed
  /\ IF cancelled THEN Exit("exited") ELSE Stop /\ pc' = "remove"
  /\ UNCHANGED <<up, timeouts>> /\ OnlyServe

\* removeSocket, the watcher, the listener or the server fails: serve returns
\* the error, and run ends the process unless it was told to stop anyway.
ServeFails ==
  /\ pc \in {"remove", "watch", "listen", "serve"} /\ Failures > 0
  /\ Exit(IF cancelled THEN "exited" ELSE "failed")
  /\ UNCHANGED <<up, timeouts>> /\ OnlyServe

\* ctx is done: GracefulStop closes the listener and waits for the handlers.
BeginGracefulStop ==
  /\ pc = "serve" /\ cancelled
  /\ pc' = "stopping" /\ socket' = FALSE
  /\ UNCHANGED <<watching, removed, up, registered, current, timeouts>>
  /\ OnlyServe /\ KeepStreams

EndGracefulStop ==
  /\ pc = "stopping" /\ Running = {}
  /\ Exit("exited")
  /\ UNCHANGED <<up, timeouts>> /\ OnlyServe

----------------------------------------------------------------------------
(* The environment.                                                        *)

\* The kubelet dials the registered endpoint and calls ListAndWatch; without a
\* socket to dial it drops the registration.
Dial ==
  /\ up /\ registered /\ current = 0
  /\ IF socket /\ pc \in {"register", "backoff", "serve"}
     THEN /\ opened < MaxStreams
          /\ opened' = opened + 1
          /\ stage' = [stage EXCEPT ![opened + 1] = "snapshot"]
          /\ current' = opened + 1
          /\ UNCHANGED registered
     ELSE registered' = FALSE /\ UNCHANGED <<opened, stage, current>>
  /\ UNCHANGED <<unhealthy, token, snap, dropped, serveVars, cancelled, up, view,
                 boundVars>>

\* The kubelet goes down; its memory of plugins is lost with its connections.
KubeletStop ==
  /\ up /\ kubelets < MaxKubelets
  /\ kubelets' = kubelets + 1
  /\ up' = FALSE /\ registered' = FALSE /\ current' = 0
  /\ UNCHANGED <<unhealthy, token, streamVars, serveVars, cancelled, view, updates, timeouts>>

\* It comes back and empties the device plugin directory.
KubeletStart ==
  /\ ~up
  /\ up' = TRUE
  /\ socket' = FALSE
  /\ removed' = (removed \/ (watching /\ socket))
  /\ UNCHANGED <<unhealthy, token, streamVars, pc, watching, cancelled, registered, current,
                 view, boundVars>>

Sigterm ==
  /\ ~cancelled /\ pc \notin Ended
  /\ cancelled' = TRUE
  /\ UNCHANGED <<unhealthy, token, streamVars, serveVars, kubeletVars, boundVars>>

----------------------------------------------------------------------------
Init ==
  /\ unhealthy = {} /\ token = FALSE
  /\ stage = [s \in Streams |-> "unused"] /\ snap = [s \in Streams |-> {}]
  /\ dropped = {} /\ opened = 0
  /\ pc = "remove" /\ socket \in BOOLEAN /\ watching = FALSE /\ removed = FALSE
  /\ cancelled = FALSE
  /\ up \in BOOLEAN /\ registered = FALSE /\ current = 0 /\ view = {}
  /\ updates = 0 /\ kubelets = 0 /\ timeouts = 0

StreamStep(s) ==
  Snapshot(s) \/ Send(s) \/ TakeUpdate(s) \/ SeeDone(s) \/ Park(s)
ServeStep ==
  \/ RemoveSocket \/ Watch \/ Listen \/ RegisterOk \/ RegisterFails \/ RegisterAgain
  \/ GiveUp \/ SeeRemoved \/ BeginGracefulStop \/ EndGracefulStop

Next ==
  \/ \E d \in Devices \cup Strangers : UpdateHealth(d)
  \/ \E s \in Streams : StreamStep(s) \/ Disconnect(s)
  \/ ServeStep \/ ServeFails
  \/ Dial \/ KubeletStop \/ KubeletStart \/ Sigterm

Spec == Init /\ [][Next]_vars

(* Goroutines that can run do run, timers fire, a closed unix socket is    *)
(* noticed, and a kubelet that is down is started again.                   *)
Fairness ==
  /\ \A s \in Streams : WF_vars(StreamStep(s)) /\ WF_vars(Disconnect(s))
  /\ WF_vars(ServeStep)
  /\ WF_vars(Dial) /\ WF_vars(KubeletStart)

FairSpec == Spec /\ Fairness

----------------------------------------------------------------------------
(* Correctness.                                                            *)

\* Every variable has its type.
TypeOK ==
  /\ unhealthy \subseteq Devices /\ view \subseteq Devices
  /\ token \in BOOLEAN
  /\ stage \in [Streams -> Live \cup {"unused", "returned"}]
  /\ snap \in [Streams -> SUBSET Devices]
  /\ dropped \subseteq Streams /\ opened \in 0..MaxStreams /\ current \in 0..MaxStreams
  /\ pc \in {"remove", "watch", "listen", "register", "backoff", "serve", "stopping"} \cup Ended
  /\ socket \in BOOLEAN /\ watching \in BOOLEAN /\ removed \in BOOLEAN
  /\ cancelled \in BOOLEAN /\ up \in BOOLEAN /\ registered \in BOOLEAN
  /\ updates \in 0..MaxUpdates /\ kubelets \in 0..MaxKubelets /\ timeouts \in 0..MaxTimeouts

\* Between listening and stopping the plugin is never without its socket and
\* without the event that will make it start again: no restart of the kubelet
\* falls between the watch and the listen.
LostSocketIsNoticed ==
  pc \in {"register", "backoff", "serve"} /\ ~socket => removed

\* With a single stream no health change is lost: once the handler waits for
\* the next update, the kubelet has seen the present health of every device.
WaitingHandlerIsUpToDate ==
  opened <= 1 => \A s \in Streams : s = current /\ stage[s] = "parked" => view = unhealthy

\* The plugin ends up registered with a stream open, however the kubelet's
\* restarts fall into its start-up, unless it is told to stop or its socket,
\* watcher or server fails.
EventuallyServing == 
  <>[](cancelled \/ pc = "failed" \/ (pc = "serve" /\ registered /\ current # 0 /\ socket))

\* After SIGTERM the plugin ends, provided the kubelet lets go of its stream:
\* GracefulStop waits for ListAndWatch, which does not look at the context.
TermEnds == cancelled ~> (pc \in Ended \/ (pc = "stopping" /\ current # 0))

\* "UpdateHealth() did not notify ListAndWatch" is the failure main_test.go:56
\* looks for: while the plugin runs, the kubelet that reads a stream comes to see
\* the health of every device.
HealthReachesKubelet == <>[](cancelled \/ current = 0 \/ view = unhealthy)
=============================================================================
