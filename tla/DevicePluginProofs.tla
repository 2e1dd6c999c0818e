------------------------- MODULE DevicePluginProofs -------------------------
(***************************************************************************)
(* The plugin cannot miss a restart of the kubelet, and a single stream    *)
(* cannot miss a change of health, for any number of devices, streams,     *)
(* restarts and lost answers.                                              *)
(***************************************************************************)
EXTENDS DevicePlugin, TLAPS

\* LostSocketIsNoticed is not inductive: a removal leaves an event only if the
\* watcher is there, and it is put there before the socket.
Noticing ==
  /\ socket \in BOOLEAN /\ watching \in BOOLEAN /\ removed \in BOOLEAN
  /\ pc \in {"listen", "register", "backoff", "serve"} => watching
  /\ LostSocketIsNoticed

(* Steps that leave serve, its socket and its watcher alone.               *)
LEMMA ServeUnchanged ==
  ASSUME Noticing, UNCHANGED serveVars PROVE Noticing'
BY DEF Noticing, LostSocketIsNoticed, serveVars

(* The end of a serve resets what the invariant speaks of.                 *)
LEMMA StopNotices ==
  ASSUME Noticing, Stop, pc' = "remove" PROVE Noticing'
BY DEF Noticing, LostSocketIsNoticed, Stop

LEMMA ExitNotices ==
  ASSUME Noticing, NEW how \in Ended, Exit(how) PROVE Noticing'
BY DEF Noticing, LostSocketIsNoticed, Exit, Ended

(* A handler's goroutine never touches serve's state.                      *)
LEMMA StreamKeepsServe ==
  ASSUME NEW s \in Streams, StreamStep(s) \/ Disconnect(s) PROVE UNCHANGED serveVars
BY DEF StreamStep, Snapshot, Send, TakeUpdate, SeeDone, Park, Disconnect, OnlyStream

(* The loop of serve: one step per action.                                 *)
LEMMA ServeNotices ==
  ASSUME Noticing, ServeStep PROVE Noticing'
<1>1. CASE RemoveSocket
  BY <1>1 DEF RemoveSocket, Noticing, LostSocketIsNoticed
<1>2. CASE Watch
  BY <1>2 DEF Watch, Noticing, LostSocketIsNoticed
<1>3. CASE Listen
  BY <1>3 DEF Listen, Noticing, LostSocketIsNoticed
<1>4. CASE RegisterOk
  BY <1>4 DEF RegisterOk, Noticing, LostSocketIsNoticed
<1>5. CASE RegisterFails
  BY <1>5 DEF RegisterFails, Noticing, LostSocketIsNoticed
<1>6. CASE RegisterAgain
  BY <1>6 DEF RegisterAgain, Noticing, LostSocketIsNoticed
<1>7. CASE GiveUp
  BY <1>7, ExitNotices DEF GiveUp, Ended
<1>8. CASE SeeRemoved
  BY <1>8, ExitNotices, StopNotices DEF SeeRemoved, Ended
<1>9. CASE BeginGracefulStop
  BY <1>9 DEF BeginGracefulStop, Noticing, LostSocketIsNoticed
<1>10. CASE EndGracefulStop
  BY <1>10, ExitNotices DEF EndGracefulStop, Ended
<1> QED
  BY <1>1, <1>2, <1>3, <1>4, <1>5, <1>6, <1>7, <1>8, <1>9, <1>10 DEF ServeStep

(* The kubelet empties the directory: the watcher sees it if it is there.  *)
LEMMA StartNotices ==
  ASSUME Noticing, KubeletStart PROVE Noticing'
BY DEF KubeletStart, Noticing, LostSocketIsNoticed

LEMMA NoticingStep ==
  ASSUME Noticing, [Next]_vars PROVE Noticing'
<1>1. ASSUME NEW d \in Devices \cup Strangers, UpdateHealth(d) PROVE Noticing'
  BY <1>1, ServeUnchanged DEF UpdateHealth
<1>2. ASSUME NEW s \in Streams, StreamStep(s) \/ Disconnect(s) PROVE Noticing'
  BY <1>2, StreamKeepsServe, ServeUnchanged
<1>3. CASE ServeStep
  BY <1>3, ServeNotices
<1>4. CASE ServeFails
  BY <1>4, ExitNotices DEF ServeFails, Ended
<1>5. CASE Dial \/ KubeletStop \/ Sigterm \/ UNCHANGED vars
  BY <1>5, ServeUnchanged DEF Dial, KubeletStop, Sigterm, vars
<1>6. CASE KubeletStart
  BY <1>6, StartNotices
<1> QED
  BY <1>1, <1>2, <1>3, <1>4, <1>5, <1>6 DEF Next

(* However a restart of the kubelet falls into the start of the plugin, a  *)
(* socket that is gone while the plugin registers or serves has left the   *)
(* event that makes serve start over (serve in extended-resource/main.go). *)
THEOREM RestartIsNoticed == Spec => []LostSocketIsNoticed
<1>1. Init => Noticing
  BY DEF Init, Noticing, LostSocketIsNoticed
<1>2. Noticing /\ [Next]_vars => Noticing'
  BY NoticingStep
<1>3. Noticing => LostSocketIsNoticed
  BY DEF Noticing
<1> QED
  BY <1>1, <1>2, <1>3, PTL DEF Spec

----------------------------------------------------------------------------
(* The health updates of the first stream.                                 *)

Handlers == [Streams -> Live \cup {"unused", "returned"}]

\* Before the first stream there is no goroutine.
Untouched ==
  current = 0 /\ dropped = {} /\ \A s \in Streams : stage[s] = "unused"

\* While the first stream is the only one and the kubelet reads it, its handler
\* is the one that can be parked; and unless it is about to read the health
\* again, what it has sent or is about to send is the present health, or an
\* update is still in the channel.
FirstStream ==
  /\ 1 \notin dropped /\ \A s \in Streams : s # 1 => stage[s] = "unused"
  /\ stage[1] \in Live
  /\ stage[1] = "sending" => token \/ snap[1] = unhealthy
  /\ stage[1] = "select" => token \/ view = unhealthy
  /\ stage[1] = "parked" => view = unhealthy

Informed ==
  /\ token \in BOOLEAN /\ opened \in 0..MaxStreams /\ current \in 0..opened
  /\ stage \in Handlers /\ snap \in [Streams -> SUBSET Devices]
  /\ unhealthy \subseteq Devices
  /\ opened = 0 => Untouched
  /\ opened = 1 /\ current = 1 => FirstStream

(* What an invariant over these variables keeps.                           *)
informedVars == <<unhealthy, token, stage, snap, dropped, opened, current, view>>

LEMMA InformedUnchanged ==
  ASSUME Informed, UNCHANGED informedVars PROVE Informed'
BY DEF Informed, Untouched, FirstStream, Handlers, informedVars

(* Once the kubelet reads no stream, the first one is past.                *)
LEMMA InformedCut ==
  ASSUME Informed, current' = 0,
         UNCHANGED <<unhealthy, token, snap, opened>>,
         stage' \in Handlers,
         \A s \in Streams : stage[s] = "unused" => stage'[s] = "unused",
         opened = 0 => dropped' = {}
  PROVE  Informed'
BY DEF Informed, Untouched, Handlers

LEMMA UpdateInforms ==
  ASSUME Informed, NEW d, UpdateHealth(d) PROVE Informed'
<1> USE DEF Informed, Handlers
<1>1. CASE opened = 0
  <2>1. Parked = {}
    BY <1>1 DEF Untouched, Parked
  <2> QED
    BY <1>1, <2>1 DEF UpdateHealth, Untouched, kubeletVars
<1>2. CASE opened = 1 /\ current = 1
  <2>1. 1 \in Streams /\ FirstStream
    BY <1>2 DEF Streams
  <2>2. CASE stage[1] = "parked"
    <3>1. Parked = {1}
      BY <2>1, <2>2 DEF Parked, FirstStream
    <3>2. stage' = [stage EXCEPT ![1] = "snapshot"] /\ token' = token
      BY <3>1 DEF UpdateHealth
    <3> QED
      BY <1>2, <2>1, <3>2 DEF UpdateHealth, FirstStream, Live, kubeletVars
  <2>3. CASE stage[1] # "parked"
    <3>1. Parked = {}
      BY <2>1, <2>3 DEF Parked, FirstStream
    <3>2. stage' = stage /\ token'
      BY <3>1 DEF UpdateHealth
    <3> QED
      BY <1>2, <2>1, <2>3, <3>2 DEF UpdateHealth, FirstStream, kubeletVars
  <2> QED
    BY <2>2, <2>3
<1>3. CASE opened # 0 /\ ~(opened = 1 /\ current = 1)
  BY <1>3 DEF UpdateHealth, kubeletVars, Live
<1> QED
  BY <1>1, <1>2, <1>3

(* A step of the only handler the kubelet reads.                           *)
LEMMA FirstStreamStep ==
  ASSUME Informed, opened = 1, current = 1,
         NEW s \in Streams, StreamStep(s), s = 1
  PROVE  Informed'
<1> USE DEF Informed, Handlers, FirstStream, OnlyStream, To
<1>1. FirstStream
  OBVIOUS
<1>2. CASE Snapshot(s)
  <2>1. snap' \in [Streams -> SUBSET Devices] /\ snap'[1] = unhealthy'
    BY <1>2 DEF Snapshot
  <2>2. /\ stage' \in Handlers /\ stage'[1] = "sending"
        /\ \A r \in Streams : r # 1 => stage'[r] = "unused"
    BY <1>1, <1>2 DEF Snapshot, Live
  <2>3. UNCHANGED <<token, dropped, opened, current, unhealthy>>
    BY <1>1, <1>2 DEF Snapshot
  <2> QED
    BY <1>1, <2>1, <2>2, <2>3
<1>3. CASE Send(s)
  BY <1>1, <1>3 DEF Send, Live
<1>4. CASE TakeUpdate(s)
  <2>1. /\ stage' \in Handlers /\ stage'[1] = "snapshot"
        /\ \A r \in Streams : r # 1 => stage'[r] = "unused"
    BY <1>1, <1>4 DEF TakeUpdate, Live
  <2>2. UNCHANGED <<snap, dropped, opened, current, unhealthy>>
    BY <1>1, <1>4 DEF TakeUpdate
  <2>3. token' \in BOOLEAN
    BY <1>4 DEF TakeUpdate
  <2> QED
    BY <1>1, <2>1, <2>2, <2>3
<1>5. CASE SeeDone(s)
  BY <1>1, <1>5 DEF SeeDone
<1>6. CASE Park(s)
  BY <1>1, <1>6 DEF Park, Live
<1> QED
  BY <1>2, <1>3, <1>4, <1>5, <1>6 DEF StreamStep

(* A step of a handler while the first stream is not the only one read.    *)
LEMMA OtherStreamStep ==
  ASSUME Informed, opened # 0, ~(opened = 1 /\ current = 1),
         NEW s \in Streams, StreamStep(s) \/ Disconnect(s)
  PROVE  Informed'
<1>1. UNCHANGED <<opened, current>>
  BY DEF StreamStep, Snapshot, Send, TakeUpdate, SeeDone, Park, Disconnect, OnlyStream
<1>2. stage' \in Handlers
  BY DEF StreamStep, Snapshot, Send, TakeUpdate, SeeDone, Park, Disconnect, DropStreams, To,
         Informed, Handlers, Live
<1>3. snap' \in [Streams -> SUBSET Devices]
  BY DEF StreamStep, Snapshot, Send, TakeUpdate, SeeDone, Park, Disconnect, Informed
<1>4. UNCHANGED unhealthy
  BY DEF StreamStep, Snapshot, Send, TakeUpdate, SeeDone, Park, Disconnect, OnlyStream
<1>5. token' \in BOOLEAN
  BY DEF StreamStep, Snapshot, Send, TakeUpdate, SeeDone, Park, Disconnect, Informed
<1> QED
  BY <1>1, <1>2, <1>3, <1>4, <1>5 DEF Informed

LEMMA StreamInforms ==
  ASSUME Informed, NEW s \in Streams, StreamStep(s) \/ Disconnect(s) PROVE Informed'
<1>1. CASE opened = 0
  BY <1>1 DEF Informed, Untouched, StreamStep, Snapshot, Send, TakeUpdate, SeeDone, Park,
              Disconnect, Live
<1>2. CASE opened = 1 /\ current = 1
  <2>1. CASE s = 1
    <3>1. StreamStep(s)
      BY <1>2, <2>1 DEF Disconnect
    <3> QED
      BY <1>2, <2>1, <3>1, FirstStreamStep
  <2>2. CASE s # 1
    BY <1>2, <2>2 DEF Informed, FirstStream, StreamStep, Snapshot, Send, TakeUpdate, SeeDone,
                      Park, Disconnect, Live
  <2> QED
    BY <2>1, <2>2
<1>3. CASE opened # 0 /\ ~(opened = 1 /\ current = 1)
  BY <1>3, OtherStreamStep
<1> QED
  BY <1>1, <1>2, <1>3

(* serve closes the streams it has, all at once.                           *)
LEMMA StopInforms ==
  ASSUME Informed, Stop, UNCHANGED <<unhealthy, token, snap, opened>> PROVE Informed'
<1>1. stage' \in Handlers
  BY DEF Stop, DropStreams, Informed, Handlers, Live
<1>2. \A s \in Streams : stage[s] = "unused" => stage'[s] = "unused"
  BY DEF Stop, DropStreams
<1>3. ASSUME opened = 0 PROVE dropped' = {}
  BY <1>3 DEF Informed, Untouched, Running, Live, Stop, DropStreams
<1> QED
  BY <1>1, <1>2, <1>3, InformedCut DEF Stop

LEMMA ExitInforms ==
  ASSUME Informed, NEW how, Exit(how), UNCHANGED <<unhealthy, token, snap, opened>>
  PROVE  Informed'
<1>1. stage' \in Handlers
  BY DEF Exit, Informed, Handlers
<1>2. \A s \in Streams : stage[s] = "unused" => stage'[s] = "unused"
  BY DEF Exit, Live
<1>3. ASSUME opened = 0 PROVE dropped' = {}
  BY <1>3 DEF Exit, Informed, Untouched, Running, Live
<1> QED
  BY <1>1, <1>2, <1>3, InformedCut DEF Exit

(* A registration the kubelet accepts ends the stream it read.             *)
LEMMA AcceptInforms ==
  ASSUME Informed, Accept, OnlyServe, KeepStreams PROVE Informed'
BY InformedCut DEF Accept, OnlyServe, KeepStreams, Informed, Untouched

LEMMA ServeInforms ==
  ASSUME Informed, ServeStep \/ ServeFails PROVE Informed'
<1> USE DEF OnlyServe
<1>1. CASE RemoveSocket \/ Watch \/ Listen \/ RegisterAgain \/ BeginGracefulStop
  BY <1>1, InformedUnchanged DEF RemoveSocket, Watch, Listen, RegisterAgain, BeginGracefulStop,
                                 KeepStreams, informedVars
<1>2. CASE RegisterOk
  BY <1>2, AcceptInforms DEF RegisterOk
<1>3. CASE RegisterFails
  BY <1>3, AcceptInforms, InformedUnchanged DEF RegisterFails, KeepStreams, informedVars
<1>4. CASE GiveUp \/ EndGracefulStop \/ ServeFails
  BY <1>4, ExitInforms DEF GiveUp, EndGracefulStop, ServeFails
<1>5. CASE SeeRemoved
  BY <1>5, ExitInforms, StopInforms DEF SeeRemoved
<1> QED
  BY <1>1, <1>2, <1>3, <1>4, <1>5 DEF ServeStep

(* The kubelet opens its first stream, or a later one.                     *)
LEMMA DialInforms ==
  ASSUME Informed, Dial PROVE Informed'
<1>1. CASE opened' = opened
  <2>1. opened + 1 # opened
    BY PluginBounds DEF Informed
  <2> QED
    BY <1>1, <2>1, InformedUnchanged DEF Dial, informedVars
<1>2. CASE opened' # opened
  <2>1. /\ opened < MaxStreams /\ opened' = opened + 1 /\ current' = opened + 1
        /\ stage' = [stage EXCEPT ![opened + 1] = "snapshot"]
        /\ UNCHANGED <<unhealthy, token, snap, dropped, view>>
    BY <1>2 DEF Dial
  <2>2. opened' \in 0..MaxStreams /\ current' \in 0..opened' /\ opened' # 0
    BY <2>1, PluginBounds DEF Informed
  <2>3. stage' \in Handlers
    BY <2>1 DEF Informed, Handlers, Live
  <2>4. ASSUME opened' = 1 PROVE FirstStream'
    <3>1. opened = 0 /\ Untouched /\ 1 \in Streams
      BY <2>1, <2>4, PluginBounds DEF Informed, Streams
    <3>2. stage'[1] = "snapshot" /\ \A s \in Streams : s # 1 => stage'[s] = "unused"
      BY <2>1, <3>1 DEF Informed, Handlers, Untouched
    <3> QED
      BY <2>1, <3>1, <3>2 DEF FirstStream, Untouched, Live
  <2> QED
    BY <2>1, <2>2, <2>3, <2>4 DEF Informed
<1> QED
  BY <1>1, <1>2

LEMMA InformedStep ==
  ASSUME Informed, [Next]_vars PROVE Informed'
<1>1. ASSUME NEW d \in Devices \cup Strangers, UpdateHealth(d) PROVE Informed'
  BY <1>1, UpdateInforms
<1>2. ASSUME NEW s \in Streams, StreamStep(s) \/ Disconnect(s) PROVE Informed'
  BY <1>2, StreamInforms
<1>3. CASE ServeStep \/ ServeFails
  BY <1>3, ServeInforms
<1>4. CASE Dial
  BY <1>4, DialInforms
<1>5. CASE KubeletStop
  BY <1>5, InformedCut DEF KubeletStop, streamVars, Informed, Untouched
<1>6. CASE KubeletStart \/ Sigterm \/ UNCHANGED vars
  BY <1>6, InformedUnchanged DEF KubeletStart, Sigterm, vars, streamVars, kubeletVars,
                                 informedVars
<1> QED
  BY <1>1, <1>2, <1>3, <1>4, <1>5, <1>6 DEF Next

(* No wake-up is lost with one stream: when its handler waits for the next *)
(* update, the kubelet has the present health of every device, although    *)
(* UpdateHealth drops its signal when the one-slot channel is full.        *)
THEOREM NoLostUpdate == Spec => []WaitingHandlerIsUpToDate
<1>1. Init => Informed
  <2> HAVE Init
  <2>1. token \in BOOLEAN
    BY DEF Init
  <2>2. stage \in Handlers /\ snap \in [Streams -> SUBSET Devices]
    BY DEF Init, Handlers
  <2>3. opened = 0 /\ current = 0 /\ Untouched /\ unhealthy \subseteq Devices
    BY DEF Init, Untouched
  <2> QED
    BY <2>1, <2>2, <2>3, PluginBounds DEF Informed
<1>2. Informed /\ [Next]_vars => Informed'
  BY InformedStep
<1>3. Informed => WaitingHandlerIsUpToDate
  BY DEF Informed, FirstStream, WaitingHandlerIsUpToDate, Streams
<1> QED
  BY <1>1, <1>2, <1>3, PTL DEF Spec

----------------------------------------------------------------------------
(* Types: the flags, the counters, and what holds names and devices.       *)

FlagTypes ==
  /\ token \in BOOLEAN /\ socket \in BOOLEAN /\ watching \in BOOLEAN /\ removed \in BOOLEAN
  /\ cancelled \in BOOLEAN /\ up \in BOOLEAN /\ registered \in BOOLEAN

CountTypes ==
  /\ opened \in 0..MaxStreams /\ current \in 0..MaxStreams
  /\ updates \in 0..MaxUpdates /\ kubelets \in 0..MaxKubelets /\ timeouts \in 0..MaxTimeouts

PlaceTypes ==
  /\ stage \in Handlers /\ dropped \subseteq Streams
  /\ pc \in {"remove", "watch", "listen", "register", "backoff", "serve", "stopping"} \cup Ended

HealthTypes ==
  /\ unhealthy \subseteq Devices /\ view \subseteq Devices
  /\ snap \in [Streams -> SUBSET Devices]

LEMMA FlagStep == FlagTypes /\ [Next]_vars => FlagTypes'
<1> SUFFICES ASSUME FlagTypes, [Next]_vars PROVE FlagTypes'
  OBVIOUS
<1>1. ASSUME NEW d \in Devices \cup Strangers, UpdateHealth(d) PROVE FlagTypes'
  BY <1>1, Zenon DEF UpdateHealth, FlagTypes, serveVars, kubeletVars
<1>2. ASSUME NEW s \in Streams, StreamStep(s) \/ Disconnect(s) PROVE FlagTypes'
  <2>1. token' \in BOOLEAN /\ OnlyStream
    BY <1>2, Zenon DEF StreamStep, Snapshot, Send, TakeUpdate, SeeDone, Park, Disconnect, FlagTypes
  <2>2. QED
    BY <2>1, Zenon DEF OnlyStream, serveVars, FlagTypes
<1>3. CASE ServeStep \/ ServeFails
  <2>1. OnlyServe /\ up' = up
    BY <1>3, Zenon DEF ServeStep, RemoveSocket, Watch, Listen, RegisterOk, RegisterFails, Accept,
      RegisterAgain, GiveUp, SeeRemoved, BeginGracefulStop, EndGracefulStop, ServeFails
  <2> DEFINE Own == /\ socket' \in BOOLEAN /\ watching' \in BOOLEAN /\ removed' \in BOOLEAN
                    /\ registered' \in BOOLEAN
  <2>2. Own
    <3>1. (registered /\ current = 0) \in BOOLEAN
      BY Zenon
    <3>2. ASSUME Stop PROVE Own
      BY <3>1, <3>2, Zenon DEF Stop
    <3>3. ASSUME NEW how, Exit(how) PROVE Own
      BY <3>1, <3>3, Zenon DEF Exit
    <3>4. CASE RemoveSocket \/ Watch \/ Listen \/ RegisterAgain \/ BeginGracefulStop
      BY <3>4, Zenon DEF RemoveSocket, Watch, Listen, RegisterAgain, BeginGracefulStop, FlagTypes
    <3>5. CASE RegisterOk \/ RegisterFails
      BY <3>5, Zenon DEF RegisterOk, RegisterFails, Accept, FlagTypes
    <3>6. CASE GiveUp \/ SeeRemoved \/ EndGracefulStop \/ ServeFails
      BY <3>2, <3>3, <3>6, Zenon DEF GiveUp, SeeRemoved, EndGracefulStop, ServeFails
    <3>7. QED
      BY <1>3, <3>4, <3>5, <3>6, Zenon DEF ServeStep
  <2>3. QED
    BY <2>1, <2>2, Zenon DEF OnlyServe, FlagTypes
<1>4. CASE Dial
  BY <1>4, Zenon DEF Dial, FlagTypes, serveVars
<1>5. CASE KubeletStop \/ Sigterm
  BY <1>5, Zenon DEF KubeletStop, Sigterm, FlagTypes, serveVars, kubeletVars
<1>6. CASE KubeletStart
  <2>1. (removed \/ (watching /\ socket)) \in BOOLEAN
    BY Zenon
  <2>2. QED
    BY <1>6, <2>1, Zenon DEF KubeletStart, FlagTypes
<1>7. CASE UNCHANGED vars
  BY <1>7, Zenon DEF vars, serveVars, kubeletVars, FlagTypes
<1>8. QED
  BY <1>1, <1>2, <1>3, <1>4, <1>5, <1>6, <1>7, Zenon DEF Next

LEMMA CountStep == CountTypes /\ [Next]_vars => CountTypes'
<1> SUFFICES ASSUME CountTypes, [Next]_vars PROVE CountTypes'
  OBVIOUS
<1>1. ASSUME NEW d \in Devices \cup Strangers, UpdateHealth(d) PROVE CountTypes'
  <2>1. UNCHANGED <<opened, current, kubelets, timeouts>> /\ updates < MaxUpdates /\ updates' = updates + 1
    BY <1>1, Zenon DEF UpdateHealth, kubeletVars
  <2>2. QED
    BY <2>1, PluginBounds DEF CountTypes
<1>2. ASSUME NEW s \in Streams, StreamStep(s) \/ Disconnect(s) PROVE CountTypes'
  <2>1. OnlyStream
    BY <1>2, Zenon DEF StreamStep, Snapshot, Send, TakeUpdate, SeeDone, Park, Disconnect
  <2>2. QED
    BY <2>1 DEF OnlyStream, boundVars, CountTypes
<1>3. CASE ServeStep \/ ServeFails
  <2>1. OnlyServe
    BY <1>3, Zenon DEF ServeStep, RemoveSocket, Watch, Listen, RegisterOk, RegisterFails,
      RegisterAgain, GiveUp, SeeRemoved, BeginGracefulStop, EndGracefulStop, ServeFails
  <2>2. /\ current' = current \/ current' = 0
        /\ timeouts' = timeouts \/ (timeouts < MaxTimeouts /\ timeouts' = timeouts + 1)
    BY <1>3, Zenon DEF ServeStep, RemoveSocket, Watch, Listen, RegisterOk, RegisterFails, Accept,
      RegisterAgain, GiveUp, SeeRemoved, BeginGracefulStop, EndGracefulStop, ServeFails, Stop, Exit
  <2>3. QED
    BY <2>1, <2>2, PluginBounds DEF OnlyServe, CountTypes
<1>4. CASE Dial
  <2>1. /\ UNCHANGED boundVars
        /\ \/ UNCHANGED <<opened, current>>
           \/ opened < MaxStreams /\ opened' = opened + 1 /\ current' = opened + 1
    BY <1>4, Zenon DEF Dial
  <2>2. QED
    BY <2>1, PluginBounds DEF boundVars, CountTypes
<1>5. CASE KubeletStop
  <2>1. /\ UNCHANGED <<opened, updates, timeouts>> /\ current' = 0
        /\ kubelets < MaxKubelets /\ kubelets' = kubelets + 1
    BY <1>5, Zenon DEF KubeletStop, streamVars
  <2>2. QED
    BY <2>1, PluginBounds DEF CountTypes
<1>6. CASE KubeletStart \/ Sigterm \/ UNCHANGED vars
  <2>1. UNCHANGED <<opened, current, updates, kubelets, timeouts>>
    BY <1>6, Zenon DEF KubeletStart, Sigterm, vars, streamVars, kubeletVars, boundVars
  <2>2. QED
    BY <2>1 DEF CountTypes
<1>7. QED
  BY <1>1, <1>2, <1>3, <1>4, <1>5, <1>6, Zenon DEF Next

LEMMA PlaceStep ==
  ASSUME PlaceTypes, CountTypes, [Next]_vars
  PROVE  PlaceTypes'
<1>1. ASSUME NEW d \in Devices \cup Strangers, UpdateHealth(d) PROVE PlaceTypes'
  <2>1. UNCHANGED <<dropped, pc>>
    BY <1>1, Zenon DEF UpdateHealth, serveVars
  <2>2. stage' = stage \/ \E s \in Streams : To(s, "snapshot")
    BY <1>1, Zenon DEF UpdateHealth, To, Parked
  <2>3. stage' \in Handlers
    BY <2>2 DEF PlaceTypes, Handlers, To, Live
  <2>4. QED
    BY <2>1, <2>3 DEF PlaceTypes
<1>2. ASSUME NEW s \in Streams, StreamStep(s) PROVE PlaceTypes'
  <2>1. UNCHANGED <<dropped, pc>>
    BY <1>2, Zenon DEF StreamStep, Snapshot, Send, TakeUpdate, SeeDone, Park, OnlyStream, serveVars
  <2>2. \E l \in Live \cup {"returned"} : To(s, l)
    <3>1. To(s, "sending") \/ To(s, "select") \/ To(s, "returned") \/ To(s, "snapshot") \/ To(s, "parked")
      BY <1>2, Zenon DEF StreamStep, Snapshot, Send, TakeUpdate, SeeDone, Park
    <3>2. QED
      BY <3>1, Zenon DEF Live
  <2>3. stage' \in Handlers
    BY <2>2 DEF PlaceTypes, Handlers, To
  <2>4. QED
    BY <2>1, <2>3 DEF PlaceTypes
<1>3. ASSUME NEW S \in SUBSET Streams, DropStreams(S) PROVE stage' \in Handlers /\ dropped' \subseteq Streams
  BY <1>3 DEF DropStreams, PlaceTypes, Handlers
<1>4. ASSUME NEW s \in Streams, Disconnect(s) PROVE PlaceTypes'
  <2>1. DropStreams({s}) /\ pc' = pc
    BY <1>4, Zenon DEF Disconnect, OnlyStream, serveVars
  <2>2. QED
    BY <1>3, <2>1 DEF PlaceTypes
<1>5. ASSUME NEW how \in Ended, Exit(how) PROVE PlaceTypes'
  <2>1. stage' \in Handlers
    BY <1>5 DEF Exit, PlaceTypes, Handlers
  <2>2. pc' \in Ended /\ dropped' \subseteq Streams
    BY <1>5 DEF Exit, PlaceTypes, Running
  <2>3. QED
    BY <2>1, <2>2 DEF PlaceTypes
<1>6. CASE GiveUp \/ EndGracefulStop \/ ServeFails
  <2>1. \E how \in Ended : Exit(how)
    BY <1>6, Zenon DEF GiveUp, EndGracefulStop, ServeFails, Ended
  <2>2. QED
    BY <1>5, <2>1
<1>7. CASE SeeRemoved
  <2>1. Exit("exited") \/ (DropStreams(Running) /\ pc' = "remove")
    BY <1>7, Zenon DEF SeeRemoved, Stop
  <2>2. Running \in SUBSET Streams /\ "exited" \in Ended
    BY DEF Running, Ended
  <2>3. QED
    BY <1>3, <1>5, <2>1, <2>2 DEF PlaceTypes
<1>8. CASE RemoveSocket \/ Watch \/ Listen \/ RegisterOk \/ RegisterFails \/ RegisterAgain \/ BeginGracefulStop
  <2>1. KeepStreams /\ pc' \in {"watch", "listen", "register", "backoff", "serve", "stopping"}
    BY <1>8 DEF RemoveSocket, Watch, Listen, RegisterOk, RegisterFails, RegisterAgain, BeginGracefulStop
  <2>2. QED
    BY <2>1 DEF KeepStreams, PlaceTypes
<1>9. CASE Dial
  <2>1. UNCHANGED <<dropped, pc>>
    BY <1>9, Zenon DEF Dial, serveVars
  <2>2. stage' = stage \/ (opened < MaxStreams /\ To(opened + 1, "snapshot"))
    BY <1>9, Zenon DEF Dial, To
  <2>3. stage' \in Handlers
    BY <2>2 DEF PlaceTypes, Handlers, To, Live
  <2>4. QED
    BY <2>1, <2>3 DEF PlaceTypes
<1>10. CASE KubeletStop \/ KubeletStart \/ Sigterm \/ UNCHANGED vars
  <2>1. UNCHANGED <<stage, dropped, pc>>
    BY <1>10, Zenon DEF KubeletStop, KubeletStart, Sigterm, vars, streamVars, serveVars
  <2>2. QED
    BY <2>1 DEF PlaceTypes
<1>11. QED
  BY <1>1, <1>2, <1>4, <1>6, <1>7, <1>8, <1>9, <1>10, Zenon DEF Next, ServeStep

LEMMA HealthStep == HealthTypes /\ [Next]_vars => HealthTypes'
<1> SUFFICES ASSUME HealthTypes, [Next]_vars PROVE HealthTypes'
  OBVIOUS
<1>1. ASSUME NEW d \in Devices \cup Strangers, UpdateHealth(d) PROVE HealthTypes'
  <2>1. /\ UNCHANGED <<snap, view>> /\ d \in Devices
        /\ unhealthy' = IF d \in unhealthy THEN unhealthy \ {d} ELSE unhealthy \cup {d}
    BY <1>1, Zenon DEF UpdateHealth, kubeletVars
  <2>2. QED
    BY <2>1 DEF HealthTypes
<1>2. ASSUME NEW s \in Streams, StreamStep(s) \/ Disconnect(s) PROVE HealthTypes'
  <2>1. /\ unhealthy' = unhealthy
        /\ view' = view \/ view' = snap[s]
        /\ snap' = snap \/ snap' = [snap EXCEPT ![s] = unhealthy]
    BY <1>2, Zenon DEF StreamStep, Snapshot, Send, TakeUpdate, SeeDone, Park, Disconnect, OnlyStream
  <2>2. QED
    BY <2>1 DEF HealthTypes
<1>3. CASE ServeStep \/ ServeFails
  <2>1. OnlyServe
    BY <1>3, Zenon DEF ServeStep, RemoveSocket, Watch, Listen, RegisterOk, RegisterFails,
      RegisterAgain, GiveUp, SeeRemoved, BeginGracefulStop, EndGracefulStop, ServeFails
  <2>2. QED
    BY <2>1 DEF OnlyServe, HealthTypes
<1>4. CASE Dial \/ KubeletStop \/ KubeletStart \/ Sigterm \/ UNCHANGED vars
  <2>1. UNCHANGED <<unhealthy, snap, view>>
    BY <1>4, Zenon DEF Dial, KubeletStop, KubeletStart, Sigterm, vars, streamVars, kubeletVars
  <2>2. QED
    BY <2>1 DEF HealthTypes
<1>5. QED
  BY <1>1, <1>2, <1>3, <1>4, Zenon DEF Next

(* Every variable keeps its type: devices stay devices, each goroutine of  *)
(* a stream is in a state of ListAndWatch, serve in one of its own.        *)
THEOREM PluginTypeCorrect == Spec => []TypeOK
<1>1. TypeOK <=> FlagTypes /\ CountTypes /\ PlaceTypes /\ HealthTypes
  BY Zenon DEF TypeOK, FlagTypes, CountTypes, PlaceTypes, HealthTypes, Handlers
<1>2. Init => TypeOK
  <2> HAVE Init
  <2>1. FlagTypes
    BY Zenon DEF Init, FlagTypes
  <2>2. CountTypes
    BY PluginBounds DEF Init, CountTypes
  <2>3. PlaceTypes
    BY DEF Init, PlaceTypes, Handlers
  <2>4. HealthTypes
    BY DEF Init, HealthTypes
  <2>5. QED
    BY <1>1, <2>1, <2>2, <2>3, <2>4
<1>3. TypeOK /\ [Next]_vars => TypeOK'
  <2> HAVE TypeOK /\ [Next]_vars
  <2>1. FlagTypes' /\ CountTypes' /\ PlaceTypes' /\ HealthTypes'
    BY <1>1, FlagStep, CountStep, PlaceStep, HealthStep
  <2>2. QED
    BY <2>1, Zenon DEF TypeOK, FlagTypes, CountTypes, PlaceTypes, HealthTypes, Handlers
<1>4. QED
  BY <1>2, <1>3, PTL DEF Spec
=============================================================================
