------------------------------ MODULE Provider ------------------------------
(***************************************************************************)
(* PacketTunnelProvider.m: the lifecycle of the tunnel.  Calls of the      *)
(* system (start, stop, sleep, wake), completions of                       *)
(* setTunnelNetworkSettings, path updates and debounce timers arrive on    *)
(* queues of their own; the blocking engine calls run as blocks of one     *)
(* serial queue, the engine control queue.                                 *)
(*                                                                         *)
(* External: the NetworkExtension system (which starts a stopped tunnel,   *)
(* stops one it started, and answers cancelTunnelWithError by stopping it) *)
(* and the network paths.  SVTunnelEngine is module DataPlane; here a      *)
(* start or a restart of it succeeds or fails.                             *)
(*                                                                         *)
(* The app, of which ControlPlane models more, is here because it writes   *)
(* the state file too: VpnManager clears one that says the tunnel is up    *)
(* when it found the connection down.                                      *)
(***************************************************************************)
EXTENDS Naturals, Sequences

CONSTANTS
    MaxTunnels,  \* startTunnel calls
    MaxEvents,   \* sleep, wake and path callbacks
    Paths,       \* satisfied network paths: interface type and address families
    Down,        \* an unsatisfied path
    NoPath,      \* !_havePath
    StopsEarly   \* may the system stop a tunnel whose start block has not run?

Tunnels == 1..MaxTunnels
\* Every event bumps _restartGeneration at most once, every stop of a tunnel twice.
MaxGeneration == MaxEvents + 2 * MaxTunnels
Generations == 1..MaxGeneration

ASSUME ProviderAssumption ==
    /\ MaxTunnels \in Nat
    /\ MaxEvents \in Nat
    /\ Down \notin Paths
    /\ NoPath \notin Paths \cup {Down}
    /\ StopsEarly \in BOOLEAN

Blocks == [kind : {"start"}, n : Tunnels] \cup [kind : {"stop"}, n : {0}]
          \cup [kind : {"restart"}, n : Generations]
Idle == [kind |-> "idle", n |-> 0]

VARIABLES
    system,      \* what the system takes the tunnel to be
    tunnel,      \* the startTunnel calls so far; the latest is tunnel number `tunnel'
    cancelled,   \* cancelTunnelWithError was called and the system has yet to stop it
    settings,    \* the tunnels whose setTunnelNetworkSettings completion is to come
    queue,       \* the blocks on the engine control queue
    block,       \* the block it is executing, Idle if none
    engine,      \* _engine: the tunnel whose SVTunnelEngine it is, 0 for nil
    stopping,    \* the engine a stop block has taken out of _engine, 0 for none
    live,        \* the tunnels whose SVTunnelEngine is started
    listener,    \* the tunnel whose SVIPCListener is registered, 0 for none
    restartGen,  \* _restartGeneration
    pathGen,     \* _pathGeneration
    monitor,     \* the path monitor started last: [gen, tunnel]
    updates,     \* path callbacks past their staleness check: [gen, tunnel, path]
    lastPath,    \* _havePath, _lastSatisfied, _lastInterfaceType, _lastHasIPv4/6
    timers,      \* the generations whose debounce window is running
    elapsed,     \* those found current when it elapsed, to be put on the control queue
    events,      \* sleep, wake and path callbacks so far
    stage,       \* the stage in the shared state file
    message,     \* whether it carries an error message
    clearing,    \* the app: it "saw" the connection down, and then "found" the file active
    born,        \* history: born[g], the tunnel whose event scheduled generation g
    writer,      \* history: who wrote the state file last
    void,        \* history: the generations that a later event was to invalidate
    overtaken    \* history: the tunnels that were stopped before their start block ran

systemVars  == <<system, tunnel, cancelled, settings>>
engineVars  == <<engine, stopping, live, listener>>
pathVars    == <<pathGen, monitor, updates, lastPath>>
restartVars == <<restartGen, timers, elapsed, born, void>>
fileVars    == <<stage, message, writer, clearing>>
vars == <<queue, block, events, overtaken,
          systemVars, engineVars, pathVars, restartVars, fileVars>>

SystemTypes ==
    /\ system \in {"down", "starting", "up", "stopping"}
    /\ tunnel \in 0..MaxTunnels
    /\ cancelled \in BOOLEAN
    /\ settings \subseteq Tunnels
    /\ overtaken \subseteq Tunnels

ControlTypes ==
    /\ queue \in Seq(Blocks)
    /\ block \in Blocks \cup {Idle}
    /\ engine \in 0..MaxTunnels
    /\ stopping \in 0..MaxTunnels
    /\ live \subseteq Tunnels
    /\ listener \in 0..MaxTunnels

PathTypes ==
    /\ pathGen \in Nat
    /\ monitor \in [gen : Nat, tunnel : 0..MaxTunnels]
    /\ updates \subseteq [gen : Nat, tunnel : 0..MaxTunnels, path : Paths \cup {Down}]
    /\ lastPath \in Paths \cup {Down, NoPath}

RestartTypes ==
    /\ restartGen \in 0..MaxGeneration
    /\ timers \subseteq Generations
    /\ elapsed \subseteq Generations
    /\ born \in [Generations -> 0..MaxTunnels]
    /\ void \subseteq Generations
    /\ events \in 0..MaxEvents

FileTypes ==
    /\ stage \in {"disconnected", "connecting", "connected", "error"}
    /\ message \in BOOLEAN
    /\ writer \in {"extension", "app"}
    /\ clearing \in {"no", "saw", "found"}

TypeOK == SystemTypes /\ ControlTypes /\ PathTypes /\ RestartTypes /\ FileTypes

\* The state file is as an earlier process of the extension left it, however it ended.
Init ==
    /\ system = "down"
    /\ tunnel = 0
    /\ cancelled = FALSE
    /\ settings = {}
    /\ queue = <<>>
    /\ block = Idle
    /\ engine = 0
    /\ stopping = 0
    /\ live = {}
    /\ listener = 0
    /\ restartGen = 0
    /\ pathGen = 0
    /\ monitor = [gen |-> 0, tunnel |-> 0]
    /\ updates = {}
    /\ lastPath = NoPath
    /\ timers = {}
    /\ elapsed = {}
    /\ events = 0
    /\ stage \in {"disconnected", "connecting", "connected", "error"}
    /\ message = (stage = "error")
    /\ writer = "extension"
    /\ clearing = "no"
    /\ born = [g \in Generations |-> 0]
    /\ void = {}
    /\ overtaken = {}

-----------------------------------------------------------------------------
(***************************************************************************)
(* _restartGeneration and the shared state file.                           *)
(***************************************************************************)

\* A bump that only invalidates what is pending.
Invalidate ==
    /\ restartGen' = restartGen + 1
    /\ void' = void \cup 1..restartGen
    /\ UNCHANGED <<timers, elapsed, born>>

\* Faulty variant of Schedule: fetch_add returns the value before the bump.
ScheduleOld(t) ==
    /\ restartGen' = restartGen + 1
    /\ void' = void \cup 1..restartGen
    /\ timers' = timers \cup {restartGen}
    /\ born' = [born EXCEPT ![restartGen + 1] = t]
    /\ UNCHANGED elapsed

\* scheduleEngineRestartForReason: a bump that starts a debounce window of its own.
Schedule(t) ==
    /\ restartGen' = restartGen + 1
    /\ void' = void \cup 1..restartGen
    /\ timers' = timers \cup {restartGen + 1}
    /\ born' = [born EXCEPT ![restartGen + 1] = t]
    /\ UNCHANGED elapsed

\* writeState, of the extension
WriteState(s, error) ==
    /\ stage' = s
    /\ message' = error
    /\ writer' = "extension"
    /\ UNCHANGED clearing

Dispatch(kind, n) == queue' = Append(queue, [kind |-> kind, n |-> n])

-----------------------------------------------------------------------------
(***************************************************************************)
(* Calls of the system.                                                    *)
(***************************************************************************)
StartTunnel ==
    /\ system = "down"
    /\ tunnel < MaxTunnels
    /\ system' = "starting"
    /\ tunnel' = tunnel + 1
    /\ settings' = settings \cup {tunnel + 1}
    /\ WriteState("connecting", FALSE)
    /\ UNCHANGED <<cancelled, queue, block, events, overtaken,
                   engineVars, pathVars, restartVars>>

\* The completion of setTunnelNetworkSettings: the engine is started on the control queue.
SettingsApplied(t) ==
    /\ t \in settings
    /\ settings' = settings \ {t}
    /\ Dispatch("start", t)
    /\ UNCHANGED <<system, tunnel, cancelled, block, events, overtaken,
                   engineVars, pathVars, restartVars, fileVars>>

\* What the system makes of the completion handler of startTunnel number t.
StartCompletes(t, outcome) ==
    system' = IF system = "starting" /\ tunnel = t THEN outcome ELSE system

SettingsFail(t) ==
    /\ t \in settings
    /\ settings' = settings \ {t}
    /\ WriteState("error", TRUE)
    /\ StartCompletes(t, "down")
    /\ UNCHANGED <<tunnel, cancelled, queue, block, events, overtaken,
                   engineVars, pathVars, restartVars>>

\* Tunnel number t has not got as far as its start block.
Unstarted(t) == t \in settings \/ \E i \in 1..Len(queue) :
                                      queue[i] = [kind |-> "start", n |-> t]

Stoppable == \/ system = "up"
             \/ system = "starting" /\ (Unstarted(tunnel) => StopsEarly)

\* Faulty variant of StopTunnel: _engine is looked at before the control queue is.
StopTunnelAtOnce ==
    /\ Stoppable
    /\ system' = IF engine = 0 THEN "down" ELSE "stopping"
    /\ cancelled' = FALSE
    /\ overtaken' = IF Unstarted(tunnel) THEN overtaken \cup {tunnel} ELSE overtaken
    /\ Invalidate
    /\ IF engine = 0 THEN UNCHANGED queue ELSE Dispatch("stop", 0)
    /\ UNCHANGED <<tunnel, settings, block, events, engineVars, pathVars, fileVars>>

\* stopTunnelWithReason
StopTunnel ==
    /\ Stoppable
    /\ system' = "stopping"
    /\ cancelled' = FALSE
    /\ overtaken' = IF Unstarted(tunnel) THEN overtaken \cup {tunnel} ELSE overtaken
    /\ Invalidate
    /\ Dispatch("stop", 0)
    /\ UNCHANGED <<tunnel, settings, block, events, engineVars, pathVars, fileVars>>

Sleep ==
    /\ system = "up"
    /\ events < MaxEvents
    /\ events' = events + 1
    /\ Invalidate
    /\ UNCHANGED <<queue, block, overtaken, systemVars, engineVars, pathVars, fileVars>>

Wake ==
    /\ system = "up"
    /\ events < MaxEvents
    /\ events' = events + 1
    /\ Schedule(tunnel)
    /\ UNCHANGED <<queue, block, overtaken, systemVars, engineVars, pathVars, fileVars>>

\* The command notification: cancelTunnelWithError.
StopCommand ==
    /\ listener # 0
    /\ system = "up"
    /\ cancelled' = TRUE
    /\ UNCHANGED <<system, tunnel, settings, queue, block, events, overtaken,
                   engineVars, pathVars, restartVars, fileVars>>

-----------------------------------------------------------------------------
(***************************************************************************)
(* The path monitor's queue and the debounce timers.                       *)
(***************************************************************************)

\* handlePathUpdate: a callback of the monitor is not stale when it checks.
PathUpdate(p) ==
    /\ monitor.gen = pathGen
    /\ monitor.tunnel # 0
    /\ \A u \in updates : u.gen # monitor.gen
    /\ events < MaxEvents
    /\ events' = events + 1
    /\ updates' = updates \cup {[gen |-> monitor.gen, tunnel |-> monitor.tunnel, path |-> p]}
    /\ UNCHANGED <<pathGen, monitor, lastPath, queue, block, overtaken,
                   systemVars, engineVars, restartVars, fileVars>>

\* Connectivity regained, another interface, or other address families.
WantsRestart(p) == p \in Paths /\ lastPath # NoPath /\ p # lastPath

\* ... and the rest of the handler, whatever happened since.
PathHandled(u) ==
    /\ u \in updates
    /\ updates' = updates \ {u}
    /\ lastPath' = u.path
    /\ IF WantsRestart(u.path) THEN Schedule(u.tunnel) ELSE UNCHANGED restartVars
    /\ UNCHANGED <<pathGen, monitor, queue, block, events, overtaken,
                   systemVars, engineVars, fileVars>>

\* Faulty variant of TimerFires: the generation is compared with its successor.
TimerFiresOffByOne(g) ==
    /\ g \in timers
    /\ timers' = timers \ {g}
    /\ elapsed' = IF restartGen = g + 1 THEN elapsed \cup {g} ELSE elapsed
    /\ UNCHANGED <<restartGen, born, void, queue, block, events, overtaken,
                   systemVars, engineVars, pathVars, fileVars>>

\* The dispatch_after block: check the generation, then dispatch to the control queue.
TimerFires(g) ==
    /\ g \in timers
    /\ timers' = timers \ {g}
    /\ elapsed' = IF restartGen = g THEN elapsed \cup {g} ELSE elapsed
    /\ UNCHANGED <<restartGen, born, void, queue, block, events, overtaken,
                   systemVars, engineVars, pathVars, fileVars>>

EnqueueRestart(g) ==
    /\ g \in elapsed
    /\ elapsed' = elapsed \ {g}
    /\ Dispatch("restart", g)
    /\ UNCHANGED <<restartGen, timers, born, void, block, events, overtaken,
                   systemVars, engineVars, pathVars, fileVars>>

-----------------------------------------------------------------------------
(***************************************************************************)
(* The control queue: a block begins, its engine call blocks, it ends.     *)
(***************************************************************************)
Begin(kind) ==
    /\ block = Idle
    /\ queue # <<>>
    /\ Head(queue).kind = kind
    /\ queue' = Tail(queue)

StartBegins ==
    /\ Begin("start")
    /\ block' = Head(queue)
    /\ UNCHANGED <<events, overtaken, systemVars, engineVars, pathVars, restartVars, fileVars>>

\* svpn_tun_start refuses while a data plane runs.
StartSucceeds ==
    /\ block.kind = "start"
    /\ live = {}
    /\ engine' = block.n
    /\ live' = {block.n}
    /\ listener' = block.n
    /\ pathGen' = pathGen + 1
    /\ monitor' = [gen |-> pathGen + 1, tunnel |-> block.n]
    /\ lastPath' = NoPath
    /\ WriteState("connected", FALSE)
    /\ StartCompletes(block.n, "up")
    /\ block' = Idle
    /\ UNCHANGED <<tunnel, cancelled, settings, stopping, updates, queue, events, overtaken,
                   restartVars>>

StartFails ==
    /\ block.kind = "start"
    /\ WriteState("error", TRUE)
    /\ StartCompletes(block.n, "down")
    /\ block' = Idle
    /\ UNCHANGED <<tunnel, cancelled, settings, queue, events, overtaken,
                   engineVars, pathVars, restartVars>>

\* Faulty variant of RestartWanted: the generation is not checked again.
RestartWantedUnchecked(g) == engine # 0

\* restartEngineForGeneration
RestartWanted(g) == restartGen = g /\ engine # 0

RestartSkipped ==
    /\ Begin("restart")
    /\ ~RestartWanted(Head(queue).n)
    /\ UNCHANGED <<block, events, overtaken, systemVars, engineVars, pathVars,
                   restartVars, fileVars>>

RestartBegins ==
    /\ Begin("restart")
    /\ RestartWanted(Head(queue).n)
    /\ block' = Head(queue)
    /\ UNCHANGED <<events, overtaken, systemVars, engineVars, pathVars, restartVars, fileVars>>

RestartSucceeds ==
    /\ block.kind = "restart"
    /\ block' = Idle
    /\ UNCHANGED <<queue, events, overtaken, systemVars, engineVars, pathVars,
                   restartVars, fileVars>>

\* Faulty variants of RestartFails: nothing is written; nothing is cancelled.
RestartFailsUnwritten ==
    /\ block.kind = "restart"
    /\ live' = live \ {engine}
    /\ engine' = 0
    /\ cancelled' = (system = "up")
    /\ block' = Idle
    /\ UNCHANGED <<system, tunnel, settings, stopping, listener, queue, events, overtaken,
                   pathVars, restartVars, fileVars>>

RestartFailsUncancelled ==
    /\ block.kind = "restart"
    /\ live' = live \ {engine}
    /\ engine' = 0
    /\ WriteState("error", TRUE)
    /\ block' = Idle
    /\ UNCHANGED <<stopping, listener, queue, events, overtaken,
                   systemVars, pathVars, restartVars>>

RestartFails ==
    /\ block.kind = "restart"
    /\ live' = live \ {engine}
    /\ engine' = 0
    /\ WriteState("error", TRUE)
    /\ cancelled' = (system = "up")
    /\ block' = Idle
    /\ UNCHANGED <<system, tunnel, settings, stopping, listener, queue, events, overtaken,
                   pathVars, restartVars>>

\* Faulty variant of StopBegins: _engine is cleared and the engine is not kept.
StopForgetsEngine ==
    /\ Begin("stop")
    /\ block' = Head(queue)
    /\ pathGen' = pathGen + 1
    /\ Invalidate
    /\ engine' = 0
    /\ UNCHANGED <<stopping, live, listener, monitor, updates, lastPath, events, overtaken,
                   systemVars, fileVars>>

\* The stop block: stopPathMonitor, then the engine, the listener and the state file.
StopBegins ==
    /\ Begin("stop")
    /\ block' = Head(queue)
    /\ pathGen' = pathGen + 1
    /\ Invalidate
    /\ stopping' = engine
    /\ engine' = 0
    /\ UNCHANGED <<live, listener, monitor, updates, lastPath, events, overtaken,
                   systemVars, fileVars>>

StopEnds ==
    /\ block.kind = "stop"
    /\ live' = live \ {stopping}
    /\ stopping' = 0
    /\ listener' = 0
    /\ WriteState("disconnected", FALSE)
    /\ system' = "down"
    /\ block' = Idle
    /\ UNCHANGED <<tunnel, cancelled, settings, engine, queue, events, overtaken,
                   pathVars, restartVars>>

-----------------------------------------------------------------------------
(***************************************************************************)
(* The app's hand in the state file: disconnect and reconcileExtensionState *)
(* read the status of the connection, clearStaleActiveExtensionState reads *)
(* the file, and writes it.  The extension moves in between.               *)
(***************************************************************************)
AppSeesDown ==
    /\ system = "down"
    /\ clearing = "no"
    /\ clearing' = "saw"
    /\ UNCHANGED <<stage, message, writer, queue, block, events, overtaken,
                   systemVars, engineVars, pathVars, restartVars>>

AppReadsFile ==
    /\ clearing = "saw"
    /\ clearing' = IF stage \in {"connecting", "connected"} THEN "found" ELSE "no"
    /\ UNCHANGED <<stage, message, writer, queue, block, events, overtaken,
                   systemVars, engineVars, pathVars, restartVars>>

AppClears ==
    /\ clearing = "found"
    /\ clearing' = "no"
    /\ stage' = "disconnected"
    /\ message' = FALSE
    /\ writer' = "app"
    /\ UNCHANGED <<queue, block, events, overtaken,
                   systemVars, engineVars, pathVars, restartVars>>

-----------------------------------------------------------------------------
TheApp == AppSeesDown \/ AppReadsFile \/ AppClears

ControlQueue == \/ StartBegins \/ StartSucceeds \/ StartFails
                \/ RestartSkipped \/ RestartBegins \/ RestartSucceeds \/ RestartFails
                \/ StopBegins \/ StopEnds

Next ==
    \/ StartTunnel \/ StopTunnel \/ Sleep \/ Wake \/ StopCommand
    \/ \E t \in Tunnels : SettingsApplied(t) \/ SettingsFail(t)
    \/ \E p \in Paths \cup {Down} : PathUpdate(p)
    \/ \E u \in updates : PathHandled(u)
    \/ \E g \in Generations : TimerFires(g) \/ EnqueueRestart(g)
    \/ ControlQueue
    \/ TheApp

Spec == Init /\ [][Next]_vars

\* The queues run their blocks, timers fire, the engine calls return (DataPlane's
\* StopBlockingReturns), and the system stops a tunnel that was cancelled.
Fairness ==
    /\ WF_vars(ControlQueue)
    /\ \A t \in Tunnels : WF_vars(SettingsApplied(t) \/ SettingsFail(t))
    /\ \A g \in Generations : WF_vars(TimerFires(g)) /\ WF_vars(EnqueueRestart(g))
    /\ WF_vars(cancelled /\ StopTunnel)

FairSpec == Spec /\ Fairness

-----------------------------------------------------------------------------
(***************************************************************************)
(* Properties.                                                             *)
(***************************************************************************)

\* No start, restart or stop loses a started engine: it is in _engine, where a later stop
\* finds it, or in the hands of the stop block that took it out.
NoLostEngine == live \subseteq {engine, stopping}

\* Once the system has been told that the tunnel is stopped and the control queue is
\* empty, no engine runs, unless a stop overtook the start block of that engine.
StoppedMeansNoEngine ==
    system = "down" /\ block = Idle /\ queue = <<>> => live \subseteq overtaken

\* While the tunnel is up and the control queue between blocks, the state file never says
\* "connected" without an engine to carry the packets nor "error" over one that does,
\* through restarts, their failures and what the app writes; and it says one of the two
\* unless the app wrote it last, having taken it for that of an earlier tunnel: then the
\* file says "disconnected" over a tunnel that is up (VpnManager.swift:415-418).
FileNeverMisstates ==
    system = "up" /\ block = Idle /\ overtaken = {} =>
        /\ stage = "connected" => engine = tunnel
        /\ stage = "error" => engine = 0
        /\ writer = "extension" => stage \in {"connected", "error"}

BeginsRestart(g) == block = Idle /\ block' = [kind |-> "restart", n |-> g]

\* A restart never begins after a newer path change, a wake, a sleep or a stop was to
\* invalidate it, wherever that found it: in its window, between its checks, or queued.
SupersededNeverRuns == [][\A g \in Generations : BeginsRestart(g) => g \notin void]_vars

\* A wake or a path change is acted upon: unless a later event supersedes it or the
\* engine is gone, the engine is restarted.
RestartHappens ==
    \A g \in Generations :
        g \in timers ~> \/ block = [kind |-> "restart", n |-> g]
                        \/ g \in void
                        \/ engine = 0

\* A tunnel is not left up without an engine: a failed restart ends in a stop.
NeverUpAndDead == (system = "up" /\ engine = 0) ~> system # "up"

\* A restart concerns the tunnel whose event scheduled it.  PacketTunnelProvider.m: "a
\* canceled monitor can't schedule a delayed restart for a later tunnel generation".
RestartStaysInItsTunnel ==
    block.kind = "restart" => born[block.n] = engine
=============================================================================
