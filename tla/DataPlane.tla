----------------------------- MODULE DataPlane -----------------------------
(***************************************************************************)
(* The data plane of the tunnel extension: the Rust engine (engine.rs),    *)
(* with its tokio tasks, its process-wide session slot and RUNNING flag,   *)
(* driven by the Objective-C SVTunnelEngine, which owns the writer context *)
(* the engine calls back into and the readPackets chain that feeds it.     *)
(*                                                                         *)
(* Threads: the host (the provider's serial control queue, `pc'), one      *)
(* readPackets completion chain per SVTunnelEngine object (`reader'), and  *)
(* three tokio tasks per session on a two-worker runtime.  A task only     *)
(* honours an abort at an await point: its states "recv", "resolving" and  *)
(* "sending" are await points, every other live state is code that runs to *)
(* the next await whatever is requested meanwhile.                         *)
(***************************************************************************)
EXTENDS Naturals, Sequences

CONSTANTS
    MaxEngines,    \* SVTunnelEngine objects created (one per startTunnel)
    MaxSessions,   \* successful svpn_tun_start calls
    MaxPackets,    \* IP packets the flow hands to readPackets
    QueueDepth,    \* INGEST_QUEUE_DEPTH
    Dns,           \* the packets an interceptor takes: UDP DNS queries to port 53
    Interceptors,  \* may start() build a DnsInterceptor? a subset of BOOLEAN
    JoinTimeout,   \* may stop_blocking's 5 s join of the egress task expire?
    AsyncStop      \* does the host also use the fire-and-forget svpn_tun_stop?

Engines  == 1..MaxEngines
Sessions == 1..MaxSessions
Packets  == 1..MaxPackets

ASSUME DataPlaneAssumption ==
    /\ MaxEngines \in Nat
    /\ MaxSessions \in Nat
    /\ MaxPackets \in Nat
    /\ QueueDepth \in Nat \ {0}
    /\ Dns \subseteq Packets
    /\ Interceptors \subseteq BOOLEAN
    /\ Interceptors # {}
    /\ JoinTimeout \in BOOLEAN
    /\ AsyncStop \in BOOLEAN

VARIABLES
    running,     \* RUNNING
    slot,        \* the session in session_slot(), 0 for None
    spawned,     \* sessions created so far; the next one is spawned + 1
    owner,       \* owner[s]: the engine object whose writer ctx session s was given
    intercept,   \* intercept[s]: session s has a DnsInterceptor
    egress,      \* egress[s], ingress[s], keepalive[s]: where each task is
    ingress,
    keepalive,
    aborted,     \* the <<session, task>> pairs whose JoinHandle was aborted
    queue,       \* queue[s]: the ingest mpsc of session s
    hand,        \* hand[s]: the packet the ingress task is working on, 0 for none
    sent,        \* history: the <<session, packet>> pairs sent to the server
    pc,          \* where the control queue is in the engine call it executes
    op,          \* the SVTunnelEngine method that call belongs to
    held,        \* the session start() or stop_blocking() holds outside the slot
    engine,      \* the latest SVTunnelEngine object, 0 before the first
    started,     \* its _started
    tunStarted,  \* its _tunStarted
    retained,    \* the objects whose _writerCtx is CF-retained
    reading,     \* the objects whose _ingressRunning is YES (see README on epochs)
    reader,      \* reader[g]: where the readPackets chain of object g is
    sender,      \* sender[g]: the session whose ingest_tx the chain has cloned
    batch,       \* batch[g]: the packet the chain is about to ingest
    reads        \* history: reads[p] is the object whose chain the flow gave packet p

birthVars == <<spawned, owner, intercept>>
taskVars  == <<egress, ingress, keepalive, queue, hand, sent>>
hostVars  == <<engine, started, tunStarted, retained, reading>>
readVars  == <<reader, sender, batch, reads>>
vars == <<running, slot, held, aborted, pc, op, birthVars, taskVars, hostVars, readVars>>

Tasks == {"egress", "ingress", "keepalive"}

CoreTypes ==
    /\ running \in BOOLEAN
    /\ slot \in 0..MaxSessions
    /\ held \in 0..MaxSessions
    /\ aborted \subseteq Sessions \X Tasks
    /\ pc \in {"idle", "lower", "take", "abort", "join", "stopped",
               "tun_start", "publish", "raise"}
    /\ op \in {"none", "start", "restart", "stop"}

BirthTypes ==
    /\ spawned \in 0..MaxSessions
    /\ owner \in [Sessions -> 0..MaxEngines]
    /\ intercept \in [Sessions -> BOOLEAN]

TaskTypes ==
    /\ egress \in [Sessions -> {"none", "recv", "datagram", "callback", "done"}]
    /\ ingress \in [Sessions -> {"none", "recv", "packet", "resolving",
                                 "callback", "sending", "done"}]
    /\ keepalive \in [Sessions -> {"none", "tick", "done"}]
    /\ hand \in [Sessions -> 0..MaxPackets]
    /\ sent \in Seq(Sessions \X Packets)

QueueTypes ==
    /\ queue \in [Sessions -> Seq(Packets)]
    /\ \A s \in Sessions : Len(queue[s]) \leq QueueDepth

HostTypes ==
    /\ engine \in 0..MaxEngines
    /\ started \in BOOLEAN
    /\ tunStarted \in BOOLEAN
    /\ retained \subseteq Engines
    /\ reading \subseteq Engines

ReadTypes ==
    /\ reader \in [Engines -> {"off", "armed", "batch", "try_send"}]
    /\ sender \in [Engines -> 0..MaxSessions]
    /\ batch \in [Engines -> 0..MaxPackets]
    /\ reads \in Seq(Engines)
    /\ Len(reads) \leq MaxPackets

TypeOK == /\ CoreTypes /\ BirthTypes /\ TaskTypes
          /\ QueueTypes /\ HostTypes /\ ReadTypes

Init ==
    /\ running = FALSE
    /\ slot = 0
    /\ spawned = 0
    /\ owner = [s \in Sessions |-> 0]
    /\ intercept = [s \in Sessions |-> FALSE]
    /\ egress = [s \in Sessions |-> "none"]
    /\ ingress = [s \in Sessions |-> "none"]
    /\ keepalive = [s \in Sessions |-> "none"]
    /\ aborted = {}
    /\ queue = [s \in Sessions |-> <<>>]
    /\ hand = [s \in Sessions |-> 0]
    /\ sent = <<>>
    /\ pc = "idle"
    /\ op = "none"
    /\ held = 0
    /\ engine = 0
    /\ started = FALSE
    /\ tunStarted = FALSE
    /\ retained = {}
    /\ reading = {}
    /\ reader = [g \in Engines |-> "off"]
    /\ sender = [g \in Engines |-> 0]
    /\ batch = [g \in Engines |-> 0]
    /\ reads = <<>>

-----------------------------------------------------------------------------
(***************************************************************************)
(* SVTunnelEngine, on the provider's control queue.                        *)
(***************************************************************************)

\* startWithError: a new engine object retains a writer and enters the FFI start.
EngineStart ==
    /\ pc = "idle"
    /\ ~started
    /\ engine < MaxEngines
    /\ engine' = engine + 1
    /\ started' = TRUE
    /\ retained' = retained \cup {engine + 1}
    /\ op' = "start"
    /\ pc' = "tun_start"
    /\ UNCHANGED <<running, slot, held, aborted, tunStarted, reading,
                   birthVars, taskVars, readVars>>

\* restartWithError: stop the core in place, then start it on the same writer.
EngineRestart ==
    /\ pc = "idle"
    /\ started
    /\ op' = "restart"
    /\ pc' = IF tunStarted THEN "lower" ELSE "tun_start"
    /\ UNCHANGED <<running, slot, held, aborted, birthVars, taskVars, hostVars, readVars>>

\* Faulty variant: the writer is released before the core is stopped.
EngineStopReleasesFirst ==
    /\ pc = "idle"
    /\ started
    /\ started' = FALSE
    /\ reading' = reading \ {engine}
    /\ retained' = retained \ {engine}
    /\ op' = "stop"
    /\ pc' = IF tunStarted THEN "lower" ELSE "stopped"
    /\ UNCHANGED <<running, slot, held, aborted, engine, tunStarted,
                   birthVars, taskVars, readVars>>

\* stop: the read chain is told to end before the core is stopped.
EngineStop ==
    /\ pc = "idle"
    /\ started
    /\ started' = FALSE
    /\ reading' = reading \ {engine}
    /\ op' = "stop"
    /\ pc' = IF tunStarted THEN "lower" ELSE "stopped"
    /\ UNCHANGED <<running, slot, held, aborted, engine, tunStarted, retained,
                   birthVars, taskVars, readVars>>

\* stop, once svpn_tun_stop_blocking has returned: releaseWriterContext.
ReleaseWriter ==
    /\ pc = "stopped"
    /\ op = "stop"
    /\ tunStarted' = FALSE
    /\ retained' = retained \ {engine}
    /\ op' = "none"
    /\ pc' = "idle"
    /\ UNCHANGED <<running, slot, held, aborted, engine, started, reading,
                   birthVars, taskVars, readVars>>

\* restartWithError, once svpn_tun_stop_blocking has returned.
RestartRuntime ==
    /\ pc = "stopped"
    /\ op = "restart"
    /\ tunStarted' = FALSE
    /\ pc' = "tun_start"
    /\ UNCHANGED <<running, slot, held, aborted, op, engine, started, retained, reading,
                   birthVars, taskVars, readVars>>

\* svpn_tun_start refused (already running, bad config, bind or connect failed):
\* both callers release the writer and clear _started.
TunStartFails ==
    /\ pc = "tun_start"
    /\ started' = FALSE
    /\ reading' = reading \ {engine}
    /\ retained' = retained \ {engine}
    /\ op' = "none"
    /\ pc' = "idle"
    /\ UNCHANGED <<running, slot, held, aborted, engine, tunStarted,
                   birthVars, taskVars, readVars>>

-----------------------------------------------------------------------------
(***************************************************************************)
(* engine.rs: start, stop_blocking and stop, on the same thread.           *)
(***************************************************************************)

\* start: the socket is bound and the three tasks run before the slot is filled.
TunSpawn ==
    /\ pc = "tun_start"
    /\ ~running
    /\ spawned < MaxSessions
    /\ LET s == spawned + 1 IN
       /\ spawned' = s
       /\ held' = s
       /\ owner' = [owner EXCEPT ![s] = engine]
       /\ \E i \in Interceptors : intercept' = [intercept EXCEPT ![s] = i]
       /\ egress' = [egress EXCEPT ![s] = "recv"]
       /\ ingress' = [ingress EXCEPT ![s] = "recv"]
       /\ keepalive' = [keepalive EXCEPT ![s] = "tick"]
    /\ pc' = "publish"
    /\ UNCHANGED <<running, slot, aborted, op, queue, hand, sent, hostVars, readVars>>

PublishSession ==
    /\ pc = "publish"
    /\ slot' = held
    /\ held' = 0
    /\ pc' = "raise"
    /\ UNCHANGED <<running, aborted, op, birthVars, taskVars, hostVars, readVars>>

\* start's last store, and what the caller does on success: a first start arms the
\* read chain, a restart keeps the chain it has.
RaiseRunning ==
    /\ pc = "raise"
    /\ running' = TRUE
    /\ tunStarted' = TRUE
    /\ \/ /\ op = "start"
          /\ reading' = reading \cup {engine}
          /\ reader' = [reader EXCEPT ![engine] = "armed"]
       \/ /\ op = "restart"
          /\ UNCHANGED <<reading, reader>>
    /\ op' = "none"
    /\ pc' = "idle"
    /\ UNCHANGED <<slot, held, aborted, engine, started, retained, sender, batch, reads,
                   birthVars, taskVars>>

\* stop_blocking, step by step.
LowerRunning ==
    /\ pc = "lower"
    /\ running' = FALSE
    /\ pc' = "take"
    /\ UNCHANGED <<slot, held, aborted, op, birthVars, taskVars, hostVars, readVars>>

TakeSession ==
    /\ pc = "take"
    /\ held' = slot
    /\ slot' = 0
    /\ pc' = IF slot = 0 THEN "stopped" ELSE "abort"
    /\ UNCHANGED <<running, aborted, op, birthVars, taskVars, hostVars, readVars>>

\* Faulty variant: the keepalive task is forgotten.
AbortForwarders ==
    /\ pc = "abort"
    /\ aborted' = aborted \cup ({held} \X {"egress", "ingress"})
    /\ pc' = "join"
    /\ UNCHANGED <<running, slot, held, op, birthVars, taskVars, hostVars, readVars>>

AbortTasks ==
    /\ pc = "abort"
    /\ aborted' = aborted \cup ({held} \X Tasks)
    /\ pc' = "join"
    /\ UNCHANGED <<running, slot, held, op, birthVars, taskVars, hostVars, readVars>>

\* Faulty variants: stop_blocking does not wait, or waits without a bound.
NoJoin ==
    /\ pc = "join"
    /\ held' = 0
    /\ pc' = "stopped"
    /\ UNCHANGED <<running, slot, aborted, op, birthVars, taskVars, hostVars, readVars>>

UnboundedJoin == NoJoin /\ egress[held] = "done"

\* Only the egress task is joined; the join itself may expire.
JoinEgress ==
    /\ pc = "join"
    /\ egress[held] = "done" \/ JoinTimeout
    /\ held' = 0
    /\ pc' = "stopped"
    /\ UNCHANGED <<running, slot, aborted, op, birthVars, taskVars, hostVars, readVars>>

\* stop: fire and forget.
StopAsync ==
    /\ AsyncStop
    /\ pc = "idle"
    /\ started
    /\ running' = FALSE
    /\ slot' = 0
    /\ aborted' = aborted \cup (({slot} \ {0}) \X Tasks)
    /\ UNCHANGED <<held, pc, op, birthVars, taskVars, hostVars, readVars>>

-----------------------------------------------------------------------------
(***************************************************************************)
(* The readPackets completion chain and svpn_tun_ingest.                   *)
(***************************************************************************)

\* readNextPackets: the chain goes on as long as its engine object wants it to.
Rearm(g) == reader' = [reader EXCEPT ![g] = IF g \in reading THEN "armed" ELSE "off"]

\* A completion checks that the chain is still wanted, once, before its batch.
ReadCompletes(g) ==
    /\ reader[g] = "armed"
    /\ \/ /\ g \in reading
          /\ Len(reads) < MaxPackets
          /\ reads' = Append(reads, g)
          /\ batch' = [batch EXCEPT ![g] = Len(reads')]
          /\ reader' = [reader EXCEPT ![g] = "batch"]
       \/ /\ g \notin reading
          /\ reader' = [reader EXCEPT ![g] = "off"]
          /\ UNCHANGED <<reads, batch>>
    /\ UNCHANGED <<sender, running, slot, held, aborted, pc, op,
                   birthVars, taskVars, hostVars>>

\* ingest clones the sender under the slot's lock and sends outside of it.
IngestClone(g) ==
    /\ reader[g] = "batch"
    /\ slot # 0
    /\ sender' = [sender EXCEPT ![g] = slot]
    /\ reader' = [reader EXCEPT ![g] = "try_send"]
    /\ UNCHANGED <<batch, reads, running, slot, held, aborted, pc, op,
                   birthVars, taskVars, hostVars>>

IngestNoSession(g) ==
    /\ reader[g] = "batch"
    /\ slot = 0

\* The receiver is gone once the ingress task has ended.
IngestClosed(g) ==
    /\ reader[g] = "try_send"
    /\ ingress[sender[g]] = "done"

\* ingest returns -1; the chain ignores the result.
IngestRejected(g) ==
    /\ IngestNoSession(g) \/ IngestClosed(g)
    /\ Rearm(g)
    /\ batch' = [batch EXCEPT ![g] = 0]
    /\ sender' = [sender EXCEPT ![g] = 0]
    /\ UNCHANGED <<reads, running, slot, held, aborted, pc, op,
                   birthVars, taskVars, hostVars>>

\* Faulty variant: an unbounded channel.
IngestUnbounded(g) ==
    /\ reader[g] = "try_send"
    /\ ingress[sender[g]] # "done"
    /\ queue' = [queue EXCEPT ![sender[g]] = Append(@, batch[g])]
    /\ Rearm(g)
    /\ batch' = [batch EXCEPT ![g] = 0]
    /\ sender' = [sender EXCEPT ![g] = 0]
    /\ UNCHANGED <<reads, egress, ingress, keepalive, hand, sent, running, slot, held,
                   aborted, pc, op, birthVars, hostVars>>

\* try_send on an open channel: a full queue drops the packet, ingest returns 0.
IngestAccepted(g) ==
    /\ reader[g] = "try_send"
    /\ ingress[sender[g]] # "done"
    /\ queue' = IF Len(queue[sender[g]]) < QueueDepth
                THEN [queue EXCEPT ![sender[g]] = Append(@, batch[g])]
                ELSE queue
    /\ Rearm(g)
    /\ batch' = [batch EXCEPT ![g] = 0]
    /\ sender' = [sender EXCEPT ![g] = 0]
    /\ UNCHANGED <<reads, egress, ingress, keepalive, hand, sent, running, slot, held,
                   aborted, pc, op, birthVars, hostVars>>

-----------------------------------------------------------------------------
(***************************************************************************)
(* The session tasks.                                                      *)
(***************************************************************************)
controlVars == <<running, slot, held, aborted, pc, op, birthVars, hostVars, readVars>>

EgressTo(s, state) ==
    /\ egress' = [egress EXCEPT ![s] = state]
    /\ UNCHANGED <<ingress, keepalive, queue, hand, sent, controlVars>>

\* egress_loop: a datagram arrives from the server.
EgressRecv(s) == egress[s] = "recv" /\ EgressTo(s, "datagram")

\* recv failed: the task ends and the session is not told.
EgressFails(s) == egress[s] = "recv" /\ EgressTo(s, "done")

\* Not obfuscated as configured, not decryptable, shorter than an IP header.
EgressDrop(s) == egress[s] = "datagram" /\ EgressTo(s, "recv")

\* The C callback is entered, with the datagram or with the answer that the
\* interceptor makes of it, and returns.
EgressEmit(s) == egress[s] = "datagram" /\ EgressTo(s, "callback")
EgressReturn(s) == egress[s] = "callback" /\ EgressTo(s, "recv")

EgressCancel(s) ==
    /\ egress[s] = "recv"
    /\ <<s, "egress">> \in aborted
    /\ EgressTo(s, "done")

IngressTo(s, state) ==
    /\ ingress' = [ingress EXCEPT ![s] = state]
    /\ UNCHANGED <<egress, keepalive, controlVars>>

\* Faulty variant: the newest queued packet first.
IngressRecvNewest(s) ==
    /\ ingress[s] = "recv"
    /\ queue[s] # <<>>
    /\ hand' = [hand EXCEPT ![s] = queue[s][Len(queue[s])]]
    /\ queue' = [queue EXCEPT ![s] = SubSeq(@, 1, Len(@) - 1)]
    /\ IngressTo(s, "packet")
    /\ UNCHANGED sent

\* ingress_loop: the next queued packet.
IngressRecv(s) ==
    /\ ingress[s] = "recv"
    /\ queue[s] # <<>>
    /\ hand' = [hand EXCEPT ![s] = Head(queue[s])]
    /\ queue' = [queue EXCEPT ![s] = Tail(@)]
    /\ IngressTo(s, "packet")
    /\ UNCHANGED sent

\* chinadns: try_intercept takes the query and asks the direct resolver.
IngressIntercept(s) ==
    /\ ingress[s] = "packet"
    /\ intercept[s]
    /\ hand[s] \in Dns
    /\ IngressTo(s, "resolving")
    /\ UNCHANGED <<queue, hand, sent>>

\* The direct resolver answered and the answer goes to the client: emit_response
\* runs in this task, on the same writer.
IngressAnswer(s) ==
    /\ ingress[s] = "resolving"
    /\ <<s, "ingress">> \notin aborted
    /\ IngressTo(s, "callback")
    /\ UNCHANGED <<queue, hand, sent>>

IngressReturn(s) ==
    /\ ingress[s] = "callback"
    /\ hand' = [hand EXCEPT ![s] = 0]
    /\ IngressTo(s, "recv")
    /\ UNCHANGED <<queue, sent>>

\* No direct answer, or one left to the tunnel: nothing is emitted here.
IngressSilent(s) ==
    /\ ingress[s] = "resolving"
    /\ <<s, "ingress">> \notin aborted
    /\ hand' = [hand EXCEPT ![s] = 0]
    /\ IngressTo(s, "recv")
    /\ UNCHANGED <<queue, sent>>

\* A packet that is not intercepted is encrypted and sent, or cannot be encrypted.
Forwards(s) == ~(intercept[s] /\ hand[s] \in Dns)

IngressEncrypt(s) ==
    /\ ingress[s] = "packet"
    /\ Forwards(s)
    /\ IngressTo(s, "sending")
    /\ UNCHANGED <<queue, hand, sent>>

IngressSkip(s) ==
    /\ ingress[s] = "packet"
    /\ Forwards(s)
    /\ hand' = [hand EXCEPT ![s] = 0]
    /\ IngressTo(s, "recv")
    /\ UNCHANGED <<queue, sent>>

IngressSend(s) ==
    /\ ingress[s] = "sending"
    /\ sent' = Append(sent, <<s, hand[s]>>)
    /\ hand' = [hand EXCEPT ![s] = 0]
    /\ IngressTo(s, "recv")
    /\ UNCHANGED queue

\* Faulty variant: the receiver outlives the task.
IngressEndsUndrained(s) ==
    /\ hand' = [hand EXCEPT ![s] = 0]
    /\ IngressTo(s, "done")
    /\ UNCHANGED <<queue, sent>>

\* The task ends: its receiver is dropped with whatever is still queued.
IngressEnds(s) ==
    /\ queue' = [queue EXCEPT ![s] = <<>>]
    /\ hand' = [hand EXCEPT ![s] = 0]
    /\ IngressTo(s, "done")
    /\ UNCHANGED sent

IngressSendFails(s) == ingress[s] = "sending" /\ IngressEnds(s)

\* Faulty variant: the direct resolver is awaited in a way an abort does not reach.
IngressCancelForwarding(s) ==
    /\ ingress[s] \in {"recv", "sending"}
    /\ <<s, "ingress">> \in aborted
    /\ IngressEnds(s)

IngressCancel(s) ==
    /\ ingress[s] \in {"recv", "resolving", "sending"}
    /\ <<s, "ingress">> \in aborted
    /\ IngressEnds(s)

KeepaliveEnds(s) ==
    /\ keepalive[s] = "tick"
    /\ keepalive' = [keepalive EXCEPT ![s] = "done"]
    /\ UNCHANGED <<egress, ingress, queue, hand, sent, controlVars>>

\* A failed keepalive send ends the ticker for the rest of the session.
KeepaliveFails(s) == KeepaliveEnds(s)

KeepaliveCancel(s) == <<s, "keepalive">> \in aborted /\ KeepaliveEnds(s)

-----------------------------------------------------------------------------
StopBlocking == LowerRunning \/ TakeSession \/ AbortTasks \/ JoinEgress
StartCore    == TunSpawn \/ PublishSession \/ RaiseRunning
Host == \/ EngineStart \/ EngineRestart \/ EngineStop
        \/ ReleaseWriter \/ RestartRuntime \/ TunStartFails
        \/ StartCore \/ StopBlocking \/ StopAsync
Ingest(g) == IngestClone(g) \/ IngestRejected(g) \/ IngestAccepted(g)
EgressTask(s) == \/ EgressRecv(s) \/ EgressFails(s) \/ EgressDrop(s)
                 \/ EgressEmit(s) \/ EgressReturn(s) \/ EgressCancel(s)
IngressTask(s) == \/ IngressRecv(s) \/ IngressIntercept(s) \/ IngressAnswer(s)
                  \/ IngressReturn(s) \/ IngressSilent(s) \/ IngressEncrypt(s)
                  \/ IngressSkip(s) \/ IngressSend(s) \/ IngressSendFails(s)
                  \/ IngressCancel(s)
KeepaliveTask(s) == KeepaliveFails(s) \/ KeepaliveCancel(s)

Next ==
    \/ Host
    \/ \E g \in Engines : ReadCompletes(g) \/ Ingest(g)
    \/ \E s \in Sessions : EgressTask(s) \/ IngressTask(s) \/ KeepaliveTask(s)

Spec == Init /\ [][Next]_vars

\* A call in progress on the control queue goes on; a task that can run is polled.
\* Nothing is assumed of the host's callback (EgressReturn, IngressReturn).
HostCall == \/ ReleaseWriter \/ RestartRuntime \/ TunStartFails
            \/ StartCore \/ StopBlocking
EgressWork(s)  == EgressDrop(s) \/ EgressEmit(s)
IngressWork(s) == \/ IngressRecv(s) \/ IngressIntercept(s) \/ IngressAnswer(s)
                  \/ IngressSilent(s) \/ IngressEncrypt(s) \/ IngressSkip(s)
                  \/ IngressSend(s) \/ IngressSendFails(s) \/ IngressCancel(s)

\* Strong fairness of EgressCancel: an aborted task whose socket always has a datagram
\* ready still yields, because tokio's cooperative budget makes its recv return Pending.
Fairness ==
    /\ WF_vars(HostCall)
    /\ \A g \in Engines : WF_vars(Ingest(g))
    /\ \A s \in Sessions :
          /\ WF_vars(EgressWork(s))
          /\ SF_vars(EgressCancel(s))
          /\ WF_vars(IngressWork(s))
          /\ WF_vars(KeepaliveCancel(s))

FairSpec == Spec /\ Fairness

-----------------------------------------------------------------------------
(***************************************************************************)
(* Properties.                                                             *)
(***************************************************************************)

\* Session s is inside the host's C callback, in one of its two emitting tasks.
EgressCalls(s)  == egress[s] = "callback"
IngressCalls(s) == ingress[s] = "callback"

\* The egress task never calls back into a writer that SVTunnelEngine has released:
\* what stop_blocking's join is for, across every start, restart and stop.
EgressNeverUsesReleasedWriter ==
    \A s \in Sessions : EgressCalls(s) => owner[s] \in retained

\* No task of any session calls back into a released writer.
NoUseAfterRelease ==
    \A s \in Sessions : EgressCalls(s) \/ IngressCalls(s) => owner[s] \in retained

\* The callbacks in progress, by session and emitting task.
Callers == Sessions \X {"egress", "ingress"}
Calls == {<<<<s, "egress">>, owner[s]>> : s \in {x \in Sessions : EgressCalls(x)}}
    \cup {<<<<s, "ingress">>, owner[s]>> : s \in {x \in Sessions : IngressCalls(x)}}

Contract == INSTANCE WriterContract
                WITH Contexts <- Engines, lent <- retained, calls <- Calls

\* The engine and SVTunnelEngine together keep the contract of the C callback: contexts
\* are lent once, called only while lent, and taken back only when no call is running.
ImplementsWriterContract == Contract!Spec

\* Sessions that may legitimately have tasks nobody asked to stop: the one in the slot
\* and the one that start() or stop_blocking() has in its hands.
Attended == {slot, held}

Running(s, t) == CASE t = "egress"    -> egress[s] \notin {"none", "done"}
                   [] t = "ingress"   -> ingress[s] \notin {"none", "done"}
                   [] t = "keepalive" -> keepalive[s] \notin {"none", "done"}

\* No start, restart or stop loses track of a running task: one that was not aborted
\* belongs to a session the engine can still stop.
NoOrphanTask ==
    \A s \in Sessions : \A t \in Tasks :
        Running(s, t) /\ <<s, t>> \notin aborted => s \in Attended

\* At most one session's egress task outlives the call that ends it: when a new
\* session is spawned, every older one has stopped delivering packets to the flow.
OneDelivery ==
    \A s1, s2 \in Sessions :
        Running(s1, "egress") /\ Running(s2, "egress") => s1 = s2

\* Within a session the server receives the packets of one read chain in the order the
\* flow handed them over, each at most once, whatever the queue dropped in between.
WireOrder ==
    \A i, j \in 1..Len(sent) :
        /\ i < j
        /\ sent[i][1] = sent[j][1]
        /\ reads[sent[i][2]] = reads[sent[j][2]]
        => sent[i][2] < sent[j][2]

\* What a comment of engine.rs promises and a run refutes: ingest "returns -1 only when
\* the data plane isn't running".
RejectsOnlyWhenStopped ==
    \A g \in Engines : IngestNoSession(g) \/ IngestClosed(g) => ~running

\* An ingested packet leaves the queue: forwarded, taken by the interceptor, skipped,
\* or dropped with the session, unless the ingress task is stuck in the host's callback.
QueueDrains ==
    \A s \in Sessions :
        queue[s] # <<>> ~> (queue[s] = <<>> \/ IngressCalls(s))

InStopBlocking == pc \in {"lower", "take", "abort", "join"}

\* stop_blocking returns, even when the host's callback never does: the join expires.
StopBlockingReturns == InStopBlocking ~> ~InStopBlocking

\* Whatever was aborted ends, unless it is stuck in the host's callback.
AbortedTasksEnd ==
    \A s \in Sessions : \A t \in Tasks :
        <<s, t>> \in aborted ~> (~Running(s, t) \/ EgressCalls(s) \/ IngressCalls(s))
=============================================================================
