-------------------------- MODULE DataPlaneProofs --------------------------
(***************************************************************************)
(* What is proved of DataPlane for every value of its constants: its types,*)
(* that the join in stop_blocking protects the writer context, that no task*)
(* is lost and one session delivers at a time, and the order of packets.   *)
(***************************************************************************)
EXTENDS DataPlane, TLAPS

(***************************************************************************)
(* The typing of the variables is not inductive by itself: what a task or  *)
(* the control queue has in its hands must be there when it uses it.       *)
(***************************************************************************)
HandFull ==
    \A s \in Sessions :
        ingress[s] \in {"packet", "resolving", "callback", "sending"} => hand[s] # 0

BatchFull ==
    \A g \in Engines : /\ reader[g] \in {"batch", "try_send"} => batch[g] # 0
                       /\ reader[g] = "try_send" => sender[g] # 0

HostHolds ==
    /\ pc # "idle" \/ started => engine # 0
    /\ pc \in {"publish", "abort", "join"} => held # 0

TypeInv == TypeOK /\ HandFull /\ BatchFull /\ HostHolds

(***************************************************************************)
(* Why the join is enough for the egress task.  Its sessions are always in *)
(* the slot or in the hands of start() or stop_blocking(); the control     *)
(* queue is past stop_blocking, with neither, whenever it gives the writer *)
(* back; and a session that is attended was given the writer of the        *)
(* current engine object, the only one that can be retained.               *)
(***************************************************************************)
EgressAttended ==
    \A s \in Sessions : egress[s] \notin {"none", "done"} => s \in Attended

UnbornQuiet ==
    /\ \A s \in Sessions : s > spawned => egress[s] = "none"
    /\ slot \leq spawned
    /\ held \leq spawned

OwnerRetained ==
    \A s \in Sessions : s \in Attended => owner[s] = engine /\ engine \in retained

HostPlace ==
    /\ pc \in {"idle", "lower", "take", "raise"} => held = 0
    /\ pc \in {"publish", "abort", "join"} => slot = 0
    /\ pc \in {"tun_start", "stopped"} => slot = 0 /\ held = 0
    /\ pc = "idle" => (started <=> tunStarted) /\ (~started => slot = 0)
    /\ pc = "tun_start" => ~tunStarted
    /\ pc \in {"tun_start", "publish", "raise"} => started
    /\ pc \in {"lower", "take", "abort", "join", "stopped"} =>
          (op = "restart" /\ started) \/ (op = "stop" /\ ~started)

Retained ==
    /\ retained \subseteq {engine}
    /\ pc # "idle" \/ started => engine \in retained
    /\ pc = "idle" /\ ~started => retained = {}

JoinInv == /\ EgressAttended /\ UnbornQuiet /\ OwnerRetained
           /\ HostPlace /\ Retained

\* In a session without an interceptor the ingress task never reaches the callback.
PlainIngress ==
    \A s \in Sessions : ~intercept[s] /\ ingress[s] \notin {"resolving", "callback"}

-----------------------------------------------------------------------------
(* The typing invariant. *)

LEMMA TypeInit == Init => TypeInv
<1> SUFFICES ASSUME Init PROVE TypeInv
  OBVIOUS
<1> USE DataPlaneAssumption DEF DataPlaneAssumption, Init
<1>1. CoreTypes
  <2>1. running \in BOOLEAN /\ aborted \subseteq Sessions \X Tasks
    OBVIOUS
  <2>2. slot \in 0..MaxSessions /\ held \in 0..MaxSessions
    OBVIOUS
  <2> QED
    BY <2>1, <2>2 DEF CoreTypes
<1>2. BirthTypes
  BY DEF BirthTypes
<1>3. TaskTypes
  BY DEF TaskTypes
<1>4. QueueTypes
  BY DEF QueueTypes
<1>5. HostTypes
  <2>1. started \in BOOLEAN /\ tunStarted \in BOOLEAN
    OBVIOUS
  <2>2. engine \in 0..MaxEngines
    OBVIOUS
  <2> QED
    BY <2>1, <2>2 DEF HostTypes
<1>6. ReadTypes
  BY DEF ReadTypes
<1>7. HandFull /\ BatchFull /\ HostHolds
  BY DEF HandFull, BatchFull, HostHolds
<1> QED
  BY <1>1, <1>2, <1>3, <1>4, <1>5, <1>6, <1>7 DEF TypeInv, TypeOK

(* A group of variables that a step leaves alone keeps its types. *)

LEMMA BirthKept == BirthTypes /\ UNCHANGED birthVars => BirthTypes'
  BY DEF BirthTypes, birthVars

LEMMA TaskKept ==
    TaskTypes /\ QueueTypes /\ HandFull /\ UNCHANGED taskVars
        => TaskTypes' /\ QueueTypes' /\ HandFull'
  BY DEF TaskTypes, QueueTypes, HandFull, taskVars

LEMMA HostKept == HostTypes /\ UNCHANGED hostVars => HostTypes'
  BY DEF HostTypes, hostVars

LEMMA ReadKept ==
    ReadTypes /\ BatchFull /\ UNCHANGED readVars => ReadTypes' /\ BatchFull'
  BY DEF ReadTypes, BatchFull, readVars

LEMMA TypeHost == TypeInv /\ Host => TypeInv'
<1> SUFFICES ASSUME TypeInv, Host PROVE TypeInv'
  OBVIOUS
<1> USE DataPlaneAssumption DEF DataPlaneAssumption, TypeInv, TypeOK
<1>1. CASE EngineStart
  <2> USE <1>1 DEF EngineStart
  <2>1. CoreTypes' /\ HostHolds'
    BY DEF CoreTypes, HostHolds, HostTypes, BirthTypes, hostVars, Sessions, Tasks
  <2>2. HostTypes'
    BY DEF HostTypes, HostHolds, Engines
  <2> QED
    BY <2>1, <2>2, BirthKept, TaskKept, ReadKept
<1>2. CASE EngineRestart
  <2> USE <1>2 DEF EngineRestart
  <2>1. CoreTypes' /\ HostHolds'
    BY DEF CoreTypes, HostHolds, HostTypes, BirthTypes, hostVars, Sessions, Tasks
  <2> QED
    BY <2>1, BirthKept, TaskKept, HostKept, ReadKept
<1>3. CASE EngineStop
  <2> USE <1>3 DEF EngineStop
  <2>1. CoreTypes' /\ HostHolds'
    BY DEF CoreTypes, HostHolds, HostTypes, BirthTypes, hostVars, Sessions, Tasks
  <2>2. HostTypes'
    BY DEF HostTypes, HostHolds, Engines
  <2> QED
    BY <2>1, <2>2, BirthKept, TaskKept, ReadKept
<1>4. CASE ReleaseWriter
  <2> USE <1>4 DEF ReleaseWriter
  <2>1. CoreTypes' /\ HostHolds'
    BY DEF CoreTypes, HostHolds, HostTypes, BirthTypes, hostVars, Sessions, Tasks
  <2>2. HostTypes'
    BY DEF HostTypes, HostHolds, Engines
  <2> QED
    BY <2>1, <2>2, BirthKept, TaskKept, ReadKept
<1>5. CASE RestartRuntime
  <2> USE <1>5 DEF RestartRuntime
  <2>1. CoreTypes' /\ HostHolds'
    BY DEF CoreTypes, HostHolds, HostTypes, BirthTypes, hostVars, Sessions, Tasks
  <2>2. HostTypes'
    BY DEF HostTypes, HostHolds, Engines
  <2> QED
    BY <2>1, <2>2, BirthKept, TaskKept, ReadKept
<1>6. CASE TunStartFails
  <2> USE <1>6 DEF TunStartFails
  <2>1. CoreTypes' /\ HostHolds'
    BY DEF CoreTypes, HostHolds, HostTypes, BirthTypes, hostVars, Sessions, Tasks
  <2>2. HostTypes'
    BY DEF HostTypes, HostHolds, Engines
  <2> QED
    BY <2>1, <2>2, BirthKept, TaskKept, ReadKept
<1>7. CASE TunSpawn
  <2> USE <1>7 DEF TunSpawn
  <2>1. CoreTypes' /\ HostHolds'
    BY DEF CoreTypes, HostHolds, HostTypes, BirthTypes, hostVars, Sessions, Tasks
  <2>2. BirthTypes'
    BY DEF BirthTypes, HostTypes, Sessions
  <2>3. TaskTypes' /\ QueueTypes' /\ HandFull'
    BY DEF TaskTypes, QueueTypes, HandFull, BirthTypes
  <2> QED
    BY <2>1, <2>2, <2>3, HostKept, ReadKept
<1>8. CASE PublishSession
  <2> USE <1>8 DEF PublishSession
  <2>1. CoreTypes' /\ HostHolds'
    BY DEF CoreTypes, HostHolds, HostTypes, BirthTypes, hostVars, Sessions, Tasks
  <2> QED
    BY <2>1, BirthKept, TaskKept, HostKept, ReadKept
<1>9. CASE RaiseRunning
  <2> USE <1>9 DEF RaiseRunning
  <2>1. CoreTypes' /\ HostHolds'
    BY DEF CoreTypes, HostHolds, HostTypes, BirthTypes, hostVars, Sessions, Tasks
  <2>2. HostTypes'
    <3>1. engine \in Engines
      BY DEF HostTypes, HostHolds, Engines
    <3>2. tunStarted' \in BOOLEAN /\ reading' \subseteq Engines
      BY <3>1 DEF HostTypes
    <3> QED
      BY <3>2 DEF HostTypes
  <2>3. ReadTypes' /\ BatchFull'
    BY DEF ReadTypes, BatchFull
  <2> QED
    BY <2>1, <2>2, <2>3, BirthKept, TaskKept
<1>10. CASE LowerRunning
  <2> USE <1>10 DEF LowerRunning
  <2>1. CoreTypes' /\ HostHolds'
    BY DEF CoreTypes, HostHolds, HostTypes, BirthTypes, hostVars, Sessions, Tasks
  <2> QED
    BY <2>1, BirthKept, TaskKept, HostKept, ReadKept
<1>11. CASE TakeSession
  <2> USE <1>11 DEF TakeSession
  <2>1. CoreTypes' /\ HostHolds'
    BY DEF CoreTypes, HostHolds, HostTypes, BirthTypes, hostVars, Sessions, Tasks
  <2> QED
    BY <2>1, BirthKept, TaskKept, HostKept, ReadKept
<1>12. CASE AbortTasks
  <2> USE <1>12 DEF AbortTasks
  <2>1. CoreTypes' /\ HostHolds'
    BY DEF CoreTypes, HostHolds, HostTypes, BirthTypes, hostVars, Sessions, Tasks
  <2> QED
    BY <2>1, BirthKept, TaskKept, HostKept, ReadKept
<1>13. CASE JoinEgress
  <2> USE <1>13 DEF JoinEgress
  <2>1. CoreTypes' /\ HostHolds'
    BY DEF CoreTypes, HostHolds, HostTypes, BirthTypes, hostVars, Sessions, Tasks
  <2> QED
    BY <2>1, BirthKept, TaskKept, HostKept, ReadKept
<1>14. CASE StopAsync
  <2> USE <1>14 DEF StopAsync
  <2>1. CoreTypes' /\ HostHolds'
    <3>1. running' \in BOOLEAN
      OBVIOUS
    <3>2. slot' \in 0..MaxSessions
      OBVIOUS
    <3>3. {slot} \ {0} \subseteq Sessions
      BY DEF CoreTypes, Sessions
    <3>4. aborted' \subseteq Sessions \X Tasks
      BY <3>3 DEF CoreTypes
    <3> QED
      BY <3>1, <3>2, <3>4 DEF CoreTypes, HostHolds, hostVars
  <2> QED
    BY <2>1, BirthKept, TaskKept, HostKept, ReadKept
<1> QED
  BY <1>1, <1>2, <1>3, <1>4, <1>5, <1>6, <1>7, <1>8, <1>9, <1>10, <1>11, <1>12, <1>13, <1>14 DEF Host, StartCore, StopBlocking

LEMMA TypeReader ==
    ASSUME NEW g \in Engines, TypeInv, ReadCompletes(g) \/ Ingest(g)
    PROVE  TypeInv'
<1> USE DataPlaneAssumption DEF DataPlaneAssumption, TypeInv, TypeOK
<1>1. CASE ReadCompletes(g)
  <2> USE <1>1 DEF ReadCompletes
  <2>1. CoreTypes' /\ HostHolds'
    BY DEF CoreTypes, HostHolds, hostVars
  <2>2. ReadTypes' /\ BatchFull'
    <3>1. CASE g \in reading /\ Len(reads) < MaxPackets /\ reads' = Append(reads, g)
               /\ batch' = [batch EXCEPT ![g] = Len(reads')]
               /\ reader' = [reader EXCEPT ![g] = "batch"]
      <4>1. reads' \in Seq(Engines) /\ Len(reads') \in 1..MaxPackets
        BY <3>1 DEF ReadTypes
      <4>2. Len(reads') \leq MaxPackets /\ Len(reads') # 0 /\ Len(reads') \in 0..MaxPackets
        BY <4>1
      <4> QED
        BY <3>1, <4>1, <4>2 DEF ReadTypes, BatchFull
    <3>2. CASE reader' = [reader EXCEPT ![g] = "off"] /\ UNCHANGED <<reads, batch>>
      BY <3>2 DEF ReadTypes, BatchFull
    <3> QED
      BY <3>1, <3>2
  <2> QED
    BY <2>1, <2>2, BirthKept, TaskKept, HostKept
<1>2. CASE IngestClone(g)
  <2> USE <1>2 DEF IngestClone
  <2>1. CoreTypes' /\ HostHolds'
    BY DEF CoreTypes, HostHolds, hostVars
  <2>2. ReadTypes' /\ BatchFull'
    BY DEF ReadTypes, BatchFull, CoreTypes
  <2> QED
    BY <2>1, <2>2, BirthKept, TaskKept, HostKept
<1>3. CASE IngestRejected(g)
  <2> USE <1>3 DEF IngestRejected, Rearm
  <2>1. CoreTypes' /\ HostHolds'
    BY DEF CoreTypes, HostHolds, hostVars
  <2>2. ReadTypes' /\ BatchFull'
    BY DEF ReadTypes, BatchFull
  <2> QED
    BY <2>1, <2>2, BirthKept, TaskKept, HostKept
<1>4. CASE IngestAccepted(g)
  <2> USE <1>4 DEF IngestAccepted, Rearm
  <2>1. CoreTypes' /\ HostHolds'
    BY DEF CoreTypes, HostHolds, hostVars
  <2>2. ReadTypes' /\ BatchFull'
    BY DEF ReadTypes, BatchFull
  <2>3. sender[g] \in Sessions /\ batch[g] \in Packets
    BY DEF ReadTypes, BatchFull, Sessions, Packets
  <2>4. QueueTypes'
    BY <2>3 DEF QueueTypes
  <2>5. TaskTypes' /\ HandFull'
    BY DEF TaskTypes, HandFull
  <2> QED
    BY <2>1, <2>2, <2>4, <2>5, BirthKept, HostKept
<1> QED
  BY <1>1, <1>2, <1>3, <1>4 DEF Ingest

LEMMA TypeEgress ==
    ASSUME NEW s \in Sessions, TypeInv, EgressTask(s)
    PROVE  TypeInv'
<1>1. PICK state \in {"recv", "datagram", "callback", "done"} : EgressTo(s, state)
  BY DEF EgressTask, EgressRecv, EgressFails, EgressDrop, EgressEmit, EgressReturn,
     EgressCancel
<1> USE <1>1 DEF EgressTo, controlVars, TypeInv, TypeOK
<1>2. CoreTypes' /\ HostHolds'
  BY DEF CoreTypes, HostHolds, hostVars
<1>3. TaskTypes' /\ HandFull'
  BY DEF TaskTypes, HandFull
<1>4. QueueTypes'
  BY DEF QueueTypes
<1> QED
  BY <1>2, <1>3, <1>4, BirthKept, HostKept, ReadKept

LEMMA TypeIngress ==
    ASSUME NEW s \in Sessions, TypeInv, IngressTask(s)
    PROVE  TypeInv'
<1> USE DEF TypeInv, TypeOK
<1>1. CoreTypes' /\ HostHolds' /\ BirthTypes' /\ HostTypes' /\ ReadTypes' /\ BatchFull'
  <2>1. UNCHANGED controlVars
    BY DEF IngressTask, IngressRecv, IngressIntercept, IngressAnswer, IngressReturn,
       IngressSilent, IngressEncrypt, IngressSkip, IngressSend, IngressSendFails,
       IngressCancel, IngressEnds, IngressTo
  <2>2. CoreTypes' /\ HostHolds'
    BY <2>1 DEF CoreTypes, HostHolds, controlVars, hostVars
  <2> QED
    BY <2>1, <2>2, BirthKept, HostKept, ReadKept DEF controlVars
<1> USE DEF TaskTypes, QueueTypes, HandFull, IngressTo
<1>2. CASE IngressRecv(s)
  <2>1. Head(queue[s]) \in Packets /\ Tail(queue[s]) \in Seq(Packets)
        /\ Len(Tail(queue[s])) \leq QueueDepth
    BY <1>2, DataPlaneAssumption DEF IngressRecv, DataPlaneAssumption
  <2>2. TaskTypes'
    BY <1>2, <2>1 DEF IngressRecv, Packets
  <2>3. QueueTypes'
    BY <1>2, <2>1 DEF IngressRecv
  <2>4. HandFull'
    BY <1>2, <2>1 DEF IngressRecv, Packets
  <2> QED
    BY <1>1, <2>2, <2>3, <2>4
<1>3. CASE IngressIntercept(s) \/ IngressAnswer(s) \/ IngressEncrypt(s)
  BY <1>1, <1>3 DEF IngressIntercept, IngressAnswer, IngressEncrypt
<1>4. CASE IngressReturn(s) \/ IngressSilent(s) \/ IngressSkip(s)
  <2>1. /\ ingress' = [ingress EXCEPT ![s] = "recv"]
        /\ hand' = [hand EXCEPT ![s] = 0]
        /\ UNCHANGED <<egress, keepalive, queue, sent>>
    BY <1>4 DEF IngressReturn, IngressSilent, IngressSkip, controlVars
  <2> QED
    BY <1>1, <2>1, DataPlaneAssumption DEF DataPlaneAssumption
<1>5. CASE IngressSend(s)
  <2>1. hand[s] \in Packets
    BY <1>5 DEF IngressSend, Packets
  <2> QED
    BY <1>1, <1>5, <2>1, DataPlaneAssumption DEF IngressSend, DataPlaneAssumption
<1>6. CASE IngressSendFails(s) \/ IngressCancel(s)
  <2>1. /\ ingress' = [ingress EXCEPT ![s] = "done"]
        /\ hand' = [hand EXCEPT ![s] = 0]
        /\ queue' = [queue EXCEPT ![s] = <<>>]
        /\ UNCHANGED <<egress, keepalive, sent>>
    BY <1>6 DEF IngressSendFails, IngressCancel, IngressEnds, controlVars
  <2>2. TaskTypes' /\ HandFull'
    BY <2>1, DataPlaneAssumption DEF DataPlaneAssumption
  <2>3. QueueTypes'
    BY <2>1, DataPlaneAssumption DEF DataPlaneAssumption
  <2> QED
    BY <1>1, <2>2, <2>3
<1> QED
  BY <1>2, <1>3, <1>4, <1>5, <1>6 DEF IngressTask

LEMMA TypeKeepalive ==
    ASSUME NEW s \in Sessions, TypeInv, KeepaliveTask(s)
    PROVE  TypeInv'
<1>1. KeepaliveEnds(s)
  BY DEF KeepaliveTask, KeepaliveFails, KeepaliveCancel
<1> USE <1>1 DEF KeepaliveEnds, controlVars, TypeInv, TypeOK
<1>2. CoreTypes' /\ HostHolds'
  BY DEF CoreTypes, HostHolds, hostVars
<1>3. TaskTypes' /\ HandFull'
  BY DEF TaskTypes, HandFull
<1>4. QueueTypes'
  BY DEF QueueTypes
<1> QED
  BY <1>2, <1>3, <1>4, BirthKept, HostKept, ReadKept

LEMMA TypeStep == TypeInv /\ [Next]_vars => TypeInv'
<1>1. ASSUME TypeInv, UNCHANGED vars PROVE TypeInv'
  <2>1. CoreTypes' /\ HostHolds'
    BY <1>1 DEF vars, hostVars, TypeInv, TypeOK, CoreTypes, HostHolds
  <2> QED
    BY <1>1, <2>1, BirthKept, TaskKept, HostKept, ReadKept DEF vars, TypeInv, TypeOK
<1> QED
  BY <1>1, TypeHost, TypeReader, TypeEgress, TypeIngress, TypeKeepalive DEF Next

\* The types of every variable of the data plane, under every setting of the constants.
THEOREM TypeCorrect == Spec => []TypeOK
<1>1. TypeInv => TypeOK
  BY DEF TypeInv
<1> QED
  BY <1>1, TypeInit, TypeStep, PTL DEF Spec

-----------------------------------------------------------------------------
(* The join protects the writer context. *)

\* The join is never given up, and only stop_blocking is used to stop.
JoinedStops == ~JoinTimeout /\ ~AsyncStop

LEMMA ZeroIsNoSession == 0 \notin Sessions
  BY DataPlaneAssumption DEF DataPlaneAssumption, Sessions

LEMMA JoinInit == Init => JoinInv
<1> SUFFICES ASSUME Init PROVE JoinInv
  OBVIOUS
<1> USE DEF Init
<1>1. EgressAttended /\ OwnerRetained
  BY ZeroIsNoSession DEF EgressAttended, OwnerRetained, Attended
<1>2. UnbornQuiet
  BY DEF UnbornQuiet
<1>3. HostPlace /\ Retained
  BY DEF HostPlace, Retained
<1> QED
  BY <1>1, <1>2, <1>3 DEF JoinInv

joinVars == <<egress, slot, held, spawned, owner, engine, retained, pc, op,
              started, tunStarted>>

LEMMA JoinKept == JoinInv /\ UNCHANGED joinVars => JoinInv'
  BY DEF joinVars, JoinInv, EgressAttended, UnbornQuiet, OwnerRetained, HostPlace,
     Retained, Attended

LEMMA JoinHost ==
    ASSUME TypeInv, JoinInv, JoinedStops, Host
    PROVE  JoinInv'
<1> USE DEF JoinInv
<1>1. CASE EngineStart
  <2> USE <1>1 DEF EngineStart
  <2>1. HostPlace' /\ Retained'
    BY DEF HostPlace, Retained, TypeInv, HostHolds, hostVars
  <2>2. EgressAttended'
    BY DEF EgressAttended, Attended, HostPlace, taskVars
  <2>3. UnbornQuiet'
    BY DEF UnbornQuiet, TypeInv, TypeOK, BirthTypes, TaskTypes, CoreTypes, Sessions,
       taskVars, birthVars
  <2>4. OwnerRetained'
    BY ZeroIsNoSession DEF OwnerRetained, Attended, HostPlace, Retained, birthVars, hostVars
  <2> QED
    BY <2>1, <2>2, <2>3, <2>4
<1>2. CASE EngineRestart
  <2> USE <1>2 DEF EngineRestart
  <2>1. HostPlace' /\ Retained'
    BY DEF HostPlace, Retained, TypeInv, HostHolds, hostVars
  <2>2. EgressAttended'
    BY DEF EgressAttended, Attended, HostPlace, taskVars
  <2>3. UnbornQuiet'
    BY DEF UnbornQuiet, TypeInv, TypeOK, BirthTypes, TaskTypes, CoreTypes, Sessions,
       taskVars, birthVars
  <2>4. OwnerRetained'
    BY ZeroIsNoSession DEF OwnerRetained, Attended, HostPlace, Retained, birthVars, hostVars
  <2> QED
    BY <2>1, <2>2, <2>3, <2>4
<1>3. CASE EngineStop
  <2> USE <1>3 DEF EngineStop
  <2>1. HostPlace' /\ Retained'
    BY DEF HostPlace, Retained, TypeInv, HostHolds, hostVars
  <2>2. EgressAttended'
    BY DEF EgressAttended, Attended, HostPlace, taskVars
  <2>3. UnbornQuiet'
    BY DEF UnbornQuiet, TypeInv, TypeOK, BirthTypes, TaskTypes, CoreTypes, Sessions,
       taskVars, birthVars
  <2>4. OwnerRetained'
    BY ZeroIsNoSession DEF OwnerRetained, Attended, HostPlace, Retained, birthVars, hostVars
  <2> QED
    BY <2>1, <2>2, <2>3, <2>4
<1>4. CASE ReleaseWriter
  <2> USE <1>4 DEF ReleaseWriter
  <2>1. HostPlace' /\ Retained'
    BY DEF HostPlace, Retained, TypeInv, HostHolds, hostVars
  <2>2. EgressAttended'
    BY DEF EgressAttended, Attended, HostPlace, taskVars
  <2>3. UnbornQuiet'
    BY DEF UnbornQuiet, TypeInv, TypeOK, BirthTypes, TaskTypes, CoreTypes, Sessions,
       taskVars, birthVars
  <2>4. OwnerRetained'
    BY ZeroIsNoSession DEF OwnerRetained, Attended, HostPlace, Retained, birthVars, hostVars
  <2> QED
    BY <2>1, <2>2, <2>3, <2>4
<1>5. CASE RestartRuntime
  <2> USE <1>5 DEF RestartRuntime
  <2>1. HostPlace' /\ Retained'
    BY DEF HostPlace, Retained, TypeInv, HostHolds, hostVars
  <2>2. EgressAttended'
    BY DEF EgressAttended, Attended, HostPlace, taskVars
  <2>3. UnbornQuiet'
    BY DEF UnbornQuiet, TypeInv, TypeOK, BirthTypes, TaskTypes, CoreTypes, Sessions,
       taskVars, birthVars
  <2>4. OwnerRetained'
    BY ZeroIsNoSession DEF OwnerRetained, Attended, HostPlace, Retained, birthVars, hostVars
  <2> QED
    BY <2>1, <2>2, <2>3, <2>4
<1>6. CASE TunStartFails
  <2> USE <1>6 DEF TunStartFails
  <2>1. HostPlace' /\ Retained'
    BY DEF HostPlace, Retained, TypeInv, HostHolds, hostVars
  <2>2. EgressAttended'
    BY DEF EgressAttended, Attended, HostPlace, taskVars
  <2>3. UnbornQuiet'
    BY DEF UnbornQuiet, TypeInv, TypeOK, BirthTypes, TaskTypes, CoreTypes, Sessions,
       taskVars, birthVars
  <2>4. OwnerRetained'
    BY ZeroIsNoSession DEF OwnerRetained, Attended, HostPlace, Retained, birthVars, hostVars
  <2> QED
    BY <2>1, <2>2, <2>3, <2>4
<1>7. CASE TunSpawn
  <2> USE <1>7 DEF TunSpawn
  <2>1. HostPlace' /\ Retained'
    BY DEF HostPlace, Retained, TypeInv, HostHolds, hostVars
  <2>2. EgressAttended'
    BY DEF EgressAttended, Attended, HostPlace, taskVars
  <2>3. UnbornQuiet'
    BY DEF UnbornQuiet, TypeInv, TypeOK, BirthTypes, TaskTypes, CoreTypes, Sessions,
       taskVars, birthVars
  <2>4. OwnerRetained'
    BY ZeroIsNoSession DEF OwnerRetained, Attended, HostPlace, Retained, TypeInv, TypeOK,
       BirthTypes, hostVars
  <2> QED
    BY <2>1, <2>2, <2>3, <2>4
<1>8. CASE PublishSession
  <2> USE <1>8 DEF PublishSession
  <2>1. HostPlace' /\ Retained'
    BY DEF HostPlace, Retained, TypeInv, HostHolds, hostVars
  <2>2. EgressAttended'
    BY DEF EgressAttended, Attended, HostPlace, taskVars
  <2>3. UnbornQuiet'
    BY DEF UnbornQuiet, TypeInv, TypeOK, BirthTypes, TaskTypes, CoreTypes, Sessions,
       taskVars, birthVars
  <2>4. OwnerRetained'
    BY ZeroIsNoSession DEF OwnerRetained, Attended, HostPlace, Retained, birthVars, hostVars
  <2> QED
    BY <2>1, <2>2, <2>3, <2>4
<1>9. CASE RaiseRunning
  <2> USE <1>9 DEF RaiseRunning
  <2>1. HostPlace' /\ Retained'
    BY DEF HostPlace, Retained, TypeInv, HostHolds, hostVars
  <2>2. EgressAttended'
    BY DEF EgressAttended, Attended, HostPlace, taskVars
  <2>3. UnbornQuiet'
    BY DEF UnbornQuiet, TypeInv, TypeOK, BirthTypes, TaskTypes, CoreTypes, Sessions,
       taskVars, birthVars
  <2>4. OwnerRetained'
    BY ZeroIsNoSession DEF OwnerRetained, Attended, HostPlace, Retained, birthVars, hostVars
  <2> QED
    BY <2>1, <2>2, <2>3, <2>4
<1>10. CASE LowerRunning
  <2> USE <1>10 DEF LowerRunning
  <2>1. HostPlace' /\ Retained'
    BY DEF HostPlace, Retained, TypeInv, HostHolds, hostVars
  <2>2. EgressAttended'
    BY DEF EgressAttended, Attended, HostPlace, taskVars
  <2>3. UnbornQuiet'
    BY DEF UnbornQuiet, TypeInv, TypeOK, BirthTypes, TaskTypes, CoreTypes, Sessions,
       taskVars, birthVars
  <2>4. OwnerRetained'
    BY ZeroIsNoSession DEF OwnerRetained, Attended, HostPlace, Retained, birthVars, hostVars
  <2> QED
    BY <2>1, <2>2, <2>3, <2>4
<1>11. CASE TakeSession
  <2> USE <1>11 DEF TakeSession
  <2>1. HostPlace' /\ Retained'
    BY DEF HostPlace, Retained, TypeInv, HostHolds, hostVars
  <2>2. EgressAttended'
    BY DEF EgressAttended, Attended, HostPlace, taskVars
  <2>3. UnbornQuiet'
    BY DEF UnbornQuiet, TypeInv, TypeOK, BirthTypes, TaskTypes, CoreTypes, Sessions,
       taskVars, birthVars
  <2>4. OwnerRetained'
    BY ZeroIsNoSession DEF OwnerRetained, Attended, HostPlace, Retained, birthVars, hostVars
  <2> QED
    BY <2>1, <2>2, <2>3, <2>4
<1>12. CASE AbortTasks
  <2> USE <1>12 DEF AbortTasks
  <2>1. HostPlace' /\ Retained'
    BY DEF HostPlace, Retained, TypeInv, HostHolds, hostVars
  <2>2. EgressAttended'
    BY DEF EgressAttended, Attended, HostPlace, taskVars
  <2>3. UnbornQuiet'
    BY DEF UnbornQuiet, TypeInv, TypeOK, BirthTypes, TaskTypes, CoreTypes, Sessions,
       taskVars, birthVars
  <2>4. OwnerRetained'
    BY ZeroIsNoSession DEF OwnerRetained, Attended, HostPlace, Retained, birthVars, hostVars
  <2> QED
    BY <2>1, <2>2, <2>3, <2>4
<1>13. CASE JoinEgress
  <2> USE <1>13 DEF JoinEgress
  <2>1. HostPlace' /\ Retained'
    BY DEF HostPlace, Retained, TypeInv, HostHolds, hostVars
  <2>2. EgressAttended'
    BY DEF EgressAttended, Attended, HostPlace, JoinedStops, taskVars
  <2>3. UnbornQuiet'
    BY DEF UnbornQuiet, TypeInv, TypeOK, BirthTypes, TaskTypes, CoreTypes, Sessions,
       taskVars, birthVars
  <2>4. OwnerRetained'
    BY ZeroIsNoSession DEF OwnerRetained, Attended, HostPlace, Retained, birthVars, hostVars
  <2> QED
    BY <2>1, <2>2, <2>3, <2>4
<1> QED
  BY <1>1, <1>2, <1>3, <1>4, <1>5, <1>6, <1>7, <1>8, <1>9, <1>10, <1>11, <1>12, <1>13
     DEF Host, StartCore, StopBlocking, JoinedStops, StopAsync

LEMMA JoinEgressTask ==
    ASSUME NEW s \in Sessions, TypeInv, JoinInv, EgressTask(s)
    PROVE  JoinInv'
<1>1. PICK state : EgressTo(s, state)
  BY DEF EgressTask, EgressRecv, EgressFails, EgressDrop, EgressEmit, EgressReturn,
     EgressCancel
<1>2. egress[s] \notin {"none", "done"}
  BY DEF EgressTask, EgressRecv, EgressFails, EgressDrop, EgressEmit, EgressReturn,
     EgressCancel
<1> USE DEF JoinInv, EgressTo, controlVars
<1>3. EgressAttended' /\ UnbornQuiet'
  BY <1>1, <1>2 DEF EgressAttended, UnbornQuiet, Attended, birthVars, TypeInv, TypeOK,
     TaskTypes
<1>4. OwnerRetained' /\ HostPlace' /\ Retained'
  BY <1>1 DEF OwnerRetained, HostPlace, Retained, Attended, birthVars, hostVars
<1> QED
  BY <1>3, <1>4

LEMMA JoinStep == TypeInv /\ JoinInv /\ JoinedStops /\ [Next]_vars => JoinInv'
<1> SUFFICES ASSUME TypeInv, JoinInv, JoinedStops, [Next]_vars PROVE JoinInv'
  OBVIOUS
<1>1. CASE \E g \in Engines : ReadCompletes(g) \/ Ingest(g)
  <2>1. UNCHANGED joinVars
    BY <1>1 DEF ReadCompletes, Ingest, IngestClone, IngestRejected, IngestAccepted,
       joinVars, birthVars, taskVars, hostVars
  <2> QED
    BY <2>1, JoinKept
<1>2. CASE \E s \in Sessions : IngressTask(s) \/ KeepaliveTask(s)
  <2>1. UNCHANGED joinVars
    BY <1>2 DEF IngressTask, IngressRecv, IngressIntercept, IngressAnswer, IngressReturn,
       IngressSilent, IngressEncrypt, IngressSkip, IngressSend, IngressSendFails,
       IngressCancel, IngressEnds, IngressTo, KeepaliveTask, KeepaliveFails,
       KeepaliveCancel, KeepaliveEnds, joinVars, controlVars, birthVars, hostVars
  <2> QED
    BY <2>1, JoinKept
<1>3. CASE UNCHANGED vars
  BY <1>3, JoinKept DEF vars, joinVars, birthVars, taskVars, hostVars
<1> QED
  BY <1>1, <1>2, <1>3, JoinHost, JoinEgressTask DEF Next

\* stop_blocking's join keeps the egress task out of released writers, for any number of
\* engine objects, sessions and packets and with or without chinadns, as long as the
\* join does not expire and the fire-and-forget stop is not used.
THEOREM EgressSafe ==
    ASSUME JoinedStops
    PROVE  Spec => []EgressNeverUsesReleasedWriter
<1>1. JoinInv => EgressNeverUsesReleasedWriter
  BY DEF JoinInv, EgressAttended, OwnerRetained, EgressNeverUsesReleasedWriter, EgressCalls
<1> QED
  BY <1>1, TypeInit, TypeStep, JoinInit, JoinStep, JoinedStops, PTL DEF Spec

\* Under the same assumptions at most one session delivers packets to the flow: the
\* sessions with an egress task are in the slot or in hand, and one of the two is empty.
THEOREM OneAtATime ==
    ASSUME JoinedStops
    PROVE  Spec => []OneDelivery
<1>1. TypeInv /\ JoinInv => OneDelivery
  <2> SUFFICES ASSUME TypeInv, JoinInv PROVE OneDelivery
    OBVIOUS
  <2>1. \A s \in Sessions : Running(s, "egress") => s \in {slot, held}
    BY DEF JoinInv, EgressAttended, Attended, Running
  <2>2. slot = 0 \/ held = 0
    BY DEF JoinInv, HostPlace, TypeInv, TypeOK, CoreTypes
  <2> QED
    BY <2>1, <2>2, ZeroIsNoSession DEF OneDelivery
<1> QED
  BY <1>1, TypeInit, TypeStep, JoinInit, JoinStep, JoinedStops, PTL DEF Spec

(***************************************************************************)
(* Of a session that stop_blocking has in its hands to join, every task has*)
(* been aborted; so that letting go of it loses none.                      *)
(***************************************************************************)
Aborted == \A t \in Tasks : <<held, t>> \in aborted
OrphanInv == NoOrphanTask /\ (pc = "join" => Aborted)

LEMMA OrphanInit == Init => OrphanInv
  BY DEF Init, OrphanInv, NoOrphanTask, Running, Tasks

\* A step that starts no task, loses no abort and lets go of no session.
LEMMA OrphanKept ==
    ASSUME OrphanInv, aborted \subseteq aborted', Attended \subseteq Attended',
           \A s \in Sessions : \A t \in Tasks : Running(s, t)' => Running(s, t),
           pc' = "join" => pc = "join" /\ held' = held
    PROVE  OrphanInv'
  BY DEF OrphanInv, NoOrphanTask, Aborted

LEMMA OrphanHost ==
    ASSUME TypeInv, JoinInv, OrphanInv, JoinedStops, Host
    PROVE  OrphanInv'
<1>n. \A s \in Sessions : s # 0
  BY ZeroIsNoSession
<1>1. CASE EngineStart \/ EngineRestart \/ EngineStop \/ ReleaseWriter \/ RestartRuntime
           \/ TunStartFails \/ RaiseRunning \/ LowerRunning
  BY <1>1, OrphanKept DEF EngineStart, EngineRestart, EngineStop, ReleaseWriter,
     RestartRuntime, TunStartFails, RaiseRunning, LowerRunning, taskVars, Running, Attended
<1>2. CASE TunSpawn
  <2>1. slot = 0 /\ held = 0
    BY <1>2 DEF TunSpawn, JoinInv, HostPlace
  <2>2. \A s \in Sessions : \A t \in Tasks : Running(s, t)' => Running(s, t) \/ s = spawned + 1
    BY <1>2 DEF TunSpawn, Running, Tasks, TypeInv, TypeOK, TaskTypes
  <2> QED
    BY <1>n, <1>2, <2>1, <2>2 DEF TunSpawn, OrphanInv, NoOrphanTask, Attended
<1>3. CASE PublishSession
  <2>1. slot = 0
    BY <1>3 DEF PublishSession, JoinInv, HostPlace
  <2> QED
    BY <1>n, <1>3, <2>1 DEF PublishSession, taskVars, OrphanInv, NoOrphanTask, Attended,
       Running
<1>4. CASE TakeSession
  <2>1. held = 0
    BY <1>4 DEF TakeSession, JoinInv, HostPlace
  <2> QED
    BY <1>n, <1>4, <2>1 DEF TakeSession, taskVars, OrphanInv, NoOrphanTask, Attended, Running
<1>5. CASE AbortTasks
  <2>1. Aborted' /\ aborted \subseteq aborted' /\ UNCHANGED <<slot, held, taskVars>>
    BY <1>5 DEF AbortTasks, Aborted
  <2> QED
    BY <2>1 DEF OrphanInv, NoOrphanTask, Attended, Running, taskVars
<1>6. CASE JoinEgress
  <2>1. Aborted /\ UNCHANGED <<slot, aborted, taskVars>> /\ pc' # "join"
    BY <1>6 DEF JoinEgress, OrphanInv
  <2> QED
    BY <1>n, <2>1 DEF OrphanInv, NoOrphanTask, Aborted, Attended, Running, taskVars
<1> QED
  BY <1>1, <1>2, <1>3, <1>4, <1>5, <1>6
     DEF Host, StartCore, StopBlocking, JoinedStops, StopAsync

\* A step of a session task moves the task from where it runs, or ends it.
LEMMA OrphanTasks ==
    ASSUME NEW s \in Sessions, TypeInv, OrphanInv,
           EgressTask(s) \/ IngressTask(s) \/ KeepaliveTask(s)
    PROVE  OrphanInv'
<1> USE DEF TypeInv, TypeOK, TaskTypes
<1>1. UNCHANGED <<slot, held, aborted, pc>>
  BY DEF EgressTask, EgressRecv, EgressFails, EgressDrop, EgressEmit, EgressReturn,
     EgressCancel, EgressTo, IngressTask, IngressRecv, IngressIntercept, IngressAnswer,
     IngressReturn, IngressSilent, IngressEncrypt, IngressSkip, IngressSend,
     IngressSendFails, IngressCancel, IngressEnds, IngressTo, KeepaliveTask,
     KeepaliveFails, KeepaliveCancel, KeepaliveEnds, controlVars
<1>2. \A x \in Sessions : egress'[x] \notin {"none", "done"} => egress[x] \notin {"none", "done"}
  BY DEF EgressTask, EgressRecv, EgressFails, EgressDrop, EgressEmit, EgressReturn,
     EgressCancel, EgressTo, IngressTask, IngressRecv, IngressIntercept, IngressAnswer,
     IngressReturn, IngressSilent, IngressEncrypt, IngressSkip, IngressSend,
     IngressSendFails, IngressCancel, IngressEnds, IngressTo, KeepaliveTask,
     KeepaliveFails, KeepaliveCancel, KeepaliveEnds
<1>3. \A x \in Sessions :
         ingress'[x] \notin {"none", "done"} => ingress[x] \notin {"none", "done"}
  BY DEF EgressTask, EgressRecv, EgressFails, EgressDrop, EgressEmit, EgressReturn,
     EgressCancel, EgressTo, IngressTask, IngressRecv, IngressIntercept, IngressAnswer,
     IngressReturn, IngressSilent, IngressEncrypt, IngressSkip, IngressSend,
     IngressSendFails, IngressCancel, IngressEnds, IngressTo, KeepaliveTask,
     KeepaliveFails, KeepaliveCancel, KeepaliveEnds
<1>4. \A x \in Sessions :
         keepalive'[x] \notin {"none", "done"} => keepalive[x] \notin {"none", "done"}
  BY DEF EgressTask, EgressRecv, EgressFails, EgressDrop, EgressEmit, EgressReturn,
     EgressCancel, EgressTo, IngressTask, IngressRecv, IngressIntercept, IngressAnswer,
     IngressReturn, IngressSilent, IngressEncrypt, IngressSkip, IngressSend,
     IngressSendFails, IngressCancel, IngressEnds, IngressTo, KeepaliveTask,
     KeepaliveFails, KeepaliveCancel, KeepaliveEnds
<1>5. \A x \in Sessions : \A t \in Tasks : Running(x, t)' => Running(x, t)
  BY <1>2, <1>3, <1>4 DEF Running, Tasks
<1> QED
  BY <1>1, <1>5, OrphanKept DEF Attended

LEMMA OrphanStep ==
    TypeInv /\ JoinInv /\ OrphanInv /\ JoinedStops /\ [Next]_vars => OrphanInv'
<1> SUFFICES ASSUME TypeInv, JoinInv, OrphanInv, JoinedStops, [Next]_vars PROVE OrphanInv'
  OBVIOUS
<1>1. CASE \E g \in Engines : ReadCompletes(g) \/ Ingest(g)
  BY <1>1, OrphanKept DEF ReadCompletes, Ingest, IngestClone, IngestRejected, IngestAccepted,
     taskVars, Running, Attended
<1>2. CASE UNCHANGED vars
  BY <1>2, OrphanKept DEF vars, taskVars, Running, Attended
<1> QED
  BY <1>1, <1>2, OrphanHost, OrphanTasks DEF Next

\* Under the same assumptions no start, restart or stop loses a task that it has not
\* aborted, keepalive and ingress included, which nothing joins.
THEOREM NoTaskLost ==
    ASSUME JoinedStops
    PROVE  Spec => []NoOrphanTask
<1>1. OrphanInv => NoOrphanTask
  BY DEF OrphanInv
<1> QED
  BY <1>1, TypeInit, TypeStep, JoinInit, JoinStep, OrphanInit, OrphanStep, JoinedStops, PTL
     DEF Spec

-----------------------------------------------------------------------------
(* Without chinadns the egress task is the only caller, and the contract is kept. *)

PlainStops == JoinedStops /\ Interceptors = {FALSE}

LEMMA PlainInit == Init => PlainIngress
  BY DEF Init, PlainIngress

LEMMA PlainStep == TypeInv /\ PlainIngress /\ PlainStops /\ [Next]_vars => PlainIngress'
<1> SUFFICES ASSUME TypeInv, PlainIngress, PlainStops, [Next]_vars PROVE PlainIngress'
  OBVIOUS
<1> USE DEF PlainIngress, TypeInv, TypeOK, TaskTypes, BirthTypes
<1>1. CASE TunSpawn
  BY <1>1 DEF TunSpawn, PlainStops
<1>2. CASE Host /\ ~TunSpawn
  BY <1>2 DEF Host, StartCore, StopBlocking, EngineStart, EngineRestart, EngineStop,
     ReleaseWriter, RestartRuntime, TunStartFails, PublishSession, RaiseRunning,
     LowerRunning, TakeSession, AbortTasks, JoinEgress, StopAsync, birthVars, taskVars
<1>3. CASE \E g \in Engines : ReadCompletes(g) \/ Ingest(g)
  BY <1>3 DEF ReadCompletes, Ingest, IngestClone, IngestRejected, IngestAccepted,
     birthVars, taskVars
<1>4. ASSUME NEW s \in Sessions, EgressTask(s) PROVE PlainIngress'
  BY <1>4 DEF EgressTask, EgressRecv, EgressFails, EgressDrop, EgressEmit, EgressReturn,
     EgressCancel, EgressTo, controlVars, birthVars
<1>5. ASSUME NEW s \in Sessions, IngressTask(s) PROVE PlainIngress'
  BY <1>5 DEF IngressTask, IngressRecv, IngressIntercept, IngressAnswer, IngressReturn,
     IngressSilent, IngressEncrypt, IngressSkip, IngressSend, IngressSendFails,
     IngressCancel, IngressEnds, IngressTo, controlVars, birthVars
<1>6. ASSUME NEW s \in Sessions, KeepaliveTask(s) PROVE PlainIngress'
  BY <1>6 DEF KeepaliveTask, KeepaliveFails, KeepaliveCancel, KeepaliveEnds,
     controlVars, birthVars
<1>7. CASE UNCHANGED vars
  BY <1>7 DEF vars, birthVars, taskVars
<1> QED
  BY <1>1, <1>2, <1>3, <1>4, <1>5, <1>6, <1>7 DEF Next

\* In plain mode no task at all calls back into a released writer.
THEOREM PlainSafe ==
    ASSUME PlainStops
    PROVE  Spec => []NoUseAfterRelease
<1>1. JoinInv /\ PlainIngress => NoUseAfterRelease
  BY DEF JoinInv, EgressAttended, OwnerRetained, PlainIngress, NoUseAfterRelease,
     EgressCalls, IngressCalls
<1> QED
  BY <1>1, TypeInit, TypeStep, JoinInit, JoinStep, PlainInit, PlainStep, PTL
     DEF Spec, PlainStops

PlainCalls == {<<<<s, "egress">>, owner[s]>> : s \in {x \in Sessions : EgressCalls(x)}}

LEMMA CallsArePlain == /\ PlainIngress => Calls = PlainCalls
                       /\ PlainIngress' => Calls' = PlainCalls'
  BY DEF PlainIngress, Calls, PlainCalls, IngressCalls

LEMMA ContractInit == Init => Contract!Init
  BY DEF Init, Contract!Init, Calls, EgressCalls, IngressCalls

LEMMA ContractHost ==
    ASSUME TypeInv, JoinInv, PlainIngress, PlainIngress', JoinedStops, Host
    PROVE  [Contract!Next]_(Contract!cvars)
<1> USE DEF Contract!cvars
<1>1. UNCHANGED PlainCalls
  <2>1. CASE TunSpawn
    <3>1. \A s \in Sessions : /\ EgressCalls(s)' <=> EgressCalls(s)
                              /\ EgressCalls(s) => owner'[s] = owner[s]
      BY <2>1 DEF TunSpawn, JoinInv, UnbornQuiet, EgressCalls, TypeInv, TypeOK, TaskTypes,
         BirthTypes, Sessions
    <3> QED
      BY <3>1 DEF PlainCalls
  <2>2. CASE UNCHANGED <<owner, egress>>
    BY <2>2 DEF PlainCalls, EgressCalls
  <2> QED
    BY <2>1, <2>2 DEF Host, StartCore, StopBlocking, EngineStart, EngineRestart, EngineStop,
       ReleaseWriter, RestartRuntime, TunStartFails, PublishSession, RaiseRunning,
       LowerRunning, TakeSession, AbortTasks, JoinEgress, StopAsync, birthVars, taskVars
<1>2. UNCHANGED Calls
  BY <1>1, CallsArePlain
<1>3. CASE EngineStart
  <2>1. engine + 1 \in Engines /\ engine + 1 \notin retained
    BY <1>3, DataPlaneAssumption DEF EngineStart, JoinInv, Retained, TypeInv, TypeOK,
       HostTypes, Engines, DataPlaneAssumption
  <2>2. Contract!Lend(engine + 1)
    BY <1>2, <1>3, <2>1 DEF EngineStart, Contract!Lend
  <2> QED
    BY <2>1, <2>2 DEF Contract!Next
<1>4. CASE ReleaseWriter \/ TunStartFails
  <2>1. \A s \in Sessions : ~EgressCalls(s)
    BY <1>4, ZeroIsNoSession DEF ReleaseWriter, TunStartFails, JoinInv, EgressAttended,
       HostPlace, Attended, EgressCalls
  <2>2. Calls = {}
    BY <2>1, CallsArePlain DEF PlainCalls
  <2>3. engine \in Engines /\ engine \in retained
    BY <1>4 DEF ReleaseWriter, TunStartFails, JoinInv, Retained, TypeInv, TypeOK, HostTypes
  <2>4. Contract!TakeBack(engine)
    BY <1>2, <1>4, <2>2, <2>3 DEF ReleaseWriter, TunStartFails, Contract!TakeBack
  <2> QED
    BY <2>3, <2>4 DEF Contract!Next
<1>5. CASE UNCHANGED retained
  BY <1>2, <1>5
<1> QED
  BY <1>3, <1>4, <1>5 DEF Host, StartCore, StopBlocking, EngineRestart, EngineStop,
     RestartRuntime, TunSpawn, PublishSession, RaiseRunning, LowerRunning, TakeSession,
     AbortTasks, JoinEgress, StopAsync, hostVars

LEMMA ContractEgress ==
    ASSUME TypeInv, JoinInv, PlainIngress, PlainIngress',
           NEW s \in Sessions, EgressTask(s)
    PROVE  [Contract!Next]_(Contract!cvars)
<1> DEFINE call == <<<<s, "egress">>, owner[s]>>
<1>1. UNCHANGED <<owner, retained>>
  BY DEF EgressTask, EgressRecv, EgressFails, EgressDrop, EgressEmit, EgressReturn,
     EgressCancel, EgressTo, controlVars, birthVars, hostVars
<1>2. <<s, "egress">> \in Callers
  BY DEF Callers
<1>3. CASE EgressEmit(s)
  <2>1. owner[s] \in Engines /\ owner[s] \in retained
    BY <1>3 DEF EgressEmit, JoinInv, EgressAttended, OwnerRetained, TypeInv, TypeOK,
       HostTypes
  <2>2. call \notin PlainCalls
    BY <1>3 DEF EgressEmit, PlainCalls, EgressCalls
  <2>3. PlainCalls' = PlainCalls \cup {call}
    BY <1>1, <1>3 DEF EgressEmit, EgressTo, PlainCalls, EgressCalls, TypeInv, TypeOK,
       TaskTypes
  <2>4. Contract!Call(<<s, "egress">>, owner[s])
    BY <1>1, <2>1, <2>2, <2>3, CallsArePlain DEF Contract!Call
  <2> QED
    BY <1>2, <2>1, <2>4 DEF Contract!Next
<1>4. CASE EgressReturn(s)
  <2>1. owner[s] \in Engines
    BY <1>4 DEF EgressReturn, JoinInv, EgressAttended, OwnerRetained, TypeInv, TypeOK,
       HostTypes
  <2>2. call \in PlainCalls
    BY <1>4 DEF EgressReturn, PlainCalls, EgressCalls
  <2>3. PlainCalls' = PlainCalls \ {call}
    BY <1>1, <1>4 DEF EgressReturn, EgressTo, PlainCalls, EgressCalls, TypeInv, TypeOK,
       TaskTypes
  <2>4. Contract!Return(<<s, "egress">>, owner[s])
    BY <1>1, <2>2, <2>3, CallsArePlain DEF Contract!Return
  <2> QED
    BY <1>2, <2>1, <2>4 DEF Contract!Next
<1>5. CASE EgressRecv(s) \/ EgressFails(s) \/ EgressDrop(s) \/ EgressCancel(s)
  <2>1. \A x \in Sessions : EgressCalls(x)' <=> EgressCalls(x)
    BY <1>5 DEF EgressRecv, EgressFails, EgressDrop, EgressCancel, EgressTo, EgressCalls,
       TypeInv, TypeOK, TaskTypes
  <2>2. PlainCalls' = PlainCalls
    BY <1>1, <2>1 DEF PlainCalls
  <2> QED
    BY <1>1, <2>2, CallsArePlain DEF Contract!cvars
<1> QED
  BY <1>3, <1>4, <1>5 DEF EgressTask

LEMMA ContractStep ==
    TypeInv /\ JoinInv /\ PlainIngress /\ PlainIngress' /\ JoinedStops /\ [Next]_vars
        => [Contract!Next]_(Contract!cvars)
<1> SUFFICES ASSUME TypeInv, JoinInv, PlainIngress, PlainIngress', JoinedStops, [Next]_vars
             PROVE  [Contract!Next]_(Contract!cvars)
  OBVIOUS
<1>1. CASE UNCHANGED <<owner, egress, retained>>
  BY <1>1, CallsArePlain DEF PlainCalls, EgressCalls, Contract!cvars
<1>2. CASE \E g \in Engines : ReadCompletes(g) \/ Ingest(g)
  BY <1>1, <1>2 DEF ReadCompletes, Ingest, IngestClone, IngestRejected, IngestAccepted,
     birthVars, taskVars, hostVars
<1>3. CASE \E s \in Sessions : IngressTask(s) \/ KeepaliveTask(s)
  BY <1>1, <1>3 DEF IngressTask, IngressRecv, IngressIntercept, IngressAnswer,
     IngressReturn, IngressSilent, IngressEncrypt, IngressSkip, IngressSend,
     IngressSendFails, IngressCancel, IngressEnds, IngressTo, KeepaliveTask,
     KeepaliveFails, KeepaliveCancel, KeepaliveEnds, controlVars, birthVars, hostVars
<1>4. CASE UNCHANGED vars
  BY <1>1, <1>4 DEF vars, birthVars, taskVars, hostVars
<1> QED
  BY <1>2, <1>3, <1>4, ContractHost, ContractEgress DEF Next

\* In plain mode the engine and SVTunnelEngine implement the contract of the C callback.
THEOREM Refinement ==
    ASSUME PlainStops
    PROVE  Spec => ImplementsWriterContract
<1> QED
  BY TypeInit, TypeStep, JoinInit, JoinStep, PlainInit, PlainStep, ContractInit,
     ContractStep, PTL DEF Spec, PlainStops, ImplementsWriterContract, Contract!Spec

-----------------------------------------------------------------------------
(***************************************************************************)
(* Why packets keep their order.  Packets are numbered as the flow hands   *)
(* them over, so that of two packets of one read chain the lesser one is   *)
(* the older one.  What has been sent is older than what the ingress task  *)
(* holds, which is older than what is queued, front to back, which is      *)
(* older than what the read chain is about to ingest: packets are only     *)
(* moved along this line, or taken out of it.                              *)
(***************************************************************************)
Read           == 1..Len(reads)
Older(r, p, q) == r[p] = r[q] => p < q
InBatch(g)     == reader[g] \in {"batch", "try_send"}

PacketsRead ==
    /\ \A s \in Sessions : \A i \in 1..Len(queue[s]) : queue[s][i] \in Read
    /\ \A s \in Sessions : hand[s] # 0 => hand[s] \in Read
    /\ \A i \in 1..Len(sent) : sent[i][2] \in Read
    /\ \A g \in Engines : InBatch(g) => batch[g] \in Read /\ reads[batch[g]] = g

QueueInOrder ==
    \A s \in Sessions : \A i, j \in 1..Len(queue[s]) :
        i < j => Older(reads, queue[s][i], queue[s][j])

HandFirst ==
    \A s \in Sessions : hand[s] # 0 =>
        \A j \in 1..Len(queue[s]) : Older(reads, hand[s], queue[s][j])

SentBefore ==
    \A i \in 1..Len(sent) :
        /\ hand[sent[i][1]] # 0 => Older(reads, sent[i][2], hand[sent[i][1]])
        /\ \A j \in 1..Len(queue[sent[i][1]]) : Older(reads, sent[i][2], queue[sent[i][1]][j])

BatchLast ==
    \A g \in Engines : InBatch(g) =>
        /\ \A s \in Sessions : \A i \in 1..Len(queue[s]) : Older(reads, queue[s][i], batch[g])
        /\ \A s \in Sessions : hand[s] # 0 => Older(reads, hand[s], batch[g])
        /\ \A i \in 1..Len(sent) : Older(reads, sent[i][2], batch[g])

SentInOrder ==
    \A i, j \in 1..Len(sent) :
        i < j /\ sent[i][1] = sent[j][1] => Older(reads, sent[i][2], sent[j][2])

OrderInv == /\ PacketsRead /\ QueueInOrder /\ HandFirst
            /\ SentBefore /\ BatchLast /\ SentInOrder

LEMMA OrderInit == Init => OrderInv
  BY DEF Init, OrderInv, PacketsRead, QueueInOrder, HandFirst, SentBefore, BatchLast,
         SentInOrder, InBatch

(* Taking packets out, the one in hand or the one about to be ingested. *)
LEMMA OrderKept ==
  ASSUME TypeInv, OrderInv, UNCHANGED <<queue, sent, reads>>,
         \A s \in Sessions : hand'[s] \in {hand[s], 0},
         \A g \in Engines : InBatch(g)' => InBatch(g) /\ batch'[g] = batch[g]
  PROVE  OrderInv'
<1>1. \A i \in 1..Len(sent) : sent[i][1] \in Sessions
  BY DEF TypeInv, TypeOK, TaskTypes
<1>2. PacketsRead'
  BY DEF OrderInv, PacketsRead, Read
<1>3. QueueInOrder'
  BY DEF OrderInv, QueueInOrder
<1>4. HandFirst'
  BY DEF OrderInv, HandFirst
<1>5. SentBefore'
  BY <1>1 DEF OrderInv, SentBefore
<1>6. BatchLast'
  BY DEF OrderInv, BatchLast
<1>7. SentInOrder'
  BY DEF OrderInv, SentInOrder
<1> QED
  BY <1>2, <1>3, <1>4, <1>5, <1>6, <1>7 DEF OrderInv

LEMMA OrderHost == TypeInv /\ OrderInv /\ Host => OrderInv'
<1> SUFFICES ASSUME TypeInv, OrderInv, Host PROVE OrderInv'
  OBVIOUS
<1>1. UNCHANGED <<queue, sent, reads, hand, batch>>
  BY DEF Host, StartCore, StopBlocking, EngineStart, EngineRestart, EngineStop,
         ReleaseWriter, RestartRuntime, TunStartFails, TunSpawn, PublishSession,
         RaiseRunning, LowerRunning, TakeSession, AbortTasks, JoinEgress, StopAsync,
         taskVars, readVars
<1>2. reader' = reader \/ reader' = [reader EXCEPT ![engine] = "armed"]
  BY DEF Host, StartCore, StopBlocking, EngineStart, EngineRestart, EngineStop,
         ReleaseWriter, RestartRuntime, TunStartFails, TunSpawn, PublishSession,
         RaiseRunning, LowerRunning, TakeSession, AbortTasks, JoinEgress, StopAsync,
         taskVars, readVars
<1>3. \A g \in Engines : InBatch(g)' => InBatch(g)
  BY <1>2 DEF InBatch, TypeInv, TypeOK, ReadTypes
<1> QED
  BY <1>1, <1>3, OrderKept

\* A completion brings a packet that is newer than all the others.
LEMMA OrderRead ==
  ASSUME TypeInv, OrderInv, NEW g \in Engines, ReadCompletes(g)
  PROVE  OrderInv'
<1>1. CASE UNCHANGED <<reads, batch>>
  <2>1. reader' \in {[reader EXCEPT ![g] = "off"], reader}
    BY <1>1 DEF ReadCompletes, TypeInv, TypeOK, ReadTypes
  <2>2. \A h \in Engines : InBatch(h)' => InBatch(h)
    BY <2>1 DEF InBatch, TypeInv, TypeOK, ReadTypes
  <2> QED
    BY <1>1, <2>2, OrderKept DEF ReadCompletes, taskVars
<1>2. CASE ~UNCHANGED <<reads, batch>>
  <2> DEFINE n == Len(reads)
  <2>1. /\ reads' = Append(reads, g) /\ batch' = [batch EXCEPT ![g] = Len(reads')]
        /\ reader' = [reader EXCEPT ![g] = "batch"]
        /\ UNCHANGED <<queue, hand, sent>>
    BY <1>2 DEF ReadCompletes, taskVars
  <2>2. /\ n \in Nat /\ Len(reads') = n + 1 /\ reads'[n + 1] = g
        /\ \A p \in 1..n : reads'[p] = reads[p]
    BY <2>1 DEF TypeInv, TypeOK, ReadTypes
  <2>3. /\ batch'[g] = n + 1 /\ \A h \in Engines \ {g} : batch'[h] = batch[h]
        /\ \A h \in Engines \ {g} : InBatch(h)' => InBatch(h)
    BY <2>1, <2>2 DEF InBatch, TypeInv, TypeOK, ReadTypes
  <2>4. \A i \in 1..Len(sent) : sent[i][1] \in Sessions
    BY DEF TypeInv, TypeOK, TaskTypes
  <2>5. /\ Read = 1..n /\ Read' = 1..n + 1
        /\ \A a, b \in 1..n : Older(reads', a, b) <=> Older(reads, a, b)
        /\ \A a \in 1..n : Older(reads', a, n + 1)
    BY <2>2 DEF Read, Older
  <2> HIDE DEF n
  <2>6. PacketsRead'
    BY <2>1, <2>2, <2>3, <2>5 DEF OrderInv, PacketsRead
  <2>7. QueueInOrder'
    BY <2>1, <2>2, <2>5 DEF OrderInv, PacketsRead, QueueInOrder
  <2>8. HandFirst'
    BY <2>1, <2>2, <2>5 DEF OrderInv, PacketsRead, HandFirst
  <2>9. SentBefore'
    BY <2>1, <2>2, <2>4, <2>5 DEF OrderInv, PacketsRead, SentBefore
  <2>10. BatchLast'
    <3> SUFFICES ASSUME NEW h \in Engines, InBatch(h)'
                 PROVE  /\ \A t \in Sessions : \A i \in 1..Len(queue[t]) :
                              Older(reads', queue[t][i], batch'[h])
                        /\ \A t \in Sessions : hand[t] # 0 => Older(reads', hand[t], batch'[h])
                        /\ \A i \in 1..Len(sent) : Older(reads', sent[i][2], batch'[h])
      BY <2>1 DEF BatchLast
    <3>1. CASE h = g
      BY <2>3, <2>5, <3>1 DEF OrderInv, PacketsRead
    <3>2. CASE h # g
      <4>1. InBatch(h) /\ batch'[h] = batch[h] /\ batch[h] \in 1..n
        BY <2>3, <2>5, <3>2 DEF OrderInv, PacketsRead
      <4> QED
        BY <2>5, <4>1 DEF OrderInv, PacketsRead, BatchLast
    <3> QED
      BY <3>1, <3>2
  <2>11. SentInOrder'
    BY <2>1, <2>2, <2>5 DEF OrderInv, PacketsRead, SentInOrder
  <2> QED
    BY <2>6, <2>7, <2>8, <2>9, <2>10, <2>11 DEF OrderInv
<1> QED
  BY <1>1, <1>2

\* What is ingested goes to the end of the queue, if it is not dropped.
LEMMA OrderAccepted ==
  ASSUME TypeInv, OrderInv, NEW g \in Engines, IngestAccepted(g)
  PROVE  OrderInv'
<1> DEFINE s == sender[g]
           q == queue[s]
           p == batch[g]
<1>1. /\ UNCHANGED <<sent, hand, reads>> /\ InBatch(g)
      /\ batch' = [batch EXCEPT ![g] = 0]
      /\ queue' \in {queue, [queue EXCEPT ![s] = Append(q, p)]}
  BY DEF IngestAccepted, InBatch
<1>2. /\ s \in Sessions /\ p \in Packets
      /\ queue \in [Sessions -> Seq(Packets)] /\ q \in Seq(Packets)
  BY DataPlaneAssumption
  DEF IngestAccepted, TypeInv, TypeOK, ReadTypes, QueueTypes, BatchFull, Sessions, Packets,
      DataPlaneAssumption
<1>3. \A h \in Engines : InBatch(h)' => InBatch(h) /\ h # g /\ batch'[h] = batch[h]
  BY DEF IngestAccepted, Rearm, InBatch, TypeInv, TypeOK, ReadTypes
<1>4. CASE queue' = queue
  BY <1>1, <1>3, <1>4, OrderKept
<1>5. CASE queue' = [queue EXCEPT ![s] = Append(q, p)]
  <2>1. /\ queue'[s] = Append(q, p) /\ \A t \in Sessions \ {s} : queue'[t] = queue[t]
    BY <1>2, <1>5
  <2>2. /\ Len(q) \in Nat /\ Len(queue'[s]) = Len(q) + 1
        /\ queue'[s][Len(q) + 1] = p
        /\ \A i \in 1..Len(q) : queue'[s][i] = queue[s][i]
    BY <1>2, <2>1
  <2>3. /\ \A i \in 1..Len(queue[s]) : Older(reads, queue[s][i], p)
        /\ \A t \in Sessions : hand[t] # 0 => Older(reads, hand[t], p)
        /\ \A i \in 1..Len(sent) : Older(reads, sent[i][2], p)
        /\ p \in Read /\ reads[p] = g
    BY <1>1, <1>2 DEF OrderInv, PacketsRead, BatchLast
  <2>4. \A i \in 1..Len(sent) : sent[i][1] \in Sessions
    BY DEF TypeInv, TypeOK, TaskTypes
  <2>6. Read' = Read
    BY <1>1 DEF Read
  <2> HIDE DEF s, q, p
  <2>7. PacketsRead'
    <3>1. ASSUME NEW t \in Sessions, NEW i \in 1..Len(queue'[t]) PROVE queue'[t][i] \in Read
      <4>1. CASE t # s
        BY <2>1, <4>1 DEF OrderInv, PacketsRead
      <4>2. CASE t = s /\ i \in 1..Len(q)
        BY <2>2, <4>2 DEF OrderInv, PacketsRead, q
      <4>3. CASE t = s /\ i = Len(q) + 1
        BY <2>2, <2>3, <4>3
      <4> QED
        BY <2>2, <3>1, <4>1, <4>2, <4>3
    <3> QED
      BY <1>1, <1>3, <2>6, <3>1 DEF OrderInv, PacketsRead
  <2>8. QueueInOrder'
    <3> SUFFICES ASSUME NEW t \in Sessions, NEW i \in 1..Len(queue'[t]),
                        NEW j \in 1..Len(queue'[t]), i < j
                 PROVE  Older(reads, queue'[t][i], queue'[t][j])
      BY <1>1 DEF QueueInOrder
    <3>1. CASE t # s
      BY <2>1, <3>1 DEF OrderInv, QueueInOrder
    <3>2. CASE t = s /\ j \in 1..Len(q)
      <4>1. i \in 1..Len(q)
        BY <2>2, <3>2
      <4> QED
        BY <2>2, <3>2, <4>1 DEF OrderInv, QueueInOrder, q
    <3>3. CASE t = s /\ j = Len(q) + 1
      <4>1. i \in 1..Len(q)
        BY <2>2, <3>3
      <4> QED
        BY <2>2, <2>3, <3>3, <4>1 DEF Older, q
    <3> QED
      BY <2>2, <3>1, <3>2, <3>3
  <2>9. HandFirst'
    <3> SUFFICES ASSUME NEW t \in Sessions, hand[t] # 0, NEW j \in 1..Len(queue'[t])
                 PROVE  Older(reads, hand[t], queue'[t][j])
      BY <1>1 DEF HandFirst
    <3>1. CASE t # s
      BY <2>1, <3>1 DEF OrderInv, HandFirst
    <3>2. CASE t = s /\ j \in 1..Len(q)
      BY <2>2, <3>2 DEF OrderInv, HandFirst, q
    <3>3. CASE t = s /\ j = Len(q) + 1
      BY <2>2, <2>3, <3>3 DEF Older
    <3> QED
      BY <2>2, <3>1, <3>2, <3>3
  <2>10. SentBefore'
    <3>1. \A i \in 1..Len(sent) :
             hand'[sent'[i][1]] # 0 => Older(reads, sent'[i][2], hand'[sent'[i][1]])
      BY <1>1 DEF OrderInv, SentBefore
    <3> SUFFICES ASSUME NEW i \in 1..Len(sent), NEW j \in 1..Len(queue'[sent[i][1]])
                 PROVE  Older(reads, sent[i][2], queue'[sent[i][1]][j])
      BY <1>1, <3>1 DEF SentBefore
    <3>2. CASE sent[i][1] # s
      BY <2>1, <2>4, <3>2 DEF OrderInv, SentBefore
    <3>3. CASE sent[i][1] = s /\ j \in 1..Len(q)
      BY <2>2, <3>3 DEF OrderInv, SentBefore, q
    <3>4. CASE sent[i][1] = s /\ j = Len(q) + 1
      BY <2>2, <2>3, <3>4 DEF Older
    <3> QED
      BY <2>2, <3>2, <3>3, <3>4
  <2>11. BatchLast'
    <3> SUFFICES ASSUME NEW h \in Engines, InBatch(h)'
                 PROVE  /\ \A t \in Sessions : \A i \in 1..Len(queue'[t]) :
                              Older(reads, queue'[t][i], batch[h])
                        /\ \A t \in Sessions : hand[t] # 0 => Older(reads, hand[t], batch[h])
                        /\ \A i \in 1..Len(sent) : Older(reads, sent[i][2], batch[h])
      BY <1>1, <1>3 DEF BatchLast
    <3>1. InBatch(h) /\ h # g
      BY <1>3
    <3>2. ASSUME NEW t \in Sessions, NEW i \in 1..Len(queue'[t])
          PROVE  Older(reads, queue'[t][i], batch[h])
      <4>1. CASE t # s
        BY <2>1, <3>1, <4>1 DEF OrderInv, BatchLast
      <4>2. CASE t = s /\ i \in 1..Len(q)
        BY <2>2, <3>1, <4>2 DEF OrderInv, BatchLast, q
      <4>3. CASE t = s /\ i = Len(q) + 1
        \* the packet of another chain
        BY <2>2, <2>3, <3>1, <4>3 DEF OrderInv, PacketsRead, Older
      <4> QED
        BY <2>2, <3>2, <4>1, <4>2, <4>3
    <3> QED
      BY <3>1, <3>2 DEF OrderInv, BatchLast
  <2>12. SentInOrder'
    BY <1>1 DEF OrderInv, SentInOrder
  <2> QED
    BY <2>7, <2>8, <2>9, <2>10, <2>11, <2>12 DEF OrderInv
<1> QED
  BY <1>1, <1>4, <1>5

\* The front of the queue comes into the task's hands.
LEMMA OrderRecv ==
  ASSUME TypeInv, OrderInv, NEW s \in Sessions, IngressRecv(s)
  PROVE  OrderInv'
<1> DEFINE q == queue[s]
<1>1. /\ UNCHANGED <<sent, reads, batch, reader>> /\ q # <<>>
      /\ hand' = [hand EXCEPT ![s] = Head(q)] /\ queue' = [queue EXCEPT ![s] = Tail(q)]
  BY DEF IngressRecv, IngressTo, controlVars, readVars
<1>2. q \in Seq(Packets) /\ queue \in [Sessions -> Seq(Packets)] /\ hand \in [Sessions -> 0..MaxPackets]
  BY DEF TypeInv, TypeOK, QueueTypes, TaskTypes
<1>3. /\ hand'[s] = q[1] /\ queue'[s] = Tail(q)
      /\ \A t \in Sessions \ {s} : hand'[t] = hand[t] /\ queue'[t] = queue[t]
  BY <1>1, <1>2
<1>4. /\ Len(q) \in Nat \ {0} /\ Len(queue'[s]) = Len(q) - 1
      /\ \A i \in 1..Len(q) - 1 : queue'[s][i] = queue[s][i + 1]
      /\ \A i \in 1..Len(q) - 1 : i + 1 \in 1..Len(q) /\ 1 < i + 1
      /\ 1 \in 1..Len(q)
  BY <1>1, <1>2, <1>3
<1>5. \A i \in 1..Len(sent) : sent[i][1] \in Sessions
  BY DEF TypeInv, TypeOK, TaskTypes
<1>6. Read' = Read /\ \A g \in Engines : InBatch(g)' <=> InBatch(g)
  BY <1>1 DEF Read, InBatch
<1> HIDE DEF q
<1>7. PacketsRead'
  BY <1>1, <1>3, <1>4, <1>6 DEF OrderInv, PacketsRead, q
<1>8. QueueInOrder'
  <2> SUFFICES ASSUME NEW t \in Sessions, NEW i \in 1..Len(queue'[t]),
                      NEW j \in 1..Len(queue'[t]), i < j
               PROVE  Older(reads, queue'[t][i], queue'[t][j])
    BY <1>1 DEF QueueInOrder
  <2>1. CASE t # s
    BY <1>3, <2>1 DEF OrderInv, QueueInOrder
  <2>2. CASE t = s
    <3>1. /\ i + 1 \in 1..Len(q) /\ j + 1 \in 1..Len(q) /\ i + 1 < j + 1
          /\ queue'[s][i] = queue[s][i + 1] /\ queue'[s][j] = queue[s][j + 1]
      BY <1>4, <2>2
    <3> QED
      BY <2>2, <3>1 DEF OrderInv, QueueInOrder, q
  <2> QED
    BY <2>1, <2>2
<1>9. HandFirst'
  <2> SUFFICES ASSUME NEW t \in Sessions, hand'[t] # 0, NEW j \in 1..Len(queue'[t])
               PROVE  Older(reads, hand'[t], queue'[t][j])
    BY <1>1 DEF HandFirst
  <2>1. CASE t # s
    BY <1>3, <2>1 DEF OrderInv, HandFirst
  <2>2. CASE t = s
    <3>1. j + 1 \in 1..Len(q) /\ 1 < j + 1 /\ queue'[s][j] = queue[s][j + 1]
      BY <1>4, <2>2
    <3> QED
      BY <1>3, <1>4, <2>2, <3>1 DEF OrderInv, QueueInOrder, q
  <2> QED
    BY <2>1, <2>2
<1>10. SentBefore'
  <2> SUFFICES ASSUME NEW i \in 1..Len(sent)
               PROVE  LET t == sent[i][1]
                      IN  /\ hand'[t] # 0 => Older(reads, sent[i][2], hand'[t])
                          /\ \A j \in 1..Len(queue'[t]) : Older(reads, sent[i][2], queue'[t][j])
    BY <1>1 DEF SentBefore
  <2>1. CASE sent[i][1] # s
    BY <1>3, <1>5, <2>1 DEF OrderInv, SentBefore
  <2>2. CASE sent[i][1] = s
    <3>1. \A j \in 1..Len(q) : Older(reads, sent[i][2], queue[s][j])
      BY <2>2 DEF OrderInv, SentBefore, q
    <3>2. Older(reads, sent[i][2], hand'[s])
      BY <1>3, <1>4, <3>1 DEF q
    <3>3. \A j \in 1..Len(queue'[s]) : Older(reads, sent[i][2], queue'[s][j])
      BY <1>4, <3>1
    <3> QED
      BY <2>2, <3>2, <3>3
  <2> QED
    BY <2>1, <2>2
<1>11. BatchLast'
  <2> SUFFICES ASSUME NEW g \in Engines, InBatch(g)
               PROVE  /\ \A t \in Sessions : \A i \in 1..Len(queue'[t]) :
                            Older(reads, queue'[t][i], batch[g])
                      /\ \A t \in Sessions : hand'[t] # 0 => Older(reads, hand'[t], batch[g])
                      /\ \A i \in 1..Len(sent) : Older(reads, sent[i][2], batch[g])
    BY <1>1, <1>6 DEF BatchLast
  <2>1. \A i \in 1..Len(q) : Older(reads, queue[s][i], batch[g])
    BY DEF OrderInv, BatchLast, q
  <2>2. \A i \in 1..Len(queue'[s]) : Older(reads, queue'[s][i], batch[g])
    BY <1>4, <2>1
  <2>3. Older(reads, hand'[s], batch[g])
    BY <1>3, <1>4, <2>1 DEF q
  <2> QED
    BY <1>3, <2>2, <2>3 DEF OrderInv, BatchLast
<1>12. SentInOrder'
  BY <1>1 DEF OrderInv, SentInOrder
<1> QED
  BY <1>7, <1>8, <1>9, <1>10, <1>11, <1>12 DEF OrderInv

\* What was in hand is the newest packet of its session on the wire.
LEMMA OrderSend ==
  ASSUME TypeInv, OrderInv, NEW s \in Sessions, IngressSend(s)
  PROVE  OrderInv'
<1> DEFINE p == hand[s]
           n == Len(sent)
<1>1. /\ UNCHANGED <<queue, reads, batch, reader>>
      /\ sent' = Append(sent, <<s, p>>) /\ hand' = [hand EXCEPT ![s] = 0]
  BY DEF IngressSend, IngressTo, controlVars, readVars
<1>2. p # 0 /\ p \in Read
  BY DEF IngressSend, TypeInv, HandFull, OrderInv, PacketsRead
<1>3. /\ n \in Nat /\ Len(sent') = n + 1 /\ sent'[n + 1] = <<s, p>>
      /\ \A i \in 1..n : sent'[i] = sent[i]
  BY <1>1 DEF TypeInv, TypeOK, TaskTypes
<1>4. /\ hand'[s] = 0 /\ \A t \in Sessions \ {s} : hand'[t] = hand[t]
      /\ \A i \in 1..n : sent[i][1] \in Sessions
  BY <1>1 DEF TypeInv, TypeOK, TaskTypes
<1>5. /\ Read' = Read /\ \A g \in Engines : InBatch(g)' <=> InBatch(g)
  BY <1>1 DEF Read, InBatch
<1>6. /\ \A j \in 1..Len(queue[s]) : Older(reads, p, queue[s][j])
      /\ \A i \in 1..n : sent[i][1] = s => Older(reads, sent[i][2], p)
      /\ \A g \in Engines : InBatch(g) => Older(reads, p, batch[g])
  BY <1>2 DEF OrderInv, HandFirst, SentBefore, BatchLast
<1> HIDE DEF p, n
<1>7. PacketsRead'
  BY <1>1, <1>2, <1>3, <1>4, <1>5 DEF OrderInv, PacketsRead, n
<1>8. QueueInOrder' /\ HandFirst'
  BY <1>1, <1>4 DEF OrderInv, QueueInOrder, HandFirst
<1>9. SentBefore'
  <2> SUFFICES ASSUME NEW i \in 1..n + 1
               PROVE  LET t == sent'[i][1]
                      IN  /\ hand'[t] # 0 => Older(reads, sent'[i][2], hand'[t])
                          /\ \A j \in 1..Len(queue[t]) : Older(reads, sent'[i][2], queue[t][j])
    BY <1>1, <1>3 DEF SentBefore
  <2>1. CASE i \in 1..n
    BY <1>3, <1>4, <2>1 DEF OrderInv, SentBefore, n
  <2>2. CASE i = n + 1
    BY <1>3, <1>4, <1>6, <2>2
  <2> QED
    BY <1>3, <2>1, <2>2
<1>10. BatchLast'
  <2> SUFFICES ASSUME NEW g \in Engines, InBatch(g)
               PROVE  /\ \A t \in Sessions : \A i \in 1..Len(queue[t]) :
                            Older(reads, queue[t][i], batch[g])
                      /\ \A t \in Sessions : hand'[t] # 0 => Older(reads, hand'[t], batch[g])
                      /\ \A i \in 1..n + 1 : Older(reads, sent'[i][2], batch[g])
    BY <1>1, <1>3, <1>5 DEF BatchLast
  <2>1. \A i \in 1..n + 1 : Older(reads, sent'[i][2], batch[g])
    <3> TAKE i \in 1..n + 1
    <3>1. CASE i \in 1..n
      BY <1>3, <3>1 DEF OrderInv, BatchLast, n
    <3>2. CASE i = n + 1
      BY <1>3, <1>6, <3>2
    <3> QED
      BY <1>3, <3>1, <3>2
  <2> QED
    BY <1>4, <2>1 DEF OrderInv, BatchLast
<1>11. SentInOrder'
  <2> SUFFICES ASSUME NEW i \in 1..n + 1, NEW j \in 1..n + 1, i < j,
                      sent'[i][1] = sent'[j][1]
               PROVE  Older(reads, sent'[i][2], sent'[j][2])
    BY <1>1, <1>3 DEF SentInOrder
  <2>1. i \in 1..n
    BY <1>3
  <2>2. CASE j \in 1..n
    BY <1>3, <2>1, <2>2 DEF OrderInv, SentInOrder, n
  <2>3. CASE j = n + 1
    BY <1>3, <1>6, <2>1, <2>3
  <2> QED
    BY <1>3, <2>2, <2>3
<1> QED
  BY <1>7, <1>8, <1>9, <1>10, <1>11 DEF OrderInv

\* A task that ends takes its queue with it.
LEMMA OrderEnds ==
  ASSUME TypeInv, OrderInv, NEW s \in Sessions, IngressEnds(s)
  PROVE  OrderInv'
<1>1. /\ UNCHANGED <<sent, reads, batch, reader>>
      /\ queue' = [queue EXCEPT ![s] = <<>>] /\ hand' = [hand EXCEPT ![s] = 0]
  BY DEF IngressEnds, IngressTo, controlVars, readVars
<1>2. /\ hand'[s] = 0 /\ queue'[s] = <<>> /\ Len(queue'[s]) = 0
      /\ \A t \in Sessions \ {s} : hand'[t] = hand[t] /\ queue'[t] = queue[t]
      /\ \A i \in 1..Len(sent) : sent[i][1] \in Sessions
  BY <1>1 DEF TypeInv, TypeOK, TaskTypes, QueueTypes
<1>3. PacketsRead'
  BY <1>1, <1>2 DEF OrderInv, PacketsRead, Read, InBatch
<1>4. QueueInOrder' /\ HandFirst'
  BY <1>1, <1>2 DEF OrderInv, QueueInOrder, HandFirst
<1>5. SentBefore'
  BY <1>1, <1>2 DEF OrderInv, SentBefore
<1>6. BatchLast'
  BY <1>1, <1>2 DEF OrderInv, BatchLast, InBatch
<1>7. SentInOrder'
  BY <1>1 DEF OrderInv, SentInOrder
<1> QED
  BY <1>3, <1>4, <1>5, <1>6, <1>7 DEF OrderInv

LEMMA OrderIngress ==
  ASSUME TypeInv, OrderInv, NEW s \in Sessions, IngressTask(s)
  PROVE  OrderInv'
<1>1. CASE IngressRecv(s)
  BY <1>1, OrderRecv
<1>2. CASE IngressSend(s)
  BY <1>2, OrderSend
<1>3. CASE IngressSendFails(s) \/ IngressCancel(s)
  BY <1>3, OrderEnds DEF IngressSendFails, IngressCancel
<1>4. CASE \/ IngressIntercept(s) \/ IngressAnswer(s) \/ IngressReturn(s)
           \/ IngressSilent(s) \/ IngressEncrypt(s) \/ IngressSkip(s)
  <2>1. /\ UNCHANGED <<queue, sent, reads, reader, batch>>
        /\ hand' \in {hand, [hand EXCEPT ![s] = 0]}
    BY <1>4 DEF IngressIntercept, IngressAnswer, IngressReturn, IngressSilent, IngressEncrypt,
       IngressSkip, IngressTo, controlVars, readVars
  <2>2. \A t \in Sessions : hand'[t] \in {hand[t], 0}
    BY <2>1 DEF TypeInv, TypeOK, TaskTypes
  <2> QED
    BY <2>1, <2>2, OrderKept DEF InBatch
<1> QED
  BY <1>1, <1>2, <1>3, <1>4 DEF IngressTask

LEMMA OrderStep == TypeInv /\ OrderInv /\ [Next]_vars => OrderInv'
<1> SUFFICES ASSUME TypeInv, OrderInv, [Next]_vars PROVE OrderInv'
  OBVIOUS
<1>1. ASSUME NEW g \in Engines, IngestClone(g) \/ IngestRejected(g) PROVE OrderInv'
  <2>1. UNCHANGED <<queue, hand, sent, reads>>
    BY <1>1 DEF IngestClone, IngestRejected, taskVars
  <2>2. \A h \in Engines : InBatch(h)' => InBatch(h) /\ batch'[h] = batch[h]
    BY <1>1 DEF IngestClone, IngestRejected, Rearm, InBatch, TypeInv, TypeOK, ReadTypes
  <2> QED
    BY <2>1, <2>2, OrderKept
<1>2. ASSUME NEW s \in Sessions, EgressTask(s) \/ KeepaliveTask(s) PROVE OrderInv'
  <2>1. UNCHANGED <<queue, hand, sent, reads, reader, batch>>
    BY <1>2 DEF EgressTask, EgressRecv, EgressFails, EgressDrop, EgressEmit, EgressReturn,
       EgressCancel, EgressTo, KeepaliveTask, KeepaliveFails, KeepaliveCancel, KeepaliveEnds,
       controlVars, readVars
  <2> QED
    BY <2>1, OrderKept DEF InBatch
<1>3. CASE UNCHANGED vars
  BY <1>3, OrderKept DEF InBatch, vars, taskVars, readVars
<1> QED
  BY <1>1, <1>2, <1>3, OrderHost, OrderRead, OrderAccepted, OrderIngress DEF Next, Ingest

(* Within a session the server receives the packets of one read chain in    *)
(* the order the flow handed them over, each at most once, for any depth of *)
(* the queue, with interceptors, expiring joins and svpn_tun_stop.          *)
THEOREM InOrderOnTheWire == Spec => []WireOrder
<1>1. Spec => []TypeInv
  BY TypeInit, TypeStep, PTL DEF Spec
<1>2. Spec => []OrderInv
  BY <1>1, OrderInit, OrderStep, PTL DEF Spec
<1>3. OrderInv => WireOrder
  BY DEF OrderInv, SentInOrder, WireOrder, Older
<1> QED
  BY <1>2, <1>3, PTL
=============================================================================
