--------------------------- MODULE ProviderProofs ---------------------------
(***************************************************************************)
(* What is proved of Provider for any number of tunnels, events and paths, *)
(* and whether or not the system may stop a tunnel early: its types, that  *)
(* no engine is lost, that none survives the stop of its tunnel, that the  *)
(* state file never says of a tunnel that is up what its engine is not,    *)
(* and that an invalidated restart never begins.                           *)
(***************************************************************************)
EXTENDS Provider, FiniteSetTheorems, TLAPS

StartBlock(t) == [kind |-> "start", n |-> t]
StopBlock == [kind |-> "stop", n |-> 0]

(***************************************************************************)
(* The order of the control queue matters to none of this, only what waits *)
(* there; but a start or a stop must not wait twice.                       *)
(***************************************************************************)
InQueue(q) == {q[i] : i \in 1..Len(q)}
OnceOnly(q) == \A i, j \in 1..Len(q) :
                  q[i] = q[j] /\ q[i].kind # "restart" => i = j
Waiting == InQueue(queue)

\* A stop is somewhere just while the system waits for it.
StopsInOrder ==
    /\ StopBlock \in Waiting \/ block = StopBlock => system = "stopping"
    /\ block = StopBlock => StopBlock \notin Waiting

\* A tunnel is started once: it waits for its settings, then in the queue, then runs.
StartsOnce ==
    /\ system # "down" => tunnel # 0
    /\ \A t \in settings : t \leq tunnel /\ block # StartBlock(t)
    /\ \A t \in Tunnels : StartBlock(t) \in Waiting =>
          t \leq tunnel /\ t \notin settings /\ block # StartBlock(t)
    /\ block.kind = "start" => block.n \leq tunnel

\* A start that is still to come is that of the tunnel that the system is starting, or
\* it was overtaken by a stop; one under way may have its stop behind it instead.
StartsAwaited ==
    /\ \A t \in Tunnels : t \in settings \/ StartBlock(t) \in Waiting =>
          t \in overtaken \/ (system = "starting" /\ tunnel = t)
    /\ \A t \in Tunnels : block = StartBlock(t) =>
          t \in overtaken \/ (system = "starting" /\ tunnel = t) \/ StopBlock \in Waiting

CallTypes ==
    /\ system \in {"down", "starting", "up", "stopping"}
    /\ tunnel \in 0..MaxTunnels
    /\ settings \subseteq Tunnels
    /\ overtaken \subseteq Tunnels
    /\ queue \in Seq(Blocks)
    /\ block \in Blocks \cup {Idle}
    /\ elapsed \subseteq Generations

CallsInv == CallTypes /\ OnceOnly(queue) /\ StopsInOrder /\ StartsOnce /\ StartsAwaited

(***************************************************************************)
(* A started engine belongs to the tunnel that is up, or a stop is on its  *)
(* way to it, or its start was overtaken.                                  *)
(***************************************************************************)
EngineTypes ==
    /\ engine \in 0..MaxTunnels
    /\ stopping \in 0..MaxTunnels
    /\ live \subseteq Tunnels
    /\ listener \in 0..MaxTunnels
    /\ cancelled \in BOOLEAN

StopOnItsWay ==
    \A e \in live : \/ e \in overtaken
                    \/ system = "up" /\ tunnel = e
                    \/ StopBlock \in Waiting
                    \/ block = StopBlock /\ stopping = e

EngineInv == /\ EngineTypes /\ NoLostEngine /\ StopOnItsWay
             /\ stopping # 0 => block = StopBlock

\* The file changes with the engine, unless a start was overtaken; the app can only
\* replace what it says by "disconnected".
FileFollows == /\ stage = "connected" => engine = tunnel
               /\ stage = "error" => engine = 0
               /\ writer = "extension" => stage \in {"connected", "error"}
FileInv == FileTypes /\ (system = "up" /\ overtaken = {} => FileFollows)

(***************************************************************************)
(* _restartGeneration grows once for each event and twice for each stop,   *)
(* a path update that has yet to be handled being owed its share.          *)
(***************************************************************************)
Owed == (IF StopBlock \in Waiting THEN 1 ELSE 0)
        + (IF system \in {"starting", "up"} THEN 2 ELSE 0)
Budget == /\ IsFiniteSet(updates)
          /\ restartGen + Cardinality(updates) + Owed \leq events + 2 * tunnel

GenerationTypes ==
    /\ restartGen \in Nat
    /\ events \in 0..MaxEvents
    /\ timers \subseteq Generations
    /\ elapsed \subseteq Generations
    /\ void \subseteq Generations
    /\ born \in [Generations -> 0..MaxTunnels]

VoidIsOlder == \A g \in void : g < restartGen

GenerationInv == GenerationTypes /\ PathTypes /\ Budget /\ VoidIsOlder

Inv == CallsInv /\ EngineInv /\ FileInv /\ GenerationInv

-----------------------------------------------------------------------------
(* The control queue. *)

LEMMA Dispatched ==
    ASSUME NEW q \in Seq(Blocks), NEW b \in Blocks, OnceOnly(q),
           b \notin InQueue(q) \/ b.kind = "restart"
    PROVE  /\ Append(q, b) \in Seq(Blocks)
           /\ InQueue(Append(q, b)) = InQueue(q) \cup {b}
           /\ OnceOnly(Append(q, b))
<1> DEFINE r == Append(q, b)
<1>1. /\ r \in Seq(Blocks) /\ Len(r) = Len(q) + 1 /\ Len(q) \in Nat
      /\ \A i \in 1..Len(q) : r[i] = q[i]
      /\ r[Len(q) + 1] = b
  OBVIOUS
<1> HIDE DEF r
<1>2. InQueue(r) = InQueue(q) \cup {b}
  <2>1. ASSUME NEW x \in InQueue(r) PROVE x \in InQueue(q) \cup {b}
    <3>1. PICK i \in 1..Len(r) : x = r[i]
      BY DEF InQueue
    <3>2. i \in 1..Len(q) \/ i = Len(q) + 1
      BY <1>1
    <3> QED
      BY <1>1, <3>1, <3>2 DEF InQueue
  <2>2. ASSUME NEW x \in InQueue(q) PROVE x \in InQueue(r)
    <3>1. PICK i \in 1..Len(q) : x = q[i]
      BY DEF InQueue
    <3>2. i \in 1..Len(r) /\ r[i] = x
      BY <1>1, <3>1
    <3> QED
      BY <3>2 DEF InQueue
  <2>3. b \in InQueue(r)
    <3>1. Len(r) \in 1..Len(r) /\ r[Len(r)] = b
      BY <1>1
    <3> QED
      BY <3>1 DEF InQueue
  <2> QED
    BY <2>1, <2>2, <2>3
<1>3. OnceOnly(r)
  <2> SUFFICES ASSUME NEW i \in 1..Len(r), NEW j \in 1..Len(r), r[i] = r[j],
                      r[i].kind # "restart", i # j
               PROVE  FALSE
    BY DEF OnceOnly
  <2>1. CASE i \in 1..Len(q) /\ j \in 1..Len(q)
    BY <1>1, <2>1 DEF OnceOnly
  <2>2. ASSUME NEW k \in 1..Len(q), q[k] = b, b.kind # "restart" PROVE FALSE
    BY <2>2 DEF InQueue
  <2>3. CASE i = Len(q) + 1
    BY <1>1, <2>2, <2>3
  <2>4. CASE j = Len(q) + 1
    BY <1>1, <2>2, <2>4
  <2> QED
    BY <1>1, <2>1, <2>3, <2>4
<1> QED
  BY <1>1, <1>2, <1>3 DEF r

LEMMA Taken ==
    ASSUME NEW q \in Seq(Blocks), q # <<>>, OnceOnly(q)
    PROVE  /\ Head(q) \in Blocks /\ Tail(q) \in Seq(Blocks)
           /\ InQueue(q) = InQueue(Tail(q)) \cup {Head(q)}
           /\ Head(q).kind # "restart" => Head(q) \notin InQueue(Tail(q))
           /\ OnceOnly(Tail(q))
<1> DEFINE r == Tail(q)
           h == Head(q)
<1>1. /\ Len(q) \in Nat /\ Len(q) # 0 /\ 1 \in 1..Len(q)
      /\ h = q[1] /\ h \in Blocks
      /\ r \in Seq(Blocks) /\ Len(r) = Len(q) - 1
      /\ \A i \in 1..Len(r) : r[i] = q[i + 1] /\ i + 1 \in 1..Len(q)
  OBVIOUS
<1> HIDE DEF r, h
<1>2. InQueue(q) = InQueue(r) \cup {h}
  <2>1. ASSUME NEW x \in InQueue(q) PROVE x \in InQueue(r) \cup {h}
    <3>1. PICK i \in 1..Len(q) : x = q[i]
      BY DEF InQueue
    <3>2. CASE i = 1
      BY <1>1, <3>1, <3>2
    <3>3. CASE i # 1
      <4>1. i - 1 \in 1..Len(r) /\ r[i - 1] = q[i]
        BY <1>1, <3>3
      <4> QED
        BY <3>1, <4>1 DEF InQueue
    <3> QED
      BY <3>2, <3>3
  <2>2. ASSUME NEW x \in InQueue(r) PROVE x \in InQueue(q)
    BY <1>1 DEF InQueue
  <2>3. h \in InQueue(q)
    BY <1>1 DEF InQueue
  <2> QED
    BY <2>1, <2>2, <2>3
<1>3. h.kind # "restart" => h \notin InQueue(r)
  <2> SUFFICES ASSUME h.kind # "restart", NEW i \in 1..Len(r), r[i] = h PROVE FALSE
    BY DEF InQueue
  <2>1. q[1] = q[i + 1] /\ q[1].kind # "restart" /\ i + 1 # 1
    BY <1>1
  <2> QED
    BY <1>1, <2>1 DEF OnceOnly
<1>4. OnceOnly(r)
  <2> SUFFICES ASSUME NEW i \in 1..Len(r), NEW j \in 1..Len(r), r[i] = r[j],
                      r[i].kind # "restart"
               PROVE  i = j
    BY DEF OnceOnly
  <2>1. i + 1 \in 1..Len(q) /\ j + 1 \in 1..Len(q) /\ q[i + 1] = q[j + 1]
        /\ q[i + 1].kind # "restart"
    BY <1>1
  <2>2. i + 1 = j + 1
    BY <2>1 DEF OnceOnly
  <2> QED
    BY <1>1, <2>2
<1> QED
  BY <1>1, <1>2, <1>3, <1>4 DEF r, h

\* The same two, of the queue.
LEMMA DispatchStep ==
    ASSUME CallsInv, NEW kind, NEW n, [kind |-> kind, n |-> n] \in Blocks,
           Dispatch(kind, n), [kind |-> kind, n |-> n] \notin Waiting \/ kind = "restart"
    PROVE  /\ queue' \in Seq(Blocks) /\ OnceOnly(queue')
           /\ Waiting' = Waiting \cup {[kind |-> kind, n |-> n]}
  BY Dispatched DEF CallsInv, CallTypes, Dispatch, Waiting

LEMMA BeginStep ==
    ASSUME CallsInv, NEW kind, Begin(kind)
    PROVE  /\ queue' \in Seq(Blocks) /\ OnceOnly(queue')
           /\ Head(queue) \in Blocks /\ Head(queue).kind = kind
           /\ Waiting = Waiting' \cup {Head(queue)}
           /\ kind # "restart" => Head(queue) \notin Waiting'
  BY Taken DEF CallsInv, CallTypes, Begin, Waiting

LEMMA UnstartedMeans ==
    ASSUME NEW t
    PROVE  Unstarted(t) <=> t \in settings \/ StartBlock(t) \in Waiting
  BY DEF Unstarted, StartBlock, Waiting, InQueue

LEMMA BlockShapes ==
    /\ \A t \in Tunnels : StartBlock(t) \in Blocks /\ StartBlock(t).kind = "start"
                          /\ StartBlock(t).n = t /\ StartBlock(t) # StopBlock
    /\ StopBlock \in Blocks /\ StopBlock.kind = "stop"
    /\ \A b \in Blocks : /\ b # Idle
                         /\ b.kind = "start" => b.n \in Tunnels /\ b = StartBlock(b.n)
                         /\ b.kind = "stop" => b = StopBlock
                         /\ b.kind = "restart" =>
                              /\ b.n \in Generations /\ b # StopBlock
                              /\ \A t \in Tunnels : b # StartBlock(t)
    /\ Idle.kind = "idle" /\ Idle # StopBlock /\ \A t \in Tunnels : Idle # StartBlock(t)
  BY DEF Blocks, StartBlock, StopBlock, Idle

-----------------------------------------------------------------------------
(* The calls of the system and the starts and stops on their way. *)

LEMMA CallsFrame ==
    ASSUME CallsInv, elapsed' \subseteq Generations,
           UNCHANGED <<system, tunnel, settings, overtaken, queue, block>>
    PROVE  CallsInv'
  BY DEF CallsInv, CallTypes, OnceOnly, StopsInOrder, StartsOnce, StartsAwaited, Waiting

LEMMA CallsStep == CallsInv /\ [Next]_vars => CallsInv'
<1> SUFFICES ASSUME CallsInv, [Next]_vars PROVE CallsInv'
  OBVIOUS
<1> USE ProviderAssumption DEF ProviderAssumption, Tunnels
<1>a. CallTypes /\ OnceOnly(queue) /\ StopsInOrder /\ StartsOnce /\ StartsAwaited
  BY DEF CallsInv
<1>u. UNCHANGED queue => Waiting' = Waiting /\ OnceOnly(queue')
  BY <1>a DEF Waiting
<1>1. CASE StartTunnel
  <2>1. CallTypes' /\ Waiting' = Waiting /\ OnceOnly(queue')
    BY <1>a, <1>u, <1>1 DEF StartTunnel, CallTypes, restartVars
  <2>2. StopsInOrder'
    BY <1>a, <1>1, <2>1 DEF StartTunnel, StopsInOrder, StartsOnce, CallTypes
  <2>3. \A t \in Tunnels : t > tunnel =>
          t \notin settings /\ StartBlock(t) \notin Waiting /\ block # StartBlock(t)
    BY <1>a, BlockShapes DEF StartsOnce, CallTypes
  <2>4. StartsOnce'
    <3>1. /\ tunnel \in Nat /\ tunnel' = tunnel + 1 /\ block' = block
          /\ settings' = settings \cup {tunnel + 1} /\ tunnel + 1 \in Tunnels
      BY <1>a, <1>1 DEF StartTunnel, CallTypes
    <3>2. block.kind = "start" => block.n \in Nat
      BY <1>a, BlockShapes DEF CallTypes
    <3>3. \A t \in settings : t \in Nat /\ t \leq tunnel /\ block # StartBlock(t)
      BY <1>a DEF StartsOnce, CallTypes
    <3>4. tunnel + 1 > tunnel /\ \A t \in Nat : t \leq tunnel => t \leq tunnel + 1 /\ t # tunnel + 1
      BY <3>1
    <3> HIDE DEF Tunnels
    <3>5. tunnel' # 0 /\ \A t \in settings' : t \leq tunnel' /\ block' # StartBlock(t)
      BY <2>3, <3>1, <3>3, <3>4
    <3>6. \A t \in Tunnels : StartBlock(t) \in Waiting =>
             t \leq tunnel /\ t \in Nat /\ t \notin settings /\ block # StartBlock(t)
      BY <1>a DEF StartsOnce, Tunnels
    <3>7. block.kind = "start" => block.n \leq tunnel + 1
      BY <1>a, <3>1, <3>2 DEF StartsOnce
    <3> QED
      BY <2>1, <3>1, <3>4, <3>5, <3>6, <3>7 DEF StartsOnce
  <2>5. StartsAwaited'
    <3>1. system = "down" /\ StopBlock \notin Waiting
      BY <1>a, <1>1 DEF StartTunnel, StopsInOrder
    <3> QED
      BY <1>a, <1>1, <2>1, <3>1 DEF StartTunnel, StartsAwaited, CallTypes
  <2> QED
    BY <2>1, <2>2, <2>4, <2>5 DEF CallsInv
<1>2. CASE StopTunnel
  <2>1. system \in {"up", "starting"} /\ StopBlock \notin Waiting /\ block # StopBlock
    BY <1>a, <1>2 DEF StopTunnel, Stoppable, StopsInOrder
  <2>2. /\ queue' \in Seq(Blocks) /\ OnceOnly(queue')
        /\ Waiting' = Waiting \cup {StopBlock}
    BY <1>2, <2>1, DispatchStep, BlockShapes DEF StopTunnel, StopBlock
  <2>3. Unstarted(tunnel) => tunnel \in overtaken'
    BY <1>2 DEF StopTunnel
  <2>4. overtaken \subseteq overtaken' /\ overtaken' \subseteq Tunnels /\ tunnel \in Tunnels
    BY <1>a, <1>2, <2>1 DEF StopTunnel, CallTypes, StartsOnce
  <2>5. CallTypes'
    BY <1>a, <1>2, <2>2, <2>4 DEF StopTunnel, CallTypes, Invalidate
  <2>6. StopsInOrder'
    BY <1>2, <2>1, <2>2 DEF StopTunnel, StopsInOrder
  <2>7. StartsOnce'
    BY <1>a, <1>2, <2>1, <2>2, BlockShapes DEF StopTunnel, StartsOnce
  <2>8. StartsAwaited'
    BY <1>a, <1>2, <2>2, <2>3, <2>4, UnstartedMeans, BlockShapes DEF StopTunnel, StartsAwaited
  <2> QED
    BY <2>2, <2>5, <2>6, <2>7, <2>8 DEF CallsInv
<1>3. CASE Sleep \/ Wake \/ StopCommand
  BY <1>a, <1>3, CallsFrame DEF Sleep, Wake, StopCommand, CallTypes, Invalidate, Schedule,
     systemVars, restartVars
<1>4. ASSUME NEW t \in Tunnels, SettingsApplied(t) PROVE CallsInv'
  <2>1. StartBlock(t) \notin Waiting /\ block # StartBlock(t)
    BY <1>a, <1>4 DEF SettingsApplied, StartsOnce
  <2>2. /\ queue' \in Seq(Blocks) /\ OnceOnly(queue')
        /\ Waiting' = Waiting \cup {StartBlock(t)}
    BY <1>4, <2>1, DispatchStep, BlockShapes DEF SettingsApplied, StartBlock
  <2>3. CallTypes'
    BY <1>a, <1>4, <2>2 DEF SettingsApplied, CallTypes, restartVars
  <2>4. StopsInOrder'
    BY <1>a, <1>4, <2>2, BlockShapes DEF SettingsApplied, StopsInOrder
  <2>5. \A s \in Tunnels : StartBlock(s) = StartBlock(t) => s = t
    BY BlockShapes
  <2>6. StartsOnce'
    BY <1>a, <1>4, <2>1, <2>2, <2>5 DEF SettingsApplied, StartsOnce
  <2>7. StartsAwaited'
    BY <1>a, <1>4, <2>2, <2>5 DEF SettingsApplied, StartsAwaited
  <2> QED
    BY <2>2, <2>3, <2>4, <2>6, <2>7 DEF CallsInv
<1>5. ASSUME NEW t \in Tunnels, SettingsFail(t) PROVE CallsInv'
  <2>1. CallTypes' /\ Waiting' = Waiting /\ OnceOnly(queue')
    BY <1>a, <1>u, <1>5 DEF SettingsFail, CallTypes, restartVars, StartCompletes
  <2>2. system' = system \/ (system = "starting" /\ tunnel = t /\ system' = "down")
    BY <1>5 DEF SettingsFail, StartCompletes
  <2>3. StopsInOrder'
    BY <1>a, <1>5, <2>1, <2>2 DEF SettingsFail, StopsInOrder
  <2>4. StartsOnce'
    BY <1>a, <1>5, <2>1, <2>2 DEF SettingsFail, StartsOnce
  <2>5. t \in settings /\ settings' = settings \ {t} /\ StartBlock(t) \notin Waiting
        /\ block # StartBlock(t)
    BY <1>a, <1>5 DEF SettingsFail, StartsOnce
  <2>6. StartsAwaited'
    BY <1>a, <1>5, <2>1, <2>2, <2>5 DEF SettingsFail, StartsAwaited
  <2> QED
    BY <2>1, <2>3, <2>4, <2>6 DEF CallsInv
<1>6. ASSUME NEW p, PathUpdate(p) PROVE CallsInv'
  BY <1>a, <1>6, CallsFrame DEF PathUpdate, CallTypes, systemVars, restartVars
<1>7. ASSUME NEW u, PathHandled(u) PROVE CallsInv'
  BY <1>a, <1>7, CallsFrame DEF PathHandled, CallTypes, Schedule, systemVars, restartVars
<1>8. ASSUME NEW g \in Generations, TimerFires(g) PROVE CallsInv'
  <2>1. elapsed' \subseteq Generations
    BY <1>a, <1>8 DEF TimerFires, CallTypes
  <2> QED
    BY <1>8, <2>1, CallsFrame DEF TimerFires, systemVars
<1>9. ASSUME NEW g \in Generations, EnqueueRestart(g) PROVE CallsInv'
  <2>1. [kind |-> "restart", n |-> g] \in Blocks
    BY DEF Blocks
  <2>2. /\ queue' \in Seq(Blocks) /\ OnceOnly(queue')
        /\ Waiting' = Waiting \cup {[kind |-> "restart", n |-> g]}
    BY <1>9, <2>1, DispatchStep DEF EnqueueRestart
  <2>3. StopBlock \in Waiting' <=> StopBlock \in Waiting
    BY <2>2 DEF StopBlock
  <2>4. \A t : StartBlock(t) \in Waiting' <=> StartBlock(t) \in Waiting
    BY <2>2 DEF StartBlock
  <2>5. UNCHANGED <<system, tunnel, settings, overtaken, block>>
    BY <1>9 DEF EnqueueRestart, systemVars
  <2>6. CallTypes'
    BY <1>a, <1>9, <2>2, <2>5 DEF EnqueueRestart, CallTypes
  <2>7. StopsInOrder' /\ StartsOnce' /\ StartsAwaited'
    BY <1>a, <2>3, <2>4, <2>5 DEF StopsInOrder, StartsOnce, StartsAwaited
  <2> QED
    BY <2>2, <2>6, <2>7 DEF CallsInv
<1>10. CASE StartBegins
  <2> DEFINE h == Head(queue)
  <2>1. /\ queue' \in Seq(Blocks) /\ OnceOnly(queue') /\ h \in Blocks /\ h.kind = "start"
        /\ Waiting = Waiting' \cup {h} /\ h \notin Waiting'
    BY <1>10, BeginStep DEF StartBegins
  <2>2. block = Idle /\ block' = h
        /\ UNCHANGED <<system, tunnel, settings, overtaken, elapsed>>
    BY <1>10 DEF StartBegins, Begin, systemVars, restartVars
  <2>3. h.n \in Tunnels /\ h = StartBlock(h.n) /\ h # StopBlock
    BY <2>1, BlockShapes
  <2> HIDE DEF h
  <2>4. CallTypes'
    BY <1>a, <2>1, <2>2 DEF CallTypes
  <2>5. StopsInOrder'
    BY <1>a, <2>1, <2>2, <2>3, BlockShapes DEF StopsInOrder
  <2>6. \A t \in Tunnels : h = StartBlock(t) => t = h.n
    BY <2>3, BlockShapes
  <2>7. StartsOnce'
    BY <1>a, <2>1, <2>2, <2>3, <2>6 DEF StartsOnce, CallTypes
  <2>8. StartsAwaited'
    BY <1>a, <2>1, <2>2, <2>3, <2>6 DEF StartsAwaited
  <2> QED
    BY <2>1, <2>4, <2>5, <2>7, <2>8 DEF CallsInv
<1>11. CASE StartSucceeds \/ StartFails
  <2>1. block.kind = "start" /\ block' = Idle
        /\ UNCHANGED <<tunnel, settings, overtaken, queue, elapsed>>
    BY <1>11 DEF StartSucceeds, StartFails, restartVars
  <2>2. system' = system
        \/ (system = "starting" /\ tunnel = block.n /\ system' \in {"up", "down"})
    BY <1>11 DEF StartSucceeds, StartFails, StartCompletes
  <2>3. block.n \in Tunnels /\ block = StartBlock(block.n)
    BY <1>a, <2>1, BlockShapes DEF CallTypes
  <2>4. Waiting' = Waiting /\ OnceOnly(queue')
    BY <1>u, <2>1
  <2>5. CallTypes'
    BY <1>a, <2>1, <2>2 DEF CallTypes
  <2>6. StopsInOrder'
    BY <1>a, <2>1, <2>2, <2>4, BlockShapes DEF StopsInOrder
  <2>7. StartsOnce'
    BY <1>a, <2>1, <2>2, <2>4, BlockShapes DEF StartsOnce, CallTypes
  <2>8. block.n \notin settings /\ StartBlock(block.n) \notin Waiting
    BY <1>a, <2>3 DEF StartsOnce
  <2>9. StartsAwaited'
    BY <1>a, <2>1, <2>2, <2>4, <2>8, BlockShapes DEF StartsAwaited
  <2> QED
    BY <2>4, <2>5, <2>6, <2>7, <2>9 DEF CallsInv
<1>12. CASE RestartSkipped \/ RestartBegins
  <2> DEFINE h == Head(queue)
  <2>1. /\ queue' \in Seq(Blocks) /\ OnceOnly(queue') /\ h \in Blocks /\ h.kind = "restart"
        /\ Waiting = Waiting' \cup {h}
    BY <1>12, BeginStep DEF RestartSkipped, RestartBegins
  <2>2. block = Idle /\ block' \in {Idle, h}
        /\ UNCHANGED <<system, tunnel, settings, overtaken, elapsed>>
    BY <1>12 DEF RestartSkipped, RestartBegins, Begin, systemVars, restartVars
  <2>3. h # StopBlock /\ \A t \in Tunnels : h # StartBlock(t)
    BY <2>1, BlockShapes
  <2> HIDE DEF h
  <2>4. CallTypes'
    BY <1>a, <2>1, <2>2 DEF CallTypes
  <2>5. (StopBlock \in Waiting' <=> StopBlock \in Waiting) /\ block' # StopBlock
        /\ \A t \in Tunnels : /\ StartBlock(t) \in Waiting' <=> StartBlock(t) \in Waiting
                              /\ block' # StartBlock(t)
    BY <2>1, <2>2, <2>3, BlockShapes
  <2>6. block'.kind # "start"
    BY <2>1, <2>2, BlockShapes
  <2>7. StopsInOrder' /\ StartsOnce' /\ StartsAwaited'
    <3>1. StopsInOrder'
      BY <1>a, <2>2, <2>5 DEF StopsInOrder
    <3>2. StartsOnce'
      BY <1>a, <2>2, <2>5, <2>6 DEF StartsOnce, CallTypes
    <3>3. StartsAwaited'
      BY <1>a, <2>2, <2>5 DEF StartsAwaited
    <3> QED
      BY <3>1, <3>2, <3>3
  <2> QED
    BY <2>1, <2>4, <2>7 DEF CallsInv
<1>13. CASE RestartSucceeds \/ RestartFails
  <2>1. block' = Idle /\ UNCHANGED <<system, tunnel, settings, overtaken, queue, elapsed>>
    BY <1>13 DEF RestartSucceeds, RestartFails, systemVars, restartVars
  <2>2. Waiting' = Waiting /\ OnceOnly(queue')
    BY <1>u, <2>1
  <2>3. CallTypes'
    BY <1>a, <2>1 DEF CallTypes
  <2>4. StopsInOrder' /\ StartsAwaited'
    BY <1>a, <2>1, <2>2, BlockShapes DEF StopsInOrder, StartsAwaited
  <2>5. StartsOnce'
    BY <1>a, <2>1, <2>2, BlockShapes DEF StartsOnce, CallTypes
  <2> QED
    BY <2>2, <2>3, <2>4, <2>5 DEF CallsInv
<1>14. CASE StopBegins
  <2> DEFINE h == Head(queue)
  <2>1. /\ queue' \in Seq(Blocks) /\ OnceOnly(queue') /\ h \in Blocks /\ h = StopBlock
        /\ Waiting = Waiting' \cup {h} /\ h \notin Waiting'
    BY <1>14, BeginStep, BlockShapes DEF StopBegins
  <2>2. block = Idle /\ block' = h
        /\ UNCHANGED <<system, tunnel, settings, overtaken, elapsed>>
    BY <1>14 DEF StopBegins, Begin, systemVars, Invalidate
  <2> HIDE DEF h
  <2>3. CallTypes'
    BY <1>a, <2>1, <2>2 DEF CallTypes
  <2>4. StopsInOrder'
    BY <1>a, <2>1, <2>2 DEF StopsInOrder
  <2>5. StartsOnce'
    BY <1>a, <2>1, <2>2, BlockShapes DEF StartsOnce, CallTypes
  <2>6. StartsAwaited'
    BY <1>a, <2>1, <2>2, BlockShapes DEF StartsAwaited
  <2> QED
    BY <2>1, <2>3, <2>4, <2>5, <2>6 DEF CallsInv
<1>15. CASE StopEnds
  <2>1. block.kind = "stop" /\ block' = Idle /\ system' = "down"
        /\ UNCHANGED <<tunnel, settings, overtaken, queue, elapsed>>
    BY <1>15 DEF StopEnds, restartVars
  <2>2. block = StopBlock
    BY <1>a, <2>1, BlockShapes DEF CallTypes
  <2>3. Waiting' = Waiting /\ OnceOnly(queue')
    BY <1>u, <2>1
  <2>4. system = "stopping" /\ StopBlock \notin Waiting
    BY <1>a, <2>2 DEF StopsInOrder
  <2>5. CallTypes'
    BY <1>a, <2>1 DEF CallTypes
  <2>6. StopsInOrder' /\ StartsAwaited'
    BY <1>a, <2>1, <2>3, <2>4, BlockShapes DEF StopsInOrder, StartsAwaited
  <2>7. StartsOnce'
    BY <1>a, <2>1, <2>3, BlockShapes DEF StartsOnce, CallTypes
  <2> QED
    BY <2>3, <2>5, <2>6, <2>7 DEF CallsInv
<1>16. CASE TheApp \/ UNCHANGED vars
  BY <1>a, <1>16, CallsFrame DEF TheApp, AppSeesDown, AppReadsFile, AppClears, vars, systemVars,
     restartVars, CallTypes
<1> QED
  BY <1>1, <1>2, <1>3, <1>4, <1>5, <1>6, <1>7, <1>8, <1>9, <1>10, <1>11, <1>12, <1>13, <1>14,
     <1>15, <1>16 DEF Next, ControlQueue

-----------------------------------------------------------------------------
(* The engines. *)

LEMMA EngineFrame ==
    ASSUME EngineInv, UNCHANGED engineVars, cancelled' \in BOOLEAN,
           overtaken \subseteq overtaken',
           block = StopBlock => block' = StopBlock,
           StopBlock \in Waiting => StopBlock \in Waiting',
           system = "up" => (system' = "up" /\ tunnel' = tunnel) \/ StopBlock \in Waiting'
    PROVE  EngineInv'
  BY DEF EngineInv, engineVars, EngineTypes, NoLostEngine, StopOnItsWay

LEMMA EngineStep == CallsInv /\ EngineInv /\ [Next]_vars => EngineInv'
<1> SUFFICES ASSUME CallsInv, EngineInv, [Next]_vars PROVE EngineInv'
  OBVIOUS
<1> USE ProviderAssumption DEF ProviderAssumption
<1>a. CallTypes /\ StopsInOrder /\ StartsOnce /\ StartsAwaited
  BY DEF CallsInv
<1>e. /\ EngineTypes /\ NoLostEngine /\ StopOnItsWay
      /\ stopping # 0 => block = StopBlock
  BY DEF EngineInv
<1>u. UNCHANGED queue => Waiting' = Waiting
  BY DEF Waiting
<1>b. block.kind = "start" \/ block.kind = "restart" => block # StopBlock
  BY DEF StopBlock
<1>1. CASE StartTunnel \/ Sleep \/ Wake \/ StopCommand
  BY <1>1, <1>e, <1>u, EngineFrame DEF StartTunnel, Sleep, Wake, StopCommand, EngineTypes,
     systemVars
<1>2. CASE StopTunnel
  <2>1. StopBlock \notin Waiting /\ block # StopBlock
    BY <1>a, <1>2 DEF StopTunnel, Stoppable, StopsInOrder
  <2>2. Waiting' = Waiting \cup {StopBlock}
    BY <1>2, <2>1, DispatchStep, BlockShapes DEF StopTunnel, StopBlock
  <2> QED
    BY <1>2, <1>e, <2>2, EngineFrame DEF StopTunnel
<1>3. ASSUME NEW t \in Tunnels, SettingsApplied(t) PROVE EngineInv'
  <2>1. StartBlock(t) \notin Waiting
    BY <1>a, <1>3 DEF SettingsApplied, StartsOnce
  <2>2. Waiting' = Waiting \cup {StartBlock(t)}
    BY <1>3, <2>1, DispatchStep, BlockShapes DEF SettingsApplied, StartBlock
  <2> QED
    BY <1>3, <1>e, <2>2, EngineFrame DEF SettingsApplied, EngineTypes
<1>4. ASSUME NEW t \in Tunnels, SettingsFail(t) PROVE EngineInv'
  BY <1>4, <1>e, <1>u, EngineFrame DEF SettingsFail, StartCompletes, EngineTypes
<1>5. ASSUME NEW p, PathUpdate(p) PROVE EngineInv'
  BY <1>5, <1>e, <1>u, EngineFrame DEF PathUpdate, systemVars, EngineTypes
<1>6. ASSUME NEW u, PathHandled(u) PROVE EngineInv'
  BY <1>6, <1>e, <1>u, EngineFrame DEF PathHandled, systemVars, EngineTypes
<1>7. ASSUME NEW g \in Generations, TimerFires(g) PROVE EngineInv'
  BY <1>7, <1>e, <1>u, EngineFrame DEF TimerFires, systemVars, EngineTypes
<1>8. ASSUME NEW g \in Generations, EnqueueRestart(g) PROVE EngineInv'
  <2>1. Waiting' = Waiting \cup {[kind |-> "restart", n |-> g]}
    BY <1>8, DispatchStep DEF EnqueueRestart, Blocks
  <2> QED
    BY <1>8, <1>e, <2>1, EngineFrame DEF EnqueueRestart, systemVars, EngineTypes
<1>9. CASE StartBegins \/ RestartSkipped \/ RestartBegins
  <2>1. Head(queue).kind # "stop" /\ Waiting = Waiting' \cup {Head(queue)}
    BY <1>9, BeginStep DEF StartBegins, RestartSkipped, RestartBegins
  <2>2. StopBlock \in Waiting => StopBlock \in Waiting'
    BY <2>1 DEF StopBlock
  <2>3. block # StopBlock
    BY <1>9, BlockShapes DEF StartBegins, RestartSkipped, RestartBegins, Begin
  <2> QED
    BY <1>9, <1>e, <2>2, <2>3, EngineFrame
    DEF StartBegins, RestartSkipped, RestartBegins, systemVars, EngineTypes
<1>10. CASE StartSucceeds
  <2>1. /\ block.n \in Tunnels /\ block = StartBlock(block.n)
        /\ live = {} /\ engine' = block.n /\ live' = {block.n} /\ listener' = block.n
        /\ stopping = 0 /\ UNCHANGED <<stopping, cancelled, tunnel, overtaken, queue>>
    BY <1>10, <1>a, <1>e, <1>b, BlockShapes DEF StartSucceeds, CallTypes
  <2>2. block.n \in overtaken \/ (system' = "up" /\ tunnel = block.n) \/ StopBlock \in Waiting
    BY <1>10, <1>a, <2>1 DEF StartSucceeds, StartCompletes, StartsAwaited
  <2>3. EngineTypes'
    BY <1>e, <2>1 DEF EngineTypes, Tunnels
  <2> QED
    BY <1>u, <2>1, <2>2, <2>3 DEF EngineInv, NoLostEngine, StopOnItsWay
<1>11. CASE StartFails
  BY <1>11, <1>b, <1>e, <1>u, EngineFrame DEF StartFails, StartCompletes, EngineTypes
<1>12. CASE RestartSucceeds
  BY <1>12, <1>b, <1>e, <1>u, EngineFrame DEF RestartSucceeds, systemVars, EngineTypes
<1>13. CASE RestartFails
  <2>1. EngineTypes'
    BY <1>13, <1>e DEF RestartFails, EngineTypes
  <2>2. NoLostEngine' /\ StopOnItsWay' /\ stopping' = 0
    BY <1>13, <1>b, <1>e, <1>u DEF RestartFails, NoLostEngine, StopOnItsWay
  <2> QED
    BY <2>1, <2>2 DEF EngineInv
<1>14. CASE StopBegins
  <2>1. block = Idle /\ block' = StopBlock
    BY <1>14, BeginStep, BlockShapes DEF StopBegins, Begin
  <2>2. stopping = 0
    BY <1>e, <2>1, BlockShapes
  <2>3. EngineTypes'
    BY <1>14, <1>e DEF StopBegins, EngineTypes, systemVars
  <2>4. \A e \in live' : e = stopping'
    BY <1>14, <1>e, <2>2 DEF StopBegins, NoLostEngine, EngineTypes, Tunnels
  <2> QED
    BY <2>1, <2>3, <2>4 DEF EngineInv, NoLostEngine, StopOnItsWay
<1>15. CASE StopEnds
  <2>1. block = StopBlock
    BY <1>15, <1>a, BlockShapes DEF StopEnds, CallTypes
  <2>2. system = "stopping" /\ StopBlock \notin Waiting
    BY <1>a, <2>1 DEF StopsInOrder
  <2>3. EngineTypes'
    BY <1>15, <1>e DEF StopEnds, EngineTypes
  <2>4. NoLostEngine' /\ StopOnItsWay' /\ stopping' = 0
    BY <1>15, <1>e, <2>2 DEF StopEnds, NoLostEngine, StopOnItsWay
  <2> QED
    BY <2>3, <2>4 DEF EngineInv
<1>16. CASE TheApp \/ UNCHANGED vars
  BY <1>16, <1>e, <1>u, EngineFrame DEF TheApp, AppSeesDown, AppReadsFile, AppClears, vars,
     systemVars, EngineTypes
<1> QED
  BY <1>1, <1>2, <1>3, <1>4, <1>5, <1>6, <1>7, <1>8, <1>9, <1>10, <1>11, <1>12, <1>13, <1>14,
     <1>15, <1>16 DEF Next, ControlQueue

-----------------------------------------------------------------------------
(* The state file. *)

LEMMA FileFrame ==
    ASSUME FileInv, UNCHANGED <<stage, message, writer, engine>>, overtaken \subseteq overtaken',
           system' = "up" => system = "up" /\ tunnel' = tunnel,
           clearing' \in {"no", "saw", "found"}
    PROVE  FileInv'
  BY DEF FileInv, FileTypes, FileFollows

LEMMA FileStep == CallsInv /\ FileInv /\ [Next]_vars => FileInv'
<1> SUFFICES ASSUME CallsInv, FileInv, [Next]_vars PROVE FileInv'
  OBVIOUS
<1>a. CallTypes /\ StopsInOrder /\ StartsAwaited
  BY DEF CallsInv
<1>f. FileTypes
  BY DEF FileInv
<1>1. CASE StartTunnel
  BY <1>1 DEF StartTunnel, WriteState, FileInv, FileTypes, FileFollows
<1>2. CASE StopTunnel \/ Sleep \/ Wake \/ StopCommand
  BY <1>2, <1>f, FileFrame DEF FileTypes, StopTunnel, Sleep, Wake, StopCommand,
     fileVars, engineVars, systemVars
<1>3. ASSUME NEW t \in Tunnels, SettingsApplied(t) PROVE FileInv'
  BY <1>3, <1>f, FileFrame DEF FileTypes, SettingsApplied, fileVars, engineVars
<1>4. ASSUME NEW t \in Tunnels, SettingsFail(t) PROVE FileInv'
  <2>1. ~(system' = "up" /\ overtaken' = {})
    BY <1>4, <1>a DEF SettingsFail, StartCompletes, StartsAwaited
  <2> QED
    BY <1>4, <2>1 DEF SettingsFail, WriteState, FileInv, FileTypes, FileFollows
<1>5. ASSUME NEW p, PathUpdate(p) PROVE FileInv'
  BY <1>5, <1>f, FileFrame DEF FileTypes, PathUpdate, fileVars, engineVars, systemVars
<1>6. ASSUME NEW u, PathHandled(u) PROVE FileInv'
  BY <1>6, <1>f, FileFrame DEF FileTypes, PathHandled, fileVars, engineVars, systemVars
<1>7. ASSUME NEW g \in Generations, TimerFires(g) \/ EnqueueRestart(g) PROVE FileInv'
  BY <1>7, <1>f, FileFrame DEF FileTypes, TimerFires, EnqueueRestart, fileVars,
     engineVars, systemVars
<1>8. CASE StartBegins \/ RestartSkipped \/ RestartBegins \/ RestartSucceeds
  BY <1>8, <1>f, FileFrame DEF FileTypes, StartBegins, RestartSkipped, RestartBegins,
     RestartSucceeds, fileVars, engineVars, systemVars
<1>9. CASE StartSucceeds \/ StartFails
  <2>1. block.n \in Tunnels /\ block = StartBlock(block.n)
    BY <1>9, <1>a, BlockShapes DEF StartSucceeds, StartFails, CallTypes
  <2>2. overtaken = {} => (system = "starting" /\ tunnel = block.n) \/ system = "stopping"
    BY <1>a, <2>1 DEF StartsAwaited, StopsInOrder
  <2>3. CASE StartSucceeds
    BY <2>2, <2>3 DEF StartSucceeds, StartCompletes, WriteState, FileInv, FileTypes, FileFollows
  <2>4. CASE StartFails
    BY <2>2, <2>4 DEF StartFails, StartCompletes, WriteState, FileInv, FileTypes, FileFollows
  <2> QED
    BY <1>9, <2>3, <2>4
<1>10. CASE RestartFails
  BY <1>10 DEF RestartFails, WriteState, FileInv, FileTypes, FileFollows
<1>11. CASE StopBegins
  <2>1. block' = StopBlock /\ Head(queue) = StopBlock /\ StopBlock \in Waiting
    BY <1>11, BeginStep, BlockShapes DEF StopBegins
  <2>2. system = "stopping"
    BY <1>a, <2>1 DEF StopsInOrder
  <2> QED
    BY <1>11, <2>2 DEF StopBegins, fileVars, systemVars, FileInv, FileTypes, FileFollows
<1>12. CASE StopEnds
  BY <1>12 DEF StopEnds, WriteState, FileInv, FileTypes, FileFollows
<1>13. CASE AppSeesDown \/ AppReadsFile
  BY <1>13, <1>f, FileFrame DEF FileTypes, AppSeesDown, AppReadsFile, engineVars, systemVars
<1>14. CASE AppClears
  BY <1>14 DEF AppClears, FileInv, FileTypes, FileFollows, systemVars
<1>15. CASE UNCHANGED vars
  BY <1>15, <1>f, FileFrame DEF FileTypes, vars, fileVars, engineVars, systemVars
<1> QED
  BY <1>1, <1>2, <1>3, <1>4, <1>5, <1>6, <1>7, <1>8, <1>9, <1>10, <1>11, <1>12, <1>13, <1>14,
     <1>15 DEF Next, ControlQueue, TheApp

-----------------------------------------------------------------------------
(* The generations. *)

\* Whatever is owed is paid by the time the generation is bumped.
LEMMA BudgetBound ==
    ASSUME GenerationInv, CallTypes, events \leq MaxEvents, tunnel \leq MaxTunnels
    PROVE  /\ Cardinality(updates) \in Nat /\ Owed \in 0..3
           /\ restartGen + Cardinality(updates) + Owed \leq MaxGeneration
           /\ MaxGeneration \in Nat
<1> USE ProviderAssumption DEF ProviderAssumption
<1>1. Cardinality(updates) \in Nat
  BY FS_CardinalityType DEF GenerationInv, Budget
<1>2. Owed \in 0..3
  BY DEF Owed
<1>3. MaxGeneration \in Nat
  BY DEF MaxGeneration
<1> QED
  BY <1>1, <1>2, <1>3 DEF GenerationInv, GenerationTypes, CallTypes, Budget, MaxGeneration

\* What a step that bumps nothing must leave true.
LEMMA Arithmetic ==
    /\ \A a, b, t, u \in Nat : u = t /\ b \leq a => b + 2 * t \leq a + 2 * u /\ t \leq u
    /\ \A r, c, a, b, e, t, u \in Nat :
          r + c + a \leq e + 2 * t /\ b + 2 * t \leq a + 2 * u => r + c + b \leq e + 2 * u
  OBVIOUS

LEMMA GenerationFrame ==
    ASSUME GenerationInv, CallTypes, UNCHANGED restartVars, UNCHANGED pathVars,
           UNCHANGED events, tunnel' \in Nat, tunnel \leq tunnel', Owed \in Nat, Owed' \in Nat,
           Owed' + 2 * tunnel \leq Owed + 2 * tunnel'
    PROVE  GenerationInv'
<1>1. GenerationTypes' /\ PathTypes' /\ VoidIsOlder'
  BY DEF GenerationInv, GenerationTypes, PathTypes, VoidIsOlder, restartVars, pathVars
<1>2. Cardinality(updates) \in Nat
  BY FS_CardinalityType DEF GenerationInv, Budget
<1>3. tunnel \in Nat /\ events \in Nat /\ restartGen \in Nat
  BY ProviderAssumption DEF ProviderAssumption, GenerationInv, GenerationTypes, CallTypes
<1>4. restartGen + Cardinality(updates) + Owed \leq events + 2 * tunnel
  BY DEF GenerationInv, Budget
<1>5. restartGen + Cardinality(updates) + Owed' \leq events + 2 * tunnel'
  BY <1>2, <1>3, <1>4, Arithmetic
<1>6. Budget'
  BY <1>5 DEF GenerationInv, Budget, restartVars, pathVars
<1> QED
  BY <1>1, <1>6 DEF GenerationInv

\* A bump, with or without a window of its own.
LEMMA BumpStep ==
    ASSUME GenerationInv, restartGen + 1 \leq MaxGeneration, MaxGeneration \in Nat,
           Invalidate \/ (\E t \in 0..MaxTunnels : Schedule(t)), events' \in 0..MaxEvents
    PROVE  GenerationTypes' /\ VoidIsOlder' /\ restartGen' = restartGen + 1
<1>1. restartGen' = restartGen + 1 /\ void' = void \cup 1..restartGen /\ restartGen \in Nat
  BY DEF Invalidate, Schedule, GenerationInv, GenerationTypes
<1>2. restartGen' \in Generations /\ 1..restartGen \subseteq Generations
  BY <1>1 DEF Generations
<1>3. VoidIsOlder'
  BY <1>1 DEF GenerationInv, GenerationTypes, VoidIsOlder, Generations
<1>4. CASE Invalidate
  BY <1>1, <1>2, <1>3, <1>4 DEF Invalidate, GenerationInv, GenerationTypes
<1>5. ASSUME NEW t \in 0..MaxTunnels, Schedule(t) PROVE GenerationTypes'
  BY <1>1, <1>2, <1>5 DEF Schedule, GenerationInv, GenerationTypes
<1> QED
  BY <1>1, <1>3, <1>4, <1>5

LEMMA OwedSame ==
    ASSUME UNCHANGED system, StopBlock \in Waiting' <=> StopBlock \in Waiting
    PROVE  Owed' = Owed
  BY DEF Owed

LEMMA GenerationStep == CallsInv /\ CallsInv' /\ GenerationInv /\ [Next]_vars => GenerationInv'
<1> SUFFICES ASSUME CallsInv, CallsInv', GenerationInv, [Next]_vars PROVE GenerationInv'
  OBVIOUS
<1> USE ProviderAssumption DEF ProviderAssumption
<1>a. CallTypes /\ CallTypes' /\ StopsInOrder /\ StopsInOrder'
  BY DEF CallsInv
<1>t. tunnel \in 0..MaxTunnels /\ tunnel' \in 0..MaxTunnels
      /\ restartGen \in Nat /\ events \in 0..MaxEvents
  BY <1>a DEF CallTypes, GenerationInv, GenerationTypes
<1>b. /\ Cardinality(updates) \in Nat /\ Owed \in 0..3
      /\ restartGen + Cardinality(updates) + Owed \leq MaxGeneration
      /\ restartGen + Cardinality(updates) + Owed \leq events + 2 * tunnel
      /\ MaxGeneration \in Nat /\ MaxGeneration = MaxEvents + 2 * MaxTunnels
      /\ IsFiniteSet(updates) /\ PathTypes
  BY <1>a, <1>t, BudgetBound DEF GenerationInv, Budget, MaxGeneration
<1>c. Owed' \in 0..3
  BY DEF Owed
<1>u. UNCHANGED queue => Waiting' = Waiting
  BY DEF Waiting
<1>1. CASE StartTunnel
  <2>1. tunnel' = tunnel + 1
    BY <1>1 DEF StartTunnel
  <2>2. Owed' = Owed + 2
    BY <1>1, <1>u DEF StartTunnel, Owed
  <2> QED
    BY <1>1, <1>a, <1>b, <1>c, <1>t, <2>1, <2>2, GenerationFrame DEF StartTunnel
<1>2. CASE StopTunnel
  <2>1. system \in {"up", "starting"} /\ system' = "stopping" /\ StopBlock \notin Waiting
        /\ UNCHANGED <<tunnel, events, pathVars>> /\ Invalidate
    BY <1>a, <1>2 DEF StopTunnel, Stoppable, StopsInOrder
  <2>2. Waiting' = Waiting \cup {StopBlock}
    BY <1>2, <2>1, DispatchStep, BlockShapes DEF StopTunnel, StopBlock
  <2>3. Owed = 2 /\ Owed' = 1
    BY <2>1, <2>2 DEF Owed
  <2>4. GenerationTypes' /\ VoidIsOlder' /\ restartGen' = restartGen + 1
    BY <1>b, <1>t, <2>1, <2>3, BumpStep
  <2>5. Budget'
    BY <1>b, <1>t, <2>1, <2>3, <2>4 DEF Budget, pathVars
  <2> QED
    BY <1>b, <2>1, <2>4, <2>5 DEF GenerationInv, PathTypes, pathVars
<1>3. CASE Sleep \/ Wake
  <2>1. /\ UNCHANGED <<tunnel, system, queue, pathVars>> /\ events' = events + 1
        /\ events' \in 0..MaxEvents
    BY <1>3, <1>t DEF Sleep, Wake, systemVars
  <2>2. Owed' = Owed
    BY <1>u, <2>1, OwedSame
  <2>3. events + 1 + 2 * tunnel \leq MaxGeneration /\ restartGen + 1 \leq MaxGeneration
    BY <1>b, <1>t, <2>1
  <2>4. GenerationTypes' /\ VoidIsOlder' /\ restartGen' = restartGen + 1
    BY <1>3, <1>b, <1>t, <2>1, <2>3, BumpStep DEF Sleep, Wake
  <2>5. Budget'
    BY <1>b, <1>c, <1>t, <2>1, <2>2, <2>4 DEF Budget, pathVars
  <2> QED
    BY <1>b, <2>1, <2>4, <2>5 DEF GenerationInv, PathTypes, pathVars
<1>4. CASE StopCommand
  <2>1. Owed' = Owed /\ tunnel' = tunnel
    BY <1>4, <1>u, OwedSame DEF StopCommand
  <2> QED
    BY <1>4, <1>a, <1>b, <1>c, <1>t, <2>1, GenerationFrame DEF StopCommand
<1>5. ASSUME NEW t \in Tunnels, SettingsApplied(t) PROVE GenerationInv'
  <2>1. StartBlock(t) \notin Waiting
    BY <1>5 DEF CallsInv, SettingsApplied, StartsOnce
  <2>2. Waiting' = Waiting \cup {StartBlock(t)}
    BY <1>5, <2>1, DispatchStep, BlockShapes DEF SettingsApplied, StartBlock
  <2>3. Owed' = Owed /\ tunnel' = tunnel
    BY <1>5, <2>2, BlockShapes, OwedSame DEF SettingsApplied
  <2> QED
    BY <1>5, <1>a, <1>b, <1>c, <1>t, <2>3, GenerationFrame DEF SettingsApplied
<1>6. ASSUME NEW t \in Tunnels, SettingsFail(t) PROVE GenerationInv'
  <2>1. Owed' \leq Owed /\ tunnel' = tunnel
    BY <1>6, <1>u DEF SettingsFail, StartCompletes, Owed
  <2>2. Owed' + 2 * tunnel \leq Owed + 2 * tunnel' /\ tunnel \leq tunnel'
    <3>1. tunnel \in Nat /\ tunnel' \in Nat /\ Owed \in Nat /\ Owed' \in Nat
      BY <1>b, <1>c, <1>t
    <3> QED
      BY <2>1, <3>1, Arithmetic
  <2> QED
    BY <1>6, <1>a, <1>b, <1>c, <1>t, <2>2, GenerationFrame DEF SettingsFail
<1>7. ASSUME NEW p \in Paths \cup {Down}, PathUpdate(p) PROVE GenerationInv'
  <2>1. /\ UNCHANGED <<tunnel, system, queue, restartVars, pathGen, monitor, lastPath>>
        /\ events' = events + 1 /\ events' \in 0..MaxEvents
        /\ updates' = updates \cup
              {[gen |-> monitor.gen, tunnel |-> monitor.tunnel, path |-> p]}
    BY <1>7, <1>t DEF PathUpdate, systemVars
  <2>2. Owed' = Owed
    BY <1>u, <2>1, OwedSame
  <2>3. IsFiniteSet(updates') /\ Cardinality(updates') \in Nat
        /\ Cardinality(updates') \leq Cardinality(updates) + 1
    <3>1. IsFiniteSet(updates')
          /\ (Cardinality(updates') = Cardinality(updates)
              \/ Cardinality(updates') = Cardinality(updates) + 1)
      BY <1>b, <2>1, FS_AddElement
    <3> QED
      BY <1>b, <3>1
  <2>4. Budget'
    BY <1>b, <1>c, <1>t, <2>1, <2>2, <2>3 DEF Budget, restartVars
  <2>5. PathTypes'
    BY <1>b, <2>1 DEF PathTypes
  <2>6. GenerationTypes' /\ VoidIsOlder'
    BY <2>1 DEF GenerationInv, GenerationTypes, VoidIsOlder, restartVars
  <2> QED
    BY <2>4, <2>5, <2>6 DEF GenerationInv
<1>8. ASSUME NEW u \in updates, PathHandled(u) PROVE GenerationInv'
  <2>1. /\ UNCHANGED <<tunnel, system, queue, pathGen, monitor, events>>
        /\ updates' = updates \ {u} /\ lastPath' = u.path
        /\ u.tunnel \in 0..MaxTunnels /\ u.path \in Paths \cup {Down}
    BY <1>8, <1>b DEF PathHandled, systemVars, PathTypes
  <2>2. Owed' = Owed
    BY <1>u, <2>1, OwedSame
  <2>3. IsFiniteSet(updates') /\ Cardinality(updates') = Cardinality(updates) - 1
        /\ Cardinality(updates') \in Nat
    <3>1. IsFiniteSet(updates') /\ Cardinality(updates') = Cardinality(updates) - 1
      BY <1>b, <2>1, FS_RemoveElement
    <3>2. Cardinality(updates') \in Nat
      BY <3>1, FS_CardinalityType
    <3> QED
      BY <3>1, <3>2
  <2>4. GenerationTypes' /\ VoidIsOlder' /\ restartGen' \in Nat /\ restartGen' \leq restartGen + 1
    <3>1. CASE Schedule(u.tunnel)
      <4>1. restartGen + 1 \leq MaxGeneration
        BY <1>b, <1>t, <2>3
      <4> QED
        BY <1>b, <1>t, <2>1, <3>1, <4>1, BumpStep
    <3>2. CASE UNCHANGED restartVars
      BY <1>t, <2>1, <3>2 DEF GenerationInv, GenerationTypes, VoidIsOlder, restartVars
    <3> QED
      BY <1>8, <3>1, <3>2 DEF PathHandled
  <2>5. Budget'
    BY <1>b, <1>c, <1>t, <2>1, <2>2, <2>3, <2>4 DEF Budget
  <2>6. PathTypes'
    BY <1>b, <2>1 DEF PathTypes
  <2> QED
    BY <2>4, <2>5, <2>6 DEF GenerationInv
<1>9. ASSUME NEW g \in Generations, TimerFires(g) PROVE GenerationInv'
  <2>1. UNCHANGED <<tunnel, system, queue, events, pathVars, restartGen, void, born>>
    BY <1>9 DEF TimerFires, systemVars
  <2>2. Owed' = Owed
    BY <1>u, <2>1, OwedSame
  <2>3. GenerationTypes' /\ VoidIsOlder'
    BY <1>9, <2>1 DEF TimerFires, GenerationInv, GenerationTypes, VoidIsOlder
  <2> QED
    BY <1>b, <2>1, <2>2, <2>3 DEF GenerationInv, Budget, PathTypes, pathVars
<1>10. ASSUME NEW g \in Generations, EnqueueRestart(g) PROVE GenerationInv'
  <2>1. UNCHANGED <<tunnel, system, events, pathVars, restartGen, void, born, timers>>
    BY <1>10 DEF EnqueueRestart, systemVars
  <2>2. Waiting' = Waiting \cup {[kind |-> "restart", n |-> g]}
    BY <1>10, DispatchStep DEF EnqueueRestart, Blocks
  <2>3. Owed' = Owed
    BY <2>1, <2>2, OwedSame DEF StopBlock
  <2>4. GenerationTypes' /\ VoidIsOlder'
    BY <1>10, <2>1 DEF EnqueueRestart, GenerationInv, GenerationTypes, VoidIsOlder
  <2> QED
    BY <1>b, <2>1, <2>3, <2>4 DEF GenerationInv, Budget, PathTypes, pathVars
<1>11. CASE StartBegins \/ RestartSkipped \/ RestartBegins
  <2>1. Head(queue).kind # "stop" /\ Waiting = Waiting' \cup {Head(queue)}
    BY <1>11, BeginStep DEF StartBegins, RestartSkipped, RestartBegins
  <2>2. UNCHANGED <<tunnel, system, events, pathVars, restartVars>>
    BY <1>11 DEF StartBegins, RestartSkipped, RestartBegins, systemVars
  <2>3. Owed' = Owed
    BY <2>1, <2>2, OwedSame DEF StopBlock
  <2> QED
    BY <1>a, <1>b, <1>c, <1>t, <2>2, <2>3, GenerationFrame
<1>12. CASE StartSucceeds
  <2>1. block.n \in Tunnels
    BY <1>12, <1>a, BlockShapes DEF StartSucceeds, CallTypes
  <2>2. /\ UNCHANGED <<tunnel, events, updates, queue, restartVars>> /\ lastPath' = NoPath
        /\ pathGen' = pathGen + 1 /\ monitor' = [gen |-> pathGen + 1, tunnel |-> block.n]
    BY <1>12 DEF StartSucceeds
  <2>3. Owed' = Owed
    BY <1>12, <1>u DEF StartSucceeds, StartCompletes, Owed
  <2>4. PathTypes'
    BY <1>b, <2>1, <2>2 DEF PathTypes, Tunnels
  <2>5. Budget' /\ GenerationTypes' /\ VoidIsOlder'
    BY <2>2, <2>3 DEF GenerationInv, GenerationTypes, VoidIsOlder, Budget, restartVars
  <2> QED
    BY <2>4, <2>5 DEF GenerationInv
<1>13. CASE StartFails
  <2>1. Owed' \leq Owed /\ tunnel' = tunnel
    BY <1>13, <1>u DEF StartFails, StartCompletes, Owed
  <2>2. Owed' + 2 * tunnel \leq Owed + 2 * tunnel' /\ tunnel \leq tunnel'
    <3>1. tunnel \in Nat /\ tunnel' \in Nat /\ Owed \in Nat /\ Owed' \in Nat
      BY <1>b, <1>c, <1>t
    <3> QED
      BY <2>1, <3>1, Arithmetic
  <2> QED
    BY <1>13, <1>a, <1>b, <1>c, <1>t, <2>2, GenerationFrame DEF StartFails
<1>14. CASE RestartSucceeds \/ RestartFails
  <2>1. UNCHANGED <<tunnel, system, queue, events, pathVars, restartVars>>
    BY <1>14 DEF RestartSucceeds, RestartFails, systemVars
  <2>2. Owed' = Owed
    BY <1>u, <2>1, OwedSame
  <2> QED
    BY <1>a, <1>b, <1>c, <1>t, <2>1, <2>2, GenerationFrame
<1>15. CASE StopBegins
  <2>1. /\ UNCHANGED <<tunnel, system, events, monitor, updates, lastPath>>
        /\ Invalidate /\ pathGen' = pathGen + 1
    BY <1>15 DEF StopBegins, systemVars
  <2>2. StopBlock \in Waiting /\ StopBlock \notin Waiting'
    BY <1>15, BeginStep, BlockShapes DEF StopBegins
  <2>3. system = "stopping"
    BY <1>a, <2>2 DEF StopsInOrder
  <2>4. Owed = 1 /\ Owed' = 0
    BY <2>1, <2>2, <2>3 DEF Owed
  <2>5. GenerationTypes' /\ VoidIsOlder' /\ restartGen' = restartGen + 1
    BY <1>b, <1>t, <2>1, <2>4, BumpStep
  <2>6. Budget'
    BY <1>b, <1>t, <2>1, <2>4, <2>5 DEF Budget
  <2>7. PathTypes'
    BY <1>b, <2>1 DEF PathTypes
  <2> QED
    BY <2>5, <2>6, <2>7 DEF GenerationInv
<1>16. CASE StopEnds
  <2>1. Owed' \leq Owed /\ tunnel' = tunnel
    BY <1>16, <1>u DEF StopEnds, Owed
  <2>2. Owed' + 2 * tunnel \leq Owed + 2 * tunnel' /\ tunnel \leq tunnel'
    <3>1. tunnel \in Nat /\ tunnel' \in Nat /\ Owed \in Nat /\ Owed' \in Nat
      BY <1>b, <1>c, <1>t
    <3> QED
      BY <2>1, <3>1, Arithmetic
  <2> QED
    BY <1>16, <1>a, <1>b, <1>c, <1>t, <2>2, GenerationFrame DEF StopEnds
<1>17. CASE TheApp \/ UNCHANGED vars
  <2>1. UNCHANGED <<queue, events, systemVars, pathVars, restartVars>>
    BY <1>17 DEF TheApp, AppSeesDown, AppReadsFile, AppClears, vars
  <2>2. Owed' = Owed /\ tunnel' = tunnel
    BY <2>1, <1>u, OwedSame DEF systemVars
  <2> QED
    BY <1>a, <1>b, <1>c, <1>t, <2>1, <2>2, GenerationFrame
<1> QED
  BY <1>1, <1>2, <1>3, <1>4, <1>5, <1>6, <1>7, <1>8, <1>9, <1>10, <1>11, <1>12, <1>13, <1>14,
     <1>15, <1>16, <1>17 DEF Next, ControlQueue

-----------------------------------------------------------------------------
(* The theorems. *)

LEMMA InvInit == Init => Inv
<1> SUFFICES ASSUME Init PROVE Inv
  OBVIOUS
<1> USE ProviderAssumption DEF ProviderAssumption, Init
<1>1. queue = <<>> /\ Len(queue) = 0 /\ queue \in Seq(Blocks) /\ Waiting = {}
  BY DEF Waiting, InQueue
<1>2. CallsInv
  <2>1. CallTypes /\ OnceOnly(queue)
    BY <1>1 DEF CallTypes, OnceOnly
  <2>2. StopsInOrder /\ StartsOnce /\ StartsAwaited
    BY <1>1, BlockShapes DEF StopsInOrder, StartsOnce, StartsAwaited
  <2> QED
    BY <2>1, <2>2 DEF CallsInv
<1>3. EngineInv
  <2>1. engine = 0 /\ stopping = 0 /\ live = {} /\ listener = 0 /\ cancelled \in BOOLEAN
    OBVIOUS
  <2> QED
    BY <2>1 DEF EngineInv, EngineTypes, NoLostEngine, StopOnItsWay
<1>4. FileInv
  BY DEF FileInv, FileTypes
<1>5. GenerationInv
  <2>1. IsFiniteSet(updates) /\ Cardinality(updates) = 0
    BY FS_EmptySet
  <2>2. Owed = 0
    BY <1>1 DEF Owed
  <2>3. Budget
    BY <2>1, <2>2 DEF Budget
  <2> QED
    BY <2>3 DEF GenerationInv, GenerationTypes, PathTypes, VoidIsOlder
<1> QED
  BY <1>2, <1>3, <1>4, <1>5 DEF Inv

LEMMA InvStep == Inv /\ [Next]_vars => Inv'
  BY CallsStep, EngineStep, FileStep, GenerationStep DEF Inv

LEMMA InvAlways == Spec => []Inv
  BY InvInit, InvStep, PTL DEF Spec

(***************************************************************************)
(* The variables keep their types, _restartGeneration its bound among them *)
(* (PacketTunnelProvider.m:199-242, 345): no more bumps than one for each  *)
(* event and two for each stop.                                            *)
(***************************************************************************)
THEOREM TypesHold == Spec => []TypeOK
<1>1. Inv => TypeOK
  <2> SUFFICES ASSUME Inv PROVE TypeOK
    OBVIOUS
  <2>1. restartGen \in 0..MaxGeneration
    <3>1. CallTypes /\ GenerationInv /\ restartGen \in Nat /\ events \leq MaxEvents
          /\ tunnel \leq MaxTunnels
      BY ProviderAssumption
      DEF ProviderAssumption, Inv, CallsInv, CallTypes, GenerationInv, GenerationTypes
    <3>2. /\ Cardinality(updates) \in Nat /\ Owed \in 0..3 /\ MaxGeneration \in Nat
          /\ restartGen + Cardinality(updates) + Owed \leq MaxGeneration
      BY <3>1, BudgetBound
    <3> QED
      BY <3>1, <3>2
  <2> QED
    BY <2>1 DEF Inv, CallsInv, CallTypes, EngineInv, EngineTypes, FileInv, GenerationInv,
       GenerationTypes, TypeOK, SystemTypes, ControlTypes, RestartTypes
<1> QED
  BY <1>1, InvAlways, PTL

(***************************************************************************)
(* Whatever starts, restarts and stops come, in whatever order, a started  *)
(* engine stays where a stop finds it (PacketTunnelProvider.m:163-204,     *)
(* 276-281).                                                               *)
(***************************************************************************)
THEOREM EnginesKept == Spec => []NoLostEngine
<1>1. Inv => NoLostEngine
  BY DEF Inv, EngineInv
<1> QED
  BY <1>1, InvAlways, PTL

(***************************************************************************)
(* A stop that the system sees completed leaves no engine behind, except   *)
(* one whose start block it overtook (stopTunnelWithReason).               *)
(***************************************************************************)
THEOREM StopIsComplete == Spec => []StoppedMeansNoEngine
<1>1. Inv => StoppedMeansNoEngine
  <2> SUFFICES ASSUME Inv, system = "down", block = Idle, queue = <<>>
               PROVE  live \subseteq overtaken
    BY DEF StoppedMeansNoEngine
  <2>1. Waiting = {}
    BY DEF Waiting, InQueue
  <2> QED
    BY <2>1, BlockShapes DEF Inv, EngineInv, StopOnItsWay
<1> QED
  BY <1>1, InvAlways, PTL

(***************************************************************************)
(* While a tunnel is up that no stop has ever overtaken, the state file    *)
(* does not say "connected" without an engine nor "error" over one, and if *)
(* the extension wrote it last it says one of the two; the app can only    *)
(* have replaced that by "disconnected" (writeState's callers and          *)
(* VpnManager.clearStaleActiveExtensionState).                             *)
(***************************************************************************)
THEOREM FileIsTrue == Spec => []FileNeverMisstates
<1>1. Inv => FileNeverMisstates
  BY DEF Inv, FileInv, FileFollows, FileNeverMisstates
<1> QED
  BY <1>1, InvAlways, PTL

(***************************************************************************)
(* A restart that a later event was to invalidate never begins, because it *)
(* is checked on the queue that every bump precedes or follows             *)
(* (restartEngineForGeneration).                                           *)
(***************************************************************************)
THEOREM InvalidatedNeverBegins == Spec => SupersededNeverRuns
<1>1. Inv /\ [Next]_vars => [\A g \in Generations : BeginsRestart(g) => g \notin void]_vars
  <2> SUFFICES ASSUME Inv, Next, NEW g \in Generations, BeginsRestart(g)
               PROVE  g \notin void
    OBVIOUS
  <2>1. block = Idle /\ block' = [kind |-> "restart", n |-> g] /\ block.kind = "idle"
        /\ block'.kind = "restart" /\ block' # block /\ block'.n = g
    BY BlockShapes DEF BeginsRestart, Idle
  <2>2. ~StartBegins /\ ~StopBegins
    BY <2>1, BeginStep DEF StartBegins, StopBegins, Inv
  <2>3. RestartBegins
    BY <2>1, <2>2 DEF Next, ControlQueue, StartTunnel, StopTunnel, Sleep, Wake, StopCommand,
       SettingsApplied, SettingsFail, PathUpdate, PathHandled, TimerFires, EnqueueRestart,
       TheApp, AppSeesDown, AppReadsFile, AppClears, StartSucceeds, StartFails,
       RestartSkipped, RestartSucceeds, RestartFails, StopEnds
  <2>4. restartGen = g
    BY <2>1, <2>3 DEF RestartBegins, RestartWanted
  <2> QED
    BY <2>4 DEF Inv, GenerationInv, GenerationTypes, VoidIsOlder
<1> QED
  BY <1>1, InvAlways, PTL DEF Spec, SupersededNeverRuns
=============================================================================
