# A TLA+ model of shadowvpn-ios

This directory is the verification project of the ShadowVPN client for iOS: TLA+
specifications of its concurrent parts and of the algorithms whose mistakes a test would
hardly reach, TLC configurations that check them on small instances, and TLAPS proofs of
what matters most for every instance. `PROJECT.json` lists
the components, the runs, the lines each definition translates, the known hazards and
what the runs found.

In the paths below, R is `src/core/rust/shadowvpn-ios-ffi/src`, P is
`src/PacketTunnel/Sources`, A is `src/App/Sources`, S is `src/SVPNShared/Sources`.

## 1. The system

Two processes share an App Group container. The **app** (Swift) edits profiles, installs
the NetworkExtension configuration and shows state and traffic. The **packet-tunnel
extension** (Objective-C, linked with a Rust core) carries the packets. They talk through
the NetworkExtension framework (start, stop, status), through JSON files in the container
and through Darwin notifications that say a file has changed.

| Component | State it keeps | Operations | Hard behaviour |
|---|---|---|---|
| Engine, `R/engine.rs` | session slot, `RUNNING`, per session an ingest queue and three tasks | `start`, `stop`, `stop_blocking`, `ingest`, the task loops | tasks on a two-worker runtime race the stop; aborts act at await points only; one task of three may die |
| `P/SVTunnelEngine.m` | retained writer, `_started`, `_tunStarted`, read chain and its epoch, traffic pump | start, restart, stop | a C callback into an object with a manual lifetime; a read completion outlives a stop |
| chinadns, `R/dns_intercept.rs` | pending table, one direct socket | `try_intercept` (ingress task), `try_handle_tunneled_reply` (egress task) | late, lost, reordered answers; ids reused; one table written by two tasks |
| `P/PacketTunnelProvider.m` | `_engine`, two generation counters, path state, state file | start, stop, sleep, wake, path update, debounced restart | four queues; checks that are stale when acted upon; failing restarts |
| `A/Services/VpnManager.swift`, `A/AppModel.swift` | stage, manager, error, profiles | connect, disconnect, refresh, reconcile, persist | suspension points on the main actor; a file written by both processes |
| Shared store (`S/SVPNIPC`, `P/SVSharedStore.m`) | state, traffic and profile files | read, write, notify | lost updates, stale reads |
| Profiles, preferences (`S/SVPNModels`) | profile list, selection | decode, edit | several files kept in step |
| chnroute matcher, country extraction | sorted disjoint ranges, cache file | merge, contains, range to CIDRs, atomic write | arithmetic at the ends of the 32-bit range |
| `P/SVTunnelSettings.m` | none | excluded routes | bit arithmetic on prefixes |
| DNS wire format, flow inspection | none | bounded parsing | compressed names, off-by-one |
| Obfuscation, crypto, config, logging, rss | buffers, log file | framing, parsing | buffer bounds; a log file replaced under an open handle |
| Views, build files, assets | presentation | none | none |

How they interact: the provider runs every engine call as a block of its serial control
queue; `SVTunnelEngine` calls the core through the C interface; the core's egress task
(and, in chinadns mode, its ingress task) calls back through `SvpnWritePacket`; packets
from the system reach the core through the `readPackets` chain and `svpn_tun_ingest`; the
provider writes `state.json`, which the app reconciles with the NE status.

What makes each correct:

- engine and `SVTunnelEngine`: no callback into a released writer; every task that was
  started can still be stopped; one egress task at a time; packets keep their order;
  a stop returns;
- chinadns: the client gets the answer to its question, from the server it asked; the
  pending table holds just the ids whose clean reply is still wanted; a dead resolver does
  not block the tunnel;
- provider: no engine without a tunnel and no tunnel without an engine; a restart happens
  when the network changed; the state file does not misstate the tunnel;
- control plane: the stage shown converges to the NE status or to an error; the profile
  NetworkExtension holds is the one selected; a disconnect stays one;
- profiles and log: what was written is found again, wherever the process died;
- country files and routes: every file served names exactly the addresses of its
  database; what the interceptor believes to be domestic leads out of the tunnel, and nothing
  else does but the LAN and the server;
- parsers and framings: no read past the packet, answers with sums that verify, a
  datagram that comes out as it went in.

## 2. Modules

| Module | Models | Uses |
|---|---|---|
| `WriterContract` | abstract: what the C callback interface promises | |
| `DataPlane` | `engine.rs` and `SVTunnelEngine.m` together | `WriterContract` (refined) |
| `DnsIntercept` | `dns_intercept.rs`: the protocol | |
| `Provider` | `PacketTunnelProvider.m`, and the write of `VpnManager.swift` to its state file | |
| `ControlPlane` | `VpnManager.swift`, the toggle of `HomeView.swift`, the selection of `AppModel.swift` | |
| `ProfileStore` | `AppModel.swift` and the keys of `SharedStore.swift` | |
| `LogMirror` | `logging.rs` and the clear button of `LogsView.swift` | |
| `Addresses` | ranges and blocks of an address space of W bits | |
| `CountryRoutes` | `country.rs`, its two calls by the extension, `chnroute-gen` | `Addresses` |
| `TunnelSetup` | `SVTunnelSettings.m`, the configuration check, `chnroute.rs` | `Addresses` |
| `Carrier` | `obfs.rs` in both directions | |
| `PacketPath` | `inspect.rs`, and the parser and the builder of packets in `dns_intercept.rs` | |
| `...Proofs` | theorems about the module they are named after (`Country`: `CountryRoutes`; `Setup`: `TunnelSetup`; `PacketPath`: also `Carrier`; `AppStore`: `ProfileStore` and `LogMirror`) | |
| `MCDataPlane`, `MCDnsIntercept`, `MCProvider` | instances for TLC | |
| `MCPieces`, `MCControl` | instances that check several parts in one run | |

`MCPieces` (which takes in the instance of `MCDnsIntercept`) and `MCControl` put modules that
share no state side by side. A behaviour of
theirs has a `subject`, one part that moves, and the others stay as they started (those
with several initial states in a fixed one). The states checked are the sum of the parts'
states, not their product, and each part is checked as if alone.

### DataPlane

A thread of control per variable: `pc` is the control queue inside an engine call (`op`
says which method of `SVTunnelEngine` it belongs to); `reader[g]` is the read chain of
engine object g; `egress[s]`, `ingress[s]`, `keepalive[s]` are the tasks of session s. Calls
are cut where another thread can see the difference: `start` spawns the tasks, fills the
slot, then raises `RUNNING` (`TunSpawn`, `PublishSession`, `RaiseRunning`);
`stop_blocking` lowers it, takes the session, aborts, joins (`LowerRunning`, `TakeSession`,
`AbortTasks`, `JoinEgress`); `ingest` clones the sender under the lock and sends later
(`IngestClone`, `IngestAccepted`). A task honours an abort only at an await point, so
"datagram", "packet" and "callback" cannot be cancelled.

Data left out: the content of packets (a packet is its number in the order the flow
handed it over), the obfuscation and the cipher (a packet may be dropped or skipped), the
byte counters. `_ingressRunning` and `_ingressEpoch` change together in every method of an
engine object, and an object is never started twice, so both guards of the chain are one
question: is g in `reading`. The read chain has one packet per batch, which is enough
since the guards are evaluated once per completion, before the batch.

`running`, `slot` and the tasks are process-wide, `engine` counts the `SVTunnelEngine`
objects. An object is created only when the one before it was stopped or failed:
`Provider` shows the one race in which the provider breaks this rule (a stop that
overtakes the start block), and there the core refuses the second start.

### WriterContract

Contexts are lent, called into while lent, taken back when no call is in progress.
`DataPlane` implements it with lent = the retained writers and calls = the tasks inside
the callback.

### DnsIntercept

`stage` is `try_intercept` of the one query the ingress task works on. A question is a
record of the client's and the server's endpoint, the id and whether it is A/IN. An
answer is a record of the query it answers and a verdict, the class `try_intercept` gives
its first A record: "domestic", "foreign" or "empty". `inbox` is the receive buffer of the
shared direct socket, `answers` everything emitted. The resolvers and the networks are
external: a datagram may be lost or be late without bound, clean replies may be repeated
and reordered. Each answer of the domestic resolver arrives once, in any order.
Endpoints are records of an address and a port because the parser's tests of them are
what decides whether a tunneled reply is recognised.

### Provider

The system's calls, completions, path callbacks and timers are actions; a block of the
control queue begins, runs its engine call, and ends, so that generations may change while
an engine call blocks. The generation checks of a debounced restart are three steps
(`TimerFires`, `EnqueueRestart`, `RestartBegins`); the staleness check of a path callback
(`PathUpdate`) and the rest of the callback (`PathHandled`) are two. `void` and `born` are
history variables: which generations a later event was to invalidate, and which tunnel's
event scheduled a generation. A path is one value per combination of interface type and
address families, an unsatisfied path is `Down`: the three tests of `handlePathUpdate`
together say that a satisfied path differs from the last one.

The NetworkExtension system is external and assumed to start a tunnel that is down, to
call `stopTunnel` at most once per tunnel, and to answer `cancelTunnelWithError` with a
stop. Whether it may stop a tunnel whose settings are still being applied is the constant
`StopsEarly`.

The state file has a second writer, the app: `VpnManager` sees the connection down
(`AppSeesDown`), reads the file (`AppReadsFile`) and, when it is an active one, writes
"disconnected" over it (`AppClears`); the extension moves between any two of the three.
`writer` is history: who wrote last. The file starts as any state an earlier process left.

### ControlPlane

All of `VpnManager` runs on the main actor: `queue` holds its jobs, which are taps,
notifications (`note` for the NE status, `state` for the file), the tasks these spawn
(`apply`), and coroutines that resume. A coroutine lets others run at each preference call,
so `connect` is three steps (save, load, start), `disconnect` two and
`updateConfiguration` three, all on the one shared `object`; `prefs` is what
NetworkExtension has saved. Its preference calls are served in order and may fail.
`status` and `ext` (the extension's process) move at any time, and each move posts a
notification. `clearStaleActiveExtensionState` reads the file and then overwrites it:
`clearing` is the time between. `off`, `spoiled`, `owed` and `misled` are history variables: whether a
disconnect was last asked for; the parts of the saved configuration, profile or rule, that the code
no longer answers for; whether a failed start still has to be explained; and whether the stage was
last set by a disconnect from a status that had changed since. A part is spoiled when a coroutine
saves the object, or a disconnect reads the rule from it, while a load of another coroutine has put
it back behind the saves that are on their way (`Behind`), or when a save is refused; the next save
that sets the part makes it good again. No request is excused for what else is suspended.

NetworkExtension, its connect-on-demand rule and the extension are external: the
extension writes the file as `Provider` has it write, is killed at any time, or fails a
restart.

### ProfileStore

Every operation of `AppModel` changes the memory, then `persist` writes three keys one
after the other; `Relaunch` may come between any two of the writes and restores what `init`
makes of the keys it finds, on a clean install and after the build that stored a single
profile. `before` and `after` are the state around the operation in progress.

### LogMirror

`set_log_file` is cut into measuring, rotating, opening and installing; other threads log
through the installed handle in between. A handle keeps the file it was opened on, a path
names one file at a time. The rename, the measuring and the opening may each fail, and the code goes on.
`due` and `kept` are the lines that must be in the file and in its backup, and `goes` says where a
line logged now belongs: in the file once a handle is installed, in the backup from a rename until the
next handle is installed (the old handle is on the renamed file), also when none can be opened, and
nowhere without a handle or after a clear.

### CountryRoutes

One step merges one range, or emits one block, or takes one step of the atomic write
(create the temporary file, fill it, rename it); a crash may come between any two of them
and an app update replaces the database, never the cache. The two calls of the extension
are two passes through the same code, the second after a hit. A cache file is named by
country and database length, as in the code. The generator of the bundled file is the same
walk with its own 32-bit span (`tool` = "gen"). Every file remembers in `of` which version
and country it was made for, which the code does not.

### TunnelSetup

A start from profile and country file to settings and configuration: the routes excluded
from the tunnel (the halves of 10/8 around the tunnel's subnet, the fixed ranges, the country's
blocks, the server), what the configuration check refuses, and the table the interceptor builds
from the same file with a parser of its own. Each reader of the file may fail alone: without the
routes the start goes on (`routed`), without the table the engine starts without an interceptor.
The engine may also fail. `Fixed` stands for the ranges `SVTunnelSettings.m:143-149` always
excludes: 172.16/12, 192.168/16, 169.254/16, 224/4 and 255.255.255.255.

### Carrier

A datagram wrapped at one end and unwrapped at the other, or noise that reaches the port:
no framing, the QUIC-like short header and base64 in its standard alphabet. A byte has 4 bits and a
digit 3, which keeps what matters of 8 and 6: three bytes are four digits, digits straddle
bytes, and a text may end in a partial group.

### PacketPath

The ingress task with one packet: `describe`, which parses a TLS ClientHello field by field
or the lines of an HTTP head, then `parse_udp_dns_query`, and the packet `emit_response`
builds. Contents are left out: a length field has any of the values of `Lengths16`, and a
read is its position against the length of the packet. Addresses and checksums are kept, as
16-bit words, because that is what the client's stack checks.

## 3. Runs

| Run | Question | Instance | Result |
|---|---|---|---|
| `dataplane_lifecycle` | can any order of start, restart, stop and task steps reach a released writer, lose a task or leave two egress tasks | 2 engine objects, 3 sessions, 1 packet, no interceptor, every stop joined | holds, 300k states |
| `dataplane_live` | order, and progress of queues, stops and aborted tasks | 1 session, 3 packets, queue of 2, interceptor, expiring join, `svpn_tun_stop` | holds, 38k states |
| `dataplane_late_callback` | the same contract with an interceptor | 1 session, 1 packet | violated |
| `dataplane_dead_ingress` | does `ingest` return -1 only when stopped | 1 session | violated |
| `dns_mismatched` | does an answer fit its question | 3 queries, fresh ids | violated |
| `dns_unpaired` | is a clean reply addressed from the server that was asked | 3 queries out of 3 questions that share an id, 1 clean reply | violated |
| `provider_safe` | engines, state file, superseded and wanted restarts | 2 tunnels, 3 events, 2 paths and `Down`, early stops | holds, 470k states |
| `provider_late_path` | does a restart stay in its tunnel | as above, no early stops | violated |
| `pieces_hold` | country files, routes, framings, parsers and answers; the interceptor's table, answers and progress | addresses of 4 bits, 2 versions, 2 countries, 10 sets of networks, 2 fixed ranges; the packets of `MCPieces`; 3 queries out of 3 questions that share an id, 1 clean reply | holds, 650k states |
| `app_safe` | stage, configuration, on-demand rule, reason, profiles, log | 3 taps, 1 switch, 1 trouble, 2 profiles; 3 profile ids; 5 files, 4 lines | holds, 920k states |
| `control_rule_on` | is the on-demand rule off after a disconnect, whatever overlaps it | 3 taps, 1 switch, no trouble, 3 coroutines, 2 profiles | violated |
| `log_cleared` | is each line appended to the file the app shows | 5 files, 2 lines | violated |

Why the bounds are enough. *lifecycle*: two objects and three sessions give an in-place
restart of either object and a new object after a stop; every pair of generations that
can meet (older tasks, newer session) is there; one packet suffices to have an ingress
task working. The packet order and queue limits need more packets and one session: *live*
has a queue of two and a third packet to overflow it. *dns*: two queries that share an id
with a third after them give reuse before, between and after both kinds of answer, and a
late answer that shifts the answers of two later queries. *provider*: two tunnels are
needed for anything to outlive a stop; three events are a first path, a change, and one
more event to supersede it. *pieces*: four bits of address hold every relation of two ranges (apart, touching, one
address apart, at either end, all of the space), 10/8 becomes a block of half the space with
a subnet of two addresses inside it, `MCCountryFiles` has blocks across its edges, and of the
fixed ranges one can hold the tunnel's subnet and one half of it. Two
versions of the app are what a stale file needs. Packets lie around each length that the
parsers test. *app*: a tap, a second one during its preference calls and a third after it;
one switch of profile and one failure of any kind anywhere in between. `MaxQueue` holds back
taps and what the system posts; resumptions and the notice of a cleared file may exceed it,
since nothing in the code refuses them. `Tids` is two, so that any two
coroutines overlap at any of their calls; three suspended at once are in `control_rule_on`,
and in the theorems. For the profiles, three
ids let the active one be deleted with two left; for the log, five files are one more than
the names and handles there can be.

Deadlock checking is off everywhere: the bounds on engines, sessions, packets, queries,
events, taps and lines let every behaviour stop.

### Exceptions the properties name

Some properties hold but for a case that the code gets wrong or accepts. The case is in the
statement of the property, so that nothing else can hide behind it.

- `StageSettles`: a disconnect applies the status it read before its save. When the tunnel came
  up during the save and its state file was then taken for stale and cleared, no notification
  comes that would correct it (`VpnManager.swift:214-227`): in `Misled` it was this disconnect that
  last set the stage, and Home shows "disconnected", as does the file, over a tunnel that is
  connected.
- `ConfigFollows`: a disconnect that saves the shared object while another coroutine's load has
  put an older profile back into it, and a refused save, after which the old one stays, until the next
  save of a profile (`spoiled`).
- `OffStaysOff`: likewise for the rule. A disconnect reads the rule from an object into which a load
  has put an older one, and saves nothing; or an update saves the object after a load has
  put back the rule a disconnect turned off (`VpnManager.swift:167, 221, 229`). Overlapping requests as
  such are not excused, and `control_rule_on` shows the case.
- `LinesFound` speaks of one backup: what an earlier rotation put there is gone with the next, as in
  the code. Lines logged after a clear until the next handle are lost (`log_cleared`).
- `ReasonShown` is about failed starts. A stop after a failed restart overwrites the reason
  (`PacketTunnelProvider.m:208`), and so may the app when it clears a stale file.
- `NeverStale`: the cache is keyed by the length of the database, so that another database of
  the same length is not noticed (`country.rs:50`).
- `FilesMinimal`: the generator writes the whole address space as two halves.
- `PrivateSplit`: for a tunnel address outside 10/8 the walk excludes that address's own /8
  and leaves 10/8 in the tunnel. A tunnel address in a fixed range (a peer in 192.168/16, say) has
  its own /30 excluded, against the comment "that /30 must stay routed into the tunnel"
  (`SVTunnelSettings.m:134`), which takes for granted that the tunnel lies in 10/8.
- `RoutesFollowTable`: where the settings could not read the file and the core could, the interceptor
  calls addresses domestic that stay in the tunnel (`SVTunnelSettings.m:198-203`). Nothing stops a split
  tunnel from coming up without its routes: the failure is only logged.
- `ReadsInBounds`: `line[..5]` may cut a character of a host header (`inspect.rs:155`), and the
  crate aborts on a panic. Every other read is within the packet.
- `StoppedMeansNoEngine`, `FileNeverMisstates`: a stop that overtakes the block of its own
  start, which the system can cause only by stopping a tunnel whose settings are being applied.
- `FileNeverMisstates`: the app may write "disconnected" over the file of a tunnel that is up, having
  taken it for that of an earlier one (`VpnManager.swift:415-418`); the file stays so until the
  extension writes again.

### What the violated runs show

1. `dataplane_late_callback`. In chinadns mode the ingress task emits local answers
   itself. `stop_blocking` aborts it but joins only the egress task, so the callback may
   run after `CFBridgingRelease`. The comments of `engine.rs` say that only the egress task
   calls back. Joining the ingress task too would close it.
2. `dataplane_dead_ingress`. A send error ends the ingress task while `RUNNING` stays true
   and the slot stays full: `ingest` returns -1 in a state its comment excludes, and the
   tunnel is up without an upstream until a path change or a wake restarts it.
3. `dns_mismatched`. The direct socket is shared and its first datagram is taken unseen:
   after one timeout each answer goes to the query after its own.
   `InStepUntilTimeout` shows that a timeout is the only way to get there.
4. `dns_unpaired`. The parser of queries is used on replies and takes the server's address
   from the destination: no genuine reply is ever recognised. In the ordinary set-up, in
   which clients ask `dns_remote` itself, the unrecognised reply still reaches the client;
   a client that asks another server through the tunnel gets the reply of a foreign name
   from an address it did not ask. Replies that a local answer has made superfluous are
   delivered as well.
5. `provider_late_path`. A path callback that has passed its staleness check when the
   monitor is cancelled obtains the newest generation and so survives all later checks;
   the tunnel started next is restarted once more than needed.
6. `control_rule_on`. A second tap on connect, the on-demand preference having been turned on since
   the first, sets the rule in the shared object and asks for a save. The load of the first connect,
   served before that save, puts the old preferences back into the object, while the save
   puts the rule into NetworkExtension. A disconnect that comes before the second connect's own
   load finds no rule in the object (`VpnManager.swift:229`) and saves nothing: iOS may bring
   the tunnel up again, although the comment says that the rule is disabled first.
7. `log_cleared`. The clear button writes an empty file with `.atomic`, that is, a new file
   at the path. The extension's handle stays with the old one: what it logs until the next
   start is in a file no path names, although the comment in `LogsView.swift` promises that the
   following lines land in the file the app tails.

### Fairness

- *Runtime* (`DataPlane`): a task that can run is polled, a call on the control queue goes
  on: weak fairness of the steps of each. An aborted egress task whose socket always has
  data still yields, because tokio's cooperative budget makes its `recv` return pending
  from time to time: strong fairness of `EgressCancel`. Nothing is assumed of the host's
  callback: it may never return, and the properties say what holds then.
- *chinadns*: the task is polled; `send_to` completes; a timer fires.
- *Provider*: dispatch queues run their blocks, timers fire, `setTunnelNetworkSettings`
  completes, engine calls return (`StopBlockingReturns` is the reason for a stop), and
  the system stops a cancelled tunnel. Nothing is assumed of starts, sleeps, wakes and
  path changes.
- *App*: the main actor runs its jobs; NetworkExtension serves preference calls, reports what
  it sees, and the extension finishes what it began: weak fairness of each side. Nothing is
  assumed of taps, failures, kills and the on-demand rule.
- *Country files*: a call that runs goes on (weak fairness of `Step`); calls, crashes and
  updates are free.

## 4. Proofs

Every theorem is about the specification the runs check, for every value of its
constants under the module's assumption. Each follows one scheme: an invariant that is
inductive is shown to hold initially and to be preserved action by action, and to imply the
property. What the invariants add to the properties is the reason why the code is right.

### DataPlaneProofs

Any number of engines, sessions and packets and any positive queue depth
(`DataPlaneAssumption`).

- `TypeCorrect`: `Spec => []TypeOK`, with interceptors, expiring joins and
  `svpn_tun_stop`. By `TypeInv`, the types with the few facts they need (a task
  past its receive has a packet in hand, a read chain with a batch has a packet, the
  control queue holds a session where it uses one), group by group: each of the type
  groups is preserved by the actions that touch it.
- `EgressSafe`: `Spec => []EgressNeverUsesReleasedWriter`, provided that the join does not
  expire and that the host stops only with `stop_blocking` (`JoinedStops`). The property
  is not inductive. `JoinInv` adds: an egress task that is alive belongs to the session in
  the slot or in the hands of the current call (`EgressAttended`); sessions not yet
  spawned have no tasks (`UnbornQuiet`); an attended session's writer is retained
  (`OwnerRetained`); and where in the call the control queue can be with which session in
  hand (`HostPlace`, `Retained`). The writer is released at "stopped", where no session is
  attended any more, hence no egress task is alive.
- `PlainSafe`: without an interceptor (`PlainStops`) no task calls back at all but the
  egress task, so `NoUseAfterRelease` holds. Its assumption is exactly what the run
  `dataplane_late_callback` violates when it is dropped.
- `Refinement`: under `PlainStops`, `Spec => ImplementsWriterContract`: each action maps
  to a step of the contract or leaves `retained` and the calls alone.
- `OneAtATime`: under `JoinedStops`, `Spec => []OneDelivery`. By `JoinInv` a session with a
  live egress task is in the slot or in hand, and one of the two is always empty.
- `NoTaskLost`: under `JoinedStops`, `Spec => []NoOrphanTask`. `OrphanInv` adds that of the
  session in hand for the join every task has been aborted, so that letting go of it loses
  none.
- `InOrderOnTheWire`: `Spec => []WireOrder`, with no assumption on stops. `OrderInv` lines up
  the packets of a read chain: those sent are older than the one in the task's hand and
  than the queue's (`SentBefore`), which are in order (`HandFirst`, `QueueInOrder`), and all
  are older than the one about to be ingested (`BatchLast`). Packets move along this line
  or leave it.

### ProviderProofs

Any number of tunnels and events, any set of paths, with and without early stops.
`Inv` has four parts. `CallsInv`: what waits in the control queue, each start and stop once,
a stop just while the system waits for one, a start only while its tunnel is starting or when
it was overtaken. `EngineInv`: a started engine belongs to the tunnel that is up, or a stop
is on its way to it, or its start was overtaken (`StopOnItsWay`). `FileInv`: what the file says
in each state (`FileFollows`), which each of the two writers keeps. `GenerationInv`: every
invalidated generation is older than the current one, and `Budget` bounds the counter by the events left. From these:

- `TypesHold` (`TypeOK`), `EnginesKept` (`NoLostEngine`), `StopIsComplete`
  (`StoppedMeansNoEngine`), `FileIsTrue` (`FileNeverMisstates`);
- `InvalidatedNeverBegins` (`SupersededNeverRuns`, an action property): a restart begins only
  at the newest generation, and none that was invalidated is the newest.

### DnsInterceptProofs

Any set of questions and any number of queries.

- `TypesHold` (`TypeOK`).
- `InStep` (`InStepUntilTimeout`): `StepInv` says that the socket holds nothing but the answer
  to the query in hand as long as none has timed out, and that a timeout is older than the
  query in hand.
- `PendingIsExact` (`PendingExact`): an id's latest query exists (`HasLatest`), and each of the
  writes of the two tasks keeps the table at what the history says. The lemma about clean
  replies (`ReplyStep`) shows why the egress task changes nothing there: the test looks at the wrong
  end of the packet, so no reply is ever paired. It is the finding `dns_unpaired`, as a
  lemma, under the assumption that no client has the address of the clean resolver.

### ControlPlaneProofs

Any set of profiles and of coroutines and any bounds. `ControlAssumption` asks for at least one
profile, since `AppModel` refuses to delete the last one (`AppModel.swift:119`). `ControlInv` has one
part for each thing that is under way:

- `ReasonOnItsWay`: a failed start that is not explained is still in the file, its extension is
  gone or going, and a banner is up or the notification of the file in the queue. With it,
  `ReasonReachesUser` (`ReasonShown`).
- `TunnelPhases`: which phases of the extension go with which status of the connection.
- `StageOnItsWay`: while the tunnel is down or runs, Home is right, or a file is being cleared, or the queue
  holds a job that will put it right and, behind it, none that would put it wrong again
  (`Corrected`: a `note`, a `state` or an `apply` of the present status comes after every `apply`
  of an older one). Every move of the status posts such a job. With it, `HomeFollows`
  (`StageSettles`). Proving it showed that an earlier statement of the property, which excused
  two overlapping disconnects only, was not inductive: one disconnect is enough, as TLC
  confirmed with larger bounds. The exception is now the one disconnect and the state it leaves
  (`Misled`).
- `ConfigOnItsWay`: what the saved configuration will be once the calls under way are served, the
  last save among them or else what is saved (`LastSaved`), is as it was asked for (`Intended`): it
  names the selected profile, or an update is in the queue, or the profile is spoiled; and after a
  disconnect it has no rule, or the rule is spoiled. A coroutine sets one part of the object, or both,
  and sends it whole: the part it set is right, and the other is what was sent before unless
  the object was behind. With it, `SelectionReachesExtension` (`ConfigFollows`) and `StaysOff`
  (`OffStaysOff`), for any number of coroutines suspended at once.

### CountryProofs

Any width of an address, any history of releases. `WidthAssumption` gives what the prover
cannot compute: for the sizes in use a power of two is a positive number and the next one is
twice as large.

- `RoutesTypeCorrect`, and `ServedExactly` (`FilesExact`): `ExactInv` says at each step of merge
  and split which addresses are in the ranges not yet taken, the one in hand, the closed ones and
  the blocks written; together they are the country's (`WorkExact`), since the ranges are
  taken in order (`InOrder`). `SplitExact` shows that the largest aligned block that
  fits leaves exactly the rest.
- `NothingStale` (`NeverStale`): a cache file was made for the country and the length in its
  name (`CacheNamed`), and an answer for those of the call and the installed release
  (`AnswerFresh`).
- `ServedMinimal` (`FilesMinimal`): two blocks that one could replace are the two halves of an
  aligned block (`Halves`). `MinimalInv` says that after each merged range there is an address
  which is not the country's (`GapsKept`), and that each block written is the largest that could
  stand at its base (`Greedy`): the lower half could have been doubled.

### SetupProofs

Any width, profiles and country files; `SetupAssumption` puts the constants into the address
space and makes the tunnel's subnet no larger than 10/8.

- Both theorems rest on `SetupInv`: the settings the engine runs under were made from the profile,
  the file and the server it starts with, and from what the reader of the routes got.
- `PrivateLeaves` (`PrivateSplit`): an address and the tunnel's are in one block of size b when
  their quotients by 2^b agree, and in sibling blocks when only the quotients at b + 1 do
  (`InBlock`, `InSibling`). For an address of 10/8 outside the subnet the greatest size at which
  the two part names the sibling it is in (`Parting`).
- `ReadersAgree` (`RoutesFollowTable`): `TableOf` is what the merge keeps. The ranges of the table
  lie apart and in order, cover what the ranges merged so far cover, and start no later than the
  last of these, so that the next one joins the last range of the table or follows it
  (`JoinKeeps`). In such a table the last range that starts at or before an address is the only
  one that can hold it (`Lookup`). The merge of a set is a function defined by recursion on the
  set without its last range; that it is defined, and what holds of it, is shown for the smallest
  cardinality at which it would fail (`MergeRuns`, `MergedIsTable`).

### PacketPathProofs

Any packets, length fields and messages.

- `ParsersStayInside` (`ReadsInBounds`): the bound that `tls_sni` reads up to is inside the
  record through the whole walk (`LimitInRecord`), because the end of the extensions is
  clamped when it is read (`ExtEndClamps`).
- `AnswersGoBack` (`AnswersTheAsker`): between the parser and the answer the task holds a
  packet the parser accepted (`AskedInv`), and the words of the header are where the two
  addresses were put (`HeaderHosts`, `DatagramFields`).
- `SumsVerify` (`ChecksumsVerify`): writing the sum into a packet changes one word that was zero, and the
  sum of the words by as much (`SumChanged`). Folding takes away multiples of 65535
  (`FoldTakesAway`), so that the words with the complement of their sum add up to one
  (`ComplementVerifies`); all ones in the place of zero is the same multiple.
- `WrapsUnwrap` (`FramesInvert`), about `Carrier`: what is on the wire is what one of the ends wrapped
  (`CarrierInv`), and unwrapping inverts both framings for datagrams of any length. For base64,
  `Holds` is the loop invariant of the decoder: after j digits of chunk c it has written all
  complete bytes, and its buffer ends with the first bits of the next one. It survives each of the
  four digits, and the digits that padding replaces are those of bytes the datagram does not have.
  For the QUIC-like header the first byte gives the length of the packet number, whatever its
  value.

Running sums, the decoder's states and the merged table are functions defined by recursion. What
they compute is proved by the least number at which it would fail (`LeastNumber`), since the
library's induction theorems cannot be used.

### AppStoreProofs

- `WholeAfterDeath` (`RestoredWhole`, of `ProfileStore`): `StoreInv` speaks of the keys. Until the
  list is written a launch must give one of the two states with the old list and with the new one;
  from then on with the new one; the id is written last (`KeysInStep`).
- `LogKept` (`LinesFound`, of `LogMirror`): while lines belong in the file the handle is the file of
  the path, and while they belong in the backup it is the file renamed (`GoesWhereSaid`).

### Only model-checked

Every safety property that a passing run checks is a theorem. Liveness is not: `QueueDrains`,
`StopBlockingReturns` and `AbortedTasksEnd` of the data plane, `QueryFinishes` of the interceptor,
`RestartHappens` and `NeverUpAndDead` of the provider, `EveryCallReturns` of the country files and
`TogglesAgain` of the app. Fairness and ENABLED are out of the prover's reach.

## 5. Not modelled, and what is left

Not modelled, and why:

- the traffic pump: it differences cumulative counters for display. That a restart resets
  its baseline, so that the first figure after one is wrong, is read off the code
  (`SVTunnelEngine.m:236`, listed as a hazard), and it has no other state;
- the DNS wire format (`vendor/dns.rs`): the other modules take from it only whether a
  message has a question and an A record, as any value;
- cryptography (a library's primitives; a packet decrypts or does not), the memory figure
  (one system call), the views, build and release files;
- in the parts that are modelled partly: the thread-local error and the argument checks of
  the C interface, the syntax of the configuration, the texts the flow inspection returns,
  the fields and the share link of a profile, the branch of `refresh` that installs the first
  configuration;
- what the operating system does with a callback that never returns after the join
  has expired.

Left to do, most useful first: the control queue of `Provider` as the host of `DataPlane`, both
refining an abstract tunnel that is off, coming up, up or going down; the first-install branch of
`refresh`; the rates of the traffic pump.

## 6. Running

    tlc -workers 2 -config DataPlane_lifecycle.cfg MCDataPlane.tla
    tlc -workers 2 -config Pieces_hold.cfg MCPieces.tla
    tlc -workers 2 -config App_safe.cfg MCControl.tla
    tlc -config LogMirror_cleared.cfg LogMirror.tla
    tlapm ProviderProofs.tla

`PROJECT.json` has the configuration of each run. The runs take from seconds to three
minutes, the proofs from seconds to a few minutes each.
