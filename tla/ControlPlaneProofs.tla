------------------------- MODULE ControlPlaneProofs -------------------------
(* What is proved of ControlPlane for every set of profiles and of coroutines
   and every bound: where Home ends, which configuration stays saved, and that
   the reason of a failed start is shown.                                      *)
EXTENDS ControlPlane, TLAPS

Op      == {"none", "connectSave", "connectLoad", "updateSave", "updateLoad",
            "disconnectSave"}
Process == {"none", "launched", "setup", "running", "failed", "cancelled", "stopped"}
Request == [kind : {"save", "load"}, value : Configuration, by : Tids]
Job     == {<<"connect">>, <<"disconnect">>, <<"update">>, <<"note">>, <<"state">>}
           \cup ({"apply"} \X Status)
           \cup ({"resume"} \X Tids \X {"ok", "failed"})

UserTypes    == /\ stage \in Stage /\ banner \in {"none", "ne", "reason"}
                /\ misled \in BOOLEAN
                /\ used \in [taps : Nat, switches : Nat, troubles : Nat]
                /\ off \in BOOLEAN /\ owed \in BOOLEAN
                /\ spoiled \subseteq {"profile", "rule"}
ConfigTypes  == /\ object \in Configuration /\ prefs \in Configuration
                /\ selected \in Profiles
                /\ requests \in Seq(Request)
                /\ task \in [Tids -> [op : Op, held : Status]]
TunnelTypes  == /\ status \in Status /\ ext \in Process
                /\ file \in [stage : Stage, message : BOOLEAN]
                /\ clearing \in Status \cup {"no"}
ControlTypes == UserTypes /\ ConfigTypes /\ TunnelTypes /\ queue \in Seq(Job)

-----------------------------------------------------------------------------
(* Queues: what is left after the first job, and after one more. *)

LEMMA Popped ==
  ASSUME NEW S, NEW q \in Seq(S), q # <<>>
  PROVE  /\ Head(q) \in S /\ Head(q) = q[1] /\ Tail(q) \in Seq(S)
         /\ Len(q) \in Nat \ {0} /\ DOMAIN q = 1..Len(q)
         /\ Len(Tail(q)) = Len(q) - 1 /\ DOMAIN Tail(q) = 1..(Len(q) - 1)
         /\ \A i \in 1..(Len(q) - 1) : Tail(q)[i] = q[i + 1]
  OBVIOUS

LEMMA Posted ==
  ASSUME NEW S, NEW q \in Seq(S), NEW x \in S
  PROVE  /\ Append(q, x) \in Seq(S)
         /\ Len(q) \in Nat /\ DOMAIN q = 1..Len(q)
         /\ Len(Append(q, x)) = Len(q) + 1 /\ DOMAIN Append(q, x) = 1..(Len(q) + 1)
         /\ Append(q, x)[Len(q) + 1] = x
         /\ \A i \in 1..Len(q) : Append(q, x)[i] = q[i]
  OBVIOUS

LEMMA JobParts ==
  ASSUME NEW j \in Job
  PROVE  /\ j[1] \in {"connect", "disconnect", "update", "note", "state", "apply", "resume"}
         /\ j[1] = "apply" => j[2] \in Status
         /\ j[1] = "resume" => j[2] \in Tids /\ j[3] \in {"ok", "failed"}
  BY DEF Job

LEMMA JobKinds ==
  /\ {<<"connect">>, <<"disconnect">>, <<"update">>, <<"note">>, <<"state">>} \subseteq Job
  /\ \A s \in Status : <<"apply", s>> \in Job
  /\ \A t \in Tids, r \in {"ok", "failed"} : <<"resume", t, r>> \in Job
  BY DEF Job

-----------------------------------------------------------------------------
(* The variables keep their types. *)

LEMMA ControlTypesInit == ControlInit => ControlTypes
<1> SUFFICES ASSUME ControlInit PROVE ControlTypes
  OBVIOUS
<1>1. (CHOOSE p \in Profiles : TRUE) \in Profiles
  BY ControlAssumption DEF ControlAssumption
<1>2. object \in Configuration /\ selected \in Profiles
  BY <1>1 DEF ControlInit, Configuration
<1>3. requests \in Seq(Request) /\ queue \in Seq(Job)
  BY DEF ControlInit
<1> QED
  BY <1>2, <1>3 DEF ControlInit, ControlTypes, UserTypes, ConfigTypes, TunnelTypes,
    Stage, Status, Op, Process, NoTask, Wrote

\* What follows a request is the request, by a coroutine in its next step.
LEMMA AskTypes ==
  ASSUME ControlTypes, NEW t \in Tids, NEW op \in Op, NEW kind \in {"save", "load"},
         NEW snapshot \in Configuration, NEW held \in Status, Ask(t, op, kind, snapshot, held)
  PROVE  /\ requests' \in Seq(Request)
         /\ task' \in [Tids -> [op : Op, held : Status]]
  <1> DEFINE r == [kind |-> kind, value |-> snapshot, by |-> t]
  <1>1. r \in Request
    BY DEF Request
  <1>2. Append(requests, r) \in Seq(Request)
    BY <1>1, Posted DEF ControlTypes, ConfigTypes
  <1> QED
    BY <1>2 DEF Ask, ControlTypes, ConfigTypes

LEMMA ReadyJob ==
  ASSUME ControlTypes, NEW op, Ready(op)
  PROVE  /\ Head(queue) \in Job /\ Head(queue)[1] = op /\ Head(queue) = queue[1]
         /\ queue \in Seq(Job) /\ queue # <<>> /\ Tail(queue) \in Seq(Job)
         /\ 1 \in DOMAIN queue /\ clearing = "no"
  BY Popped DEF Ready, ControlTypes

LEMMA MapTypes == \A s \in Status : Map(s) \in Stage
  BY DEF Map, Status, Stage

LEMMA NoTaskTypes == NoTask \in [op : Op, held : Status]
  BY DEF NoTask, Op, Status

LEMMA UseTypes ==
  ASSUME ControlTypes, NEW bound \in {"taps", "switches", "troubles"}, Use(bound)
  PROVE  /\ used' \in [taps : Nat, switches : Nat, troubles : Nat]
         /\ used'.troubles = IF bound = "troubles" THEN used.troubles + 1 ELSE used.troubles
  BY DEF Use, ControlTypes, UserTypes

\* The tasks of the user and the jobs that read the status or state.json.
LEMMA ReadingTypes ==
  ASSUME ControlTypes,
         \/ Tap \/ StatusNote \/ ApplyStatus \/ StateNote \/ StateNoteStale \/ ClearStale
         \/ \E p \in Profiles : Select(p)
  PROVE  ControlTypes'
<1> USE DEF ControlTypes, UserTypes, ConfigTypes, TunnelTypes
<1>1. CASE Tap
  <2>1. queue' \in Seq(Job)
    BY <1>1, Posted, JobKinds DEF Tap, Post
  <2>2. used' \in [taps : Nat, switches : Nat, troubles : Nat]
    BY <1>1, UseTypes DEF Tap
  <2> QED
    BY <1>1, <2>1, <2>2 DEF Tap, uiVars, neVars, wishes, intent
<1>2. CASE StatusNote
  <2>1. queue' \in Seq(Job)
    BY <1>2, ReadyJob, Posted, JobKinds DEF StatusNote
  <2> QED
    BY <1>2, <2>1 DEF StatusNote, uiVars, neVars, wishes, intent
<1>3. CASE ApplyStatus
  <2>1. queue' \in Seq(Job) /\ Map(Head(queue)[2]) \in Stage
    BY <1>3, ReadyJob, JobParts, MapTypes DEF ApplyStatus, Pop
  <2> QED
    BY <1>3, <2>1 DEF ApplyStatus, neVars, wishes, intent
<1>4. CASE StateNote
  <2>1. queue' \in Seq(Job) /\ Reconciled(file, status) \in Stage
    BY <1>4, ReadyJob, MapTypes DEF StateNote, Pop, Reconciled, Stage
  <2> QED
    BY <1>4, <2>1 DEF StateNote, neVars, wishes, intent
<1>5. CASE StateNoteStale
  <2>1. queue' \in Seq(Job)
    BY <1>5, ReadyJob DEF StateNoteStale, Pop
  <2> QED
    BY <1>5, <2>1 DEF StateNoteStale, uiVars, neVars, wishes, intent
<1>6. CASE ClearStale
  <2>1. queue' \in Seq(Job) /\ Map(clearing) \in Stage /\ owed' \in BOOLEAN
    BY <1>6, Posted, JobKinds, MapTypes DEF ClearStale, Post
  <2>2. file' \in [stage : Stage, message : BOOLEAN]
    BY <1>6 DEF ClearStale, Wrote, Stage
  <2> QED
    BY <1>6, <2>1, <2>2 DEF ClearStale, neVars, intent
<1>7. ASSUME NEW p \in Profiles, Select(p) PROVE ControlTypes'
  <2>1. queue' \in Seq(Job)
    BY <1>7, Posted, JobKinds DEF Select, Post
  <2>2. used' \in [taps : Nat, switches : Nat, troubles : Nat]
    BY <1>7, UseTypes DEF Select
  <2> QED
    BY <1>7, <2>1, <2>2 DEF Select, uiVars, neVars, wishes, intent
<1> QED
  BY <1>1, <1>2, <1>3, <1>4, <1>5, <1>6, <1>7

LEMMA SpoiledTypes == \A c, d : Differs(c, d) \subseteq {"profile", "rule"}
  BY DEF Differs

\* What stopping the tunnel, or finding nothing to stop, leaves.
LEMMA StopTypes ==
  ASSUME ControlTypes, queue # <<>>, StopTunnel
  PROVE  status' \in Status /\ queue' \in Seq(Job)
<1>1. Tail(queue) \in Seq(Job)
  BY Popped DEF ControlTypes
<1>2. Append(Tail(queue), <<"note">>) \in Seq(Job)
  BY <1>1, Posted, JobKinds
<1> QED
  BY <1>1, <1>2 DEF ControlTypes, TunnelTypes, StopTunnel, Status, Pop

LEMMA UnstoppableTypes ==
  ASSUME ControlTypes, queue # <<>>, NEW s \in Status, Unstoppable(s)
  PROVE  /\ stage' \in Stage /\ queue' \in Seq(Job) /\ clearing' \in Status \cup {"no"}
         /\ misled' \in BOOLEAN
<1>1. Map(s) \in Stage
  BY MapTypes
<1>2. Tail(queue) \in Seq(Job)
  BY Popped DEF ControlTypes
<1> QED
  BY <1>1, <1>2 DEF ControlTypes, UserTypes, TunnelTypes, Unstoppable, Pop

\* The beginning of a coroutine.
LEMMA BeginningTypes ==
  ASSUME ControlTypes, NEW t \in Tids, Connect(t) \/ Update(t) \/ Disconnect(t)
  PROVE  ControlTypes'
<1>1. CASE Connect(t)
  <2>1. object' \in Configuration
    BY <1>1 DEF Connect, Configuration, ControlTypes, ConfigTypes
  <2>2. requests' \in Seq(Request) /\ task' \in [Tids -> [op : Op, held : Status]]
    BY <1>1, <2>1, AskTypes DEF Connect, Op, Status
  <2>3. queue' \in Seq(Job)
    BY <1>1, ReadyJob DEF Connect, Pop
  <2> QED
    BY <1>1, <2>1, <2>2, <2>3 DEF Connect, ControlTypes, UserTypes, ConfigTypes, TunnelTypes
<1>2. CASE Update(t)
  <2>1. object' \in Configuration
    BY <1>2 DEF Update, Configuration, ControlTypes, ConfigTypes
  <2>2. requests' \in Seq(Request) /\ task' \in [Tids -> [op : Op, held : Status]]
    BY <1>2, <2>1, AskTypes DEF Update, Op, Status
  <2>3. queue' \in Seq(Job)
    BY <1>2, ReadyJob DEF Update, Pop
  <2>4. spoiled' \subseteq {"profile", "rule"}
    BY <1>2, SpoiledTypes DEF Update, Behind, ControlTypes, UserTypes
  <2> QED
    BY <1>2, <2>1, <2>2, <2>3, <2>4 DEF Update, ControlTypes, UserTypes, ConfigTypes,
      TunnelTypes, uiVars
<1>3. CASE Disconnect(t)
  <2>1. queue # <<>> /\ Tail(queue) \in Seq(Job)
    BY <1>3, ReadyJob DEF Disconnect
  <2>2. off' = TRUE /\ spoiled' \subseteq {"profile", "rule"}
    BY <1>3, SpoiledTypes DEF Disconnect, Behind, ControlTypes, UserTypes
  <2>3. CASE object.onDemand
    <3>1. object' \in Configuration
      BY <1>3, <2>3 DEF Disconnect, Configuration, ControlTypes, ConfigTypes
    <3>2. requests' \in Seq(Request) /\ task' \in [Tids -> [op : Op, held : Status]]
      BY <1>3, <2>3, <3>1, AskTypes DEF Disconnect, Op, ControlTypes, TunnelTypes
    <3> QED
      BY <1>3, <2>1, <2>2, <2>3, <3>1, <3>2
         DEF Disconnect, Pop, ControlTypes, UserTypes, ConfigTypes, TunnelTypes
  <2>4. CASE ~object.onDemand /\ status # "disconnected"
    <3>1. StopTunnel /\ UNCHANGED <<stage, misled, clearing, object, task, requests>>
      BY <1>3, <2>4 DEF Disconnect
    <3>2. status' \in Status /\ queue' \in Seq(Job)
      BY <2>1, <3>1, StopTypes
    <3> QED
      BY <1>3, <2>2, <3>1, <3>2
         DEF Disconnect, ControlTypes, UserTypes, ConfigTypes, TunnelTypes
  <2>5. CASE ~object.onDemand /\ status = "disconnected"
    <3>1. Unstoppable(status) /\ UNCHANGED <<status, object, task, requests>>
      BY <1>3, <2>5 DEF Disconnect
    <3>2. /\ stage' \in Stage /\ queue' \in Seq(Job) /\ clearing' \in Status \cup {"no"}
          /\ misled' \in BOOLEAN
      BY <2>1, <3>1, UnstoppableTypes DEF ControlTypes, TunnelTypes
    <3> QED
      BY <1>3, <2>2, <3>1, <3>2
         DEF Disconnect, ControlTypes, UserTypes, ConfigTypes, TunnelTypes
  <2> QED
    BY <2>3, <2>4, <2>5
<1> QED
  BY <1>1, <1>2, <1>3

\* A coroutine resumes, or ends.
LEMMA EndsTypes ==
  ASSUME ControlTypes, NEW t \in Tids, Ends(t)
  PROVE  task' \in [Tids -> [op : Op, held : Status]]
  BY NoTaskTypes DEF Ends, ControlTypes, ConfigTypes

LEMMA ResumingJob ==
  ASSUME ControlTypes, NEW t \in Tids, NEW op, Resumes(t, op)
  PROVE  /\ Head(queue)[1] = "resume" /\ Head(queue)[2] = t /\ Head(queue) \in Job
         /\ Head(queue) = queue[1] /\ Head(queue)[3] \in {"ok", "failed"}
         /\ queue # <<>> /\ Tail(queue) \in Seq(Job) /\ task[t].op = op /\ clearing = "no"
  BY ReadyJob, JobParts DEF Resumes

LEMMA ResumingTypes ==
  ASSUME ControlTypes, NEW t \in Tids,
         \/ Saved(t, "connectSave", "connectLoad") \/ Saved(t, "updateSave", "updateLoad")
         \/ \E op \in {"connectSave", "connectLoad", "updateSave", "updateLoad"} : Fails(t, op)
         \/ Updated(t) \/ Started(t) \/ StartThrows(t) \/ RuleSaved(t)
  PROVE  ControlTypes'
<1>1. ASSUME NEW op \in Op, NEW next \in Op, Saved(t, op, next) PROVE ControlTypes'
  <2>1. requests' \in Seq(Request) /\ task' \in [Tids -> [op : Op, held : Status]]
    BY <1>1, AskTypes DEF Saved, Status, ControlTypes, ConfigTypes
  <2>2. queue' \in Seq(Job)
    BY <1>1, ResumingJob DEF Saved, Pop
  <2> QED
    BY <1>1, <2>1, <2>2 DEF Saved, ControlTypes, UserTypes, ConfigTypes, TunnelTypes,
      uiVars, wishes, intent
<1>2. ASSUME NEW op \in {"connectSave", "connectLoad", "updateSave", "updateLoad"},
             Fails(t, op)
      PROVE  ControlTypes'
  <2>1. queue' \in Seq(Job) /\ task' \in [Tids -> [op : Op, held : Status]]
    BY <1>2, ResumingJob, EndsTypes DEF Fails, Pop
  <2> QED
    BY <1>2, <2>1 DEF Fails, ControlTypes, UserTypes, ConfigTypes, TunnelTypes, Stage,
      neVars, wishes, intent
<1>3. CASE Updated(t)
  <2>1. queue' \in Seq(Job) /\ task' \in [Tids -> [op : Op, held : Status]]
    BY <1>3, ResumingJob, EndsTypes DEF Updated, Pop
  <2> QED
    BY <1>3, <2>1 DEF Updated, ControlTypes, UserTypes, ConfigTypes, TunnelTypes,
      uiVars, neVars, wishes, intent
<1>4. CASE Started(t)
  <2>1. Tail(queue) \in Seq(Job) /\ task' \in [Tids -> [op : Op, held : Status]]
    BY <1>4, ResumingJob, EndsTypes DEF Started
  <2>2. Append(Tail(queue), <<"note">>) \in Seq(Job)
    BY <2>1, Posted, JobKinds
  <2>3. queue' \in Seq(Job)
    BY <1>4, <2>1, <2>2 DEF Started, Pop
  <2>4. status' \in Status /\ ext' \in Process /\ owed' \in BOOLEAN
    BY <1>4 DEF Started, ControlTypes, UserTypes, TunnelTypes, Status, Process
  <2> QED
    BY <1>4, <2>1, <2>3, <2>4 DEF Started, ControlTypes, UserTypes, ConfigTypes, TunnelTypes,
      uiVars, intent
<1>5. CASE StartThrows(t)
  <2>1. queue' \in Seq(Job) /\ task' \in [Tids -> [op : Op, held : Status]]
    BY <1>5, ResumingJob, EndsTypes DEF StartThrows, Pop
  <2>2. used' \in [taps : Nat, switches : Nat, troubles : Nat]
    BY <1>5, UseTypes DEF StartThrows
  <2> QED
    BY <1>5, <2>1, <2>2 DEF StartThrows, ControlTypes, UserTypes, ConfigTypes, TunnelTypes,
      Stage, neVars, wishes, intent
<1>6. CASE RuleSaved(t)
  <2>1. queue # <<>> /\ task' \in [Tids -> [op : Op, held : Status]] /\ task[t].held \in Status
    BY <1>6, ResumingJob, EndsTypes DEF RuleSaved, ControlTypes, ConfigTypes
  <2>2. CASE task[t].held # "disconnected"
    <3>1. status' \in Status /\ queue' \in Seq(Job) /\ UNCHANGED <<stage, misled, clearing>>
      BY <1>6, <2>1, <2>2, StopTypes DEF RuleSaved
    <3> QED
      BY <1>6, <2>1, <3>1 DEF RuleSaved, ControlTypes, UserTypes, ConfigTypes, TunnelTypes,
        wishes, intent
  <2>3. CASE task[t].held = "disconnected"
    <3>1. /\ stage' \in Stage /\ queue' \in Seq(Job) /\ clearing' \in Status \cup {"no"}
          /\ misled' \in BOOLEAN /\ UNCHANGED status
      BY <1>6, <2>1, <2>3, UnstoppableTypes DEF RuleSaved
    <3> QED
      BY <1>6, <2>1, <3>1 DEF RuleSaved, ControlTypes, UserTypes, ConfigTypes, TunnelTypes,
        wishes, intent
  <2> QED
    BY <2>2, <2>3
<1> QED
  BY <1>1, <1>2, <1>3, <1>4, <1>5, <1>6 DEF Op

\* NetworkExtension serves or refuses a call.
LEMMA ServedRequest ==
  ASSUME ControlTypes, requests # <<>>
  PROVE  /\ Head(requests) \in Request /\ Head(requests) = requests[1]
         /\ 1 \in DOMAIN requests /\ Tail(requests) \in Seq(Request)
         /\ Head(requests).by \in Tids
  <1>1. Head(requests) \in Request /\ Head(requests) = requests[1]
        /\ 1 \in DOMAIN requests /\ Tail(requests) \in Seq(Request)
    BY Popped DEF ControlTypes, ConfigTypes
  <1> QED
    BY <1>1 DEF Request

LEMMA ServingTypes ==
  ASSUME ControlTypes, Serve \/ Refuse PROVE ControlTypes'
<1>0. /\ requests # <<>> /\ Head(requests) \in Request /\ Tail(requests) \in Seq(Request)
      /\ Head(requests).by \in Tids
  BY ServedRequest DEF Serve, Refuse
<1>1. CASE Serve
  <2>1. queue' \in Seq(Job)
    BY <1>0, <1>1, Posted, JobKinds DEF Serve, Post, ControlTypes
  <2>2. prefs' \in Configuration /\ object' \in Configuration
    BY <1>0, <1>1 DEF Serve, Request, ControlTypes, ConfigTypes
  <2> QED
    BY <1>0, <1>1, <2>1, <2>2 DEF Serve, ControlTypes, UserTypes, ConfigTypes, TunnelTypes,
      uiVars, wishes, intent
<1>2. CASE Refuse
  <2>1. queue' \in Seq(Job)
    BY <1>0, <1>2, Posted, JobKinds DEF Refuse, Post, ControlTypes
  <2>2. used' \in [taps : Nat, switches : Nat, troubles : Nat]
    BY <1>2, UseTypes DEF Refuse
  <2>3. spoiled' \subseteq {"profile", "rule"}
    BY <1>2, SpoiledTypes DEF Refuse, ControlTypes, UserTypes
  <2> QED
    BY <1>0, <1>2, <2>1, <2>2, <2>3 DEF Refuse, ControlTypes, UserTypes, ConfigTypes,
      TunnelTypes, uiVars
<1> QED
  BY <1>1, <1>2

\* The connection and the extension move; each move posts a notification.
Tells == OnDemand \/ NoticesStart \/ NoticesFailure \/ NoticesCancel \/ NoticesStop \/ Killed
Reports == ExtBegins \/ ExtStarts \/ ExtFails \/ ExtStops \/ ExtRestartFails

LEMMA MovingTypes ==
  ASSUME ControlTypes, Tells \/ Reports PROVE ControlTypes'
<1>1. Append(queue, <<"note">>) \in Seq(Job) /\ Append(queue, <<"state">>) \in Seq(Job)
  BY Posted, JobKinds DEF ControlTypes
<1>2. ASSUME NEW s \in Status, NEW e \in Process, Moves(s, e),
             used' \in [taps : Nat, switches : Nat, troubles : Nat],
             UNCHANGED intent, owed' \in BOOLEAN
      PROVE  ControlTypes'
  BY <1>1, <1>2 DEF Moves, Post, ControlTypes, UserTypes, ConfigTypes, TunnelTypes, uiVars, intent
<1>3. ASSUME NEW st \in Stage, NEW m \in BOOLEAN, NEW e \in Process, Writes(st, m, e),
             used' \in [taps : Nat, switches : Nat, troubles : Nat],
             UNCHANGED intent, owed' \in BOOLEAN
      PROVE  ControlTypes'
  BY <1>1, <1>3 DEF Writes, Wrote, Post, ControlTypes, UserTypes, ConfigTypes, TunnelTypes,
    uiVars, intent
<1>4. CASE Tells
  <2>1. used' \in [taps : Nat, switches : Nat, troubles : Nat]
    BY <1>4, UseTypes DEF Tells, OnDemand, NoticesStart, NoticesFailure, NoticesCancel,
      NoticesStop, Killed, ControlTypes, UserTypes
  <2>2. UNCHANGED intent /\ owed' \in BOOLEAN
    BY <1>4 DEF Tells, OnDemand, NoticesStart, NoticesFailure, NoticesCancel,
      NoticesStop, Killed, wishes, intent, ControlTypes, UserTypes
  <2>3. \E s \in Status, e \in Process : Moves(s, e)
    BY <1>4 DEF Tells, OnDemand, NoticesStart, NoticesFailure, NoticesCancel,
      NoticesStop, Killed, ControlTypes, TunnelTypes, Status, Process
  <2> QED
    BY <1>2, <2>1, <2>2, <2>3
<1>5. CASE Reports
  <2>1. used' \in [taps : Nat, switches : Nat, troubles : Nat]
    BY <1>5, UseTypes DEF Reports, ExtBegins, ExtStarts, ExtFails, ExtStops,
      ExtRestartFails, ControlTypes, UserTypes
  <2>2. UNCHANGED intent /\ owed' \in BOOLEAN
    BY <1>5 DEF Reports, ExtBegins, ExtStarts, ExtFails, ExtStops, ExtRestartFails,
      wishes, intent, ControlTypes, UserTypes
  <2>3. \E st \in Stage, m \in BOOLEAN, e \in Process : Writes(st, m, e)
    BY <1>5 DEF Reports, ExtBegins, ExtStarts, ExtFails, ExtStops, ExtRestartFails,
      Stage, Process
  <2> QED
    BY <1>3, <2>1, <2>2, <2>3
<1> QED
  BY <1>4, <1>5

\* A step of ControlNext, by the part of the program that takes it.
Reads   == Tap \/ StatusNote \/ ApplyStatus \/ StateNote \/ StateNoteStale \/ ClearStale
Begins(t) == Connect(t) \/ Update(t) \/ Disconnect(t)
Resumed(t) ==
  \/ Saved(t, "connectSave", "connectLoad") \/ Saved(t, "updateSave", "updateLoad")
  \/ \E op \in {"connectSave", "connectLoad", "updateSave", "updateLoad"} : Fails(t, op)
  \/ Updated(t) \/ Started(t) \/ StartThrows(t) \/ RuleSaved(t)

LEMMA StepCases ==
  ASSUME ControlNext
  PROVE  \/ Reads \/ (\E p \in Profiles : Select(p)) \/ (\E t \in Tids : Begins(t))
         \/ (\E t \in Tids : Resumed(t)) \/ Serve \/ Refuse \/ Tells \/ Reports
  BY Zenon DEF ControlNext, MainActor, System, Reads, Begins, Resumed, Tells, Reports

LEMMA ControlTypesStep == ControlTypes /\ [ControlNext]_cpVars => ControlTypes'
<1> SUFFICES ASSUME ControlTypes, [ControlNext]_cpVars PROVE ControlTypes'
  OBVIOUS
<1>1. CASE UNCHANGED cpVars
  BY <1>1 DEF cpVars, uiVars, neVars, ControlTypes, UserTypes, ConfigTypes, TunnelTypes
<1>2. CASE ControlNext
  <2>1. \/ Reads \/ (\E p \in Profiles : Select(p)) \/ (\E t \in Tids : Begins(t))
        \/ (\E t \in Tids : Resumed(t)) \/ Serve \/ Refuse \/ Tells \/ Reports
    BY <1>2, StepCases
  <2>2. CASE Reads \/ (\E p \in Profiles : Select(p))
    BY <2>2, ReadingTypes DEF Reads
  <2>3. ASSUME NEW t \in Tids, Begins(t) PROVE ControlTypes'
    BY <2>3, BeginningTypes DEF Begins
  <2>4. ASSUME NEW t \in Tids, Resumed(t) PROVE ControlTypes'
    BY <2>4, ResumingTypes DEF Resumed
  <2>5. CASE Serve \/ Refuse
    BY <2>5, ServingTypes
  <2>6. CASE Tells \/ Reports
    BY <2>6, MovingTypes
  <2> QED
    BY <2>1, <2>2, <2>3, <2>4, <2>5, <2>6
<1> QED
  BY <1>1, <1>2

-----------------------------------------------------------------------------
(* What a step does to the queue. *)

Plain      == {<<"connect">>, <<"disconnect">>, <<"update">>, <<"note">>, <<"state">>}
Posts(X)   == \E x \in X : queue' = Append(queue, x)
Pops(name, X) == /\ Ready(name)
                 /\ queue' = Tail(queue) \/ \E x \in X : queue' = Append(Tail(queue), x)

LEMMA PlainPosts ==
  ASSUME Tap \/ ClearStale \/ (\E p \in Profiles : Select(p)) \/ Tells \/ Reports
  PROVE  Posts(Plain)
<1>1. CASE Tap \/ ClearStale \/ \E p \in Profiles : Select(p)
  BY <1>1 DEF Tap, ClearStale, Select, Post, Posts, Plain
<1>2. CASE Tells
  BY <1>2 DEF Tells, OnDemand, NoticesStart, NoticesFailure, NoticesCancel,
    NoticesStop, Killed, Moves, Post, Posts, Plain
<1>3. CASE Reports
  BY <1>3 DEF Reports, ExtBegins, ExtStarts, ExtFails, ExtStops, ExtRestartFails,
    Writes, Post, Posts, Plain
<1> QED
  BY <1>1, <1>2, <1>3

LEMMA ReadPops ==
  /\ StatusNote => Pops("note", {<<"apply", status>>})
  /\ ApplyStatus => Pops("apply", {})
  /\ StateNote \/ StateNoteStale => Pops("state", {})
  BY DEF StatusNote, ApplyStatus, StateNote, StateNoteStale, Pop, Pops

LEMMA BeginPops ==
  ASSUME NEW t \in Tids
  PROVE  /\ Connect(t) => Pops("connect", {})
         /\ Update(t) => Pops("update", {})
         /\ Disconnect(t) => Pops("disconnect", {<<"note">>})
  BY DEF Connect, Update, Disconnect, StopTunnel, Unstoppable, Pop, Pops

LEMMA ResumePops ==
  ASSUME NEW t \in Tids, Resumed(t)
  PROVE  Pops("resume", {<<"note">>}) /\ Head(queue)[2] = t
  BY DEF Resumed, Saved, Fails, Updated, Started, StartThrows, RuleSaved, Resumes,
    StopTunnel, Unstoppable, Pop, Pops

LEMMA ServePosts ==
  /\ Serve => queue' = Append(queue, <<"resume", Head(requests).by, "ok">>)
  /\ Refuse => queue' = Append(queue, <<"resume", Head(requests).by, "failed">>)
  BY DEF Serve, Refuse, Post

Has(q, name) == \E i \in DOMAIN q : q[i][1] = name

LEMMA HasPosted ==
  ASSUME NEW q \in Seq(Job), NEW x \in Job, NEW name
  PROVE  Has(Append(q, x), name) <=> Has(q, name) \/ x[1] = name
<1> DEFINE r == Append(q, x)
<1>1. /\ Len(q) \in Nat /\ DOMAIN q = 1..Len(q) /\ DOMAIN r = 1..(Len(q) + 1)
      /\ r[Len(q) + 1] = x /\ \A i \in 1..Len(q) : r[i] = q[i]
  BY Posted
<1> HIDE DEF r
<1>2. \A i \in DOMAIN r : i \in DOMAIN q \/ i = Len(q) + 1
  BY <1>1
<1>3. DOMAIN q \subseteq DOMAIN r /\ Len(q) + 1 \in DOMAIN r
  BY <1>1
<1>4. Has(r, name) <=> Has(q, name) \/ x[1] = name
  BY <1>1, <1>2, <1>3, Zenon DEF Has
<1> QED
  BY <1>4 DEF r

LEMMA HasPopped ==
  ASSUME NEW q \in Seq(Job), q # <<>>, NEW name
  PROVE  /\ Has(Tail(q), name) => Has(q, name)
         /\ Has(q, name) => Has(Tail(q), name) \/ Head(q)[1] = name
<1> DEFINE r == Tail(q)
<1>1. /\ Len(q) \in Nat \ {0} /\ DOMAIN q = 1..Len(q) /\ DOMAIN r = 1..(Len(q) - 1)
      /\ Head(q) = q[1] /\ \A i \in 1..(Len(q) - 1) : r[i] = q[i + 1]
  BY Popped
<1> HIDE DEF r
<1>2. \A i \in DOMAIN q : i = 1 \/ (i - 1 \in DOMAIN r /\ r[i - 1] = q[i])
  BY <1>1
<1>3. \A i \in DOMAIN r : i + 1 \in DOMAIN q /\ r[i] = q[i + 1]
  BY <1>1
<1>4. Has(r, name) => Has(q, name)
  BY <1>3, Zenon DEF Has
<1>5. ASSUME NEW i \in DOMAIN q, q[i][1] = name PROVE Has(r, name) \/ Head(q)[1] = name
  <2>1. CASE i = 1
    BY <1>1, <1>5, <2>1
  <2>2. CASE i - 1 \in DOMAIN r /\ r[i - 1] = q[i]
    BY <1>5, <2>2, Zenon DEF Has
  <2> QED
    BY <1>2, <2>1, <2>2
<1> QED
  BY <1>4, <1>5 DEF r, Has

LEMMA HasStep ==
  ASSUME ControlTypes, NEW name
  PROVE  /\ \A X \in SUBSET Job : Posts(X) =>
              /\ Has(queue, name) => Has(queue', name)
              /\ Has(queue', name) => Has(queue, name) \/ \E x \in X : x[1] = name
         /\ \A other, X : X \subseteq Job /\ Pops(other, X) /\ other # name =>
              /\ Has(queue, name) => Has(queue', name)
              /\ Has(queue', name) => Has(queue, name) \/ \E x \in X : x[1] = name
<1>0. queue \in Seq(Job)
  BY DEF ControlTypes
<1>1. ASSUME NEW X \in SUBSET Job, Posts(X)
      PROVE  /\ Has(queue, name) => Has(queue', name)
             /\ Has(queue', name) => Has(queue, name) \/ \E x \in X : x[1] = name
  <2>1. PICK x \in X : queue' = Append(queue, x)
    BY <1>1 DEF Posts
  <2>2. Has(Append(queue, x), name) <=> Has(queue, name) \/ x[1] = name
    BY <1>0, <1>1, <2>1, HasPosted
  <2> QED
    BY <2>1, <2>2, Zenon
<1>2. ASSUME NEW other, NEW X, X \subseteq Job, Pops(other, X), other # name
      PROVE  /\ Has(queue, name) => Has(queue', name)
             /\ Has(queue', name) => Has(queue, name) \/ \E x \in X : x[1] = name
  <2>1. /\ Head(queue)[1] # name /\ queue # <<>> /\ Tail(queue) \in Seq(Job)
    BY <1>2, ReadyJob DEF Pops
  <2>2. Has(Tail(queue), name) <=> Has(queue, name)
    BY <1>0, <2>1, HasPopped
  <2>3. CASE queue' = Tail(queue)
    BY <2>2, <2>3, Zenon
  <2>4. ASSUME NEW x \in X, queue' = Append(Tail(queue), x)
        PROVE  /\ Has(queue, name) => Has(queue', name)
               /\ Has(queue', name) => Has(queue, name) \/ \E y \in X : y[1] = name
    <3>1. Has(Append(Tail(queue), x), name) <=> Has(Tail(queue), name) \/ x[1] = name
      BY <1>2, <2>1, HasPosted
    <3> QED
      BY <2>2, <2>4, <3>1, Zenon
  <2> QED
    BY <1>2, <2>3, <2>4 DEF Pops
<1> QED
  BY <1>1, <1>2

-----------------------------------------------------------------------------
(* The reason of a failed start. *)

(* ReasonShown speaks of the end.  Until the user is told, the reason must stay
   in state.json and the notification of it in the queue: the file is not
   active, so that no job takes it for stale, and the extension that wrote it
   writes nothing any more.                                                    *)
ReasonOnItsWay ==
  owed => /\ file = Wrote("error", TRUE) /\ ext \in {"failed", "none"}
          /\ banner # "none" \/ Has(queue, "state")

\* A step that leaves the file alone and pops no other notification of it.
LEMMA ReasonStays ==
  ASSUME ReasonOnItsWay,
         owed' => /\ owed /\ file' = file /\ ext' \in {"failed", "none"}
                  /\ (banner # "none" => banner' # "none")
                  /\ (banner' = "none" => (Has(queue, "state") => Has(queue', "state")))
  PROVE  ReasonOnItsWay'
  BY DEF ReasonOnItsWay

LEMMA PlainJobs == Plain \subseteq Job /\ {<<"note">>} \subseteq Job
                   /\ {} \subseteq Job
                   /\ \A t \in Tids, r \in {"ok", "failed"} : {<<"resume", t, r>>} \subseteq Job
                   /\ \A s \in Status : {<<"apply", s>>} \subseteq Job
  BY JobKinds DEF Plain

\* Only the job that reads state.json takes its notification off the queue.
LEMMA StateNoteStays ==
  ASSUME ControlTypes,
         \/ Tap \/ (\E p \in Profiles : Select(p)) \/ StatusNote \/ ApplyStatus \/ ClearStale
         \/ (\E t \in Tids : Begins(t)) \/ (\E t \in Tids : Resumed(t))
         \/ Serve \/ Refuse \/ Tells \/ Reports
  PROVE  Has(queue, "state") => Has(queue', "state")
<1>0. queue \in Seq(Job) /\ status \in Status
  BY DEF ControlTypes, TunnelTypes
<1>1. CASE Tap \/ ClearStale \/ (\E p \in Profiles : Select(p)) \/ Tells \/ Reports
  BY <1>1, PlainPosts, PlainJobs, HasStep
<1>2. CASE StatusNote
  <2>1. Pops("note", {<<"apply", status>>})
    BY <1>2, ReadPops, Zenon
  <2>2. <<"apply", status>> \in Job
    BY <1>0, JobKinds
  <2> QED
    BY <2>1, <2>2, HasStep
<1>3. CASE ApplyStatus
  BY <1>3, ReadPops, PlainJobs, HasStep
<1>4. ASSUME NEW t \in Tids, Begins(t) PROVE Has(queue, "state") => Has(queue', "state")
  BY <1>4, BeginPops, PlainJobs, HasStep DEF Begins
<1>5. ASSUME NEW t \in Tids, Resumed(t) PROVE Has(queue, "state") => Has(queue', "state")
  BY <1>5, ResumePops, PlainJobs, HasStep
<1>6. CASE Serve \/ Refuse
  <2>1. Head(requests).by \in Tids
    BY <1>6, ServedRequest DEF Serve, Refuse
  <2>2. PICK x \in Job : queue' = Append(queue, x)
    BY <1>6, <2>1, ServePosts, JobKinds
  <2> QED
    BY <1>0, <2>2, HasPosted
<1> QED
  BY <1>1, <1>2, <1>3, <1>4, <1>5, <1>6

LEMMA ReasonInit == ControlInit => ReasonOnItsWay
  BY DEF ControlInit, ReasonOnItsWay

LEMMA ReasonStep ==
  ASSUME ControlTypes, ReasonOnItsWay, [ControlNext]_cpVars PROVE ReasonOnItsWay'
<1>1. CASE UNCHANGED cpVars
  BY <1>1 DEF cpVars, uiVars, neVars, ReasonOnItsWay, Has
<1>2. CASE Tap \/ (\E p \in Profiles : Select(p)) \/ StatusNote
  <2>1. UNCHANGED <<banner, file, ext, owed>>
    BY <1>2 DEF Tap, Select, StatusNote, uiVars, neVars, wishes, intent
  <2> QED
    BY <1>2, <2>1, StateNoteStays, ReasonStays DEF ReasonOnItsWay
<1>3. CASE ApplyStatus
  <2>1. UNCHANGED <<file, ext, owed>> /\ (banner # "none" => banner' # "none")
    BY <1>3 DEF ApplyStatus, neVars, wishes, intent
  <2> QED
    BY <1>3, <2>1, StateNoteStays, ReasonStays DEF ReasonOnItsWay
<1>4. CASE StateNote
  BY <1>4, ReasonStays DEF StateNote, neVars, wishes, intent, ReasonOnItsWay, Wrote
<1>5. CASE StateNoteStale
  BY <1>5 DEF StateNoteStale, IsActive, neVars, wishes, intent, ReasonOnItsWay, Wrote
<1>6. CASE ClearStale
  <2>1. owed => file.stage = "error"
    BY DEF ReasonOnItsWay, Wrote
  <2>2. owed' = FALSE
    BY <1>6, <2>1 DEF ClearStale, ControlTypes, UserTypes
  <2> QED
    BY <2>2 DEF ReasonOnItsWay
<1>7. ASSUME NEW t \in Tids, Begins(t) PROVE ReasonOnItsWay'
  <2>1. owed' => UNCHANGED <<banner, file, ext, owed>>
    BY <1>7 DEF Begins, Connect, Update, Disconnect, uiVars, wishes, intent
  <2> QED
    BY <1>7, <2>1, StateNoteStays, ReasonStays DEF ReasonOnItsWay
<1>8. ASSUME NEW t \in Tids, Resumed(t) PROVE ReasonOnItsWay'
  <2>1. owed' => UNCHANGED <<file, ext, owed>> /\ (banner # "none" => banner' # "none")
    BY <1>8 DEF Resumed, Saved, Fails, Updated, Started, StartThrows, RuleSaved,
      uiVars, neVars, wishes, intent
  <2> QED
    BY <1>8, <2>1, StateNoteStays, ReasonStays DEF ReasonOnItsWay
<1>9. CASE Serve \/ Refuse
  <2>1. UNCHANGED <<banner, file, ext, owed>>
    BY <1>9 DEF Serve, Refuse, uiVars, neVars, wishes, intent
  <2> QED
    BY <1>9, <2>1, StateNoteStays, ReasonStays DEF ReasonOnItsWay
<1>10. CASE Tells
  <2>1. owed' /\ ext \in {"failed", "none"} =>
          UNCHANGED <<banner, file, owed>> /\ ext' \in {"failed", "none"}
    BY <1>10 DEF Tells, OnDemand, NoticesStart, NoticesFailure, NoticesCancel,
      NoticesStop, Killed, Moves, uiVars, wishes, intent
  <2> QED
    BY <1>10, <2>1, StateNoteStays, ReasonStays DEF ReasonOnItsWay,
      Tells, OnDemand, NoticesStart, NoticesFailure, NoticesCancel, NoticesStop, Killed, wishes,
      intent
<1>11. CASE Reports
  <2>1. CASE ExtFails
    <3>1. Has(queue', "state")
      BY <2>1, HasPosted, JobKinds DEF ExtFails, Writes, Post, ControlTypes
    <3> QED
      BY <2>1, <3>1 DEF ExtFails, Writes, ReasonOnItsWay
  <2>2. CASE ExtBegins \/ ExtStarts \/ ExtStops \/ ExtRestartFails
    BY <2>2 DEF ExtBegins, ExtStarts, ExtStops, ExtRestartFails, Writes, wishes, intent,
      ReasonOnItsWay
  <2> QED
    BY <1>11, <2>1, <2>2 DEF Reports
<1> QED
  BY <1>1, <1>2, <1>3, <1>4, <1>5, <1>6, <1>7, <1>8, <1>9, <1>10, <1>11, StepCases DEF Reads

-----------------------------------------------------------------------------
(* Where Home ends. *)

\* A job that, once the status is s, would leave the stage at something else,
\* and one that sees to it that the stage follows s.
Stale(j, s) == j[1] = "apply" /\ Map(j[2]) # Map(s)
Fresh(j, s) == j[1] \in {"note", "state"} \/ (j[1] = "apply" /\ Map(j[2]) = Map(s))
Clean(q, s) == \A i \in DOMAIN q : ~Stale(q[i], s)
Corrected(q, s) ==
  \E i \in DOMAIN q : Fresh(q[i], s) /\ \A j \in DOMAIN q : j > i => ~Stale(q[j], s)

LEMMA CorrectedPosted ==
  ASSUME NEW q \in Seq(Job), NEW x \in Job, NEW s
  PROVE  /\ Fresh(x, s) => Corrected(Append(q, x), s)
         /\ ~Stale(x, s) /\ Corrected(q, s) => Corrected(Append(q, x), s)
         /\ ~Stale(x, s) /\ Clean(q, s) => Clean(Append(q, x), s)
<1> DEFINE r == Append(q, x)
<1>1. /\ Len(q) \in Nat /\ DOMAIN q = 1..Len(q) /\ DOMAIN r = 1..(Len(q) + 1)
      /\ r[Len(q) + 1] = x /\ \A i \in 1..Len(q) : r[i] = q[i]
  BY Posted
<1> HIDE DEF r
<1>2. /\ Len(q) + 1 \in DOMAIN r /\ DOMAIN q \subseteq DOMAIN r
      /\ \A j \in DOMAIN r : ~(j > Len(q) + 1)
      /\ \A j \in DOMAIN r : (j \in DOMAIN q /\ r[j] = q[j]) \/ r[j] = x
      /\ \A j \in DOMAIN q : r[j] = q[j]
  BY <1>1
<1>3. Fresh(x, s) => Corrected(r, s)
  BY <1>1, <1>2, Zenon DEF Corrected
<1>4. ASSUME ~Stale(x, s), Corrected(q, s) PROVE Corrected(r, s)
  <2>1. PICK i \in DOMAIN q : Fresh(q[i], s) /\ \A j \in DOMAIN q : j > i => ~Stale(q[j], s)
    BY <1>4 DEF Corrected
  <2>2. i \in DOMAIN r /\ r[i] = q[i]
    BY <1>2
  <2>3. \A j \in DOMAIN r : j > i => ~Stale(r[j], s)
    BY <1>2, <1>4, <2>1, Zenon
  <2> QED
    BY <2>1, <2>2, <2>3, Zenon DEF Corrected
<1>5. ASSUME ~Stale(x, s), Clean(q, s) PROVE Clean(r, s)
  BY <1>2, <1>5, Zenon DEF Clean
<1> QED
  BY <1>3, <1>4, <1>5 DEF r

LEMMA CorrectedPopped ==
  ASSUME NEW q \in Seq(Job), q # <<>>, NEW s
  PROVE  /\ Clean(q, s) => Clean(Tail(q), s) /\ ~Stale(Head(q), s)
         /\ Corrected(q, s) => \/ Corrected(Tail(q), s)
                               \/ Fresh(Head(q), s) /\ Clean(Tail(q), s)
<1> DEFINE r == Tail(q)
<1>1. /\ Len(q) \in Nat \ {0} /\ DOMAIN q = 1..Len(q) /\ DOMAIN r = 1..(Len(q) - 1)
      /\ Head(q) = q[1] /\ \A i \in 1..(Len(q) - 1) : r[i] = q[i + 1]
  BY Popped
<1> HIDE DEF r
<1>2. /\ 1 \in DOMAIN q
      /\ \A i \in DOMAIN q : i = 1 \/ (i - 1 \in DOMAIN r /\ r[i - 1] = q[i])
      /\ \A i \in DOMAIN r : i + 1 \in DOMAIN q /\ r[i] = q[i + 1] /\ i + 1 > 1
      /\ \A i \in DOMAIN q, j \in DOMAIN r : j > i - 1 => j + 1 > i
  BY <1>1
<1>3. Clean(q, s) => Clean(r, s) /\ ~Stale(Head(q), s)
  BY <1>1, <1>2, Zenon DEF Clean
<1>4. ASSUME Corrected(q, s) PROVE Corrected(r, s) \/ (Fresh(Head(q), s) /\ Clean(r, s))
  <2>1. PICK i \in DOMAIN q : Fresh(q[i], s) /\ \A j \in DOMAIN q : j > i => ~Stale(q[j], s)
    BY <1>4 DEF Corrected
  <2>2. CASE i = 1
    BY <1>1, <1>2, <2>1, <2>2, Zenon DEF Clean
  <2>3. CASE i # 1
    <3>1. i - 1 \in DOMAIN r /\ r[i - 1] = q[i]
      BY <1>2, <2>3
    <3>2. \A j \in DOMAIN r : j > i - 1 => ~Stale(r[j], s)
      BY <1>2, <2>1, Zenon
    <3> QED
      BY <2>1, <3>1, <3>2, Zenon DEF Corrected
  <2> QED
    BY <2>2, <2>3
<1> QED
  BY <1>3, <1>4 DEF r

(* The extension's process and the status of the connection move together, and
   a tunnel that runs has said so in state.json, unless that was cleared.      *)
TunnelPhases ==
  /\ status = "disconnected" <=> ext = "none"
  /\ status = "connecting" => ext \in {"launched", "setup", "running", "failed"}
  /\ status = "connected" => ext \in {"running", "cancelled"}
  /\ ext = "running" => file.stage \in {"connected", "disconnected"}

Stable  == <<status, ext>> \in {<<"disconnected", "none">>, <<"connected", "running">>}
Settled == stage \in {Map(status), "error"} \/ Misled
(* StageSettles speaks of the end.  While the connection is up or down and jobs
   are waiting, there must be one that sees to it that the stage follows, and
   none after it that applies an older status.  A job that read a stale file
   makes the extension's notification of its own (VpnManager.swift:372-380).   *)
StageOnItsWay ==
  Stable => \/ clearing # "no"
            \/ Corrected(queue, status)
            \/ Settled /\ Clean(queue, status)

LEMMA PhasesInit == ControlInit => TunnelPhases /\ StageOnItsWay
  BY DEF ControlInit, TunnelPhases, StageOnItsWay, Stable, Settled, Clean, Map, Wrote

LEMMA PhasesStep ==
  ASSUME ControlTypes, TunnelPhases, [ControlNext]_cpVars PROVE TunnelPhases'
<1> USE DEF TunnelPhases
<1>1. CASE UNCHANGED <<status, ext, file>>
  BY <1>1
<1>2. CASE ClearStale
  BY <1>2 DEF ClearStale, Wrote, neVars
<1>3. ASSUME UNCHANGED <<ext, file>>, StopTunnel PROVE TunnelPhases'
  BY <1>3 DEF StopTunnel, ControlTypes, TunnelTypes, Status, Process
<1>4. ASSUME NEW t \in Tids, Disconnect(t) PROVE TunnelPhases'
  BY <1>1, <1>3, <1>4 DEF Disconnect
<1>5. ASSUME NEW t \in Tids, RuleSaved(t) PROVE TunnelPhases'
  BY <1>1, <1>3, <1>5 DEF RuleSaved
<1>6. ASSUME NEW t \in Tids, Started(t) PROVE TunnelPhases'
  BY <1>6 DEF Started
<1>7. CASE Tells
  BY <1>7 DEF Tells, OnDemand, NoticesStart, NoticesFailure, NoticesCancel,
    NoticesStop, Killed, Moves, ControlTypes, TunnelTypes, Status, Process
<1>8. CASE Reports
  BY <1>8 DEF Reports, ExtBegins, ExtStarts, ExtFails, ExtStops, ExtRestartFails,
    Writes, Wrote, ControlTypes, TunnelTypes, Status, Process
<1>9. CASE UNCHANGED cpVars
  BY <1>1, <1>9 DEF cpVars, neVars
<1>10. CASE Reads /\ ~ClearStale
  BY <1>1, <1>10 DEF Reads, Tap, StatusNote, ApplyStatus, StateNote, StateNoteStale, neVars
<1>11. CASE Serve \/ Refuse \/ \E p \in Profiles : Select(p)
  BY <1>1, <1>11 DEF Serve, Refuse, Select, neVars
<1>12. ASSUME NEW t \in Tids, Begins(t) PROVE TunnelPhases'
  BY <1>1, <1>4, <1>12 DEF Begins, Connect, Update
<1>13. ASSUME NEW t \in Tids, Resumed(t) PROVE TunnelPhases'
  BY <1>1, <1>5, <1>6, <1>13 DEF Resumed, Saved, Fails, Updated, StartThrows, neVars
<1> QED
  BY <1>2, <1>7, <1>8, <1>9, <1>10, <1>11, <1>12, <1>13, StepCases

\* A step that only puts a job in the queue that applies no older status.
LEMMA StagePost ==
  ASSUME ControlTypes, StageOnItsWay, NEW x \in Job, queue' = Append(queue, x),
         x[1] # "apply", UNCHANGED <<stage, misled, status, ext, file, clearing>>
  PROVE  StageOnItsWay'
<1>1. ~Stale(x, status) /\ queue \in Seq(Job)
  BY DEF Stale, ControlTypes
<1>2. /\ Corrected(queue, status) => Corrected(queue', status)
      /\ Clean(queue, status) => Clean(queue', status)
  BY <1>1, CorrectedPosted
<1> QED
  BY <1>2 DEF StageOnItsWay, Stable, Settled, Misled

\* A step that puts a job in the queue that sees to the stage.
LEMMA StageSeenTo ==
  ASSUME ControlTypes, NEW q \in Seq(Job), NEW x \in Job, queue' = Append(q, x),
         Fresh(x, status')
  PROVE  StageOnItsWay'
  BY CorrectedPosted DEF StageOnItsWay

\* A step that takes a job off that does not touch the stage, or settles it.
LEMMA StagePop ==
  ASSUME ControlTypes, StageOnItsWay, NEW name, Ready(name), queue' = Tail(queue),
         UNCHANGED <<status, ext>>,
         Stable => clearing' # "no" \/ Settled'
                   \/ (name \notin {"note", "state", "apply"}
                       /\ UNCHANGED <<stage, misled, file, clearing>>)
  PROVE  StageOnItsWay'
<1>1. /\ queue \in Seq(Job) /\ queue # <<>> /\ Head(queue)[1] = name /\ clearing = "no"
  BY ReadyJob
<1>2. /\ Clean(queue, status) => Clean(queue', status)
      /\ Corrected(queue, status) => \/ Corrected(queue', status)
                                     \/ Fresh(Head(queue), status) /\ Clean(queue', status)
  BY <1>1, CorrectedPopped
<1>3. name \notin {"note", "state", "apply"} => ~Fresh(Head(queue), status)
  BY <1>1 DEF Fresh
<1> QED
  BY <1>1, <1>2, <1>3 DEF StageOnItsWay, Stable, Settled, Misled

\* Nothing to stop: the stage is settled, or the stale file will be cleared.
LEMMA UnstoppableSettles ==
  ASSUME ControlTypes, TunnelPhases, NEW s, s \in {status, "disconnected"}, Unstoppable(s),
         UNCHANGED <<status, ext, file>>, Stable
  PROVE  clearing' # "no" \/ Settled'
<1>1. s \in Status
  BY DEF ControlTypes, TunnelTypes, Status
<1>2. CASE IsActive(file)
  BY <1>1, <1>2 DEF Unstoppable, Status
<1>3. CASE ~IsActive(file)
  BY <1>3 DEF Unstoppable, Settled, Misled, Stable, TunnelPhases, Map, IsActive
<1> QED
  BY <1>2, <1>3

LEMMA StoppedStage ==
  ASSUME ControlTypes, StageOnItsWay, NEW name \in {"disconnect", "resume"}, Ready(name),
         StopTunnel, UNCHANGED <<stage, misled, clearing, ext, file>>
  PROVE  StageOnItsWay'
<1>1. CASE status \in {"connecting", "connected"}
  BY <1>1 DEF StopTunnel, StageOnItsWay, Stable
<1>2. CASE status \notin {"connecting", "connected"}
  BY <1>2, StagePop DEF StopTunnel, Pop
<1> QED
  BY <1>1, <1>2

LEMMA ReadingStage ==
  ASSUME ControlTypes, StageOnItsWay, Reads \/ \E p \in Profiles : Select(p)
  PROVE  StageOnItsWay'
<1>0. queue \in Seq(Job)
  BY DEF ControlTypes
<1>1. CASE Tap
  <2>1. PICK x \in {<<"connect">>, <<"disconnect">>} : queue' = Append(queue, x)
    BY <1>1 DEF Tap, Post
  <2> QED
    BY <1>1, <2>1, StagePost, JobKinds DEF Tap, uiVars, neVars
<1>2. ASSUME NEW p \in Profiles, Select(p) PROVE StageOnItsWay'
  BY <1>2, StagePost, JobKinds DEF Select, Post, uiVars, neVars
<1>3. CASE StatusNote
  <2>1. /\ Tail(queue) \in Seq(Job) /\ queue' = Append(Tail(queue), <<"apply", status>>)
        /\ <<"apply", status>> \in Job /\ status' = status
    BY <1>3, ReadyJob, JobKinds DEF StatusNote, neVars, ControlTypes, TunnelTypes
  <2> QED
    BY <2>1, StageSeenTo DEF Fresh
<1>4. CASE ApplyStatus
  <2>1. /\ Ready("apply") /\ queue' = Tail(queue) /\ UNCHANGED <<status, ext, file, clearing>>
        /\ stage' = Map(Head(queue)[2]) /\ Head(queue)[1] = "apply" /\ queue # <<>>
    BY <1>4, ReadyJob DEF ApplyStatus, Pop, neVars
  <2>2. CASE Map(Head(queue)[2]) = Map(status)
    BY <2>1, <2>2, StagePop DEF Settled
  <2>3. CASE Map(Head(queue)[2]) # Map(status)
    <3>1. Stale(Head(queue), status) /\ ~Fresh(Head(queue), status)
      BY <2>1, <2>3 DEF Stale, Fresh
    <3>2. Stable => Corrected(queue, status)
      BY <1>0, <2>1, <3>1, ReadyJob, CorrectedPopped DEF StageOnItsWay
    <3>3. Corrected(queue, status) => Corrected(queue', status)
      BY <1>0, <2>1, <3>1, CorrectedPopped
    <3> QED
      BY <2>1, <3>2, <3>3 DEF StageOnItsWay, Stable
  <2> QED
    BY <2>2, <2>3
<1>5. CASE StateNote
  <2>1. Ready("state") /\ queue' = Tail(queue) /\ UNCHANGED <<status, ext, file, clearing>>
    BY <1>5 DEF StateNote, Pop, neVars
  <2>2. Stable => Settled'
    BY <1>5, <2>1 DEF StateNote, Reconciled, Map, Stable, Settled
  <2> QED
    BY <2>1, <2>2, StagePop
<1>6. CASE StateNoteStale
  <2>1. /\ Ready("state") /\ queue' = Tail(queue) /\ UNCHANGED <<status, ext>>
        /\ clearing' = status
    BY <1>6 DEF StateNoteStale, Pop, neVars
  <2>2. clearing' # "no"
    BY <2>1 DEF ControlTypes, TunnelTypes, Status
  <2> QED
    BY <2>1, <2>2, StagePop
<1>7. CASE ClearStale
  BY <1>0, <1>7, StageSeenTo, JobKinds DEF ClearStale, Post, Fresh
<1> QED
  BY <1>1, <1>2, <1>3, <1>4, <1>5, <1>6, <1>7 DEF Reads

LEMMA CoroutineStage ==
  ASSUME ControlTypes, TunnelPhases, StageOnItsWay, NEW t \in Tids, Begins(t) \/ Resumed(t)
  PROVE  StageOnItsWay'
<1>1. CASE Connect(t) \/ Update(t)
  <2>1. /\ Ready("connect") \/ Ready("update")
        /\ queue' = Tail(queue)
        /\ UNCHANGED <<stage, misled, status, ext, file, clearing>>
    BY <1>1 DEF Connect, Update, Pop, uiVars
  <2> QED
    BY <2>1, StagePop
<1>2. CASE Disconnect(t)
  <2>1. Ready("disconnect") /\ UNCHANGED <<ext, file>>
    BY <1>2 DEF Disconnect
  <2>2. CASE object.onDemand
    BY <1>2, <2>1, <2>2, StagePop DEF Disconnect, Pop
  <2>3. CASE ~object.onDemand /\ status # "disconnected"
    BY <1>2, <2>1, <2>3, StoppedStage DEF Disconnect
  <2>4. CASE ~object.onDemand /\ status = "disconnected"
    <3>1. Unstoppable(status) /\ UNCHANGED status /\ queue' = Tail(queue)
      BY <1>2, <2>4 DEF Disconnect, Unstoppable, Pop
    <3>2. Stable => clearing' # "no" \/ Settled'
      BY <2>1, <3>1, UnstoppableSettles
    <3> QED
      BY <2>1, <3>1, <3>2, StagePop
  <2> QED
    BY <2>2, <2>3, <2>4
<1>3. CASE Saved(t, "connectSave", "connectLoad") \/ Saved(t, "updateSave", "updateLoad")
           \/ Updated(t)
  <2>1. /\ Ready("resume") /\ queue' = Tail(queue)
        /\ UNCHANGED <<stage, misled, status, ext, file, clearing>>
    BY <1>3 DEF Saved, Updated, Resumes, Pop, uiVars, neVars
  <2> QED
    BY <2>1, StagePop
<1>4. CASE \E op \in {"connectSave", "connectLoad", "updateSave", "updateLoad"} : Fails(t, op)
  <2>1. /\ Ready("resume") /\ queue' = Tail(queue)
        /\ UNCHANGED <<misled, status, ext, file, clearing>>
        /\ stage' = "error" \/ stage' = stage
    BY <1>4 DEF Fails, Resumes, Pop, neVars
  <2> QED
    BY <2>1, StagePop DEF Settled
<1>5. CASE Started(t)
  <2>1. Ready("resume") /\ UNCHANGED <<stage, misled, file, clearing>>
    BY <1>5 DEF Started, Resumes, uiVars
  <2>2. CASE UNCHANGED <<status, ext>> /\ queue' = Tail(queue)
    BY <2>1, <2>2, StagePop
  <2>3. CASE status' = "connecting"
    BY <2>3 DEF StageOnItsWay, Stable
  <2> QED
    BY <1>5, <2>2, <2>3 DEF Started, Pop
<1>6. CASE StartThrows(t)
  <2>1. /\ Ready("resume") /\ queue' = Tail(queue) /\ UNCHANGED <<status, ext>>
        /\ stage' = "error"
    BY <1>6 DEF StartThrows, Resumes, Pop, neVars
  <2> QED
    BY <2>1, StagePop DEF Settled
<1>7. CASE RuleSaved(t)
  <2>1. Ready("resume") /\ UNCHANGED <<ext, file>>
    BY <1>7 DEF RuleSaved, Resumes
  <2>2. CASE task[t].held # "disconnected"
    BY <1>7, <2>1, <2>2, StoppedStage DEF RuleSaved
  <2>3. CASE task[t].held = "disconnected"
    <3>1. Unstoppable("disconnected") /\ UNCHANGED status /\ queue' = Tail(queue)
      BY <1>7, <2>3 DEF RuleSaved, Unstoppable, Pop
    <3>2. Stable => clearing' # "no" \/ Settled'
      BY <2>1, <3>1, UnstoppableSettles
    <3> QED
      BY <2>1, <3>1, <3>2, StagePop
  <2> QED
    BY <2>2, <2>3
<1> QED
  BY <1>1, <1>2, <1>3, <1>4, <1>5, <1>6, <1>7 DEF Begins, Resumed

LEMMA StageStep ==
  ASSUME ControlTypes, TunnelPhases, StageOnItsWay, [ControlNext]_cpVars
  PROVE  StageOnItsWay'
<1>0. queue \in Seq(Job)
  BY DEF ControlTypes
<1>1. CASE UNCHANGED cpVars
  BY <1>1 DEF cpVars, uiVars, neVars, StageOnItsWay, Stable, Settled, Misled, Clean,
    Corrected, Stale, Fresh, Map
<1>2. CASE Reads \/ \E p \in Profiles : Select(p)
  BY <1>2, ReadingStage
<1>3. ASSUME NEW t \in Tids, Begins(t) \/ Resumed(t) PROVE StageOnItsWay'
  BY <1>3, CoroutineStage
<1>4. CASE Serve \/ Refuse
  <2>1. Head(requests).by \in Tids
    BY <1>4, ServedRequest DEF Serve, Refuse
  <2>2. PICK r \in {"ok", "failed"} : queue' = Append(queue, <<"resume", Head(requests).by, r>>)
    BY <1>4, ServePosts
  <2> DEFINE x == <<"resume", Head(requests).by, r>>
  <2>3. x \in Job /\ x[1] = "resume"
    BY <2>1, <2>2, JobKinds
  <2>4. UNCHANGED <<stage, misled, status, ext, file, clearing>>
    BY <1>4 DEF Serve, Refuse, uiVars
  <2> QED
    BY <2>2, <2>3, <2>4, StagePost
<1>5. CASE Tells
  <2>1. queue' = Append(queue, <<"note">>)
    BY <1>5 DEF Tells, OnDemand, NoticesStart, NoticesFailure, NoticesCancel,
      NoticesStop, Killed, Moves, Post
  <2> QED
    BY <1>0, <2>1, StageSeenTo, JobKinds DEF Fresh
<1>6. CASE Reports
  <2>1. queue' = Append(queue, <<"state">>)
    BY <1>6 DEF Reports, ExtBegins, ExtStarts, ExtFails, ExtStops, ExtRestartFails,
      Writes, Post
  <2> QED
    BY <1>0, <2>1, StageSeenTo, JobKinds DEF Fresh
<1> QED
  BY <1>1, <1>2, <1>3, <1>4, <1>5, <1>6, StepCases

-----------------------------------------------------------------------------
(* The saved configuration. *)

\* What the saved configuration is once the calls r are served.
LastSaved(r, base, v) ==
  \/ \E i \in DOMAIN r : /\ r[i].kind = "save" /\ r[i].value = v
                         /\ \A j \in DOMAIN r : j > i => r[j].kind = "load"
  \/ base = v /\ \A j \in DOMAIN r : r[j].kind = "load"

(* Each coroutine sets a part of the object, or both, and sends it whole: what is
   sent last has that part as it should be, and the other as the object had it,
   which is as it should be unless the object was behind.                       *)
Intended(v) ==
  /\ Has(queue, "update") \/ "profile" \in spoiled \/ v.profile = selected
  /\ off => "rule" \in spoiled \/ ~v.onDemand
ConfigOnItsWay == \E v \in Configuration : LastSaved(requests, prefs, v) /\ Intended(v)

LEMMA LastSavedPosted ==
  ASSUME NEW r \in Seq(Request), NEW c \in Request, NEW base, NEW v
  PROVE  /\ c.kind = "save" => LastSaved(Append(r, c), base, c.value)
         /\ c.kind = "load" /\ LastSaved(r, base, v) => LastSaved(Append(r, c), base, v)
<1> DEFINE s == Append(r, c)
<1>1. /\ Len(r) \in Nat /\ DOMAIN r = 1..Len(r) /\ DOMAIN s = 1..(Len(r) + 1)
      /\ s[Len(r) + 1] = c /\ \A i \in 1..Len(r) : s[i] = r[i]
  BY Posted
<1> HIDE DEF s
<1>2. /\ Len(r) + 1 \in DOMAIN s /\ DOMAIN r \subseteq DOMAIN s
      /\ \A j \in DOMAIN s : ~(j > Len(r) + 1)
      /\ \A j \in DOMAIN s : (j \in DOMAIN r /\ s[j] = r[j]) \/ s[j] = c
      /\ \A j \in DOMAIN r : s[j] = r[j]
  BY <1>1
<1>3. c.kind = "save" => LastSaved(s, base, c.value)
  BY <1>1, <1>2, Zenon DEF LastSaved
<1>4. ASSUME c.kind = "load", LastSaved(r, base, v) PROVE LastSaved(s, base, v)
  <2>1. CASE base = v /\ \A j \in DOMAIN r : r[j].kind = "load"
    BY <1>2, <1>4, <2>1, Zenon DEF LastSaved
  <2>2. ASSUME NEW i \in DOMAIN r, r[i].kind = "save", r[i].value = v,
               \A j \in DOMAIN r : j > i => r[j].kind = "load"
        PROVE  LastSaved(s, base, v)
    <3>1. i \in DOMAIN s /\ s[i].kind = "save" /\ s[i].value = v
      BY <1>2, <2>2
    <3>2. \A j \in DOMAIN s : j > i => s[j].kind = "load"
      BY <1>2, <1>4, <2>2, Zenon
    <3> QED
      BY <3>1, <3>2, Zenon DEF LastSaved
  <2> QED
    BY <1>4, <2>1, <2>2 DEF LastSaved
<1> QED
  BY <1>3, <1>4 DEF s

LEMMA LastSavedPopped ==
  ASSUME NEW r \in Seq(Request), r # <<>>, NEW base, NEW v, LastSaved(r, base, v)
  PROVE  LastSaved(Tail(r), IF Head(r).kind = "save" THEN Head(r).value ELSE base, v)
<1> DEFINE s == Tail(r)
           next == IF Head(r).kind = "save" THEN Head(r).value ELSE base
<1>1. /\ Len(r) \in Nat \ {0} /\ DOMAIN r = 1..Len(r) /\ DOMAIN s = 1..(Len(r) - 1)
      /\ Head(r) = r[1] /\ \A i \in 1..(Len(r) - 1) : s[i] = r[i + 1]
      /\ Head(r) \in Request
  BY Popped
<1> HIDE DEF s
<1>2. /\ 1 \in DOMAIN r
      /\ \A i \in DOMAIN s : i + 1 \in DOMAIN r /\ s[i] = r[i + 1] /\ i + 1 > 1
      /\ \A i \in DOMAIN r : i = 1 \/ (i - 1 \in DOMAIN s /\ s[i - 1] = r[i])
      /\ \A i \in DOMAIN r, j \in DOMAIN s : j > i - 1 => j + 1 > i
  BY <1>1
<1>3. CASE base = v /\ \A j \in DOMAIN r : r[j].kind = "load"
  <2>1. next = v
    BY <1>1, <1>2, <1>3
  <2>2. \A j \in DOMAIN s : s[j].kind = "load"
    BY <1>2, <1>3
  <2> QED
    BY <2>1, <2>2 DEF LastSaved, s
<1>4. ASSUME NEW i \in DOMAIN r, r[i].kind = "save", r[i].value = v,
             \A j \in DOMAIN r : j > i => r[j].kind = "load"
      PROVE  LastSaved(s, next, v)
  <2>1. CASE i = 1
    <3>1. next = v
      BY <1>1, <1>4, <2>1
    <3>2. \A j \in DOMAIN s : s[j].kind = "load"
      BY <1>2, <1>4, <2>1
    <3> QED
      BY <3>1, <3>2, Zenon DEF LastSaved
  <2>2. CASE i # 1
    <3>1. i - 1 \in DOMAIN s /\ s[i - 1] = r[i]
      BY <1>2, <2>2
    <3>2. ASSUME NEW j \in DOMAIN s, j > i - 1 PROVE s[j].kind = "load"
      <4>1. j + 1 \in DOMAIN r /\ j + 1 > i /\ s[j] = r[j + 1]
        BY <1>2, <3>2
      <4> QED
        BY <1>4, <4>1
    <3>3. s[i - 1].kind = "save" /\ s[i - 1].value = v
      BY <1>4, <3>1
    <3> HIDE DEF next
    <3> QED
      BY <3>1, <3>2, <3>3, Zenon DEF LastSaved
  <2> QED
    BY <2>1, <2>2
<1> QED
  BY <1>3, <1>4 DEF LastSaved, s

\* ... and it is what SavedBy picks.
LEMMA SavedByPicks ==
  ASSUME NEW r \in Seq(Request), NEW base, NEW v, LastSaved(r, base, v)
  PROVE  SavedBy(r, base) = v
<1> DEFINE Latest(i) == \A j \in Saves(r) : j <= i
<1>1. CASE base = v /\ \A j \in DOMAIN r : r[j].kind = "load"
  <2>1. Saves(r) = {}
    BY <1>1 DEF Saves
  <2> QED
    BY <1>1, <2>1 DEF SavedBy
<1>2. ASSUME NEW i \in DOMAIN r, r[i].kind = "save", r[i].value = v,
             \A j \in DOMAIN r : j > i => r[j].kind = "load"
      PROVE  SavedBy(r, base) = v
  <2>1. Saves(r) \subseteq Int
    BY DEF Saves
  <2>2. i \in Saves(r) /\ Latest(i)
    BY <1>2, <2>1 DEF Saves
  <2>3. PICK k : k = (CHOOSE j \in Saves(r) : Latest(j))
    OBVIOUS
  <2>4. k \in Saves(r) /\ Latest(k)
    BY <2>2, <2>3, Zenon
  <2>5. k = i
    BY <2>1, <2>2, <2>4
  <2>6. SavedBy(r, base) = r[k].value
    BY <2>2, <2>3, Zenon DEF SavedBy
  <2> QED
    BY <1>2, <2>5, <2>6
<1> QED
  BY <1>1, <1>2 DEF LastSaved

\* A call that is refused leaves an earlier save to be the last, or what was held.
LEMMA LastSavedRefused ==
  ASSUME NEW r \in Seq(Request), r # <<>>, NEW base \in Configuration, NEW v,
         LastSaved(r, base, v)
  PROVE  \E w \in Configuration : LastSaved(Tail(r), base, w)
<1>1. LastSaved(Tail(r), IF Head(r).kind = "save" THEN Head(r).value ELSE base, v)
  BY LastSavedPopped
<1>2. ASSUME NEW i \in DOMAIN Tail(r), Tail(r)[i].kind = "save", Tail(r)[i].value = v,
             \A j \in DOMAIN Tail(r) : j > i => Tail(r)[j].kind = "load"
      PROVE  v \in Configuration /\ LastSaved(Tail(r), base, v)
  <2>1. Tail(r)[i] \in Request
    BY <1>2
  <2> QED
    BY <1>2, <2>1, Zenon DEF LastSaved, Request
<1>3. CASE \A j \in DOMAIN Tail(r) : Tail(r)[j].kind = "load"
  BY <1>3 DEF LastSaved
<1> QED
  BY <1>1, <1>2, <1>3 DEF LastSaved

\* A step that neither calls nor answers, with the jobs to update still in the queue.
LEMMA ConfigApart ==
  ASSUME ConfigOnItsWay, UNCHANGED <<prefs, requests>>, spoiled \subseteq spoiled', off' => off,
         \/ Has(queue', "update")
         \/ UNCHANGED selected /\ (Has(queue, "update") => Has(queue', "update"))
  PROVE  ConfigOnItsWay'
  BY DEF ConfigOnItsWay, Intended

\* A coroutine that saves: the object as it then is becomes what was sent last.
LEMMA SaveConfig ==
  ASSUME ControlTypes, NEW t \in Tids, NEW op, NEW held, NEW v \in Configuration,
         Ask(t, op, "save", v, held), UNCHANGED prefs, Intended(v)'
  PROVE  ConfigOnItsWay'
<1> DEFINE c == [kind |-> "save", value |-> v, by |-> t]
<1>1. requests' = Append(requests, c) /\ c \in Request /\ c.kind = "save" /\ c.value = v
  BY DEF Ask, Request
<1> HIDE DEF c
<1>2. LastSaved(requests', prefs', v)
  BY <1>1, LastSavedPosted DEF ControlTypes, ConfigTypes
<1> QED
  BY <1>2 DEF ConfigOnItsWay

\* A connect, the selection of a profile or a disconnect sets its part of the object.
LEMMA BeginConfig ==
  ASSUME ControlTypes, ConfigOnItsWay, NEW t \in Tids, Begins(t)
  PROVE  ConfigOnItsWay'
<1>0. /\ object \in Configuration /\ selected \in Profiles /\ requests \in Seq(Request)
      /\ spoiled \subseteq {"profile", "rule"}
  BY DEF ControlTypes, ConfigTypes, UserTypes
<1>1. PICK v \in Configuration : LastSaved(requests, prefs, v) /\ Intended(v)
  BY DEF ConfigOnItsWay
<1>2. /\ object.profile # v.profile => "profile" \in Behind
      /\ object.onDemand # v.onDemand => "rule" \in Behind
  BY <1>0, <1>1, SavedByPicks DEF Behind, Differs
<1>3. v.onDemand \in BOOLEAN /\ object.onDemand \in BOOLEAN
  BY <1>0 DEF Configuration
<1>4. UNCHANGED <<prefs, selected>>
  BY DEF Begins, Connect, Update, Disconnect
<1>5. CASE Connect(t)
  <2>1. PICK rule \in BOOLEAN : object' = [profile |-> selected, onDemand |-> rule]
    BY <1>5 DEF Connect
  <2>2. PICK w \in Configuration : w = object' /\ w.profile = selected
    BY <1>0, <2>1 DEF Configuration
  <2>3. Ask(t, "connectSave", "save", w, "disconnected") /\ ~off'
    BY <1>5, <2>2 DEF Connect
  <2>4. Intended(w)'
    BY <1>4, <2>2, <2>3 DEF Intended
  <2> QED
    BY <1>4, <2>2, <2>3, <2>4, SaveConfig
<1>6. CASE Update(t)
  <2>0. [object EXCEPT !.profile = selected] \in Configuration
    BY <1>0 DEF Configuration
  <2>1. PICK w \in Configuration : /\ w = [object EXCEPT !.profile = selected]
                                   /\ w.profile = selected /\ w.onDemand = object.onDemand
    BY <1>0, <2>0 DEF Configuration
  <2>2. /\ Ask(t, "updateSave", "save", w, "disconnected") /\ off' = off
        /\ spoiled' = (spoiled \cup Behind) \ {"profile"}
    BY <1>6, <2>1 DEF Update
  <2>3. Intended(w)'
    BY <1>1, <1>2, <1>3, <1>4, <2>1, <2>2 DEF Intended
  <2> QED
    BY <1>4, <2>1, <2>2, <2>3, SaveConfig
<1>7. Disconnect(t) => (Has(queue, "update") => Has(queue', "update"))
  BY BeginPops, PlainJobs, HasStep
<1>8. CASE Disconnect(t) /\ object.onDemand
  <2>0. [object EXCEPT !.onDemand = FALSE] \in Configuration
    BY <1>0 DEF Configuration
  <2>1. PICK w \in Configuration : /\ w = [object EXCEPT !.onDemand = FALSE]
                                   /\ w.profile = object.profile /\ ~w.onDemand
    BY <1>0, <2>0 DEF Configuration
  <2>2. /\ Ask(t, "disconnectSave", "save", w, status)
        /\ spoiled' = (spoiled \cup Behind) \ {"rule"}
    BY <1>8, <2>1 DEF Disconnect
  <2>3. Intended(w)'
    BY <1>1, <1>2, <1>4, <1>7, <1>8, <2>1, <2>2 DEF Intended
  <2> QED
    BY <1>4, <2>1, <2>2, <2>3, SaveConfig
<1>9. CASE Disconnect(t) /\ ~object.onDemand
  <2>1. /\ UNCHANGED requests
        /\ spoiled' = (spoiled \ {"rule"}) \cup (Behind \ {"profile"})
    BY <1>9 DEF Disconnect
  <2>2. Intended(v)'
    BY <1>1, <1>2, <1>3, <1>4, <1>7, <1>9, <2>1 DEF Intended
  <2> QED
    BY <1>1, <1>4, <2>1, <2>2 DEF ConfigOnItsWay
<1> QED
  BY <1>5, <1>6, <1>8, <1>9 DEF Begins

\* A coroutine that resumes loads what it saved, or ends.
LEMMA ResumeConfig ==
  ASSUME ControlTypes, ConfigOnItsWay, NEW t \in Tids, Resumed(t)
  PROVE  ConfigOnItsWay'
<1>1. Has(queue, "update") => Has(queue', "update")
  BY ResumePops, PlainJobs, HasStep
<1>2. UNCHANGED <<prefs, selected, off, spoiled>>
  BY DEF Resumed, Saved, Fails, Updated, Started, StartThrows, RuleSaved, neVars, wishes, intent
<1>3. CASE UNCHANGED requests
  BY <1>1, <1>2, <1>3, ConfigApart
<1>4. ASSUME NEW op, NEW next, Saved(t, op, next) PROVE ConfigOnItsWay'
  <2> DEFINE c == [kind |-> "load", value |-> object, by |-> t]
  <2>1. requests' = Append(requests, c) /\ c \in Request /\ c.kind = "load"
    BY <1>4 DEF Saved, Ask, Request, ControlTypes, ConfigTypes
  <2> HIDE DEF c
  <2>2. \A v : LastSaved(requests, prefs, v) => LastSaved(requests', prefs', v)
    BY <1>2, <2>1, LastSavedPosted DEF ControlTypes, ConfigTypes
  <2> QED
    BY <1>1, <1>2, <2>2, Zenon DEF ConfigOnItsWay, Intended
<1> QED
  BY <1>3, <1>4 DEF Resumed, Fails, Updated, Started, StartThrows, RuleSaved, neVars

\* NetworkExtension serves a call, or refuses it.
LEMMA AnswerConfig ==
  ASSUME ControlTypes, ConfigOnItsWay, Serve \/ Refuse
  PROVE  ConfigOnItsWay'
<1> DEFINE r == Head(requests)
<1>1. /\ requests # <<>> /\ requests' = Tail(requests) /\ UNCHANGED <<selected, off>>
      /\ requests \in Seq(Request) /\ prefs \in Configuration /\ r.by \in Tids
  BY ServedRequest DEF Serve, Refuse, wishes, intent, ControlTypes, ConfigTypes
<1>2. Has(queue, "update") => Has(queue', "update")
  <2>1. PICK j : j \in {<<"resume", r.by, "ok">>, <<"resume", r.by, "failed">>}
                 /\ queue' = Append(queue, j)
    BY ServePosts
  <2>2. j \in Job
    BY <1>1, <2>1, JobKinds
  <2> QED
    BY <2>1, <2>2, HasPosted DEF ControlTypes
<1>3. PICK v \in Configuration : LastSaved(requests, prefs, v) /\ Intended(v)
  BY DEF ConfigOnItsWay
<1>4. CASE Serve
  <2>1. prefs' = (IF r.kind = "save" THEN r.value ELSE prefs) /\ UNCHANGED spoiled
    BY <1>4 DEF Serve, wishes, intent
  <2>2. LastSaved(requests', prefs', v)
    BY <1>1, <1>3, <2>1, LastSavedPopped
  <2> QED
    BY <1>1, <1>2, <1>3, <2>1, <2>2 DEF ConfigOnItsWay, Intended
<1>5. CASE Refuse
  <2>1. prefs' = prefs
        /\ spoiled' = spoiled \cup Differs(SavedBy(requests, prefs), SavedBy(Tail(requests), prefs))
    BY <1>5 DEF Refuse
  <2>2. PICK w \in Configuration : LastSaved(Tail(requests), prefs, w)
    BY <1>1, <1>3, LastSavedRefused
  <2>3. SavedBy(requests, prefs) = v
    BY <1>1, <1>3, SavedByPicks
  <2>4. SavedBy(Tail(requests), prefs) = w
    <3>1. Tail(requests) \in Seq(Request)
      BY <1>1, ServedRequest
    <3> QED
      BY <2>2, <3>1, SavedByPicks
  <2>5. /\ v.profile # w.profile => "profile" \in spoiled'
        /\ v.onDemand # w.onDemand => "rule" \in spoiled'
    BY <2>1, <2>3, <2>4 DEF Differs
  <2>6. Intended(w)'
    BY <1>1, <1>2, <1>3, <2>1, <2>5 DEF Intended, Configuration
  <2> QED
    BY <1>1, <2>1, <2>2, <2>6 DEF ConfigOnItsWay
<1> QED
  BY <1>4, <1>5

LEMMA ConfigInit == ControlInit => ConfigOnItsWay
<1> SUFFICES ASSUME ControlInit PROVE ConfigOnItsWay
  OBVIOUS
<1>1. requests = <<>> /\ ~off /\ prefs.profile = selected /\ prefs \in Configuration
  BY ControlTypesInit DEF ControlInit, ControlTypes, ConfigTypes
<1> QED
  BY <1>1 DEF ConfigOnItsWay, Intended, LastSaved

LEMMA ConfigStep ==
  ASSUME ControlTypes, ConfigOnItsWay, [ControlNext]_cpVars
  PROVE  ConfigOnItsWay'
<1>0. queue \in Seq(Job)
  BY DEF ControlTypes
<1>1. CASE UNCHANGED cpVars
  BY <1>1, ConfigApart DEF cpVars, neVars, Has
<1>2. CASE Tap \/ ClearStale \/ (\E p \in Profiles : Select(p)) \/ Tells \/ Reports
  <2>1. Has(queue, "update") => Has(queue', "update")
    BY <1>2, PlainPosts, PlainJobs, HasStep
  <2>2. UNCHANGED <<prefs, requests, off, spoiled>>
    BY <1>2 DEF Tap, ClearStale, Select, Tells, OnDemand, NoticesStart, NoticesFailure,
      NoticesCancel, NoticesStop, Killed, Moves, Reports, ExtBegins, ExtStarts, ExtFails,
      ExtStops, ExtRestartFails, Writes, neVars, wishes, intent
  <2>3. Has(queue', "update") \/ UNCHANGED selected
    <3>1. ASSUME NEW p \in Profiles, Select(p) PROVE Has(queue', "update")
      <4> DEFINE x == <<"update">>
      <4>1. x \in Job /\ x[1] = "update" /\ queue' = Append(queue, x)
        BY <3>1, JobKinds DEF Select, Post
      <4> QED
        BY <1>0, <4>1, HasPosted
    <3>2. CASE Tap \/ ClearStale \/ Tells \/ Reports
      BY <3>2 DEF Tap, ClearStale, Tells, OnDemand, NoticesStart, NoticesFailure,
        NoticesCancel, NoticesStop, Killed, Moves, Reports, ExtBegins, ExtStarts, ExtFails,
        ExtStops, ExtRestartFails, Writes
    <3> QED
      BY <1>2, <3>1, <3>2
  <2> QED
    BY <2>1, <2>2, <2>3, ConfigApart
<1>3. CASE StatusNote \/ ApplyStatus \/ StateNote \/ StateNoteStale
  <2>1. UNCHANGED <<prefs, requests, off, spoiled, selected>>
    BY <1>3 DEF StatusNote, ApplyStatus, StateNote, StateNoteStale, neVars, wishes, intent
  <2>2. PICK X \in {{<<"apply", status>>}, {}}, name \in {"note", "apply", "state"} :
             Pops(name, X)
    BY <1>3, ReadPops
  <2>3. X \subseteq Job
    BY <2>2, JobKinds DEF ControlTypes, TunnelTypes
  <2>4. Has(queue, "update") => Has(queue', "update")
    BY <2>2, <2>3, HasStep
  <2> QED
    BY <2>1, <2>4, ConfigApart
<1>4. ASSUME NEW t \in Tids, Begins(t) PROVE ConfigOnItsWay'
  BY <1>4, BeginConfig
<1>5. ASSUME NEW t \in Tids, Resumed(t) PROVE ConfigOnItsWay'
  BY <1>5, ResumeConfig
<1>6. CASE Serve \/ Refuse
  BY <1>6, AnswerConfig
<1> QED
  BY <1>1, <1>2, <1>3, <1>4, <1>5, <1>6, StepCases DEF Reads

-----------------------------------------------------------------------------
(* The theorems. *)

ControlInv == /\ ControlTypes /\ ReasonOnItsWay /\ TunnelPhases /\ StageOnItsWay
              /\ ConfigOnItsWay

LEMMA ControlInvHolds == ControlSpec => []ControlInv
<1>1. ControlInit => ControlInv
  BY ControlTypesInit, ReasonInit, PhasesInit, ConfigInit DEF ControlInv
<1>2. ControlInv /\ [ControlNext]_cpVars => ControlInv'
  <2> SUFFICES ASSUME ControlInv, [ControlNext]_cpVars PROVE ControlInv'
    OBVIOUS
  <2> QED
    BY ControlTypesStep, ReasonStep, PhasesStep, StageStep, ConfigStep DEF ControlInv
<1> QED
  BY <1>1, <1>2, PTL DEF ControlSpec

(* Whatever the order of the taps, the notifications and the repair of a stale
   state.json, and however many of each there are, Home ends at the status of
   the connection or at an error (VpnManager.swift:295-314, 352-418).          *)
THEOREM HomeFollows == ControlSpec => []StageSettles
<1>1. ControlInv => StageSettles
  BY DEF ControlInv, StageOnItsWay, StageSettles, Quiet, Stable, Settled, Corrected
<1> QED
  BY <1>1, ControlInvHolds, PTL

(* However selections, connects and disconnects share the one manager object
   across their suspensions, the saved configuration ends at the selected
   profile, unless a disconnect saved an object that a load had put back, or the
   save was refused (VpnManager.swift:161-234).                                *)
THEOREM SelectionReachesExtension == ControlSpec => []ConfigFollows
<1>1. ControlInv => ConfigFollows
  <2> SUFFICES ASSUME ControlInv, Quiet PROVE "profile" \in spoiled \/ prefs.profile = selected
    BY DEF ConfigFollows
  <2> QED
    BY DEF ControlInv, ConfigOnItsWay, Intended, LastSaved, Quiet, Has
<1> QED
  BY <1>1, ControlInvHolds, PTL

(* After a disconnect the rule that would bring the tunnel up again is off in
   the configuration iOS acts on, however the saves overlapped, unless a load had
   put the old rule back into the object that the disconnect read or an update
   saved after it, or the save was refused (VpnManager.swift:161-234).         *)
THEOREM StaysOff == ControlSpec => []OffStaysOff
<1>1. ControlInv => OffStaysOff
  <2> SUFFICES ASSUME ControlInv, Quiet, off PROVE "rule" \in spoiled \/ ~prefs.onDemand
    BY DEF OffStaysOff
  <2> QED
    BY DEF ControlInv, ConfigOnItsWay, Intended, LastSaved, Quiet
<1> QED
  BY <1>1, ControlInvHolds, PTL

(* The reason of a failed start reaches the user, though every notification may
   find state.json overwritten (VpnManager.swift:302-311, 341-372).            *)
THEOREM ReasonReachesUser == ControlSpec => []ReasonShown
<1>1. ControlInv => ReasonShown
  BY DEF ControlInv, ReasonOnItsWay, ReasonShown, Quiet, Has
<1> QED
  BY <1>1, ControlInvHolds, PTL
=============================================================================
