---------------------------- MODULE ControlPlane ---------------------------
(* The app's side of the tunnel: VpnManager, which turns taps into requests to
   NetworkExtension and its notifications into the stage that Home shows, with
   the toggle of HomeView and the profile selection of AppModel.

   All of VpnManager runs on the main actor: one job at a time, in the order
   the jobs were enqueued.  A coroutine gives the actor up at each preference
   call, and other jobs run before it resumes.  NetworkExtension serves the
   preference calls in order; it and the extension run in other processes and
   move at any time.  state.json is read and written by both.                 *)
EXTENDS Integers, Sequences, FiniteSets

CONSTANTS
  Profiles,     \* profiles the user may select
  Tids,         \* bound: coroutines begun by the user and not at their end
  MaxTaps,      \* bound: taps on the toggle
  MaxSwitches,  \* bound: selections of another profile
  MaxTroubles,  \* bound: failing preference calls and starts, failing restarts
                \* and kills of the extension
  MaxQueue      \* bound: jobs waiting for the main actor

\* The app always has a profile: it makes one on a clean install and never
\* deletes the last.
ASSUME ControlAssumption ==
  /\ {MaxTaps, MaxSwitches, MaxTroubles, MaxQueue} \subseteq Nat
  /\ Profiles # {}

Stage  == {"disconnected", "connecting", "connected", "error"}
Status == {"disconnected", "connecting", "connected", "disconnecting"}
Configuration == [profile : Profiles, onDemand : BOOLEAN]
NoTask == [op |-> "none", held |-> "disconnected"]

VARIABLES
  stage,      \* VpnManager.stage
  banner,     \* VpnManager.lastError: "none", "ne" or the extension's "reason"
  misled,     \* history: the stage was last set by a disconnect from a status
              \* that was no longer the connection's
  object,     \* the NETunnelProviderManager in the app's memory
  prefs,      \* the saved configuration, the one NetworkExtension acts on
  status,     \* connection.status
  ext,        \* the extension's process
  file,       \* state.json: stage, and whether it has a message
  queue,      \* jobs of the main actor
  clearing,   \* the status a job holds between reading state.json and
              \* overwriting it, "no" otherwise
  requests,   \* preference calls not served yet
  task,       \* the suspended coroutines
  selected,   \* AppModel.selectedProfileID
  used,       \* how much of each bound is used
  off,        \* history: the last request was to disconnect
  spoiled,    \* history: the parts of the saved configuration that a load of
              \* another coroutine or a refused save had its hand in
  owed        \* a start failed since the last tap or start, the user has not
              \* been told why

neVars  == <<prefs, status, ext, requests>>
uiVars  == <<stage, banner, misled>>
cpVars  == <<uiVars, object, neVars, file, queue, clearing, task, selected, used, off,
             spoiled, owed>>
intent  == <<off, spoiled>>
wishes  == <<intent, owed>>

Post(job)   == queue' = Append(queue, job)
Room        == Len(queue) < MaxQueue
Free        == {t \in Tids : task[t].op = "none"}
\* Coroutines are alike: a new one takes a fixed free name.
IsNext(t)   == Free # {} /\ t = CHOOSE u \in Free : TRUE
MayBegin    == /\ Room
               /\ Cardinality({i \in DOMAIN queue :
                      queue[i][1] \in {"connect", "disconnect", "update"}})
                    < Cardinality(Free)
Use(bound)  == used' = [used EXCEPT ![bound] = @ + 1]
Map(s)      == CASE s = "connected" -> "connected"
                 [] s = "disconnected" -> "disconnected"
                 [] OTHER -> "connecting"
IsActive(f) == f.stage \in {"connecting", "connected"}
Wrote(st, message) == [stage |-> st, message |-> message]

ControlInit ==
  /\ stage = "disconnected" /\ banner = "none" /\ misled = FALSE
  /\ selected = CHOOSE p \in Profiles : TRUE
  /\ object = [profile |-> selected, onDemand |-> FALSE]
  /\ prefs = object
  /\ status = "disconnected" /\ ext = "none"
  /\ file = Wrote("disconnected", FALSE)
  /\ queue = <<>> /\ clearing = "no" /\ requests = <<>>
  /\ task = [t \in Tids |-> NoTask]
  /\ used = [taps |-> 0, switches |-> 0, troubles |-> 0]
  /\ off = FALSE /\ spoiled = {} /\ owed = FALSE

-----------------------------------------------------------------------------
(* The user *)

\* The toggle is disabled while the stage is "connecting"; each tap starts a
\* task of its own, and the stage does not change before NetworkExtension's does.
Tap ==
  /\ used.taps < MaxTaps /\ stage # "connecting" /\ MayBegin
  /\ Use("taps")
  /\ Post(IF stage = "connected" THEN <<"disconnect">> ELSE <<"connect">>)
  /\ UNCHANGED <<uiVars, object, neVars, file, clearing, task, selected, wishes>>

Select(p) ==
  /\ used.switches < MaxSwitches /\ p # selected /\ MayBegin
  /\ Use("switches")
  /\ selected' = p /\ Post(<<"update">>)
  /\ UNCHANGED <<uiVars, object, neVars, file, clearing, task, wishes>>

-----------------------------------------------------------------------------
(* The main actor *)

Ready(op) == clearing = "no" /\ queue # <<>> /\ Head(queue)[1] = op
Pop       == queue' = Tail(queue)
\* saveToPreferences sends the object as it is at the call.
Ask(t, op, kind, snapshot, held) ==
  /\ task' = [task EXCEPT ![t] = [op |-> op, held |-> held]]
  /\ requests' = Append(requests, [kind |-> kind, value |-> snapshot, by |-> t])

\* The status is read when the notification is delivered and applied by a task
\* of its own.
StatusNote ==
  /\ Ready("note")
  /\ queue' = Append(Tail(queue), <<"apply", status>>)
  /\ UNCHANGED <<uiVars, object, neVars, file, clearing, task, selected, used, wishes>>
\* Faulty variant of ApplyStatus: defers to a file that says the tunnel is up.
ApplyStatusUnlessActive ==
  /\ Ready("apply") /\ Pop
  /\ stage' = IF IsActive(file) THEN stage ELSE Map(Head(queue)[2])
  /\ misled' = FALSE
  /\ banner' = IF Head(queue)[2] = "disconnected" /\ file.message THEN "reason" ELSE banner
  /\ UNCHANGED <<object, neVars, file, clearing, task, selected, used, wishes>>
ApplyStatus ==
  /\ Ready("apply") /\ Pop
  /\ stage' = Map(Head(queue)[2]) /\ misled' = FALSE
  /\ banner' = IF Head(queue)[2] = "disconnected" /\ file.message THEN "reason" ELSE banner
  /\ UNCHANGED <<object, neVars, file, clearing, task, selected, used, wishes>>

\* Faulty variant of Reconciled: believes the file.
ReconciledByFile(f, s) == f.stage
\* reconcileExtensionState; the status of the connection decides the stage,
\* unless the extension reports an error.
Reconciled(f, s) ==
  IF f.stage = "error" /\ s # "connected" THEN "error"
  ELSE IF f.stage = "disconnected" /\ s = "disconnecting" THEN "disconnected"
  ELSE Map(s)
StateNote ==
  /\ Ready("state") /\ ~(status = "disconnected" /\ IsActive(file))
  /\ Pop
  /\ stage' = Reconciled(file, status) /\ misled' = FALSE
  /\ banner' = IF file.message /\ (file.stage = "error" \/ status = "connected")
                 THEN "reason" ELSE banner
  /\ UNCHANGED <<object, neVars, file, clearing, task, selected, used, wishes>>
\* An active file without a tunnel is stale: it is read again and overwritten.
StateNoteStale ==
  /\ Ready("state") /\ status = "disconnected" /\ IsActive(file)
  /\ Pop /\ clearing' = status
  /\ UNCHANGED <<uiVars, object, neVars, file, task, selected, used, wishes>>
\* The second half of clearStaleActiveExtensionState, and what follows it.
ClearStale ==
  /\ clearing # "no"
  /\ file' = Wrote("disconnected", FALSE) /\ Post(<<"state">>)
  /\ stage' = Map(clearing) /\ clearing' = "no" /\ misled' = FALSE
  /\ owed' = (owed /\ file.stage # "error")  \* a reason may be lost to this write
  /\ UNCHANGED <<banner, object, neVars, task, selected, used, intent>>

\* What the saves among `calls' leave in NetworkExtension, which now holds `base'.
Saves(calls) == {i \in DOMAIN calls : calls[i].kind = "save"}
SavedBy(calls, base) ==
  IF Saves(calls) = {} THEN base
  ELSE calls[CHOOSE i \in Saves(calls) : \A j \in Saves(calls) : j <= i].value
Differs(c, d) == (IF c.profile # d.profile THEN {"profile"} ELSE {})
                 \cup (IF c.onDemand # d.onDemand THEN {"rule"} ELSE {})
\* The parts in which a load of another coroutine has put the object back behind
\* what was sent: saving the object undoes them, and reading it misses them.
Behind == Differs(object, SavedBy(requests, prefs))

\* connect(): configure, set on-demand as the preference is then, save, load, start.
Connect(t) ==
  /\ Ready("connect") /\ IsNext(t) /\ Pop
  /\ banner' = "none"
  /\ \E rule \in BOOLEAN : object' = [profile |-> selected, onDemand |-> rule]
  /\ Ask(t, "connectSave", "save", object', "disconnected")
  /\ off' = FALSE /\ spoiled' = {} /\ owed' = FALSE
  /\ UNCHANGED <<stage, misled, prefs, status, ext, file, clearing, selected, used>>

\* Faulty variant of Update: saves, then configures.
UpdateAfterSave(t) ==
  /\ Ready("update") /\ IsNext(t) /\ Pop
  /\ object' = [object EXCEPT !.profile = selected]
  /\ Ask(t, "updateSave", "save", object, "disconnected")
  /\ spoiled' = (spoiled \cup Behind) \ {"profile"}
  /\ UNCHANGED <<uiVars, prefs, status, ext, file, clearing, selected, used, off, owed>>
\* updateConfiguration(): configure, save, load.
Update(t) ==
  /\ Ready("update") /\ IsNext(t) /\ Pop
  /\ object' = [object EXCEPT !.profile = selected]
  /\ Ask(t, "updateSave", "save", object', "disconnected")
  /\ spoiled' = (spoiled \cup Behind) \ {"profile"}
  /\ UNCHANGED <<uiVars, prefs, status, ext, file, clearing, selected, used, off, owed>>

\* stopVPNTunnel()
StopTunnel ==
  IF status \in {"connecting", "connected"}
  THEN status' = "disconnecting" /\ queue' = Append(Tail(queue), <<"note">>)
  ELSE UNCHANGED status /\ Pop
\* The end of the branch of disconnect() that has nothing to stop: the status
\* is the one read before the save.
Unstoppable(s) ==
  /\ Pop
  /\ IF IsActive(file) THEN clearing' = s /\ UNCHANGED <<stage, misled>>
     ELSE stage' = Map(s) /\ misled' = (s # status) /\ UNCHANGED clearing

\* Faulty variant of Disconnect: leaves on-demand as it is.
DisconnectKeepsRule(t) ==
  /\ Ready("disconnect") /\ IsNext(t)
  /\ IF status # "disconnected"
     THEN StopTunnel /\ UNCHANGED <<stage, misled, clearing>>
     ELSE Unstoppable(status) /\ UNCHANGED status
  /\ off' = TRUE
  /\ UNCHANGED <<banner, object, prefs, ext, file, requests, task, selected, used, spoiled, owed>>
\* disconnect(): with the rule on it is turned off and saved first.
Disconnect(t) ==
  /\ Ready("disconnect") /\ IsNext(t)
  /\ IF object.onDemand
     THEN /\ Pop
          /\ object' = [object EXCEPT !.onDemand = FALSE]
          /\ Ask(t, "disconnectSave", "save", object', status)
          /\ spoiled' = (spoiled \cup Behind) \ {"rule"}
          /\ UNCHANGED <<stage, misled, status, clearing>>
     ELSE /\ IF status # "disconnected"
             THEN StopTunnel /\ UNCHANGED <<stage, misled, clearing>>
             ELSE Unstoppable(status) /\ UNCHANGED status
          /\ spoiled' = (spoiled \ {"rule"}) \cup (Behind \ {"profile"})
          /\ UNCHANGED <<object, task, requests>>
  /\ off' = TRUE
  /\ UNCHANGED <<banner, prefs, ext, file, selected, used, owed>>

Resumes(t, op) == Ready("resume") /\ Head(queue)[2] = t /\ task[t].op = op
Succeeded      == Head(queue)[3] = "ok"
Ends(t)        == task' = [task EXCEPT ![t] = NoTask]

\* A failed save or load, and a failed start.
Fails(t, op) ==
  /\ Resumes(t, op) /\ ~Succeeded /\ Pop /\ Ends(t)
  /\ banner' = "ne"
  /\ stage' = IF op \in {"connectSave", "connectLoad"} THEN "error" ELSE stage
  /\ UNCHANGED <<misled, object, neVars, file, clearing, selected, used, wishes>>
Saved(t, op, next) ==
  /\ Resumes(t, op) /\ Succeeded /\ Pop
  /\ Ask(t, next, "load", object, "disconnected")
  /\ UNCHANGED <<uiVars, object, prefs, status, ext, file, clearing, selected, used, wishes>>
Updated(t) ==
  /\ Resumes(t, "updateLoad") /\ Succeeded /\ Pop /\ Ends(t)
  /\ UNCHANGED <<uiVars, object, neVars, file, clearing, selected, used, wishes>>
\* startVPNTunnel() does nothing when the tunnel is already on its way.
Started(t) ==
  /\ Resumes(t, "connectLoad") /\ Succeeded /\ Ends(t)
  /\ \/ /\ status = "disconnected" /\ ext = "none"
        /\ status' = "connecting" /\ ext' = "launched"
        /\ queue' = Append(Tail(queue), <<"note">>) /\ owed' = FALSE
     \/ /\ status # "disconnected" \/ ext # "none"
        /\ Pop /\ UNCHANGED <<status, ext, owed>>
  /\ UNCHANGED <<uiVars, object, prefs, file, clearing, requests, selected, used, intent>>
StartThrows(t) ==
  /\ used.troubles < MaxTroubles /\ Use("troubles")
  /\ Resumes(t, "connectLoad") /\ Succeeded /\ Pop /\ Ends(t)
  /\ banner' = "ne" /\ stage' = "error"
  /\ UNCHANGED <<misled, object, neVars, file, clearing, selected, wishes>>
\* Back in disconnect(), whatever became of the save.
RuleSaved(t) ==
  /\ Resumes(t, "disconnectSave") /\ Ends(t)
  /\ IF task[t].held # "disconnected"
     THEN StopTunnel /\ UNCHANGED <<stage, misled, clearing>>
     ELSE Unstoppable(task[t].held) /\ UNCHANGED status
  /\ UNCHANGED <<banner, object, prefs, ext, file, requests, selected, used, wishes>>

MainActor ==
  \/ StatusNote \/ ApplyStatus \/ StateNote \/ StateNoteStale \/ ClearStale
  \/ \E t \in Tids :
       \/ Connect(t) \/ Update(t) \/ Disconnect(t)
       \/ Saved(t, "connectSave", "connectLoad") \/ Saved(t, "updateSave", "updateLoad")
       \/ \E op \in {"connectSave", "connectLoad", "updateSave", "updateLoad"} : Fails(t, op)
       \/ Updated(t) \/ Started(t) \/ StartThrows(t) \/ RuleSaved(t)

-----------------------------------------------------------------------------
(* NetworkExtension *)

Serve ==
  /\ requests # <<>>
  /\ LET r == Head(requests)
     IN  /\ prefs' = IF r.kind = "save" THEN r.value ELSE prefs
         /\ object' = IF r.kind = "load" THEN prefs ELSE object
         /\ Post(<<"resume", r.by, "ok">>)
  /\ requests' = Tail(requests)
  /\ UNCHANGED <<uiVars, status, ext, file, clearing, task, selected, used, wishes>>
Refuse ==
  /\ requests # <<>>
  /\ used.troubles < MaxTroubles /\ Use("troubles")
  /\ Post(<<"resume", Head(requests).by, "failed">>)
  /\ requests' = Tail(requests)
  /\ spoiled' = spoiled \cup Differs(SavedBy(requests, prefs), SavedBy(Tail(requests), prefs))
  /\ UNCHANGED <<uiVars, object, prefs, status, ext, file, clearing, task, selected, off, owed>>

Moves(s, e) ==
  /\ Room /\ status' = s /\ ext' = e /\ Post(<<"note">>)
  /\ UNCHANGED <<uiVars, object, prefs, file, clearing, requests, task, selected>>
\* The connect rule: the system starts the tunnel when it is down.
OnDemand ==
  status = "disconnected" /\ ext = "none" /\ prefs.onDemand
  /\ Moves("connecting", "launched")
  /\ owed' = FALSE /\ UNCHANGED <<used, intent>>
NoticesStart == status = "connecting" /\ ext = "running"
                /\ Moves("connected", ext) /\ UNCHANGED <<used, wishes>>
NoticesFailure == ext = "failed" /\ Moves("disconnected", "none") /\ UNCHANGED <<used, wishes>>
NoticesCancel == ext = "cancelled" /\ status # "disconnecting"
                 /\ Moves("disconnecting", ext) /\ UNCHANGED <<used, wishes>>
NoticesStop == status = "disconnecting" /\ ext \in {"stopped", "cancelled"}
               /\ Moves("disconnected", "none") /\ UNCHANGED <<used, wishes>>
Killed ==
  /\ used.troubles < MaxTroubles /\ Use("troubles")
  /\ ext \notin {"none"} /\ Moves("disconnected", "none") /\ UNCHANGED wishes

-----------------------------------------------------------------------------
(* The extension, as PacketTunnelProvider writes state.json *)

Writes(st, message, e) ==
  /\ Room /\ file' = Wrote(st, message) /\ ext' = e /\ Post(<<"state">>)
  /\ UNCHANGED <<uiVars, object, prefs, status, requests, clearing, task, selected>>
ExtBegins    == ext = "launched" /\ Writes("connecting", FALSE, "setup")
                /\ UNCHANGED <<used, wishes>>
ExtStarts    == ext = "setup" /\ Writes("connected", FALSE, "running") /\ UNCHANGED <<used, wishes>>
\* Faulty variant of ExtFails: without a reason.
ExtFailsMute == ext = "setup" /\ Writes("error", FALSE, "failed")
                /\ owed' = TRUE /\ UNCHANGED <<used, intent>>
ExtFails     == ext = "setup" /\ Writes("error", TRUE, "failed")
                /\ owed' = TRUE /\ UNCHANGED <<used, intent>>
ExtRestartFails ==
  /\ used.troubles < MaxTroubles /\ Use("troubles")
  /\ ext = "running" /\ status = "connected" /\ Writes("error", TRUE, "cancelled")
  /\ UNCHANGED wishes
\* stopTunnel; after cancelTunnelWithError the system may or may not call it.
ExtStops ==
  /\ status = "disconnecting" /\ ext \in {"running", "cancelled"}
  /\ Writes("disconnected", FALSE, "stopped") /\ UNCHANGED <<used, wishes>>

System == \/ Serve
          \/ NoticesStart \/ NoticesFailure \/ NoticesCancel \/ NoticesStop
          \/ ExtBegins \/ ExtStarts \/ ExtFails \/ ExtStops
ControlNext ==
  \/ Tap \/ \E p \in Profiles : Select(p)
  \/ MainActor
  \/ System \/ Refuse \/ OnDemand \/ Killed \/ ExtRestartFails

\* The main actor runs its jobs, NetworkExtension serves its calls and reports
\* what it sees, the extension finishes what it began.
ControlSpec == /\ ControlInit /\ [][ControlNext]_cpVars
               /\ WF_cpVars(MainActor) /\ WF_cpVars(System)

-----------------------------------------------------------------------------
(* Properties *)

\* Nothing is on its way to the app: no job, no call, no coroutine, and the
\* connection is up or down.
Quiet == /\ queue = <<>> /\ requests = <<>> /\ clearing = "no"
         /\ \A t \in Tids : task[t].op = "none"
         /\ <<status, ext>> \in {<<"disconnected", "none">>, <<"connected", "running">>}

\* A disconnect applied the status it read before its save, a tunnel had come up
\* meanwhile, and its state.json was taken for stale: nothing more is to come
\* that would correct Home (VpnManager.swift:214-227).
Misled == misled /\ stage = "disconnected" /\ file.stage = "disconnected" /\ status = "connected"

\* Whatever the order of the notifications, the taps, the stale file and the
\* suspended coroutines, Home ends at the status of the connection or at an
\* error it was told of; it is misled only by a state.json that is wrong as well.
StageSettles == Quiet => stage \in {Map(status), "error"} \/ Misled

\* The configuration NetworkExtension holds names the selected profile, though a
\* selection and a connect save the one shared object in either order and across
\* each other's suspensions; but a disconnect saves the object as a load of
\* another coroutine may have put it back, and a refused save leaves the old one.
ConfigFollows == Quiet => "profile" \in spoiled \/ prefs.profile = selected

\* Once the last request was to disconnect, the rule by which iOS would bring the
\* tunnel up again is off in the saved configuration, however connects, updates
\* and disconnects overlap.  Two things alone break it: a load of another
\* coroutine puts the old rule back into the object, and so hides the save of a
\* connect from the disconnect, which OffMeansOff shows, or that of the disconnect
\* from an update (VpnManager.swift:167, 221, 229); and a save is refused (try?).
OffStaysOff == Quiet /\ off => "rule" \in spoiled \/ ~prefs.onDemand

\* VpnManager.swift:206-207: "Disables on-demand first so iOS doesn't immediately
\* auto-reconnect when the user deliberately turns the VPN off".
OffMeansOff == Quiet /\ off => ~prefs.onDemand

\* The reason of a failed start reaches the user by one notification or the
\* other, though each may find the file overwritten by then.
ReasonShown == Quiet /\ owed => banner # "none"

\* The toggle, disabled while the stage is "connecting", is enabled again: the
\* stage is never stuck there, whatever fails or dies.
TogglesAgain == stage = "connecting" ~> stage # "connecting"
=============================================================================
