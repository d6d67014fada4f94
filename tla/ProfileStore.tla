---------------------------- MODULE ProfileStore ----------------------------
(* The profiles of the app and their selection: AppModel, and the three keys it
   writes one after the other in the App Group's defaults (SharedStore).  The app
   may die between two of the writes; the next launch restores what it finds.  *)
EXTENDS Naturals, Sequences

CONSTANTS Ids,       \* the profiles there may be
          MaxEdits   \* bound: edits of one profile

ASSUME ProfileAssumption == MaxEdits \in Nat

Nobody == "none"

VARIABLES
  profiles, chosen,            \* AppModel.profiles, AppModel.selectedProfileID
  listKey, activeKey, idKey,   \* the stored list, active profile (or <<>>) and id
  saving,                      \* the next write of persist: "no", "list", ...
  before, after                \* profiles and selection around the last operation

stored == <<listKey, activeKey, idKey>>
psVars == <<profiles, chosen, stored, saving, before, after>>

IdsOf(s)      == {s[i].id : i \in DOMAIN s}
Place(s, id)  == CHOOSE i \in DOMAIN s : s[i].id = id
\* removeAll where the id is the one given: ids are UUIDs, one profile has it.
Others(s, id) == [i \in 1 .. Len(s) - 1 |-> IF i < Place(s, id) THEN s[i] ELSE s[i + 1]]
Active        == CHOOSE p \in {profiles[i] : i \in DOMAIN profiles} : p.id = chosen

\* A clean install, or a build that stored one profile only.
ProfileInit ==
  /\ listKey = <<>> /\ idKey = Nobody
  /\ \E id \in Ids : LET p == [id |-> id, edits |-> 0] IN
       /\ activeKey \in {<<>>, <<p>>}
       /\ profiles = <<p>> /\ chosen = p.id
       /\ before = <<<<p>>, p.id>>
  /\ after = before
  /\ saving = "list"  \* bootstrap

\* Every operation changes the memory and persists it before another begins.
Becomes(ps, id) ==
  /\ saving = "no" /\ saving' = "list"
  /\ profiles' = ps /\ chosen' = id
  /\ before' = <<profiles, chosen>> /\ after' = <<ps, id>>
  /\ UNCHANGED stored
EditProfile(i) ==
  /\ profiles[i].edits < MaxEdits
  /\ Becomes([profiles EXCEPT ![i].edits = @ + 1], chosen)
AddProfile(id) ==
  /\ id \notin IdsOf(profiles)
  /\ Becomes(Append(profiles, [id |-> id, edits |-> 0]), chosen)
SelectProfile(id) ==
  /\ id # chosen /\ id \in IdsOf(profiles)
  /\ Becomes(profiles, id)
\* Faulty variant of DeleteProfile: the last remaining profile becomes active.
DeleteSelectsLast(id) ==
  /\ Len(profiles) > 1 /\ id \in IdsOf(profiles)
  /\ LET rest == Others(profiles, id)
     IN  Becomes(rest, IF id = chosen THEN rest[Len(rest)].id ELSE chosen)
DeleteProfile(id) ==
  /\ Len(profiles) > 1 /\ id \in IdsOf(profiles)
  /\ LET rest == Others(profiles, id)
     IN  Becomes(rest, IF id = chosen THEN rest[1].id ELSE chosen)

SaveList   == saving = "list" /\ saving' = "active" /\ listKey' = profiles
              /\ UNCHANGED <<profiles, chosen, activeKey, idKey, before, after>>
SaveActive == saving = "active" /\ saving' = "id" /\ activeKey' = <<Active>>
              /\ UNCHANGED <<profiles, chosen, listKey, idKey, before, after>>
SaveId     == saving = "id" /\ saving' = "no" /\ idKey' = chosen
              /\ UNCHANGED <<profiles, chosen, listKey, activeKey, before, after>>

\* The app ends, at any step, and is launched again: AppModel.init, and the
\* persist of bootstrap next.
Relaunch ==
  /\ IF listKey = <<>>
     THEN /\ profiles' \in (IF activeKey = <<>> THEN {<<[id |-> id, edits |-> 0]>> : id \in Ids}
                            ELSE {activeKey})
          /\ chosen' = profiles'[1].id
          /\ before' = <<profiles', chosen'>> /\ after' = before'
     ELSE /\ profiles' = listKey
          /\ chosen' = IF idKey \in IdsOf(listKey) THEN idKey ELSE listKey[1].id
          /\ UNCHANGED <<before, after>>
  /\ saving' = "list"
  /\ UNCHANGED stored

ProfileNext ==
  \/ \E i \in DOMAIN profiles : EditProfile(i)
  \/ \E id \in Ids : AddProfile(id) \/ SelectProfile(id) \/ DeleteProfile(id)
  \/ SaveList \/ SaveActive \/ SaveId \/ Relaunch
ProfileSpec == ProfileInit /\ [][ProfileNext]_psVars

-----------------------------------------------------------------------------
\* However often the app dies between the writes of one save, what a launch
\* restores is the whole of the state before the interrupted operation or the
\* whole of the state after it, list and selection together: deleting the active
\* profile is safe only because the profile that replaces it is the one init
\* falls back to (AppModel.swift:42-44, 120-124).
RestoredWhole == <<profiles, chosen>> \in {before, after}
=============================================================================
