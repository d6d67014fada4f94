--------------------------- MODULE AppStoreProofs ---------------------------
(* What is proved of the two things the app keeps on disk.

   Of ProfileStore, for every set of ids and number of edits: that a launch
   after a death at any point restores a whole state.

   Of LogMirror, for every set of files and lines and every size limit: its
   types, and that no rotation, restart or end of the process loses a line that
   the app is due to show.                                                     *)
EXTENDS ProfileStore, LogMirror, SequenceTheorems, FiniteSetTheorems, TLAPS

(***************************************************************************)
(* The profile store.                                                      *)
(***************************************************************************)
(* What a launch makes of the two keys it prefers. *)
Chosen(list, id)   == IF id \in IdsOf(list) THEN id ELSE list[1].id
Restored(list, id) == <<list, Chosen(list, id)>>
Whole(pair)        == pair \in {before, after}

(* A profile list as the app has it: not empty, no id twice. *)
Entry     == [id : Ids, edits : Nat]
ListOf(s) == /\ s \in Seq(Entry) /\ s # <<>>
             /\ \A i, j \in DOMAIN s : s[i].id = s[j].id => i = j

(* RestoredWhole speaks of the memory; what a launch restores depends on the
   keys, which are written one at a time.  Until the list is written, a launch
   must give one of the two states with the old list and, because the list may
   be written next, with the list in memory; from then on with the list in
   memory.  The id is written last, so that "no" has both.  On a clean install
   there is no list yet, and one profile in the other key at most.             *)
StoreTypes ==
  /\ saving \in {"no", "list", "active", "id"}
  /\ ListOf(profiles) /\ chosen \in IdsOf(profiles)
  /\ listKey = <<>> \/ ListOf(listKey)
FirstLaunch ==
  listKey = <<>> =>
    /\ saving = "list" /\ Len(profiles) = 1
    /\ activeKey = <<>> \/ (ListOf(activeKey) /\ Len(activeKey) = 1)
KeysInStep ==
  /\ listKey # <<>> => Whole(Restored(listKey, idKey))
  /\ Whole(Restored(profiles, idKey))
  /\ saving \in {"active", "id", "no"} => listKey = profiles
  /\ saving = "no" => idKey = chosen

StoreInv == StoreTypes /\ FirstLaunch /\ KeysInStep /\ RestoredWhole

-----------------------------------------------------------------------------
\* A list is a function on the numbers up to its length.
LEMMA ListIsFunction ==
  ASSUME NEW s, ListOf(s)
  PROVE  /\ Len(s) \in Nat \ {0} /\ DOMAIN s = 1 .. Len(s) /\ s \in [1 .. Len(s) -> Entry]
         /\ \A i \in 1 .. Len(s) : s[i] \in Entry
         /\ \A i, j \in 1 .. Len(s) : s[i].id = s[j].id => i = j
<1>1. s \in Seq(Entry) /\ s # <<>>
  BY DEF ListOf
<1>2. Len(s) \in Nat \ {0} /\ DOMAIN s = 1 .. Len(s) /\ s \in [1 .. Len(s) -> Entry]
  BY <1>1
<1> QED
  BY <1>2 DEF ListOf

LEMMA FunctionIsSeq ==
  ASSUME NEW n \in Nat, NEW f \in [1 .. n -> Entry]
  PROVE  f \in Seq(Entry)
  BY SeqDef

\* An id that a list has is at a place, and at no other.
LEMMA PlaceIsThere ==
  ASSUME NEW s, ListOf(s), NEW id \in IdsOf(s)
  PROVE  /\ Place(s, id) \in DOMAIN s /\ s[Place(s, id)].id = id
         /\ \A i \in DOMAIN s : s[i].id = id => i = Place(s, id)
<1>1. \E i \in DOMAIN s : s[i].id = id
  BY DEF IdsOf
<1> QED
  BY <1>1 DEF Place, ListOf

\* Deleting one of several profiles leaves a list without that profile.
LEMMA OthersRemain ==
  ASSUME NEW s, ListOf(s), Len(s) > 1, NEW id \in IdsOf(s)
  PROVE  /\ ListOf(Others(s, id)) /\ id \notin IdsOf(Others(s, id))
         /\ \A other \in IdsOf(s) \ {id} : other \in IdsOf(Others(s, id))
<1> DEFINE n == Len(s)
           k == Place(s, id)
           r == Others(s, id)
<1>1. /\ n \in Nat /\ n > 1 /\ DOMAIN s = 1 .. n /\ k \in 1 .. n /\ s[k].id = id
      /\ \A i \in 1 .. n : s[i].id = id => i = k
      /\ \A i \in 1 .. n : s[i] \in Entry
      /\ \A i, j \in 1 .. n : s[i].id = s[j].id => i = j
  <2>1. /\ n \in Nat /\ n > 1 /\ DOMAIN s = 1 .. n
        /\ \A i \in 1 .. n : s[i] \in Entry
        /\ \A i, j \in 1 .. n : s[i].id = s[j].id => i = j
    BY ListIsFunction
  <2>2. /\ k \in DOMAIN s /\ s[k].id = id
        /\ \A i \in DOMAIN s : s[i].id = id => i = k
    BY PlaceIsThere
  <2> QED
    BY <2>1, <2>2
<1>2. /\ r = [i \in 1 .. n - 1 |-> IF i < k THEN s[i] ELSE s[i + 1]]
      /\ DOMAIN r = 1 .. n - 1
      /\ \A i \in 1 .. n - 1 : r[i] = IF i < k THEN s[i] ELSE s[i + 1]
  BY <1>1 DEF Others
<1> HIDE DEF n, k, r
<1>3. r \in Seq(Entry) /\ r # <<>>
  <2>1. \A i \in 1 .. n - 1 : r[i] \in Entry
    BY <1>1, <1>2
  <2>2. n - 1 \in Nat /\ r \in [1 .. n - 1 -> Entry]
    BY <1>1, <1>2, <2>1
  <2>3. r \in Seq(Entry)
    BY <2>2, FunctionIsSeq
  <2>4. 1 \in DOMAIN r
    BY <1>1, <1>2
  <2> QED
    BY <2>3, <2>4
<1>4. \A i, j \in 1 .. n - 1 : r[i].id = r[j].id => i = j
  BY <1>1, <1>2
<1>5. \A i \in 1 .. n - 1 : r[i].id # id
  BY <1>1, <1>2
<1>6. ASSUME NEW other \in IdsOf(s) \ {id} PROVE other \in IdsOf(r)
  <2>1. PICK i \in 1 .. n : s[i].id = other
    BY <1>1 DEF IdsOf
  <2>2. i # k
    BY <1>1, <2>1
  <2>3. CASE i < k
    <3>1. i \in 1 .. n - 1 /\ r[i] = s[i]
      BY <1>1, <1>2, <2>3
    <3> QED
      BY <1>2, <2>1, <3>1 DEF IdsOf
  <2>4. CASE i > k
    <3>1. i - 1 \in 1 .. n - 1 /\ ~(i - 1 < k) /\ (i - 1) + 1 = i
      BY <1>1, <2>4
    <3>2. r[i - 1] = s[i]
      BY <1>2, <3>1
    <3> QED
      BY <1>2, <2>1, <3>1, <3>2 DEF IdsOf
  <2> QED
    BY <1>1, <2>2, <2>3, <2>4
<1> QED
  <2>1. ListOf(r)
    BY <1>2, <1>3, <1>4 DEF ListOf
  <2>2. id \notin IdsOf(r)
    BY <1>2, <1>5 DEF IdsOf
  <2> QED
    BY <1>6, <2>1, <2>2 DEF r

\* The first profile of a list is one of it, and the one a launch falls back to.
LEMMA FirstIsThere ==
  ASSUME NEW s, ListOf(s)
  PROVE  s[1].id \in IdsOf(s) /\ 1 \in DOMAIN s
<1>1. 1 \in DOMAIN s
  BY DEF ListOf
<1> QED
  BY <1>1 DEF IdsOf

LEMMA ChosenIsThere ==
  ASSUME NEW s, ListOf(s), NEW id
  PROVE  Chosen(s, id) \in IdsOf(s) /\ (id \in IdsOf(s) => Chosen(s, id) = id)
  BY FirstIsThere DEF Chosen

\* One profile is chosen whatever the id.
LEMMA OnlyOne ==
  ASSUME NEW s, ListOf(s), Len(s) = 1, NEW id, NEW other \in IdsOf(s)
  PROVE  Chosen(s, id) = other
<1>1. DOMAIN s = {1}
  BY DEF ListOf
<1>2. IdsOf(s) = {s[1].id}
  BY <1>1 DEF IdsOf
<1> QED
  BY <1>2 DEF Chosen

-----------------------------------------------------------------------------
\* One profile on its own is a list.
LEMMA OneProfile ==
  ASSUME NEW id \in Ids
  PROVE  LET s == <<[id |-> id, edits |-> 0]>>
         IN  ListOf(s) /\ Len(s) = 1 /\ id \in IdsOf(s) /\ s[1].id = id
  BY DEF ListOf, IdsOf, Entry

LEMMA StoreInit == ProfileInit => StoreInv
<1> SUFFICES ASSUME ProfileInit PROVE StoreInv
  OBVIOUS
<1>1. PICK id \in Ids : /\ activeKey \in {<<>>, <<[id |-> id, edits |-> 0]>>}
                        /\ profiles = <<[id |-> id, edits |-> 0]>> /\ chosen = id
                        /\ before = <<profiles, chosen>>
  BY DEF ProfileInit
<1>2. ListOf(profiles) /\ Len(profiles) = 1 /\ chosen \in IdsOf(profiles)
  BY <1>1, OneProfile
<1>3. Chosen(profiles, idKey) = chosen
  BY <1>2, OnlyOne
<1> QED
  BY <1>1, <1>2, <1>3, OneProfile
  DEF ProfileInit, StoreInv, StoreTypes, FirstLaunch, KeysInStep, Whole, Restored, RestoredWhole

(* An operation may begin only when the keys agree with the memory.  It leaves
   a list, and a launch that finds the new list with the old id must give the
   new state or the old one.                                                   *)
LEMMA BecomesStep ==
  ASSUME StoreInv, NEW ps, NEW id, Becomes(ps, id), ListOf(ps), id \in IdsOf(ps),
         Restored(ps, chosen) \in {<<profiles, chosen>>, <<ps, id>>}
  PROVE  StoreInv'
<1>1. /\ saving = "no" /\ saving' = "list" /\ profiles' = ps /\ chosen' = id
      /\ before' = <<profiles, chosen>> /\ after' = <<ps, id>>
      /\ listKey' = listKey /\ activeKey' = activeKey /\ idKey' = idKey
  BY DEF Becomes, stored
<1>2. listKey = profiles /\ idKey = chosen /\ listKey # <<>> /\ ListOf(listKey)
  BY <1>1 DEF StoreInv, StoreTypes, FirstLaunch, KeysInStep
<1>3. Restored(listKey, idKey) = <<profiles, chosen>>
  BY <1>2, ChosenIsThere DEF Restored, StoreInv, StoreTypes
<1>4. StoreTypes' /\ FirstLaunch'
  BY <1>1, <1>2 DEF StoreTypes, FirstLaunch, ListOf, IdsOf
<1>5. KeysInStep'
  BY <1>1, <1>2, <1>3 DEF KeysInStep, Whole, Restored, Chosen, IdsOf
<1> QED
  BY <1>1, <1>4, <1>5 DEF StoreInv, RestoredWhole

LEMMA EditStep ==
  ASSUME StoreInv, NEW i \in DOMAIN profiles, EditProfile(i)
  PROVE  StoreInv'
<1> DEFINE ps == [profiles EXCEPT ![i].edits = @ + 1]
<1>1. Becomes(ps, chosen)
  BY DEF EditProfile
<1>2. /\ DOMAIN ps = DOMAIN profiles /\ \A j \in DOMAIN ps : ps[j].id = profiles[j].id
      /\ \A j \in DOMAIN ps : ps[j] \in Entry
  <2>1. profiles \in [DOMAIN profiles -> Entry] /\ i \in DOMAIN profiles
    BY ListIsFunction DEF StoreInv, StoreTypes
  <2>2. profiles[i].edits + 1 \in Nat
    BY <2>1 DEF Entry
  <2> QED
    BY <2>1, <2>2 DEF Entry
<1>3. IdsOf(ps) = IdsOf(profiles)
  BY <1>2 DEF IdsOf
<1>4. ListOf(ps)
  <2>1. ps \in [1 .. Len(profiles) -> Entry] /\ Len(profiles) \in Nat \ {0}
    BY <1>2, ListIsFunction DEF StoreInv, StoreTypes
  <2>2. ps \in Seq(Entry) /\ ps # <<>>
    <3>1. ps \in Seq(Entry)
      <4> HIDE DEF ps
      <4> QED
        BY <2>1, FunctionIsSeq
    <3>2. 1 \in DOMAIN ps
      BY <2>1
    <3> QED
      BY <3>1, <3>2
  <2> QED
    BY <1>2, <2>2 DEF StoreInv, StoreTypes, ListOf
<1> HIDE DEF ps
<1> QED
  BY <1>1, <1>3, <1>4, BecomesStep, ChosenIsThere DEF StoreInv, StoreTypes, Restored

LEMMA AddStep ==
  ASSUME StoreInv, NEW id \in Ids, AddProfile(id)
  PROVE  StoreInv'
<1> DEFINE ps == Append(profiles, [id |-> id, edits |-> 0])
           n == Len(profiles)
<1>2. /\ n \in Nat /\ DOMAIN profiles = 1 .. n /\ DOMAIN ps = 1 .. n + 1
      /\ \A j \in 1 .. n : ps[j] = profiles[j]
      /\ ps[n + 1] = [id |-> id, edits |-> 0]
      /\ ps \in Seq(Entry) /\ ps # <<>>
  <2>1. profiles \in Seq(Entry)
    BY DEF StoreInv, StoreTypes, ListOf
  <2>2. [id |-> id, edits |-> 0] \in Entry
    BY DEF Entry
  <2> QED
    BY <2>1, <2>2, AppendProperties
<1> HIDE DEF ps, n
<1>3. chosen \in IdsOf(ps)
  <2>1. PICK j \in 1 .. n : profiles[j].id = chosen
    BY <1>2 DEF StoreInv, StoreTypes, IdsOf
  <2>2. ps[j].id = chosen /\ j \in DOMAIN ps
    BY <1>2, <2>1
  <2> QED
    BY <2>2 DEF IdsOf
<1>4. ListOf(ps)
  <2>1. \A j \in 1 .. n : profiles[j].id # id
    BY <1>2 DEF AddProfile, IdsOf
  <2>2. \A j, k \in 1 .. n : profiles[j].id = profiles[k].id => j = k
    BY <1>2 DEF StoreInv, StoreTypes, ListOf
  <2>3. \A j, k \in 1 .. n + 1 : ps[j].id = ps[k].id => j = k
    BY <1>2, <2>1, <2>2
  <2> QED
    BY <1>2, <2>3 DEF ListOf
<1>5. Becomes(ps, chosen)
  BY DEF AddProfile, ps
<1> QED
  BY <1>3, <1>4, <1>5, BecomesStep, ChosenIsThere DEF Restored

LEMMA SelectStep ==
  ASSUME StoreInv, NEW id \in Ids, SelectProfile(id)
  PROVE  StoreInv'
  BY BecomesStep, ChosenIsThere DEF SelectProfile, Restored, StoreInv, StoreTypes

(* The case that needs the replacement to be the first of the rest. *)
LEMMA DeleteStep ==
  ASSUME StoreInv, NEW id \in Ids, DeleteProfile(id)
  PROVE  StoreInv'
<1> DEFINE rest == Others(profiles, id)
<1>1. /\ ListOf(rest) /\ id \notin IdsOf(rest)
      /\ \A other \in IdsOf(profiles) \ {id} : other \in IdsOf(rest)
  BY OthersRemain DEF DeleteProfile, StoreInv, StoreTypes
<1>2. Becomes(rest, IF id = chosen THEN rest[1].id ELSE chosen)
  BY DEF DeleteProfile
<1>3. chosen \in IdsOf(profiles)
  BY DEF StoreInv, StoreTypes
<1> HIDE DEF rest
<1>4. CASE id = chosen
  BY <1>1, <1>2, <1>4, BecomesStep, FirstIsThere DEF Restored, Chosen
<1>5. CASE id # chosen
  BY <1>1, <1>2, <1>3, <1>5, BecomesStep, ChosenIsThere DEF Restored
<1> QED
  BY <1>4, <1>5

\* Whatever the point of the death, the launch restores a whole state.
LEMMA RelaunchStep ==
  ASSUME StoreInv, Relaunch
  PROVE  StoreInv'
<1>1. saving' = "list" /\ listKey' = listKey /\ activeKey' = activeKey /\ idKey' = idKey
  BY DEF Relaunch, stored
<1>2. CASE listKey = <<>>
  <2>1. /\ ListOf(profiles') /\ Len(profiles') = 1 /\ chosen' = profiles'[1].id
        /\ before' = <<profiles', chosen'>> /\ after' = before'
    <3>1. CASE activeKey = <<>>
      BY <1>2, <3>1, OneProfile DEF Relaunch
    <3>2. CASE activeKey # <<>>
      BY <1>2, <3>2 DEF Relaunch, StoreInv, FirstLaunch
    <3> QED
      BY <3>1, <3>2
  <2>2. chosen' \in IdsOf(profiles') /\ Chosen(profiles', idKey') = chosen'
    BY <2>1, FirstIsThere, OnlyOne
  <2>3. StoreTypes'
    BY <1>1, <1>2, <2>1, <2>2 DEF StoreTypes, ListOf, IdsOf
  <2>4. FirstLaunch'
    BY <1>1, <1>2, <2>1 DEF StoreInv, FirstLaunch, ListOf
  <2>5. KeysInStep'
    BY <1>1, <1>2, <2>1, <2>2 DEF KeysInStep, Whole, Restored, Chosen, IdsOf
  <2> QED
    BY <2>1, <2>3, <2>4, <2>5 DEF StoreInv, RestoredWhole
<1>3. CASE listKey # <<>>
  <2>1. /\ profiles' = listKey /\ chosen' = Chosen(listKey, idKey)
        /\ before' = before /\ after' = after /\ ListOf(listKey)
    BY <1>3 DEF Relaunch, Chosen, StoreInv, StoreTypes
  <2>2. chosen' \in IdsOf(listKey) /\ Whole(Restored(listKey, idKey))
    BY <1>3, <2>1, ChosenIsThere DEF StoreInv, KeysInStep
  <2>3. StoreTypes' /\ FirstLaunch'
    BY <1>1, <1>3, <2>1, <2>2 DEF StoreTypes, FirstLaunch, ListOf, IdsOf
  <2>4. KeysInStep' /\ RestoredWhole'
    BY <1>1, <1>3, <2>1, <2>2
    DEF KeysInStep, RestoredWhole, Whole, Restored, Chosen, IdsOf
  <2> QED
    BY <2>3, <2>4 DEF StoreInv
<1> QED
  BY <1>2, <1>3

LEMMA StoreStep == StoreInv /\ [ProfileNext]_psVars => StoreInv'
<1> SUFFICES ASSUME StoreInv, [ProfileNext]_psVars PROVE StoreInv'
  OBVIOUS
<1> USE DEF StoreInv, StoreTypes, FirstLaunch, KeysInStep, Whole, Restored, RestoredWhole,
            Chosen, IdsOf, ListOf
<1>1. CASE SaveList
  BY <1>1 DEF SaveList
<1>2. CASE SaveActive
  BY <1>2 DEF SaveActive
<1>3. CASE SaveId
  BY <1>3 DEF SaveId
<1>4. CASE UNCHANGED psVars
  BY <1>4 DEF psVars, stored
<1> QED
  BY <1>1, <1>2, <1>3, <1>4, EditStep, AddStep, SelectStep, DeleteStep, RelaunchStep
  DEF ProfileNext

(* However often the app dies between the three writes of a save, the list and
   the selection a launch restores are those before the interrupted operation or
   those after it (AppModel.swift:42-44, 120-124).                             *)
THEOREM WholeAfterDeath == ProfileSpec => []RestoredWhole
<1>1. ProfileSpec => []StoreInv
  BY StoreInit, StoreStep, PTL DEF ProfileSpec
<1>2. StoreInv => RestoredWhole
  BY DEF StoreInv
<1> QED
  BY <1>1, <1>2, PTL

(***************************************************************************)
(* The log file.                                                           *)
(***************************************************************************)
(* LinesFound is not inductive: a line that must be found at the path, or in
   the backup, must also be written to that file, so that "goes" has to mean what
   its comment says of the handle.                                             *)
GoesWhereSaid == /\ goes = "path" => handle = path /\ path # None
                 /\ goes = "backup" => handle = backup /\ backup # None

LogInv == LogTypeOK /\ GoesWhereSaid /\ LinesFound

-----------------------------------------------------------------------------
\* Four names and handles leave a file unused, so that a new file can be made.
LEMMA FreshIsUnused == Fresh \in Files /\ Unused(Fresh)
<1> USE LogAssumption DEF LogAssumption
<1>1. \E f \in Files : Unused(f)
  <2> DEFINE Held == {path, backup, handle, opening}
  <2>1. SUFFICES ASSUME \A f \in Files : ~Unused(f) PROVE FALSE
    OBVIOUS
  <2>2. Files \subseteq Held
    BY <2>1 DEF Unused
  <2>3. IsFiniteSet(Held) /\ Cardinality(Held) <= 4
    <3>1. IsFiniteSet({path}) /\ Cardinality({path}) = 1
      BY FS_Singleton
    <3>2. \A S, x : IsFiniteSet(S) =>
             IsFiniteSet(S \cup {x}) /\ Cardinality(S \cup {x}) <= Cardinality(S) + 1
             /\ Cardinality(S) \in Nat
      <4> SUFFICES ASSUME NEW S, NEW x, IsFiniteSet(S)
                   PROVE  /\ IsFiniteSet(S \cup {x}) /\ Cardinality(S) \in Nat
                          /\ Cardinality(S \cup {x}) <= Cardinality(S) + 1
        OBVIOUS
      <4>1. IsFiniteSet(S \cup {x})
            /\ (Cardinality(S \cup {x}) = Cardinality(S)
                \/ Cardinality(S \cup {x}) = Cardinality(S) + 1)
        BY FS_AddElement
      <4>2. Cardinality(S) \in Nat
        BY FS_CardinalityType
      <4> QED
        BY <4>1, <4>2
    <3> DEFINE Two == {path} \cup {backup}
               Three == Two \cup {handle}
    <3>3. IsFiniteSet(Two) /\ Cardinality(Two) <= 2 /\ Cardinality(Two) \in Nat
      <4>1. IsFiniteSet(Two) /\ Cardinality(Two) <= 1 + 1
        BY <3>1, <3>2
      <4> HIDE DEF Two
      <4> QED
        BY <4>1, FS_CardinalityType
    <3>4. IsFiniteSet(Three) /\ Cardinality(Three) <= 3 /\ Cardinality(Three) \in Nat
      <4> HIDE DEF Two
      <4>1. IsFiniteSet(Three) /\ Cardinality(Three) <= Cardinality(Two) + 1
        BY <3>2, <3>3
      <4>2. Cardinality(Three) \in Nat
        BY <4>1, FS_CardinalityType
      <4> HIDE DEF Three
      <4> QED
        BY <4>1, <4>2, <3>3
    <3>5. Held = Three \cup {opening}
      OBVIOUS
    <3> HIDE DEF Two, Three, Held
    <3>6. /\ IsFiniteSet(Three \cup {opening})
          /\ Cardinality(Three \cup {opening}) <= Cardinality(Three) + 1
      BY <3>2, <3>4
    <3>7. Cardinality(Three \cup {opening}) \in Nat
      BY <3>6, FS_CardinalityType
    <3> QED
      BY <3>4, <3>5, <3>6, <3>7
  <2> HIDE DEF Held
  <2>4. Cardinality(Files) <= Cardinality(Held)
    BY <2>2, <2>3, FS_Subset
  <2>5. Cardinality(Files) \in Nat /\ Cardinality(Held) \in Nat
    BY <2>3, FS_CardinalityType
  <2> QED
    BY <2>3, <2>4, <2>5
<1> QED
  BY <1>1 DEF Fresh

-----------------------------------------------------------------------------
LEMMA LogInitInv == LogInit => LogInv
  BY LogAssumption DEF LogAssumption, LogInit, LogInv, LogTypeOK, GoesWhereSaid,
     LinesFound, LinesOf, Steps

LEMMA LogStep == LogInv /\ [LogNext]_lmVars => LogInv'
<1> SUFFICES ASSUME LogInv, [LogNext]_lmVars PROVE LogInv'
  OBVIOUS
<1> USE LogAssumption, FreshIsUnused DEF LogAssumption, LogInv, Steps, Unused
<1>1. CASE SetHomeDir
  BY <1>1 DEF SetHomeDir, LogTypeOK, GoesWhereSaid, LinesFound, LinesOf
<1>2. CASE Measure
  BY <1>2 DEF Measure, LogTypeOK, GoesWhereSaid, LinesFound, LinesOf
<1>3. CASE Rotate
  <2>1. LogTypeOK'
    BY <1>3 DEF Rotate, LogTypeOK, Only
  <2>2. GoesWhereSaid'
    BY <1>3 DEF Rotate, LogTypeOK, GoesWhereSaid
  <2>3. LinesFound'
    BY <1>3 DEF Rotate, LogTypeOK, LinesFound, LinesOf, Only
  <2> QED
    BY <2>1, <2>2, <2>3
<1>11. CASE RotateFails
  BY <1>11 DEF RotateFails, LogTypeOK, GoesWhereSaid, LinesFound, LinesOf
<1>4. CASE OpenLog
  <2>1. LogTypeOK'
    BY <1>4 DEF OpenLog, LogTypeOK
  <2>2. GoesWhereSaid'
    BY <1>4 DEF OpenLog, LogTypeOK, GoesWhereSaid
  <2>3. LinesFound'
    BY <1>4 DEF OpenLog, LogTypeOK, LinesFound, LinesOf
  <2> QED
    BY <2>1, <2>2, <2>3
<1>5. CASE OpenFails
  BY <1>5 DEF OpenFails, LogTypeOK, GoesWhereSaid, LinesFound, LinesOf
<1>6. CASE InstallHandle
  <2>1. LogTypeOK'
    BY <1>6 DEF InstallHandle, InstalledOn, LogTypeOK, Only
  <2>2. GoesWhereSaid'
    BY <1>6 DEF InstallHandle, InstalledOn, LogTypeOK, GoesWhereSaid
  <2>3. LinesFound'
    BY <1>6 DEF InstallHandle, InstalledOn, LogTypeOK, LinesFound, LinesOf, Only
  <2> QED
    BY <2>1, <2>2, <2>3
<1>7. CASE ClearLog
  <2>1. LogTypeOK'
    BY <1>7 DEF ClearLog, LogTypeOK, Only
  <2>2. GoesWhereSaid'
    BY <1>7 DEF ClearLog, GoesWhereSaid
  <2>3. LinesFound'
    BY <1>7 DEF ClearLog, LogTypeOK, LinesFound, LinesOf, Only
  <2> QED
    BY <2>1, <2>2, <2>3
<1>8. CASE LogProcessEnds
  <2>1. LogTypeOK'
    BY <1>8 DEF LogProcessEnds, LogTypeOK, Only
  <2>2. GoesWhereSaid'
    BY <1>8 DEF LogProcessEnds, GoesWhereSaid
  <2>3. LinesFound'
    BY <1>8 DEF LogProcessEnds, LogTypeOK, LinesFound, LinesOf, Only
  <2> QED
    BY <2>1, <2>2, <2>3
<1>9. ASSUME NEW l \in Lines, LogLine(l) PROVE LogInv'
  <2>1. LogTypeOK'
    BY <1>9 DEF LogLine, LogTypeOK
  <2>2. GoesWhereSaid'
    BY <1>9 DEF LogLine, GoesWhereSaid
  <2>3. \A f \in Files : content[f] \subseteq content'[f]
    BY <1>9 DEF LogLine, LogTypeOK
  <2>4. goes = "path" => path \in Files /\ l \in content'[path]
    BY <1>9 DEF LogLine, LogTypeOK, GoesWhereSaid
  <2>5. goes = "backup" => backup \in Files /\ l \in content'[backup]
    BY <1>9 DEF LogLine, LogTypeOK, GoesWhereSaid
  <2>6. due' \subseteq LinesOf(path)'
    BY <1>9, <2>3, <2>4 DEF LogLine, LogTypeOK, LinesFound, LinesOf
  <2>7. kept' \subseteq LinesOf(backup)'
    BY <1>9, <2>3, <2>5 DEF LogLine, LogTypeOK, LinesFound, LinesOf
  <2> QED
    BY <2>1, <2>2, <2>6, <2>7 DEF LinesFound
<1>10. CASE UNCHANGED lmVars
  BY <1>10 DEF lmVars, LogTypeOK, GoesWhereSaid, LinesFound, LinesOf
<1> QED
  BY <1>1, <1>2, <1>3, <1>4, <1>5, <1>6, <1>7, <1>8, <1>9, <1>10, <1>11 DEF LogNext

(* Whatever the number of files and lines and wherever the limit: lines logged
   through an installed handle, with no clear since, are in the file the app
   shows; those in the file when it was rotated last, and those other threads
   logged from its rename to the next handle, are in the backup
   (logging.rs:105-127).                                                       *)
THEOREM LogKept == LogSpec => []LinesFound
<1>1. LogSpec => []LogInv
  BY LogInitInv, LogStep, PTL DEF LogSpec
<1>2. LogInv => LinesFound
  BY DEF LogInv
<1> QED
  BY <1>1, <1>2, PTL
=============================================================================
