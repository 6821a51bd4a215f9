-------------------------- MODULE ServicesProofs --------------------------
(***************************************************************************)
(* What holds of the services' lists, of stopping and of Cron's listener,  *)
(* for every table size, id limit, MAX_SERVICE_TASKS, listener limit and   *)
(* number of operations.                                                   *)
(*                                                                         *)
(* First, what each operation of ServiceProvider.h on its tasks preserves: *)
(*                                                                         *)
(*   Table(t)       ids are unique, a free slot is bare, and a task that   *)
(*                  will still run is on its service's list, or was        *)
(*                  refused when the list was full                         *)
(*   Agree(t)       the lists, the finalizers and the table agree          *)
(*   QuietIn(t, p)  service p has nothing left to run but refused tasks    *)
(*                                                                         *)
(* Table and QuietIn survive even an update that takes over another's      *)
(* task; Agree is what such an update breaks.                              *)
(*                                                                         *)
(* TrackedAgree and StoppedStaysQuiet are not inductive. A stop silences a *)
(* service because every task it made and that will still run is on its    *)
(* list (Table's LiveTracked), and a later step of another service keeps   *)
(* it silent because no two slots have the same id; the one-shot MQTT task *)
(* starts an interval only while the service is active, and a quiet        *)
(* service is not.                                                         *)
(*                                                                         *)
(* Then the event bus (BusInv, for CronListens).                           *)
(***************************************************************************)
EXTENDS Services, TaskIdsProofs, SequenceTheorems

TaskRecords ==
    [ids     : [Slots -> TaskIdSet \cup {Free}],
     next    : TaskIdSet,
     job     : [Slots -> Jobs \cup {None}],
     dead    : SUBSET Slots,
     hook    : [Slots -> Services \cup {None}],
     tracked : [Services -> Seq(TaskIdSet)],
     routine : [Services -> TaskIdSet \cup {Nothing}],
     missed  : SUBSET TaskIdSet]

IdsUnique(t) ==
    \A s, r \in Slots : t.ids[s] # Free /\ t.ids[s] = t.ids[r] => s = r

FreeIsBare(t) ==
    \A s \in Slots : t.ids[s] = Free => t.job[s] = None /\ t.hook[s] = None

\* trackServiceTask was called for every task that will still run
LiveTracked(t) ==
    \A p \in Services, s \in Slots :
        t.job[s] \in JobsOf(p) /\ s \notin t.dead
            => Tracks(t, p, t.ids[s]) \/ t.ids[s] \in t.missed

Table(t) == t \in TaskRecords /\ IdsUnique(t) /\ FreeIsBare(t) /\ LiveTracked(t)

\* the conjuncts of TrackedAgree, and that a finalizer is the owner's own
ListedOnce(t) ==
    \A p \in Services : \A i, k \in 1 .. Len(t.tracked[p]) :
        t.tracked[p][i] = t.tracked[p][k] => i = k
ListedHeld(t) ==
    \A p \in Services : \A i \in 1 .. Len(t.tracked[p]) :
        \E s \in Slots : t.ids[s] = t.tracked[p][i] /\ t.hook[s] = p
HookListed(t) ==
    \A p \in Services, s \in Slots : t.hook[s] = p => Tracks(t, p, t.ids[s])
RoutineFirst(t) ==
    \A p \in Services :
        t.routine[p] = IF t.tracked[p] = <<>> THEN Nothing ELSE t.tracked[p][1]
HookOwns(t) ==
    \A p \in Services, s \in Slots : t.hook[s] = p => t.job[s] \in JobsOf(p)

Agree(t) == /\ ListedOnce(t) /\ ListedHeld(t) /\ HookListed(t)
            /\ RoutineFirst(t) /\ HookOwns(t)

QuietIn(t, p) ==
    \A s \in Slots : t.job[s] \in JobsOf(p) /\ s \notin t.dead
                        => t.ids[s] \in t.missed

-----------------------------------------------------------------------------
\* No two services share a callback, and a bare slot has none.
LEMMA JobsOfFacts ==
    /\ \A p \in Services : JobsOf(p) \subseteq Jobs /\ None \notin JobsOf(p)
    /\ \A p, q \in Services : p # q => JobsOf(p) \cap JobsOf(q) = {}
    /\ None \notin Services
  BY ServicesAssumption DEF JobsOf, Jobs, Intervals, None

\* The fields of a task table, each with its range.
LEMMA FieldTypes ==
    ASSUME NEW t \in TaskRecords
    PROVE  /\ t.ids \in [Slots -> TaskIdSet \cup {Free}]
           /\ t.next \in TaskIdSet
           /\ t.job \in [Slots -> Jobs \cup {None}]
           /\ t.dead \in SUBSET Slots
           /\ t.hook \in [Slots -> Services \cup {None}]
           /\ t.tracked \in [Services -> Seq(TaskIdSet)]
           /\ t.routine \in [Services -> TaskIdSet \cup {Nothing}]
           /\ t.missed \in SUBSET TaskIdSet
  BY DEF TaskRecords

\* is_registered_task finds a slot that holds the id.
LEMMA SlotOfId ==
    ASSUME NEW t, NEW id, Registered(t, id)
    PROVE  SlotOf(t, id) \in Slots /\ t.ids[SlotOf(t, id)] = id
  BY DEF Registered, SlotOf

\* With unique ids it finds the one slot that does.
LEMMA SlotOfUnique ==
    ASSUME NEW t, IdsUnique(t), NEW s \in Slots, t.ids[s] # Free
    PROVE  Registered(t, t.ids[s]) /\ SlotOf(t, t.ids[s]) = s
<1>1. Registered(t, t.ids[s])
  BY DEF Registered, Nothing, Free
<1>2. QED
  BY <1>1, SlotOfId DEF IdsUnique

\* more tasks waiting for a reap
Deader(t, S) == [t EXCEPT !.dead = @ \cup S]

\* Giving tasks zero attempts (clearInterval, a signal, a one-shot that has
\* run) disturbs none of the three.
LEMMA DeaderKeeps ==
    ASSUME NEW t, Table(t), NEW S \in SUBSET Slots
    PROVE  /\ Table(Deader(t, S))
           /\ Agree(t) => Agree(Deader(t, S))
           /\ \A p \in Services : QuietIn(t, p) => QuietIn(Deader(t, S), p)
<1> DEFINE u == Deader(t, S)
<1>1. /\ u \in TaskRecords
      /\ u.ids = t.ids /\ u.job = t.job /\ u.hook = t.hook
      /\ u.tracked = t.tracked /\ u.routine = t.routine /\ u.missed = t.missed
      /\ u.dead = t.dead \cup S
  BY Zenon DEF Table, TaskRecords, Deader
<1> HIDE DEF u
<1>2. Table(u)
  BY <1>1 DEF Table, IdsUnique, FreeIsBare, LiveTracked, Tracks
<1>3. ASSUME Agree(t) PROVE Agree(u)
  BY <1>1, <1>3 DEF Agree, ListedOnce, ListedHeld, HookListed, RoutineFirst, HookOwns, Tracks
<1>4. \A p \in Services : QuietIn(t, p) => QuietIn(u, p)
  BY <1>1 DEF QuietIn
<1>5. QED
  BY <1>2, <1>3, <1>4 DEF u

\* clearInterval and clearTimeout, of an id registered or not.
LEMMA ClearTaskKeeps ==
    ASSUME NEW t, Table(t), NEW id
    PROVE  /\ Table(ClearTask(t, id))
           /\ Agree(t) => Agree(ClearTask(t, id))
           /\ \A p \in Services : QuietIn(t, p) => QuietIn(ClearTask(t, id), p)
<1>1. CASE Registered(t, id)
  <2>1. {SlotOf(t, id)} \in SUBSET Slots
    BY <1>1, SlotOfId
  <2>2. ClearTask(t, id) = Deader(t, {SlotOf(t, id)})
    BY <1>1 DEF ClearTask, Deader
  <2>3. QED
    BY <2>1, <2>2, DeaderKeeps
<1>2. CASE ~Registered(t, id)
  BY <1>2 DEF ClearTask
<1>3. QED
  BY <1>1, <1>2

\* stopService: the finalizers go with the list, so the lists still agree, and
\* the service has nothing left to run but what its list had refused.
LEMMA StopTasksKeeps ==
    ASSUME NEW t, Table(t), NEW p \in Services
    PROVE  /\ Table(StopTasks(t, p))
           /\ Agree(t) => Agree(StopTasks(t, p))
           /\ \A q \in Services : QuietIn(t, q) => QuietIn(StopTasks(t, p), q)
           /\ QuietIn(StopTasks(t, p), p)
<1> DEFINE u == StopTasks(t, p)
           S == TrackedSlots(t, p)
<1>0. t \in TaskRecords
  BY DEF Table
<1>1. /\ u.ids = t.ids /\ u.job = t.job /\ u.missed = t.missed
      /\ u.next = t.next
      /\ u.dead = t.dead \cup S
      /\ u.hook = [s \in Slots |-> IF s \in S THEN None ELSE t.hook[s]]
      /\ u.tracked = [t.tracked EXCEPT ![p] = <<>>]
      /\ u.routine = [t.routine EXCEPT ![p] = Nothing]
  BY <1>0 DEF StopTasks, TaskRecords
<1>2. u \in TaskRecords
  <2>1. S \subseteq Slots
    BY DEF TrackedSlots
  <2>2. [s \in Slots |-> IF s \in S THEN None ELSE t.hook[s]]
          \in [Slots -> Services \cup {None}]
    BY <1>0, FieldTypes
  <2>3. [t.tracked EXCEPT ![p] = <<>>] \in [Services -> Seq(TaskIdSet)]
    BY <1>0, FieldTypes
  <2>4. [t.routine EXCEPT ![p] = Nothing] \in [Services -> TaskIdSet \cup {Nothing}]
    BY <1>0, FieldTypes
  <2> HIDE DEF S
  <2>5. QED
    BY Zenon, <1>0, <2>1, <2>2, <2>3, <2>4 DEF StopTasks, TaskRecords, S
<1>3. S = {s \in Slots : t.ids[s] # Free /\ Tracks(t, p, t.ids[s])}
  BY DEF TrackedSlots
<1> HIDE DEF u, S
<1>4. \A q \in Services : t.tracked[q] \in Seq(TaskIdSet)
  BY <1>0, FieldTypes
<1>5. \A q \in Services : \A id : Tracks(u, q, id) <=> q # p /\ Tracks(t, q, id)
  BY <1>0, <1>1, FieldTypes DEF Tracks
<1>6. \A q \in Services, s \in Slots :
        t.job[s] \in JobsOf(q) => t.ids[s] # Free
  BY JobsOfFacts DEF Table, FreeIsBare
<1>7. Table(u)
  <2>1. IdsUnique(u) /\ FreeIsBare(u)
    BY <1>1 DEF Table, IdsUnique, FreeIsBare
  <2>2. LiveTracked(u)
    BY <1>1, <1>3, <1>5, <1>6 DEF Table, LiveTracked
  <2>3. QED
    BY <1>2, <2>1, <2>2 DEF Table
<1>8. ASSUME Agree(t) PROVE Agree(u)
  <2>1. ListedOnce(u)
    BY <1>0, <1>1, <1>8, FieldTypes DEF Agree, ListedOnce
  <2>2. ListedHeld(u)
    <3>1. SUFFICES ASSUME NEW q \in Services, NEW i \in 1 .. Len(u.tracked[q])
                   PROVE  \E s \in Slots : u.ids[s] = u.tracked[q][i] /\ u.hook[s] = q
      BY DEF ListedHeld
    <3>2. q # p /\ u.tracked[q] = t.tracked[q]
      BY <1>0, <1>1, <3>1, FieldTypes
    <3>3. PICK s \in Slots : t.ids[s] = t.tracked[q][i] /\ t.hook[s] = q
      BY <1>8, <3>1, <3>2 DEF Agree, ListedHeld
    <3>4. t.ids[s] # Free
      BY <3>3, JobsOfFacts DEF Table, FreeIsBare
    <3>5. s \notin S
      <4>1. SUFFICES ASSUME Tracks(t, p, t.ids[s]) PROVE FALSE
        BY <1>3
      <4>2. PICK k \in 1 .. Len(t.tracked[p]) : t.tracked[p][k] = t.ids[s]
        BY <4>1 DEF Tracks
      <4>3. PICK r \in Slots : t.ids[r] = t.ids[s] /\ t.hook[r] = p
        BY <1>8, <4>2 DEF Agree, ListedHeld
      <4>4. r = s
        BY <3>4, <4>3 DEF Table, IdsUnique
      <4>5. QED
        BY <4>3, <4>4, <3>3, <3>2
    <3>6. QED
      BY <1>1, <3>2, <3>3, <3>5
  <2>3. HookListed(u)
    <3>1. SUFFICES ASSUME NEW q \in Services, NEW s \in Slots, u.hook[s] = q
                   PROVE  Tracks(u, q, u.ids[s])
      BY DEF HookListed
    <3>2. s \notin S /\ t.hook[s] = q
      BY <1>1, <3>1, JobsOfFacts
    <3>3. Tracks(t, q, t.ids[s])
      BY <1>8, <3>2 DEF Agree, HookListed
    <3>4. t.ids[s] # Free
      BY <3>2, JobsOfFacts DEF Table, FreeIsBare
    <3>5. QED
      BY <1>1, <1>3, <1>5, <3>2, <3>3, <3>4
  <2>4. RoutineFirst(u)
    BY <1>0, <1>1, <1>8, FieldTypes DEF Agree, RoutineFirst
  <2>5. HookOwns(u)
    BY <1>1, <1>8, JobsOfFacts DEF Agree, HookOwns
  <2>6. QED
    BY <2>1, <2>2, <2>3, <2>4, <2>5 DEF Agree
<1>9. \A q \in Services : QuietIn(t, q) => QuietIn(u, q)
  BY <1>1 DEF QuietIn
<1>10. QuietIn(u, p)
  BY <1>1, <1>3, <1>6 DEF QuietIn, Table, LiveTracked
<1>11. QED
  BY <1>7, <1>8, <1>9, <1>10 DEF u

\* a table in which slot x has just been given a task, not yet tracked
Ready(t, x) ==
    /\ t \in TaskRecords /\ IdsUnique(t) /\ FreeIsBare(t)
    /\ \A p \in Services, s \in Slots \ {x} :
         t.job[s] \in JobsOf(p) /\ s \notin t.dead
            => Tracks(t, p, t.ids[s]) \/ t.ids[s] \in t.missed

\* trackServiceTask completes a table whose slot x has a task of p: on the list
\* with a finalizer, already there, or refused by a full list.  If the lists
\* agreed, an unlisted task has no finalizer yet, so the one set is p's.
LEMMA TrackKeeps ==
    ASSUME NEW t, NEW x \in Slots, Ready(t, x), NEW p \in Services,
           t.ids[x] # Free, t.job[x] \in JobsOf(p)
    PROVE  LET u == TrackServiceTask(t, p, t.ids[x])
           IN  /\ Table(u)
               /\ Agree(t) => Agree(u)
               /\ \A q \in Services \ {p} : QuietIn(t, q) => QuietIn(u, q)
<1> DEFINE id == t.ids[x]
           u == TrackServiceTask(t, p, id)
<1>0. /\ t \in TaskRecords /\ IdsUnique(t) /\ FreeIsBare(t)
      /\ id \in TaskIdSet /\ id \in Int /\ id > 0 /\ SlotOf(t, id) = x
  BY FieldTypes, SlotOfUnique, IdsAssumption DEF Ready, TaskIdSet, Free
<1>a. \A q \in Services \ {p} : t.job[x] \notin JobsOf(q)
  BY JobsOfFacts
<1>1. CASE Tracks(t, p, id)
  <2>1. u = t
    BY <1>1 DEF TrackServiceTask
  <2>2. LiveTracked(t)
    BY <1>0, <1>1, <1>a DEF Ready, LiveTracked
  <2>3. QED
    BY <1>0, <2>1, <2>2 DEF Table
<1>2. CASE ~Tracks(t, p, id) /\ Len(t.tracked[p]) >= MaxServiceTasks
  <2>1. u = [t EXCEPT !.missed = @ \cup {id}]
    BY <1>2 DEF TrackServiceTask
  <2>2. /\ u \in TaskRecords
        /\ u.ids = t.ids /\ u.job = t.job /\ u.hook = t.hook
        /\ u.tracked = t.tracked /\ u.routine = t.routine
        /\ u.dead = t.dead /\ u.missed = t.missed \cup {id}
    <3> HIDE DEF u
    <3>1. QED
      BY Zenon, <1>0, <2>1 DEF TaskRecords
  <2> HIDE DEF u
  <2>3. Table(u)
    BY <1>0, <1>a, <2>2 DEF Ready, Table, IdsUnique, FreeIsBare, LiveTracked, Tracks
  <2>4. ASSUME Agree(t) PROVE Agree(u)
    BY <2>2, <2>4 DEF Agree, ListedOnce, ListedHeld, HookListed, RoutineFirst,
                      HookOwns, Tracks
  <2>5. \A q \in Services : QuietIn(t, q) => QuietIn(u, q)
    BY <2>2 DEF QuietIn
  <2>6. QED
    BY <2>3, <2>4, <2>5 DEF u
<1>3. CASE ~Tracks(t, p, id) /\ ~(Len(t.tracked[p]) >= MaxServiceTasks)
  <2>1. u = [t EXCEPT !.tracked[p] = Append(@, id),
                      !.hook[x] = IF @ = None THEN p ELSE @,
                      !.routine[p] = IF @ < 0 THEN id ELSE @,
                      !.missed = @ \ {id}]
    BY <1>0, <1>3 DEF TrackServiceTask
  <2>2. /\ u.ids = t.ids /\ u.job = t.job /\ u.dead = t.dead
        /\ u.tracked = [t.tracked EXCEPT ![p] = Append(@, id)]
        /\ u.hook = [t.hook EXCEPT ![x] = IF @ = None THEN p ELSE @]
        /\ u.routine = [t.routine EXCEPT ![p] = IF @ < 0 THEN id ELSE @]
        /\ u.missed = t.missed \ {id}
    <3> HIDE DEF u
    <3>1. QED
      BY <1>0, <2>1 DEF TaskRecords
  <2>3. u \in TaskRecords
    <3>1. [t.tracked EXCEPT ![p] = Append(@, id)] \in [Services -> Seq(TaskIdSet)]
      BY <1>0, FieldTypes
    <3>2. [t.hook EXCEPT ![x] = IF @ = None THEN p ELSE @]
            \in [Slots -> Services \cup {None}]
      BY <1>0, FieldTypes
    <3>3. [t.routine EXCEPT ![p] = IF @ < 0 THEN id ELSE @]
            \in [Services -> TaskIdSet \cup {Nothing}]
      BY <1>0, FieldTypes
    <3> HIDE DEF u, id
    <3>4. QED
      BY Zenon, <1>0, <2>1, <3>1, <3>2, <3>3 DEF TaskRecords
  <2>4. /\ t.tracked[p] \in Seq(TaskIdSet) /\ u.tracked[p] = Append(t.tracked[p], id)
        /\ \A q \in Services \ {p} : u.tracked[q] = t.tracked[q]
    <3> HIDE DEF u, id
    <3>1. t.tracked \in [Services -> Seq(TaskIdSet)]
      BY <1>0, FieldTypes
    <3>2. u.tracked = [t.tracked EXCEPT ![p] = Append(@, id)]
      BY <2>2
    <3>3. QED
      BY <3>1, <3>2
  <2> HIDE DEF u, id
  <2>5. /\ Len(u.tracked[p]) = Len(t.tracked[p]) + 1
        /\ u.tracked[p][Len(t.tracked[p]) + 1] = id
        /\ \A i \in 1 .. Len(t.tracked[p]) : u.tracked[p][i] = t.tracked[p][i]
        /\ Len(t.tracked[p]) \in Nat
    BY <2>4
  <2>6. /\ Tracks(u, p, id)
        /\ \A q \in Services : \A k : Tracks(t, q, k) => Tracks(u, q, k)
    <3>1. Tracks(u, p, id)
      BY <2>5 DEF Tracks
    <3>2. \A k : Tracks(t, p, k) => Tracks(u, p, k)
      <4>1. \A i \in 1 .. Len(t.tracked[p]) : i \in 1 .. Len(u.tracked[p])
        BY <2>5
      <4>2. QED
        BY <2>5, <4>1 DEF Tracks
    <3>3. \A q \in Services \ {p} : \A k : Tracks(t, q, k) => Tracks(u, q, k)
      BY <2>4 DEF Tracks
    <3>4. QED
      BY <3>1, <3>2, <3>3
  <2>7. Table(u)
    <3>1. IdsUnique(u)
      BY <1>0, <2>2 DEF IdsUnique
    <3>2. FreeIsBare(u)
      BY <1>0, <2>2, FieldTypes DEF FreeIsBare, id
    <3>3. LiveTracked(u)
      <4>1. SUFFICES ASSUME NEW q \in Services, NEW s \in Slots,
                            t.job[s] \in JobsOf(q), s \notin t.dead
                     PROVE  Tracks(u, q, t.ids[s]) \/ t.ids[s] \in u.missed
        BY <2>2 DEF LiveTracked
      <4>2. CASE s = x
        BY <1>a, <2>6, <4>1, <4>2 DEF id
      <4>3. CASE s # x
        <5>1. t.ids[s] # id
          BY <1>0, <4>3 DEF IdsUnique, id
        <5>2. QED
          BY <2>2, <2>6, <4>1, <4>3, <5>1 DEF Ready
      <4>4. QED
        BY <4>2, <4>3
    <3>4. QED
      BY <2>3, <3>1, <3>2, <3>3 DEF Table
  <2>8. ASSUME Agree(t) PROVE Agree(u)
    <3>0. t.hook[x] = None
      <4>1. SUFFICES ASSUME t.hook[x] # None PROVE FALSE
        OBVIOUS
      <4>2. t.hook[x] \in Services
        BY <1>0, <4>1, FieldTypes
      <4>3. t.job[x] \in JobsOf(t.hook[x]) /\ Tracks(t, t.hook[x], id)
        BY <2>8, <4>2 DEF Agree, HookOwns, HookListed, id
      <4>4. QED
        BY <1>3, <1>a, <4>2, <4>3 DEF id
    <3>h. \A s \in Slots : u.hook[s] = IF s = x THEN p ELSE t.hook[s]
      BY <1>0, <2>2, <3>0, FieldTypes
    <3>1. ListedOnce(u)
      <4>1. \A i \in 1 .. Len(t.tracked[p]) : t.tracked[p][i] # id
        BY <1>3 DEF Tracks, id
      <4>2. \A i, k \in 1 .. Len(u.tracked[p]) :
              u.tracked[p][i] = u.tracked[p][k] => i = k
        <5>1. \A i \in 1 .. Len(u.tracked[p]) :
                i \in 1 .. Len(t.tracked[p]) \/ i = Len(t.tracked[p]) + 1
          BY <2>5
        <5>2. \A i, k \in 1 .. Len(t.tracked[p]) :
                t.tracked[p][i] = t.tracked[p][k] => i = k
          BY <2>8 DEF Agree, ListedOnce
        <5>3. QED
          BY Zenon, <2>5, <4>1, <5>1, <5>2
      <4>3. QED
        BY Zenon, <2>4, <2>8, <4>2 DEF Agree, ListedOnce
    <3>2. ListedHeld(u)
      <4>1. SUFFICES ASSUME NEW q \in Services, NEW i \in 1 .. Len(u.tracked[q])
                     PROVE  \E s \in Slots : u.ids[s] = u.tracked[q][i] /\ u.hook[s] = q
        BY DEF ListedHeld
      <4>2. CASE q = p /\ i = Len(t.tracked[p]) + 1
        BY <2>2, <2>5, <3>h, <4>2 DEF id
      <4>3. CASE ~(q = p /\ i = Len(t.tracked[p]) + 1)
        <5>1. i \in 1 .. Len(t.tracked[q]) /\ u.tracked[q][i] = t.tracked[q][i]
          <6>1. CASE q = p
            BY <2>5, <4>1, <4>3, <6>1
          <6>2. CASE q # p
            BY <2>4, <4>1, <6>2
          <6>3. QED
            BY <6>1, <6>2
        <5>2. PICK s \in Slots : t.ids[s] = t.tracked[q][i] /\ t.hook[s] = q
          BY <2>8, <5>1 DEF Agree, ListedHeld
        <5>3. s # x
          BY <3>0, <5>2, JobsOfFacts
        <5>4. QED
          BY <2>2, <3>h, <5>1, <5>2, <5>3
      <4>4. QED
        BY <4>2, <4>3
    <3>3. HookListed(u)
      BY <2>2, <2>6, <2>8, <3>h DEF Agree, HookListed, id
    <3>4. RoutineFirst(u)
      <4>1. \A q \in Services : u.routine[q] =
                IF q = p /\ t.routine[p] < 0 THEN id ELSE t.routine[q]
        BY <1>0, <2>2, FieldTypes
      <4>2. CASE t.tracked[p] = <<>>
        <5>1. t.routine[p] = -1 /\ u.tracked[p][1] = id /\ u.tracked[p] # <<>>
          BY <2>4, <2>5, <2>8, <4>2 DEF Agree, RoutineFirst, Nothing
        <5>2. QED
          BY <2>4, <2>8, <4>1, <5>1 DEF Agree, RoutineFirst
      <4>3. CASE t.tracked[p] # <<>>
        <5>1. 1 \in 1 .. Len(t.tracked[p])
          BY <2>4, <4>3
        <5>2. t.routine[p] = t.tracked[p][1] /\ t.routine[p] \in TaskIdSet
          BY <2>4, <2>8, <4>3, <5>1 DEF Agree, RoutineFirst
        <5>3. ~(t.routine[p] < 0)
          BY <5>2, IdsAssumption DEF TaskIdSet
        <5>4. u.tracked[p] # <<>> /\ u.tracked[p][1] = t.tracked[p][1]
          BY <2>4, <2>5, <5>1
        <5>5. QED
          BY <2>4, <2>8, <4>1, <5>2, <5>3, <5>4 DEF Agree, RoutineFirst
      <4>4. QED
        BY <4>2, <4>3
    <3>5. HookOwns(u)
      BY <2>2, <2>8, <3>h DEF Agree, HookOwns
    <3>6. QED
      BY <3>1, <3>2, <3>3, <3>4, <3>5 DEF Agree
  <2>9. ASSUME NEW q \in Services \ {p}, QuietIn(t, q)
        PROVE  QuietIn(u, q)
    <3>1. SUFFICES ASSUME NEW s \in Slots, t.job[s] \in JobsOf(q), s \notin t.dead
                   PROVE  t.ids[s] \in t.missed \ {id}
      BY <2>2 DEF QuietIn
    <3>2. s # x /\ t.ids[s] \in t.missed
      BY <1>a, <2>9, <3>1 DEF QuietIn
    <3>3. t.ids[s] # id
      BY <1>0, <3>2 DEF IdsUnique, id
    <3>4. QED
      BY <3>2, <3>3
  <2>10. QED
    BY <2>7, <2>8, <2>9 DEF u, id
<1>4. QED
  BY <1>1, <1>2, <1>3

\* serviceSetInterval and serviceSetTimeout: the id is in no slot, hence on no
\* list that agrees with the table.
LEMMA ServiceSetKeeps ==
    ASSUME NEW t, Table(t), NEW p \in Services, NEW j \in JobsOf(p)
    PROVE  LET u == ServiceSet(t, p, j)
           IN  /\ Table(u)
               /\ Agree(t) => Agree(u)
               /\ \A q \in Services \ {p} : QuietIn(t, q) => QuietIn(u, q)
<1>1. CASE ~CanRegister(t)
  BY <1>1 DEF ServiceSet
<1>2. CASE CanRegister(t)
  <2> DEFINE x == FirstFree(t.ids)
             id == NewId(t.ids, t.next)
             v == RegisterTask(t, j)
  <2>0. /\ t \in TaskRecords /\ IdsUnique(t) /\ FreeIsBare(t) /\ LiveTracked(t)
        /\ t.ids \in [Slots -> TaskIdSet \cup {Free}] /\ t.next \in TaskIdSet
        /\ t.job \in [Slots -> Jobs \cup {None}]
    BY FieldTypes DEF Table
  <2>1. x \in Slots /\ t.ids[x] = Free /\ t.job[x] = None /\ t.hook[x] = None
    BY <1>2, <2>0, FirstFreeIsFree DEF CanRegister, FreeIsBare
  <2>2. /\ id \in TaskIdSet /\ id # Free /\ CursorAfter(t.ids, t.next) \in TaskIdSet
        /\ \A s \in Slots : t.ids[s] # id
    BY <2>0, NewIdFresh, IdsAssumption DEF TaskIdSet, Free
  <2>j. j \in Jobs
    BY JobsOfFacts
  <2>3. v = [t EXCEPT !.ids[x] = id, !.next = CursorAfter(t.ids, t.next), !.job[x] = j]
    BY DEF RegisterTask
  <2> HIDE DEF x, id, v
  <2>4. /\ v.ids = [t.ids EXCEPT ![x] = id] /\ v.job = [t.job EXCEPT ![x] = j]
        /\ v.dead = t.dead /\ v.hook = t.hook /\ v.tracked = t.tracked
        /\ v.routine = t.routine /\ v.missed = t.missed
    BY <2>0, <2>3 DEF TaskRecords
  <2>5. v \in TaskRecords
    <3>1. [t.ids EXCEPT ![x] = id] \in [Slots -> TaskIdSet \cup {Free}]
      BY <2>0, <2>1, <2>2
    <3>2. [t.job EXCEPT ![x] = j] \in [Slots -> Jobs \cup {None}]
      BY <2>0, <2>1, <2>j
    <3>3. QED
      BY Zenon, <2>0, <2>2, <2>3, <3>1, <3>2 DEF TaskRecords
  <2>6. /\ \A s \in Slots : v.ids[s] = IF s = x THEN id ELSE t.ids[s]
        /\ \A s \in Slots : v.job[s] = IF s = x THEN j ELSE t.job[s]
    BY <2>0, <2>4
  <2>7. Ready(v, x)
    <3>1. IdsUnique(v)
      BY <2>0, <2>2, <2>6 DEF IdsUnique
    <3>2. FreeIsBare(v)
      BY <2>0, <2>2, <2>4, <2>6 DEF FreeIsBare
    <3>3. QED
      BY <2>0, <2>4, <2>5, <2>6, <3>1, <3>2 DEF Ready, LiveTracked, Tracks
  <2>8. v.ids[x] = id /\ v.ids[x] # Free /\ v.job[x] \in JobsOf(p)
    BY <2>1, <2>2, <2>6
  <2>9. ServiceSet(t, p, j) = TrackServiceTask(v, p, v.ids[x])
    BY <1>2, <2>8 DEF ServiceSet, v, id
  <2>10. ASSUME Agree(t) PROVE Agree(v)
    <3>1. ListedOnce(v) /\ RoutineFirst(v)
      BY <2>4, <2>10 DEF Agree, ListedOnce, RoutineFirst
    <3>2. ListedHeld(v)
      <4>1. SUFFICES ASSUME NEW q \in Services, NEW i \in 1 .. Len(t.tracked[q])
                     PROVE  \E s \in Slots : v.ids[s] = t.tracked[q][i] /\ t.hook[s] = q
        BY <2>4 DEF ListedHeld
      <4>2. PICK s \in Slots : t.ids[s] = t.tracked[q][i] /\ t.hook[s] = q
        BY <2>10 DEF Agree, ListedHeld
      <4>3. s # x
        BY <2>1, <4>2, JobsOfFacts
      <4>4. QED
        BY <2>6, <4>2, <4>3
    <3>3. HookListed(v) /\ HookOwns(v)
      <4>1. \A q \in Services, s \in Slots : t.hook[s] = q => s # x
        BY <2>1, JobsOfFacts
      <4>2. QED
        BY <2>4, <2>6, <2>10, <4>1 DEF Agree, HookListed, HookOwns, Tracks
    <3>4. QED
      BY <3>1, <3>2, <3>3 DEF Agree
  <2>11. \A q \in Services \ {p} : QuietIn(t, q) => QuietIn(v, q)
    BY <2>4, <2>6, JobsOfFacts DEF QuietIn
  <2>12. QED
    BY <2>1, <2>7, <2>8, <2>9, <2>10, <2>11, TrackKeeps
<1>3. QED
  BY <1>1, <1>2

\* serviceUpdateInterval with any id: the lists go on agreeing unless the id now
\* names a task with another callback.
LEMMA ServiceUpdateKeeps ==
    ASSUME NEW t, Table(t), NEW p \in Services, NEW j \in JobsOf(p),
           NEW id
    PROVE  LET u == ServiceUpdate(t, p, id, j)
           IN  /\ Table(u)
               /\ Agree(t) /\ ~Steals(t, id, j) => Agree(u)
               /\ \A q \in Services \ {p} : QuietIn(t, q) => QuietIn(u, q)
<1>1. CASE ~Registered(t, id)
  BY <1>1, ServiceSetKeeps DEF ServiceUpdate
<1>2. CASE Registered(t, id)
  <2> DEFINE x == SlotOf(t, id)
             v == [t EXCEPT !.job[x] = j, !.dead = @ \ {x}]
  <2>0. /\ t \in TaskRecords /\ IdsUnique(t) /\ FreeIsBare(t) /\ LiveTracked(t)
        /\ t.job \in [Slots -> Jobs \cup {None}]
        /\ x \in Slots /\ t.ids[x] = id /\ id # Free /\ j \in Jobs
    BY <1>2, FieldTypes, SlotOfId, JobsOfFacts DEF Table, Registered, Nothing, Free
  <2>1. ServiceUpdate(t, p, id, j) = TrackServiceTask(v, p, id)
    BY <1>2 DEF ServiceUpdate
  <2>s. Steals(t, id, j) <=> t.job[x] # j
    BY <1>2 DEF Steals
  <2> HIDE DEF x
  <2>2. /\ v \in TaskRecords
        /\ v.job = [t.job EXCEPT ![x] = j] /\ v.dead = t.dead \ {x}
        /\ v.ids = t.ids /\ v.hook = t.hook /\ v.tracked = t.tracked
        /\ v.routine = t.routine /\ v.missed = t.missed
    <3>1. [t.job EXCEPT ![x] = j] \in [Slots -> Jobs \cup {None}]
      BY <2>0
    <3>2. QED
      BY Zenon, <2>0, <3>1 DEF TaskRecords
  <2> HIDE DEF v
  <2>3. \A s \in Slots : v.job[s] = IF s = x THEN j ELSE t.job[s]
    BY <2>0, <2>2
  <2>4. Ready(v, x)
    <3>1. IdsUnique(v)
      BY <2>0, <2>2 DEF IdsUnique
    <3>2. FreeIsBare(v)
      BY <2>0, <2>2, <2>3 DEF FreeIsBare
    <3>3. QED
      BY <2>0, <2>2, <2>3, <3>1, <3>2 DEF Ready, LiveTracked, Tracks
  <2>5. v.ids[x] = id /\ v.ids[x] # Free /\ v.job[x] \in JobsOf(p)
    BY <2>0, <2>2, <2>3
  <2>6. ASSUME Agree(t), t.job[x] = j PROVE Agree(v)
    <3>1. \A s \in Slots : v.job[s] = t.job[s]
      BY <2>3, <2>6
    <3>2. QED
      <4>1. ListedOnce(v) /\ RoutineFirst(v)
        BY <2>2, <2>6 DEF Agree, ListedOnce, RoutineFirst
      <4>2. ListedHeld(v)
        BY <2>2, <2>6 DEF Agree, ListedHeld
      <4>3. HookListed(v)
        BY <2>2, <2>6 DEF Agree, HookListed, Tracks
      <4>4. HookOwns(v)
        BY <2>2, <2>6, <3>1 DEF Agree, HookOwns
      <4>5. QED
        BY <4>1, <4>2, <4>3, <4>4 DEF Agree
  <2>7. \A q \in Services \ {p} : QuietIn(t, q) => QuietIn(v, q)
    BY <2>2, <2>3, JobsOfFacts DEF QuietIn
  <2> DEFINE u == TrackServiceTask(v, p, v.ids[x])
  <2>8. /\ Table(u)
        /\ Agree(v) => Agree(u)
        /\ \A q \in Services \ {p} : QuietIn(v, q) => QuietIn(u, q)
    BY <2>0, <2>4, <2>5, TrackKeeps
  <2>9. ServiceUpdate(t, p, id, j) = u
    BY <2>1, <2>5
  <2> HIDE DEF u
  <2>10. QED
    BY <2>s, <2>6, <2>7, <2>8, <2>9
<1>3. QED
  BY <1>1, <1>2

\* The loop of untrackServiceTask: one entry holding the id goes, the later ones
\* move down.
LEMMA WithoutFacts ==
    ASSUME NEW list \in Seq(TaskIdSet), NEW id,
           \E k \in 1 .. Len(list) : list[k] = id
    PROVE  \E i \in 1 .. Len(list) :
             /\ list[i] = id
             /\ Without(list, id) \in Seq(TaskIdSet)
             /\ Len(Without(list, id)) = Len(list) - 1
             /\ \A k \in 1 .. Len(list) - 1 :
                  Without(list, id)[k] = IF k < i THEN list[k] ELSE list[k + 1]
<1> DEFINE i == CHOOSE k \in 1 .. Len(list) : list[k] = id
           f == [k \in 1 .. Len(list) - 1 |-> IF k < i THEN list[k] ELSE list[k + 1]]
<1>1. i \in 1 .. Len(list) /\ list[i] = id /\ Len(list) \in Nat
  OBVIOUS
<1>2. Without(list, id) = f
  BY DEF Without
<1> HIDE DEF i
<1>3. Len(list) - 1 \in Nat
  BY <1>1
<1>4. \A k \in 1 .. Len(list) - 1 : f[k] \in TaskIdSet
  BY <1>1
<1>5. f \in [1 .. Len(list) - 1 -> TaskIdSet]
  BY <1>4
<1>6. f \in Seq(TaskIdSet) /\ Len(f) = Len(list) - 1
  <2> HIDE DEF f
  <2>1. QED
    BY <1>3, <1>5
<1>7. QED
  BY <1>1, <1>2, <1>6

\* remove_expired_tasks on one slot: the finalizer takes the id off the list of
\* its service, then the slot is cleared.
LEMMA ReapTaskKeeps ==
    ASSUME NEW t, Table(t), NEW x \in Slots
    PROVE  /\ Table(ReapTask(t, x))
           /\ Agree(t) => Agree(ReapTask(t, x))
           /\ \A q \in Services : QuietIn(t, q) => QuietIn(ReapTask(t, x), q)
<1> DEFINE p == t.hook[x]
           id == t.ids[x]
           w == IF p = None THEN t ELSE UntrackServiceTask(t, p, id)
           u == ReapTask(t, x)
<1>0. /\ t \in TaskRecords /\ IdsUnique(t) /\ FreeIsBare(t) /\ LiveTracked(t)
      /\ p \in Services \cup {None} /\ id \in TaskIdSet \cup {Free}
      /\ t.ids \in [Slots -> TaskIdSet \cup {Free}]
      /\ t.job \in [Slots -> Jobs \cup {None}]
      /\ t.hook \in [Slots -> Services \cup {None}]
      /\ t.tracked \in [Services -> Seq(TaskIdSet)]
      /\ t.routine \in [Services -> TaskIdSet \cup {Nothing}]
  BY FieldTypes DEF Table
<1>1. u = [w EXCEPT !.ids[x] = Free, !.job[x] = None, !.hook[x] = None,
                    !.dead = @ \ {x}, !.missed = @ \ {id}]
  BY DEF ReapTask
<1> HIDE DEF p, id, u
<1>c. CASE p = None \/ ~Tracks(t, p, id)
  <2>1. w = t
    BY <1>c DEF UntrackServiceTask
  <2> HIDE DEF w
  <2>2. /\ u.ids = [t.ids EXCEPT ![x] = Free] /\ u.job = [t.job EXCEPT ![x] = None]
        /\ u.hook = [t.hook EXCEPT ![x] = None] /\ u.dead = t.dead \ {x}
        /\ u.missed = t.missed \ {id}
        /\ u.tracked = t.tracked /\ u.routine = t.routine
    BY <1>0, <1>1, <2>1 DEF TaskRecords
  <2>3. u \in TaskRecords
    BY Zenon, <1>0, <1>1, <2>1 DEF TaskRecords
  <2>4. /\ \A s \in Slots : u.ids[s] = IF s = x THEN Free ELSE t.ids[s]
        /\ \A s \in Slots : u.job[s] = IF s = x THEN None ELSE t.job[s]
        /\ \A s \in Slots : u.hook[s] = IF s = x THEN None ELSE t.hook[s]
    BY <1>0, <2>2
  <2>5. \A s \in Slots \ {x}, q \in Services :
          t.job[s] \in JobsOf(q) => t.ids[s] # id
    BY <1>0, JobsOfFacts DEF IdsUnique, FreeIsBare, id
  <2>6. Table(u)
    <3>1. IdsUnique(u) /\ FreeIsBare(u)
      BY <1>0, <2>4 DEF IdsUnique, FreeIsBare
    <3>2. LiveTracked(u)
      <4>1. SUFFICES ASSUME NEW q \in Services, NEW s \in Slots,
                            u.job[s] \in JobsOf(q), s \notin u.dead
                     PROVE  Tracks(u, q, u.ids[s]) \/ u.ids[s] \in u.missed
        BY DEF LiveTracked
      <4>2. s # x /\ t.job[s] \in JobsOf(q) /\ u.ids[s] = t.ids[s]
        BY <2>4, <4>1, JobsOfFacts
      <4>3. s \notin t.dead /\ t.ids[s] # id
        BY <2>2, <2>5, <4>1, <4>2
      <4>4. Tracks(t, q, t.ids[s]) \/ t.ids[s] \in t.missed
        BY <1>0, <4>2, <4>3 DEF LiveTracked
      <4>5. QED
        BY <2>2, <4>2, <4>3, <4>4 DEF Tracks
    <3>3. QED
      BY <2>3, <3>1, <3>2 DEF Table
  <2>7. ASSUME Agree(t) PROVE Agree(u)
    <3>1. p = None
      BY <1>0, <1>c, <2>7 DEF Agree, HookListed, p, id
    <3>2. ListedOnce(u) /\ RoutineFirst(u)
      BY <2>2, <2>7 DEF Agree, ListedOnce, RoutineFirst
    <3>3. ListedHeld(u)
      <4>1. SUFFICES ASSUME NEW q \in Services, NEW i \in 1 .. Len(t.tracked[q])
                     PROVE  \E s \in Slots : u.ids[s] = t.tracked[q][i] /\ u.hook[s] = q
        BY <2>2 DEF ListedHeld
      <4>2. PICK s \in Slots : t.ids[s] = t.tracked[q][i] /\ t.hook[s] = q
        BY <2>7 DEF Agree, ListedHeld
      <4>3. s # x
        BY <3>1, <4>2, JobsOfFacts DEF p
      <4>4. QED
        BY <2>4, <4>2, <4>3
    <3>4. HookListed(u) /\ HookOwns(u)
      <4>1. SUFFICES ASSUME NEW q \in Services, NEW s \in Slots, u.hook[s] = q
                     PROVE  Tracks(u, q, u.ids[s]) /\ u.job[s] \in JobsOf(q)
        BY DEF HookListed, HookOwns
      <4>2. s # x /\ t.hook[s] = q
        BY <2>4, <4>1, JobsOfFacts
      <4>3. u.ids[s] = t.ids[s] /\ u.job[s] = t.job[s]
        BY <2>4, <4>2
      <4>4. Tracks(t, q, t.ids[s]) /\ t.job[s] \in JobsOf(q)
        BY <2>7, <4>2 DEF Agree, HookListed, HookOwns
      <4>5. QED
        BY <2>2, <4>3, <4>4 DEF Tracks
    <3>5. QED
      BY <3>2, <3>3, <3>4 DEF Agree
  <2>8. \A q \in Services : QuietIn(t, q) => QuietIn(u, q)
    BY <2>2, <2>4, <2>5, JobsOfFacts DEF QuietIn
  <2>9. QED
    BY <2>6, <2>7, <2>8 DEF u
<1>d. CASE p \in Services /\ Tracks(t, p, id)
  <2> DEFINE old == t.tracked[p]
             rest == Without(old, id)
             first == IF Len(rest) > 0 THEN rest[1] ELSE Nothing
  <2>0. p # None
    BY <1>d, JobsOfFacts
  <2>1. w = [t EXCEPT !.tracked[p] = rest,
                      !.routine[p] = IF @ = id THEN first ELSE @]
    BY <1>d, <2>0 DEF UntrackServiceTask
  <2>2. old \in Seq(TaskIdSet) /\ Len(old) \in Nat
    <3>1. t.tracked \in [Services -> Seq(TaskIdSet)]
      BY <1>0
    <3>2. old \in Seq(TaskIdSet)
      BY <1>d, <3>1
    <3> HIDE DEF old
    <3>3. QED
      BY <3>2
  <2>3. PICK i \in 1 .. Len(old) :
          /\ old[i] = id /\ rest \in Seq(TaskIdSet) /\ Len(rest) = Len(old) - 1
          /\ \A k \in 1 .. Len(old) - 1 :
               rest[k] = IF k < i THEN old[k] ELSE old[k + 1]
    BY Zenon, <1>d, <2>2, WithoutFacts DEF Tracks
  <2>f. first \in TaskIdSet \cup {Nothing}
    BY <2>3
  <2> HIDE DEF w, rest, first
  <2>4. /\ w.tracked = [t.tracked EXCEPT ![p] = rest]
        /\ w.routine = [t.routine EXCEPT ![p] = IF @ = id THEN first ELSE @]
        /\ w.ids = t.ids /\ w.job = t.job /\ w.hook = t.hook
        /\ w.dead = t.dead /\ w.missed = t.missed
    BY <1>0, <2>1 DEF TaskRecords
  <2>5. w \in TaskRecords
    <3>1. [t.tracked EXCEPT ![p] = rest] \in [Services -> Seq(TaskIdSet)]
      BY Zenon, <1>0, <2>3
    <3>2. [t.routine EXCEPT ![p] = IF @ = id THEN first ELSE @]
            \in [Services -> TaskIdSet \cup {Nothing}]
      BY <1>0, <1>d, <2>f
    <3>3. QED
      BY Zenon, <1>0, <2>1, <3>1, <3>2 DEF TaskRecords
  <2>6. u \in TaskRecords
    BY Zenon, <1>0, <1>1, <2>5 DEF TaskRecords
  <2>7. /\ u.ids = [t.ids EXCEPT ![x] = Free] /\ u.job = [t.job EXCEPT ![x] = None]
        /\ u.hook = [t.hook EXCEPT ![x] = None] /\ u.dead = t.dead \ {x}
        /\ u.missed = t.missed \ {id}
        /\ u.tracked = [t.tracked EXCEPT ![p] = rest]
        /\ u.routine = [t.routine EXCEPT ![p] = IF @ = id THEN first ELSE @]
    BY Zenon, <1>0, <1>1, <2>4, <2>5 DEF TaskRecords
  <2>8. /\ \A s \in Slots : u.ids[s] = IF s = x THEN Free ELSE t.ids[s]
        /\ \A s \in Slots : u.job[s] = IF s = x THEN None ELSE t.job[s]
        /\ \A s \in Slots : u.hook[s] = IF s = x THEN None ELSE t.hook[s]
    BY <1>0, <2>7
  <2>t. /\ u.tracked[p] = rest
        /\ \A q \in Services \ {p} : u.tracked[q] = t.tracked[q]
    BY <1>0, <1>d, <2>7
  <2>r. \A q \in Services :
          u.routine[q] = IF q = p /\ t.routine[q] = id THEN first ELSE t.routine[q]
    BY <1>0, <1>d, <2>7
  <2>m. u.dead = t.dead \ {x} /\ u.missed = t.missed \ {id}
    BY <2>7
  <2>u. IdsUnique(t) /\ FreeIsBare(t)
    BY <1>0
  <2>9. \A k : Tracks(t, p, k) /\ k # id => Tracks(u, p, k)
    <3>1. SUFFICES ASSUME NEW m \in 1 .. Len(old), old[m] # id
                   PROVE  \E n \in 1 .. Len(rest) : rest[n] = old[m]
      BY <2>t DEF Tracks
    <3>2. CASE m < i
      <4>1. m \in 1 .. Len(old) - 1 /\ m \in 1 .. Len(rest)
        BY <2>2, <2>3, <3>2
      <4>2. rest[m] = old[m]
        BY <2>3, <3>2, <4>1
      <4>3. QED
        BY <4>1, <4>2
    <3>3. CASE m > i
      <4>1. m - 1 \in 1 .. Len(rest) /\ ~(m - 1 < i) /\ (m - 1) + 1 = m
        BY <2>2, <2>3, <3>3
      <4>2. QED
        BY Zenon, <2>2, <2>3, <4>1
    <3>4. m < i \/ m > i
      BY <2>2, <2>3, <3>1
    <3>5. QED
      BY <3>2, <3>3, <3>4
  <2>10. \A q \in Services : \A k : Tracks(t, q, k) /\ k # id => Tracks(u, q, k)
    <3>1. \A q \in Services \ {p} : \A k : Tracks(t, q, k) => Tracks(u, q, k)
      <4>1. \A q \in Services \ {p} : u.tracked[q] = t.tracked[q]
        BY <2>t
      <4>2. QED
        BY <4>1 DEF Tracks
    <3>2. QED
      BY <2>9, <3>1
  <2>11. \A s \in Slots \ {x} : t.ids[s] # Free => t.ids[s] # id
    BY <2>u DEF IdsUnique, id
  <2>12. Table(u)
    <3>1. IdsUnique(u)
      BY <2>u, <2>8 DEF IdsUnique
    <3>0. FreeIsBare(u)
      BY <2>u, <2>8 DEF FreeIsBare
    <3>2. LiveTracked(u)
      <4>1. SUFFICES ASSUME NEW q \in Services, NEW s \in Slots,
                            u.job[s] \in JobsOf(q), s \notin u.dead
                     PROVE  Tracks(u, q, u.ids[s]) \/ u.ids[s] \in u.missed
        BY DEF LiveTracked
      <4>0. s # x
        BY <2>8, <4>1, JobsOfFacts
      <4>2. s # x /\ t.job[s] \in JobsOf(q) /\ s \notin t.dead
              /\ u.ids[s] = t.ids[s]
        BY <2>m, <2>8, <4>0, <4>1
      <4>3. t.ids[s] # id
        BY <2>u, <2>11, <4>2, JobsOfFacts DEF FreeIsBare
      <4>4. QED
        BY <1>0, <2>m, <2>10, <4>2, <4>3 DEF LiveTracked
    <3>3. QED
      BY <2>6, <3>0, <3>1, <3>2 DEF Table
  <2>13. ASSUME Agree(t) PROVE Agree(u)
    <3>o. \A k, m \in 1 .. Len(old) : old[k] = old[m] => k = m
      BY <1>d, <2>13 DEF Agree, ListedOnce
    <3>r. \A k \in 1 .. Len(rest) : \E m \in 1 .. Len(old) \ {i} :
            /\ rest[k] = old[m]
            /\ m = IF k < i THEN k ELSE k + 1
      <4>1. SUFFICES ASSUME NEW k \in 1 .. Len(rest)
                     PROVE  \E m \in 1 .. Len(old) \ {i} :
                              /\ rest[k] = old[m]
                              /\ m = IF k < i THEN k ELSE k + 1
        OBVIOUS
      <4>2. CASE k < i
        <5>1. k \in 1 .. Len(old) \ {i} /\ rest[k] = old[k]
          BY <2>2, <2>3, <4>2
        <5>2. QED
          BY <4>2, <5>1
      <4>3. CASE ~(k < i)
        <5>1. k + 1 \in 1 .. Len(old) \ {i} /\ rest[k] = old[k + 1]
          BY <2>2, <2>3, <4>3
        <5>2. QED
          BY <4>3, <5>1
      <4>4. QED
        BY <4>2, <4>3
    <3>1. ListedOnce(u)
      <4>1. ASSUME NEW k \in 1 .. Len(rest), NEW n \in 1 .. Len(rest),
                   rest[k] = rest[n]
            PROVE  k = n
        <5>1. PICK a \in 1 .. Len(old) \ {i} :
                rest[k] = old[a] /\ a = IF k < i THEN k ELSE k + 1
          BY <3>r
        <5>2. PICK b \in 1 .. Len(old) \ {i} :
                rest[n] = old[b] /\ b = IF n < i THEN n ELSE n + 1
          BY <3>r
        <5>3. a = b
          BY Zenon, <3>o, <4>1, <5>1, <5>2
        <5>4. QED
          BY <2>2, <2>3, <5>1, <5>2, <5>3
      <4>2. QED
        BY Zenon, <2>t, <2>13, <4>1 DEF Agree, ListedOnce
    <3>2. ListedHeld(u)
      <4>1. SUFFICES ASSUME NEW q \in Services, NEW k \in 1 .. Len(u.tracked[q])
                     PROVE  \E s \in Slots : u.ids[s] = u.tracked[q][k] /\ u.hook[s] = q
        BY DEF ListedHeld
      <4>2. \E s \in Slots \ {x} : t.ids[s] = u.tracked[q][k] /\ t.hook[s] = q
        <5>1. CASE q = p
          <6>1. PICK m \in 1 .. Len(old) \ {i} : rest[k] = old[m]
            BY <2>t, <3>r, <4>1, <5>1
          <6>2. PICK s \in Slots : t.ids[s] = old[m] /\ t.hook[s] = p
            BY <1>d, <2>13 DEF Agree, ListedHeld
          <6>3. s # x
            BY <2>3, <3>o, <6>1, <6>2 DEF id
          <6>4. QED
            BY <2>t, <5>1, <6>1, <6>2, <6>3
        <5>2. CASE q # p
          <6>1. k \in 1 .. Len(t.tracked[q]) /\ u.tracked[q] = t.tracked[q]
            BY <2>t, <4>1, <5>2
          <6>2. QED
            BY <2>13, <5>2, <6>1 DEF Agree, ListedHeld, p
        <5>3. QED
          BY <5>1, <5>2
      <4>3. QED
        BY <2>8, <4>2
    <3>3. HookListed(u) /\ HookOwns(u)
      <4>1. SUFFICES ASSUME NEW q \in Services, NEW s \in Slots, u.hook[s] = q
                     PROVE  Tracks(u, q, u.ids[s]) /\ u.job[s] \in JobsOf(q)
        BY DEF HookListed, HookOwns
      <4>2. s # x /\ t.hook[s] = q
        BY <2>8, <4>1, JobsOfFacts
      <4>3. u.ids[s] = t.ids[s] /\ u.job[s] = t.job[s]
        BY <2>8, <4>2
      <4>4. t.ids[s] # id
        BY <2>u, <2>11, <4>2, JobsOfFacts DEF FreeIsBare
      <4>5. Tracks(t, q, t.ids[s]) /\ t.job[s] \in JobsOf(q)
        BY <2>13, <4>2 DEF Agree, HookListed, HookOwns
      <4>6. QED
        BY <2>10, <4>3, <4>4, <4>5
    <3>4. RoutineFirst(u)
      <4>1. u.routine[p] = IF rest = <<>> THEN Nothing ELSE rest[1]
        <5>l. rest \in Seq(TaskIdSet) /\ Len(rest) \in Nat
          <6>1. rest \in Seq(TaskIdSet)
            BY <2>3
          <6>2. QED
            BY <6>1
        <5>0. rest = <<>> <=> Len(rest) = 0
          BY <5>l
        <5>1. CASE t.routine[p] = id
          <6>1. u.routine[p] = first
            BY <1>d, <2>r, <5>1
          <6>2. Len(rest) > 0 <=> Len(rest) # 0
            BY <5>l
          <6>3. QED
            BY <5>0, <6>1, <6>2 DEF first
        <5>2. CASE t.routine[p] # id
          <6>1. old # <<>> /\ 1 \in 1 .. Len(old)
            BY <2>2, <2>3
          <6>2. t.routine[p] = old[1]
            BY <1>d, <2>13, <6>1 DEF Agree, RoutineFirst
          <6>3. i # 1
            BY <2>3, <5>2, <6>2
          <6>4. 1 \in 1 .. Len(old) - 1 /\ 1 < i
            BY <2>2, <2>3, <6>3
          <6>5. rest[1] = old[1] /\ Len(rest) # 0
            BY <2>2, <2>3, <6>4
          <6>6. QED
            BY <1>d, <2>r, <5>0, <5>2, <6>2, <6>5
        <5>3. QED
          BY <5>1, <5>2
      <4>2. QED
        <5>1. \A q \in Services \ {p} :
                u.routine[q] = IF u.tracked[q] = <<>> THEN Nothing ELSE u.tracked[q][1]
          BY <2>r, <2>t, <2>13 DEF Agree, RoutineFirst
        <5>2. u.tracked[p] = rest
          BY <2>t
        <5>3. QED
          BY <4>1, <5>1, <5>2 DEF RoutineFirst
    <3>5. QED
      BY <3>1, <3>2, <3>3, <3>4 DEF Agree
  <2>14. ASSUME NEW q \in Services, QuietIn(t, q) PROVE QuietIn(u, q)
    <3>1. SUFFICES ASSUME NEW s \in Slots, u.job[s] \in JobsOf(q), s \notin u.dead
                   PROVE  u.ids[s] \in u.missed
      BY DEF QuietIn
    <3>0. s # x
      BY <2>8, <3>1, JobsOfFacts
    <3>2. s # x /\ t.job[s] \in JobsOf(q) /\ s \notin t.dead
            /\ u.ids[s] = t.ids[s]
      BY <2>m, <2>8, <3>0, <3>1
    <3>3. t.ids[s] # id
      BY <2>u, <2>11, <3>2, JobsOfFacts DEF FreeIsBare
    <3>4. QED
      BY <2>m, <2>14, <3>2, <3>3 DEF QuietIn
  <2>15. QED
    BY <2>12, <2>13, <2>14 DEF u
<1>2. QED
  BY <1>0, <1>c, <1>d

-----------------------------------------------------------------------------
(* The services *)

States == {"BOOT", "ACTIVE", "FAILED", "INACTIVE"}

\* the inductive invariant
IInv ==
    /\ Table(tasks)
    /\ state \in [Services -> States]
    /\ "stolen" \notin excused => Agree(tasks)
    /\ \A p \in quiet : p \in Services /\ state[p] # "ACTIVE" /\ QuietIn(tasks, p)

\* what a reconfiguration of the MQTT service that began with table t owes
Keeps(t, r) ==
    /\ Table(r.t)
    /\ r.x \in BOOLEAN
    /\ Agree(t) /\ ~r.x => Agree(r.t)
    /\ \A q \in Services \ {"MQTT"} : QuietIn(t, q) => QuietIn(r.t, q)

\* One interval of handleMqttConfigChange, switched on or off.
LEMMA IntervalKeeps ==
    ASSUME NEW t, NEW r, Keeps(t, r), NEW j \in Intervals, NEW on \in BOOLEAN
    PROVE  Keeps(t, Interval(r, j, on))
<1>1. "MQTT" \in Services /\ j \in JobsOf("MQTT")
  BY ServicesAssumption DEF JobsOf
<1>2. CASE on
  <2>1. /\ Interval(r, j, on).t = ServiceUpdate(r.t, "MQTT", r.c[j], j)
        /\ Interval(r, j, on).x = (r.x \/ Steals(r.t, r.c[j], j))
    BY <1>2 DEF Interval
  <2>2. (r.x \/ Steals(r.t, r.c[j], j)) \in BOOLEAN
    OBVIOUS
  <2> DEFINE u == ServiceUpdate(r.t, "MQTT", r.c[j], j)
  <2>3. /\ Table(u)
        /\ Agree(r.t) /\ ~Steals(r.t, r.c[j], j) => Agree(u)
        /\ \A q \in Services \ {"MQTT"} : QuietIn(r.t, q) => QuietIn(u, q)
    BY <1>1, ServiceUpdateKeeps DEF Keeps
  <2> HIDE DEF u
  <2>4. Interval(r, j, on).t = u
    BY <2>1 DEF u
  <2>5. QED
    BY Zenon, <2>1, <2>2, <2>3, <2>4 DEF Keeps
<1>3. CASE ~on
  <2>1. /\ Interval(r, j, on).t = ClearTask(r.t, r.c[j])
        /\ Interval(r, j, on).x = r.x
    BY <1>3 DEF Interval
  <2>2. QED
    BY <2>1, ClearTaskKeeps DEF Keeps
<1>4. QED
  BY <1>2, <1>3

\* handleMqttConfigChange as a whole, with or without the one-shot task.
LEMMA ReconfiguredKeeps ==
    ASSUME NEW t, Table(t), NEW c, NEW g \in BOOLEAN,
           NEW pub \in BOOLEAN, NEW keep \in BOOLEAN
    PROVE  Keeps(t, Reconfigured(Before(t, c), g, pub, keep))
<1> DEFINE r == Before(t, c)
           r1 == IF g THEN [r EXCEPT !.t = ServiceSet(@, "MQTT", "init")] ELSE r
<1>1. Keeps(t, r1)
  <2>1. r.t = t /\ r.x = FALSE
    BY DEF Before
  <2>2. CASE ~g
    BY Zenon, <2>1, <2>2 DEF Keeps
  <2>3. CASE g
    <3>1. r1.t = ServiceSet(t, "MQTT", "init") /\ r1.x = FALSE
      BY <2>3 DEF Before
    <3>2. "MQTT" \in Services /\ "init" \in JobsOf("MQTT")
      BY ServicesAssumption DEF JobsOf
    <3> HIDE DEF r1
    <3>3. /\ Table(ServiceSet(t, "MQTT", "init"))
          /\ Agree(t) => Agree(ServiceSet(t, "MQTT", "init"))
          /\ \A q \in Services \ {"MQTT"} :
               QuietIn(t, q) => QuietIn(ServiceSet(t, "MQTT", "init"), q)
      BY <3>2, ServiceSetKeeps
    <3>4. QED
      BY Zenon, <3>1, <3>3 DEF Keeps
  <2>4. QED
    BY <2>2, <2>3
<1>2. "publish" \in Intervals /\ "subscribe" \in Intervals
  BY DEF Intervals
<1> HIDE DEF r1
<1>3. Keeps(t, Interval(Interval(r1, "publish", pub), "subscribe", keep))
  BY <1>1, <1>2, IntervalKeeps
<1>4. QED
  BY <1>3 DEF Reconfigured, r1

\* MqttServiceProvider's own stop, or none, and then ServiceProvider's.
LEMMA StoppedKeeps ==
    ASSUME Table(tasks), NEW p \in Services
    PROVE  /\ Table(StoppedTasks(p))
           /\ Agree(tasks) => Agree(StoppedTasks(p))
           /\ \A q \in Services : QuietIn(tasks, q) => QuietIn(StoppedTasks(p), q)
           /\ QuietIn(StoppedTasks(p), p)
<1> DEFINE t == IF p = "MQTT" THEN ClearTask(tasks, cached["timer"]) ELSE tasks
<1>1. /\ Table(t)
      /\ Agree(tasks) => Agree(t)
      /\ \A q \in Services : QuietIn(tasks, q) => QuietIn(t, q)
  BY ClearTaskKeeps
<1>2. StoppedTasks(p) = StopTasks(t, p)
  BY DEF StoppedTasks
<1> HIDE DEF t
<1>3. QED
  BY <1>1, <1>2, StopTasksKeeps

\* IInv of a table t and the services S that are to be quiet in it
Holds(t, S) ==
    /\ Table(t)
    /\ state \in [Services -> States]
    /\ "stolen" \notin excused => Agree(t)
    /\ \A p \in S : p \in Services /\ state[p] # "ACTIVE" /\ QuietIn(t, p)

\* A step that applies a configuration and gives up MQTT's silence.
LEMMA ReconfigureStep ==
    ASSUME NEW t, NEW c, NEW g \in BOOLEAN, Holds(t, quiet \ {"MQTT"}),
           NEW pub \in BOOLEAN, NEW keep \in BOOLEAN,
           tasks' = Reconfigured(Before(t, c), g, pub, keep).t,
           excused' = excused \cup Stolen(Reconfigured(Before(t, c), g, pub, keep)),
           quiet' = quiet \ {"MQTT"},
           state' \in [Services -> States],
           \A p \in Services \ {"MQTT"} : state'[p] = state[p]
    PROVE  IInv'
<1> DEFINE r == Reconfigured(Before(t, c), g, pub, keep)
<1>1. Keeps(t, r)
  BY ReconfiguredKeeps DEF Holds
<1>2. tasks' = r.t /\ excused' = excused \cup Stolen(r)
  OBVIOUS
<1> HIDE DEF r
<1>3. "stolen" \notin excused' => "stolen" \notin excused /\ ~r.x
  BY <1>2 DEF Stolen
<1>4. QED
  BY <1>1, <1>2, <1>3 DEF Holds, Keeps, IInv

\* initService of the MQTT service, successful or failed.
LEMMA StartMqttStep ==
    ASSUME NEW t, NEW c, Holds(t, quiet \ {"MQTT"}), StartMqtt(t, c),
           quiet' = quiet \ {"MQTT"}
    PROVE  IInv'
<1>1. /\ PublishChoices \subseteq BOOLEAN /\ KeepChoices \subseteq BOOLEAN
      /\ "MQTT" \in Services /\ TRUE \in BOOLEAN
  BY ServicesAssumption
<1>s. /\ state' \in [Services -> States]
      /\ \A p \in Services \ {"MQTT"} : state'[p] = state[p]
  BY Zenon, <1>1 DEF StartMqtt, Holds, States
<1>2. CASE \E pub \in PublishChoices, keep \in KeepChoices :
              LET r == Reconfigured(Before(t, c), TRUE, pub, keep)
              IN  /\ tasks' = r.t /\ cached' = r.c
                  /\ excused' = excused \cup Stolen(r)
  <2>1. PICK pub \in PublishChoices, keep \in KeepChoices :
          /\ tasks' = Reconfigured(Before(t, c), TRUE, pub, keep).t
          /\ excused' = excused \cup
                Stolen(Reconfigured(Before(t, c), TRUE, pub, keep))
    BY Zenon, <1>2
  <2>2. QED
    BY Zenon, <1>1, <1>s, <2>1, ReconfigureStep
<1>3. CASE tasks' = t /\ excused' = excused
  BY <1>s, <1>3 DEF Holds, IInv
<1>4. QED
  BY Zenon, <1>2, <1>3 DEF StartMqtt

\* initService of the mDNS service, with or without an address.
LEMMA StartMdnsStep ==
    ASSUME NEW t, NEW b, NEW ip \in BOOLEAN, Holds(t, quiet \ {"MDNS"}),
           StartMdns(t, b, ip), quiet' = quiet \ {"MDNS"},
           state' = [state EXCEPT !["MDNS"] = "ACTIVE"]
    PROVE  IInv'
<1>1. "MDNS" \in Services /\ "cert" \in JobsOf("MDNS")
  BY ServicesAssumption DEF JobsOf
<1>2. tasks' = t \/ tasks' = ServiceSet(t, "MDNS", "cert")
  BY DEF StartMdns, Ensured
<1>3. "stolen" \notin excused' => "stolen" \notin excused
  BY DEF StartMdns
<1>4. /\ Table(ServiceSet(t, "MDNS", "cert"))
      /\ Agree(t) => Agree(ServiceSet(t, "MDNS", "cert"))
      /\ \A q \in Services \ {"MDNS"} :
           QuietIn(t, q) => QuietIn(ServiceSet(t, "MDNS", "cert"), q)
  BY <1>1, ServiceSetKeeps DEF Holds
<1>5. /\ state' \in [Services -> States]
      /\ \A p \in Services \ {"MDNS"} : state'[p] = state[p]
  BY <1>1 DEF Holds, States
<1>6. QED
  BY <1>2, <1>3, <1>4, <1>5 DEF Holds, IInv

\* startService of any service.
LEMMA StartStep ==
    ASSUME IInv, NEW p \in Services, Start(p)
    PROVE  IInv'
<1>1. quiet' = quiet \ {p} /\ p \in {"MQTT", "MDNS", "CRON"}
  BY ServicesAssumption DEF Start
<1>2. Holds(tasks, quiet \ {p})
  BY DEF Holds, IInv
<1>3. CASE p = "MQTT"
  BY <1>1, <1>2, <1>3, StartMqttStep DEF Start
<1>4. CASE p = "MDNS"
  <2>1. PICK ip \in BOOLEAN : StartMdns(tasks, pending, ip)
    BY <1>4 DEF Start
  <2>2. state' = [state EXCEPT !["MDNS"] = "ACTIVE"]
    BY <1>4 DEF Start
  <2>3. QED
    BY <1>1, <1>2, <1>4, <2>1, <2>2, StartMdnsStep
<1>5. CASE p = "CRON"
  <2>1. /\ tasks' = tasks /\ state' = [state EXCEPT ![p] = "ACTIVE"]
        /\ "stolen" \notin excused' => "stolen" \notin excused
    BY <1>5 DEF Start, StartCron
  <2>2. /\ state' \in [Services -> States]
        /\ \A q \in Services \ {p} : state'[q] = state[q]
    BY <2>1 DEF IInv, States
  <2>3. QED
    BY <1>1, <2>1, <2>2 DEF IInv
<1>6. QED
  BY <1>1, <1>3, <1>4, <1>5

\* stopService of any service: it may join the quiet ones.
LEMMA StopStep ==
    ASSUME IInv, NEW p \in Services, Stop(p)
    PROVE  IInv'
<1>1. /\ tasks' = StoppedTasks(p) /\ excused' = excused
      /\ quiet' \subseteq quiet \cup {p}
      /\ state' = [state EXCEPT ![p] = "INACTIVE"]
  BY DEF Stop
<1>2. /\ state' \in [Services -> States]
      /\ state'[p] = "INACTIVE"
      /\ \A q \in Services \ {p} : state'[q] = state[q]
  BY <1>1 DEF IInv, States
<1>3. QED
  BY <1>1, <1>2, StoppedKeeps DEF IInv

\* restartOne: a stop, and a start from what the stop leaves.
LEMMA RestartStep ==
    ASSUME IInv, NEW p \in Services, Restart(p)
    PROVE  IInv'
<1>1. CASE Stop(p)
  BY <1>1, StopStep
<1>2. CASE ~Stop(p)
  <2>1. quiet' = quiet \ {p} /\ p \in {"MQTT", "MDNS", "CRON"}
    BY Zenon, <1>2, ServicesAssumption DEF Restart
  <2>2. Holds(StoppedTasks(p), quiet \ {p})
    BY StoppedKeeps DEF Holds, IInv
  <2>3. CASE p = "MQTT"
    <3>1. StartMqtt(StoppedTasks(p), StoppedCached(p))
      BY <1>2, <2>3 DEF Restart
    <3>2. QED
      BY <2>1, <2>2, <2>3, <3>1, StartMqttStep
  <2>4. CASE p = "MDNS"
    <3>1. PICK ip \in BOOLEAN : StartMdns(StoppedTasks(p), FALSE, ip)
      BY Zenon, <1>2, <2>4 DEF Restart
    <3>2. state' = [state EXCEPT !["MDNS"] = "ACTIVE"]
      BY Zenon, <1>2, <2>4 DEF Restart
    <3>3. QED
      BY Zenon, <2>1, <2>2, <2>4, <3>1, <3>2, StartMdnsStep
  <2>5. CASE p = "CRON"
    <3>1. /\ tasks' = tasks /\ state' = [state EXCEPT ![p] = "ACTIVE"]
          /\ "stolen" \notin excused' => "stolen" \notin excused
      BY <1>2, <2>5 DEF Restart, StartCron
    <3>2. /\ state' \in [Services -> States]
          /\ \A q \in Services \ {p} : state'[q] = state[q]
      BY <3>1 DEF IInv, States
    <3>3. QED
      BY <2>1, <3>1, <3>2 DEF IInv
  <2>6. QED
    BY <2>1, <2>3, <2>4, <2>5
<1>3. QED
  BY <1>1, <1>2

\* DeaderKeeps for one slot.
LEMMA DeaderStep ==
    ASSUME NEW t, NEW x \in Slots, Table(t)
    PROVE  LET u == [t EXCEPT !.dead = @ \cup {x}]
           IN  /\ Table(u)
               /\ Agree(t) => Agree(u)
               /\ \A q \in Services : QuietIn(t, q) => QuietIn(u, q)
<1>1. {x} \in SUBSET Slots /\ [t EXCEPT !.dead = @ \cup {x}] = Deader(t, {x})
  BY DEF Deader
<1>2. QED
  BY <1>1, DeaderKeeps

\* The one-shot MQTT task: it starts the timer only if the service is active,
\* and otherwise only clears it, so a stopped service stays silent.
LEMMA RunInitStep ==
    ASSUME IInv, NEW s \in Slots, RunInit(s)
    PROVE  IInv'
<1> DEFINE r0 == Before(tasks, cached)
<1>1. PICK began \in {TRUE, FALSE}, memory \in {TRUE, FALSE} :
        /\ began => memory /\ state["MQTT"] = "ACTIVE"
        /\ LET r == IF memory THEN Interval(r0, "timer", began) ELSE r0
           IN  /\ tasks' = [r.t EXCEPT !.dead = @ \cup {s}]
               /\ excused' = excused \cup Stolen(r)
  BY Zenon DEF RunInit
<1> DEFINE r == IF memory THEN Interval(r0, "timer", began) ELSE r0
<1>2. /\ tasks' = [r.t EXCEPT !.dead = @ \cup {s}]
      /\ excused' = excused \cup Stolen(r)
      /\ state' = state /\ quiet' = quiet
  BY <1>1 DEF RunInit
<1>3. Keeps(tasks, r0)
  BY DEF Keeps, Before, IInv
<1>4. Keeps(tasks, r)
  <2>1. "timer" \in Intervals /\ began \in BOOLEAN
    BY Zenon DEF Intervals
  <2>2. Keeps(tasks, Interval(r0, "timer", began))
    <3> HIDE DEF r0
    <3>1. QED
      BY <1>3, <2>1, IntervalKeeps
  <2>3. QED
    BY <1>3, <2>2
<1>5. \A q \in quiet : QuietIn(tasks, q) => QuietIn(r.t, q)
  <2>1. CASE began
    <3>1. "MQTT" \notin quiet
      BY <1>1, <2>1 DEF IInv
    <3> HIDE DEF r
    <3>2. QED
      BY <1>4, <3>1 DEF Keeps, IInv
  <2>2. CASE ~began
    <3>1. r.t = tasks \/ r.t = ClearTask(tasks, cached["timer"])
      BY <2>2 DEF Before, Interval
    <3> HIDE DEF r
    <3>2. QED
      BY <3>1, ClearTaskKeeps DEF IInv
  <2>3. QED
    BY <2>1, <2>2
<1> HIDE DEF r, r0
<1>6. "stolen" \notin excused' => "stolen" \notin excused /\ ~r.x
  BY <1>2 DEF Stolen
<1>7. /\ Table(tasks')
      /\ Agree(r.t) => Agree(tasks')
      /\ \A q \in Services : QuietIn(r.t, q) => QuietIn(tasks', q)
  BY <1>2, <1>4, DeaderStep DEF Keeps
<1>8. QED
  BY Zenon, <1>2, <1>4, <1>5, <1>6, <1>7 DEF Keeps, IInv

\* Every step of the services keeps the invariant.
LEMMA NextStep ==
    ASSUME IInv, [Next]_vars
    PROVE  IInv'
<1>0. Table(tasks)
  BY DEF IInv
<1>1. CASE Boot
  <2>1. PICK i \in 1 .. Len(BootOrder) : Start(BootOrder[i])
    BY <1>1 DEF Boot
  <2>2. BootOrder[i] \in Services
    BY ServicesAssumption DEF BootOrder
  <2>3. QED
    BY <2>1, <2>2, StartStep
<1>2. CASE DropBroker
  <2>1. /\ tasks' = ClearTask(tasks, cached["timer"])
        /\ state' = state /\ quiet' = quiet /\ excused' = excused
    BY <1>2 DEF DropBroker
  <2>2. QED
    BY <1>0, <2>1, ClearTaskKeeps DEF IInv
<1>3. CASE GotIp
  <2>1. /\ state' = state /\ quiet' = quiet \ {"MDNS"}
        /\ "stolen" \notin excused' => "stolen" \notin excused
        /\ tasks' = tasks \/ tasks' = ServiceSet(tasks, "MDNS", "cert")
    BY <1>3 DEF GotIp, Ensured
  <2>2. "MDNS" \in Services /\ "cert" \in JobsOf("MDNS")
    BY ServicesAssumption DEF JobsOf
  <2>3. /\ Table(ServiceSet(tasks, "MDNS", "cert"))
        /\ Agree(tasks) => Agree(ServiceSet(tasks, "MDNS", "cert"))
        /\ \A q \in Services \ {"MDNS"} :
             QuietIn(tasks, q) => QuietIn(ServiceSet(tasks, "MDNS", "cert"), q)
    BY <1>0, <2>2, ServiceSetKeeps
  <2>4. QED
    BY <2>1, <2>3 DEF IInv
<1>4. CASE MinuteEvent \/ JobsDone \/ UNCHANGED vars
  <2>1. tasks' = tasks /\ state' = state /\ quiet' = quiet /\ excused' = excused
    BY <1>4 DEF MinuteEvent, JobsDone, vars
  <2>2. QED
    BY <2>1 DEF IInv
<1>5. ASSUME NEW p \in Services, StopOne(p) \/ StartOne(p) \/ RestartOne(p)
      PROVE  IInv'
  BY <1>5, StopStep, StartStep, RestartStep DEF StopOne, StartOne, RestartOne
<1>6. ASSUME NEW g \in BOOLEAN, ConfigChange(g)
      PROVE  IInv'
  <2>1. PICK pub \in PublishChoices, keep \in KeepChoices :
          /\ tasks' = Reconfigured(Before(tasks, cached), g, pub, keep).t
          /\ excused' = excused \cup
                Stolen(Reconfigured(Before(tasks, cached), g, pub, keep))
    BY <1>6 DEF ConfigChange
  <2>2. quiet' = quiet \ {"MQTT"} /\ state' = state
    BY <1>6 DEF ConfigChange
  <2>3. pub \in BOOLEAN /\ keep \in BOOLEAN
    BY ServicesAssumption
  <2>4. Holds(tasks, quiet \ {"MQTT"})
    BY DEF Holds, IInv
  <2>5. state' \in [Services -> States]
    BY <2>2 DEF IInv
  <2>6. QED
    BY <2>1, <2>2, <2>3, <2>4, <2>5, ReconfigureStep
<1>7. ASSUME NEW s \in Slots, Kill(s) \/ RunCert(s)
      PROVE  IInv'
  <2>1. /\ tasks' = [tasks EXCEPT !.dead = @ \cup {s}]
        /\ state' = state /\ quiet' = quiet
        /\ "stolen" \notin excused' => "stolen" \notin excused
    BY <1>7 DEF Kill, RunCert
  <2>2. /\ Table(tasks')
        /\ Agree(tasks) => Agree(tasks')
        /\ \A q \in Services : QuietIn(tasks, q) => QuietIn(tasks', q)
    BY <1>0, <2>1, DeaderStep
  <2>3. QED
    BY <2>1, <2>2 DEF IInv
<1>8. ASSUME NEW s \in Slots, Reap(s)
      PROVE  IInv'
  <2>1. /\ tasks' = ReapTask(tasks, s)
        /\ state' = state /\ quiet' = quiet /\ excused' = excused
    BY <1>8 DEF Reap
  <2>2. QED
    BY <1>0, <2>1, ReapTaskKeeps DEF IInv
<1>9. QED
  BY <1>1, <1>2, <1>3, <1>4, <1>5, <1>6, <1>7, <1>8, RunInitStep DEF Next

\* The empty table at power-on satisfies it.
LEMMA InitHolds ==
    Init => IInv
<1>1. SUFFICES ASSUME Init PROVE IInv
  OBVIOUS
<1>2. /\ tasks = NoTasks /\ quiet = {} /\ state = [p \in Services |-> "BOOT"]
  BY <1>1 DEF Init
<1>3. NoTasks \in TaskRecords
  <2>1. 1 \in TaskIdSet /\ <<>> \in Seq(TaskIdSet)
    BY IdsAssumption, SlotsAssumption DEF TaskIdSet
  <2>2. QED
    BY <2>1 DEF NoTasks, TaskRecords
<1>4. Table(NoTasks)
  BY Zenon, <1>3, JobsOfFacts DEF Table, NoTasks, IdsUnique, FreeIsBare, LiveTracked
<1>5. Agree(NoTasks)
  <2>1. \A p \in Services : NoTasks.tracked[p] = <<>> /\ NoTasks.routine[p] = Nothing
    BY DEF NoTasks
  <2>2. \A s \in Slots : NoTasks.hook[s] = None
    BY DEF NoTasks
  <2>3. QED
    BY <2>1, <2>2, JobsOfFacts DEF Agree, ListedOnce, ListedHeld, HookListed,
                                   RoutineFirst, HookOwns
<1>6. QED
  BY <1>2, <1>4, <1>5 DEF IInv, States

\* The invariant holds throughout.
THEOREM ServicesInvariant == Spec => []IInv
  BY InitHolds, NextStep, PTL DEF Spec

\* ServiceProvider's lists, the finalizers and the task table always agree, until
\* an update takes over a task through an id kept past a kill.
THEOREM TrackedAgreeAlways == Spec => []TrackedAgree
<1>1. ASSUME IInv PROVE TrackedAgree
  <2>1. SUFFICES ASSUME Agree(tasks), Table(tasks), NEW p \in Services
        PROVE /\ \A i, k \in 1 .. Len(tasks.tracked[p]) :
                   tasks.tracked[p][i] = tasks.tracked[p][k] => i = k
              /\ \A i \in 1 .. Len(tasks.tracked[p]) :
                   /\ Registered(tasks, tasks.tracked[p][i])
                   /\ tasks.hook[SlotOf(tasks, tasks.tracked[p][i])] = p
              /\ \A s \in Slots : tasks.hook[s] = p => Tracks(tasks, p, tasks.ids[s])
              /\ tasks.routine[p] = IF tasks.tracked[p] = <<>> THEN Nothing
                                    ELSE tasks.tracked[p][1]
    BY <1>1 DEF TrackedAgree, IInv
  <2>2. ASSUME NEW i \in 1 .. Len(tasks.tracked[p])
        PROVE  /\ Registered(tasks, tasks.tracked[p][i])
               /\ tasks.hook[SlotOf(tasks, tasks.tracked[p][i])] = p
    <3>1. PICK s \in Slots : tasks.ids[s] = tasks.tracked[p][i] /\ tasks.hook[s] = p
      BY <2>1 DEF Agree, ListedHeld
    <3>2. IdsUnique(tasks) /\ tasks.ids[s] # Free
      BY <2>1, <3>1, JobsOfFacts DEF Table, FreeIsBare
    <3>3. Registered(tasks, tasks.ids[s]) /\ SlotOf(tasks, tasks.ids[s]) = s
      BY <3>2, SlotOfUnique
    <3>4. QED
      BY <3>1, <3>3
  <2>3. QED
    BY <2>1, <2>2 DEF Agree, ListedOnce, HookListed, RoutineFirst
<1>2. QED
  BY <1>1, ServicesInvariant, PTL

\* After stopService a service runs nothing until it is asked again, except
\* tasks its full list refused.
THEOREM StoppedStaysQuietAlways == Spec => []StoppedStaysQuiet
<1>1. IInv => StoppedStaysQuiet
  BY DEF IInv, StoppedStaysQuiet, QuietIn, Live
<1>2. QED
  BY <1>1, ServicesInvariant, PTL

-----------------------------------------------------------------------------
(* The listeners *)

Entries == [event : {"GOT_IP", "MINUTE", NoEvent},
            id : (1 .. MaxListenerId) \cup {NoListener}]

Bus(b) ==
    /\ b \in [slots : Seq(Entries), next : 1 .. MaxListenerId]
    /\ Len(b.slots) <= MaxListeners

\* The least slot of a set of them is one of them.
LEMMA LeastSlot ==
    ASSUME NEW b, Bus(b), NEW S, S \subseteq DOMAIN b.slots, S # {}
    PROVE  Min(S) \in S
<1>1. DOMAIN b.slots \subseteq Nat
  BY DEF Bus
<1>2. \E n \in S : \A m \in S : n <= m
  BY <1>1, LeastNat
<1>3. QED
  BY <1>2 DEF Min

\* add_event_listener: a new entry m in a released slot or at the end, every
\* other entry as it was; nothing new when there is no room.
LEMMA AddListenerFacts ==
    ASSUME NEW b, Bus(b), NEW e \in {"GOT_IP", "MINUTE"}
    PROVE  /\ Bus(AddListener(b, e))
           /\ Len(b.slots) <= Len(AddListener(b, e).slots)
           /\ ~HasRoom(b) => AddListener(b, e).slots = b.slots
           /\ HasRoom(b) =>
                \E m \in DOMAIN AddListener(b, e).slots :
                   /\ AddListener(b, e).slots[m] = [event |-> e, id |-> b.next]
                   /\ DOMAIN AddListener(b, e).slots = DOMAIN b.slots \cup {m}
                   /\ m \in DOMAIN b.slots => b.slots[m].event = NoEvent
                   /\ \A k \in DOMAIN b.slots :
                        k # m => AddListener(b, e).slots[k] = b.slots[k]
<1> DEFINE x == [event |-> e, id |-> b.next]
           u == AddListener(b, e)
           m0 == Min(Listening(b, NoEvent))
           New(m) == /\ u.slots[m] = x
                     /\ DOMAIN u.slots = DOMAIN b.slots \cup {m}
                     /\ m \in DOMAIN b.slots => b.slots[m].event = NoEvent
                     /\ \A k \in DOMAIN b.slots : k # m => u.slots[k] = b.slots[k]
<1>0. SUFFICES /\ Bus(u)
               /\ Len(b.slots) <= Len(u.slots)
               /\ ~HasRoom(b) => u.slots = b.slots
               /\ HasRoom(b) => \E m \in DOMAIN u.slots : New(m)
  BY Zenon
<1>1. /\ b.slots \in Seq(Entries) /\ b.next \in 1 .. MaxListenerId
      /\ Len(b.slots) \in Nat /\ DOMAIN b.slots = 1 .. Len(b.slots)
      /\ Len(b.slots) <= MaxListeners /\ x \in Entries
  BY LenProperties DEF Bus, Entries
<1>2. /\ u.next = IF b.next >= MaxListenerId THEN 1 ELSE b.next + 1
      /\ u = [slots |-> u.slots, next |-> u.next]
      /\ u.slots = IF Listening(b, NoEvent) # {} THEN [b.slots EXCEPT ![m0] = x]
                   ELSE IF HasRoom(b) THEN Append(b.slots, x) ELSE b.slots
  BY Zenon DEF AddListener
<1>3. u.next \in 1 .. MaxListenerId
  BY <1>1, <1>2, BusAssumption
<1>m. Listening(b, NoEvent) # {} => m0 \in DOMAIN b.slots /\ b.slots[m0].event = NoEvent
  <2>1. Listening(b, NoEvent) \subseteq DOMAIN b.slots
    BY DEF Listening
  <2>2. Listening(b, NoEvent) # {} => m0 \in Listening(b, NoEvent)
    BY <2>1, LeastSlot
  <2>3. QED
    BY <2>2 DEF Listening
<1> HIDE DEF x, u, m0
<1>4. CASE Listening(b, NoEvent) # {}
  <2>1. u.slots = [b.slots EXCEPT ![m0] = x] /\ HasRoom(b)
    BY <1>2, <1>4 DEF HasRoom
  <2>2. /\ u.slots \in Seq(Entries) /\ Len(u.slots) = Len(b.slots)
        /\ DOMAIN u.slots = DOMAIN b.slots
        /\ u.slots[m0] = x
        /\ \A k \in DOMAIN b.slots : k # m0 => u.slots[k] = b.slots[k]
    BY <1>1, <1>4, <1>m, <2>1, ExceptSeq
  <2>3. Bus(u)
    BY Zenon, <1>1, <1>2, <1>3, <2>2 DEF Bus
  <2>4. DOMAIN u.slots = DOMAIN b.slots \cup {m0} /\ m0 \in DOMAIN u.slots
    BY <1>4, <1>m, <2>2
  <2>5. Len(b.slots) <= Len(u.slots)
    BY <1>1, <2>2
  <2>6. New(m0)
    BY Zenon, <1>4, <1>m, <2>2, <2>4
  <2> HIDE DEF New
  <2>7. QED
    BY Zenon, <2>1, <2>3, <2>4, <2>5, <2>6
<1>5. CASE Listening(b, NoEvent) = {} /\ HasRoom(b)
  <2>1. u.slots = Append(b.slots, x) /\ Len(b.slots) < MaxListeners
    BY <1>2, <1>5 DEF HasRoom
  <2> DEFINE n == Len(b.slots) + 1
  <2>2. /\ u.slots \in Seq(Entries) /\ Len(u.slots) = n
        /\ DOMAIN u.slots = 1 .. n /\ u.slots[n] = x
        /\ \A k \in 1 .. Len(b.slots) : u.slots[k] = b.slots[k]
    BY <1>1, <2>1, AppendProperties, LenProperties
  <2>3. Bus(u)
    <3>1. Len(u.slots) <= MaxListeners
      BY <1>1, <2>1, <2>2, BusAssumption
    <3>2. QED
      BY Zenon, <1>2, <1>3, <2>2, <3>1 DEF Bus
  <2>4. /\ DOMAIN u.slots = DOMAIN b.slots \cup {n} /\ n \in DOMAIN u.slots
        /\ n \notin DOMAIN b.slots /\ Len(b.slots) <= Len(u.slots)
    BY <1>1, <2>2
  <2> HIDE DEF n
  <2>5. New(n)
    BY Zenon, <1>1, <2>2, <2>4
  <2> HIDE DEF New
  <2>6. QED
    BY Zenon, <1>5, <2>3, <2>4, <2>5
<1>6. CASE ~HasRoom(b)
  <2>1. u.slots = b.slots
    BY <1>2, <1>6 DEF HasRoom
  <2>2. Bus(u)
    BY Zenon, <1>1, <1>2, <1>3, <2>1 DEF Bus
  <2>3. QED
    BY <1>1, <1>6, <2>1, <2>2
<1>7. QED
  BY Zenon, <1>4, <1>5, <1>6

\* remove_event_listener: one entry with the id is released, the others stay.
LEMMA RemoveListenerFacts ==
    ASSUME NEW b, Bus(b), NEW id
    PROVE  /\ Bus(RemoveListener(b, id))
           /\ Len(RemoveListener(b, id).slots) = Len(b.slots)
           /\ id = NoListener => RemoveListener(b, id) = b
           /\ id # NoListener /\ Named(b, id) # {} =>
                /\ DOMAIN RemoveListener(b, id).slots = DOMAIN b.slots
                /\ \E m \in Named(b, id) :
                     /\ RemoveListener(b, id).slots[m].event = NoEvent
                     /\ \A k \in DOMAIN b.slots :
                          k # m => RemoveListener(b, id).slots[k] = b.slots[k]
<1>1. CASE id = NoListener \/ Named(b, id) = {}
  BY <1>1 DEF RemoveListener
<1>2. CASE id # NoListener /\ Named(b, id) # {}
  <2> DEFINE x == [event |-> NoEvent, id |-> NoListener]
             u == RemoveListener(b, id)
             m0 == Min(Named(b, id))
  <2>1. /\ b \in [slots : Seq(Entries), next : 1 .. MaxListenerId]
        /\ b.slots \in Seq(Entries) /\ Len(b.slots) <= MaxListeners
        /\ x \in Entries /\ x.event = NoEvent
    BY DEF Bus, Entries
  <2>2. m0 \in Named(b, id) /\ Named(b, id) \subseteq DOMAIN b.slots
    BY <1>2, LeastSlot DEF Named
  <2>3. u = [b EXCEPT !.slots[m0] = x]
    BY <1>2 DEF RemoveListener
  <2> HIDE DEF x, u, m0
  <2>4. /\ u.slots = [b.slots EXCEPT ![m0] = x] /\ u.next = b.next
        /\ u = [slots |-> u.slots, next |-> u.next]
    BY Zenon, <2>1, <2>3
  <2>5. /\ u.slots \in Seq(Entries) /\ Len(u.slots) = Len(b.slots)
        /\ DOMAIN u.slots = DOMAIN b.slots
        /\ u.slots[m0] = x
        /\ \A k \in DOMAIN b.slots : k # m0 => u.slots[k] = b.slots[k]
    BY <2>1, <2>2, <2>4, ExceptSeq
  <2>6. Bus(u)
    BY <2>1, <2>4, <2>5 DEF Bus
  <2>7. QED
    BY <1>2, <2>1, <2>2, <2>5, <2>6 DEF u
<1>3. QED
  BY <1>1, <1>2

-----------------------------------------------------------------------------
(* Cron's listener *)

\* cronId names the one listener of an active Cron, and nobody listens for one
\* that is not
Heard(b, id, active) ==
    IF active
    THEN id # NoListener /\ \E i : Named(b, id) = {i} /\ Listening(b, "MINUTE") = {i}
    ELSE id = NoListener /\ Listening(b, "MINUTE") = {}

Unexcused == excused \cap {"full_bus", "clash"} = {}

BusInv ==
    /\ Bus(bus)
    /\ at \in 0 .. Len(bus.slots)
    /\ Unexcused => Heard(bus, cronId, state["CRON"] = "ACTIVE")

\* Another service's listener, with an id of its own, leaves Cron's alone.
LEMMA HeardBeside ==
    ASSUME NEW b, Bus(b), NEW id, NEW active, Heard(b, id, active),
           HasRoom(b) => Named(b, b.next) = {}
    PROVE  Heard(AddListener(b, "GOT_IP"), id, active)
<1> DEFINE u == AddListener(b, "GOT_IP")
<1>1. CASE ~HasRoom(b)
  <2>1. u.slots = b.slots
    BY Zenon, <1>1, AddListenerFacts
  <2>2. QED
    BY <2>1 DEF Heard, Named, Listening
<1>2. CASE HasRoom(b)
  <2>1. PICK m \in DOMAIN u.slots :
           /\ u.slots[m] = [event |-> "GOT_IP", id |-> b.next]
           /\ DOMAIN u.slots = DOMAIN b.slots \cup {m}
           /\ m \in DOMAIN b.slots => b.slots[m].event = NoEvent
           /\ \A k \in DOMAIN b.slots : k # m => u.slots[k] = b.slots[k]
    BY Zenon, <1>2, AddListenerFacts
  <2> HIDE DEF u
  <2>2. u.slots[m].event = "GOT_IP" /\ u.slots[m].id = b.next /\ NoEvent # "MINUTE"
    BY <2>1 DEF NoEvent
  <2>3. Listening(u, "MINUTE") = Listening(b, "MINUTE")
    <3>1. \A k : k \in Listening(u, "MINUTE") <=> k \in Listening(b, "MINUTE")
      BY Zenon, <2>1, <2>2 DEF Listening
    <3>2. QED
      BY Zenon, <3>1
  <2>4. ASSUME NEW i, Named(b, id) = {i}, Listening(b, "MINUTE") = {i}
        PROVE  Named(u, id) = {i}
    <3>1. i \in DOMAIN b.slots /\ b.slots[i].id = id /\ b.slots[i].event = "MINUTE"
      BY <2>4 DEF Named, Listening
    <3>2. i # m /\ id # b.next
      BY <1>2, <2>1, <2>2, <3>1 DEF Named
    <3>3. \A k \in DOMAIN u.slots : u.slots[k].id = id => k = i
      BY <2>1, <2>2, <2>4, <3>2 DEF Named
    <3>4. QED
      BY <2>1, <3>1, <3>2, <3>3 DEF Named
  <2>5. Heard(u, id, active)
    BY <2>3, <2>4 DEF Heard
  <2>6. QED
    BY <2>5 DEF u
<1>3. QED
  BY <1>1, <1>2

\* StartCron, from a list nobody listens to the minute in.
LEMMA HeardStart ==
    ASSUME NEW b, Bus(b), Listening(b, "MINUTE") = {}, HasRoom(b), Named(b, b.next) = {}
    PROVE  Heard(AddListener(b, "MINUTE"), b.next, TRUE)
<1> DEFINE u == AddListener(b, "MINUTE")
<1>1. PICK m \in DOMAIN u.slots :
         /\ u.slots[m] = [event |-> "MINUTE", id |-> b.next]
         /\ DOMAIN u.slots = DOMAIN b.slots \cup {m}
         /\ \A k \in DOMAIN b.slots : k # m => u.slots[k] = b.slots[k]
  BY Zenon, AddListenerFacts
<1> HIDE DEF u
<1>2. u.slots[m].event = "MINUTE" /\ u.slots[m].id = b.next
  BY <1>1
<1>3. Listening(u, "MINUTE") = {m}
  BY <1>1, <1>2 DEF Listening
<1>4. Named(u, b.next) = {m}
  BY <1>1, <1>2 DEF Named
<1>5. b.next # NoListener
  BY BusAssumption DEF Bus, NoListener
<1>6. Heard(u, b.next, TRUE)
  BY <1>3, <1>4, <1>5 DEF Heard
<1>7. QED
  BY Zenon, <1>6 DEF u

\* stopService of Cron leaves nobody listening to the minute.
LEMMA HeardStop ==
    ASSUME NEW b, Bus(b), NEW id, NEW active, Heard(b, id, active)
    PROVE  Heard(RemoveListener(b, id), NoListener, FALSE)
<1> DEFINE u == RemoveListener(b, id)
<1>1. CASE id = NoListener
  BY <1>1, RemoveListenerFacts DEF Heard
<1>2. CASE id # NoListener
  <2>1. PICK i : Named(b, id) = {i} /\ Listening(b, "MINUTE") = {i}
    BY <1>2 DEF Heard
  <2>2. /\ DOMAIN u.slots = DOMAIN b.slots
        /\ u.slots[i].event = NoEvent
        /\ \A k \in DOMAIN b.slots : k # i => u.slots[k] = b.slots[k]
    <3>1. Named(b, id) # {} /\ \A m \in Named(b, id) : m = i
      BY <2>1
    <3>2. QED
      BY Zenon, <1>2, <3>1, RemoveListenerFacts
  <2> HIDE DEF u
  <2>3. Listening(u, "MINUTE") = {}
    BY <2>1, <2>2 DEF Listening, NoEvent
  <2>4. QED
    BY <2>3 DEF Heard, u
<1>3. QED
  BY Zenon, <1>1, <1>2

\* A step that leaves the listeners and Cron alone.
LEMMA BusUntouched ==
    ASSUME BusInv, UNCHANGED <<bus, cronId>>, state'["CRON"] = state["CRON"],
           excused \subseteq excused', at' \in 0 .. Len(bus.slots)
    PROVE  BusInv'
<1>1. Unexcused' => Unexcused
  BY DEF Unexcused
<1>2. QED
  BY Zenon, <1>1 DEF BusInv

\* initService of mDNS, from the list as it is.
LEMMA MdnsBus ==
    ASSUME BusInv, NEW t, NEW p, NEW ip, StartMdns(t, p, ip),
           UNCHANGED <<cronId, at>>, state'["CRON"] = state["CRON"]
    PROVE  BusInv'
<1>1. /\ bus' = AddListener(bus, "GOT_IP") /\ excused \subseteq excused'
      /\ Named(bus, AddedId(bus)) # {} => "clash" \in excused'
  BY Zenon DEF StartMdns
<1>2. Bus(bus) /\ at \in 0 .. Len(bus.slots)
  BY DEF BusInv
<1>3. Bus(bus') /\ Len(bus.slots) <= Len(bus'.slots) /\ Len(bus'.slots) \in Nat
  BY Zenon, <1>1, <1>2, AddListenerFacts, LenProperties DEF Bus
<1>4. at' \in 0 .. Len(bus'.slots)
  <2>1. Len(bus.slots) \in Nat
    BY <1>2, LenProperties DEF Bus
  <2>2. QED
    BY <1>2, <1>3, <2>1
<1>5. ASSUME Unexcused'
      PROVE  Heard(bus', cronId', state'["CRON"] = "ACTIVE")
  <2>1. Unexcused /\ Named(bus, AddedId(bus)) = {}
    BY <1>1, <1>5 DEF Unexcused
  <2>2. HasRoom(bus) => Named(bus, bus.next) = {}
    BY <2>1 DEF AddedId
  <2>3. Heard(bus, cronId, state["CRON"] = "ACTIVE")
    BY <2>1 DEF BusInv
  <2>4. QED
    BY Zenon, <1>1, <1>2, <2>2, <2>3, HeardBeside
<1>6. QED
  BY <1>3, <1>4, <1>5 DEF BusInv

\* initService of Cron, from a list b in which nobody hears the minute.
LEMMA CronBus ==
    ASSUME NEW b, Bus(b), Len(bus.slots) <= Len(b.slots), BusInv,
           Unexcused => Listening(b, "MINUTE") = {},
           StartCron(b), at' = at, state'["CRON"] = "ACTIVE"
    PROVE  BusInv'
<1>1. /\ bus' = AddListener(b, "MINUTE") /\ cronId' = AddedId(b) /\ excused \subseteq excused'
      /\ ~HasRoom(b) => "full_bus" \in excused'
      /\ HasRoom(b) /\ Named(b, AddedId(b)) # {} => "clash" \in excused'
  BY Zenon DEF StartCron
<1>2. Bus(bus') /\ Len(b.slots) <= Len(bus'.slots)
  BY Zenon, <1>1, AddListenerFacts
<1>3. at' \in 0 .. Len(bus'.slots)
  <2>1. Len(b.slots) \in Nat /\ Len(bus.slots) \in Nat /\ Len(bus'.slots) \in Nat
    BY <1>2, LenProperties DEF Bus, BusInv
  <2>2. QED
    BY <1>2, <2>1 DEF BusInv
<1>4. ASSUME Unexcused'
      PROVE  Heard(bus', cronId', TRUE)
  <2>1. Unexcused /\ HasRoom(b) /\ Named(b, AddedId(b)) = {}
    BY <1>1, <1>4 DEF Unexcused
  <2>2. AddedId(b) = b.next
    BY <2>1 DEF AddedId
  <2>3. QED
    BY Zenon, <1>1, <2>1, <2>2, HeardStart
<1>5. QED
  BY Zenon, <1>2, <1>3, <1>4 DEF BusInv

\* what a stop leaves of the listeners, whichever service stops
LEMMA StoppedBusFacts ==
    ASSUME BusInv, NEW p
    PROVE  /\ Bus(StoppedBus(p)) /\ Len(StoppedBus(p).slots) = Len(bus.slots)
           /\ p = "CRON" /\ Unexcused => Heard(StoppedBus(p), NoListener, FALSE)
<1>1. Bus(bus) /\ (Unexcused => Heard(bus, cronId, state["CRON"] = "ACTIVE"))
  BY DEF BusInv
<1>2. CASE p = "CRON"
  <2>1. StoppedBus(p) = RemoveListener(bus, cronId)
    BY <1>2 DEF StoppedBus
  <2>2. Bus(StoppedBus(p)) /\ Len(StoppedBus(p).slots) = Len(bus.slots)
    BY <1>1, <2>1, RemoveListenerFacts
  <2>3. Unexcused => Heard(StoppedBus(p), NoListener, FALSE)
    <3> DEFINE act == state["CRON"] = "ACTIVE"
    <3>1. Unexcused => Heard(bus, cronId, act)
      BY <1>1
    <3> HIDE DEF act
    <3>2. Unexcused => Heard(RemoveListener(bus, cronId), NoListener, FALSE)
      BY Zenon, <1>1, <3>1, HeardStop
    <3>3. QED
      BY Zenon, <2>1, <3>2
  <2>4. QED
    BY Zenon, <2>2, <2>3
<1>3. CASE p # "CRON"
  BY Zenon, <1>1, <1>3 DEF StoppedBus
<1>4. QED
  BY Zenon, <1>2, <1>3

LEMMA StopBus ==
    ASSUME BusInv, state \in [Services -> States], NEW p \in Services, Stop(p), at' = at
    PROVE  BusInv'
<1>1. /\ bus' = StoppedBus(p) /\ excused' = excused
      /\ cronId' = IF p = "CRON" THEN NoListener ELSE cronId
      /\ state' = [state EXCEPT ![p] = "INACTIVE"]
  BY DEF Stop
<1>2. CASE p = "CRON"
  <2>1. state'["CRON"] # "ACTIVE"
    BY <1>1, <1>2
  <2>2. QED
    BY Zenon, <1>1, <1>2, <2>1, StoppedBusFacts DEF BusInv, Unexcused
<1>3. CASE p # "CRON"
  <2>1. bus' = bus /\ cronId' = cronId /\ state'["CRON"] = state["CRON"]
    BY <1>1, <1>3, ServicesAssumption DEF StoppedBus
  <2>2. at' \in 0 .. Len(bus.slots)
    BY DEF BusInv
  <2>3. QED
    BY <1>1, <2>1, <2>2, BusUntouched
<1>4. QED
  BY <1>2, <1>3

\* startService, of a service that is not active.
LEMMA StartBus ==
    ASSUME BusInv, state \in [Services -> States], NEW p \in Services, Start(p),
           state[p] # "ACTIVE", at' = at
    PROVE  BusInv'
<1>0. at' \in 0 .. Len(bus.slots) /\ p \in {"MQTT", "MDNS", "CRON"}
  BY ServicesAssumption DEF BusInv
<1>1. CASE p = "MQTT"
  <2>1. bus' = bus /\ cronId' = cronId /\ StartMqtt(tasks, cached)
    BY <1>1 DEF Start
  <2>2. state'["CRON"] = state["CRON"] /\ excused \subseteq excused'
    BY Zenon, <2>1, ServicesAssumption DEF StartMqtt
  <2>3. QED
    BY <1>0, <2>1, <2>2, BusUntouched
<1>2. CASE p = "MDNS"
  <2>1. /\ \E ip \in BOOLEAN : StartMdns(tasks, pending, ip)
        /\ state' = [state EXCEPT ![p] = "ACTIVE"] /\ cronId' = cronId
    BY <1>2 DEF Start
  <2>2. state'["CRON"] = state["CRON"]
    BY <1>2, <2>1, ServicesAssumption
  <2>3. QED
    BY <2>1, <2>2, MdnsBus
<1>3. CASE p = "CRON"
  <2>1. StartCron(bus) /\ state' = [state EXCEPT ![p] = "ACTIVE"]
    BY <1>3 DEF Start
  <2>2. state'["CRON"] = "ACTIVE"
    BY <1>3, <2>1
  <2>3. Bus(bus) /\ Len(bus.slots) <= Len(bus.slots)
    BY LenProperties DEF BusInv, Bus
  <2>4. Unexcused => Listening(bus, "MINUTE") = {}
    BY <1>3 DEF BusInv, Heard
  <2>5. QED
    BY <2>1, <2>2, <2>3, <2>4, CronBus
<1>4. QED
  BY <1>0, <1>1, <1>2, <1>3

\* restartOne: Cron's own jobs may ask for it, in the middle of the dispatch.
LEMMA RestartBus ==
    ASSUME BusInv, state \in [Services -> States], NEW p \in Services, Restart(p), at' = at
    PROVE  BusInv'
<1>0. at' \in 0 .. Len(bus.slots) /\ p \in {"MQTT", "MDNS", "CRON"}
  BY ServicesAssumption DEF BusInv
<1>1. CASE Stop(p)
  BY <1>1, StopBus
<1>2. CASE ~Stop(p) /\ p = "MQTT"
  <2>1. bus' = bus /\ cronId' = cronId /\ StartMqtt(StoppedTasks(p), StoppedCached(p))
    BY <1>2 DEF Restart
  <2>2. state'["CRON"] = state["CRON"] /\ excused \subseteq excused'
    BY Zenon, <2>1, ServicesAssumption DEF StartMqtt
  <2>3. QED
    BY <1>0, <2>1, <2>2, BusUntouched
<1>3. CASE ~Stop(p) /\ p = "MDNS"
  <2>1. /\ \E ip \in BOOLEAN : StartMdns(StoppedTasks(p), FALSE, ip)
        /\ state' = [state EXCEPT ![p] = "ACTIVE"] /\ cronId' = cronId
    BY Zenon, <1>3 DEF Restart
  <2>2. state'["CRON"] = state["CRON"]
    BY <1>3, <2>1, ServicesAssumption
  <2>3. QED
    BY Zenon, <2>1, <2>2, MdnsBus
<1>4. CASE ~Stop(p) /\ p = "CRON"
  <2>1. StartCron(StoppedBus(p)) /\ state' = [state EXCEPT ![p] = "ACTIVE"]
    BY <1>4 DEF Restart
  <2>2. state'["CRON"] = "ACTIVE"
    BY <1>4, <2>1
  <2>3. /\ Bus(StoppedBus(p)) /\ Len(bus.slots) <= Len(StoppedBus(p).slots)
        /\ Unexcused => Listening(StoppedBus(p), "MINUTE") = {}
    BY <1>4, StoppedBusFacts, LenProperties DEF Heard, Bus
  <2>4. QED
    BY Zenon, <2>1, <2>2, <2>3, CronBus
<1>5. QED
  BY <1>0, <1>1, <1>2, <1>3, <1>4

\* execute_event goes on to a slot of the list, or ends.
LEMMA NextHandlerFacts ==
    ASSUME NEW b, Bus(b), NEW e, NEW i
    PROVE  NextHandler(b, e, i) \in 0 .. Len(b.slots)
<1>1. DOMAIN b.slots = 1 .. Len(b.slots) /\ Len(b.slots) \in Nat
  BY LenProperties DEF Bus
<1> DEFINE S == {k \in Listening(b, e) : k >= i}
<1>2. S \subseteq DOMAIN b.slots
  BY DEF Listening
<1>3. S # {} => Min(S) \in S
  BY <1>2, LeastSlot
<1>4. QED
  BY <1>1, <1>2, <1>3 DEF NextHandler

LEMMA BusStep ==
    ASSUME IInv, BusInv, [Next]_vars
    PROVE  BusInv'
<1>0. /\ state \in [Services -> States] /\ Bus(bus)
      /\ at \in 0 .. Len(bus.slots)
  BY DEF IInv, BusInv
<1>1. CASE Boot
  <2>1. PICK i \in 1 .. Len(BootOrder) : state[BootOrder[i]] = "BOOT" /\ Start(BootOrder[i])
    BY <1>1 DEF Boot
  <2>2. BootOrder[i] \in Services
    BY ServicesAssumption DEF BootOrder
  <2>3. at' = at /\ state[BootOrder[i]] # "ACTIVE"
    BY <1>1, <2>1 DEF Boot
  <2>4. QED
    BY <1>0, <2>1, <2>2, <2>3, StartBus
<1>2. ASSUME NEW p \in Services, StopOne(p) \/ StartOne(p) \/ RestartOne(p)
      PROVE  BusInv'
  BY <1>0, <1>2, StopBus, StartBus, RestartBus DEF StopOne, StartOne, RestartOne
<1>3. CASE MinuteEvent \/ JobsDone
  <2>1. /\ bus' = bus /\ cronId' = cronId /\ state' = state /\ excused' = excused
        /\ \E i : at' = NextHandler(bus, "MINUTE", i)
    BY Zenon, <1>3 DEF MinuteEvent, JobsDone
  <2>2. at' \in 0 .. Len(bus.slots)
    BY <1>0, <2>1, NextHandlerFacts
  <2>3. QED
    BY <2>1, <2>2, BusUntouched
<1>4. ASSUME NEW s, NEW g,
             \/ DropBroker \/ GotIp \/ ConfigChange(g) \/ Kill(s) \/ RunInit(s)
             \/ RunCert(s) \/ Reap(s) \/ UNCHANGED vars
      PROVE  BusInv'
  <2>1. /\ bus' = bus /\ cronId' = cronId /\ state' = state /\ at' = at
        /\ excused \subseteq excused'
    BY Zenon, <1>4 DEF DropBroker, GotIp, ConfigChange, Kill, RunInit, RunCert, Reap, vars
  <2>2. QED
    BY <1>0, <2>1, BusUntouched
<1>5. QED
  BY <1>1, <1>2, <1>3, <1>4 DEF Next

\* add_event_listener and remove_event_listener keep the list in its bounds, and
\* the dispatch on the list, while Cron's jobs stop and restart Cron itself.
THEOREM BusInvariant == Spec => []BusInv
<1>1. Init => BusInv
  <2> SUFFICES ASSUME Init
               PROVE  BusInv
    OBVIOUS
  <2>1. Bus(EmptyBus) /\ Len(EmptyBus.slots) = 0
    BY BusAssumption DEF EmptyBus, Bus
  <2>2. Listening(EmptyBus, "MINUTE") = {}
    BY DEF EmptyBus, Listening
  <2>3. state["CRON"] # "ACTIVE"
    BY ServicesAssumption DEF Init
  <2>4. QED
    BY <2>1, <2>2, <2>3 DEF Init, BusInv, Heard
<1>2. IInv /\ BusInv /\ [Next]_vars => BusInv'
  BY BusStep
<1>3. QED
  BY ServicesInvariant, <1>1, <1>2, PTL DEF Spec

\* CronScheduler: an active Cron has the one listener its id names and a stopped
\* one has none, for any number of listeners and ids, also when Cron's own jobs
\* restart it, unless the list was full or an id was handed out twice.
THEOREM CronListensAlways == Spec => []CronListens
<1>1. BusInv => CronListens
  BY DEF BusInv, CronListens, Heard, Unexcused
<1>2. QED
  BY BusInvariant, <1>1, PTL
=============================================================================
