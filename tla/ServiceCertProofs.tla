-------------------------- MODULE ServiceCertProofs -------------------------
(***************************************************************************)
(* CertNotLost and the ranges of Services, for every table size, id limit, *)
(* MAX_SERVICE_TASKS and number of operations.                             *)
(*                                                                         *)
(* The certificate task must outlive everything MQTT does by the ids it    *)
(* keeps.  CertInv says why it does: until somebody kills a task, each id  *)
(* MQTT keeps is that of a living task of its own (Owned), so a clear or   *)
(* an update reaches no task of another service (Stays), and, as no update *)
(* takes over a task, a stop ends only the stopped service's own.          *)
(***************************************************************************)
EXTENDS ServicesProofs

Short(t) == \A p \in Services : Len(t.tracked[p]) <= MaxServiceTasks

\* what of a table the certificate depends on: no free slot waits for a reap
Fits(t) == Short(t) /\ \A s \in Slots : t.ids[s] = Free => s \notin t.dead

Cells == [Intervals -> TaskIdSet \cup {0, Nothing}]

\* each id the MQTT service keeps is that of its own, living task
Owned(t, c) ==
    \A j \in Intervals :
        \/ c[j] \in {0, Nothing}
        \/ \E s \in Slots : t.ids[s] = c[j] /\ t.job[s] = j /\ s \notin t.dead

HasCert(t) == \E s \in Slots : t.job[s] = "cert" /\ s \notin t.dead

\* the living tasks with a job of J go on as they were
Stays(t, u, J) ==
    \A s \in Slots : t.job[s] \in J /\ s \notin t.dead =>
        u.ids[s] = t.ids[s] /\ u.job[s] = t.job[s] /\ s \notin u.dead

\* the table's slots are as they were
SlotsKept(t, u) ==
    /\ u.ids = t.ids /\ u.job = t.job /\ u.dead = t.dead
    /\ Short(t) => Short(u)

\* a free slot has been given the id and the job j
SlotTaken(t, u, j) ==
    /\ NewId(t.ids, t.next) \in TaskIdSet
    /\ u.dead = t.dead
    /\ Short(t) => Short(u)
    /\ \E x \in Slots : /\ t.ids[x] = Free /\ t.job[x] = None
                        /\ u.ids = [t.ids EXCEPT ![x] = NewId(t.ids, t.next)]
                        /\ u.job = [t.job EXCEPT ![x] = j]

\* slot x has been given the job j, and lives
SlotGiven(t, u, x, j) ==
    /\ u.ids = t.ids
    /\ u.job = [t.job EXCEPT ![x] = j]
    /\ u.dead = t.dead \ {x}
    /\ Short(t) => Short(u)

\* a task has been added, or none, and no other is disturbed
Added(t, u, j) ==
    /\ Fits(u)
    /\ Stays(t, u, Jobs)
    /\ \A s \in Slots : t.ids[s] # Free => u.ids[s] # Free
    /\ CanRegister(t) =>
         \E s \in Slots : /\ u.ids[s] = NewId(t.ids, t.next)
                          /\ u.job[s] = j /\ s \notin u.dead

\* trackServiceTask leaves the table's slots alone, and the list in its bounds.
LEMMA TrackView ==
    ASSUME NEW t \in TaskRecords, NEW p \in Services, NEW id \in TaskIdSet
    PROVE  SlotsKept(t, TrackServiceTask(t, p, id))
<1>1. CASE Tracks(t, p, id)
  BY <1>1 DEF TrackServiceTask, SlotsKept
<1>2. CASE ~Tracks(t, p, id) /\ Len(t.tracked[p]) >= MaxServiceTasks
  <2>1. TrackServiceTask(t, p, id) = [t EXCEPT !.missed = @ \cup {id}]
    BY <1>2 DEF TrackServiceTask
  <2>2. QED
    BY <2>1 DEF TaskRecords, Short, SlotsKept
<1>3. CASE ~Tracks(t, p, id) /\ ~(Len(t.tracked[p]) >= MaxServiceTasks)
  <2> DEFINE u == TrackServiceTask(t, p, id)
             list == Append(t.tracked[p], id)
  <2>1. /\ u.ids = t.ids /\ u.job = t.job /\ u.dead = t.dead
        /\ u.tracked = [t.tracked EXCEPT ![p] = list]
    BY Zenon, <1>3 DEF TrackServiceTask, TaskRecords
  <2>2. t.tracked \in [Services -> Seq(TaskIdSet)]
    BY FieldTypes
  <2>3. Len(list) <= MaxServiceTasks
    <3>1. t.tracked[p] \in Seq(TaskIdSet)
      BY <2>2
    <3>2. Len(list) = Len(t.tracked[p]) + 1 /\ Len(t.tracked[p]) \in Nat
      BY <3>1, AppendProperties, LenProperties
    <3>3. QED
      BY <1>3, <3>2, TrackAssumption
  <2> HIDE DEF u, list
  <2>4. Short(t) => Short(u)
    BY <2>1, <2>2, <2>3 DEF Short
  <2>5. QED
    BY <2>1, <2>4 DEF u, SlotsKept
<1>4. QED
  BY <1>1, <1>2, <1>3

\* serviceSetInterval and serviceSetTimeout put the job in a slot x that was free.
LEMMA SetView ==
    ASSUME NEW t, Table(t), NEW p \in Services, NEW j \in Jobs, CanRegister(t)
    PROVE  SlotTaken(t, ServiceSet(t, p, j), j)
<1> DEFINE x == FirstFree(t.ids)
           id == NewId(t.ids, t.next)
           v == RegisterTask(t, j)
<1>0. /\ t \in TaskRecords /\ FreeIsBare(t)
      /\ t.ids \in [Slots -> TaskIdSet \cup {Free}] /\ t.next \in TaskIdSet
      /\ t.job \in [Slots -> Jobs \cup {None}]
  BY FieldTypes DEF Table
<1>1. x \in Slots /\ t.ids[x] = Free /\ t.job[x] = None
  BY <1>0, FirstFreeIsFree DEF CanRegister, FreeIsBare
<1>2. id \in TaskIdSet /\ CursorAfter(t.ids, t.next) \in TaskIdSet
  BY <1>0, NewIdFresh
<1>3. /\ v = [t EXCEPT !.ids[x] = id, !.next = CursorAfter(t.ids, t.next), !.job[x] = j]
      /\ ServiceSet(t, p, j) = TrackServiceTask(v, p, id)
  BY DEF RegisterTask, ServiceSet
<1> HIDE DEF x, id, v
<1>4. /\ v.ids = [t.ids EXCEPT ![x] = id] /\ v.job = [t.job EXCEPT ![x] = j]
      /\ v.dead = t.dead /\ v.tracked = t.tracked
  BY <1>0, <1>3 DEF TaskRecords
<1>5. v \in TaskRecords
  <2>1. /\ [t.ids EXCEPT ![x] = id] \in [Slots -> TaskIdSet \cup {Free}]
        /\ [t.job EXCEPT ![x] = j] \in [Slots -> Jobs \cup {None}]
    BY Zenon, <1>0, <1>2
  <2>2. QED
    BY Zenon, <1>0, <1>2, <1>3, <2>1 DEF TaskRecords
<1>6. Short(t) => Short(v)
  BY <1>4 DEF Short
<1> DEFINE u == ServiceSet(t, p, j)
<1>7. SlotsKept(v, u)
  BY Zenon, <1>2, <1>3, <1>5, TrackView
<1>8. NewId(t.ids, t.next) = id
  BY DEF id
<1> HIDE DEF u
<1>9. SlotTaken(t, u, j)
  <2>1. u.ids = v.ids /\ u.job = v.job /\ u.dead = v.dead /\ (Short(v) => Short(u))
    BY <1>7 DEF SlotsKept
  <2>2. QED
    BY Zenon, <1>1, <1>2, <1>4, <1>6, <1>8, <2>1 DEF SlotTaken
<1>10. QED
  BY <1>9 DEF u

\* serviceUpdateInterval with a registered id: its slot gets the job and lives.
LEMMA UpdateView ==
    ASSUME NEW t, Table(t), NEW p \in Services, NEW j \in Jobs, NEW id, Registered(t, id)
    PROVE  SlotGiven(t, ServiceUpdate(t, p, id, j), SlotOf(t, id), j)
<1> DEFINE x == SlotOf(t, id)
           v == [t EXCEPT !.job[x] = j, !.dead = @ \ {x}]
<1>0. /\ t \in TaskRecords /\ t.job \in [Slots -> Jobs \cup {None}]
      /\ t.ids \in [Slots -> TaskIdSet \cup {Free}]
      /\ x \in Slots /\ t.ids[x] = id /\ id # Free
  BY Zenon, FieldTypes, SlotOfId DEF Table, Registered, Nothing, Free
<1>1. ServiceUpdate(t, p, id, j) = TrackServiceTask(v, p, id) /\ id \in TaskIdSet
  BY <1>0 DEF ServiceUpdate
<1>x. x = SlotOf(t, id)
  OBVIOUS
<1> HIDE DEF x
<1>2. /\ v.job = [t.job EXCEPT ![x] = j] /\ v.dead = t.dead \ {x}
      /\ v.ids = t.ids /\ v.tracked = t.tracked
  BY Zenon, <1>0 DEF TaskRecords
<1>3. v \in TaskRecords
  <2>1. [t.job EXCEPT ![x] = j] \in [Slots -> Jobs \cup {None}]
    BY <1>0
  <2>2. QED
    BY Zenon, <1>0, <2>1 DEF TaskRecords
<1> HIDE DEF v
<1>4. Short(t) => Short(v)
  BY <1>2 DEF Short
<1> DEFINE u == ServiceUpdate(t, p, id, j)
<1>5. SlotsKept(v, u)
  BY Zenon, <1>1, <1>3, TrackView
<1> HIDE DEF u
<1>6. SlotGiven(t, u, x, j)
  BY Zenon, <1>2, <1>4, <1>5 DEF SlotsKept, SlotGiven
<1>7. QED
  BY Zenon, <1>6, <1>x DEF u

\* stopService: the tracked slots wait for a reap.
LEMMA StopView ==
    ASSUME NEW t \in TaskRecords, NEW p \in Services
    PROVE  /\ StopTasks(t, p).ids = t.ids /\ StopTasks(t, p).job = t.job
           /\ StopTasks(t, p).dead = t.dead \cup TrackedSlots(t, p)
           /\ Short(t) => Short(StopTasks(t, p))
<1> DEFINE u == StopTasks(t, p)
<1>1. /\ u.ids = t.ids /\ u.job = t.job /\ u.dead = t.dead \cup TrackedSlots(t, p)
      /\ u.tracked = [t.tracked EXCEPT ![p] = <<>>]
  BY Zenon DEF StopTasks, TaskRecords
<1>2. t.tracked \in [Services -> Seq(TaskIdSet)] /\ Len(<<>>) <= MaxServiceTasks
  BY FieldTypes, TrackAssumption
<1> HIDE DEF u
<1>3. Short(t) => Short(u)
  BY <1>1, <1>2 DEF Short
<1>4. QED
  BY <1>1, <1>3 DEF u

\* remove_expired_tasks: the slot is free and nothing else of the table changes.
LEMMA ReapView ==
    ASSUME NEW t \in TaskRecords, NEW x \in Slots
    PROVE  /\ ReapTask(t, x).ids = [t.ids EXCEPT ![x] = Free]
           /\ ReapTask(t, x).job = [t.job EXCEPT ![x] = None]
           /\ ReapTask(t, x).dead = t.dead \ {x}
           /\ Short(t) => Short(ReapTask(t, x))
<1> DEFINE p == t.hook[x]
           id == t.ids[x]
           w == IF p = None THEN t ELSE UntrackServiceTask(t, p, id)
           u == ReapTask(t, x)
<1>0. /\ p \in Services \cup {None} /\ t.tracked \in [Services -> Seq(TaskIdSet)]
  BY FieldTypes
<1>1. u = [w EXCEPT !.ids[x] = Free, !.job[x] = None, !.hook[x] = None,
                    !.dead = @ \ {x}, !.missed = @ \ {id}]
  BY DEF ReapTask
<1> HIDE DEF p, id, u
<1>2. CASE p = None \/ ~Tracks(t, p, id)
  <2>1. w = t
    BY <1>2 DEF UntrackServiceTask
  <2> HIDE DEF w
  <2>2. /\ u.ids = [t.ids EXCEPT ![x] = Free] /\ u.job = [t.job EXCEPT ![x] = None]
        /\ u.dead = t.dead \ {x} /\ u.tracked = t.tracked
    BY <1>1, <2>1 DEF TaskRecords
  <2>3. QED
    BY <2>2 DEF Short, u
<1>3. CASE p # None /\ Tracks(t, p, id)
  <2> DEFINE rest == Without(t.tracked[p], id)
             first == IF Len(rest) > 0 THEN rest[1] ELSE Nothing
  <2>1. w = [t EXCEPT !.tracked[p] = rest, !.routine[p] = IF @ = id THEN first ELSE @]
    BY <1>3 DEF UntrackServiceTask
  <2>2. p \in Services /\ t.tracked[p] \in Seq(TaskIdSet)
    BY <1>0, <1>3
  <2>3. Len(rest) = Len(t.tracked[p]) - 1 /\ Len(t.tracked[p]) \in Nat
    BY <1>3, <2>2, WithoutFacts, LenProperties DEF Tracks
  <2> HIDE DEF w, rest, first
  <2>4. /\ u.ids = [t.ids EXCEPT ![x] = Free] /\ u.job = [t.job EXCEPT ![x] = None]
        /\ u.dead = t.dead \ {x} /\ u.tracked = [t.tracked EXCEPT ![p] = rest]
    BY Zenon, <1>1, <2>1 DEF TaskRecords
  <2>5. Short(t) => Short(u)
    <3>1. SUFFICES ASSUME Short(t), NEW q \in Services
                   PROVE  Len(u.tracked[q]) <= MaxServiceTasks
      BY DEF Short
    <3>2. CASE q = p
      <4>1. u.tracked[q] = rest /\ Len(t.tracked[p]) <= MaxServiceTasks
        BY <1>0, <2>2, <2>4, <3>1, <3>2 DEF Short
      <4>2. QED
        BY <2>3, <4>1, TrackAssumption
    <3>3. CASE q # p
      BY <1>0, <2>4, <3>1, <3>3 DEF Short
    <3>4. QED
      BY <3>2, <3>3
  <2>6. QED
    BY <2>4, <2>5 DEF u
<1>4. QED
  BY Zenon, <1>0, <1>2, <1>3

\* A new task disturbs no other one, and its slot is alive.
LEMMA SetFine ==
    ASSUME NEW t, Table(t), Fits(t), NEW p \in Services, NEW j \in Jobs
    PROVE  Added(t, ServiceSet(t, p, j), j)
<1> DEFINE u == ServiceSet(t, p, j)
<1>1. CASE ~CanRegister(t)
  BY <1>1 DEF ServiceSet, Stays, Added
<1>2. CASE CanRegister(t)
  <2> DEFINE id == NewId(t.ids, t.next)
  <2>1. SlotTaken(t, u, j)
    BY Zenon, <1>2, SetView
  <2> HIDE DEF u
  <2>2. /\ id \in TaskIdSet /\ u.dead = t.dead
        /\ Short(t) => Short(u)
    BY Zenon, <2>1 DEF SlotTaken
  <2>3. PICK x \in Slots :
          /\ t.ids[x] = Free /\ t.job[x] = None
          /\ u.ids = [t.ids EXCEPT ![x] = id] /\ u.job = [t.job EXCEPT ![x] = j]
    BY Zenon, <2>1 DEF SlotTaken
  <2>4. /\ t.ids \in [Slots -> TaskIdSet \cup {Free}]
        /\ t.job \in [Slots -> Jobs \cup {None}]
    BY Zenon, FieldTypes DEF Table
  <2>5. Free \notin TaskIdSet /\ None \notin Jobs
    BY IdsAssumption DEF Jobs, None, Free, TaskIdSet
  <2>6. NewId(t.ids, t.next) = id
    OBVIOUS
  <2> HIDE DEF id
  <2>7. Fits(u) /\ x \notin u.dead
    BY <2>2, <2>3, <2>4, <2>5 DEF Fits
  <2>8. Stays(t, u, Jobs)
    BY <2>2, <2>3, <2>4, <2>5 DEF Stays
  <2>9. \A s \in Slots : t.ids[s] # Free => u.ids[s] # Free
    BY <2>2, <2>3, <2>4, <2>5
  <2>10. u.ids[x] = id /\ u.job[x] = j
    BY <2>3, <2>4
  <2>11. Added(t, u, j)
    BY Zenon, <2>6, <2>7, <2>8, <2>9, <2>10 DEF Added
  <2>12. QED
    BY <2>11 DEF u
<1>3. QED
  BY <1>1, <1>2

\* One more task waits for a reap: those of other slots go on.
LEMMA DeaderFine ==
    ASSUME NEW t \in TaskRecords, Fits(t), NEW x \in Slots, t.ids[x] # Free
    PROVE  /\ Fits(Deader(t, {x}))
           /\ \A J : t.job[x] \notin J => Stays(t, Deader(t, {x}), J)
           /\ Deader(t, {x}).ids = t.ids
<1> DEFINE u == Deader(t, {x})
<1>1. /\ u.ids = t.ids /\ u.job = t.job /\ u.tracked = t.tracked
      /\ u.dead = t.dead \cup {x}
  BY Zenon DEF TaskRecords, Deader
<1> HIDE DEF u
<1>2. Fits(u)
  BY <1>1 DEF Fits, Short
<1>3. \A J : t.job[x] \notin J => Stays(t, u, J)
  BY <1>1 DEF Stays
<1>4. QED
  BY Zenon, <1>1, <1>2, <1>3 DEF u

\* What stays, stays owned, and the certificate with it.
LEMMA StaysOwned ==
    ASSUME NEW t, NEW u, NEW J, Stays(t, u, J)
    PROVE  /\ \A c : Intervals \subseteq J /\ Owned(t, c) => Owned(u, c)
           /\ "cert" \in J /\ HasCert(t) => HasCert(u)
<1>1. ASSUME NEW c, Intervals \subseteq J, Owned(t, c) PROVE Owned(u, c)
  BY <1>1 DEF Owned, Stays
<1>2. "cert" \in J /\ HasCert(t) => HasCert(u)
  BY DEF HasCert, Stays
<1>3. QED
  BY <1>1, <1>2

Fine(r) == Table(r.t) /\ Fits(r.t) /\ r.c \in Cells /\ r.x \in BOOLEAN

Ours(r) == Owned(r.t, r.c) /\ ~r.x

\* a change of the MQTT service's tasks from r to q that takes over none it
\* did not make and lets those with a job of J go on
Clean(r, q, J) ==
    /\ Fine(q)
    /\ \A s \in Slots : r.t.ids[s] # Free => q.t.ids[s] # Free
    /\ Ours(r) => Ours(q) /\ Stays(r.t, q.t, J)

\* serviceUpdateInterval with an id the service still owns.
LEMMA IntervalOn ==
    ASSUME NEW r, Fine(r), NEW j \in Intervals
    PROVE  Clean(r, Interval(r, j, TRUE), {"cert", "init"})
<1> DEFINE q == Interval(r, j, TRUE)
           t == r.t
           id == r.c[j]
           u == ServiceUpdate(t, "MQTT", id, j)
<1>1. /\ q.t = u /\ q.c = [r.c EXCEPT ![j] = UpdatedId(t, id)]
      /\ q.x = (r.x \/ Steals(t, id, j))
  BY Zenon DEF Interval
<1>2. /\ Table(t) /\ Fits(t) /\ r.c \in Cells /\ "MQTT" \in Services
      /\ j \in Jobs /\ j \in JobsOf("MQTT") /\ Intervals \subseteq Jobs
      /\ {"cert", "init"} \subseteq Jobs
  BY ServicesAssumption DEF Fine, Jobs, Intervals, JobsOf
<1>3. /\ t \in TaskRecords /\ IdsUnique(t)
      /\ t.ids \in [Slots -> TaskIdSet \cup {Free}]
      /\ t.job \in [Slots -> Jobs \cup {None}]
      /\ Free \notin TaskIdSet /\ 0 \notin TaskIdSet /\ Nothing \notin TaskIdSet
      /\ id \in TaskIdSet \cup {0, Nothing}
  BY <1>2, FieldTypes, IdsAssumption DEF Table, Free, Nothing, TaskIdSet, Cells
<1>4. Table(u)
  BY Zenon, <1>2, ServiceUpdateKeeps
<1>5. q.x \in BOOLEAN
  BY Zenon, <1>1
<1>6. CASE Registered(t, id)
  <2> DEFINE x == SlotOf(t, id)
  <2>1. /\ x \in Slots /\ t.ids[x] = id /\ id \in TaskIdSet
        /\ UpdatedId(t, id) = id
    BY Zenon, <1>3, <1>6, SlotOfId DEF Registered, UpdatedId, Free, Nothing
  <2>2. /\ u.ids = t.ids /\ u.job = [t.job EXCEPT ![x] = j]
        /\ u.dead = t.dead \ {x}
        /\ Short(t) => Short(u)
    <3>1. SlotGiven(t, u, x, j)
      BY Zenon, <1>2, <1>6, UpdateView
    <3> HIDE DEF u, x
    <3>2. QED
      BY Zenon, <3>1 DEF SlotGiven
  <2>3. Steals(t, id, j) = (t.job[x] # j)
    BY <1>6 DEF Steals
  <2> HIDE DEF x, u, q
  <2>4. Fits(u) /\ q.c = r.c
    BY <1>1, <1>2, <2>1, <2>2 DEF Fits, Cells
  <2>5. ASSUME Ours(r) PROVE t.job[x] = j /\ x \notin t.dead
    BY <1>3, <2>1, <2>5 DEF Ours, Owned, IdsUnique
  <2>6. ASSUME Ours(r) PROVE Stays(t, u, Jobs)
    <3>1. u.job = t.job
      BY <1>3, <2>1, <2>2, <2>5, <2>6
    <3>2. QED
      BY <2>2, <3>1 DEF Stays
  <2>7. ASSUME Ours(r) PROVE Ours(q) /\ Stays(t, u, {"cert", "init"})
    <3>1. Stays(t, u, {"cert", "init"})
      BY Zenon, <1>2, <2>6, <2>7 DEF Stays
    <3>2. Owned(u, r.c)
      BY <1>2, <2>6, <2>7, StaysOwned DEF Ours
    <3>3. ~q.x
      BY Zenon, <1>1, <2>3, <2>5, <2>7 DEF Ours
    <3>4. QED
      BY Zenon, <1>1, <2>4, <3>1, <3>2, <3>3 DEF Ours
  <2>8. Fine(q)
    BY Zenon, <1>1, <1>2, <1>4, <1>5, <2>4 DEF Fine
  <2>9. QED
    BY Zenon, <1>1, <2>2, <2>7, <2>8 DEF Clean, q
<1>7. CASE ~Registered(t, id)
  <2>1. u = ServiceSet(t, "MQTT", j) /\ UpdatedId(t, id) = RegisteredId(t)
        /\ ~Steals(t, id, j)
    BY <1>7 DEF ServiceUpdate, UpdatedId, Steals
  <2>2. /\ Fits(u) /\ Stays(t, u, Jobs)
        /\ \A s \in Slots : t.ids[s] # Free => u.ids[s] # Free
        /\ CanRegister(t) =>
             \E s \in Slots : /\ u.ids[s] = NewId(t.ids, t.next)
                              /\ u.job[s] = j /\ s \notin u.dead
    <3>1. Added(t, u, j)
      BY Zenon, <1>2, <2>1, SetFine
    <3> HIDE DEF u
    <3>2. QED
      BY Zenon, <3>1 DEF Added
  <2>3. RegisteredId(t) \in TaskIdSet \cup {0, Nothing}
    <3>1. CanRegister(t) => NewId(t.ids, t.next) \in TaskIdSet
      BY Zenon, <1>2, SetView DEF SlotTaken
    <3>2. QED
      BY <3>1 DEF RegisteredId
  <2> HIDE DEF u, q
  <2>4. q.c \in Cells
    BY <1>1, <1>2, <2>1, <2>3 DEF Cells
  <2>5. Fine(q)
    BY Zenon, <1>1, <1>4, <1>5, <2>2, <2>4 DEF Fine
  <2>6. ASSUME Ours(r) PROVE Ours(q) /\ Stays(t, u, {"cert", "init"})
    <3>1. Stays(t, u, {"cert", "init"})
      BY <1>2, <2>2 DEF Stays
    <3>2. Owned(u, r.c)
      BY <1>2, <2>2, <2>6, StaysOwned DEF Ours
    <3>3. q.c[j] = RegisteredId(t) /\ \A k \in Intervals \ {j} : q.c[k] = r.c[k]
      BY Zenon, <1>1, <1>2, <2>1 DEF Cells
    <3>4. \/ q.c[j] \in {0, Nothing}
          \/ \E s \in Slots : u.ids[s] = q.c[j] /\ u.job[s] = j /\ s \notin u.dead
      BY Zenon, <2>2, <3>3 DEF RegisteredId
    <3>5. Owned(u, q.c)
      BY <3>2, <3>3, <3>4 DEF Owned
    <3>6. ~q.x
      BY Zenon, <1>1, <2>1, <2>6 DEF Ours
    <3>7. QED
      BY Zenon, <1>1, <3>1, <3>5, <3>6 DEF Ours
  <2>7. QED
    BY Zenon, <1>1, <2>2, <2>5, <2>6 DEF Clean, q
<1>8. QED
  BY Zenon, <1>6, <1>7

\* clearInterval of an id the service still owns, and 0 in its place.
LEMMA IntervalOff ==
    ASSUME NEW r, Fine(r), NEW j \in Intervals
    PROVE  Clean(r, Interval(r, j, FALSE), {"cert", "init"})
<1> DEFINE q == Interval(r, j, FALSE)
           t == r.t
           id == r.c[j]
           u == ClearTask(t, id)
<1>1. q.t = u /\ q.c = [r.c EXCEPT ![j] = 0] /\ q.x = r.x
  BY Zenon DEF Interval
<1>2. /\ Table(t) /\ Fits(t) /\ r.c \in Cells /\ r.x \in BOOLEAN
      /\ t \in TaskRecords /\ IdsUnique(t)
      /\ id \in TaskIdSet \cup {0, Nothing}
      /\ t.ids \in [Slots -> TaskIdSet \cup {Free}]
      /\ 0 \notin TaskIdSet /\ Nothing \notin TaskIdSet /\ Free = Nothing
  BY FieldTypes, IdsAssumption DEF Fine, Table, Cells, Free, Nothing, TaskIdSet
<1>3. Table(u)
  BY Zenon, <1>2, ClearTaskKeeps
<1>4. q.c \in Cells /\ q.c[j] = 0 /\ \A k \in Intervals \ {j} : q.c[k] = r.c[k]
  BY Zenon, <1>1, <1>2 DEF Cells
<1> DEFINE J == {"cert", "init"} \cup (Intervals \ {j})
<1>5. /\ Fits(u) /\ u.ids = t.ids
      /\ Ours(r) => Stays(t, u, J)
  <2>1. CASE ~Registered(t, id)
    BY <1>2, <2>1 DEF ClearTask, Stays
  <2>2. CASE Registered(t, id)
    <3> DEFINE x == SlotOf(t, id)
    <3>1. x \in Slots /\ t.ids[x] = id /\ id # Free /\ id \in TaskIdSet
      BY Zenon, <1>2, <2>2, SlotOfId DEF Registered
    <3>2. u = Deader(t, {x})
      BY <2>2 DEF ClearTask, Deader
    <3> HIDE DEF x, u
    <3>3. Fits(u) /\ u.ids = t.ids /\ (t.job[x] \notin J => Stays(t, u, J))
      BY Zenon, <1>2, <3>1, <3>2, DeaderFine
    <3>4. ASSUME Ours(r) PROVE t.job[x] = j
      BY <1>2, <3>1, <3>4 DEF Ours, Owned, IdsUnique
    <3>5. j \notin J
      BY DEF Intervals
    <3>6. QED
      BY Zenon, <3>3, <3>4, <3>5
  <2>3. QED
    BY Zenon, <2>1, <2>2
<1> HIDE DEF u, q
<1>6. Fine(q)
  BY Zenon, <1>1, <1>2, <1>3, <1>4, <1>5 DEF Fine
<1>7. ASSUME Ours(r) PROVE Ours(q) /\ Stays(t, u, {"cert", "init"})
  <2>1. Stays(t, u, {"cert", "init"})
    BY <1>5, <1>7 DEF Stays
  <2>2. Owned(u, q.c)
    BY <1>4, <1>5, <1>7 DEF Ours, Owned, Stays
  <2>3. QED
    BY Zenon, <1>1, <1>7, <2>1, <2>2 DEF Ours
<1>8. QED
  BY Zenon, <1>1, <1>5, <1>6, <1>7 DEF Clean, q

\* Both, for a change that is on or off.
LEMMA IntervalClean ==
    ASSUME NEW r, Fine(r), NEW j \in Intervals, NEW on \in BOOLEAN
    PROVE  Clean(r, Interval(r, j, on), {"cert", "init"})
<1>1. on = TRUE \/ on = FALSE
  OBVIOUS
<1>2. QED
  BY Zenon, <1>1, IntervalOn, IntervalOff

\* One clean change after another is one.
LEMMA CleanTwice ==
    ASSUME NEW r, NEW q, NEW w, NEW J, Clean(r, q, J), Clean(q, w, J)
    PROVE  Clean(r, w, J)
<1>1. ASSUME Ours(r) PROVE Ours(w) /\ Stays(r.t, w.t, J)
  <2>1. Ours(q) /\ Stays(r.t, q.t, J) /\ Ours(w) /\ Stays(q.t, w.t, J)
    BY <1>1 DEF Clean
  <2>2. Stays(r.t, w.t, J)
    BY <2>1 DEF Stays
  <2>3. QED
    BY <2>1, <2>2
<1>2. QED
  BY Zenon, <1>1 DEF Clean

\* handleMqttConfigChange as a whole.
LEMMA ReconfiguredClean ==
    ASSUME NEW t, Table(t), Fits(t), NEW c \in Cells, NEW g \in BOOLEAN,
           NEW pub \in BOOLEAN, NEW keep \in BOOLEAN
    PROVE  Clean(Before(t, c), Reconfigured(Before(t, c), g, pub, keep),
                 {"cert", "init"})
<1> DEFINE r == Before(t, c)
           J == {"cert", "init"}
           r1 == IF g THEN [r EXCEPT !.t = ServiceSet(@, "MQTT", "init")] ELSE r
           r2 == Interval(r1, "publish", pub)
           r3 == Interval(r2, "subscribe", keep)
<1>0. /\ Reconfigured(r, g, pub, keep) = r3
      /\ "publish" \in Intervals /\ "subscribe" \in Intervals
  BY DEF Reconfigured, Intervals
<1>1. r.t = t /\ r.c = c /\ r.x = FALSE
  BY DEF Before
<1>2. Clean(r, r1, J)
  <2>1. CASE ~g
    <3>1. r1 = r
      BY <2>1
    <3> HIDE DEF r, r1
    <3>2. Fine(r) /\ Stays(r.t, r.t, J)
      BY Zenon, <1>1 DEF Fine, Stays
    <3>3. QED
      BY Zenon, <3>1, <3>2 DEF Clean
  <2>2. CASE g
    <3> DEFINE u == ServiceSet(t, "MQTT", "init")
    <3>1. r1.t = u /\ r1.c = c /\ r1.x = FALSE
      BY <2>2 DEF Before
    <3>2. /\ "MQTT" \in Services /\ "init" \in JobsOf("MQTT") /\ "init" \in Jobs
          /\ J \subseteq Jobs /\ Intervals \subseteq Jobs
      BY ServicesAssumption DEF JobsOf, Jobs, Intervals
    <3>3. /\ Table(u) /\ Fits(u) /\ Stays(t, u, Jobs)
          /\ \A s \in Slots : t.ids[s] # Free => u.ids[s] # Free
      <4>1. Table(u)
        BY Zenon, <3>2, ServiceSetKeeps
      <4>2. Added(t, u, "init")
        BY Zenon, <3>2, SetFine
      <4> HIDE DEF u
      <4>3. QED
        BY Zenon, <4>1, <4>2 DEF Added
    <3> HIDE DEF u, r, r1
    <3>4. Stays(t, u, J)
      BY <3>2, <3>3 DEF Stays
    <3>5. Owned(t, c) => Owned(u, c)
      BY <3>2, <3>3, StaysOwned
    <3>6. Fine(r1)
      BY Zenon, <3>1, <3>3 DEF Fine
    <3>7. Ours(r) => Ours(r1) /\ Stays(r.t, r1.t, J)
      BY Zenon, <1>1, <3>1, <3>4, <3>5 DEF Ours
    <3>8. QED
      BY Zenon, <1>1, <3>1, <3>3, <3>6, <3>7 DEF Clean
  <2>3. QED
    BY <2>1, <2>2
<1> HIDE DEF r, r1
<1>3. Clean(r1, r2, J)
  BY <1>0, <1>2, IntervalClean DEF Clean
<1> HIDE DEF r2
<1>4. Clean(r2, r3, J)
  BY Zenon, <1>0, <1>3, IntervalClean DEF Clean
<1> HIDE DEF r3, J
<1>5. Clean(r, r3, J)
  BY Zenon, <1>2, <1>3, <1>4, CleanTwice
<1>6. QED
  BY <1>0, <1>5 DEF r, J

-----------------------------------------------------------------------------
\* the invariant of a table t, the ids c the MQTT service keeps and the flag b
CertIn(t, c, b) ==
    /\ Fits(t)
    /\ c \in Cells
    /\ "kill" \notin excused => "stolen" \notin excused /\ Owned(t, c)
    /\ b /\ excused \cap {"full", "kill"} = {} => HasCert(t)

CertInv == CertIn(tasks, cached, pending)

\* A step of the MQTT service.
LEMMA CleanStep ==
    ASSUME NEW t, NEW c, CertIn(t, c, pending), NEW q, NEW J, "cert" \in J,
           Clean(Before(t, c), q, J), tasks' = q.t, cached' = q.c,
           excused' = excused \cup Stolen(q), pending' = pending
    PROVE  CertInv'
<1> DEFINE r == Before(t, c)
<1>1. r.t = t /\ r.c = c /\ r.x = FALSE
  BY DEF Before
<1>2. Clean(r, q, J)
  OBVIOUS
<1> HIDE DEF r
<1>3. ASSUME "kill" \notin excused'
      PROVE  /\ "stolen" \notin excused' /\ Owned(tasks', cached')
             /\ Stays(t, tasks', J)
  <2>1. "kill" \notin excused
    BY <1>3
  <2>2. "stolen" \notin excused /\ Ours(r)
    BY Zenon, <1>1, <2>1 DEF CertIn, Ours
  <2>3. Ours(q) /\ Stays(t, q.t, J)
    BY Zenon, <1>1, <1>2, <2>2 DEF Clean
  <2>4. Stolen(q) = {}
    BY <2>3 DEF Ours, Stolen
  <2>5. QED
    BY <2>2, <2>3, <2>4 DEF Ours
<1>4. ASSUME pending', excused' \cap {"full", "kill"} = {}
      PROVE  HasCert(tasks')
  <2>1. HasCert(t) /\ Stays(t, tasks', J)
    BY <1>3, <1>4 DEF CertIn
  <2>2. QED
    BY Zenon, <2>1, StaysOwned
<1>5. Fits(tasks') /\ cached' \in Cells
  BY <1>2 DEF Clean, Fine
<1>6. QED
  BY Zenon, <1>3, <1>4, <1>5 DEF CertInv, CertIn

\* A step that leaves tasks, ids and flag alone.
LEMMA CertUntouched ==
    ASSUME CertInv, tasks' = tasks, cached' = cached, pending' = pending,
           excused \subseteq excused', "stolen" \in excused' => "stolen" \in excused
    PROVE  CertInv'
  BY DEF CertInv, CertIn

\* ensureServerCertificate, with or without an address.
LEMMA EnsureStep ==
    ASSUME NEW t, Table(t), NEW c, NEW b, CertIn(t, c, b), NEW ip \in BOOLEAN,
           tasks' = IF ip THEN Ensured(t, b).t ELSE t,
           pending' = IF ip THEN Ensured(t, b).p ELSE b, cached' = c,
           excused \subseteq excused', "stolen" \in excused' => "stolen" \in excused,
           ip /\ ~b /\ ~CanRegister(t) => "full" \in excused'
    PROVE  CertInv'
<1>1. CASE ip /\ ~b
  <2> DEFINE u == ServiceSet(t, "MDNS", "cert")
  <2>1. tasks' = u
    BY <1>1 DEF Ensured
  <2>2. /\ "MDNS" \in Services /\ "cert" \in Jobs /\ Intervals \subseteq Jobs
    BY ServicesAssumption DEF Jobs, Intervals
  <2>3. /\ Fits(u) /\ Stays(t, u, Jobs)
        /\ CanRegister(t) => \E s \in Slots : u.job[s] = "cert" /\ s \notin u.dead
    <3>1. Fits(t)
      BY DEF CertIn
    <3>2. Added(t, u, "cert")
      BY Zenon, <2>2, <3>1, SetFine
    <3> HIDE DEF u
    <3>3. QED
      BY Zenon, <3>2 DEF Added
  <2> HIDE DEF u
  <2>4. CanRegister(t) => HasCert(u)
    BY Zenon, <2>3 DEF HasCert
  <2>5. Owned(t, c) => Owned(u, c)
    BY <2>2, <2>3, StaysOwned
  <2>6. "full" \notin excused' => HasCert(tasks')
    BY <1>1, <2>1, <2>4
  <2>7. QED
    BY <2>1, <2>3, <2>5, <2>6 DEF CertIn, CertInv
<1>2. CASE ~(ip /\ ~b)
  <2>1. tasks' = t /\ pending' = b
    BY Zenon, <1>2 DEF Ensured
  <2>2. QED
    BY <2>1 DEF CertIn, CertInv
<1>3. QED
  BY <1>1, <1>2

\* With the lists in agreement a service's list names its own tasks only.
LEMMA TrackedJobs ==
    ASSUME NEW t, Table(t), Agree(t), NEW p \in Services, NEW s \in TrackedSlots(t, p)
    PROVE  t.job[s] \in JobsOf(p)
<1>1. s \in Slots /\ t.ids[s] # Free /\ Tracks(t, p, t.ids[s])
  BY DEF TrackedSlots
<1>2. PICK x \in Slots : t.ids[x] = t.ids[s] /\ t.hook[x] = p
  BY <1>1 DEF Agree, ListedHeld, Tracks
<1>3. x = s
  BY <1>1, <1>2 DEF Table, IdsUnique
<1>4. QED
  BY <1>2, <1>3 DEF Agree, HookOwns

\* stopService and resetServiceState: MQTT forgets its ids, mDNS its flag, and
\* neither takes a task of the other's down.
LEMMA StoppedCert ==
    ASSUME IInv, CertInv, NEW p \in Services
    PROVE  CertIn(StoppedTasks(p), StoppedCached(p), StoppedPending(p))
<1> DEFINE t == IF p = "MQTT" THEN Interval(Before(tasks, cached), "timer", FALSE).t
                ELSE tasks
           u == StopTasks(t, p)
           c == StoppedCached(p)
<1>0. /\ Table(tasks) /\ tasks \in TaskRecords /\ Fits(tasks) /\ cached \in Cells
      /\ "timer" \in Intervals /\ p \in {"MQTT", "MDNS", "CRON"}
      /\ Before(tasks, cached).t = tasks /\ Before(tasks, cached).c = cached
      /\ Before(tasks, cached).x = FALSE
  BY ServicesAssumption DEF IInv, CertInv, CertIn, Table, Intervals, Before
<1>1. StoppedTasks(p) = u
  BY Zenon DEF StoppedTasks, Interval, Before
<1>2. /\ Table(t) /\ Fits(t)
      /\ "stolen" \notin excused => Agree(t)
      /\ "kill" \notin excused => Stays(tasks, t, {"cert"})
  <2>1. CASE p # "MQTT"
    BY Zenon, <1>0, <2>1 DEF IInv, Stays
  <2>2. CASE p = "MQTT"
    <3> DEFINE r == Before(tasks, cached)
               q == Interval(r, "timer", FALSE)
    <3>1. Fine(r)
      BY Zenon, <1>0 DEF Fine
    <3>2. Clean(r, q, {"cert", "init"})
      <4> HIDE DEF r
      <4>1. QED
        BY Zenon, <1>0, <3>1, IntervalOff
    <3>3. "kill" \notin excused => Ours(r)
      BY Zenon, <1>0 DEF CertInv, CertIn, Ours
    <3>4. q.t = ClearTask(tasks, cached["timer"]) /\ t = q.t /\ r.t = tasks
      BY Zenon, <2>2 DEF Interval, Before
    <3>5. "stolen" \notin excused => Agree(ClearTask(tasks, cached["timer"]))
      BY Zenon, <1>0, ClearTaskKeeps DEF IInv
    <3> HIDE DEF q, r, t
    <3>6. Fine(q) /\ (Ours(r) => Stays(r.t, q.t, {"cert", "init"}))
      BY Zenon, <3>2 DEF Clean
    <3>7. Table(t) /\ Fits(t)
      BY Zenon, <3>4, <3>6 DEF Fine
    <3>8. "kill" \notin excused => Stays(tasks, t, {"cert"})
      BY Zenon, <3>3, <3>4, <3>6 DEF Stays
    <3>9. QED
      BY Zenon, <3>4, <3>5, <3>7, <3>8
  <2>3. QED
    BY Zenon, <2>1, <2>2
<1>3. p # "MQTT" => t = tasks
  OBVIOUS
<1> HIDE DEF t
<1>4. /\ u.ids = t.ids /\ u.job = t.job /\ u.dead = t.dead \cup TrackedSlots(t, p)
      /\ Fits(u)
  <2>1. /\ u.ids = t.ids /\ u.job = t.job /\ u.dead = t.dead \cup TrackedSlots(t, p)
        /\ Short(t) => Short(u)
    BY Zenon, <1>2, StopView DEF Table
  <2> HIDE DEF u
  <2>2. QED
    BY Zenon, <1>2, <2>1 DEF Fits, TrackedSlots
<1> HIDE DEF u
<1>5. ASSUME "stolen" \notin excused, NEW J, J \cap JobsOf(p) = {}
      PROVE  Stays(t, u, J)
  BY <1>2, <1>4, <1>5, TrackedJobs DEF Stays
<1>6. c \in Cells /\ (p # "MQTT" => c = cached)
  BY <1>0 DEF StoppedCached, Cells
<1>7. ASSUME "kill" \notin excused PROVE "stolen" \notin excused /\ Owned(u, c)
  <2>1. "stolen" \notin excused /\ Owned(tasks, cached)
    BY <1>7 DEF CertInv, CertIn
  <2>2. CASE p = "MQTT"
    BY <2>1, <2>2 DEF StoppedCached, Owned
  <2>3. CASE p # "MQTT"
    <3>1. Intervals \cap JobsOf(p) = {}
      BY <1>0, <2>3 DEF Intervals, JobsOf
    <3>2. Stays(t, u, Intervals)
      BY <1>5, <2>1, <3>1
    <3>3. QED
      BY <1>3, <1>6, <2>1, <2>3, <3>2, StaysOwned
  <2>4. QED
    BY <2>2, <2>3
<1>8. ASSUME StoppedPending(p), excused \cap {"full", "kill"} = {}
      PROVE  HasCert(u)
  <2>1. p # "MDNS" /\ pending /\ "kill" \notin excused
    BY <1>8 DEF StoppedPending
  <2>2. HasCert(tasks) /\ "stolen" \notin excused
    BY <1>8, <2>1 DEF CertInv, CertIn
  <2>3. {"cert"} \cap JobsOf(p) = {}
    BY <1>0, <2>1 DEF JobsOf, Intervals
  <2>4. Stays(tasks, t, {"cert"}) /\ Stays(t, u, {"cert"})
    BY <1>2, <1>5, <2>1, <2>2, <2>3
  <2>5. QED
    BY <2>2, <2>4, StaysOwned
<1> HIDE DEF c
<1>9. CertIn(u, c, StoppedPending(p))
  BY Zenon, <1>4, <1>6, <1>7, <1>8 DEF CertIn
<1>10. QED
  BY <1>1, <1>9 DEF c

\* initService of the MQTT service, successful or failed.
LEMMA StartMqttCert ==
    ASSUME NEW t, NEW c, Table(t), CertIn(t, c, pending), StartMqtt(t, c),
           pending' = pending
    PROVE  CertInv'
<1>1. /\ PublishChoices \subseteq BOOLEAN /\ KeepChoices \subseteq BOOLEAN
      /\ TRUE \in BOOLEAN /\ Fits(t) /\ c \in Cells
  BY ServicesAssumption DEF CertIn
<1>2. CASE \E pub \in PublishChoices, keep \in KeepChoices :
              LET r == Reconfigured(Before(t, c), TRUE, pub, keep)
              IN  /\ tasks' = r.t /\ cached' = r.c
                  /\ excused' = excused \cup Stolen(r)
  <2>1. PICK pub \in PublishChoices, keep \in KeepChoices :
          /\ tasks' = Reconfigured(Before(t, c), TRUE, pub, keep).t
          /\ cached' = Reconfigured(Before(t, c), TRUE, pub, keep).c
          /\ excused' = excused \cup
                Stolen(Reconfigured(Before(t, c), TRUE, pub, keep))
    BY Zenon, <1>2
  <2> DEFINE q == Reconfigured(Before(t, c), TRUE, pub, keep)
             J == {"cert", "init"}
  <2>2. Clean(Before(t, c), q, J) /\ "cert" \in J
    BY Zenon, <1>1, ReconfiguredClean
  <2> HIDE DEF J
  <2>3. QED
    BY Zenon, <2>1, <2>2, CleanStep
<1>3. CASE tasks' = t /\ cached' = c /\ excused' = excused
  BY <1>3 DEF CertInv, CertIn
<1>4. QED
  BY Zenon, <1>2, <1>3 DEF StartMqtt

\* initService of the mDNS service.
LEMMA StartMdnsCert ==
    ASSUME NEW t, NEW b, Table(t), CertIn(t, cached, b), NEW ip \in BOOLEAN,
           StartMdns(t, b, ip), cached' = cached
    PROVE  CertInv'
<1>1. /\ tasks' = IF ip THEN Ensured(t, b).t ELSE t
      /\ pending' = IF ip THEN Ensured(t, b).p ELSE b
      /\ excused \subseteq excused'
      /\ "stolen" \in excused' => "stolen" \in excused
      /\ ip /\ ~b /\ ~CanRegister(t) => "full" \in excused'
  BY DEF StartMdns
<1>2. QED
  BY <1>1, EnsureStep

\* startService of any service.
LEMMA StartCert ==
    ASSUME IInv, CertInv, NEW p \in Services, Start(p)
    PROVE  CertInv'
<1>1. p \in {"MQTT", "MDNS", "CRON"} /\ Table(tasks) /\ CertIn(tasks, cached, pending)
  BY ServicesAssumption DEF IInv, CertInv
<1>2. CASE p = "MQTT"
  BY <1>1, <1>2, StartMqttCert DEF Start
<1>3. CASE p = "MDNS"
  <2>1. PICK ip \in BOOLEAN : StartMdns(tasks, pending, ip) /\ cached' = cached
    BY <1>3 DEF Start
  <2>2. QED
    BY <1>1, <2>1, StartMdnsCert
<1>4. CASE p = "CRON"
  <2>1. /\ tasks' = tasks /\ cached' = cached /\ pending' = pending
        /\ excused \subseteq excused' /\ ("stolen" \in excused' => "stolen" \in excused)
    BY <1>4 DEF Start, StartCron
  <2>2. QED
    BY <2>1, CertUntouched
<1>5. QED
  BY <1>1, <1>2, <1>3, <1>4

\* stopService of any service.
LEMMA StopCert ==
    ASSUME IInv, CertInv, NEW p \in Services, Stop(p)
    PROVE  CertInv'
<1>1. /\ tasks' = StoppedTasks(p) /\ cached' = StoppedCached(p)
      /\ pending' = StoppedPending(p) /\ excused' = excused
  BY DEF Stop
<1>2. CertIn(StoppedTasks(p), StoppedCached(p), StoppedPending(p))
  BY StoppedCert
<1>3. QED
  BY <1>1, <1>2 DEF CertInv, CertIn

\* restartOne: a stop, and a start from what the stop leaves.
LEMMA RestartCert ==
    ASSUME IInv, CertInv, NEW p \in Services, Restart(p)
    PROVE  CertInv'
<1>1. CASE Stop(p)
  BY <1>1, StopCert
<1>2. CASE ~Stop(p)
  <2>1. /\ p \in {"MQTT", "MDNS", "CRON"} /\ Table(StoppedTasks(p))
        /\ CertIn(StoppedTasks(p), StoppedCached(p), StoppedPending(p))
    BY ServicesAssumption, StoppedCert, StoppedKeeps DEF IInv
  <2>2. CASE p = "MQTT"
    <3>1. StartMqtt(StoppedTasks(p), StoppedCached(p)) /\ pending' = pending
      BY Zenon, <1>2, <2>2 DEF Restart
    <3>2. StoppedPending(p) = pending
      BY <2>2 DEF StoppedPending
    <3>3. CertIn(StoppedTasks(p), StoppedCached(p), pending)
      BY <2>1, <3>2
    <3>4. QED
      BY <2>1, <3>1, <3>3, StartMqttCert
  <2>3. CASE p = "MDNS"
    <3>1. PICK ip \in BOOLEAN : StartMdns(StoppedTasks(p), FALSE, ip) /\ cached' = cached
      BY Zenon, <1>2, <2>3 DEF Restart
    <3>2. StoppedCached(p) = cached /\ StoppedPending(p) = FALSE
      BY <2>3 DEF StoppedPending, StoppedCached
    <3>3. CertIn(StoppedTasks(p), cached, FALSE)
      BY Zenon, <2>1, <3>2
    <3>4. QED
      BY Zenon, <2>1, <3>1, <3>3, StartMdnsCert
  <2>4. CASE p = "CRON"
    <3>1. /\ tasks' = tasks /\ cached' = cached /\ pending' = pending
          /\ excused \subseteq excused' /\ ("stolen" \in excused' => "stolen" \in excused)
      BY <1>2, <2>4 DEF Restart, StartCron
    <3>2. QED
      BY <3>1, CertUntouched
  <2>5. QED
    BY <2>1, <2>2, <2>3, <2>4
<1>3. QED
  BY <1>1, <1>2

\* The one-shot MQTT task: it switches the timer on or off, or has no memory
\* to, and its own slot waits for a reap.
LEMMA RunInitCert ==
    ASSUME IInv, CertInv, NEW s \in Slots, RunInit(s)
    PROVE  CertInv'
<1> DEFINE r0 == Before(tasks, cached)
           J == {"cert", "init"}
<1>0. /\ Table(tasks) /\ Fits(tasks) /\ cached \in Cells
      /\ r0.t = tasks /\ r0.c = cached /\ r0.x = FALSE
      /\ tasks.job[s] = "init" /\ s \notin tasks.dead /\ pending' = pending
  BY DEF IInv, CertInv, CertIn, Before, RunInit
<1>1. PICK began \in {TRUE, FALSE}, memory \in {TRUE, FALSE} :
        LET r == IF memory THEN Interval(r0, "timer", began) ELSE r0
        IN  /\ tasks' = [r.t EXCEPT !.dead = @ \cup {s}]
            /\ cached' = r.c
            /\ excused' = excused \cup Stolen(r)
  BY Zenon DEF RunInit
<1> DEFINE r == IF memory THEN Interval(r0, "timer", began) ELSE r0
<1>2. /\ tasks' = Deader(r.t, {s}) /\ cached' = r.c
      /\ excused' = excused \cup Stolen(r)
  BY <1>1 DEF Deader
<1>3. Fine(r0)
  BY Zenon, <1>0 DEF Fine
<1>4. Clean(r0, r, J)
  <2>1. "timer" \in Intervals /\ began \in BOOLEAN
    BY Zenon DEF Intervals
  <2> HIDE DEF r0
  <2>2. Clean(r0, Interval(r0, "timer", began), J)
    BY <1>3, <2>1, IntervalClean
  <2>3. Clean(r0, r0, J)
    BY <1>3 DEF Clean, Stays
  <2>4. CASE memory
    <3>1. r = Interval(r0, "timer", began)
      BY <2>4
    <3>2. QED
      BY Zenon, <2>2, <3>1
  <2>5. CASE ~memory
    <3>1. r = r0
      BY <2>5
    <3>2. QED
      BY Zenon, <2>3, <3>1
  <2>6. QED
    BY <2>4, <2>5
<1> HIDE DEF r
<1> DEFINE u == Deader(r.t, {s})
           w == [t |-> u, c |-> r.c, x |-> r.x]
<1>5. tasks.ids[s] # Free
  BY <1>0 DEF Table, FreeIsBare, None
<1>6. r.t.ids[s] # Free /\ Table(r.t) /\ Fits(r.t) /\ r.c \in Cells /\ r.x \in BOOLEAN
  BY Zenon, <1>0, <1>4, <1>5 DEF Clean, Fine
<1>7. /\ Fits(u) /\ u.ids = r.t.ids
      /\ \A K : r.t.job[s] \notin K => Stays(r.t, u, K)
  BY Zenon, <1>6, DeaderFine DEF Table
<1>8. Table(u)
  <2>1. {s} \in SUBSET Slots
    OBVIOUS
  <2>2. QED
    BY <1>6, <2>1, DeaderKeeps
<1>9. w.t = u /\ w.c = r.c /\ w.x = r.x
  OBVIOUS
<1> HIDE DEF u, w, r0
<1>10. Fine(w)
  BY Zenon, <1>6, <1>7, <1>8, <1>9 DEF Fine
<1>11. ASSUME Ours(r0) PROVE Ours(w) /\ Stays(r0.t, w.t, {"cert"})
  <2> DEFINE K == Intervals \cup {"cert"}
  <2>1. Ours(r) /\ Stays(r0.t, r.t, J)
    BY Zenon, <1>4, <1>11 DEF Clean
  <2>2. r.t.job[s] = "init"
    BY Zenon, <1>0, <2>1 DEF Stays
  <2>3. "init" \notin K /\ Intervals \subseteq K /\ "cert" \in K
    BY DEF Intervals
  <2> HIDE DEF K
  <2>4. Stays(r.t, u, K)
    BY Zenon, <1>7, <2>2, <2>3
  <2>5. Owned(u, r.c)
    BY <2>1, <2>3, <2>4, StaysOwned DEF Ours
  <2>6. Stays(r0.t, u, {"cert"})
    BY <2>1, <2>3, <2>4 DEF Stays
  <2>7. QED
    BY Zenon, <1>9, <2>1, <2>5, <2>6 DEF Ours
<1>12. Clean(r0, w, {"cert"})
  BY Zenon, <1>4, <1>7, <1>9, <1>10, <1>11 DEF Clean
<1>13. /\ tasks' = w.t /\ cached' = w.c /\ excused' = excused \cup Stolen(w)
       /\ CertIn(tasks, cached, pending) /\ "cert" \in {"cert"}
  BY <1>2, <1>9 DEF u, CertInv, Stolen
<1>14. QED
  BY Zenon, <1>0, <1>12, <1>13, CleanStep DEF r0

\* Every step keeps the certificate's invariant.
LEMMA CertStep ==
    ASSUME IInv, CertInv, [Next]_vars
    PROVE  CertInv'
<1>0. /\ Table(tasks) /\ tasks \in TaskRecords /\ Fits(tasks) /\ cached \in Cells
      /\ FreeIsBare(tasks) /\ CertIn(tasks, cached, pending)
  BY DEF IInv, CertInv, CertIn, Table
<1>1. CASE Boot
  <2>1. PICK i \in 1 .. Len(BootOrder) : Start(BootOrder[i])
    BY <1>1 DEF Boot
  <2>2. BootOrder[i] \in Services
    BY ServicesAssumption DEF BootOrder
  <2>3. QED
    BY <2>1, <2>2, StartCert
<1>2. ASSUME NEW p \in Services, StopOne(p) \/ StartOne(p) \/ RestartOne(p)
      PROVE  CertInv'
  BY <1>2, StopCert, StartCert, RestartCert DEF StopOne, StartOne, RestartOne
<1>3. CASE DropBroker
  <2> DEFINE r == Before(tasks, cached)
             q == Interval(r, "timer", FALSE)
  <2>1. /\ r.t = tasks /\ r.c = cached /\ r.x = FALSE
        /\ q.t = ClearTask(tasks, cached["timer"])
        /\ q.c = [cached EXCEPT !["timer"] = 0] /\ q.x = FALSE
        /\ "timer" \in Intervals /\ "cert" \in {"cert", "init"}
    BY Zenon DEF Before, Interval, Intervals
  <2>2. /\ tasks' = q.t /\ cached' = q.c /\ pending' = pending
        /\ excused' = excused \cup Stolen(q)
    BY Zenon, <1>3, <2>1 DEF DropBroker, Stolen
  <2>3. Fine(r)
    BY Zenon, <1>0, <2>1 DEF Fine
  <2>4. Clean(r, q, {"cert", "init"})
    <3> HIDE DEF r
    <3>1. QED
      BY Zenon, <2>1, <2>3, IntervalOff
  <2> HIDE DEF q
  <2>5. QED
    BY Zenon, <1>0, <2>1, <2>2, <2>4, CleanStep
<1>4. CASE GotIp
  <2>1. /\ tasks' = IF TRUE THEN Ensured(tasks, pending).t ELSE tasks
        /\ pending' = IF TRUE THEN Ensured(tasks, pending).p ELSE pending
        /\ cached' = cached /\ excused \subseteq excused'
        /\ "stolen" \in excused' => "stolen" \in excused
        /\ TRUE /\ ~pending /\ ~CanRegister(tasks) => "full" \in excused'
    BY <1>4 DEF GotIp
  <2>2. TRUE \in BOOLEAN
    OBVIOUS
  <2>3. QED
    BY Zenon, <1>0, <2>1, <2>2, EnsureStep
<1>5. CASE MinuteEvent \/ JobsDone \/ UNCHANGED vars
  <2>1. /\ tasks' = tasks /\ cached' = cached /\ pending' = pending
        /\ excused' = excused
    BY <1>5 DEF MinuteEvent, JobsDone, vars
  <2>2. QED
    BY <2>1, CertUntouched
<1>6. ASSUME NEW g \in BOOLEAN, ConfigChange(g)
      PROVE  CertInv'
  <2>1. PICK pub \in PublishChoices, keep \in KeepChoices :
          /\ tasks' = Reconfigured(Before(tasks, cached), g, pub, keep).t
          /\ cached' = Reconfigured(Before(tasks, cached), g, pub, keep).c
          /\ excused' = excused \cup
                Stolen(Reconfigured(Before(tasks, cached), g, pub, keep))
    BY <1>6 DEF ConfigChange
  <2> DEFINE q == Reconfigured(Before(tasks, cached), g, pub, keep)
  <2>2. pub \in BOOLEAN /\ keep \in BOOLEAN /\ "cert" \in {"cert", "init"}
    BY ServicesAssumption
  <2>3. Clean(Before(tasks, cached), q, {"cert", "init"})
    BY <1>0, <2>2, ReconfiguredClean
  <2>4. /\ tasks' = q.t /\ cached' = q.c /\ pending' = pending
        /\ excused' = excused \cup Stolen(q)
    BY <1>6, <2>1 DEF ConfigChange
  <2> HIDE DEF q
  <2>5. QED
    BY <1>0, <2>2, <2>3, <2>4, CleanStep
<1>7. ASSUME NEW s \in Slots, Kill(s)
      PROVE  CertInv'
  <2>1. /\ tasks' = Deader(tasks, {s}) /\ cached' = cached
        /\ "kill" \in excused' /\ tasks.ids[s] # Free
    BY <1>7 DEF Kill, Deader
  <2>2. Fits(tasks')
    BY Zenon, <1>0, <2>1, DeaderFine
  <2>3. QED
    BY <1>0, <2>1, <2>2 DEF CertInv, CertIn
<1>8. ASSUME NEW s \in Slots, RunCert(s)
      PROVE  CertInv'
  <2>1. /\ tasks' = Deader(tasks, {s}) /\ cached' = cached /\ pending' = FALSE
        /\ excused' = excused /\ tasks.job[s] = "cert"
    BY <1>8 DEF RunCert, Deader
  <2>2. tasks.ids[s] # Free /\ "cert" \notin Intervals
    BY Zenon, <1>0, <2>1 DEF FreeIsBare, None, Intervals
  <2>3. Fits(tasks') /\ Stays(tasks, tasks', Intervals)
    BY Zenon, <1>0, <2>1, <2>2, DeaderFine
  <2>4. Owned(tasks, cached) => Owned(tasks', cached)
    BY <2>3, StaysOwned
  <2>5. QED
    BY Zenon, <1>0, <2>1, <2>3, <2>4 DEF CertInv, CertIn
<1>9. ASSUME NEW s \in Slots, Reap(s)
      PROVE  CertInv'
  <2> DEFINE J == Intervals \cup {"cert"}
             u == ReapTask(tasks, s)
  <2>1. /\ tasks' = u /\ cached' = cached /\ pending' = pending
        /\ excused' = excused /\ s \in tasks.dead
    BY Zenon, <1>9 DEF Reap
  <2>2. /\ u.ids = [tasks.ids EXCEPT ![s] = Free]
        /\ u.job = [tasks.job EXCEPT ![s] = None]
        /\ u.dead = tasks.dead \ {s}
        /\ Short(tasks) => Short(u)
    BY Zenon, <1>0, ReapView
  <2>3. /\ tasks.ids \in [Slots -> TaskIdSet \cup {Free}]
        /\ tasks.job \in [Slots -> Jobs \cup {None}]
    BY Zenon, <1>0, FieldTypes
  <2> HIDE DEF u, J
  <2>4. Fits(u)
    BY Zenon, <1>0, <2>2, <2>3 DEF Fits
  <2>5. Stays(tasks, u, J)
    BY <2>1, <2>2, <2>3 DEF Stays
  <2>6. /\ Owned(tasks, cached) => Owned(u, cached)
        /\ HasCert(tasks) => HasCert(u)
    BY <2>5, StaysOwned DEF J
  <2>7. QED
    BY Zenon, <1>0, <2>1, <2>4, <2>6 DEF CertInv, CertIn
<1>10. QED
  BY <1>1, <1>2, <1>3, <1>4, <1>5, <1>6, <1>7, <1>8, <1>9, RunInitCert DEF Next

\* Until a task is killed from outside, the ids the MQTT service keeps are those
\* of its own living tasks, so no update takes over another's.
THEOREM CertInvariant == Spec => []CertInv
<1>1. Init => CertInv
  <2> SUFFICES ASSUME Init
               PROVE  CertInv
    OBVIOUS
  <2>1. Fits(NoTasks)
    <3>1. Len(<<>>) <= MaxServiceTasks
      BY TrackAssumption
    <3>2. \A p \in Services : NoTasks.tracked[p] = <<>>
      BY DEF NoTasks
    <3>3. NoTasks.dead = {}
      BY DEF NoTasks
    <3>4. QED
      BY <3>1, <3>2, <3>3 DEF Fits, Short
  <2>2. tasks = NoTasks /\ cached = [j \in Intervals |-> 0] /\ ~pending /\ excused = {}
    BY DEF Init
  <2>3. cached \in Cells /\ Owned(tasks, cached)
    BY <2>2 DEF Cells, Owned
  <2>4. QED
    BY <2>1, <2>2, <2>3 DEF CertInv, CertIn
<1>2. IInv /\ CertInv /\ [Next]_vars => CertInv'
  BY CertStep
<1>3. QED
  BY ServicesInvariant, <1>1, <1>2, PTL DEF Spec

\* The certificate flag of MdnsServiceProvider is up only while its task is due,
\* for any table, task list and number of operations, unless the table had no
\* slot for the task or somebody killed one.
THEOREM CertNotLostAlways == Spec => []CertNotLost
<1>1. CertInv => CertNotLost
  <2>1. JobsOf("MDNS") = {"cert"}
    BY DEF JobsOf
  <2>2. QED
    BY <2>1 DEF CertInv, CertIn, CertNotLost, HasCert, Live
<1>2. QED
  BY CertInvariant, <1>1, PTL

Excuses == {"kill", "full", "full_bus", "clash", "stolen"}

\* Only these are ever recorded.
LEMMA ExcusesStep ==
    ASSUME excused \subseteq Excuses, [Next]_vars
    PROVE  excused' \subseteq Excuses
<1>1. ASSUME NEW t, NEW c, StartMqtt(t, c) PROVE excused' \subseteq Excuses
  BY Zenon, <1>1 DEF StartMqtt, Stolen, Excuses
<1>2. ASSUME NEW t, NEW b, NEW ip, StartMdns(t, b, ip) PROVE excused' \subseteq Excuses
  BY <1>2 DEF StartMdns, Excuses
<1>3. ASSUME NEW b, StartCron(b) PROVE excused' \subseteq Excuses
  BY <1>3 DEF StartCron, Excuses
<1>4. ASSUME NEW p \in Services, Start(p) PROVE excused' \subseteq Excuses
  BY Zenon, <1>1, <1>2, <1>3, <1>4, ServicesAssumption DEF Start
<1>5. ASSUME NEW p \in Services, Stop(p) PROVE excused' \subseteq Excuses
  BY <1>5 DEF Stop
<1>6. ASSUME NEW p \in Services, Restart(p) PROVE excused' \subseteq Excuses
  BY Zenon, <1>1, <1>2, <1>3, <1>5, <1>6, ServicesAssumption DEF Restart
<1>7. CASE Boot
  <2>1. PICK i \in 1 .. Len(BootOrder) : Start(BootOrder[i])
    BY <1>7 DEF Boot
  <2>2. BootOrder[i] \in Services
    BY ServicesAssumption DEF BootOrder
  <2>3. QED
    BY <1>4, <2>1, <2>2
<1>8. ASSUME NEW p \in Services, StopOne(p) \/ StartOne(p) \/ RestartOne(p)
      PROVE  excused' \subseteq Excuses
  BY <1>4, <1>5, <1>6, <1>8 DEF StopOne, StartOne, RestartOne
<1>9. ASSUME NEW s, NEW g,
             \/ DropBroker \/ GotIp \/ MinuteEvent \/ JobsDone \/ ConfigChange(g)
             \/ Kill(s) \/ RunInit(s) \/ RunCert(s) \/ Reap(s) \/ UNCHANGED vars
      PROVE  excused' \subseteq Excuses
  BY Zenon, <1>9 DEF DropBroker, GotIp, MinuteEvent, JobsDone, ConfigChange, Kill,
                     RunInit, RunCert, Reap, vars, Stolen, Excuses
<1>10. QED
  BY <1>7, <1>8, <1>9 DEF Next

\* Every variable of the service model stays in its range: the tables never
\* overrun, a kept id is 0, -1 or an id, the dispatch stays on the list.
THEOREM ServicesTypeCorrect == Spec => []ServicesTypeOK
<1>1. Init => excused \subseteq Excuses
  BY DEF Init
<1>2. excused \subseteq Excuses /\ [Next]_vars => (excused \subseteq Excuses)'
  BY ExcusesStep
<1>3. IInv /\ BusInv /\ CertInv /\ excused \subseteq Excuses => ServicesTypeOK
  <2> SUFFICES ASSUME IInv, BusInv, CertInv, excused \subseteq Excuses
               PROVE  ServicesTypeOK
    OBVIOUS
  <2>1. /\ tasks.ids \in [Slots -> TaskIdSet \cup {Free}] /\ tasks.next \in TaskIdSet
        /\ tasks.job \in [Slots -> Jobs \cup {None}]
        /\ tasks.hook \in [Slots -> Services \cup {None}]
    BY Zenon, FieldTypes DEF IInv, Table
  <2>2. \A s \in Slots : tasks.ids[s] = Free =>
          tasks.job[s] = None /\ tasks.hook[s] = None /\ s \notin tasks.dead
    BY Zenon DEF IInv, Table, FreeIsBare, CertInv, CertIn, Fits
  <2>3. /\ \A p \in Services : Len(tasks.tracked[p]) <= MaxServiceTasks
        /\ cached \in [Intervals -> TaskIdSet \cup {0, Nothing}]
    BY Zenon DEF CertInv, CertIn, Fits, Short, Cells
  <2>4. state \in [Services -> {"BOOT", "ACTIVE", "FAILED", "INACTIVE"}]
    BY DEF IInv, States
  <2>5. /\ Len(bus.slots) <= MaxListeners /\ bus.next \in 1 .. MaxListenerId
        /\ at \in 0 .. Len(bus.slots)
    BY DEF BusInv, Bus
  <2>6. QED
    BY Zenon, <2>1, <2>2, <2>3, <2>4, <2>5 DEF ServicesTypeOK, Excuses
<1>4. QED
  BY ServicesInvariant, BusInvariant, CertInvariant, <1>1, <1>2, <1>3, PTL DEF Spec
=============================================================================
