---------------------------- MODULE ServiceTasks ----------------------------
(***************************************************************************)
(* How a service keeps track of its scheduler tasks                        *)
(* (src/src/service_provider/ServiceProvider.h), as operators on one       *)
(* record t that holds the part of the task table a service sees:          *)
(*                                                                         *)
(*   t.ids, t.next   slot -> id, and the id cursor (TaskTable)             *)
(*   t.job           slot -> what its callback does                        *)
(*   t.dead          the slots with m_max_attempts = 0, waiting for a reap *)
(*   t.hook          slot -> the service its finalizer belongs to          *)
(*   t.tracked       service -> m_service_task_ids                         *)
(*   t.routine       service -> m_service_routine_task_id                  *)
(*   t.missed        ids trackServiceTask had no room for (history)        *)
(***************************************************************************)
EXTENDS TaskTable, Sequences

CONSTANTS
    Services,         \* the ServiceProvider instances
    MaxServiceTasks   \* MAX_SERVICE_TASKS, the length of m_service_task_ids

ASSUME TrackAssumption == MaxServiceTasks \in Nat

None == "none"
Nothing == -1        \* the id of no task

Tracks(t, p, id) == \E i \in 1 .. Len(t.tracked[p]) : t.tracked[p][i] = id

\* is_registered_task, and the slot it finds
Registered(t, id) == id # Nothing /\ \E s \in Slots : t.ids[s] = id
SlotOf(t, id) == CHOOSE s \in Slots : t.ids[s] = id

NoTasks ==
    [ids     |-> [s \in Slots |-> Free],
     next    |-> 1,
     job     |-> [s \in Slots |-> None],
     dead    |-> {},
     hook    |-> [s \in Slots |-> None],
     tracked |-> [p \in Services |-> <<>>],
     routine |-> [p \in Services |-> Nothing],
     missed  |-> {}]

-----------------------------------------------------------------------------
CanRegister(t) == FreeSlots(t.ids) # {} /\ FreeTries(t.ids, t.next) # {}

RegisteredId(t) == IF CanRegister(t) THEN NewId(t.ids, t.next) ELSE Nothing

RegisterTask(t, j) ==
    [t EXCEPT !.ids[FirstFree(t.ids)] = NewId(t.ids, t.next),
              !.next = CursorAfter(t.ids, t.next),
              !.job[FirstFree(t.ids)] = j]

\* clearInterval and clearTimeout: the slot waits for the next reap
ClearTask(t, id) ==
    IF Registered(t, id) THEN [t EXCEPT !.dead = @ \cup {SlotOf(t, id)}] ELSE t

\* trackServiceTask: a full list refuses; a finalizer another has set is kept
TrackServiceTask(t, p, id) ==
    IF Tracks(t, p, id) THEN t
    ELSE IF Len(t.tracked[p]) >= MaxServiceTasks
    THEN [t EXCEPT !.missed = @ \cup {id}]
    ELSE [t EXCEPT !.tracked[p] = Append(@, id),
                   !.hook[SlotOf(t, id)] = IF @ = None THEN p ELSE @,
                   !.routine[p] = IF @ < 0 THEN id ELSE @,
                   !.missed = @ \ {id}]

\* the entries after the one that goes move down one place
Without(list, id) ==
    LET i == CHOOSE k \in 1 .. Len(list) : list[k] = id
    IN  [k \in 1 .. Len(list) - 1 |-> IF k < i THEN list[k] ELSE list[k + 1]]

UntrackServiceTask(t, p, id) ==
    IF ~Tracks(t, p, id) THEN t
    ELSE LET rest == Without(t.tracked[p], id)
             first == IF Len(rest) > 0 THEN rest[1] ELSE Nothing
         IN  [t EXCEPT !.tracked[p] = rest,
                       !.routine[p] = IF @ = id THEN first ELSE @]

\* serviceSetInterval and serviceSetTimeout
ServiceSet(t, p, j) ==
    IF CanRegister(t)
    THEN TrackServiceTask(RegisterTask(t, j), p, NewId(t.ids, t.next))
    ELSE t

\* serviceUpdateInterval: an id still registered keeps its slot and is given
\* the callback, and new attempts; any other id gets a new task
ServiceUpdate(t, p, id, j) ==
    IF Registered(t, id)
    THEN TrackServiceTask([t EXCEPT !.job[SlotOf(t, id)] = j,
                                    !.dead = @ \ {SlotOf(t, id)}], p, id)
    ELSE ServiceSet(t, p, j)

UpdatedId(t, id) == IF Registered(t, id) THEN id ELSE RegisteredId(t)

\* one round of remove_expired_tasks: the finalizer, then the slot
ReapTask(t, s) ==
    LET u == IF t.hook[s] = None THEN t
             ELSE UntrackServiceTask(t, t.hook[s], t.ids[s])
    IN  [u EXCEPT !.ids[s] = Free, !.job[s] = None, !.hook[s] = None,
                  !.dead = @ \ {s}, !.missed = @ \ {t.ids[s]}]

TrackedSlots(t, p) == {s \in Slots : t.ids[s] # Free /\ Tracks(t, p, t.ids[s])}

\* slips: stopService leaves the finalizers on, or the tasks running
StopKeepsHooks(t, p) ==
    [t EXCEPT !.dead = @ \cup TrackedSlots(t, p),
              !.tracked[p] = <<>>, !.routine[p] = Nothing]
StopKeepsTasks(t, p) ==
    [t EXCEPT !.hook = [s \in Slots |-> IF s \in TrackedSlots(t, p)
                                        THEN None ELSE t.hook[s]],
              !.tracked[p] = <<>>, !.routine[p] = Nothing]

\* the loop of stopService over the tracked tasks
StopTasks(t, p) ==
    [t EXCEPT !.hook = [s \in Slots |-> IF s \in TrackedSlots(t, p)
                                        THEN None ELSE t.hook[s]],
              !.dead = @ \cup TrackedSlots(t, p),
              !.tracked[p] = <<>>, !.routine[p] = Nothing]
=============================================================================
