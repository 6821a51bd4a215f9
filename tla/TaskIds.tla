------------------------------ MODULE TaskIds ------------------------------
(***************************************************************************)
(* What the task table promises about identities: the table has a fixed    *)
(* number of slots, a slot is given to one task at a time, a task keeps    *)
(* its slot and its id until the slot is released, and ids advance round   *)
(* a ring of MaxTaskId values, stepping over the ones in use.              *)
(*                                                                         *)
(* Code: register_task, get_unique_task_id and remove_expired_tasks of     *)
(* src/src/utility/TaskScheduler.cpp.  TaskScheduler.tla implements this.  *)
(***************************************************************************)
EXTENDS TaskTable

VARIABLES
    ids,     \* ids[s]: m_tasks[s].m_task_id
    cursor   \* m_next_task_id

idVars == <<ids, cursor>>

IdInit ==
    /\ ids = [s \in Slots |-> Free]
    /\ cursor = 1

Issue ==
    /\ FreeSlots(ids) # {}
    /\ FreeTries(ids, cursor) # {}
    /\ ids' = [ids EXCEPT ![FirstFree(ids)] = NewId(ids, cursor)]
    /\ cursor' = CursorAfter(ids, cursor)

Release(s) ==
    /\ ids[s] # Free
    /\ ids' = [ids EXCEPT ![s] = Free]
    /\ UNCHANGED cursor

IdNext == Issue \/ \E s \in Slots : Release(s)

IdSpec == IdInit /\ [][IdNext]_idVars

-----------------------------------------------------------------------------
\* Every slot carries no id or one id of the ring, and the cursor stays on
\* the ring (m_tasks and m_next_task_id).
IdTypeOK ==
    /\ ids \in [Slots -> TaskIdSet \cup {Free}]
    /\ cursor \in TaskIdSet

\* No two live tasks share an id, so get_task and is_registered_task, which
\* scan for an id, cannot resolve to the wrong slot ("unique ID").
UniqueIds ==
    \A r, s \in Slots : r # s /\ ids[r] # Free => ids[r] # ids[s]

\* The bounded search of get_unique_task_id never gives up while the ring is
\* longer than the table: register_task fails only for want of a slot.
SearchSucceeds == FreeTries(ids, cursor) # {}
=============================================================================
