------------------------------ MODULE TaskTable ------------------------------
(***************************************************************************)
(* The task table of src/src/utility/TaskScheduler.cpp as pure operators:  *)
(* how register_task finds a slot and get_unique_task_id finds an id.      *)
(***************************************************************************)
EXTENDS Integers

CONSTANTS
    NSlots,      \* MAX_SCHEDULABLE_TASKS, the length of m_tasks (= m_max_tasks)
    MaxTaskId    \* MAX_TASK_ID, where ids start again from 1

ASSUME SlotsAssumption == NSlots \in Nat \ {0}

\* 25 slots and ids to 32000: every table leaves an id to hand out
ASSUME IdsAssumption == MaxTaskId \in Nat /\ MaxTaskId > NSlots

Slots == 1 .. NSlots
TaskIdSet == 1 .. MaxTaskId
Free == -1               \* the id a free slot carries

\* a slip: the cursor never starts again from 1
CandidateNoWrap(n, k) == n + k

\* the k-th id get_unique_task_id tries, counting from m_next_task_id
Candidate(n, k) == IF n + k > MaxTaskId THEN n + k - MaxTaskId ELSE n + k

\* slips: the id is not looked up, or the search gives up after one id in use
FreeTriesUnchecked(tbl, n) == 0 .. NSlots
FreeTriesOnce(tbl, n) == {k \in {0} : \A s \in Slots : tbl[s] # Candidate(n, k)}

\* the rounds of the search that would find an unused id
FreeTries(tbl, n) ==
    {k \in 0 .. NSlots : \A s \in Slots : tbl[s] # Candidate(n, k)}

\* the first of them: the search stops there and leaves the cursor after it
FirstTry(tbl, n) ==
    CHOOSE k \in FreeTries(tbl, n) : \A j \in FreeTries(tbl, n) : k <= j

NewId(tbl, n) == Candidate(n, FirstTry(tbl, n))
CursorLowest(tbl, n) == 1   \* a slip: the lowest gap is filled again
CursorAfter(tbl, n) == Candidate(n, FirstTry(tbl, n) + 1)

\* register_task claims the first free slot
FreeSlots(tbl) == {s \in Slots : tbl[s] = Free}
FirstFree(tbl) == CHOOSE s \in FreeSlots(tbl) : \A r \in FreeSlots(tbl) : s <= r
=============================================================================
