----------------------------- MODULE MCTaskIds -----------------------------
(***************************************************************************)
(* TaskIds with a history of how many registrations ago each id was handed *)
(* out, saturating at MaxTaskId.                                           *)
(***************************************************************************)
EXTENDS TaskIds

VARIABLE since   \* since[i]: registrations since id i was last issued

Older(n) == IF n < MaxTaskId THEN n + 1 ELSE n

MCInit == IdInit /\ since = [i \in TaskIdSet |-> MaxTaskId]

MCIssue ==
    /\ Issue
    /\ since' = [i \in TaskIdSet |->
                    IF i = NewId(ids, cursor) THEN 0 ELSE Older(since[i])]

MCRelease(s) == Release(s) /\ UNCHANGED since

MCNext == MCIssue \/ \E s \in Slots : MCRelease(s)

MCSpec == MCInit /\ [][MCNext]_<<ids, cursor, since>>

\* An id that has been handed out is not handed out again before at least
\* MaxTaskId - NSlots other registrations: the distance that keeps a caller
\* with the id of an ended task off the task that followed it (the comment in
\* get_unique_task_id: "not handed straight to the next one registered").
ReuseDistance ==
    [][\A s \in Slots :
          ids[s] # ids'[s] /\ ids'[s] # Free
              => since[ids'[s]] >= MaxTaskId - NSlots]_<<ids, cursor, since>>
=============================================================================
