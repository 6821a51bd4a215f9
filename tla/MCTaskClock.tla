---------------------------- MODULE MCTaskClock ----------------------------
(***************************************************************************)
(* TaskScheduler beside the time that really passes: millis_now() is 32    *)
(* bits wide and starts again from 0, real time does not.                  *)
(***************************************************************************)
EXTENDS TaskScheduler

CONSTANT MaxReal   \* bound: real time explored

MCForever == {-1}       \* setInterval only

VARIABLES
    real,    \* milliseconds since boot, never starting again
    ranAt    \* ranAt[s]: when the task in s last ran or was last (re)timed

clockHistory == <<real, ranAt>>

\* the slot's task was registered, or rescheduled with a new time
Retimed(s) ==
    /\ pc' = pc /\ ApiOpen
    /\ \/ tasks'[s].id # tasks[s].id
       \/ tasks'[s].last # tasks[s].last
       \/ tasks'[s].duration # tasks[s].duration

Starts(s) == pc' = "callback" /\ pc # "callback" /\ cur' = s

ClockInit == Init /\ real = 0 /\ ranAt = [s \in Slots |-> 0]

ClockNext ==
    /\ Next
    /\ real' = IF now' # now THEN real + 1 ELSE real
    /\ real' <= MaxReal
    /\ ranAt' = [s \in Slots |-> IF Retimed(s) \/ Starts(s) THEN real ELSE ranAt[s]]

ClockSpec ==
    /\ ClockInit /\ [][ClockNext]_<<vars, clockHistory>>
    /\ WF_vars(HandleTasks)

-----------------------------------------------------------------------------
\* an inline task nothing holds back
Eligible(s) ==
    /\ tasks[s].mode = "inline"
    /\ tasks[s].fn
    /\ tasks[s].attempts # 0
    /\ tasks[s].state # "STOPPED"

\* Ordering a pass, a task whose interval has really elapsed since it last ran
\* is never put behind one that is not due (README 4.2: "a 300-second task
\* cannot sit at the head of the queue keeping a 1 ms listener off the CPU").
\* The first inline task is the only one the pass considers.
ElapsedGoesFirst ==
    [][pc = "idle" /\ pc' = "pass" =>
          \A i, j \in DOMAIN order' :
             /\ i < j
             /\ Eligible(order'[j])
             /\ real - ranAt[order'[j]] >= tasks[order'[j]].duration
             => Due(tasks[order'[i]])]_<<vars, clockHistory>>

=============================================================================
