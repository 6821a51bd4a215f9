--------------------------- MODULE TaskFairness ---------------------------
(***************************************************************************)
(* Who runs when more tasks are due than the main loop has passes: the     *)
(* least-vruntime selection of getSortedTaskList, the charge of            *)
(* handle_tasks, the starting vruntime of register_task, and the setters   *)
(* that change what a task is charged while it competes.  The interval of  *)
(* every interval task has elapsed again by its next pass.                 *)
(*                                                                         *)
(* Only differences of vruntime are compared, so each step subtracts the   *)
(* least one: the state stays finite without a bound on time.              *)
(***************************************************************************)
EXTENDS TaskWeight, FiniteSets

CONSTANTS
    Tasks,         \* the tasks that compete
    OneShots,      \* those that are a chain of timeouts: each run registers
                   \* the next link and ends
    LinksWait,     \* whether a link's timeout is longer than a pass
    Tuned,         \* tasks whose priority, nice or policy callers change
    Priorities,    \* priorities callers pass
    Nices,         \* nice values callers pass
    Policies,      \* policies callers pass
    ExecTimes      \* run times, in microseconds

ASSUME FairnessAssumption ==
    /\ Tasks # {} /\ IsFiniteSet(Tasks)
    /\ OneShots \subseteq Tasks
    /\ LinksWait \in BOOLEAN
    /\ Tuned \subseteq Tasks \ OneShots
    /\ Priorities \subseteq 0 .. 255
    /\ Nices \subseteq -128 .. 127
    /\ Policies \subseteq {"FIFO", "ROUNDROBIN", "DEADLINE", "FAIRSHARE"}
    /\ ExecTimes \subseteq Nat

VARIABLES
    attr,      \* m_task_priority, m_nice, m_task_policy and m_weight of each task
    vrt,       \* m_vruntime of each task
    minVrt,    \* m_min_vruntime
    waiting,   \* links whose timeout has not elapsed
    ran,       \* history: the task the last pass ran
    odd        \* history: whether the number of passes so far is odd

fairVars == <<attr, vrt, minVrt, waiting, ran, odd>>

Floor(v, m) ==
    CHOOSE x \in {v[t] : t \in Tasks} \cup {m} :
        \A y \in {v[t] : t \in Tasks} \cup {m} : x <= y

\* the vruntimes v and the floor m, counted from the least of them
Rebased(v, m) ==
    /\ vrt' = [t \in Tasks |-> v[t] - Floor(v, m)]
    /\ minVrt' = m - Floor(v, m)

\* register_task: FIFO, nice 0, the caller's priority
FairInit ==
    /\ \E p \in Priorities :
          LET q == Clamped(p, 0, MaxPriority)
          IN attr = [t \in Tasks |-> [priority |-> q, nice |-> 0, policy |-> "FIFO",
                                      weight |-> Weight(q, 0, "FIFO")]]
    /\ vrt = [t \in Tasks |-> 0]
    /\ minVrt = 0
    /\ waiting = {}
    /\ ran \in Tasks
    /\ odd = FALSE

-----------------------------------------------------------------------------
(* A pass *)

Ran(t) == ran' = t /\ odd' = ~odd


Selected(t) == t \notin waiting /\ \A u \in Tasks \ waiting : vrt[t] <= vrt[u]

FloorAfter(t) == IF vrt[t] > minVrt THEN vrt[t] ELSE minVrt

\* a slip: the run is not charged
RunIntervalFree(t) ==
    /\ t \notin OneShots
    /\ Selected(t)
    /\ Rebased(vrt, FloorAfter(t))
    /\ waiting' = {}
    /\ Ran(t)
    /\ UNCHANGED attr

RunInterval(t) ==
    /\ t \notin OneShots
    /\ Selected(t)
    /\ \E us \in ExecTimes :
          Rebased([vrt EXCEPT ![t] = @ + Charge(us, attr[t].weight)], FloorAfter(t))
    /\ waiting' = {}
    /\ Ran(t)
    /\ UNCHANGED attr

\* the link that ran takes its charge with it when it is swept; the next one
\* was registered inside its callback, at the floor
RunOneShot(t) ==
    /\ t \in OneShots
    /\ Selected(t)
    /\ Rebased([vrt EXCEPT ![t] = FloorAfter(t)], FloorAfter(t))
    /\ waiting' = IF LinksWait THEN waiting \cup {t} ELSE {}
    /\ Ran(t)
    /\ UNCHANGED attr

Pass == \E t \in Tasks : RunInterval(t) \/ RunOneShot(t)

-----------------------------------------------------------------------------
(* The setters *)

SetTaskPriority(t, p) ==
    LET q == Clamped(p, 0, MaxPriority)
    IN /\ attr' = [attr EXCEPT ![t].priority = q,
                               ![t].weight = Weight(q, attr[t].nice, attr[t].policy)]
       /\ UNCHANGED <<vrt, minVrt, waiting, ran, odd>>

\* a slip: the cached weight is not recomputed
SetTaskNiceStale(t, n) ==
    /\ attr' = [attr EXCEPT ![t].nice = Clamped(n, -20, 19)]
    /\ UNCHANGED <<vrt, minVrt, waiting, ran, odd>>

SetTaskNice(t, n) ==
    LET m == Clamped(n, -20, 19)
    IN /\ attr' = [attr EXCEPT ![t].nice = m,
                               ![t].weight = Weight(attr[t].priority, m, attr[t].policy)]
       /\ UNCHANGED <<vrt, minVrt, waiting, ran, odd>>

SetTaskPolicy(t, pol) ==
    /\ attr' = [attr EXCEPT ![t].policy = pol,
                            ![t].weight = Weight(attr[t].priority, attr[t].nice, pol)]
    /\ UNCHANGED <<vrt, minVrt, waiting, ran, odd>>

Setter ==
    \E t \in Tuned :
        \/ \E p \in Priorities : SetTaskPriority(t, p)
        \/ \E n \in Nices : SetTaskNice(t, n)
        \/ \E pol \in Policies : SetTaskPolicy(t, pol)

FairNext == Pass \/ Setter

\* serve() is called for ever; of two tasks level on vruntime, computeScore's
\* lateness term in time prefers the one that has waited longer
FairSpec ==
    /\ FairInit /\ [][FairNext]_fairVars
    /\ WF_fairVars(Pass)
    /\ \A t \in Tasks : SF_fairVars(RunInterval(t))

-----------------------------------------------------------------------------
\* No due task is starved: each one runs again and again, however light it is
\* and however often the others are reniced (README, features: "no task can be
\* starved by a busier one at a higher priority"; 4.2: a newly registered task
\* "cannot arrive owing nothing and monopolise the CPU").
NoStarvation == \A t \in Tasks : []<>(ran = t)

\* What the lightest task is charged for the longest run, at the attributes
\* callers set.
DearestCharge ==
    LET Charges == {Charge(us, Weight(Clamped(p, 0, MaxPriority), Clamped(n, -20, 19), pol)) :
                       us \in ExecTimes, p \in Priorities, n \in Nices \cup {0},
                       pol \in Policies \cup {"FIFO"}}
    IN CHOOSE c \in Charges : \A d \in Charges : d <= c


\* Whatever order the setters were called in, the cached weight is the one the
\* task's priority, nice and policy give (README 4.2: "no caller can move one
\* of the three without the weight following"), at least 1 and within 32 bits.
WeightInStep ==
    \A t \in Tasks :
        /\ attr[t].weight = Weight(attr[t].priority, attr[t].nice, attr[t].policy)
        /\ attr[t].weight \in 1 .. 2^30

=============================================================================
