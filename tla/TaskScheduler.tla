--------------------------- MODULE TaskScheduler ---------------------------
(***************************************************************************)
(* The task scheduler, src/src/utility/TaskScheduler.cpp: a fixed table of *)
(* task records, the pass handle_tasks makes over it from the main loop,   *)
(* the sweep that releases ended tasks, the calls the rest of the stack    *)
(* makes on the table, and the lane executives (cooperative, preemptive)   *)
(* a task can be promoted to.                                              *)
(*                                                                         *)
(* Steps of the main loop stop where foreign code runs: inside a task's    *)
(* callback and inside a finalizer the whole API may be called.            *)
(*                                                                         *)
(* Data kept: what selection, lifetime and signals read.  A run's charge   *)
(* (exec time * TASK_WEIGHT_NOMINAL / weight) is any member of Charges,    *)
(* which stands for priority, nice and policy; names and owners stand as   *)
(* the set of tasks they select; ties after vruntime are broken any way.   *)
(***************************************************************************)
EXTENDS TaskTable, Sequences, FiniteSets

CONSTANTS
    Durations,     \* intervals callers ask for, in ms
    Attempts,      \* attempt counts callers ask for (-1: for ever)
    Signals,       \* signals callers send, of KILL (or TERM), STOP, CONT, HUP
    Finalizers,    \* what callers pass to setTaskFinalizer: a hook, or none
    Execs,         \* lane executives that fit in memory
    Charges,       \* what one run may add to a task's vruntime
    SelfUpdates,   \* whether a callback may reschedule its own task
    ClockMod,      \* bound: millis_now() counts modulo this (2^32)
    ClockWraps,    \* bound: whether time goes on when the clock is back at 0
    MaxVruntime    \* bound: vruntime saturates here

ASSUME TimeAssumption ==
    /\ Durations \subseteq Nat
    /\ Charges \subseteq Nat
    /\ ClockMod \in Nat \ {0}
    /\ ClockWraps \in BOOLEAN
    /\ MaxVruntime \in Nat

ASSUME CallerAssumption ==
    /\ Attempts \subseteq Int \ {0}
    /\ Signals \subseteq {"KILL", "STOP", "CONT", "HUP"}
    /\ SelfUpdates \in BOOLEAN
    /\ Finalizers \subseteq BOOLEAN
    /\ Execs \subseteq Nat \ {0}

NoExec == 0
NoLane == [st |-> "none", tid |-> Free]
RemovedDuration == 10   \* what remove_task leaves in m_duration
MaxCatchUp == 4         \* rounds of the catch-up loop: "++catchupround > 3"

VARIABLES
    tasks,    \* m_tasks
    nextId,   \* m_next_task_id
    minVrt,   \* m_min_vruntime
    lane,     \* the executives: their state and the task id each was made for
    now,      \* millis_now()
    pc,       \* where the main loop is
    order,    \* _priority_indices, what is left of it
    cur,      \* slot of the running callback or finalizer; the sweep's index
    start,    \* _last_start_ms of the task being run
    back      \* where a finalizer returns to

apiVars == <<tasks, nextId, lane>>
loopVars == <<pc, order, cur, start, back, minVrt>>
vars == <<tasks, nextId, lane, now, pc, order, cur, start, back, minVrt>>

TableIds == [s \in Slots |-> tasks[s].id]
Live == {s \in Slots : tasks[s].id # Free}
SlotOf(id) == CHOOSE s \in Live : tasks[s].id = id

-----------------------------------------------------------------------------
(* Task records *)

\* task_t::clear(): every field but m_task_exec
Cleared(t) ==
    [id |-> Free, fn |-> FALSE, duration |-> 0, last |-> 0, attempts |-> 0,
     vrt |-> 0, mode |-> "inline", state |-> "READY", sig |-> "NONE",
     fin |-> FALSE, stoppable |-> TRUE, exec |-> t.exec]

Registered(t, id, d, l, a) ==
    [t EXCEPT !.id = id, !.fn = TRUE, !.duration = d, !.last = l,
              !.attempts = a, !.vrt = minVrt, !.state = "SLEEPING"]

Updated(t, d, l, a) ==
    [t EXCEPT !.fn = TRUE, !.duration = d, !.attempts = a,
              !.last = IF l = 0 THEN @ ELSE l]

\* a slip: the executive is left in the record
RemovedWithExec(t) ==
    [t EXCEPT !.fn = FALSE, !.duration = RemovedDuration, !.attempts = 0,
              !.state = "ZOMBIE"]

Removed(t) ==
    [t EXCEPT !.fn = FALSE, !.duration = RemovedDuration, !.attempts = 0,
              !.state = "ZOMBIE", !.exec = NoExec]

\* a slip: the slot is released at once
RemoveIdAtOnce(tbl, id) ==
    [s \in Slots |-> IF tbl[s].id = id THEN Cleared(tbl[s]) ELSE tbl[s]]

\* remove_task(id) over the whole table
RemoveId(tbl, id) ==
    [s \in Slots |-> IF tbl[s].id = id THEN Removed(tbl[s]) ELSE tbl[s]]

\* a slip: STOP is cleared but not acted on
SignalledUnstopped(t) ==
    [t EXCEPT !.sig = "NONE",
              !.fn = IF t.sig = "KILL" THEN FALSE ELSE @,
              !.attempts = IF t.sig = "KILL" THEN 0 ELSE @,
              !.state = IF t.sig = "KILL" THEN "ZOMBIE" ELSE @]

\* an inline task takes its pending signal
Signalled(t) ==
    [t EXCEPT !.sig = "NONE",
              !.fn = IF t.sig = "KILL" THEN FALSE ELSE @,
              !.attempts = IF t.sig = "KILL" THEN 0 ELSE @,
              !.state = CASE t.sig = "KILL" -> "ZOMBIE"
                          [] t.sig = "STOP" -> "STOPPED"
                          [] t.sig = "CONT" /\ @ = "STOPPED" -> "SLEEPING"
                          [] OTHER -> @]

\* (a - b) >= d in unsigned 64-bit arithmetic: a < b wraps to a huge value
AtLeast(a, b, d) == a < b \/ a - b >= d

\* a clock that has gone back drags the last run with it
Rewound(t) == [t EXCEPT !.last = IF now < @ THEN now ELSE @]

Due(t) == now >= t.last + t.duration


\* the catch-up loop: whole intervals, as many as fit, capped
CatchUpRounds(t) ==
    {k \in 0 .. MaxCatchUp :
        \A j \in 0 .. k - 1 : AtLeast(start, t.last + j * t.duration, t.duration)}
CatchUp(t) ==
    t.last + t.duration *
        (CHOOSE k \in CatchUpRounds(t) : \A j \in CatchUpRounds(t) : j <= k)

Saturated(v) == IF v > MaxVruntime THEN MaxVruntime ELSE v

\* everything handle_tasks does to a record after its callback returns
AfterRun(t, charge) ==
    LET left == IF t.attempts > 0 THEN t.attempts - 1 ELSE t.attempts
    IN [t EXCEPT !.vrt = Saturated(@ + charge),
                 !.last = IF @ = 0 THEN start ELSE CatchUp(t),
                 !.attempts = left,
                 !.state = IF left = 0 THEN "ZOMBIE" ELSE "SLEEPING"]

-----------------------------------------------------------------------------
Init ==
    /\ tasks = [s \in Slots |-> Cleared([exec |-> NoExec])]
    /\ nextId = 1
    /\ minVrt = 0
    /\ lane = [e \in Execs |-> NoLane]
    /\ now = 0
    /\ pc = "idle"
    /\ order = <<>>
    /\ cur = 0
    /\ start = 0
    /\ back = "sweep"

\* real time moves whatever the main loop is doing
Tick ==
    /\ now < ClockMod - 1 \/ ClockWraps
    /\ now' = (now + 1) % ClockMod
    /\ UNCHANGED <<apiVars, loopVars>>

-----------------------------------------------------------------------------
(* handle_tasks: the pass *)

\* a slip: vruntime alone orders the list
BeforeUngated(s, r) == tasks[s].vrt < tasks[r].vrt

\* getSortedTaskList: due before not due, then least vruntime
Before(s, r) ==
    \/ Due(tasks[s]) /\ ~Due(tasks[r])
    \/ Due(tasks[s]) = Due(tasks[r]) /\ tasks[s].vrt < tasks[r].vrt

SortedLists ==
    {q \in [1 .. Cardinality(Live) -> Live] :
        \A i, j \in DOMAIN q : i < j => q[i] # q[j] /\ ~Before(q[j], q[i])}

BeginPass ==
    /\ pc = "idle"
    /\ order' \in SortedLists
    /\ pc' = "pass"
    /\ UNCHANGED <<apiVars, now, cur, start, back, minVrt>>

EndOfList ==
    /\ pc = "pass" /\ order = <<>>
    /\ pc' = "sweep"
    /\ cur' = 1
    /\ UNCHANGED <<apiVars, now, order, start, back, minVrt>>

Enter(s, where, returnTo) ==
    /\ pc' = where
    /\ cur' = s
    /\ back' = returnTo

\* a lane task: its signal goes to the executive (suspend, resume, terminate)
LaneStateAfter(t, st) ==
    CASE t.sig = "KILL" -> "finished"
      [] t.sig = "STOP" /\ t.stoppable /\ st # "finished" -> "mute"
      [] t.sig = "CONT" /\ t.stoppable /\ st = "mute" -> "ready"
      [] OTHER -> st

LaneSignalled(t) ==
    [t EXCEPT !.sig = "NONE",
              !.state = CASE t.sig = "STOP" /\ t.stoppable -> "STOPPED"
                          [] t.sig = "CONT" /\ t.stoppable /\ @ = "STOPPED"
                                 -> "SLEEPING"
                          [] OTHER -> @]

\* ... and a finished executive is reaped: destroyed, its task removed, the
\* task's finalizer run at once
LaneTask ==
    /\ pc = "pass" /\ order # <<>>
    /\ LET s == Head(order)
           t == tasks[s]
           st == LaneStateAfter(t, lane[t.exec].st)
           signalled == [tasks EXCEPT ![s] = LaneSignalled(t)]
           reaped == RemoveId(signalled, lane[t.exec].tid)
       IN /\ t.mode = "lane" /\ t.exec # NoExec
          /\ IF st = "finished"
             THEN /\ tasks' = [reaped EXCEPT ![s].fin = FALSE]
                  /\ lane' = [lane EXCEPT ![t.exec] = NoLane]
                  /\ IF t.fin THEN Enter(s, "finalizer", "pass")
                              ELSE UNCHANGED <<pc, cur, back>>
             ELSE /\ tasks' = signalled
                  /\ lane' = [lane EXCEPT ![t.exec].st = st]
                  /\ UNCHANGED <<pc, cur, back>>
    /\ order' = Tail(order)
    /\ UNCHANGED <<nextId, now, start, minVrt>>

\* tasks the loop steps over: a lane task without its executive, an inline
\* task that is killed here, one that is or becomes stopped
SkippedTask ==
    /\ pc = "pass" /\ order # <<>>
    /\ LET s == Head(order)
           t == tasks[s]
       IN \/ /\ t.mode = "lane" /\ t.exec = NoExec
             /\ UNCHANGED tasks
          \/ /\ t.mode = "inline"
             /\ t.sig = "KILL" \/ Signalled(t).state = "STOPPED"
             /\ tasks' = [tasks EXCEPT ![s] = Signalled(t)]
    /\ order' = Tail(order)
    /\ UNCHANGED <<nextId, lane, now, pc, cur, start, back,
                   minVrt>>

\* the first inline task that is neither: it is considered, and the pass ends
Considered(s, t) ==
    /\ pc = "pass" /\ order # <<>>
    /\ s = Head(order)
    /\ tasks[s].mode = "inline"
    /\ tasks[s].sig # "KILL"
    /\ t = Rewound(Signalled(tasks[s]))
    /\ t.state # "STOPPED"

Runnable(t) == t.attempts # 0 /\ AtLeast(now, t.last, t.duration) /\ t.fn

StartTask ==
    /\ \E s \in Slots : \E t \in {Rewound(Signalled(tasks[s]))} :
          /\ Considered(s, t)
          /\ Runnable(t)
          /\ tasks' = [tasks EXCEPT ![s] = [t EXCEPT !.state = "RUNNING"]]
          /\ minVrt' = IF t.vrt > minVrt THEN t.vrt ELSE minVrt
          /\ Enter(s, "callback", "sweep")
    /\ start' = now
    /\ order' = <<>>
    /\ UNCHANGED <<nextId, lane, now>>

IdlePass ==
    /\ \E s \in Slots : \E t \in {Rewound(Signalled(tasks[s]))} :
          /\ Considered(s, t)
          /\ ~Runnable(t)
          /\ tasks' = [tasks EXCEPT ![s] = t]
    /\ pc' = "sweep"
    /\ cur' = 1
    /\ order' = <<>>
    /\ UNCHANGED <<nextId, lane, now, start, back, minVrt>>

CallbackReturns ==
    /\ pc = "callback"
    /\ \E c \in Charges :
          tasks' = [tasks EXCEPT ![cur] = AfterRun(tasks[cur], c)]
    /\ pc' = "sweep"
    /\ cur' = 1
    /\ start' = 0
    /\ UNCHANGED <<nextId, lane, now, order, back, minVrt>>

-----------------------------------------------------------------------------
(* remove_expired_tasks: the sweep *)

Expired(s) == tasks[s].id # Free /\ tasks[s].attempts = 0
ToReleaseShort == {s \in cur .. NSlots - 1 : Expired(s)}   \* a slip: one slot short
ToRelease == {s \in cur .. NSlots : Expired(s)}
NextExpired == CHOOSE s \in ToRelease : \A r \in ToRelease : s <= r

ReleaseSlot(s) == tasks' = [tasks EXCEPT ![s] = Cleared(tasks[s])]

\* a slip: the record is cleared without a look at the finalizer
SweepStepBare ==
    /\ pc = "sweep"
    /\ ToRelease # {}
    /\ ReleaseSlot(NextExpired)
    /\ cur' = NextExpired + 1
    /\ UNCHANGED <<nextId, lane, now, pc, order, start, back, minVrt>>

SweepStep ==
    /\ pc = "sweep"
    /\ ToRelease # {}
    /\ IF tasks[NextExpired].fin
       THEN /\ tasks' = [tasks EXCEPT ![NextExpired].fin = FALSE]
            /\ Enter(NextExpired, "finalizer", "sweep")
       ELSE /\ ReleaseSlot(NextExpired)
            /\ cur' = NextExpired + 1
            /\ UNCHANGED <<pc, back>>
    /\ UNCHANGED <<nextId, lane, now, order, start, minVrt>>

FinalizerReturns ==
    /\ pc = "finalizer"
    /\ IF back = "sweep"
       THEN ReleaseSlot(cur) /\ cur' = cur + 1
       ELSE UNCHANGED tasks /\ cur' = 0
    /\ pc' = back
    /\ back' = "sweep"
    /\ UNCHANGED <<nextId, lane, now, order, start, minVrt>>

EndOfPass ==
    /\ pc = "sweep"
    /\ ToRelease = {}
    /\ pc' = "idle"
    /\ cur' = 0
    /\ UNCHANGED <<apiVars, now, order, start, back, minVrt>>

-----------------------------------------------------------------------------
(* The API, called from the main loop's other work, a callback or a finalizer *)

ApiOpen == pc \in {"idle", "callback", "finalizer"}

\* last-run stamps callers pass: none, or the clock
Stamps == {0, now}

\* a slip: the id cursor stays where it was
RegistersInPlace(d, l, a) ==
    /\ FreeSlots(TableIds) # {}
    /\ FreeTries(TableIds, nextId) # {}
    /\ tasks' = [tasks EXCEPT ![FirstFree(TableIds)] =
                     Registered(@, NewId(TableIds, nextId), d, l, a)]
    /\ UNCHANGED <<nextId, lane>>

Registers(d, l, a) ==
    /\ FreeSlots(TableIds) # {}
    /\ FreeTries(TableIds, nextId) # {}
    /\ tasks' = [tasks EXCEPT ![FirstFree(TableIds)] =
                     Registered(@, NewId(TableIds, nextId), d, l, a)]
    /\ nextId' = CursorAfter(TableIds, nextId)
    /\ UNCHANGED lane

\* register_task; setTimeout (a = 1) and setInterval (a = -1) call it
RegisterTask ==
    /\ ApiOpen
    /\ \E d \in Durations, l \in Stamps, a \in Attempts : Registers(d, l, a)
    /\ UNCHANGED <<now, loopVars>>

\* updateInterval and updateTimeout of a task that is in the table; of one
\* that is gone they are register_task
UpdateInterval ==
    /\ ApiOpen
    /\ \E s \in Live, d \in Durations, l \in Stamps, a \in Attempts :
          /\ tasks[s].mode = "inline"
          /\ s = cur /\ pc = "callback" => SelfUpdates
          /\ tasks' = [tasks EXCEPT ![s] = Updated(@, d, l, a)]
    /\ UNCHANGED <<nextId, lane, now, loopVars>>

\* remove_task, clearTimeout, clearInterval; no caller removes a lane task
\* whose executive it has not destroyed
RemoveTask ==
    /\ ApiOpen
    /\ \E s \in Live :
          /\ tasks[s].exec = NoExec
          /\ tasks' = RemoveId(tasks, tasks[s].id)
    /\ UNCHANGED <<nextId, lane, now, loopVars>>

SetTaskFinalizer ==
    /\ ApiOpen
    /\ \E s \in Live, b \in Finalizers :
          tasks' = [tasks EXCEPT ![s].fin = b]
    /\ UNCHANGED <<nextId, lane, now, loopVars>>

SendSignal ==
    /\ ApiOpen
    /\ \E s \in Live, sig \in Signals :
          tasks' = [tasks EXCEPT ![s].sig = sig]
    /\ UNCHANGED <<nextId, lane, now, loopVars>>

\* a name and a requester select any set of tasks that are not zombies; a task
\* that cannot be stopped is passed over for STOP and CONT
SendSignalByName ==
    /\ ApiOpen
    /\ \E S \in SUBSET Live, sig \in Signals :
          /\ S # {}
          /\ \A s \in S : /\ tasks[s].state # "ZOMBIE"
                          /\ sig \in {"STOP", "CONT"} => tasks[s].stoppable
          /\ tasks' = [s \in Slots |->
                          IF s \in S THEN [tasks[s] EXCEPT !.sig = sig]
                                     ELSE tasks[s]]
    /\ UNCHANGED <<nextId, lane, now, loopVars>>

\* the caller's error path when no executive could be made
PromotionFailedIgnored(tbl, id) == tbl   \* a slip: the task is left behind
PromotionFailed(tbl, id) == RemoveId(tbl, id)

\* register_task followed by scheduleUnderExecSched, as exec, the HTTP client
\* and the TLS worker do; a loaded program cannot be stopped and has a
\* finalizer.  With no memory for an executive the caller removes the task.
RunUnderLane ==
    /\ ApiOpen
    /\ FreeSlots(TableIds) # {}
    /\ FreeTries(TableIds, nextId) # {}
    /\ \E program \in BOOLEAN :
         LET s == FirstFree(TableIds)
             id == NewId(TableIds, nextId)
             t == [Registered(tasks[s], id, 1, 0, -1) EXCEPT !.mode = "lane"]
         IN /\ \/ \E e \in Execs :
                    /\ tasks[s].exec = NoExec
                    /\ lane[e].st = "none"
                    /\ lane' = [lane EXCEPT ![e] = [st |-> "ready", tid |-> id]]
                    /\ tasks' = [tasks EXCEPT
                                    ![s] = [t EXCEPT !.exec = e, !.fin = program,
                                                     !.stoppable = ~program]]
               \/ /\ \A e \in Execs : lane[e].st # "none"
                  /\ tasks' = PromotionFailed([tasks EXCEPT ![s] = t], id)
                  /\ UNCHANGED lane
      /\ nextId' = CursorAfter(TableIds, nextId)
    /\ UNCHANGED <<now, loopVars>>

\* stopTlsWorker: destroy the executive, which removes its task
DestroyLane ==
    /\ ApiOpen
    /\ \E s \in Live :
          /\ tasks[s].exec # NoExec
          /\ tasks[s].stoppable
          /\ lane' = [lane EXCEPT ![tasks[s].exec] = NoLane]
          /\ tasks' = RemoveId(tasks, lane[tasks[s].exec].tid)
    /\ UNCHANGED <<nextId, now, loopVars>>

-----------------------------------------------------------------------------
(* The lanes, which run beside the main loop *)

\* esp32: the code returns, the executive waits for the pass to reap it
LaneFinishes(e) ==
    /\ lane[e].st = "ready"
    /\ lane' = [lane EXCEPT ![e].st = "finished"]
    /\ UNCHANGED <<tasks, nextId, now, loopVars>>

\* esp8266: it leaves through exit(), which destroys the executive and removes
\* its task; run() switches to nobody else in between
LaneExits(e) ==
    /\ lane[e].st = "ready"
    /\ tasks' = RemoveId(tasks, lane[e].tid)
    /\ lane' = [lane EXCEPT ![e] = NoLane]
    /\ UNCHANGED <<nextId, now, loopVars>>

-----------------------------------------------------------------------------
HandleTasks ==
    \/ BeginPass \/ EndOfList \/ LaneTask \/ SkippedTask \/ StartTask
    \/ IdlePass \/ CallbackReturns \/ SweepStep \/ FinalizerReturns \/ EndOfPass

Api ==
    \/ RegisterTask \/ UpdateInterval \/ RemoveTask \/ SetTaskFinalizer
    \/ SendSignal \/ SendSignalByName \/ RunUnderLane \/ DestroyLane

LaneStep == \E e \in Execs : LaneFinishes(e) \/ LaneExits(e)

Next == Tick \/ HandleTasks \/ Api \/ LaneStep

\* the main loop keeps calling serve(); callbacks and finalizers return
Spec == Init /\ [][Next]_vars /\ WF_vars(HandleTasks)

-----------------------------------------------------------------------------
(* Properties *)

\* What the table promises about ids and slots (module TaskIds).
Table == INSTANCE TaskIds WITH ids <- TableIds, cursor <- nextId

\* register_task, remove_task, the pass and the sweep together implement that
\* promise: ids are issued to the first free slot, records never move, and
\* only the sweep releases a slot.
ImplementsTaskIds == Table!IdSpec

\* the shape of a task record
TaskRec == [
    id : TaskIdSet \cup {Free}, fn : BOOLEAN,
    duration : Durations \cup {0, 1, RemovedDuration}, last : Nat,
    attempts : Int, vrt : 0 .. MaxVruntime, mode : {"inline", "lane"},
    state : {"READY", "RUNNING", "SLEEPING", "STOPPED", "ZOMBIE"},
    sig : Signals \cup {"NONE"}, fin : BOOLEAN, stoppable : BOOLEAN,
    exec : Execs \cup {NoExec}]

LaneRec == [st : {"none", "ready", "mute", "finished"},
            tid : TaskIdSet \cup {Free}]

\* Records, cursor, executives and loop state keep their shapes.
TypeOK ==
    /\ tasks \in [Slots -> TaskRec]
    /\ nextId \in TaskIdSet
    /\ lane \in [Execs -> LaneRec]
    /\ now \in 0 .. ClockMod - 1
    /\ pc \in {"idle", "pass", "callback", "sweep", "finalizer"}
    /\ order \in Seq(Slots)
    /\ cur \in 0 .. NSlots + 1
    /\ start \in 0 .. ClockMod - 1
    /\ back \in {"pass", "sweep"}
    /\ minVrt \in 0 .. MaxVruntime

\* While a callback or a finalizer runs, whatever it or a lane does, its slot
\* is not released or given to another task: handle_tasks goes on to write the
\* record through the reference it took before the call.
SlotHeld ==
    [][pc' = pc /\ pc \in {"callback", "finalizer"}
          => tasks'[cur].id = tasks[cur].id]_vars

\* A task leaves the table only after its finalizer has run or if it has none:
\* none is dropped with the record (remove_expired_tasks, and the reaping of
\* a lane task in handle_tasks).
FinalizerNotLost ==
    [][\A s \in Slots :
          tasks[s].id # Free /\ tasks'[s].id = Free
              => ~tasks[s].fin \/ (pc = "finalizer" /\ cur = s)]_vars

\* A KILL, TERM or STOP that was sent before a task's turn is obeyed before its
\* callback can start, and a stopped task's callback does not start: the
\* signal is consumed ahead of the due test, whatever is due.
SignalBeforeRun ==
    [][\A s \in Slots :
          tasks'[s].state = "RUNNING" /\ tasks[s].state # "RUNNING"
              => /\ tasks[s].sig \notin {"KILL", "STOP"}
                 /\ tasks[s].state = "STOPPED" => tasks[s].sig = "CONT"]_vars

\* Every task that has runs left has someone to run it: an inline task the
\* pass, a lane task its executive.  A promotion that failed half way would
\* leave a record neither lane looks at (scheduleUnderExecSched).
NoTaskStranded ==
    \A s \in Live : tasks[s].mode = "lane" /\ tasks[s].attempts # 0
                        => tasks[s].exec # NoExec

\* An executive that exists is pointed to by the one task it was made for, and
\* no record points to an executive that has been destroyed: handle_tasks
\* calls through m_task_exec with no other check than nullptr.
ExecutivesOwned ==
    /\ \A s \in Slots : tasks[s].exec # NoExec
          => /\ tasks[s].id # Free
             /\ lane[tasks[s].exec].st # "none"
             /\ lane[tasks[s].exec].tid = tasks[s].id
    /\ \A e \in Execs : lane[e].st # "none"
          => \E s \in Slots : tasks[s].exec = e

\* A task that has ended (no attempts left) is released, or given new attempts
\* by updateInterval before the sweep reaches it; it cannot hold its slot for
\* ever.
ExpiredReleased ==
    \A s \in Slots : Expired(s) ~> ~Expired(s)

-----------------------------------------------------------------------------
(* The inductive invariant the proofs rest on (TaskSchedulerProofs) *)

\* what the loop's cursor points at while foreign code runs
CursorHolds ==
    /\ pc \in {"callback", "finalizer"} => cur \in Slots /\ tasks[cur].id # Free
    /\ pc = "callback" => tasks[cur].mode = "inline"
    /\ pc = "finalizer" /\ back = "sweep" => tasks[cur].exec = NoExec
    /\ pc = "sweep" => cur # 0

\* an executive belongs to a lane task that has not ended; a free slot has
\* nothing to run
RecordsAgree ==
    \A s \in Slots :
        /\ tasks[s].exec # NoExec => tasks[s].mode = "lane" /\ tasks[s].attempts # 0
        /\ tasks[s].id = Free => tasks[s].mode = "inline" /\ tasks[s].attempts = 0

IInv ==
    /\ TypeOK
    /\ Table!UniqueIds
    /\ CursorHolds
    /\ RecordsAgree
    /\ ExecutivesOwned
    /\ NoTaskStranded
=============================================================================
