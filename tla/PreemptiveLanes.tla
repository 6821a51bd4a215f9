-------------------------- MODULE PreemptiveLanes --------------------------
(***************************************************************************)
(* The esp8266 preemptive lanes and their mutex: the timer interrupt that  *)
(* switches stacks (timer1_isr_coroutine, run, pick_next_ready), the calls *)
(* that park the running thread (mute, yield, sleep, exit), the signals    *)
(* the main loop's pass delivers to a lane (suspend, resume, terminate,    *)
(* reap), and lock/unlock with their interrupt-masking variants.           *)
(*                                                                         *)
(* Code: src/devices/esp8266/threading/Preemptive.cpp, PreemptiveMutex.cpp *)
(* and the lane branch of handle_tasks in TaskScheduler.cpp.               *)
(*                                                                         *)
(* Every call that changes scheduler state does so with interrupts masked, *)
(* so it is one action; a tick is one action.  A lane stands for the       *)
(* address of its executive: one that is deleted may be scheduled anew.    *)
(* The tick decides which sleepers are due.                                *)
(***************************************************************************)
EXTENDS Integers, Sequences, FiniteSets

CONSTANTS
    Lanes,        \* the executives that fit in memory
    Loop,         \* __non_preemptive, the main loop
    None,         \* nullptr
    Stoppable,    \* lanes whose task has m_stoppable
    Prio,         \* m_task_priority of each lane's task
    AgeCap,       \* the cap on wait_ticks, 255
    MaxSignals    \* bound: signals sent in a behaviour, CONT after STOP aside

Threads == Lanes \cup {Loop}

ASSUME LaneAssumption ==
    /\ IsFiniteSet(Lanes)
    /\ Loop \notin Lanes
    /\ None \notin Threads
    /\ Stoppable \subseteq Lanes
    /\ Prio \in [Lanes -> Nat]
    /\ AgeCap \in Nat
    /\ MaxSignals \in Nat

VARIABLES
    current,    \* PreemptiveScheduler::current
    state,      \* Preemptive::state, "none" when the executive is not there
    ready,      \* the ready list, in its order
    sleepers,   \* the threads in the sleepers list
    ticks,      \* wait_ticks
    timer,      \* preemptiveisr_active
    captured,   \* __non_preemptive_saved
    req,        \* __switch_requested
    cpu,        \* whose stack the processor is on
    pc,         \* where each thread's code is
    ret,        \* where a thread spinning in exit() returns to
    sdk,        \* the loop's turn is spent on the sdk stack
    locked, owner, waiters,   \* the mutex: m_locked, m_owner, m_waiters
    pending,    \* m_pending_sig of each lane's task
    stopped,    \* the tasks in TASK_STATE_STOPPED
    serving,    \* the executive the loop's pass holds in _exec
    sent,       \* signals sent so far
    excused     \* history: the ways a section was entered or left unguarded

listVars == <<state, ready, sleepers>>
tickVars == <<current, ticks, timer, captured, cpu>>
codeVars == <<req, pc, ret, sdk>>
lockVars == <<locked, owner, waiters>>
taskVars == <<pending, stopped>>
passVars == <<serving, sent>>
vars == <<listVars, tickVars, codeVars, lockVars, taskVars, passVars, excused>>

-----------------------------------------------------------------------------
(* The lists *)

In(s, t) == \E i \in DOMAIN s : s[i] = t

\* add_to_ready, the list
Pushed(s, t) == IF In(s, t) THEN s ELSE Append(s, t)

\* add_to_ready, the state
MadeReady(st, s, t) == IF In(s, t) THEN st ELSE [st EXCEPT ![t] = "Ready"]

\* remove_from_ready: the last entry takes the place of the removed one
Dropped(s, t) ==
    IF ~In(s, t) THEN s
    ELSE LET i == CHOOSE k \in DOMAIN s : s[k] = t /\ \A j \in 1..(k-1) : s[j] # t
         IN [k \in 1..(Len(s) - 1) |-> IF k = i THEN s[Len(s)] ELSE s[k]]

\* the orders in which one tick can wake the threads of D
Orders(D) ==
    {w \in [1..Cardinality(D) -> D] : \A i, j \in DOMAIN w : w[i] = w[j] => i = j}

Score(tk, t) == (IF t = Loop THEN 0 ELSE Prio[t]) + tk[t]

\* pick_next_ready: the first of the entries with the highest score
Picked(s, tk) ==
    s[CHOOSE i \in DOMAIN s :
         /\ \A j \in DOMAIN s : Score(tk, s[j]) <= Score(tk, s[i])
         /\ \A j \in 1..(i-1) : Score(tk, s[j]) < Score(tk, s[i])]

\* a slip: neither capped nor reset
AgedForever(s, tk, best) == [t \in Threads |-> IF In(s, t) THEN tk[t] + 1 ELSE tk[t]]

\* a slip: the one picked keeps its age
AgedNoReset(s, tk, best) ==
    [t \in Threads |-> IF In(s, t) /\ tk[t] < AgeCap THEN tk[t] + 1 ELSE tk[t]]

\* ... which ages the ones it passes over
Aged(s, tk, best) ==
    [t \in Threads |->
        IF t = best THEN 0
        ELSE IF In(s, t) /\ tk[t] < AgeCap THEN tk[t] + 1 ELSE tk[t]]

-----------------------------------------------------------------------------
Init ==
    /\ current = None
    /\ state = [t \in Threads |-> IF t = Loop THEN "Ready" ELSE "none"]
    /\ ready = <<>> /\ sleepers = {} /\ ticks = [t \in Threads |-> 0]
    /\ timer = FALSE /\ captured = FALSE /\ req = FALSE
    /\ cpu = Loop /\ sdk = FALSE
    /\ pc = [t \in Threads |-> IF t = Loop THEN "work" ELSE "none"]
    /\ ret = [t \in Threads |-> "work"]
    /\ locked = FALSE /\ owner = None /\ waiters = <<>>
    /\ pending = [l \in Lanes |-> "NONE"] /\ stopped = {}
    /\ serving = None /\ sent = 0 /\ excused = {}

-----------------------------------------------------------------------------
(* The timer interrupt *)

\* a slip: any stack may be switched away from
AnyStack == TRUE

\* is_switchable_context: the loop's stack, or the current lane's own
Switchable == IF cpu = Loop THEN ~sdk ELSE cpu = current

\* a slip: a request counts for nothing
OnlyOwnStacks == Switchable

\* the isr goes on to run()
MaySwitch == req \/ Switchable

\* run(), once the sleepers are woken: the states st and the ready list rd
SwitchFrom(st, rd) ==
    LET c == current
        goesOn == /\ c # None
                  /\ \/ rd = <<>> /\ st[c] \in {"Running", "Ready"}
                     \/ st[c] = "Finished"
        requeue == c # None /\ st[c] = "Running"
        rd2 == IF requeue THEN Pushed(rd, c) ELSE rd
        st2 == IF requeue THEN MadeReady(st, rd, c) ELSE st
        next == Picked(rd2, ticks)
    IN IF goesOn \/ rd2 = <<>>
       THEN /\ state' = IF goesOn /\ st[c] = "Ready"
                        THEN [st EXCEPT ![c] = "Running"] ELSE st
            /\ ready' = rd
            /\ UNCHANGED <<current, ticks, cpu, pc>>
       ELSE /\ state' = [st2 EXCEPT ![next] = "Running"]
            /\ ready' = Dropped(rd2, next)
            /\ ticks' = Aged(rd2, ticks, next)
            /\ current' = next
            /\ cpu' = next
            \* the stack of a lane that is gone is never come back to
            /\ pc' = IF pc[cpu] = "gone" THEN [pc EXCEPT ![cpu] = "none"] ELSE pc

\* timer1_isr_coroutine; interrupts are off between cli() and sei()
Tick(due) ==
    /\ timer /\ pc[cpu] # "masked"
    /\ req' = FALSE
    /\ IF ~MaySwitch
       THEN UNCHANGED <<listVars, tickVars, pc>>
       ELSE /\ captured' = TRUE
            /\ sleepers' = sleepers \ due
            /\ LET rd == IF captured THEN ready ELSE Pushed(ready, Loop)
                   st == IF captured THEN state ELSE MadeReady(state, ready, Loop)
               IN \E w \in Orders({t \in due : ~In(rd, t)}) :
                     SwitchFrom([t \in Threads |-> IF In(w, t) THEN "Ready" ELSE st[t]],
                                rd \o w)
            /\ UNCHANGED timer
    /\ UNCHANGED <<ret, sdk, lockVars, taskVars, passVars, excused>>

-----------------------------------------------------------------------------
(* What the running thread does *)

\* thread t's code runs, on its own stack
Runs(t, at) == cpu = t /\ pc[t] = at /\ (t = Loop => ~sdk)

Goto(t, at) == pc' = [pc EXCEPT ![t] = at]

\* the spin in exit(): wait for the interrupt to make the thread Running again
SpinThen(t, back) == Goto(t, "spin") /\ ret' = [ret EXCEPT ![t] = back]

\* mute()
Muted(st, t) == IF st[t] = "Running" THEN [st EXCEPT ![t] = "Mute"] ELSE st

\* a slip: the holder is not looked at
FreeAlways == TRUE

\* the mutex is there to be taken
Unheld == ~locked

\* PreemptiveMutex::lock, from the loop or a lane
Lock(t) ==
    /\ Runs(t, "work")
    /\ \/ /\ current = None            \* no tick yet: returns without holding
          /\ Goto(t, "section")
          /\ excused' = excused \cup {"early"}
          /\ UNCHANGED <<state, ret, lockVars>>
       \/ /\ current # None /\ Unheld
          /\ Goto(t, "section")
          /\ locked' = TRUE /\ owner' = current
          /\ UNCHANGED <<state, ret, waiters, excused>>
       \/ /\ current # None /\ ~Unheld /\ owner = current
          /\ Goto(t, "section")
          /\ UNCHANGED <<state, ret, lockVars, excused>>
       \/ /\ current # None /\ ~Unheld /\ owner # current
          /\ waiters' = Append(waiters, current)
          /\ state' = Muted(state, current)
          /\ SpinThen(t, "section")
          /\ UNCHANGED <<locked, owner, excused>>
    /\ UNCHANGED <<ready, sleepers, tickVars, req, sdk, taskVars, passVars>>

\* critical_lock and critical_unlock mask interrupts inside the section
Mask(t) ==
    /\ \/ Runs(t, "section") /\ Goto(t, "masked")
       \/ Runs(t, "masked") /\ Goto(t, "leaving")
    /\ UNCHANGED <<listVars, tickVars, req, ret, sdk, lockVars, taskVars, passVars, excused>>

\* a slip: the new owner is left among the waiters
HandedKept(w) == <<Head(w), w>>

\* whom unlock() hands the mutex to, and who waits on
Handed(w) == <<Head(w), Tail(w)>>

\* PreemptiveMutex::unlock: for the owner only
Unlock(t) ==
    /\ Runs(t, "section") \/ Runs(t, "leaving")
    /\ Goto(t, "work")
    /\ \/ /\ current # owner
          /\ UNCHANGED <<state, ready, lockVars>>
       \/ /\ current = owner /\ waiters # <<>>
          /\ owner' = Handed(waiters)[1]
          /\ waiters' = Handed(waiters)[2]
          /\ state' = MadeReady(state, ready, owner')
          /\ ready' = Pushed(ready, owner')
          /\ UNCHANGED locked
       \/ /\ current = owner /\ waiters = <<>>
          /\ locked' = FALSE /\ owner' = None
          /\ UNCHANGED <<state, ready, waiters>>
    /\ UNCHANGED <<sleepers, tickVars, req, ret, sdk, taskVars, passVars, excused>>

\* a lane's wait() and yield() come to sleep(); the loop's do not
Sleep(l) ==
    /\ Runs(l, "work") /\ current = l
    /\ state' = [state EXCEPT ![l] = "Sleeping"]
    /\ sleepers' = sleepers \cup {l}
    /\ SpinThen(l, "work")
    /\ UNCHANGED <<ready, tickVars, req, sdk, lockVars, taskVars, passVars, excused>>

\* yield()
Yield(t) ==
    /\ Runs(t, "work") /\ current = t
    /\ state' = IF state[t] = "Running" THEN MadeReady(state, ready, t) ELSE state
    /\ ready' = IF state[t] = "Running" THEN Pushed(ready, t) ELSE ready
    /\ SpinThen(t, "work")
    /\ UNCHANGED <<sleepers, tickVars, req, sdk, lockVars, taskVars, passVars, excused>>

\* preemptive_trampoline, when the task's code returns
Return(l) ==
    /\ Runs(l, "work") /\ Goto(l, "ending")
    /\ state' = [state EXCEPT ![l] = IF @ = "Running" THEN "Finished" ELSE @]
    /\ UNCHANGED <<ready, sleepers, tickVars, req, ret, sdk, lockVars, taskVars,
                   passVars, excused>>

\* destroy_preemptive: out of both lists, its task removed, deleted
Destroy(l) ==
    /\ sleepers' = sleepers \ {l}
    /\ ready' = Dropped(ready, l)
    /\ state' = [state EXCEPT ![l] = "none"]
    /\ current' = IF current = l THEN None ELSE current
    /\ pending' = [pending EXCEPT ![l] = "NONE"]
    /\ stopped' = stopped \ {l}
    /\ UNCHANGED <<ticks, timer, captured, cpu>>

\* exit() of a finished lane: it deletes itself and spins on its old stack
Exit(l) ==
    /\ Runs(l, "ending") /\ current = l /\ state[l] = "Finished"
    /\ Destroy(l) /\ Goto(l, "gone")
    /\ UNCHANGED <<req, ret, sdk, lockVars, passVars, excused>>

\* one turn of the loop in exit(), which is left once Running
Spin(t) ==
    /\ cpu = t
    /\ \/ /\ pc[t] \in {"gone", "spin"}
          /\ pc[t] = "spin" => state[t] # "Running"
          /\ req' = TRUE
          /\ UNCHANGED <<pc, ret>>
       \/ /\ pc[t] = "spin" /\ state[t] = "Running"
          /\ req' = FALSE
          /\ Goto(t, ret[t])
          /\ ret' = [ret EXCEPT ![t] = "work"]
    /\ UNCHANGED <<listVars, tickVars, sdk, lockVars, taskVars, passVars, excused>>

\* the loop gives the processor to the sdk (esp_yield, delay(0)) and gets it back
Sdk ==
    /\ cpu = Loop /\ pc[Loop] = "work"
    /\ sdk' = ~sdk
    /\ UNCHANGED <<listVars, tickVars, req, pc, ret, lockVars, taskVars, passVars, excused>>

-----------------------------------------------------------------------------
(* The main loop's dealings with the lanes *)

\* schedule_task: a new executive goes to the ready list, the timer starts
Schedule(l) ==
    /\ Runs(Loop, "work")
    /\ pc[l] = "none" /\ Goto(l, "work")
    /\ state' = [state EXCEPT ![l] = "Ready"]
    /\ ready' = Pushed(ready, l)
    /\ ticks' = [ticks EXCEPT ![l] = 0]
    /\ timer' = TRUE
    /\ UNCHANGED <<sleepers, current, captured, cpu, req, ret, sdk, lockVars,
                   taskVars, passVars, excused>>

\* sendSignal, by a command run in the loop; the bound leaves out the CONT of a
\* lane that was stopped
Send(l, sig) ==
    /\ Runs(Loop, "work") /\ state[l] # "none"
    /\ pending' = [pending EXCEPT ![l] = sig]
    /\ IF sig = "CONT" /\ l \in stopped THEN UNCHANGED sent
       ELSE sent < MaxSignals /\ sent' = sent + 1
    /\ UNCHANGED <<listVars, tickVars, codeVars, lockVars, stopped, serving, excused>>

\* handle_tasks comes to the lane's task: _exec = _task.m_task_exec
ServeRead(l) ==
    /\ Runs(Loop, "work") /\ Goto(Loop, "signal")
    /\ state[l] # "none"
    /\ serving' = l
    /\ UNCHANGED <<listVars, tickVars, req, ret, sdk, lockVars, taskVars, sent, excused>>

\* the lane deleted itself after the pass read _exec: the pass goes on with a
\* freed executive; what it does to one changes none of this state
ServeStale(l) ==
    /\ serving = l /\ state[l] = "none"
    /\ Runs(Loop, "signal") \/ Runs(Loop, "reap")
    /\ Goto(Loop, "work")
    /\ serving' = None
    /\ excused' = excused \cup {"stale"}
    /\ UNCHANGED <<listVars, tickVars, req, ret, sdk, lockVars, taskVars, sent>>

\* a slip: the lane is left in the lists
SuspendInPlace(l) ==
    state' = [state EXCEPT ![l] = "Mute"] /\ UNCHANGED <<ready, sleepers>>

\* Preemptive::suspend
Suspend(l) ==
    IF state[l] = "Mute" THEN UNCHANGED listVars
    ELSE /\ ready' = Dropped(ready, l)
         /\ sleepers' = sleepers \ {l}
         /\ state' = [state EXCEPT ![l] = "Mute"]

\* a slip: a lane that only sleeps is resumed as well
ResumeAny(l) ==
    /\ state' = MadeReady(state, ready, l)
    /\ ready' = Pushed(ready, l)
    /\ UNCHANGED sleepers

\* Preemptive::resume
Resume(l) ==
    IF state[l] # "Mute" THEN UNCHANGED listVars
    ELSE /\ state' = MadeReady(state, ready, l)
         /\ ready' = Pushed(ready, l)
         /\ UNCHANGED sleepers

\* Preemptive::terminate
Terminate(l) ==
    /\ ready' = Dropped(ready, l)
    /\ sleepers' = sleepers \ {l}
    /\ state' = [state EXCEPT ![l] = "Finished"]

\* handle_tasks delivers the pending signal to the executive
ServeSignal(l) ==
    LET sig == pending[l]
        inLock == In(waiters, l) \/ owner = l
    IN /\ serving = l /\ state[l] # "none"
       /\ Runs(Loop, "signal") /\ Goto(Loop, "reap")
       /\ pending' = [pending EXCEPT ![l] = "NONE"]
       /\ \/ /\ sig = "STOP" /\ l \in Stoppable
             /\ Suspend(l)
             /\ stopped' = stopped \cup {l}
          \/ /\ sig = "CONT" /\ l \in Stoppable
             /\ Resume(l)
             /\ stopped' = stopped \ {l}
          \/ /\ sig = "KILL"
             /\ Terminate(l)
             /\ UNCHANGED stopped
          \/ /\ sig # "KILL"
             /\ sig # "NONE" => l \notin Stoppable
             /\ UNCHANGED <<listVars, stopped>>
       /\ excused' = IF inLock /\ sig # "NONE" THEN excused \cup {sig} ELSE excused
       /\ UNCHANGED <<tickVars, req, ret, sdk, lockVars, passVars>>

\* ... and reaps it when it has finished
ServeReap(l) ==
    /\ serving = l /\ state[l] # "none"
    /\ Runs(Loop, "reap")
    /\ serving' = None
    /\ IF state[l] = "Finished"
       THEN Destroy(l) /\ pc' = [pc EXCEPT ![l] = "none", ![Loop] = "work"]
       ELSE Goto(Loop, "work") /\ UNCHANGED <<listVars, tickVars, taskVars>>
    /\ UNCHANGED <<req, ret, sdk, lockVars, sent, excused>>

-----------------------------------------------------------------------------
Serve(l) == ServeRead(l) \/ ServeStale(l) \/ ServeSignal(l) \/ ServeReap(l)

Next ==
    \/ \E due \in SUBSET sleepers : Tick(due)
    \/ \E t \in Threads : Lock(t) \/ Mask(t) \/ Unlock(t) \/ Yield(t) \/ Spin(t)
    \/ \E l \in Lanes :
          \/ Sleep(l) \/ Return(l) \/ Exit(l) \/ Schedule(l) \/ Serve(l)
          \/ \E sig \in {"STOP", "CONT", "KILL"} : Send(l, sig)
    \/ Sdk

Spec == Init /\ [][Next]_vars

-----------------------------------------------------------------------------
\* The shape of the state: what the fields of the scheduler, the executives,
\* the mutex and the task records can hold.
LaneTypeOK ==
    /\ current \in Threads \cup {None}
    /\ state \in [Threads -> {"none", "Ready", "Running", "Sleeping", "Mute", "Finished"}]
    /\ ready \in Seq(Threads) /\ sleepers \subseteq Lanes
    /\ ticks \in [Threads -> 0..AgeCap]
    /\ {timer, captured, req, sdk, locked} \subseteq BOOLEAN
    /\ cpu \in Threads
    /\ pc \in [Threads -> {"none", "work", "section", "masked", "leaving", "spin",
                            "ending", "gone", "signal", "reap"}]
    /\ ret \in [Threads -> {"work", "section"}]
    /\ owner \in Threads \cup {None} /\ waiters \in Seq(Threads)
    /\ pending \in [Lanes -> {"NONE", "STOP", "CONT", "KILL"}]
    /\ stopped \subseteq Lanes /\ serving \in Lanes \cup {None}
    /\ sent \in 0..MaxSignals
    /\ excused \subseteq {"early", "stale", "STOP", "CONT", "KILL"}

\* the signals that reach a lane between its lock() and its unlock()
Disturbed == excused \cap {"CONT", "KILL"} # {}

InSection(t) == pc[t] \in {"section", "masked", "leaving"}

\* Every executive is where its state says, and only there: Ready ones stand
\* once in the ready list, Sleeping ones among the sleepers, the others in
\* neither; a Running one is the current one, and the current one owns the
\* stack the processor is on, so the context run() saves is its own.
QueuesAgree ==
    ~Disturbed =>
        /\ \A t \in Threads : state[t] = "Sleeping" <=> t \in sleepers
        /\ \A t \in Threads : (state[t] = "Ready" /\ (t = Loop => captured)) <=> In(ready, t)
        /\ \A i, j \in DOMAIN ready : i # j => ready[i] # ready[j]
        /\ \A t \in Threads : state[t] = "Running" => current = t
        /\ current # None => cpu = current
        /\ captured /\ current = None => pc[cpu] = "gone"

\* lock() and unlock() keep two threads out of a section at the same time,
\* across every preemption, park and hand-over ("every context that calls into
\* it from our own code takes this one"): whoever is inside is the owner.  Two
\* things break it and are left out: the loop that came in before the first
\* tick, when lock() does not hold, and a CONT or KILL that reached a lane
\* between its lock() and its unlock().
MutualExclusion ==
    ~Disturbed =>
        \A t \in Threads :
            InSection(t) => owner = t \/ (t = Loop /\ "early" \in excused)

\* No wake-up is lost: whoever waits is parked, once, behind a holder that is
\* not itself waiting, and the holder is in the section or on its way in.
WaitersServed ==
    ~Disturbed =>
        /\ locked <=> owner # None
        /\ waiters # <<>> => locked
        /\ \A i \in DOMAIN waiters :
              /\ state[waiters[i]] = "Mute" /\ ret[waiters[i]] = "section"
              /\ waiters[i] # owner
              /\ \A j \in DOMAIN waiters : i # j => waiters[i] # waiters[j]
        /\ owner # None =>
              InSection(owner) \/ (pc[owner] = "spin" /\ ret[owner] = "section")

\* A stopped lane stays parked until it is continued or killed, unless the
\* stop found it waiting for the mutex or holding it.
StoppedParked ==
    \A l \in stopped : "STOP" \notin excused => state[l] \in {"Mute", "Finished"}

\* The interrupt never takes the processor off the sdk stack, whatever was
\* asked for earlier: a half finished sdk callback is not abandoned.
SdkNotAbandoned == [][sdk => cpu' = cpu]_vars

\* A lane that ended is switched away from at the first tick after it asked,
\* though its stack is freed and unknown to is_switchable_context.
GoneLeaves ==
    [][pc[cpu] = "gone" /\ req /\ ~req' /\ ready # <<>> => cpu' # cpu]_vars

\* the highest priority there is, the loop's 0 included
TopPrio == CHOOSE p \in {0} \cup {Prio[l] : l \in Lanes} : \A l \in Lanes : Prio[l] <= p

\* Aging: a ready thread is passed over at most as often as the priorities are
\* apart, plus once for each other thread, whatever the others do; so long as
\* the cap is above that (255 against 99 + 25) it never decides a pick.
PassedOverBounded ==
    \A t \in Threads : Score(ticks, t) <= TopPrio + Cardinality(Threads)

\* Somebody can go on: unless a signal reached a lane inside lock()...unlock(),
\* the threads are never all parked behind the mutex.
SomeoneCanRun ==
    excused \cap {"STOP", "CONT", "KILL"} = {} =>
        state[cpu] = "Running" \/ ready # <<>> \/ sleepers # {} \/ ~captured
=============================================================================
