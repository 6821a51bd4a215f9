---------------------------- MODULE LanesProofs ----------------------------
(***************************************************************************)
(* The preemptive lanes and their mutex, for every number of lanes and all *)
(* priorities: every step of the threads and of the main loop keeps the    *)
(* invariant of LanesTickProofs, and what follows from it.                 *)
(***************************************************************************)
EXTENDS LanesTickProofs

-----------------------------------------------------------------------------
(* The threads' steps, and the main loop's *)

\* Who runs code outside exit() is the current thread and Running, or it is the
\* loop before the first tick.
LEMMA RunsAsCurrent ==
    ASSUME Whole, NEW t \in Threads, cpu = t,
           pc[t] \notin {"spin", "ending", "gone"}
    PROVE  /\ current # None => current = t /\ state[t] = "Running" /\ captured
           /\ current = None => t = Loop /\ ~captured
           /\ ~In(ready, t) /\ ~In(waiters, t)
<1>1. current # None => current = t /\ state[t] = "Running" /\ captured
  BY DEF Whole, Lists, Code
<1>2. current = None => t = Loop /\ ~captured
  BY DEF Whole, Code
<1>3. ~In(ready, t)
  BY <1>1, <1>2 DEF Whole, Lists
<1>4. ~In(waiters, t)
  BY DEF Whole, Mutex
<1>5. QED
  BY <1>1, <1>2, <1>3, <1>4

\* lock()
LEMMA LockGuarded ==
    ASSUME Shape, Whole, NEW t \in Threads, Lock(t)
    PROVE  Whole'
<1>t. Loop \in Threads /\ cpu \in Threads /\ owner \in Threads \cup {None}
  BY DEF Threads, Shape
<1>w. Lists /\ Code /\ Mutex
  BY DEF Whole
<1>1. /\ cpu = t /\ pc[t] = "work"
      /\ UNCHANGED <<ready, sleepers, current, captured, cpu>>
  BY DEF Lock, Runs, tickVars
<1>2. /\ current # None => current = t /\ state[t] = "Running" /\ captured
      /\ current = None => t = Loop /\ ~captured
      /\ ~In(ready, t) /\ ~In(waiters, t)
  BY Zenon, <1>1, RunsAsCurrent
<1>3. owner # t
  BY <1>w, <1>1, Parts DEF InSection
<1> DEFINE Enters == /\ pc' = [pc EXCEPT ![t] = "section"]
                     /\ UNCHANGED <<state, ret, waiters>>
           Early == /\ current = None /\ UNCHANGED <<locked, owner>>
                    /\ excused' = excused \cup {"early"}
           Takes == /\ current # None /\ ~locked /\ locked' /\ owner' = t
                    /\ UNCHANGED excused
           Waits == /\ current = t /\ locked
                    /\ waiters' = Append(waiters, t)
                    /\ state' = [state EXCEPT ![t] = "Mute"]
                    /\ pc' = [pc EXCEPT ![t] = "spin"]
                    /\ ret' = [ret EXCEPT ![t] = "section"]
                    /\ UNCHANGED <<locked, owner, excused>>
<1>4. (Enters /\ (Early \/ Takes)) \/ Waits
  BY <1>2, <1>3, LaneAssumption DEF Lock, Goto, SpinThen, Unheld, Muted, lockVars
<1>5. CASE Enters /\ (Early \/ Takes)
  <2>p. /\ pc'[t] = "section" /\ UNCHANGED <<state, ret, waiters>>
        /\ \A u \in Threads : u # t => pc'[u] = pc[u]
    BY <1>5 DEF Shape
  <2>1. Lists'
    BY ZenonT(30), <1>w, <1>1, <2>p DEF Lists
  <2>2. Code'
    BY ZenonT(30), <1>w, <1>t, <1>1, <1>2, <2>p DEF Code
  <2>3. Mutex'
    <3>1. CASE Early
      BY ZenonT(30), <1>w, <1>1, <1>2, <2>p, <3>1 DEF Mutex, InSection
    <3>2. CASE Takes
      <4>1. waiters = <<>> /\ owner = None /\ captured'
        BY <1>w, <1>1, <1>2, <3>2 DEF Mutex
      <4>2. \A u : ~In(waiters', u)
        BY <2>p, <4>1 DEF In
      <4>3. Once(waiters') /\ (waiters' # <<>> => locked') /\ (locked' <=> owner' # None)
        BY ZenonT(30), <1>w, <2>p, <3>2, <4>1, LaneAssumption DEF Mutex
      <4>4. InSection(owner)' /\ state'[owner'] # "Finished"
        BY <1>2, <2>p, <3>2 DEF InSection
      <4>5. \A u \in Threads : pc'[u] = "spin" /\ ret'[u] = "section" => owner' = u
        BY <1>w, <2>p, <3>2, <4>1, <4>2, LaneAssumption DEF Mutex
      <4>6. \A u \in Threads :
               InSection(u)' => owner' = u \/ (u = Loop /\ "early" \in excused')
        BY <1>w, <2>p, <3>2, <4>1, LaneAssumption DEF Mutex, InSection
      <4>7. QED
        BY ZenonT(30), <4>1, <4>2, <4>3, <4>4, <4>5, <4>6 DEF Mutex
    <3>3. QED
      BY <1>5, <3>1, <3>2
  <2>4. QED
    BY <2>1, <2>2, <2>3 DEF Whole
<1>6. CASE Waits
  <2>p. /\ pc'[t] = "spin" /\ ret'[t] = "section" /\ state'[t] = "Mute"
        /\ \A u \in Threads : u # t => /\ pc'[u] = pc[u] /\ ret'[u] = ret[u]
                                       /\ state'[u] = state[u]
    BY <1>6 DEF Shape
  <2>1. Lists'
    BY <1>w, <1>1, <1>2, <1>6, <2>p, LaneAssumption DEF Lists
  <2>2. Code'
    BY <1>w, <1>t, <1>1, <1>2, <1>6, <2>p, LaneAssumption DEF Code
  <2>3. Once(waiters') /\ \A u : In(waiters', u) <=> In(waiters, u) \/ u = t
    <3>1. waiters' = Pushed(waiters, t)
      BY <1>2, <1>6 DEF Pushed
    <3>2. waiters \in Seq(Threads) /\ Once(waiters)
      BY <1>w DEF Shape, Mutex
    <3>3. QED
      BY ZenonT(30), <3>1, <3>2, PushedList
  <2>4. Mutex'
    <3>1. \A u \in Threads : In(waiters', u) =>
             state'[u] = "Mute" /\ pc'[u] = "spin" /\ ret'[u] = "section" /\ u # owner'
      BY <1>w, <1>3, <1>6, <2>3, <2>p, Parts
    <3>2. owner # None =>
             /\ InSection(owner)' \/ (pc'[owner] = "spin" /\ ret'[owner] = "section")
             /\ state'[owner] # "Finished"
      <4>1. SUFFICES ASSUME owner # None
                     PROVE  /\ \/ InSection(owner)'
                               \/ pc'[owner] = "spin" /\ ret'[owner] = "section"
                            /\ state'[owner] # "Finished"
        OBVIOUS
      <4>2. /\ pc'[owner] = pc[owner] /\ ret'[owner] = ret[owner]
            /\ state'[owner] = state[owner] /\ owner' = owner
        BY <1>t, <1>3, <1>6, <2>p, <4>1
      <4>3. /\ InSection(owner) \/ (pc[owner] = "spin" /\ ret[owner] = "section")
            /\ state[owner] # "Finished"
        BY <1>w, <4>1 DEF Mutex
      <4>4. QED
        BY <4>2, <4>3 DEF InSection
    <3>3. \A u \in Threads :
             pc'[u] = "spin" /\ ret'[u] = "section" => In(waiters', u) \/ owner = u
      BY Zenon, <1>w, <2>3, <2>p DEF Mutex
    <3>4. \A u \in Threads :
             InSection(u)' => owner = u \/ (u = Loop /\ "early" \in excused)
      BY Zenon, <1>w, <2>p DEF Mutex, InSection
    <3>5. UNCHANGED <<locked, owner, captured, excused>> /\ locked
      BY <1>1, <1>6
    <3>6. QED
      BY Zenon, <1>w, <2>3, <3>1, <3>2, <3>3, <3>4, <3>5 DEF Mutex, InSection
  <2>5. QED
    BY <2>1, <2>2, <2>4 DEF Whole
<1>7. QED
  BY <1>4, <1>5, <1>6

\* critical_lock() and critical_unlock()
LEMMA MaskGuarded ==
    ASSUME Shape, Whole, NEW t \in Threads, Mask(t)
    PROVE  Whole'
<1>t. Loop \in Threads /\ owner \in Threads \cup {None}
  BY DEF Threads, Shape
<1>w. Lists /\ Code /\ Mutex
  BY DEF Whole
<1>1. /\ cpu = t /\ UNCHANGED <<state, ready, sleepers, current, captured, cpu, ret,
                                locked, owner, waiters, excused>>
      /\ pc[t] \in {"section", "masked"}
      /\ pc' = [pc EXCEPT ![t] = "masked"] \/ pc' = [pc EXCEPT ![t] = "leaving"]
  BY DEF Mask, Runs, Goto, listVars, tickVars, lockVars
<1>p. /\ pc'[t] \in {"masked", "leaving"}
      /\ \A u \in Threads : u # t => pc'[u] = pc[u]
  BY <1>1 DEF Shape
<1>2. Lists'
  BY <1>w, <1>1 DEF Lists
<1>3. Code'
  BY <1>w, <1>t, <1>1, <1>p DEF Code
<1>4. Mutex'
  BY <1>w, <1>t, <1>1, <1>p, Parts, MutexKept DEF InSection
<1>5. QED
  BY <1>2, <1>3, <1>4 DEF Whole

\* unlock(): the head of the waiters becomes the owner and Ready in one step
LEMMA UnlockGuarded ==
    ASSUME Shape, Whole, NEW t \in Threads, Unlock(t)
    PROVE  Whole'
<1>t. Loop \in Threads /\ owner \in Threads \cup {None}
  BY DEF Threads, Shape
<1>w. Lists /\ Code /\ Mutex
  BY DEF Whole
<1>1. /\ cpu = t /\ pc[t] \in {"section", "leaving"} /\ pc' = [pc EXCEPT ![t] = "work"]
      /\ UNCHANGED <<sleepers, current, captured, cpu, ret, excused>>
  BY Zenon DEF Unlock, Runs, Goto, tickVars
<1>p. pc'[t] = "work" /\ \A u \in Threads : u # t => pc'[u] = pc[u]
  BY <1>1 DEF Shape
<1>2. /\ current # None => current = t /\ state[t] = "Running" /\ captured
      /\ current = None => t = Loop /\ ~captured
      /\ ~In(ready, t) /\ ~In(waiters, t)
  BY <1>1, RunsAsCurrent
<1> DEFINE Leaves == current # owner /\ UNCHANGED <<state, ready, locked, owner, waiters>>
           Hands == /\ current = owner /\ waiters # <<>> /\ UNCHANGED locked
                    /\ owner' = Head(waiters) /\ waiters' = Tail(waiters)
                    /\ state' = MadeReady(state, ready, owner')
                    /\ ready' = Pushed(ready, owner')
           Frees == /\ current = owner /\ waiters = <<>> /\ ~locked' /\ owner' = None
                    /\ UNCHANGED <<state, ready, waiters>>
<1>3. Leaves \/ Hands \/ Frees
  BY DEF Unlock, Handed, lockVars
<1>4. CASE Leaves
  <2>1. Lists'
    BY <1>w, <1>1, <1>4 DEF Lists
  <2>2. Code'
    BY <1>w, <1>t, <1>1, <1>4, <1>p DEF Code
  <2>3. owner # t
    BY <1>w, <1>2, <1>4, LaneAssumption DEF Mutex
  <2>4. Mutex'
    BY Zenon, <1>w, <1>t, <1>1, <1>4, <1>p, <2>3, Parts, MutexKept DEF InSection
  <2>5. QED
    BY <2>1, <2>2, <2>4 DEF Whole
<1>5. CASE Hands
  <2> DEFINE h == Head(waiters)
  <2>1. /\ h \in Threads /\ In(waiters, h) /\ Once(waiters')
        /\ \A u : In(waiters', u) <=> In(waiters, u) /\ u # h
    <3>1. waiters \in Seq(Threads) /\ Once(waiters)
      BY <1>w DEF Shape, Mutex
    <3>2. QED
      BY <1>5, <3>1, TailList
  <2>2. /\ owner' = h /\ UNCHANGED locked /\ current = owner
        /\ state' = MadeReady(state, ready, h) /\ ready' = Pushed(ready, h)
    BY <1>5
  <2> HIDE DEF h
  <2>3. state[h] = "Mute" /\ pc[h] = "spin" /\ ret[h] = "section" /\ h # owner
    BY <1>w, <2>1, Parts
  <2>4. owner # None /\ locked
    BY Zenon, <1>w, <1>5 DEF Mutex
  <2>5. current = t /\ owner = t /\ h # t /\ captured
    BY <1>2, <2>2, <2>3, <2>4
  <2>6. ~In(ready, h)
    BY <1>w, <2>1, <2>3 DEF Lists
  <2>7. /\ state'[h] = "Ready"
        /\ \A u \in Threads : u # h => state'[u] = state[u]
    BY <2>1, <2>2, <2>6 DEF MadeReady, Shape
  <2>8. Once(ready') /\ \A u : In(ready', u) <=> In(ready, u) \/ u = h
    <3>1. ready \in Seq(Threads) /\ Once(ready)
      BY <1>w DEF Shape, Lists
    <3>2. QED
      BY ZenonT(30), <3>1, <2>1, <2>2, PushedList
  <2>9. Lists'
    <3>1. \A u \in Threads : state'[u] = "Sleeping" <=> u \in sleepers'
      BY Zenon, <1>w, <1>1, <2>3, <2>7 DEF Lists
    <3>2. \A u \in Threads :
             (state'[u] = "Ready" /\ (u = Loop => captured')) <=> In(ready', u)
      BY <1>w, <1>1, <2>5, <2>7, <2>8 DEF Lists
    <3>3. \A u \in Threads : state'[u] = "Running" => current' = u
      BY <1>w, <1>1, <2>7 DEF Lists
    <3>4. QED
      BY <1>w, <1>1, <2>8, <3>1, <3>2, <3>3 DEF Lists
  <2>10. Code'
    BY <1>w, <1>t, <1>1, <1>2, <1>p, <2>3, <2>5, <2>7 DEF Code
  <2>11. Mutex'
    <3>1. locked' /\ owner' # None /\ captured'
      BY <1>1, <2>1, <2>2, <2>4, <2>5, LaneAssumption
    <3>2. \A u \in Threads : In(waiters', u) =>
             state'[u] = "Mute" /\ pc'[u] = "spin" /\ ret'[u] = "section" /\ u # owner'
      BY ZenonT(30), <1>w, <1>1, <1>2, <1>p, <2>1, <2>2, <2>7, Parts
    <3>3. /\ pc'[owner'] = "spin" /\ ret'[owner'] = "section"
          /\ state'[owner'] # "Finished"
      BY <1>1, <1>p, <2>1, <2>2, <2>3, <2>5, <2>7
    <3>4. \A u \in Threads :
             pc'[u] = "spin" /\ ret'[u] = "section" => In(waiters', u) \/ owner' = u
      BY <1>w, <1>1, <1>p, <2>1, <2>2, <2>5, Parts
    <3>5. \A u \in Threads :
             InSection(u)' => owner' = u \/ (u = Loop /\ "early" \in excused')
      BY <1>w, <1>1, <1>p, <2>5 DEF Mutex, InSection
    <3>6. QED
      BY Zenon, <2>1, <3>1, <3>2, <3>3, <3>4, <3>5 DEF Mutex
  <2>12. QED
    BY <2>9, <2>10, <2>11 DEF Whole
<1>6. CASE Frees
  <2>1. Lists'
    BY <1>w, <1>1, <1>6 DEF Lists
  <2>2. Code'
    BY <1>w, <1>t, <1>1, <1>6, <1>p DEF Code
  <2>3. \A u : ~In(waiters, u)
    BY <1>6 DEF In
  <2>4. owner # None => owner = t
    BY <1>2, <1>6
  <2>5. \A u \in Threads :
           /\ ~(pc'[u] = "spin" /\ ret'[u] = "section")
           /\ InSection(u)' => u = Loop /\ "early" \in excused'
    BY <1>w, <1>1, <1>p, <2>3, <2>4, LaneAssumption DEF Mutex, InSection
  <2>6. Mutex'
    BY Zenon, <1>w, <1>6, <2>3, <2>5 DEF Mutex
  <2>7. QED
    BY <2>1, <2>2, <2>6 DEF Whole
<1>7. QED
  BY <1>3, <1>4, <1>5, <1>6

\* sleep(), yield() and the end of a task's code: the running thread parks
\* itself outside the mutex.
LEMMA ParkGuarded ==
    ASSUME Shape, Whole, NEW t \in Threads,
           Yield(t) \/ (t \in Lanes /\ (Sleep(t) \/ Return(t)))
    PROVE  Whole'
<1>t. Loop \in Threads /\ Loop \notin Lanes /\ owner \in Threads \cup {None}
  BY LaneAssumption DEF Threads, Shape
<1>w. Lists /\ Code /\ Mutex
  BY DEF Whole
<1>1. /\ cpu = t /\ pc[t] = "work"
      /\ UNCHANGED <<current, captured, cpu, locked, owner, waiters, excused>>
  BY DEF Yield, Sleep, Return, Runs, tickVars, lockVars
<1>2. /\ current # None => current = t /\ state[t] = "Running" /\ captured
      /\ current = None => t = Loop /\ ~captured
      /\ ~In(ready, t) /\ ~In(waiters, t)
  BY Zenon, <1>1, RunsAsCurrent
<1>3. current = t /\ captured /\ state[t] = "Running"
  <2>1. current # None
    BY <1>2, <1>t, LaneAssumption DEF Yield
  <2>2. QED
    BY <1>2, <2>1
<1>4. owner # t
  BY <1>w, <1>1, Parts DEF InSection
<1>5. /\ \A u \in Threads : u # t => pc'[u] = pc[u] /\ ret'[u] = ret[u]
      /\ pc'[t] = "spin" => ret'[t] = "work"
      /\ pc'[t] \in {"spin", "ending"}
      /\ pc'[t] = "ending" => t # Loop
  BY <1>t DEF Yield, Sleep, Return, SpinThen, Goto, Shape
<1>6. /\ \A u \in Threads : u # t => state'[u] = state[u]
      /\ state'[t] \in {"Ready", "Sleeping", "Finished"}
      /\ sleepers' = IF state'[t] = "Sleeping" THEN sleepers \cup {t} ELSE sleepers
      /\ ready' = IF state'[t] = "Ready" THEN Pushed(ready, t) ELSE ready
  <2>1. MadeReady(state, ready, t) = [state EXCEPT ![t] = "Ready"]
    BY <1>2 DEF MadeReady
  <2>2. CASE Yield(t)
    BY <1>3, <2>1, <2>2 DEF Yield, Shape
  <2>3. CASE Sleep(t)
    BY <2>3 DEF Sleep, Shape
  <2>4. CASE Return(t)
    BY <1>3, <2>4 DEF Return, Shape
  <2>5. QED
    BY <2>2, <2>3, <2>4
<1>7. /\ Once(ready')
      /\ \A u : In(ready', u) <=> In(ready, u) \/ (state'[t] = "Ready" /\ u = t)
  <2>1. ready \in Seq(Threads) /\ Once(ready)
    BY <1>w DEF Shape, Lists
  <2>2. /\ Once(Pushed(ready, t))
        /\ \A u : In(Pushed(ready, t), u) <=> In(ready, u) \/ u = t
    BY <2>1, PushedList
  <2>3. CASE state'[t] = "Ready"
    BY <1>6, <2>2, <2>3
  <2>4. CASE state'[t] # "Ready"
    BY <1>6, <2>1, <2>4
  <2>5. QED
    BY <2>3, <2>4
<1>8. Lists'
  <2>1. \A u \in Threads : state'[u] = "Sleeping" <=> u \in sleepers'
    BY <1>w, <1>3, <1>6 DEF Lists
  <2>2. \A u \in Threads :
           (state'[u] = "Ready" /\ (u = Loop => captured')) <=> In(ready', u)
    BY <1>w, <1>1, <1>2, <1>3, <1>6, <1>7 DEF Lists
  <2>3. \A u \in Threads : state'[u] = "Running" => current' = u
    BY Zenon, <1>w, <1>1, <1>6 DEF Lists
  <2>4. QED
    BY <1>w, <1>1, <1>7, <2>1, <2>2, <2>3 DEF Lists
<1>9. Code'
  <2>1. \A u \in Threads : state'[u] = "none" <=> pc'[u] \in {"none", "gone"}
    BY Zenon, <1>w, <1>5, <1>6 DEF Code
  <2>2. \A u \in Threads : pc'[u] # "gone"
    BY <1>w, <1>3, <1>5, LaneAssumption DEF Code
  <2>3. pc'[Loop] \notin {"none", "gone", "ending"}
    BY <1>w, <1>t, <1>5 DEF Code
  <2>4. QED
    BY <1>1, <1>3, <1>5, <2>1, <2>2, <2>3, LaneAssumption DEF Code
<1>10. Mutex'
  BY Zenon, <1>w, <1>t, <1>1, <1>2, <1>4, <1>5, <1>6, Parts, MutexKept DEF InSection
<1>11. QED
  BY <1>8, <1>9, <1>10 DEF Whole

\* exit() of a finished lane
LEMMA ExitGuarded ==
    ASSUME Shape, Whole, NEW l \in Lanes, Exit(l)
    PROVE  Whole'
<1>t. l \in Threads /\ Loop \in Threads /\ l # Loop /\ owner \in Threads \cup {None}
  BY LaneAssumption DEF Threads, Shape
<1>w. Lists /\ Code /\ Mutex
  BY DEF Whole
<1>1. /\ cpu = l /\ pc[l] = "ending" /\ current = l /\ state[l] = "Finished"
      /\ pc' = [pc EXCEPT ![l] = "gone"] /\ state' = [state EXCEPT ![l] = "none"]
      /\ sleepers' = sleepers \ {l} /\ ready' = Dropped(ready, l) /\ current' = None
      /\ UNCHANGED <<captured, cpu, ret, locked, owner, waiters, excused>>
  BY DEF Exit, Destroy, Runs, Goto, lockVars
<1>p. /\ pc'[l] = "gone" /\ state'[l] = "none"
      /\ \A u \in Threads : u # l => pc'[u] = pc[u] /\ state'[u] = state[u]
  BY <1>t, <1>1 DEF Shape
<1>2. Once(ready') /\ \A u : In(ready', u) <=> In(ready, u) /\ u # l
  <2>1. ready \in Seq(Threads) /\ Once(ready)
    BY <1>w DEF Shape, Lists
  <2>2. QED
    BY Zenon, <1>t, <1>1, <2>1, DroppedList
<1>3. owner # l /\ ~In(waiters, l)
  BY <1>w, <1>t, <1>1, Parts DEF InSection
<1>4. Lists'
  <2>1. \A u \in Threads : state'[u] = "Sleeping" <=> u \in sleepers'
    BY <1>w, <1>1, <1>p DEF Lists
  <2>2. \A u \in Threads :
           (state'[u] = "Ready" /\ (u = Loop => captured')) <=> In(ready', u)
    BY <1>w, <1>1, <1>2, <1>p DEF Lists
  <2>3. \A u \in Threads : state'[u] # "Running"
    BY <1>w, <1>1, <1>p DEF Lists
  <2>4. QED
    BY <1>1, <1>2, <2>1, <2>2, <2>3 DEF Lists
<1>5. Code'
  <2>1. \A u \in Threads : state'[u] = "none" <=> pc'[u] \in {"none", "gone"}
    BY <1>w, <1>p DEF Code
  <2>2. \A u \in Threads : pc'[u] = "gone" => cpu' = u /\ current' = None
    BY <1>w, <1>t, <1>1, <1>p, LaneAssumption DEF Code
  <2>3. QED
    BY <1>w, <1>t, <1>1, <1>p, <2>1, <2>2, LaneAssumption DEF Code
<1>6. Mutex'
  BY <1>w, <1>t, <1>1, <1>3, <1>p, Parts, MutexKept DEF InSection
<1>7. QED
  BY <1>4, <1>5, <1>6 DEF Whole

\* the spin in exit(): left with the mutex when that was waited for
LEMMA SpinGuarded ==
    ASSUME Shape, Whole, NEW t \in Threads, Spin(t)
    PROVE  Whole'
<1>t. Loop \in Threads /\ owner \in Threads \cup {None}
  BY DEF Threads, Shape
<1>w. Lists /\ Code /\ Mutex
  BY DEF Whole
<1>1. cpu = t /\ UNCHANGED <<state, ready, sleepers, current, captured, cpu,
                             locked, owner, waiters, excused>>
  BY DEF Spin, listVars, tickVars, lockVars
<1>2. CASE UNCHANGED <<pc, ret>>
  BY Zenon, <1>w, <1>1, <1>2 DEF Whole, Lists, Code, Mutex, InSection
<1>3. CASE /\ pc[t] = "spin" /\ state[t] = "Running"
           /\ pc' = [pc EXCEPT ![t] = ret[t]] /\ ret' = [ret EXCEPT ![t] = "work"]
  <2>1. /\ pc'[t] = ret[t] /\ ret'[t] = "work" /\ ret[t] \in {"work", "section"}
        /\ \A u \in Threads : u # t => pc'[u] = pc[u] /\ ret'[u] = ret[u]
    BY <1>3 DEF Shape
  <2>2. ~In(waiters, t)
    BY <1>w, <1>3, Parts
  <2>3. ret[t] = "section" <=> owner = t
    BY <1>w, <1>3, <2>2, Parts DEF InSection
  <2>4. Lists'
    BY <1>w, <1>1 DEF Lists
  <2>5. Code'
    BY <1>w, <1>t, <1>1, <1>3, <2>1 DEF Code
  <2>6. Mutex'
    BY <1>w, <1>t, <1>1, <1>3, <2>1, <2>2, <2>3, Parts, MutexKept DEF InSection
  <2>7. QED
    BY <2>4, <2>5, <2>6 DEF Whole
<1>4. QED
  BY Zenon, <1>2, <1>3 DEF Spin, Goto

\* schedule_task
LEMMA ScheduleGuarded ==
    ASSUME Shape, Whole, NEW l \in Lanes, Schedule(l)
    PROVE  Whole'
<1>t. l \in Threads /\ Loop \in Threads /\ l # Loop /\ owner \in Threads \cup {None}
  BY LaneAssumption DEF Threads, Shape
<1>w. Lists /\ Code /\ Mutex
  BY DEF Whole
<1>1. /\ cpu = Loop /\ pc[l] = "none"
      /\ pc' = [pc EXCEPT ![l] = "work"] /\ state' = [state EXCEPT ![l] = "Ready"]
      /\ ready' = Pushed(ready, l)
      /\ UNCHANGED <<sleepers, current, captured, cpu, ret, locked, owner, waiters, excused>>
  BY DEF Schedule, Runs, Goto, lockVars
<1>p. /\ pc'[l] = "work" /\ state'[l] = "Ready"
      /\ \A u \in Threads : u # l => pc'[u] = pc[u] /\ state'[u] = state[u]
  BY <1>t, <1>1 DEF Shape
<1>2. Once(ready') /\ \A u : In(ready', u) <=> In(ready, u) \/ u = l
  <2>1. ready \in Seq(Threads) /\ Once(ready)
    BY <1>w DEF Shape, Lists
  <2>2. QED
    BY Zenon, <1>t, <1>1, <2>1, PushedList
<1>3. state[l] = "none" /\ owner # l /\ ~In(waiters, l)
  BY <1>w, <1>t, <1>1, Parts DEF Code, InSection
<1>4. Lists'
  BY <1>w, <1>t, <1>1, <1>2, <1>3, <1>p DEF Lists
<1>5. Code'
  BY <1>w, <1>t, <1>1, <1>3, <1>p DEF Code
<1>6. Mutex'
  BY <1>w, <1>t, <1>1, <1>3, <1>p, Parts, MutexKept DEF InSection
<1>7. QED
  BY <1>4, <1>5, <1>6 DEF Whole

\* the loop's own code goes on, and nothing else changes
LEMMA LoopGuarded ==
    ASSUME Shape, Whole, cpu = Loop, pc[Loop] \in {"work", "signal", "reap"},
           NEW at \in {"work", "signal", "reap"}, pc' = [pc EXCEPT ![Loop] = at],
           excused \subseteq excused',
           UNCHANGED <<state, ready, sleepers, current, captured, cpu, ret,
                       locked, owner, waiters>>
    PROVE  Whole'
<1>t. Loop \in Threads /\ owner \in Threads \cup {None}
  BY DEF Threads, Shape
<1>w. Lists /\ Code /\ Mutex
  BY DEF Whole
<1>1. pc'[Loop] = at /\ \A u \in Threads : u # Loop => pc'[u] = pc[u]
  BY <1>t DEF Shape
<1>2. Lists'
  BY <1>w DEF Lists
<1>3. Code'
  BY <1>w, <1>t, <1>1 DEF Code
<1>4. Mutex'
  BY <1>w, <1>t, <1>1, Parts, MutexKept DEF InSection
<1>5. QED
  BY <1>2, <1>3, <1>4 DEF Whole

\* A signal moves a lane that is not on the processor from one list to another;
\* a lane in the mutex is only ever muted by it, or the step is left out.
LEMMA SignalGuarded ==
    ASSUME Shape, Whole, NEW l \in Lanes, ServeSignal(l), ~Disturbed'
    PROVE  Whole'
<1>t. l \in Threads /\ Loop \in Threads /\ l # Loop /\ owner \in Threads \cup {None}
  BY LaneAssumption DEF Threads, Shape
<1>w. Lists /\ Code /\ Mutex
  BY DEF Whole
<1>1. /\ cpu = Loop /\ pc[Loop] = "signal" /\ pc' = [pc EXCEPT ![Loop] = "reap"]
      /\ state[l] # "none" /\ excused \subseteq excused'
      /\ UNCHANGED <<current, captured, cpu, ret, locked, owner, waiters>>
  BY DEF ServeSignal, Runs, Goto, tickVars, lockVars
<1>2. CASE UNCHANGED listVars
  BY <1>1, <1>2, LoopGuarded DEF listVars
<1>3. ASSUME NEW x \in {"Mute", "Ready", "Finished"},
             state' = [state EXCEPT ![l] = x],
             sleepers' = sleepers \ {l},
             Once(ready'),
             \A u : In(ready', u) <=> (In(ready, u) /\ u # l) \/ (x = "Ready" /\ u = l),
             ~In(waiters, l),
             x = "Finished" => owner # l
      PROVE  Whole'
  <2>p. /\ pc'[Loop] = "reap" /\ state'[l] = x
        /\ \A u \in Threads : u # Loop => pc'[u] = pc[u]
        /\ \A u \in Threads : u # l => state'[u] = state[u]
    BY <1>t, <1>1, <1>3 DEF Shape
  <2>1. Lists'
    <3>1. \A u \in Threads : state'[u] = "Sleeping" <=> u \in sleepers'
      BY Zenon, <1>w, <1>3, <2>p DEF Lists
    <3>2. \A u \in Threads :
             (state'[u] = "Ready" /\ (u = Loop => captured')) <=> In(ready', u)
      BY <1>w, <1>t, <1>1, <1>3, <2>p DEF Lists
    <3>3. \A u \in Threads : state'[u] = "Running" => current' = u
      BY <1>w, <1>1, <1>3, <2>p DEF Lists
    <3>4. QED
      BY <1>w, <1>1, <1>3, <3>1, <3>2, <3>3 DEF Lists
  <2>2. Code'
    BY <1>w, <1>t, <1>1, <1>3, <2>p DEF Code
  <2>3. Mutex'
    BY <1>w, <1>t, <1>1, <1>3, <2>p, Parts, MutexKept DEF InSection
  <2>4. QED
    BY <2>1, <2>2, <2>3 DEF Whole
<1>4. /\ Once(Dropped(ready, l)) /\ Once(Pushed(ready, l))
      /\ \A u : In(Dropped(ready, l), u) <=> In(ready, u) /\ u # l
      /\ \A u : In(Pushed(ready, l), u) <=> In(ready, u) \/ u = l
  <2>1. ready \in Seq(Threads) /\ Once(ready)
    BY <1>w DEF Shape, Lists
  <2>2. QED
    BY Zenon, <1>t, <2>1, DroppedList, PushedList
<1>5. pending[l] \in {"CONT", "KILL"} => ~In(waiters, l) /\ owner # l
  BY DEF ServeSignal, Disturbed
<1>6. CASE Suspend(l) /\ state[l] # "Mute"
  <2>1. ~In(waiters, l)
    BY <1>w, <1>t, <1>6, Parts
  <2>2. /\ state' = [state EXCEPT ![l] = "Mute"] /\ sleepers' = sleepers \ {l}
        /\ ready' = Dropped(ready, l)
    BY <1>6 DEF Suspend
  <2>3. QED
    BY <1>3, <1>4, <2>1, <2>2
<1>7. CASE pending[l] = "CONT" /\ Resume(l) /\ state[l] = "Mute"
  <2>1. l \notin sleepers /\ ~In(ready, l)
    BY <1>w, <1>t, <1>7 DEF Lists
  <2>2. /\ state' = [state EXCEPT ![l] = "Ready"] /\ sleepers' = sleepers \ {l}
        /\ ready' = Pushed(ready, l)
    BY <1>7, <2>1 DEF Resume, MadeReady
  <2>3. QED
    BY <1>3, <1>4, <1>5, <1>7, <2>1, <2>2
<1>8. CASE pending[l] = "KILL" /\ Terminate(l)
  <2>1. /\ state' = [state EXCEPT ![l] = "Finished"] /\ sleepers' = sleepers \ {l}
        /\ ready' = Dropped(ready, l)
    BY <1>8 DEF Terminate
  <2>2. QED
    BY <1>3, <1>4, <1>5, <1>8, <2>1
<1>9. QED
  BY <1>2, <1>6, <1>7, <1>8 DEF ServeSignal, Suspend, Resume

\* the pass reaps a lane that has finished: it was not in the mutex
LEMMA ReapGuarded ==
    ASSUME Shape, Whole, NEW l \in Lanes, ServeReap(l)
    PROVE  Whole'
<1>t. l \in Threads /\ Loop \in Threads /\ l # Loop /\ owner \in Threads \cup {None}
  BY LaneAssumption DEF Threads, Shape
<1>w. Lists /\ Code /\ Mutex
  BY DEF Whole
<1>1. /\ cpu = Loop /\ pc[Loop] = "reap"
      /\ UNCHANGED <<ret, locked, owner, waiters, excused>>
  BY DEF ServeReap, Runs, lockVars
<1>2. CASE pc' = [pc EXCEPT ![Loop] = "work"] /\ UNCHANGED <<listVars, tickVars>>
  BY <1>1, <1>2, LoopGuarded DEF listVars, tickVars
<1>3. CASE /\ state[l] = "Finished" /\ Destroy(l)
           /\ pc' = [pc EXCEPT ![l] = "none", ![Loop] = "work"]
  <2>1. /\ state' = [state EXCEPT ![l] = "none"] /\ sleepers' = sleepers \ {l}
        /\ ready' = Dropped(ready, l) /\ UNCHANGED <<captured, cpu>>
        /\ current' = IF current = l THEN None ELSE current
    BY <1>3 DEF Destroy
  <2>2. current' = current
    BY <1>w, <1>t, <1>1, <2>1 DEF Lists
  <2>p. /\ pc'[l] = "none" /\ pc'[Loop] = "work" /\ state'[l] = "none"
        /\ \A u \in Threads : u # l => state'[u] = state[u]
        /\ \A u \in Threads : u # l /\ u # Loop => pc'[u] = pc[u]
    BY <1>t, <1>3, <2>1 DEF Shape
  <2>3. Once(ready') /\ \A u : In(ready', u) <=> In(ready, u) /\ u # l
    <3>1. ready \in Seq(Threads) /\ Once(ready)
      BY <1>w DEF Shape, Lists
    <3>2. QED
      BY ZenonT(30), <1>t, <2>1, <3>1, DroppedList
  <2>4. owner # l /\ ~In(waiters, l) /\ owner # Loop /\ ~In(waiters, Loop)
    BY <1>w, <1>t, <1>1, <1>3, Parts DEF InSection
  <2>5. Lists'
    <3>1. \A u \in Threads : state'[u] = "Sleeping" <=> u \in sleepers'
      BY ZenonT(30), <1>w, <2>1, <2>p DEF Lists
    <3>2. \A u \in Threads :
             (state'[u] = "Ready" /\ (u = Loop => captured')) <=> In(ready', u)
      BY <1>w, <2>1, <2>3, <2>p DEF Lists
    <3>3. \A u \in Threads : state'[u] = "Running" => current' = u
      BY <1>w, <2>2, <2>p DEF Lists
    <3>4. QED
      BY <1>w, <2>1, <2>2, <2>3, <3>1, <3>2, <3>3 DEF Lists
  <2>6. Code'
    <3>1. \A u \in Threads : state'[u] = "none" <=> pc'[u] \in {"none", "gone"}
      BY <1>w, <1>t, <1>1, <2>p DEF Code
    <3>2. \A u \in Threads : pc'[u] = "gone" => cpu' = u /\ current' = None
      BY <1>w, <2>1, <2>2, <2>p DEF Code
    <3>3. QED
      BY <1>w, <1>t, <1>1, <2>1, <2>2, <2>p, <3>1, <3>2 DEF Code
  <2>7. Mutex'
    BY ZenonT(30), <1>w, <1>t, <1>1, <2>1, <2>4, <2>p, Parts, MutexKept DEF InSection
  <2>8. QED
    BY <2>5, <2>6, <2>7 DEF Whole
<1>4. QED
  BY <1>2, <1>3 DEF ServeReap, Goto

\* No step takes an excuse back.
LEMMA ExcusesStay == [Next]_vars => excused \subseteq excused'
<1>1. ASSUME NEW t, NEW l, NEW due, NEW sig,
             \/ Tick(due) \/ Lock(t) \/ Mask(t) \/ Unlock(t) \/ Yield(t) \/ Spin(t)
             \/ Sleep(l) \/ Return(l) \/ Exit(l) \/ Schedule(l) \/ Serve(l)
             \/ Send(l, sig) \/ Sdk \/ UNCHANGED vars
      PROVE  excused \subseteq excused'
  BY Zenon, <1>1 DEF Tick, Lock, Mask, Unlock, Yield, Spin, Sleep, Return, Exit, Schedule, Serve,
              ServeRead, ServeStale, ServeSignal, ServeReap, Send, Sdk, vars
<1>2. QED
  BY <1>1 DEF Next

\* Every step keeps the lists, the code and the mutex in agreement, unless a
\* CONT or KILL breaks into the mutex with it.
LEMMA GuardedStep == Frame /\ Frame' /\ Guarded /\ [Next]_vars => Guarded'
<1> SUFFICES ASSUME Frame, Frame', Guarded, [Next]_vars, ~Disturbed'
             PROVE  Whole'
  BY DEF Guarded, Whole
<1>1. Whole
  BY ExcusesStay DEF Guarded, Disturbed, Whole
<1>2. Shape /\ Shape'
  BY DEF Frame
<1>3. ASSUME NEW due \in SUBSET sleepers, Tick(due)
      PROVE  Whole'
  BY <1>1, <1>2, <1>3, TickGuarded
<1>4. ASSUME NEW t \in Threads,
             Lock(t) \/ Mask(t) \/ Unlock(t) \/ Yield(t) \/ Spin(t)
      PROVE  Whole'
  BY <1>1, <1>2, <1>4, LockGuarded, MaskGuarded, UnlockGuarded, ParkGuarded, SpinGuarded
<1>5. ASSUME NEW l \in Lanes,
             Sleep(l) \/ Return(l) \/ Exit(l) \/ Schedule(l)
      PROVE  Whole'
  <2>1. l \in Threads
    BY DEF Threads
  <2>2. QED
    BY <1>1, <1>2, <1>5, <2>1, ParkGuarded, ExitGuarded, ScheduleGuarded
<1>6. ASSUME NEW l \in Lanes, ServeRead(l) \/ ServeStale(l)
      PROVE  Whole'
  <2>1. /\ cpu = Loop /\ pc[Loop] \in {"work", "signal", "reap"}
        /\ pc' = [pc EXCEPT ![Loop] = "signal"] \/ pc' = [pc EXCEPT ![Loop] = "work"]
        /\ excused \subseteq excused'
        /\ UNCHANGED <<state, ready, sleepers, current, captured, cpu, ret,
                       locked, owner, waiters>>
    BY <1>6 DEF ServeRead, ServeStale, Runs, Goto, listVars, tickVars, lockVars
  <2>2. QED
    BY <1>1, <1>2, <2>1, LoopGuarded
<1>7. ASSUME NEW l \in Lanes, ServeSignal(l) \/ ServeReap(l)
      PROVE  Whole'
  BY <1>1, <1>2, <1>7, SignalGuarded, ReapGuarded
<1>8. ASSUME NEW l, NEW sig, Send(l, sig) \/ Sdk \/ UNCHANGED vars
      PROVE  Whole'
  <2>1. UNCHANGED <<state, ready, sleepers, current, captured, cpu, pc, ret,
                    locked, owner, waiters, excused>>
    BY Zenon, <1>8 DEF Send, Sdk, vars, listVars, tickVars, codeVars, lockVars
  <2>2. QED
    BY ZenonT(30), <1>1, <2>1 DEF Whole, Lists, Code, Mutex, InSection
<1>9. QED
  BY <1>3, <1>4, <1>5, <1>6, <1>7, <1>8 DEF Next, Serve

LEMMA GuardedInit == Init => Guarded
<1> SUFFICES ASSUME Init
             PROVE  Lists /\ Code /\ Mutex
  BY DEF Guarded
<1>t. Loop \in Threads /\ None \notin Threads
  BY LaneAssumption DEF Threads
<1>1. \A t : ~In(ready, t) /\ ~In(waiters, t)
  BY DEF Init, In
<1>2. Once(ready) /\ Once(waiters)
  BY DEF Init, Once
<1>3. Lists
  BY <1>1, <1>2 DEF Init, Lists
<1>4. Code
  BY <1>t DEF Init, Code
<1>5. Mutex
  BY <1>1, <1>2 DEF Init, Mutex, InSection
<1>6. QED
  BY <1>3, <1>4, <1>5

\* The inductive invariant of the lanes: the lists agree with the states, the
\* code with the lists and the mutex with both.
THEOREM GuardedAlways == Spec => []Guarded
<1>1. Frame /\ Frame' /\ Guarded /\ [Next]_vars => Guarded'
  BY GuardedStep
<1>2. QED
  BY FrameAlways, GuardedInit, <1>1, PTL DEF Spec

\* run(), suspend(), resume(), terminate() and the parks keep every executive in
\* the list its state names and nowhere else, for any number of lanes.
THEOREM QueuesAgreeAlways == Spec => []QueuesAgree
<1>1. Guarded => QueuesAgree
  BY DEF Guarded, QueuesAgree, Lists, Code, Once
<1>2. QED
  BY GuardedAlways, <1>1, PTL

\* lock() and unlock() exclude, for any number of lanes, priorities and signals:
\* only the owner is inside, but for the loop that came in before the first tick
\* and the lanes a CONT or KILL found between lock() and unlock().
THEOREM MutualExclusionAlways == Spec => []MutualExclusion
<1>1. Guarded => MutualExclusion
  BY Zenon DEF Guarded, MutualExclusion, Mutex
<1>2. QED
  BY GuardedAlways, <1>1, PTL

\* unlock() loses no wake-up: each waiter is parked once behind a holder that is
\* inside or on its way, for any number of lanes.
THEOREM WaitersServedAlways == Spec => []WaitersServed
<1>1. Frame /\ Guarded => WaitersServed
  <2> SUFFICES ASSUME Frame, Guarded, ~Disturbed
               PROVE  WaitersServed
    BY DEF WaitersServed
  <2>1. Mutex /\ Shape
    BY DEF Guarded, Frame
  <2>2. \A i \in DOMAIN waiters : waiters[i] \in Threads /\ In(waiters, waiters[i])
    BY <2>1, LenProperties, ElementOfSeq DEF Shape, In
  <2>3. QED
    BY <2>1, <2>2 DEF WaitersServed, Mutex, Once
<1>2. QED
  BY FrameAlways, GuardedAlways, <1>1, PTL

-----------------------------------------------------------------------------
(* Somebody can go on *)

\* No signal has reached a lane between its lock() and its unlock().
Undisturbed == excused \cap {"STOP", "CONT", "KILL"} = {}

\* The holder of the mutex is on its way, and the loop is parked for the mutex
\* only.
GoingOn ==
    Undisturbed =>
        /\ owner # None => state[owner] \in {"Ready", "Running"}
        /\ state[Loop] \in {"Ready", "Running", "Mute"}
        /\ state[Loop] = "Mute" => In(waiters, Loop)

\* Nobody but threads other than the holder and the loop is parked or ended.
LEMMA GoingOnKept ==
    ASSUME Undisturbed, GoingOn, owner \in Threads \cup {None}, UNCHANGED owner,
           In(waiters, Loop) => In(waiters', Loop),
           \A u \in Threads : \/ state'[u] = state[u]
                              \/ state'[u] \in {"Ready", "Running"}
                              \/ u # Loop /\ u # owner
    PROVE  GoingOn'
<1>1. Loop \in Threads
  BY DEF Threads
<1>2. QED
  BY <1>1 DEF GoingOn

\* The interrupt parks nobody: it readies, runs or leaves alone.
LEMMA TickReadies ==
    ASSUME Shape, NEW due, Tick(due), NEW u \in Threads
    PROVE  state'[u] = state[u] \/ state'[u] \in {"Ready", "Running"}
<1>1. CASE UNCHANGED listVars
  BY <1>1 DEF listVars
<1>2. ASSUME NEW st \in [Threads -> States], NEW rd, SwitchFrom(st, rd),
             st[u] = state[u] \/ st[u] = "Ready"
      PROVE  state'[u] = state[u] \/ state'[u] \in {"Ready", "Running"}
  <2>1. ASSUME NEW s \in [Threads -> States], NEW t, NEW x \in {"Ready", "Running"}
        PROVE  /\ [s EXCEPT ![t] = x] \in [Threads -> States]
               /\ [s EXCEPT ![t] = x][u] \in {s[u], x}
    BY Zenon, <2>1 DEF States
  <2>2. ASSUME NEW t, NEW s
        PROVE  MadeReady(st, s, t) \in [Threads -> States]
               /\ MadeReady(st, s, t)[u] \in {st[u], "Ready"}
    BY <2>1 DEF MadeReady
  <2>3. \/ state' = st
        \/ \E t : state' = [st EXCEPT ![t] = "Running"]
        \/ \E t, v, s : state' = [MadeReady(st, s, v) EXCEPT ![t] = "Running"]
    BY Zenon, <1>2 DEF SwitchFrom
  <2>4. CASE state' = st
    BY <1>2, <2>4
  <2>5. ASSUME NEW t, state' = [st EXCEPT ![t] = "Running"]
        PROVE  state'[u] \in {st[u], "Running"}
    BY Zenon, <2>1, <2>5
  <2>6. ASSUME NEW t, NEW v, NEW s, state' = [MadeReady(st, s, v) EXCEPT ![t] = "Running"]
        PROVE  state'[u] \in {st[u], "Ready", "Running"}
    <3> DEFINE m == MadeReady(st, s, v)
    <3>1. m \in [Threads -> States] /\ m[u] \in {st[u], "Ready"}
      BY <2>2
    <3>2. state' = [m EXCEPT ![t] = "Running"]
      BY <2>6
    <3> HIDE DEF m
    <3>3. state'[u] \in {m[u], "Running"}
      BY <2>1, <3>1, <3>2
    <3>4. QED
      BY <3>1, <3>3
  <2>7. QED
    BY <1>2, <2>3, <2>4, <2>5, <2>6
<1>3. ASSUME NEW rd, NEW w, NEW st \in [Threads -> States],
             st[u] = state[u] \/ st[u] = "Ready",
             SwitchFrom([t \in Threads |-> IF In(w, t) THEN "Ready" ELSE st[t]], rd \o w)
      PROVE  state'[u] = state[u] \/ state'[u] \in {"Ready", "Running"}
  <2> DEFINE woken == [t \in Threads |-> IF In(w, t) THEN "Ready" ELSE st[t]]
  <2>1. woken \in [Threads -> States] /\ (woken[u] = state[u] \/ woken[u] = "Ready")
    BY <1>3 DEF States
  <2>2. SwitchFrom(woken, rd \o w)
    BY <1>3
  <2> HIDE DEF woken
  <2>3. QED
    BY <1>2, <2>1, <2>2
<1>4. /\ state \in [Threads -> States]
      /\ MadeReady(state, ready, Loop) \in [Threads -> States]
      /\ MadeReady(state, ready, Loop)[u] \in {state[u], "Ready"}
  BY Zenon DEF Shape, MadeReady, States
<1>5. QED
  BY Zenon, <1>1, <1>3, <1>4 DEF Tick

LEMMA GoingOnStep == Frame /\ Frame' /\ Guarded /\ GoingOn /\ [Next]_vars => GoingOn'
<1> SUFFICES ASSUME Frame, Frame', Guarded, GoingOn, [Next]_vars, Undisturbed'
             PROVE  GoingOn'
  BY DEF GoingOn
<1>1. Undisturbed
  BY ExcusesStay DEF Undisturbed
<1>2. Whole /\ Lists /\ Code /\ Mutex
  BY <1>1 DEF Guarded, Undisturbed, Disturbed, Whole
<1>3. Shape /\ owner \in Threads \cup {None}
  BY Zenon DEF Frame, Shape
<1>t. Loop \in Threads /\ Lanes \subseteq Threads /\ Loop \notin Lanes /\ None \notin Threads
  BY LaneAssumption DEF Threads
<1>k. ASSUME UNCHANGED <<owner, waiters>>,
             \A u \in Threads : \/ state'[u] = state[u]
                                \/ state'[u] \in {"Ready", "Running"}
                                \/ u # Loop /\ u # owner
      PROVE  GoingOn'
  BY <1>1, <1>3, <1>k, GoingOnKept
<1>4. ASSUME NEW due \in SUBSET sleepers, Tick(due)
      PROVE  GoingOn'
  <2>1. UNCHANGED <<owner, waiters>>
    BY <1>4 DEF Tick, lockVars
  <2>2. QED
    BY <1>3, <1>4, <1>k, <2>1, TickReadies
<1>5. ASSUME NEW t \in Threads, Lock(t)
      PROVE  GoingOn'
  <2>1. cpu = t /\ pc[t] = "work"
    BY <1>5 DEF Lock, Runs
  <2>2. /\ current # None => current = t /\ state[t] = "Running"
        /\ ~In(waiters, t)
    BY <1>2, <2>1, RunsAsCurrent
  <2>3. owner # t
    BY <1>2, <2>1, Parts DEF InSection
  <2>4. CASE UNCHANGED <<state, owner, waiters>>
    BY <1>k, <2>4
  <2>5. CASE /\ current # None /\ owner' = current /\ UNCHANGED <<state, waiters>>
    BY <1>1, <2>2, <2>5 DEF GoingOn
  <2>6. CASE /\ current # None /\ waiters' = Append(waiters, current)
             /\ state' = Muted(state, current) /\ UNCHANGED owner
    <3>1. current = t /\ state' = [state EXCEPT ![t] = "Mute"] /\ waiters' = Pushed(waiters, t)
      BY <2>2, <2>6 DEF Muted, Pushed
    <3>2. \A u : In(waiters', u) <=> In(waiters, u) \/ u = t
      <4>1. waiters \in Seq(Threads) /\ Once(waiters)
        BY <1>2, <1>3 DEF Shape, Mutex
      <4>2. QED
        BY ZenonT(30), <3>1, <4>1, PushedList
    <3>3. state'[t] = "Mute" /\ \A u \in Threads : u # t => state'[u] = state[u]
      BY <1>3, <3>1 DEF Shape
    <3>4. QED
      BY <1>1, <1>3, <1>t, <2>3, <2>6, <3>2, <3>3 DEF GoingOn
  <2>7. QED
    BY <1>5, <2>4, <2>5, <2>6 DEF Lock, lockVars
<1>6. ASSUME NEW t \in Threads, Unlock(t)
      PROVE  GoingOn'
  <2>1. CASE UNCHANGED <<state, owner, waiters>>
    BY <1>k, <2>1
  <2>2. CASE owner' = None /\ UNCHANGED <<state, waiters>>
    BY <1>1, <2>2 DEF GoingOn
  <2>3. CASE /\ waiters # <<>> /\ owner' = Head(waiters) /\ waiters' = Tail(waiters)
             /\ state' = MadeReady(state, ready, owner')
    <3> DEFINE h == Head(waiters)
    <3>1. /\ h \in Threads /\ In(waiters, h)
          /\ \A u : In(waiters', u) <=> In(waiters, u) /\ u # h
      <4>1. waiters \in Seq(Threads) /\ Once(waiters)
        BY <1>2, <1>3 DEF Shape, Mutex
      <4>2. QED
        BY <2>3, <4>1, TailList
    <3>2. owner' = h /\ state' = MadeReady(state, ready, h)
      BY <2>3
    <3> HIDE DEF h
    <3>3. state[h] = "Mute"
      BY <1>2, <3>1, Parts
    <3>4. ~In(ready, h)
      BY <1>2, <3>1, <3>3 DEF Lists
    <3>5. state'[h] = "Ready" /\ \A u \in Threads : u # h => state'[u] = state[u]
      BY <1>3, <3>1, <3>2, <3>4 DEF MadeReady, Shape
    <3>6. QED
      BY <1>1, <1>t, <3>1, <3>2, <3>5 DEF GoingOn
  <2>4. QED
    BY <1>6, <2>1, <2>2, <2>3 DEF Unlock, Handed, lockVars
<1>7. ASSUME NEW t \in Threads, Mask(t) \/ Spin(t)
      PROVE  GoingOn'
  <2>1. UNCHANGED <<state, owner, waiters>>
    BY Zenon, <1>7 DEF Mask, Spin, listVars, lockVars
  <2>2. QED
    BY <1>k, <2>1
<1>8. ASSUME NEW t \in Threads, Yield(t)
      PROVE  GoingOn'
  <2>1. UNCHANGED <<owner, waiters>>
    BY <1>8 DEF Yield, lockVars
  <2>2. \A u \in Threads : state'[u] = state[u] \/ state'[u] = "Ready"
    BY <1>3, <1>8 DEF Yield, MadeReady, Shape
  <2>3. QED
    BY <1>k, <2>1, <2>2
<1>9. ASSUME NEW l \in Lanes, Sleep(l) \/ Return(l) \/ Exit(l) \/ Schedule(l)
      PROVE  GoingOn'
  <2>1. /\ UNCHANGED <<owner, waiters>>
        /\ \A u \in Threads : u # l => state'[u] = state[u]
    BY <1>3, <1>9 DEF Sleep, Return, Exit, Destroy, Schedule, lockVars, Shape
  <2>2. pc[l] \in {"work", "ending", "none"}
    BY <1>9 DEF Sleep, Return, Exit, Schedule, Runs
  <2>3. owner # l /\ Loop # l
    BY Zenon, <1>2, <1>t, <2>2, Parts DEF InSection
  <2>4. QED
    BY <1>k, <2>1, <2>3
<1>10. ASSUME NEW l \in Lanes, ServeSignal(l)
       PROVE  GoingOn'
  <2>1. UNCHANGED <<owner, waiters>>
    BY <1>10 DEF ServeSignal, lockVars
  <2>2. CASE UNCHANGED listVars
    BY <1>k, <2>1, <2>2 DEF listVars
  <2>3. CASE pending[l] \in {"STOP", "CONT", "KILL"} /\ (Suspend(l) \/ Resume(l) \/ Terminate(l))
    <3>1. owner # l
      BY <1>10, <2>3 DEF ServeSignal, Undisturbed
    <3>2. \A u \in Threads : u # l => state'[u] = state[u]
      BY <1>3, <2>3 DEF Suspend, Resume, Terminate, MadeReady, Shape, listVars
    <3>3. QED
      BY <1>k, <1>t, <2>1, <3>1, <3>2
  <2>4. QED
    BY <1>10, <2>2, <2>3 DEF ServeSignal
<1>11. ASSUME NEW l \in Lanes, ServeReap(l)
       PROVE  GoingOn'
  <2>1. UNCHANGED <<owner, waiters>>
    BY <1>11 DEF ServeReap, lockVars
  <2>2. CASE state' = state
    BY <1>k, <2>1, <2>2
  <2>3. CASE state[l] = "Finished" /\ state' = [state EXCEPT ![l] = "none"]
    <3>1. owner # l
      BY <1>1, <1>t, <2>3 DEF GoingOn
    <3>2. \A u \in Threads : u # l => state'[u] = state[u]
      BY <1>3, <2>3 DEF Shape
    <3>3. QED
      BY <1>k, <1>t, <2>1, <3>1, <3>2
  <2>4. QED
    BY <1>11, <2>2, <2>3 DEF ServeReap, Destroy, listVars
<1>12. ASSUME NEW l, NEW sig, ServeRead(l) \/ ServeStale(l) \/ Send(l, sig) \/ Sdk \/ UNCHANGED vars
       PROVE  GoingOn'
  <2>1. UNCHANGED <<state, owner, waiters>>
    BY Zenon, <1>12 DEF ServeRead, ServeStale, Send, Sdk, vars, listVars, lockVars
  <2>2. QED
    BY <1>k, <2>1
<1>13. QED
  BY <1>4, <1>5, <1>6, <1>7, <1>8, <1>9, <1>10, <1>11, <1>12 DEF Next, Serve

\* lock(), unlock() and the parks: the threads are never all parked behind the
\* mutex, for any number of lanes, unless a signal reached one of them between
\* lock() and unlock().
THEOREM SomeoneCanRunAlways == Spec => []SomeoneCanRun
<1>1. Init => GoingOn
  BY DEF Init, GoingOn, Threads
<1>2. Frame /\ Frame' /\ Guarded /\ GoingOn /\ [Next]_vars => GoingOn'
  BY GoingOnStep
<1>3. Frame /\ Guarded /\ GoingOn => SomeoneCanRun
  <2> SUFFICES ASSUME Frame, Guarded, GoingOn, Undisturbed, captured,
                      state[cpu] # "Running", ready = <<>>
               PROVE  FALSE
    BY DEF SomeoneCanRun, Undisturbed, Frame, Shape
  <2>1. Lists /\ Mutex /\ owner \in Threads \cup {None} /\ Loop \in Threads
    BY DEF Guarded, Undisturbed, Disturbed, Frame, Shape, Threads
  <2>2. \A u : ~In(ready, u)
    BY DEF In
  <2>3. \A u \in Threads : state[u] \notin {"Ready", "Running"}
    BY Zenon, <2>1, <2>2, LaneAssumption DEF Lists, Threads
  <2>4. In(waiters, Loop) /\ owner = None
    BY <2>1, <2>3 DEF GoingOn
  <2>5. waiters # <<>>
    BY <2>4 DEF In
  <2>6. QED
    BY Zenon, <2>1, <2>4, <2>5 DEF Mutex
<1>4. QED
  BY FrameAlways, GuardedAlways, <1>1, <1>2, <1>3, PTL DEF Spec
=============================================================================
