------------------------- MODULE LanesParkedProofs -------------------------
(***************************************************************************)
(* What holds of the preemptive lanes whatever signals break into the      *)
(* mutex, for every number of lanes and all priorities: the fields keep    *)
(* their types, aging bounds how often a ready thread is passed over, a    *)
(* lane that ended is left at the next switch, a stopped lane stays        *)
(* parked.                                                                 *)
(***************************************************************************)
EXTENDS LanesTickProofs

-----------------------------------------------------------------------------
(* Aging *)

\* pick_next_ready ran on the list rd
Ages(rd) == rd # <<>> /\ ticks' = Aged(rd, ticks, Picked(rd, ticks))

\* wait_ticks changes when a thread is picked and when a lane is scheduled.
LEMMA TicksStep ==
    ASSUME Shape, [Next]_vars
    PROVE  \/ ticks' = ticks
           \/ \E l \in Lanes : ticks' = [ticks EXCEPT ![l] = 0]
           \/ \E rd \in Seq(Threads) : Ages(rd)
<1>1. ASSUME NEW due \in SUBSET sleepers, Tick(due)
      PROVE  ticks' = ticks \/ \E rd \in Seq(Threads) : Ages(rd)
  <2>1. CASE ~MaySwitch
    BY <1>1, <2>1 DEF Tick, tickVars
  <2>2. CASE MaySwitch
    <3>1. PICK w \in Orders(Fresh(due)) : SwitchFrom(WokenStates(w), WokenList(w))
      BY Zenon, <1>1, <2>2, TickSwitches
    <3> DEFINE rd == WokenList(w)
               requeue == current # None /\ WokenStates(w)[current] = "Running"
               rd2 == IF requeue THEN Pushed(rd, current) ELSE rd
    <3>2. rd \in Seq(Threads)
      BY WokenShape
    <3>3. rd2 \in Seq(Threads)
      <4>1. requeue => current \in Threads
        BY DEF Shape
      <4> HIDE DEF rd
      <4>2. QED
        BY <3>2, <4>1, PushedList
    <3>4. ticks' = ticks \/ Ages(rd2)
      BY Zenon, <3>1 DEF SwitchFrom, Ages
    <3>5. QED
      BY Zenon, <3>3, <3>4
  <2>3. QED
    BY <2>1, <2>2
<1>2. ASSUME NEW t, NEW l, NEW sig,
             \/ Lock(t) \/ Mask(t) \/ Unlock(t) \/ Yield(t) \/ Spin(t)
             \/ Sleep(l) \/ Return(l) \/ Exit(l) \/ Serve(l)
             \/ Send(l, sig) \/ Sdk \/ UNCHANGED vars
      PROVE  ticks' = ticks
  BY Zenon, <1>2 DEF Lock, Mask, Unlock, Yield, Spin, Sleep, Return, Exit, Destroy,
              Serve, ServeRead, ServeStale, ServeSignal, ServeReap, Send, Sdk, vars, tickVars
<1>3. ASSUME NEW l \in Lanes, Schedule(l)
      PROVE  ticks' = [ticks EXCEPT ![l] = 0]
  BY <1>3 DEF Schedule
<1>4. QED
  BY Zenon, <1>1, <1>2, <1>3 DEF Next

\* The highest priority is one, and no lane's is above it.
LEMMA TopPrioHighest == TopPrio \in Nat /\ \A l \in Lanes : Prio[l] <= TopPrio
<1> DEFINE f == [t \in Threads |-> IF t = Loop THEN 0 ELSE Prio[t]]
           P == {0} \cup {Prio[l] : l \in Lanes}
<1>1. IsFiniteSet(Threads) /\ Threads # {}
  BY LaneAssumption, FS_AddElement DEF Threads
<1>2. f \in [Threads -> Nat]
  BY LaneAssumption DEF Threads
<1>3. PICK t \in Threads : \A u \in Threads : f[u] <= f[t]
  <2> HIDE DEF f
  <2>1. QED
    BY <1>1, <1>2, HighestOf
<1>4. f[t] \in P /\ \A l \in Lanes : Prio[l] <= f[t]
  BY Zenon, <1>3, LaneAssumption DEF Threads
<1>5. P \subseteq Nat
  BY LaneAssumption
<1> HIDE DEF f, P
<1>6. TopPrio \in P /\ \A l \in Lanes : Prio[l] <= TopPrio
  <2>1. TopPrio = CHOOSE p \in P : \A l \in Lanes : Prio[l] <= p
    BY DEF TopPrio, P
  <2>2. QED
    BY <1>4, <2>1
<1>7. QED
  BY <1>5, <1>6

\* The threads whose score is more than k above every priority.
High(k) == {t \in Threads : Score(ticks, t) > TopPrio + k}

\* The higher above the priorities, the fewer threads have waited that long.
Waited ==
    \A k \in Nat : High(k) # {} => Cardinality(High(k)) + k < Cardinality(Threads)

\* One pick: the one with the highest score leaves the ranks, and whoever moves
\* up a rank was in the list with it.
LEMMA WaitedPick ==
    ASSUME Shape, Waited, NEW rd \in Seq(Threads), Ages(rd)
    PROVE  Waited'
<1> DEFINE best == Picked(rd, ticks)
<1>1. /\ best \in Threads /\ In(rd, best)
      /\ \A u : In(rd, u) => Score(ticks, u) <= Score(ticks, best)
  BY PickedFromList DEF Ages, Shape
<1>2. IsFiniteSet(Threads) /\ Cardinality(Threads) \in Nat
  BY LaneAssumption, FS_AddElement, FS_CardinalityType DEF Threads
<1>3. TopPrio \in Nat
  BY TopPrioHighest
<1>4. ticks' = Aged(rd, ticks, best)
  BY DEF Ages
<1> HIDE DEF best
<1>5. \A t \in Threads : Score(ticks, t) \in Nat /\ Score(ticks', t) \in Nat
  <2>1. ticks \in [Threads -> Nat] /\ ticks' \in [Threads -> Nat]
    BY <1>4, LaneAssumption DEF Aged, Shape
  <2>2. ASSUME NEW tk \in [Threads -> Nat], NEW t \in Threads
        PROVE  Score(tk, t) \in Nat
    BY LaneAssumption DEF Score, Threads
  <2>3. QED
    BY Zenon, <2>1, <2>2
<1>6. Score(ticks', best) <= TopPrio
  BY <1>1, <1>3, <1>4, TopPrioHighest, LaneAssumption DEF Score, Aged, Threads
<1>7. \A t \in Threads :
         /\ Score(ticks', t) <= Score(ticks, t) + 1
         /\ ~In(rd, t) => Score(ticks', t) <= Score(ticks, t)
  BY <1>1, <1>4, LaneAssumption DEF Score, Aged, Threads, Shape
<1>8. SUFFICES ASSUME NEW k \in Nat, High(k)' # {}
               PROVE  Cardinality(High(k)') + k < Cardinality(Threads)
  BY DEF Waited
<1>9. High(k)' = {t \in Threads : Score(ticks', t) > TopPrio + k}
  BY DEF High
<1> DEFINE H == High(k)'
<1>10. H \subseteq Threads /\ best \notin H
  BY <1>3, <1>5, <1>6, <1>9
<1> HIDE DEF H
<1>11. ASSUME NEW S, S \subseteq Threads, H \subseteq S
       PROVE  /\ Cardinality(H) \in Nat /\ Cardinality(S) \in Nat
              /\ Cardinality(H) <= Cardinality(S)
              /\ best \in S => Cardinality(H) < Cardinality(S)
  <2>1. IsFiniteSet(S) /\ IsFiniteSet(H)
    BY <1>2, <1>11, FS_Subset
  <2>2. /\ Cardinality(H) \in Nat /\ Cardinality(S) \in Nat
        /\ Cardinality(H) <= Cardinality(S)
        /\ Cardinality(H) = Cardinality(S) => H = S
    BY <1>11, <2>1, FS_Subset, FS_CardinalityType
  <2>3. QED
    BY <1>10, <2>2
<1>12. CASE k = 0
  BY <1>1, <1>2, <1>10, <1>11, <1>12 DEF H
<1>13. CASE k # 0 /\ best \in High(k - 1)
  <2>1. k - 1 \in Nat
    BY <1>13
  <2>2. High(k - 1) \subseteq Threads
    BY DEF High
  <2>3. H \subseteq High(k - 1)
    BY <1>3, <1>5, <1>7, <1>9, <2>1 DEF High, H
  <2>4. Cardinality(High(k - 1)) + (k - 1) < Cardinality(Threads)
    BY <1>13, <2>1 DEF Waited
  <2>5. /\ Cardinality(H) \in Nat /\ Cardinality(High(k - 1)) \in Nat
        /\ Cardinality(H) < Cardinality(High(k - 1))
    BY <1>11, <1>13, <2>2, <2>3
  <2>6. QED
    BY <1>2, <2>4, <2>5 DEF H
<1>14. CASE k # 0 /\ best \notin High(k - 1)
  <2>1. \A u \in Threads : In(rd, u) => Score(ticks, u) <= TopPrio + (k - 1)
    BY <1>1, <1>3, <1>5, <1>14 DEF High
  <2>2. H \subseteq High(k)
    BY <1>3, <1>5, <1>7, <1>9, <2>1 DEF High, H
  <2>3. High(k) \subseteq Threads /\ High(k) # {}
    BY <1>8, <2>2 DEF High, H
  <2>4. Cardinality(High(k)) + k < Cardinality(Threads)
    BY <2>3 DEF Waited
  <2>5. /\ Cardinality(H) \in Nat /\ Cardinality(High(k)) \in Nat
        /\ Cardinality(H) <= Cardinality(High(k))
    BY <1>11, <2>2, <2>3
  <2>6. QED
    BY <1>2, <2>4, <2>5 DEF H
<1>15. QED
  BY <1>12, <1>13, <1>14

\* Whatever else happens, nobody's score goes up.
LEMMA WaitedStep ==
    ASSUME Shape, Waited, [Next]_vars
    PROVE  Waited'
<1>1. CASE \E rd \in Seq(Threads) : Ages(rd)
  BY Zenon, <1>1, WaitedPick
<1>2. CASE ticks' = ticks
  BY <1>2 DEF Waited, High
<1>3. ASSUME NEW l \in Lanes, ticks' = [ticks EXCEPT ![l] = 0]
      PROVE  Waited'
  <2>1. IsFiniteSet(Threads) /\ Cardinality(Threads) \in Nat /\ TopPrio \in Nat
    BY LaneAssumption, FS_AddElement, FS_CardinalityType, TopPrioHighest DEF Threads
  <2>2. \A t \in Threads : /\ Score(ticks, t) \in Nat /\ Score(ticks', t) \in Nat
                           /\ Score(ticks', t) <= Score(ticks, t)
    <3>1. \A t \in Threads : ticks[t] \in Nat /\ ticks'[t] \in Nat /\ ticks'[t] <= ticks[t]
      BY <1>3 DEF Shape
    <3>2. QED
      BY <3>1, LaneAssumption DEF Score, Threads
  <2>3. ASSUME NEW k \in Nat, High(k)' # {}
        PROVE  Cardinality(High(k)') + k < Cardinality(Threads)
    <3>1. High(k)' \subseteq High(k) /\ High(k) \subseteq Threads
      BY <2>1, <2>2 DEF High
    <3>2. Cardinality(High(k)) + k < Cardinality(Threads)
      BY <2>3, <3>1 DEF Waited
    <3>3. IsFiniteSet(High(k)) /\ IsFiniteSet(High(k)')
      BY <2>1, <3>1, FS_Subset
    <3>4. /\ Cardinality(High(k)) \in Nat /\ Cardinality(High(k)') \in Nat
          /\ Cardinality(High(k)') <= Cardinality(High(k))
      BY <3>1, <3>3, FS_Subset, FS_CardinalityType
    <3>5. QED
      BY <2>1, <3>2, <3>4
  <2>4. QED
    BY <2>3 DEF Waited
<1>4. QED
  BY Zenon, <1>1, <1>2, <1>3, TicksStep

\* pick_next_ready and its aging: for any number of lanes and any priorities, a
\* ready thread's score never gets further above the highest priority than there
\* are threads, so it is passed over a bounded number of times.
THEOREM PassedOverBoundedAlways == Spec => []PassedOverBounded
<1>1. Init => Waited
  <2> SUFFICES ASSUME Init
               PROVE  Waited
    OBVIOUS
  <2>1. \A t \in Threads : Score(ticks, t) <= TopPrio
    BY TopPrioHighest, LaneAssumption DEF Init, Score, Threads
  <2>2. \A t \in Threads : Score(ticks, t) \in Nat
    BY LaneAssumption DEF Init, Score, Threads
  <2>3. \A k \in Nat : High(k) = {}
    BY <2>1, <2>2, TopPrioHighest DEF High
  <2>4. QED
    BY <2>3 DEF Waited
<1>2. Frame /\ Waited /\ [Next]_vars => Waited'
  BY WaitedStep DEF Frame
<1>3. Frame /\ Waited => PassedOverBounded
  <2> SUFFICES ASSUME Frame, Waited, NEW t \in Threads
               PROVE  Score(ticks, t) <= TopPrio + Cardinality(Threads)
    BY DEF PassedOverBounded
  <2> DEFINE N == Cardinality(Threads)
  <2>1. IsFiniteSet(Threads) /\ N \in Nat /\ TopPrio \in Nat
    BY LaneAssumption, FS_AddElement, FS_CardinalityType, TopPrioHighest DEF Threads
  <2>2. Score(ticks, t) \in Nat
    BY LaneAssumption DEF Score, Threads, Frame, Shape
  <2>3. High(N) = {}
    <3>1. SUFFICES ASSUME High(N) # {}
                   PROVE  FALSE
      OBVIOUS
    <3>2. Cardinality(High(N)) + N < N
      BY <2>1, <3>1 DEF Waited
    <3>3. Cardinality(High(N)) \in Nat
      <4>1. High(N) \subseteq Threads
        BY DEF High
      <4>2. QED
        BY <2>1, <4>1, FS_Subset, FS_CardinalityType
    <3> HIDE DEF N
    <3>4. QED
      BY <2>1, <3>2, <3>3
  <2>4. QED
    BY <2>1, <2>2, <2>3 DEF High
<1>4. QED
  BY FrameAlways, <1>1, <1>2, <1>3, PTL DEF Spec

-----------------------------------------------------------------------------
(* The types *)

Flags == {timer, captured, req, sdk, locked} \subseteq BOOLEAN

Signals == {"NONE", "STOP", "CONT", "KILL"}

Tasks ==
    /\ pending \in [Lanes -> Signals]
    /\ stopped \subseteq Lanes
    /\ serving \in Lanes \cup {None}
    /\ sent \in 0..MaxSignals
    /\ excused \subseteq {"early", "stale", "STOP", "CONT", "KILL"}

\* The cap on wait_ticks holds.
LEMMA CapStep ==
    ASSUME Shape, \A t \in Threads : ticks[t] <= AgeCap, [Next]_vars
    PROVE  \A t \in Threads : ticks'[t] <= AgeCap
<1>1. \A t \in Threads : ticks[t] \in Nat
  BY DEF Shape
<1>2. CASE ticks' = ticks
  BY <1>2
<1>3. ASSUME NEW l \in Lanes, ticks' = [ticks EXCEPT ![l] = 0]
      PROVE  \A t \in Threads : ticks'[t] <= AgeCap
  BY <1>1, <1>3, LaneAssumption DEF Shape
<1>4. ASSUME NEW rd \in Seq(Threads), Ages(rd)
      PROVE  \A t \in Threads : ticks'[t] <= AgeCap
  BY <1>1, <1>4, LaneAssumption DEF Ages, Aged
<1>5. QED
  BY Zenon, <1>2, <1>3, <1>4, TicksStep

\* The flags stay flags.
LEMMA FlagsStep ==
    ASSUME Flags, [Next]_vars
    PROVE  Flags'
<1>0. \A x : x \in {timer, captured, req, sdk, locked} => x \in BOOLEAN
  BY DEF Flags
<1>1. /\ timer \in BOOLEAN /\ captured \in BOOLEAN /\ req \in BOOLEAN
      /\ sdk \in BOOLEAN /\ locked \in BOOLEAN
  BY <1>0
<1>2. SUFFICES /\ timer' \in BOOLEAN /\ captured' \in BOOLEAN /\ req' \in BOOLEAN
               /\ sdk' \in BOOLEAN /\ locked' \in BOOLEAN
  BY DEF Flags
<1>3. ASSUME NEW t, NEW due, Tick(due) \/ Lock(t) \/ Unlock(t)
      PROVE  /\ timer' \in BOOLEAN /\ captured' \in BOOLEAN /\ req' \in BOOLEAN
             /\ sdk' \in BOOLEAN /\ locked' \in BOOLEAN
  BY Zenon, <1>1, <1>3 DEF Tick, Lock, Unlock, tickVars, lockVars
<1>4. ASSUME NEW t, NEW l, Mask(t) \/ Yield(t) \/ Spin(t) \/ Sleep(l) \/ Return(l)
      PROVE  /\ timer' \in BOOLEAN /\ captured' \in BOOLEAN /\ req' \in BOOLEAN
             /\ sdk' \in BOOLEAN /\ locked' \in BOOLEAN
  BY Zenon, <1>1, <1>4 DEF Mask, Yield, Spin, Sleep, Return, tickVars, lockVars
<1>5. ASSUME NEW l, Exit(l) \/ Schedule(l) \/ Serve(l)
      PROVE  /\ timer' \in BOOLEAN /\ captured' \in BOOLEAN /\ req' \in BOOLEAN
             /\ sdk' \in BOOLEAN /\ locked' \in BOOLEAN
  BY Zenon, <1>1, <1>5 DEF Exit, Destroy, Schedule, Serve, ServeRead, ServeStale,
              ServeSignal, ServeReap, tickVars, lockVars
<1>6. ASSUME NEW l, NEW sig, Send(l, sig) \/ Sdk \/ UNCHANGED vars
      PROVE  /\ timer' \in BOOLEAN /\ captured' \in BOOLEAN /\ req' \in BOOLEAN
             /\ sdk' \in BOOLEAN /\ locked' \in BOOLEAN
  BY Zenon, <1>1, <1>6 DEF Send, Sdk, vars, tickVars, codeVars, lockVars
<1>7. QED
  BY Zenon, <1>3, <1>4, <1>5, <1>6 DEF Next

\* The task records, the pass and the history keep their types.
LEMMA TasksStep ==
    ASSUME Tasks, [Next]_vars
    PROVE  Tasks'
<1> USE DEF Signals
<1>1. ASSUME NEW t, NEW l, NEW due,
             \/ Tick(due) \/ Mask(t) \/ Unlock(t) \/ Yield(t) \/ Spin(t)
             \/ Sleep(l) \/ Return(l) \/ Schedule(l) \/ Sdk \/ UNCHANGED vars
      PROVE  UNCHANGED <<pending, stopped, serving, sent, excused>>
  BY Zenon, <1>1 DEF Tick, Mask, Unlock, Yield, Spin, Sleep, Return, Schedule, Sdk, vars,
              taskVars, passVars
<1>2. ASSUME NEW t, Lock(t)
      PROVE  Tasks'
  <2>1. UNCHANGED <<pending, stopped, serving, sent>>
    BY Zenon, <1>2 DEF Lock, taskVars, passVars
  <2>2. excused' = excused \/ excused' = excused \cup {"early"}
    BY Zenon, <1>2 DEF Lock
  <2>3. QED
    BY Zenon, <2>1, <2>2 DEF Tasks
<1>3. ASSUME NEW l \in Lanes, Exit(l)
      PROVE  Tasks'
  BY <1>3 DEF Exit, Destroy, Tasks, passVars
<1>4. ASSUME NEW l \in Lanes, NEW sig \in {"STOP", "CONT", "KILL"}, Send(l, sig)
      PROVE  Tasks'
  BY <1>4, LaneAssumption DEF Send, Tasks
<1>5. ASSUME NEW l \in Lanes, ServeRead(l) \/ ServeStale(l)
      PROVE  Tasks'
  BY Zenon, <1>5 DEF ServeRead, ServeStale, Tasks, taskVars
<1>6. ASSUME NEW l \in Lanes, ServeSignal(l)
      PROVE  Tasks'
  <2>1. pending' = [pending EXCEPT ![l] = "NONE"] /\ UNCHANGED <<serving, sent>>
    BY <1>6 DEF ServeSignal, passVars
  <2>2. stopped' \subseteq stopped \cup {l}
    BY Zenon, <1>6 DEF ServeSignal
  <2>3. \/ excused' = excused
        \/ pending[l] # "NONE" /\ excused' = excused \cup {pending[l]}
    BY Zenon, <1>6 DEF ServeSignal
  <2>4. QED
    BY Zenon, <2>1, <2>2, <2>3 DEF Tasks
<1>7. ASSUME NEW l \in Lanes, ServeReap(l)
      PROVE  Tasks'
  BY <1>7 DEF ServeReap, Destroy, Tasks, taskVars
<1>8. CASE UNCHANGED <<pending, stopped, serving, sent, excused>>
  BY <1>8 DEF Tasks
<1>9. QED
  BY Zenon, <1>1, <1>2, <1>3, <1>4, <1>5, <1>6, <1>7, <1>8 DEF Next, Serve

\* Every field of the scheduler, the executives, the mutex and the task records
\* keeps its type, wait_ticks its cap, for any number of lanes and signals.
THEOREM LaneTypeCorrect == Spec => []LaneTypeOK
<1> DEFINE Typed == (\A t \in Threads : ticks[t] <= AgeCap) /\ Flags /\ Tasks
<1>1. Init => Typed
  <2> SUFFICES ASSUME Init
               PROVE  Typed
    OBVIOUS
  <2>1. \A t \in Threads : ticks[t] <= AgeCap
    BY LaneAssumption DEF Init
  <2>2. Flags
    BY Zenon DEF Init, Flags
  <2>3. Tasks
    BY LaneAssumption DEF Init, Tasks, Signals
  <2>4. QED
    BY <2>1, <2>2, <2>3
<1>2. Frame /\ Typed /\ [Next]_vars => Typed'
  BY Zenon, CapStep, FlagsStep, TasksStep DEF Frame
<1>3. Frame /\ Typed => LaneTypeOK
  <2> SUFFICES ASSUME Frame, Typed
               PROVE  LaneTypeOK
    OBVIOUS
  <2>1. ticks \in [Threads -> 0..AgeCap]
    BY LaneAssumption DEF Frame, Shape
  <2>2. QED
    BY <2>1 DEF Frame, Shape, Flags, Tasks, Signals, LaneTypeOK, States, Places
<1> HIDE DEF Typed
<1>4. QED
  BY FrameAlways, <1>1, <1>2, <1>3, PTL DEF Spec

-----------------------------------------------------------------------------
(* The interrupt, whatever the lists hold *)

\* A thread that is in neither list.
Out(t) == ~In(ready, t) /\ t \notin sleepers

\* run() stays, or makes an entry of the list or the current thread the running
\* one; nobody else's state changes but the current thread's, who is requeued.
LEMMA SwitchAny ==
    ASSUME Shape, NEW st \in [Threads -> States], NEW rd \in Seq(Threads),
           Once(rd), SwitchFrom(st, rd)
    PROVE  \/ /\ ready' = rd /\ UNCHANGED <<current, cpu, pc>>
              /\ \A t \in Threads : state'[t] # st[t] => t = current /\ state'[t] = "Running"
              /\ current = None => rd = <<>>
           \/ /\ current' = cpu' /\ cpu' \in Threads /\ state'[cpu'] = "Running"
              /\ In(rd, cpu') \/ cpu' = current
              /\ \A t \in Threads : t # cpu' /\ state'[t] # st[t] =>
                    t = current /\ st[t] = "Running" /\ state'[t] = "Ready"
              /\ Once(ready')
              /\ \A t : In(ready', t) => \/ In(rd, t)
                                         \/ t = current /\ t \in Threads /\ st[t] = "Running"
              /\ pc' = IF pc[cpu] = "gone" THEN [pc EXCEPT ![cpu] = "none"] ELSE pc
<1> DEFINE c == current
           goesOn == /\ c # None
                     /\ \/ rd = <<>> /\ st[c] \in {"Running", "Ready"}
                        \/ st[c] = "Finished"
           requeue == c # None /\ st[c] = "Running"
           rd2 == IF requeue THEN Pushed(rd, c) ELSE rd
           st2 == IF requeue THEN MadeReady(st, rd, c) ELSE st
           next == Picked(rd2, ticks)
<1>c. c # None => c \in Threads
  BY DEF Shape
<1>1. CASE goesOn \/ rd2 = <<>>
  <2>1. /\ state' = IF goesOn /\ st[c] = "Ready" THEN [st EXCEPT ![c] = "Running"] ELSE st
        /\ ready' = rd
        /\ UNCHANGED <<current, ticks, cpu, pc>>
    BY <1>1 DEF SwitchFrom
  <2>2. \A t \in Threads : state'[t] # st[t] => t = current /\ state'[t] = "Running"
    BY <2>1
  <2>3. current = None => rd = <<>>
    BY <1>1
  <2>4. QED
    BY <2>1, <2>2, <2>3
<1>2. CASE ~(goesOn \/ rd2 = <<>>)
  <2>1. /\ state' = [st2 EXCEPT ![next] = "Running"]
        /\ ready' = Dropped(rd2, next)
        /\ current' = next
        /\ cpu' = next
        /\ pc' = IF pc[cpu] = "gone" THEN [pc EXCEPT ![cpu] = "none"] ELSE pc
    BY Zenon, <1>2 DEF SwitchFrom
  <2>2. /\ rd2 \in Seq(Threads) /\ Once(rd2)
        /\ \A t : In(rd2, t) <=> In(rd, t) \/ (requeue /\ t = c)
    BY Zenon, <1>c, PushedList
  <2>3. /\ st2 \in [Threads -> States]
        /\ \A t \in Threads : st2[t] # st[t] => requeue /\ t = c /\ st2[t] = "Ready"
    BY <1>c DEF MadeReady, States
  <2>4. rd2 # <<>>
    BY <1>2
  <2> HIDE DEF rd2
  <2>5. next \in Threads /\ In(rd2, next)
    BY <2>2, <2>4, PickedFromList DEF Shape
  <2>6. /\ Once(Dropped(rd2, next))
        /\ \A t : In(Dropped(rd2, next), t) <=> In(rd2, t) /\ t # next
    BY <2>2, <2>5, DroppedList
  <2> HIDE DEF st2, next
  <2>7. /\ state'[cpu'] = "Running"
        /\ \A t \in Threads : t # cpu' => state'[t] = st2[t]
    BY <2>1, <2>3, <2>5
  <2>8. \A t : In(ready', t) => \/ In(rd, t)
                                \/ t = current /\ t \in Threads /\ st[t] = "Running"
    BY <1>c, <2>1, <2>2, <2>6
  <2>9. In(rd, cpu') \/ cpu' = current
    BY <2>1, <2>2, <2>5
  <2>10. QED
    BY <2>1, <2>3, <2>5, <2>6, <2>7, <2>8, <2>9
<1>3. QED
  BY <1>1, <1>2

\* A tick leaves a lane alone that is in neither list and not current; who is
\* Mute after it was Mute before, and the processor is left when it runs nobody
\* and somebody is ready.
LEMMA TickEffect ==
    ASSUME Shape, Once(ready), current # None => cpu = current,
           NEW due \in SUBSET sleepers, Tick(due)
    PROVE  /\ Once(ready') /\ sleepers' \subseteq sleepers
           /\ current' # None => cpu' = current'
           /\ \/ UNCHANGED <<cpu, current, pc>>
              \/ /\ current' = cpu' /\ cpu' \in Threads /\ state'[cpu'] = "Running"
                 /\ pc' = IF pc[cpu] = "gone" THEN [pc EXCEPT ![cpu] = "none"] ELSE pc
           /\ \A l \in Lanes : Out(l) /\ current # l =>
                 /\ state'[l] = state[l] /\ ~In(ready', l)
                 /\ current' # l /\ (cpu' = l => cpu = l)
           /\ \A l \in Lanes : state'[l] = "Mute" =>
                 state[l] = "Mute" /\ (In(ready', l) => In(ready, l))
           /\ req /\ current = None /\ ready # <<>> => current' # None
<1>t. Loop \in Threads /\ Lanes \subseteq Threads /\ Loop \notin Lanes
  BY LaneAssumption DEF Threads
<1>1. CASE ~MaySwitch
  <2>1. ~req /\ UNCHANGED <<state, ready, sleepers, current, cpu, pc>>
    BY <1>1 DEF Tick, listVars, tickVars, MaySwitch
  <2>2. QED
    BY Zenon, <2>1 DEF Out
<1>2. CASE MaySwitch
  <2>1. PICK w \in Orders(Fresh(due)) : SwitchFrom(WokenStates(w), WokenList(w))
    BY Zenon, <1>2, TickSwitches
  <2>2. sleepers' = sleepers \ due
    BY ZenonT(30), <1>2, TickSwitches
  <2> DEFINE st == WokenStates(w)
             rd == WokenList(w)
  <2>3. /\ AwakeList \in Seq(Threads) /\ w \in Seq(Threads) /\ Once(w)
        /\ \A t : In(w, t) <=> t \in due /\ ~In(AwakeList, t)
        /\ rd \in Seq(Threads) /\ st \in [Threads -> States]
    BY WokenShape
  <2>4. Once(AwakeList) /\ \A l \in Lanes : In(AwakeList, l) <=> In(ready, l)
    BY Zenon, <1>t, PushedList DEF AwakeList, Shape
  <2>5. ready # <<>> => AwakeList # <<>>
    BY <1>t, PushedList DEF AwakeList, Shape
  <2>6. Once(rd) /\ \A t : In(rd, t) <=> In(AwakeList, t) \/ In(w, t)
    <3>1. \A t : ~(In(AwakeList, t) /\ In(w, t))
      BY <2>3
    <3>2. QED
      BY <2>3, <2>4, <3>1, JoinedList DEF WokenList
  <2>7. \A l \in Lanes : In(rd, l) <=> In(ready, l) \/ l \in due
    BY Zenon, <2>3, <2>4, <2>6
  <2>8. rd = <<>> => ready = <<>>
    BY <2>3, <2>5, ConcatEmptySeq, ConcatProperties, EmptySeq DEF WokenList
  <2>9. \A l \in Lanes : /\ st[l] # state[l] => In(w, l) /\ st[l] = "Ready"
                         /\ In(w, l) => st[l] = "Ready"
    BY <1>t DEF WokenStates, AwakeStates, MadeReady, Shape
  <2> DEFINE Stays == /\ ready' = rd /\ UNCHANGED <<current, cpu, pc>>
                      /\ \A t \in Threads :
                            state'[t] # st[t] => t = current /\ state'[t] = "Running"
                      /\ current = None => rd = <<>>
             Moves == /\ current' = cpu' /\ cpu' \in Threads /\ state'[cpu'] = "Running"
                      /\ In(rd, cpu') \/ cpu' = current
                      /\ \A t \in Threads : t # cpu' /\ state'[t] # st[t] =>
                            t = current /\ st[t] = "Running" /\ state'[t] = "Ready"
                      /\ Once(ready')
                      /\ \A t : In(ready', t) =>
                            \/ In(rd, t)
                            \/ t = current /\ t \in Threads /\ st[t] = "Running"
                      /\ pc' = IF pc[cpu] = "gone" THEN [pc EXCEPT ![cpu] = "none"] ELSE pc
  <2>10. Stays \/ Moves
    BY Zenon, <2>1, <2>3, <2>6, SwitchAny
  <2> HIDE DEF st, rd
  <2>11. CASE Stays
    <3>1. \A l \in Lanes : Out(l) /\ current # l =>
             /\ state'[l] = state[l] /\ ~In(ready', l)
             /\ current' # l /\ (cpu' = l => cpu = l)
      BY <1>t, <2>3, <2>7, <2>9, <2>11 DEF Out
    <3>2. \A l \in Lanes : state'[l] = "Mute" =>
             state[l] = "Mute" /\ (In(ready', l) => In(ready, l))
      BY <1>t, <2>3, <2>4, <2>6, <2>9, <2>11
    <3>3. QED
      BY <2>2, <2>6, <2>8, <2>11, <3>1, <3>2
  <2>12. CASE Moves
    <3>1. \A l \in Lanes : Out(l) /\ current # l =>
             /\ state'[l] = state[l] /\ ~In(ready', l)
             /\ current' # l /\ (cpu' = l => cpu = l)
      BY <1>t, <2>3, <2>7, <2>9, <2>12 DEF Out
    <3>2. \A l \in Lanes : state'[l] = "Mute" =>
             state[l] = "Mute" /\ (In(ready', l) => In(ready, l))
      BY <1>t, <2>3, <2>4, <2>6, <2>9, <2>12
    <3>3. current' # None
      BY <2>12, LaneAssumption
    <3>4. QED
      BY <2>2, <2>12, <3>1, <3>2, <3>3
  <2>13. QED
    BY <2>10, <2>11, <2>12
<1>3. QED
  BY <1>1, <1>2

-----------------------------------------------------------------------------
(* Parked and ended lanes *)

\* A lane the interrupt and the mutex cannot reach.
Parked(l) ==
    /\ state[l] \in {"Mute", "Finished"}
    /\ Out(l) /\ cpu # l
    /\ ~In(waiters, l) /\ owner # l

\* What no signal can disturb: the current thread has the processor, the mutex
\* is held when it has an owner, nobody is in the ready list twice.
Ground ==
    /\ current # None => cpu = current
    /\ (locked <=> owner # None) /\ (waiters # <<>> => locked)
    /\ Once(ready)
    /\ pc[Loop] # "gone"
    /\ stopped \subseteq Lanes

\* Of a lane: when it is Mute on the processor it spins in exit(); when its code
\* has ended it is in no list, unless the mutex was handed to what is left of it;
\* a lane that is gone has the processor until it is taken; one that is Mute
\* outside the mutex is in no list.
LaneKept(l) ==
    /\ state[l] = "Mute" /\ cpu = l => pc[l] = "spin"
    /\ pc[l] \in {"none", "gone"} =>
          owner = l \/ (state[l] = "none" /\ Out(l) /\ current # l)
    /\ pc[l] = "gone" => cpu = l /\ current = None /\ Out(l)
    /\ state[l] = "Mute" /\ ~In(waiters, l) /\ owner # l => Out(l)

Parking ==
    /\ Ground
    /\ \A l \in Lanes : LaneKept(l)
    /\ "STOP" \notin excused => \A l \in stopped : Parked(l)

\* A lane that no part of the step is about.
LEMMA UntouchedKept ==
    ASSUME NEW l, LaneKept(l),
           state'[l] = state[l], pc'[l] = pc[l], cpu' = cpu,
           current' = current \/ (current' = None /\ None # l),
           In(ready', l) => In(ready, l), l \in sleepers' => l \in sleepers,
           In(waiters, l) => In(waiters', l) \/ owner' = l,
           owner = l => owner' = l
    PROVE  LaneKept(l)'
  BY Zenon DEF LaneKept, Out

\* The interrupt.
LEMMA TickParking ==
    ASSUME Shape, Shape', Parking, NEW due \in SUBSET sleepers, Tick(due)
    PROVE  Parking'
<1>t. Loop \in Threads /\ Lanes \subseteq Threads /\ Loop \notin Lanes /\ None \notin Lanes
  BY LaneAssumption DEF Threads
<1>l. UNCHANGED <<ret, locked, owner, waiters, stopped, excused>>
  BY DEF Tick, lockVars, taskVars
<1>g. Ground /\ \A l \in Lanes : LaneKept(l)
  BY DEF Parking
<1> DEFINE Stays == UNCHANGED <<cpu, current, pc>>
           Moves == /\ current' = cpu' /\ cpu' \in Threads /\ state'[cpu'] = "Running"
                    /\ pc' = IF pc[cpu] = "gone" THEN [pc EXCEPT ![cpu] = "none"] ELSE pc
<1>1. /\ Once(ready') /\ sleepers' \subseteq sleepers
      /\ current' # None => cpu' = current'
      /\ Stays \/ Moves
      /\ \A l \in Lanes : Out(l) /\ current # l =>
            /\ state'[l] = state[l] /\ ~In(ready', l)
            /\ current' # l /\ (cpu' = l => cpu = l)
      /\ \A l \in Lanes : state'[l] = "Mute" =>
            state[l] = "Mute" /\ (In(ready', l) => In(ready, l))
  BY Zenon, <1>g, TickEffect DEF Ground
<1>2. \A t \in Threads : /\ pc'[t] # pc[t] => pc[t] = "gone" /\ pc'[t] = "none" /\ t = cpu
                         /\ Moves => t # cpu \/ pc'[t] # "gone"
  BY <1>1 DEF Shape
<1> HIDE DEF Stays, Moves
<1>3. Ground'
  BY <1>l, <1>g, <1>t, <1>1, <1>2 DEF Ground
<1>4. ASSUME NEW l \in Lanes
      PROVE  LaneKept(l)'
  <2>k. LaneKept(l)
    BY <1>g
  <2>1. state'[l] = "Mute" /\ cpu' = l => pc'[l] = "spin"
    <3>1. CASE Moves
      BY <1>1, <3>1 DEF Moves
    <3>2. CASE Stays
      BY <1>1, <2>k, <3>2 DEF LaneKept, Stays
    <3>3. QED
      BY <1>1, <3>1, <3>2
  <2>2. pc'[l] \in {"none", "gone"} =>
           owner' = l \/ (state'[l] = "none" /\ Out(l)' /\ current' # l)
    <3>1. pc'[l] \in {"none", "gone"} => pc[l] \in {"none", "gone"}
      BY <1>t, <1>2
    <3>2. QED
      BY <1>l, <1>1, <2>k, <3>1 DEF LaneKept, Out
  <2>3. pc'[l] = "gone" => cpu' = l /\ current' = None /\ Out(l)'
    <3>1. SUFFICES ASSUME pc'[l] = "gone"
                   PROVE  cpu' = l /\ current' = None /\ Out(l)'
      OBVIOUS
    <3>2. pc[l] = "gone" /\ cpu = l
      BY <1>t, <1>2, <2>k, <3>1 DEF LaneKept
    <3>3. Stays
      BY <1>t, <1>1, <1>2, <3>1, <3>2
    <3>4. QED
      BY <1>t, <1>1, <2>k, <3>2, <3>3 DEF LaneKept, Out, Stays
  <2>4. state'[l] = "Mute" /\ ~In(waiters', l) /\ owner' # l => Out(l)'
    BY <1>l, <1>1, <2>k DEF LaneKept, Out
  <2>5. QED
    BY <2>1, <2>2, <2>3, <2>4 DEF LaneKept
<1>5. ASSUME "STOP" \notin excused', NEW l \in stopped'
      PROVE  Parked(l)'
  <2>1. Parked(l) /\ l \in Lanes
    BY <1>l, <1>g, <1>5 DEF Parking, Ground
  <2>2. current # l
    BY <1>g, <1>t, <2>1 DEF Parked, Ground
  <2>3. QED
    BY <1>l, <1>1, <1>5, <2>1, <2>2 DEF Parked, Out
<1>6. QED
  BY <1>3, <1>4, <1>5 DEF Parking

\* ... and one that is parked.
LEMMA UntouchedParked ==
    ASSUME NEW l, Parked(l),
           state'[l] = state[l], cpu' = cpu,
           In(ready', l) => In(ready, l), l \in sleepers' => l \in sleepers,
           In(waiters', l) => In(waiters, l), owner' = l => owner = l
    PROVE  Parked(l)'
  BY Zenon DEF Parked, Out

\* A running lane's own step, as long as it spins when it is Mute.
LEMMA ActorKept ==
    ASSUME NEW l, pc'[l] \notin {"none", "gone"},
           state'[l] = "Mute" => pc'[l] = "spin" /\ In(waiters', l)
    PROVE  LaneKept(l)'
  BY Zenon DEF LaneKept

\* A step of the thread on the processor that is about itself alone: it stays
\* on the processor, its code goes on, and it takes the mutex only when nobody
\* has it.
LEMMA ActorParking ==
    ASSUME Shape, Parking, NEW t \in Threads, cpu = t, pc[t] \notin {"none", "gone"},
           UNCHANGED <<current, cpu, stopped>>, excused \subseteq excused',
           \A u \in Threads : u # t => state'[u] = state[u] /\ pc'[u] = pc[u],
           pc'[t] \notin {"none", "gone"},
           t \in Lanes /\ state'[t] = "Mute" => pc'[t] = "spin" /\ In(waiters', t),
           Once(ready'), \A u : In(ready', u) => In(ready, u) \/ u = t,
           sleepers' \subseteq sleepers \cup {t},
           \A u : u # t => (In(waiters', u) <=> In(waiters, u)),
           owner' = owner \/ (owner \in {t, None} /\ owner' \in {t, None}),
           (locked' <=> owner' # None) /\ (waiters' # <<>> => locked')
    PROVE  Parking'
<1>t. Loop \in Threads /\ Lanes \subseteq Threads /\ Loop \notin Lanes /\ None \notin Threads
  BY LaneAssumption DEF Threads
<1>g. Ground /\ \A l \in Lanes : LaneKept(l)
  BY DEF Parking
<1>1. Ground'
  BY <1>g, <1>t DEF Ground
<1>2. ASSUME NEW l \in Lanes
      PROVE  LaneKept(l)'
  <2>1. CASE l = t
    BY <2>1, ActorKept
  <2>2. CASE l # t
    <3>1. LaneKept(l) /\ l \in Threads /\ None # l
      BY <1>g, <1>t
    <3>2. owner = l => owner' = l
      BY <2>2, <3>1
    <3>3. QED
      BY Zenon, <2>2, <3>1, <3>2, UntouchedKept
  <2>3. QED
    BY <2>1, <2>2
<1>3. ASSUME "STOP" \notin excused', NEW l \in stopped'
      PROVE  Parked(l)'
  <2>1. Parked(l) /\ l \in Threads /\ l # t /\ None # l
    BY <1>g, <1>t, <1>3 DEF Parking, Ground, Parked
  <2>2. owner' = l => owner = l
    BY <2>1
  <2>3. QED
    BY Zenon, <2>1, <2>2, UntouchedParked
<1>4. QED
  BY <1>1, <1>2, <1>3 DEF Parking

\* Whoever runs code is current, if anybody is, and not Mute.
LEMMA RunsAwake ==
    ASSUME Shape, Parking, NEW t \in Threads, cpu = t,
           pc[t] \notin {"none", "gone", "spin"}
    PROVE  /\ current # None => current = t
           /\ t \in Lanes => state[t] # "Mute"
  BY DEF Parking, Ground, LaneKept

\* lock() and the masking variants
LEMMA LockParking ==
    ASSUME Shape, Parking, NEW t \in Threads, Lock(t) \/ Mask(t)
    PROVE  Parking'
<1>g. Ground
  BY DEF Parking
<1>1. /\ cpu = t /\ pc[t] \in {"work", "section", "masked"}
      /\ UNCHANGED <<ready, sleepers, current, cpu, stopped>> /\ excused \subseteq excused'
  BY Zenon DEF Lock, Mask, Runs, listVars, tickVars, taskVars
<1>2. /\ current # None => current = t
      /\ t \in Lanes => state[t] # "Mute"
  BY <1>1, RunsAwake
<1>3. Once(ready') /\ (locked <=> owner # None) /\ (waiters # <<>> => locked)
  BY <1>g, <1>1 DEF Ground
<1> DEFINE Enters == /\ \E at \in {"section", "masked", "leaving"} : pc' = [pc EXCEPT ![t] = at]
                     /\ UNCHANGED <<state, waiters>>
                     /\ \/ UNCHANGED <<locked, owner>>
                        \/ ~locked /\ locked' /\ owner' = t
           Waits == /\ locked /\ waiters' = Append(waiters, t)
                    /\ state' = Muted(state, t) /\ pc' = [pc EXCEPT ![t] = "spin"]
                    /\ UNCHANGED <<locked, owner>>
<1>4. Enters \/ Waits
  BY <1>2 DEF Lock, Mask, Goto, SpinThen, Unheld, listVars, lockVars
<1>5. CASE Enters
  <2>1. /\ pc'[t] \in {"section", "masked", "leaving"}
        /\ \A u \in Threads : u # t => pc'[u] = pc[u]
    BY <1>5 DEF Shape
  <2>2. owner' = owner \/ (owner = None /\ owner' = t)
    BY <1>3, <1>5
  <2>3. (locked' <=> owner' # None) /\ (waiters' # <<>> => locked')
    BY <1>3, <1>5, LaneAssumption DEF Threads
  <2>4. UNCHANGED <<state, waiters>>
    BY <1>5
  <2>5. QED
    BY Zenon, <1>1, <1>2, <1>3, <2>1, <2>2, <2>3, <2>4, ActorParking
<1>6. CASE Waits
  <2>1. /\ pc'[t] = "spin"
        /\ \A u \in Threads : u # t => pc'[u] = pc[u] /\ state'[u] = state[u]
    BY <1>6 DEF Shape, Muted
  <2>2. \A u : In(waiters', u) <=> In(waiters, u) \/ u = t
    <3>1. waiters \in Seq(Threads)
      BY DEF Shape
    <3>2. /\ DOMAIN waiters' = 1 .. Len(waiters) + 1
          /\ DOMAIN waiters = 1 .. Len(waiters) /\ Len(waiters) \in Nat
          /\ \A i \in 1 .. Len(waiters) : waiters'[i] = waiters[i]
          /\ waiters'[Len(waiters) + 1] = t
      BY <1>6, <3>1, AppendProperties, LenProperties
    <3>3. QED
      BY <3>2 DEF In
  <2>3. (locked' <=> owner' # None) /\ (waiters' # <<>> => locked') /\ owner' = owner
    BY <1>3, <1>6
  <2>4. QED
    BY Zenon, <1>1, <1>2, <1>3, <2>1, <2>2, <2>3, ActorParking
<1>7. QED
  BY <1>4, <1>5, <1>6

\* yield(), sleep(), the end of a task's code, the spin in exit()
LEMMA ParkParking ==
    ASSUME Shape, Parking, NEW t \in Threads,
           Yield(t) \/ Spin(t) \/ (t \in Lanes /\ (Sleep(t) \/ Return(t)))
    PROVE  Parking'
<1>g. Ground
  BY DEF Parking
<1>1. /\ cpu = t
      /\ UNCHANGED <<current, cpu, locked, owner, waiters, stopped, excused>>
  BY Zenon DEF Yield, Spin, Sleep, Return, Runs, tickVars, lockVars, taskVars
<1>2. Once(ready) /\ (locked' <=> owner' # None) /\ (waiters' # <<>> => locked')
  BY <1>g, <1>1 DEF Ground
<1>3. CASE Spin(t) /\ pc' = pc
  <2>1. UNCHANGED <<state, ready, sleepers, pc>>
    BY <1>3 DEF Spin, listVars
  <2>2. QED
    BY Zenon, <1>1, <2>1 DEF Parking, Ground, LaneKept, Parked, Out
<1>4. CASE Spin(t) /\ pc' # pc
  <2>1. /\ pc[t] = "spin" /\ state[t] = "Running" /\ pc' = [pc EXCEPT ![t] = ret[t]]
        /\ UNCHANGED <<state, ready, sleepers>>
    BY <1>4 DEF Spin, Goto, listVars
  <2>2. /\ pc'[t] \in {"work", "section"}
        /\ \A u \in Threads : u # t => pc'[u] = pc[u]
    BY <2>1 DEF Shape
  <2>3. QED
    BY Zenon, <1>1, <1>2, <2>1, <2>2, ActorParking
<1>5. CASE ~Spin(t)
  <2>1. pc[t] = "work"
    BY <1>5 DEF Yield, Sleep, Return, Runs
  <2>2. t \in Lanes => state[t] # "Mute"
    BY <1>1, <2>1, RunsAwake
  <2>3. /\ pc'[t] \in {"spin", "ending"}
        /\ \A u \in Threads : u # t => pc'[u] = pc[u]
    BY <1>5 DEF Yield, Sleep, Return, SpinThen, Goto, Shape
  <2>4. /\ \A u \in Threads : u # t => state'[u] = state[u]
        /\ state'[t] # "Mute" \/ state'[t] = state[t]
    BY <1>5 DEF Yield, Sleep, Return, MadeReady, Shape
  <2>5. /\ sleepers' \subseteq sleepers \cup {t}
        /\ ready' = ready \/ ready' = Pushed(ready, t)
    BY <1>5 DEF Yield, Sleep, Return
  <2>6. Once(ready') /\ \A u : In(ready', u) => In(ready, u) \/ u = t
    <3>1. /\ Once(Pushed(ready, t))
          /\ \A u : In(Pushed(ready, t), u) <=> In(ready, u) \/ u = t
      BY <1>2, PushedList DEF Shape
    <3>2. QED
      BY <1>2, <2>5, <3>1
  <2>7. QED
    BY Zenon, <1>1, <1>2, <2>1, <2>2, <2>3, <2>4, <2>5, <2>6, ActorParking
<1>6. QED
  BY <1>3, <1>4, <1>5

\* Who is behind the head of a list is in its tail, and nobody else is.
LEMMA TailAny ==
    ASSUME NEW s \in Seq(Threads), s # <<>>
    PROVE  /\ Head(s) \in Threads /\ In(s, Head(s))
           /\ \A t : In(Tail(s), t) => In(s, t)
           /\ \A t : In(s, t) /\ t # Head(s) => In(Tail(s), t)
<1> DEFINE n == Len(s)
           u == Tail(s)
<1>1. /\ n \in Nat /\ DOMAIN s = 1..n /\ n > 0
  BY LenProperties, EmptySeq
<1>2. /\ Head(s) \in Threads /\ u \in Seq(Threads) /\ Len(u) = n - 1
      /\ \A i \in 1..(n - 1) : u[i] = s[i + 1]
  BY HeadTailProperties, <1>1
<1>3. Head(s) = s[1]
  OBVIOUS
<1>4. DOMAIN u = 1..(n - 1)
  BY <1>2, LenProperties
<1> HIDE DEF u, n
<1>5. ASSUME NEW t, In(u, t)
      PROVE  In(s, t)
  <2>1. PICK i \in DOMAIN u : u[i] = t
    BY <1>5 DEF In
  <2>2. i + 1 \in DOMAIN s /\ s[i + 1] = t
    BY <1>1, <1>2, <1>4, <2>1
  <2>3. QED
    BY <2>2 DEF In
<1>6. ASSUME NEW t, In(s, t), t # Head(s)
      PROVE  In(u, t)
  <2>1. PICK i \in DOMAIN s : s[i] = t
    BY <1>6 DEF In
  <2>2. i - 1 \in 1..(n - 1) /\ (i - 1) + 1 = i
    BY <1>1, <1>3, <1>6, <2>1
  <2>3. u[i - 1] = t
    BY <2>1, <2>2, <1>2
  <2>4. QED
    BY <2>2, <2>3, <1>4 DEF In
<1>7. QED
  BY <1>1, <1>2, <1>3, <1>5, <1>6 DEF In, u

\* unlock()
LEMMA UnlockParking ==
    ASSUME Shape, Parking, NEW t \in Threads, Unlock(t)
    PROVE  Parking'
<1>t. Loop \in Threads /\ Lanes \subseteq Threads /\ Loop \notin Lanes /\ None \notin Threads
  BY LaneAssumption DEF Threads
<1>g. Ground /\ \A l \in Lanes : LaneKept(l)
  BY DEF Parking
<1>1. /\ cpu = t /\ pc[t] \in {"section", "leaving"} /\ pc' = [pc EXCEPT ![t] = "work"]
      /\ UNCHANGED <<sleepers, current, cpu, stopped, excused>>
  BY Zenon DEF Unlock, Runs, Goto, tickVars, taskVars
<1>p. pc'[t] = "work" /\ \A u \in Threads : u # t => pc'[u] = pc[u]
  BY <1>1 DEF Shape
<1>2. /\ current # None => current = t
      /\ t \in Lanes => state[t] # "Mute"
  BY <1>1, RunsAwake
<1>3. Once(ready) /\ (locked <=> owner # None) /\ (waiters # <<>> => locked)
  BY <1>g DEF Ground
<1>4. CASE UNCHANGED <<state, ready, locked, owner, waiters>>
  BY Zenon, <1>1, <1>2, <1>3, <1>4, <1>p, ActorParking
<1>5. CASE /\ current = owner /\ waiters = <<>> /\ locked' = FALSE /\ owner' = None
           /\ UNCHANGED <<state, ready, waiters>>
  <2>1. owner \in {t, None}
    BY <1>2, <1>5
  <2>2. QED
    BY Zenon, <1>1, <1>2, <1>3, <1>5, <1>p, <2>1, ActorParking
<1>6. CASE /\ current = owner /\ waiters # <<>> /\ UNCHANGED locked
           /\ owner' = Head(waiters) /\ waiters' = Tail(waiters)
           /\ state' = MadeReady(state, ready, owner')
           /\ ready' = Pushed(ready, owner')
  <2> DEFINE h == Head(waiters)
  <2>1. /\ h \in Threads /\ In(waiters, h)
        /\ \A u : In(waiters', u) => In(waiters, u)
        /\ \A u : In(waiters, u) /\ u # h => In(waiters', u)
    BY <1>6, TailAny DEF Shape
  <2>2. owner = t /\ owner' = h /\ locked'
    BY <1>2, <1>3, <1>6
  <2>3. Once(ready') /\ \A u : In(ready', u) <=> In(ready, u) \/ u = h
    <3> HIDE DEF h
    <3>1. QED
      BY Zenon, <1>3, <1>6, <2>1, <2>2, PushedList DEF Shape
  <2>4. /\ \A u \in Threads : u # h => state'[u] = state[u]
        /\ state'[h] = "Ready" \/ state'[h] = state[h]
    <3> HIDE DEF h
    <3>1. QED
      BY <1>6, <2>1, <2>2 DEF MadeReady, Shape
  <2> HIDE DEF h
  <2>5. Ground'
    BY <1>g, <1>t, <1>1, <1>p, <2>1, <2>2, <2>3 DEF Ground
  <2>6. ASSUME NEW l \in Lanes
        PROVE  LaneKept(l)'
    <3>k. LaneKept(l) /\ l \in Threads /\ None # l
      BY <1>g, <1>t
    <3>1. CASE l = t
      <4>1. state'[l] # "Mute"
        BY <1>2, <2>4, <3>1
      <4>2. QED
        BY <1>p, <3>1, <4>1, ActorKept
    <3>2. CASE l # t /\ l = h
      <4>1. owner' = l /\ cpu' # l /\ pc'[l] = pc[l] /\ pc[l] # "gone"
        BY <1>1, <1>p, <2>2, <3>k, <3>2 DEF LaneKept
      <4>2. QED
        BY Zenon, <4>1 DEF LaneKept
    <3>3. CASE l # t /\ l # h
      BY Zenon, <1>1, <1>p, <2>1, <2>2, <2>3, <2>4, <3>k, <3>3, UntouchedKept
    <3>4. QED
      BY <3>1, <3>2, <3>3
  <2>7. ASSUME "STOP" \notin excused', NEW l \in stopped'
        PROVE  Parked(l)'
    <3>1. Parked(l) /\ l \in Threads /\ l # h
      BY <1>g, <1>t, <1>1, <2>1, <2>7 DEF Parking, Ground, Parked
    <3>2. QED
      BY Zenon, <1>1, <2>1, <2>2, <2>3, <2>4, <3>1, UntouchedParked
  <2>8. QED
    BY <2>5, <2>6, <2>7 DEF Parking
<1>7. QED
  BY Zenon, <1>4, <1>5, <1>6 DEF Unlock, Handed, lockVars

\* A lane is taken out of both lists and deleted: by its own exit(), or by the
\* pass that reaps it.
LEMMA DestroyParking ==
    ASSUME Shape, Parking, NEW l \in Lanes, Destroy(l),
           cpu = l \/ cpu = Loop, pc'[Loop] # "gone",
           pc'[l] \in {"none", "gone"}, pc'[l] = "gone" => cpu = l /\ current = l,
           \A u \in Lanes : u # l => pc'[u] = pc[u],
           UNCHANGED <<locked, owner, waiters, excused>>
    PROVE  Parking'
<1>t. Loop \in Threads /\ Lanes \subseteq Threads /\ Loop \notin Lanes /\ None \notin Threads
  BY LaneAssumption DEF Threads
<1>g. Ground /\ \A u \in Lanes : LaneKept(u)
  BY DEF Parking
<1>1. /\ sleepers' = sleepers \ {l} /\ ready' = Dropped(ready, l) /\ cpu' = cpu
      /\ state' = [state EXCEPT ![l] = "none"] /\ stopped' = stopped \ {l}
      /\ current' = IF current = l THEN None ELSE current
  BY DEF Destroy
<1>2. Once(ready') /\ \A u : In(ready', u) <=> In(ready, u) /\ u # l
  BY Zenon, <1>t, <1>g, <1>1, DroppedList DEF Shape, Ground
<1>3. state'[l] = "none" /\ \A u \in Threads : u # l => state'[u] = state[u]
  BY <1>t, <1>1 DEF Shape
<1>4. Ground'
  BY Zenon, <1>g, <1>t, <1>1, <1>2 DEF Ground
<1>5. ASSUME NEW u \in Lanes
      PROVE  LaneKept(u)'
  <2>1. CASE u = l
    <3>1. Out(l)' /\ current' # l
      BY <1>t, <1>1, <1>2 DEF Out
    <3>2. pc'[l] = "gone" => cpu' = l /\ current' = None
      BY <1>1
    <3>3. QED
      BY <1>3, <2>1, <3>1, <3>2 DEF LaneKept
  <2>2. CASE u # l
    <3>1. LaneKept(u) /\ u \in Threads /\ None # u
      BY <1>g, <1>t
    <3>2. current' = current \/ current' = None
      BY <1>1
    <3>3. QED
      BY Zenon, <1>1, <1>2, <1>3, <2>2, <3>1, <3>2, UntouchedKept
  <2>3. QED
    BY <2>1, <2>2
<1>6. ASSUME "STOP" \notin excused', NEW u \in stopped'
      PROVE  Parked(u)'
  <2>1. Parked(u) /\ u \in Threads /\ u # l
    BY Zenon, <1>g, <1>t, <1>1, <1>6 DEF Parking, Ground
  <2>2. QED
    BY <1>1, <1>2, <1>3, <2>1, UntouchedParked
<1>7. QED
  BY <1>4, <1>5, <1>6 DEF Parking

\* A step of the loop about one lane, which it may put in the ready list, take
\* out of the lists or start to run.
LEMMA LoopParking ==
    ASSUME Shape, Parking, NEW l \in Lanes, cpu = Loop, pc[Loop] # "gone",
           UNCHANGED <<current, cpu, locked, owner, waiters>>, excused \subseteq excused',
           pc'[Loop] # "gone", \A u \in Lanes : u # l => pc'[u] = pc[u],
           \A u \in Threads : u # l => state'[u] = state[u],
           Once(ready'), \A u : u # l => (In(ready', u) <=> In(ready, u)),
           sleepers' \subseteq sleepers, stopped' \subseteq stopped \cup {l},
           LaneKept(l)', "STOP" \notin excused' /\ l \in stopped' => Parked(l)'
    PROVE  Parking'
<1>t. Loop \in Threads /\ Lanes \subseteq Threads /\ Loop \notin Lanes /\ None \notin Threads
  BY Zenon, LaneAssumption DEF Threads
<1>g. Ground /\ \A u \in Lanes : LaneKept(u)
  BY DEF Parking
<1>1. Ground'
  BY <1>g DEF Ground
<1>2. ASSUME NEW u \in Lanes, u # l
      PROVE  LaneKept(u)'
  <2>1. LaneKept(u) /\ u \in Threads /\ None # u
    BY Zenon, <1>g, <1>t
  <2>2. QED
    BY Zenon, <1>2, <2>1, UntouchedKept
<1>3. ASSUME "STOP" \notin excused', NEW u \in stopped', u # l
      PROVE  Parked(u)'
  <2>1. Parked(u) /\ u \in Threads
    BY <1>g, <1>t, <1>3 DEF Parking, Ground
  <2>2. QED
    BY Zenon, <1>3, <2>1, UntouchedParked
<1>4. QED
  BY Zenon, <1>1, <1>2, <1>3 DEF Parking

\* schedule_task
LEMMA ScheduleParking ==
    ASSUME Shape, Parking, NEW l \in Lanes, Schedule(l)
    PROVE  Parking'
<1>t. l \in Threads /\ Loop \in Threads /\ l # Loop
  BY LaneAssumption DEF Threads
<1>g. Ground /\ LaneKept(l)
  BY DEF Parking
<1>1. /\ cpu = Loop /\ pc[Loop] = "work" /\ pc[l] = "none"
      /\ pc' = [pc EXCEPT ![l] = "work"] /\ state' = [state EXCEPT ![l] = "Ready"]
      /\ ready' = Pushed(ready, l)
      /\ UNCHANGED <<sleepers, current, cpu, locked, owner, waiters, stopped, excused>>
  BY DEF Schedule, Runs, Goto, lockVars, taskVars
<1>2. Once(ready') /\ \A u : In(ready', u) <=> In(ready, u) \/ u = l
  BY Zenon, <1>t, <1>g, <1>1, PushedList DEF Shape, Ground
<1>3. /\ pc'[l] = "work" /\ state'[l] = "Ready" /\ pc'[Loop] = "work"
      /\ \A u \in Threads : u # l => pc'[u] = pc[u] /\ state'[u] = state[u]
  BY <1>t, <1>1 DEF Shape
<1>4. LaneKept(l)'
  BY Zenon, <1>3 DEF LaneKept
<1>5. "STOP" \notin excused' => l \notin stopped'
  BY <1>g, <1>1 DEF Parking, Parked, LaneKept
<1>6. \A u \in Lanes : u \in Threads
  BY DEF Threads
<1>7. QED
  BY Zenon, <1>1, <1>2, <1>3, <1>4, <1>5, <1>6, LoopParking

\* The pass delivers a signal: who is stopped outside the mutex is in no list
\* afterwards, as it was muted by a stop before or is taken out of them now.
LEMMA SignalParking ==
    ASSUME Shape, Parking, NEW l \in Lanes, ServeSignal(l)
    PROVE  Parking'
<1>t. l \in Threads /\ Loop \in Threads /\ l # Loop
  BY LaneAssumption DEF Threads
<1>g. Ground /\ LaneKept(l) /\ ("STOP" \notin excused /\ l \in stopped => Parked(l))
  BY DEF Parking
<1>1. /\ cpu = Loop /\ pc[Loop] = "signal" /\ pc' = [pc EXCEPT ![Loop] = "reap"]
      /\ state[l] # "none" /\ excused \subseteq excused'
      /\ UNCHANGED <<current, cpu, locked, owner, waiters>>
  BY DEF ServeSignal, Runs, Goto, tickVars, lockVars
<1>p. pc'[Loop] = "reap" /\ \A u \in Lanes : pc'[u] = pc[u]
  BY <1>t, <1>1, LaneAssumption DEF Shape, Threads
<1>2. (In(waiters, l) \/ owner = l) /\ pending[l] = "STOP" => "STOP" \in excused'
  BY DEF ServeSignal
<1>3. /\ Once(ready) /\ Once(Dropped(ready, l)) /\ Once(Pushed(ready, l))
      /\ \A u : In(Dropped(ready, l), u) <=> In(ready, u) /\ u # l
      /\ \A u : In(Pushed(ready, l), u) <=> In(ready, u) \/ u = l
  <2>1. ready \in Seq(Threads) /\ Once(ready)
    BY <1>g DEF Shape, Ground
  <2>2. QED
    BY Zenon, <1>t, <2>1, DroppedList, PushedList
<1>4. ASSUME Once(ready'), \A u : u # l => (In(ready', u) <=> In(ready, u)),
             \A u \in Threads : u # l => state'[u] = state[u],
             sleepers' \subseteq sleepers, stopped' \subseteq stopped \cup {l},
             LaneKept(l)', "STOP" \notin excused' /\ l \in stopped' => Parked(l)'
      PROVE  Parking'
  BY Zenon, <1>1, <1>4, <1>p, LoopParking
<1>5. pc[l] # "gone" /\ (pc[l] = "none" => owner = l)
  BY <1>t, <1>g, <1>1 DEF LaneKept
<1>6. CASE state' = state /\ ready' = ready /\ sleepers' = sleepers
  <2>1. LaneKept(l)'
    BY Zenon, <1>g, <1>1, <1>p, <1>6 DEF LaneKept, Out
  <2>2. /\ stopped' \subseteq stopped \cup {l}
        /\ l \in stopped' => l \in stopped \/ (pending[l] = "STOP" /\ Suspend(l))
    BY Zenon DEF ServeSignal
  <2>3. ASSUME "STOP" \notin excused', l \in stopped'
        PROVE  Parked(l)'
    <3>1. CASE l \in stopped
      BY Zenon, <1>g, <1>1, <1>6, <2>3, <3>1 DEF Parked, Out
    <3>2. CASE pending[l] = "STOP" /\ Suspend(l)
      <4>1. ~In(waiters, l) /\ owner # l
        BY <1>2, <2>3, <3>2
      <4>2. state[l] = "Mute"
        BY <1>t, <1>6, <3>2 DEF Suspend, Shape
      <4>3. Out(l)
        BY <1>g, <4>1, <4>2 DEF LaneKept
      <4>4. QED
        BY <1>t, <1>1, <1>6, <4>1, <4>2, <4>3 DEF Parked, Out
    <3>3. QED
      BY <2>2, <2>3, <3>1, <3>2
  <2>4. QED
    BY Zenon, <1>3, <1>4, <1>6, <2>1, <2>2, <2>3
<1>7. ASSUME NEW x \in {"Mute", "Finished"},
             state' = [state EXCEPT ![l] = x], sleepers' = sleepers \ {l},
             ready' = Dropped(ready, l), stopped' \subseteq stopped \cup {l},
             l \in stopped' => l \in stopped \/ pending[l] = "STOP"
      PROVE  Parking'
  <2>1. state'[l] = x /\ \A u \in Threads : u # l => state'[u] = state[u]
    BY <1>t, <1>7 DEF Shape
  <2>2. Out(l)'
    BY <1>3, <1>7 DEF Out
  <2>3. LaneKept(l)'
    BY <1>t, <1>1, <1>5, <1>p, <2>1, <2>2 DEF LaneKept
  <2>4. "STOP" \notin excused' /\ l \in stopped' => Parked(l)'
    BY <1>t, <1>g, <1>1, <1>2, <1>7, <2>1, <2>2 DEF Parked
  <2>5. QED
    BY <1>3, <1>4, <1>7, <2>1, <2>3, <2>4
<1>8. ASSUME Resume(l), state[l] = "Mute", stopped' = stopped \ {l}
      PROVE  Parking'
  <2>1. /\ state' = MadeReady(state, ready, l) /\ ready' = Pushed(ready, l)
        /\ sleepers' = sleepers
    BY <1>8 DEF Resume
  <2>2. /\ \A u \in Threads : u # l => state'[u] = state[u]
        /\ state'[l] = "Mute" => In(ready, l)
    BY <1>t, <2>1 DEF MadeReady, Shape
  <2>3. In(ready, l) => In(waiters, l) \/ owner = l
    BY Zenon, <1>g, <1>8 DEF LaneKept, Out
  <2>4. LaneKept(l)'
    BY <1>t, <1>1, <1>5, <1>p, <2>2, <2>3 DEF LaneKept
  <2>5. QED
    BY Zenon, <1>3, <1>4, <1>8, <2>1, <2>2, <2>4
<1>9. CASE pending[l] = "STOP" /\ Suspend(l) /\ stopped' = stopped \cup {l}
  BY <1>6, <1>7, <1>9 DEF Suspend, listVars
<1>10. CASE Resume(l) /\ stopped' = stopped \ {l}
  BY <1>6, <1>8, <1>10 DEF Resume, listVars
<1>11. CASE Terminate(l) /\ stopped' = stopped
  BY <1>7, <1>11 DEF Terminate
<1>12. CASE UNCHANGED listVars
  BY <1>6, <1>12 DEF listVars
<1>13. QED
  BY Zenon, <1>9, <1>10, <1>11, <1>12 DEF ServeSignal

LEMMA ParkingStep == Frame /\ Frame' /\ Parking /\ [Next]_vars => Parking'
<1> SUFFICES ASSUME Frame, Frame', Parking, [Next]_vars
             PROVE  Parking'
  OBVIOUS
<1>1. Shape /\ Shape'
  BY DEF Frame
<1>t. Loop \in Threads /\ Lanes \subseteq Threads /\ Loop \notin Lanes
  BY LaneAssumption DEF Threads
<1>2. ASSUME NEW due \in SUBSET sleepers, Tick(due)
      PROVE  Parking'
  BY <1>1, <1>2, TickParking
<1>3. ASSUME NEW t \in Threads,
             Lock(t) \/ Mask(t) \/ Unlock(t) \/ Yield(t) \/ Spin(t)
      PROVE  Parking'
  BY <1>1, <1>3, LockParking, UnlockParking, ParkParking
<1>4. ASSUME NEW l \in Lanes, Sleep(l) \/ Return(l)
      PROVE  Parking'
  BY <1>1, <1>t, <1>4, ParkParking
<1>5. ASSUME NEW l \in Lanes, Exit(l)
      PROVE  Parking'
  <2>1. /\ Destroy(l) /\ cpu = l /\ current = l /\ pc' = [pc EXCEPT ![l] = "gone"]
        /\ UNCHANGED <<locked, owner, waiters, excused>>
    BY <1>5 DEF Exit, Runs, Goto, lockVars
  <2>2. pc'[l] = "gone" /\ \A u \in Threads : u # l => pc'[u] = pc[u]
    BY <1>1, <1>t, <2>1 DEF Shape
  <2>3. pc'[Loop] # "gone" /\ \A u \in Lanes : u # l => pc'[u] = pc[u]
    BY <1>t, <2>2 DEF Parking, Ground
  <2>4. QED
    BY Zenon, <1>1, <2>1, <2>2, <2>3, DestroyParking
<1>6. ASSUME NEW l \in Lanes, ServeReap(l)
      PROVE  Parking'
  <2>1. /\ cpu = Loop /\ pc[Loop] = "reap"
        /\ UNCHANGED <<locked, owner, waiters, excused>>
    BY <1>6 DEF ServeReap, Runs, lockVars
  <2>2. CASE Destroy(l) /\ pc' = [pc EXCEPT ![l] = "none", ![Loop] = "work"]
    <3>1. /\ pc'[l] = "none" /\ pc'[Loop] # "gone"
          /\ \A u \in Lanes : u # l => pc'[u] = pc[u]
      BY Zenon, <1>1, <1>t, <2>2 DEF Shape
    <3>2. QED
      BY Zenon, <1>1, <2>1, <2>2, <3>1, DestroyParking
  <2>3. CASE pc' = [pc EXCEPT ![Loop] = "work"] /\ UNCHANGED <<listVars, tickVars, taskVars>>
    <3>1. pc'[Loop] # "gone" /\ \A u \in Lanes : pc'[u] = pc[u]
      BY <1>1, <1>t, <2>3 DEF Shape
    <3>2. QED
      BY ZenonT(30), <2>1, <2>3, <3>1 DEF Parking, Ground, LaneKept, Parked, Out,
         listVars, tickVars, taskVars
  <2>4. QED
    BY <1>6, <2>2, <2>3 DEF ServeReap, Goto
<1>7. ASSUME NEW l \in Lanes, ServeSignal(l) \/ Schedule(l)
      PROVE  Parking'
  BY <1>1, <1>7, SignalParking, ScheduleParking
<1>8. ASSUME NEW l, NEW sig, ServeRead(l) \/ ServeStale(l) \/ Send(l, sig) \/ Sdk \/ UNCHANGED vars
      PROVE  Parking'
  <2>1. /\ UNCHANGED <<state, ready, sleepers, current, cpu, locked, owner, waiters, stopped>>
        /\ excused \subseteq excused'
        /\ pc' = pc \/ \E at \in {"work", "signal"} : pc' = [pc EXCEPT ![Loop] = at]
    BY Zenon, <1>8 DEF ServeRead, ServeStale, Send, Sdk, Goto, vars, listVars, tickVars,
                codeVars, lockVars, taskVars
  <2>2. pc'[Loop] # "gone" /\ \A u \in Lanes : pc'[u] = pc[u]
    BY <1>1, <1>t, <2>1 DEF Shape, Parking, Ground
  <2>3. QED
    BY ZenonT(30), <2>1, <2>2 DEF Parking, Ground, LaneKept, Parked, Out
<1>9. QED
  BY <1>2, <1>3, <1>4, <1>5, <1>6, <1>7, <1>8 DEF Next, Serve

\* The invariant that no signal disturbs.
THEOREM ParkingAlways == Spec => []Parking
<1>1. Init => Parking
  <2> SUFFICES ASSUME Init
               PROVE  Parking
    OBVIOUS
  <2>1. \A t : ~In(ready, t) /\ ~In(waiters, t)
    BY DEF Init, In
  <2>2. Once(ready)
    BY DEF Init, Once
  <2>3. Ground
    BY <2>2, LaneAssumption DEF Init, Ground, Threads
  <2>4. \A l \in Lanes : LaneKept(l)
    BY <2>1, LaneAssumption DEF Init, LaneKept, Out, Threads
  <2>5. QED
    BY <2>3, <2>4 DEF Parking, Init
<1>2. Frame /\ Frame' /\ Parking /\ [Next]_vars => Parking'
  BY ParkingStep
<1>3. QED
  BY FrameAlways, <1>1, <1>2, PTL DEF Spec

\* suspend(): a lane stopped outside the mutex stays parked until a CONT or KILL
\* comes, for any number of lanes and signals, also when an earlier CONT or KILL
\* broke into the mutex.
THEOREM StoppedParkedAlways == Spec => []StoppedParked
<1>1. Parking => StoppedParked
  BY DEF Parking, Parked, StoppedParked
<1>2. QED
  BY ParkingAlways, <1>1, PTL

\* exit(): the first tick after a lane that ended asked for it gives the
\* processor to somebody else, if anybody is ready, for any number of lanes.
THEOREM GoneLeavesAlways == Spec => GoneLeaves
<1>1. Frame /\ Parking /\ [Next]_vars =>
         [pc[cpu] = "gone" /\ req /\ ~req' /\ ready # <<>> => cpu' # cpu]_vars
  <2> SUFFICES ASSUME Frame, Parking, Next, pc[cpu] = "gone", req, ~req', ready # <<>>
               PROVE  cpu' # cpu
    OBVIOUS
  <2>1. ASSUME NEW due \in SUBSET sleepers, Tick(due)
        PROVE  cpu' # cpu
    <3>1. cpu \in Lanes /\ current = None /\ Out(cpu)
      BY DEF Frame, Shape, Threads, Parking, Ground, LaneKept
    <3>2. /\ current' # None => cpu' = current'
          /\ \A l \in Lanes : Out(l) /\ current # l => current' # l
          /\ req /\ current = None /\ ready # <<>> => current' # None
      BY Zenon, <2>1, TickEffect DEF Frame, Parking, Ground
    <3>3. None # cpu
      BY <3>1, LaneAssumption DEF Threads
    <3>4. QED
      BY <3>1, <3>2, <3>3
  <2>2. ASSUME NEW t \in Threads,
               Lock(t) \/ Mask(t) \/ Unlock(t) \/ Yield(t) \/ Spin(t)
        PROVE  FALSE
    BY Zenon, <2>2 DEF Lock, Mask, Unlock, Yield, Spin, Runs
  <2>3. ASSUME NEW l \in Lanes, NEW sig,
               \/ Sleep(l) \/ Return(l) \/ Exit(l) \/ Schedule(l) \/ Serve(l)
               \/ Send(l, sig)
        PROVE  FALSE
    BY Zenon, <2>3 DEF Sleep, Return, Exit, Schedule, Serve, ServeRead, ServeStale,
                ServeSignal, ServeReap, Send, Runs, codeVars
  <2>4. CASE Sdk
    BY <2>4 DEF Sdk
  <2>5. QED
    BY Zenon, <2>1, <2>2, <2>3, <2>4 DEF Next
<1>2. QED
  BY FrameAlways, ParkingAlways, <1>1, PTL DEF Spec, GoneLeaves
=============================================================================
