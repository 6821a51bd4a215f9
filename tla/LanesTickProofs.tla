-------------------------- MODULE LanesTickProofs --------------------------
(***************************************************************************)
(* The preemptive lanes and their mutex (PreemptiveLanes), for every       *)
(* number of lanes and all priorities: the shape of the state, what the    *)
(* lists' operations do, the invariant, and the interrupt's part in it.    *)
(***************************************************************************)
EXTENDS PreemptiveLanes, SequenceTheorems, FiniteSetTheorems,
        WellFoundedInduction, TLAPS

Once(s) == \A i, j \in DOMAIN s : i # j => s[i] # s[j]

-----------------------------------------------------------------------------
(* The lists *)

\* add_to_ready puts a thread in the list, once, and disturbs no other.
LEMMA PushedList ==
    ASSUME NEW s \in Seq(Threads), NEW t \in Threads
    PROVE  /\ Pushed(s, t) \in Seq(Threads)
           /\ Pushed(s, t) # <<>>
           /\ \A u : In(Pushed(s, t), u) <=> In(s, u) \/ u = t
           /\ Once(s) => Once(Pushed(s, t))
<1>1. CASE In(s, t)
  <2>1. Pushed(s, t) = s
    BY <1>1 DEF Pushed
  <2>2. s # <<>>
    BY <1>1 DEF In
  <2>3. QED
    BY <1>1, <2>1, <2>2
<1>2. CASE ~In(s, t)
  <2>1. Pushed(s, t) = Append(s, t)
    BY <1>2 DEF Pushed
  <2>2. /\ Append(s, t) \in Seq(Threads)
        /\ Len(Append(s, t)) = Len(s) + 1
        /\ DOMAIN Append(s, t) = 1 .. Len(s) + 1
        /\ DOMAIN s = 1 .. Len(s) /\ Len(s) \in Nat
        /\ \A i \in 1 .. Len(s) : Append(s, t)[i] = s[i]
        /\ Append(s, t)[Len(s) + 1] = t
    BY AppendProperties, LenProperties
  <2> DEFINE a == Append(s, t)
  <2> HIDE DEF a
  <2>3. a # <<>>
    BY <2>2 DEF a
  <2>4. \A u : In(a, u) <=> In(s, u) \/ u = t
    BY <2>2 DEF In, a
  <2>5. Once(s) => Once(a)
    BY <2>2, <1>2 DEF Once, In, a
  <2>6. QED
    BY <2>1, <2>2, <2>3, <2>4, <2>5 DEF a
<1>3. QED
  BY <1>1, <1>2

\* A set of natural numbers that is not empty has a least member.
LEMMA FirstIndex ==
    ASSUME NEW S, S \subseteq Nat, S # {}
    PROVE  \E n \in S : \A m \in S : n <= m
<1> DEFINE R == {ss \in Nat \X Nat : ss[1] < ss[2]}
<1>1. IsWellFoundedOn(R, Nat)
  BY NatLessThanWellFounded DEF OpToRel
<1>2. \A m \in Nat, n \in Nat : m < n => <<m, n>> \in R
  OBVIOUS
<1> HIDE DEF R
<1>3. PICK n \in S : \A m \in S : ~(<<m, n>> \in R)
  BY Zenon, <1>1, WFMin
<1>4. ASSUME NEW m \in S, m < n
      PROVE  FALSE
  <2>1. m \in Nat /\ n \in Nat
    OBVIOUS
  <2>2. <<m, n>> \in R
    BY <2>1, <1>2, <1>4
  <2>3. QED
    BY <2>2, <1>3
<1>5. QED
  BY <1>4

\* remove_from_ready takes one thread out and keeps every other, though not
\* their order.
LEMMA DroppedList ==
    ASSUME NEW s \in Seq(Threads), NEW t \in Threads
    PROVE  /\ Dropped(s, t) \in Seq(Threads)
           /\ Once(s) => /\ Once(Dropped(s, t))
                         /\ \A u : In(Dropped(s, t), u) <=> In(s, u) /\ u # t
<1>1. CASE ~In(s, t)
  BY <1>1 DEF Dropped, In
<1>2. CASE In(s, t)
  <2> DEFINE n == Len(s)
             F(k) == s[k] = t /\ \A j \in 1..(k-1) : s[j] # t
             i == CHOOSE k \in DOMAIN s : F(k)
             d == [k \in 1..(n - 1) |-> IF k = i THEN s[n] ELSE s[k]]
  <2>1. n \in Nat /\ DOMAIN s = 1 .. n /\ \A k \in 1 .. n : s[k] \in Threads
    BY LenProperties, ElementOfSeq
  <2>2. \E k \in DOMAIN s : F(k)
    <3> DEFINE S == {k \in DOMAIN s : s[k] = t}
    <3>1. S \subseteq Nat /\ S # {}
      BY <1>2, <2>1 DEF In
    <3>2. PICK k \in S : \A m \in S : k <= m
      BY Zenon, <3>1, FirstIndex
    <3>3. F(k)
      BY <3>2, <2>1
    <3>4. QED
      BY <3>3
  <2>3. i \in DOMAIN s /\ s[i] = t
    BY <2>2
  <2>4. Dropped(s, t) = d
    BY <1>2 DEF Dropped
  <2> HIDE DEF i
  <2>5. d \in [1..(n - 1) -> Threads]
    BY <2>1, <2>3
  <2>6. d \in Seq(Threads)
    <3>1. n - 1 \in Nat
      BY <2>1, <2>3
    <3>2. QED
      BY <3>1, <2>5, IsASeq
  <2>7. ASSUME Once(s)
        PROVE  /\ Once(d)
               /\ \A u : In(d, u) <=> In(s, u) /\ u # t
    <3>1. DOMAIN d = 1..(n - 1)
      OBVIOUS
    <3>2. \A k \in 1..(n - 1) : d[k] = IF k = i THEN s[n] ELSE s[k]
      OBVIOUS
    <3> HIDE DEF d, n
    <3>3. Once(d)
      BY <2>1, <2>3, <2>7, <3>1, <3>2 DEF Once
    <3>4. ASSUME NEW u, In(d, u)
          PROVE  In(s, u) /\ u # t
      BY <2>1, <2>3, <2>7, <3>1, <3>2, <3>4 DEF Once, In
    <3>5. ASSUME NEW u, In(s, u), u # t
          PROVE  In(d, u)
      <4>1. PICK k \in 1..n : s[k] = u
        BY <3>5, <2>1 DEF In
      <4>2. CASE k = n
        <5>1. i # n /\ i \in 1..(n - 1)
          BY <4>1, <4>2, <2>1, <2>3, <3>5
        <5>2. d[i] = u
          BY <5>1, <3>2, <4>1, <4>2
        <5>3. QED
          BY <5>1, <5>2, <3>1 DEF In
      <4>3. CASE k # n
        <5>1. k \in 1..(n - 1) /\ k # i
          BY <4>1, <4>3, <2>1, <2>3, <3>5
        <5>2. QED
          BY <5>1, <3>1, <3>2, <4>1 DEF In
      <4>4. QED
        BY <4>2, <4>3
    <3>6. QED
      BY <3>3, <3>4, <3>5
  <2>8. QED
    BY <2>4, <2>6, <2>7
<1>3. QED
  BY <1>1, <1>2

\* Of finitely many natural numbers one is the highest.
LEMMA HighestOf ==
    ASSUME NEW D, IsFiniteSet(D), D # {}, NEW f \in [D -> Nat]
    PROVE  \E i \in D : \A j \in D : f[j] <= f[i]
<1> DEFINE Above(i) == {j \in D : f[j] >= f[i]}
<1> DEFINE T == {Above(i) : i \in D}
<1>1. T \subseteq FiniteSubsetsOf(D) /\ T # {}
  <2>1. T \subseteq SUBSET D
    OBVIOUS
  <2>2. T # {}
    <3>1. PICK i \in D : TRUE
      OBVIOUS
    <3>2. Above(i) \in T
      OBVIOUS
    <3>3. QED
      BY Zenon, <3>2
  <2> HIDE DEF T
  <2>3. QED
    BY <2>1, <2>2, FS_FiniteSubsetsOfFinite
<1>2. IsWellFoundedOn(StrictSubsetOrdering(D), FiniteSubsetsOf(D))
  BY FS_StrictSubsetOrderingWellFounded
<1>3. PICK A \in T : \A B \in T : ~(<<B, A>> \in StrictSubsetOrdering(D))
  BY Zenon, <1>1, <1>2, WFMin
<1>4. PICK i \in D : A = Above(i)
  OBVIOUS
<1>5. ASSUME NEW j \in D, ~(f[j] <= f[i])
      PROVE  FALSE
  <2>1. f[j] \in Nat /\ f[i] \in Nat /\ f[i] < f[j]
    BY <1>5
  <2>2. Above(j) \subseteq Above(i)
    BY <2>1
  <2>3. i \in Above(i) /\ i \notin Above(j)
    BY <2>1
  <2>4. Above(j) \subseteq D /\ Above(i) \subseteq D /\ Above(j) # Above(i)
    BY <2>3
  <2>5. <<Above(j), Above(i)>> \in StrictSubsetOrdering(D)
    <3> HIDE DEF Above
    <3>1. QED
      BY <2>2, <2>4 DEF StrictSubsetOrdering
  <2>6. QED
    BY <2>5, <1>3, <1>4
<1>6. QED
  BY <1>5

\* pick_next_ready finds an entry: some entry has the highest score, and one of
\* those comes first.
LEMMA PickedFromList ==
    ASSUME NEW s \in Seq(Threads), s # <<>>, NEW tk \in [Threads -> Nat]
    PROVE  /\ Picked(s, tk) \in Threads /\ In(s, Picked(s, tk))
           /\ \A u : In(s, u) => Score(tk, u) <= Score(tk, Picked(s, tk))
<1> DEFINE D == DOMAIN s
           sc == [i \in D |-> Score(tk, s[i])]
<1>1. Len(s) \in Nat /\ D = 1 .. Len(s) /\ D # {} /\ \A i \in D : s[i] \in Threads
  BY LenProperties, ElementOfSeq, EmptySeq
<1>2. sc \in [D -> Nat]
  BY <1>1, LaneAssumption DEF Score, Threads
<1>3. IsFiniteSet(D)
  BY <1>1, FS_Interval
<1> HIDE DEF D, sc
<1>4. \E i \in D : \A j \in D : sc[j] <= sc[i]
  BY Zenon, <1>1, <1>2, <1>3, HighestOf
<1> DEFINE Top == {i \in D : \A j \in D : sc[j] <= sc[i]}
<1>5. PICK i \in Top : \A m \in Top : i <= m
  <2>1. Top \subseteq Nat /\ Top # {}
    BY <1>1, <1>4
  <2>2. QED
    BY Zenon, <2>1, FirstIndex
<1>6. i \in D /\ \A j \in D : sc[j] <= sc[i]
  BY <1>5
<1>7. \A j \in 1..(i-1) : sc[j] < sc[i]
  <2>1. SUFFICES ASSUME NEW j \in 1..(i-1), ~(sc[j] < sc[i])
                 PROVE  FALSE
    OBVIOUS
  <2>2. j \in D /\ j < i /\ j \in Nat /\ i \in Nat
    BY <1>1, <1>6
  <2>3. sc[j] = sc[i]
    BY <1>2, <1>6, <2>1, <2>2
  <2>4. j \in Top
    BY <1>6, <2>2, <2>3
  <2>5. QED
    BY <1>5, <2>2, <2>4
<1> DEFINE G(k) == /\ \A j \in DOMAIN s : Score(tk, s[j]) <= Score(tk, s[k])
                  /\ \A j \in 1..(k-1) : Score(tk, s[j]) < Score(tk, s[k])
<1>8. G(i)
  <2>1. \A k \in D : sc[k] = Score(tk, s[k])
    BY DEF sc
  <2>2. \A j \in 1..(i-1) : j \in D
    BY <1>1, <1>6
  <2>3. \A j \in DOMAIN s : Score(tk, s[j]) <= Score(tk, s[i])
    BY <1>6, <2>1 DEF D
  <2>4. \A j \in 1..(i-1) : Score(tk, s[j]) < Score(tk, s[i])
    BY <1>6, <1>7, <2>1, <2>2
  <2>5. QED
    BY <2>3, <2>4
<1> DEFINE best == CHOOSE k \in DOMAIN s : G(k)
<1>9. best \in DOMAIN s /\ G(best)
  <2>1. i \in DOMAIN s
    BY <1>6 DEF D
  <2> HIDE DEF G
  <2>2. QED
    BY <1>8, <2>1
<1>10. Picked(s, tk) = s[best]
  BY Zenon DEF Picked
<1> HIDE DEF best
<1>11. QED
  BY Zenon, <1>1, <1>9, <1>10 DEF In, D

\* The threads one tick wakes are exactly the due ones, each once.
LEMMA WokenOrder ==
    ASSUME NEW D, IsFiniteSet(D), NEW w \in Orders(D)
    PROVE  w \in Seq(D) /\ Once(w) /\ \A t : In(w, t) <=> t \in D
<1> DEFINE n == Cardinality(D)
<1>1. n \in Nat
  BY FS_CardinalityType
<1>2. w \in [1..n -> D] /\ \A i, j \in 1..n : w[i] = w[j] => i = j
  BY DEF Orders
<1>3. w \in Seq(D)
  BY <1>1, <1>2, IsASeq
<1>4. Once(w)
  BY <1>2 DEF Once
<1>5. w \in Injection(1..n, D)
  BY <1>2 DEF Injection, IsInjective
<1>6. Cardinality(1..n) = Cardinality(D)
  BY <1>1, FS_Interval
<1>7. w \in Surjection(1..n, D)
  BY <1>5, <1>6, FS_Injection
<1>8. \A t : In(w, t) <=> t \in D
  BY <1>2, <1>7 DEF In, Surjection
<1>9. QED
  BY <1>3, <1>4, <1>8

-----------------------------------------------------------------------------
(* The shape of the state and the sdk's turn *)

States == {"none", "Ready", "Running", "Sleeping", "Mute", "Finished"}

Places == {"none", "work", "section", "masked", "leaving", "spin", "ending",
           "gone", "signal", "reap"}

Shape ==
    /\ current \in Threads \cup {None}
    /\ state \in [Threads -> States]
    /\ ready \in Seq(Threads)
    /\ sleepers \subseteq Lanes
    /\ ticks \in [Threads -> Nat]
    /\ cpu \in Threads
    /\ pc \in [Threads -> Places]
    /\ ret \in [Threads -> {"work", "section"}]
    /\ owner \in Threads \cup {None}
    /\ waiters \in Seq(Threads)

\* A switch is asked for only from the spin in exit(), and the sdk has the
\* processor only in the loop's own turn.
Asked ==
    /\ req => pc[cpu] \in {"spin", "gone"}
    /\ sdk => cpu = Loop /\ pc[Loop] = "work"

Frame == Shape /\ Asked

\* What run() is given once the sleepers are woken, and what it does with it:
\* the processor stays, or goes to an entry of the ready list, which leaves it.
LEMMA SwitchShape ==
    ASSUME Shape, NEW st \in [Threads -> States], NEW rd \in Seq(Threads),
           SwitchFrom(st, rd)
    PROVE  /\ current' \in Threads \cup {None}
           /\ state' \in [Threads -> States]
           /\ ready' \in Seq(Threads)
           /\ ticks' \in [Threads -> Nat]
           /\ cpu' \in Threads
           /\ pc' \in [Threads -> Places]
<1> DEFINE c == current
           goesOn == /\ c # None
                     /\ \/ rd = <<>> /\ st[c] \in {"Running", "Ready"}
                        \/ st[c] = "Finished"
           requeue == c # None /\ st[c] = "Running"
           rd2 == IF requeue THEN Pushed(rd, c) ELSE rd
           st2 == IF requeue THEN MadeReady(st, rd, c) ELSE st
           next == Picked(rd2, ticks)
<1>1. CASE goesOn \/ rd2 = <<>>
  <2>1. /\ state' = IF goesOn /\ st[c] = "Ready" THEN [st EXCEPT ![c] = "Running"] ELSE st
        /\ ready' = rd
        /\ UNCHANGED <<current, ticks, cpu, pc>>
    BY <1>1 DEF SwitchFrom
  <2>2. QED
    BY <2>1 DEF Shape, States
<1>2. CASE ~(goesOn \/ rd2 = <<>>)
  <2>1. /\ state' = [st2 EXCEPT ![next] = "Running"]
        /\ ready' = Dropped(rd2, next)
        /\ ticks' = Aged(rd2, ticks, next)
        /\ current' = next
        /\ cpu' = next
        /\ pc' = IF pc[cpu] = "gone" THEN [pc EXCEPT ![cpu] = "none"] ELSE pc
    BY <1>2 DEF SwitchFrom
  <2>2. rd2 \in Seq(Threads)
    <3>1. requeue => c \in Threads
      BY DEF Shape
    <3>2. QED
      BY <3>1, PushedList
  <2>3. st2 \in [Threads -> States]
    BY Zenon DEF MadeReady, States
  <2>4. next \in Threads
    <3> HIDE DEF rd2
    <3>1. QED
      BY <2>2, <1>2, PickedFromList DEF Shape
  <2> HIDE DEF rd2, st2, next
  <2>5. ready' \in Seq(Threads)
    BY <2>1, <2>2, <2>4, DroppedList
  <2>6. ticks' \in [Threads -> Nat]
    BY <2>1, LaneAssumption DEF Aged, Shape
  <2>7. state' \in [Threads -> States]
    BY Zenon, <2>1, <2>3 DEF States
  <2>8. pc' \in [Threads -> Places]
    BY <2>1 DEF Shape, Places
  <2>9. QED
    BY <2>1, <2>4, <2>5, <2>6, <2>7, <2>8
<1>3. QED
  BY <1>1, <1>2

\* What a tick hands to run(): the loop added on the first tick, the due
\* sleepers woken in the order w.
AwakeList == IF captured THEN ready ELSE Pushed(ready, Loop)
AwakeStates == IF captured THEN state ELSE MadeReady(state, ready, Loop)
Fresh(due) == {t \in due : ~In(AwakeList, t)}
WokenList(w) == AwakeList \o w
WokenStates(w) == [t \in Threads |-> IF In(w, t) THEN "Ready" ELSE AwakeStates[t]]

\* A tick that may switch does it with those.
LEMMA TickSwitches ==
    ASSUME NEW due, Tick(due), MaySwitch
    PROVE  /\ captured' = TRUE /\ sleepers' = sleepers \ due
           /\ \E w \in Orders(Fresh(due)) : SwitchFrom(WokenStates(w), WokenList(w))
  BY DEF Tick, AwakeList, AwakeStates, Fresh, WokenList, WokenStates

LEMMA WokenShape ==
    ASSUME Shape, NEW due \in SUBSET sleepers, NEW w \in Orders(Fresh(due))
    PROVE  /\ AwakeList \in Seq(Threads) /\ AwakeStates \in [Threads -> States]
           /\ w \in Seq(Threads) /\ Once(w)
           /\ \A t : In(w, t) <=> t \in due /\ ~In(AwakeList, t)
           /\ WokenList(w) \in Seq(Threads)
           /\ WokenStates(w) \in [Threads -> States]
<1>1. Loop \in Threads
  BY DEF Threads
<1>2. AwakeList \in Seq(Threads)
  BY <1>1, PushedList DEF Shape, AwakeList
<1>3. AwakeStates \in [Threads -> States]
  BY <1>1 DEF Shape, MadeReady, States, AwakeStates
<1>4. Fresh(due) \subseteq Lanes /\ Fresh(due) \subseteq Threads
  BY DEF Shape, Threads, Fresh
<1>5. IsFiniteSet(Fresh(due))
  BY <1>4, FS_Subset, LaneAssumption
<1>6. \A t : t \in Fresh(due) <=> t \in due /\ ~In(AwakeList, t)
  BY DEF Fresh
<1>7. w \in Seq(Fresh(due)) /\ Once(w) /\ \A t : In(w, t) <=> t \in Fresh(due)
  BY <1>5, WokenOrder
<1>8. w \in Seq(Threads)
  BY <1>4, <1>7, SeqMonotonic
<1>9. WokenList(w) \in Seq(Threads)
  BY <1>2, <1>8, ConcatProperties DEF WokenList
<1>10. WokenStates(w) \in [Threads -> States]
  BY <1>3 DEF States, WokenStates
<1>11. QED
  BY <1>2, <1>3, <1>6, <1>7, <1>8, <1>9, <1>10

\* Every step keeps the shape.
LEMMA ShapeStep == Shape /\ [Next]_vars => Shape'
<1> SUFFICES ASSUME Shape, [Next]_vars
             PROVE  Shape'
  OBVIOUS
<1> USE DEF Places, States
<1>t. Loop \in Threads /\ Lanes \subseteq Threads
  BY DEF Threads
<1>p. \A t \in Threads : /\ Pushed(ready, t) \in Seq(Threads)
                         /\ Dropped(ready, t) \in Seq(Threads)
  BY PushedList, DroppedList DEF Shape
<1>m. \A t \in Threads : MadeReady(state, ready, t) \in [Threads -> States]
  BY DEF MadeReady, Shape
<1>1. ASSUME NEW due \in SUBSET sleepers, Tick(due)
      PROVE  Shape'
  <2>1. CASE ~MaySwitch
    BY <1>1, <2>1 DEF Tick, Shape, listVars, tickVars, lockVars
  <2>2. CASE MaySwitch
    <3>1. PICK w \in Orders(Fresh(due)) : SwitchFrom(WokenStates(w), WokenList(w))
      BY Zenon, <1>1, <2>2, TickSwitches
    <3>2. WokenList(w) \in Seq(Threads) /\ WokenStates(w) \in [Threads -> States]
      BY WokenShape
    <3>3. /\ current' \in Threads \cup {None} /\ state' \in [Threads -> States]
          /\ ready' \in Seq(Threads) /\ ticks' \in [Threads -> Nat]
          /\ cpu' \in Threads /\ pc' \in [Threads -> Places]
      BY <3>1, <3>2, SwitchShape
    <3>4. sleepers' = sleepers \ due /\ UNCHANGED <<ret, owner, waiters>>
      BY <1>1, <2>2, TickSwitches DEF Tick, lockVars
    <3>5. QED
      BY <3>3, <3>4 DEF Shape
  <2>3. QED
    BY <2>1, <2>2
<1>2. ASSUME NEW t \in Threads, Lock(t)
      PROVE  Shape'
  <2>1. pc' \in [Threads -> Places] /\ ret' \in [Threads -> {"work", "section"}]
    BY Zenon, <1>2 DEF Lock, Shape, Goto, SpinThen
  <2>2. state' \in [Threads -> States] /\ owner' \in Threads \cup {None}
    BY Zenon, <1>2 DEF Lock, Shape, lockVars, Muted
  <2>3. waiters' \in Seq(Threads)
    <3>1. current # None => Append(waiters, current) \in Seq(Threads)
      BY AppendProperties DEF Shape
    <3>2. QED
      BY Zenon, <1>2, <3>1 DEF Lock, Shape, lockVars
  <2>4. UNCHANGED <<ready, sleepers, current, ticks, cpu>>
    BY <1>2 DEF Lock, tickVars
  <2>5. QED
    BY <2>1, <2>2, <2>3, <2>4 DEF Shape
<1>3. ASSUME NEW t \in Threads, Mask(t)
      PROVE  Shape'
  BY Zenon, <1>3 DEF Mask, Shape, listVars, tickVars, lockVars, Goto
<1>4. ASSUME NEW t \in Threads, Unlock(t)
      PROVE  Shape'
  <2>1. waiters # <<>> => Head(waiters) \in Threads /\ Tail(waiters) \in Seq(Threads)
    BY HeadTailProperties DEF Shape
  <2>2. /\ owner' \in Threads \cup {None} /\ waiters' \in Seq(Threads)
        /\ state' \in [Threads -> States] /\ ready' \in Seq(Threads)
    <3>1. CASE UNCHANGED <<state, ready, lockVars>>
      BY <3>1 DEF Shape, lockVars
    <3>2. CASE /\ waiters # <<>> /\ owner' = Head(waiters) /\ waiters' = Tail(waiters)
               /\ state' = MadeReady(state, ready, owner')
               /\ ready' = Pushed(ready, owner')
      BY <3>2, <2>1, <1>p, <1>m
    <3>3. CASE owner' = None /\ UNCHANGED <<state, ready, waiters>>
      BY <3>3 DEF Shape
    <3>4. QED
      BY <1>4, <3>1, <3>2, <3>3 DEF Unlock, Handed
  <2>3. pc' \in [Threads -> Places]
    BY <1>4 DEF Unlock, Goto, Shape
  <2>4. UNCHANGED <<sleepers, current, ticks, cpu, ret>>
    BY <1>4 DEF Unlock, tickVars
  <2>5. QED
    BY <2>2, <2>3, <2>4 DEF Shape
<1>5. ASSUME NEW t \in Threads, Yield(t)
      PROVE  Shape'
  BY Zenon, <1>5, <1>p, <1>m DEF Yield, Shape, tickVars, lockVars, Goto, SpinThen
<1>6. ASSUME NEW t \in Threads, Spin(t)
      PROVE  Shape'
  BY Zenon, <1>6 DEF Spin, Shape, listVars, tickVars, lockVars, Goto
<1>7. ASSUME NEW l \in Lanes, Sleep(l)
      PROVE  Shape'
  BY <1>7, <1>t DEF Sleep, Shape, tickVars, lockVars, Goto, SpinThen
<1>8. ASSUME NEW l \in Lanes, Return(l)
      PROVE  Shape'
  BY <1>8, <1>t DEF Return, Shape, tickVars, lockVars, Goto
<1>9. ASSUME NEW l \in Lanes, Exit(l)
      PROVE  Shape'
  BY <1>9, <1>t, <1>p DEF Exit, Destroy, Shape, lockVars, Goto
<1>10. ASSUME NEW l \in Lanes, Schedule(l)
       PROVE  Shape'
  BY Zenon, <1>10, <1>t, <1>p DEF Schedule, Shape, lockVars, Goto
<1>11. ASSUME NEW l \in Lanes, Serve(l)
       PROVE  Shape'
  <2>1. CASE ServeRead(l) \/ ServeStale(l)
    BY Zenon, <2>1, <1>t DEF ServeRead, ServeStale, Shape, listVars, tickVars, lockVars, Goto
  <2>2. CASE ServeSignal(l)
    <3>1. /\ state' \in [Threads -> States] /\ ready' \in Seq(Threads)
          /\ sleepers' \subseteq Lanes
      <4>1. CASE Suspend(l)
        BY ZenonT(30), <4>1, <1>t, <1>p DEF Suspend, Shape, listVars
      <4>2. CASE Resume(l)
        BY Zenon, <4>2, <1>t, <1>p, <1>m DEF Resume, Shape, listVars
      <4>3. CASE Terminate(l)
        BY <4>3, <1>t, <1>p DEF Terminate, Shape
      <4>4. CASE UNCHANGED listVars
        BY <4>4 DEF Shape, listVars
      <4>5. QED
        BY <2>2, <4>1, <4>2, <4>3, <4>4 DEF ServeSignal
    <3>2. pc' \in [Threads -> Places]
      BY <2>2, <1>t DEF ServeSignal, Goto, Shape
    <3>3. UNCHANGED <<current, ticks, cpu, ret, owner, waiters>>
      BY <2>2 DEF ServeSignal, tickVars, lockVars
    <3>4. QED
      BY <3>1, <3>2, <3>3 DEF Shape
  <2>3. CASE ServeReap(l)
    <3>1. CASE /\ Destroy(l) /\ UNCHANGED <<ret, lockVars>>
               /\ pc' = [pc EXCEPT ![l] = "none", ![Loop] = "work"]
      BY Zenon, <3>1, <1>t, <1>p DEF Destroy, Shape, lockVars
    <3>2. CASE Goto(Loop, "work") /\ UNCHANGED <<listVars, tickVars, ret, lockVars>>
      BY <3>2, <1>t DEF Shape, Goto, listVars, tickVars, lockVars
    <3>3. QED
      BY <2>3, <3>1, <3>2 DEF ServeReap
  <2>4. QED
    BY <1>11, <2>1, <2>2, <2>3 DEF Serve
<1>12. ASSUME NEW l \in Lanes, NEW sig, Send(l, sig)
       PROVE  Shape'
  BY <1>12 DEF Send, Shape, listVars, tickVars, codeVars, lockVars
<1>13. CASE Sdk
  BY <1>13 DEF Sdk, Shape, listVars, tickVars, lockVars
<1>14. CASE UNCHANGED vars
  BY <1>14 DEF vars, Shape, listVars, tickVars, codeVars, lockVars
<1>15. QED
  BY <1>1, <1>2, <1>3, <1>4, <1>5, <1>6, <1>7, <1>8, <1>9, <1>10, <1>11, <1>12,
     <1>13, <1>14 DEF Next

\* While the sdk has the processor the interrupt may not switch.
LEMMA SdkHolds ==
    ASSUME Shape, Asked, sdk
    PROVE  ~MaySwitch
  BY DEF Asked, MaySwitch, Switchable

LEMMA AskedStep == Shape /\ Asked /\ [Next]_vars => Asked'
<1> SUFFICES ASSUME Shape, Asked, [Next]_vars
             PROVE  Asked'
  OBVIOUS
<1>t. Loop \in Threads /\ Lanes \subseteq Threads /\ Loop \notin Lanes
  BY LaneAssumption DEF Threads
<1>1. ASSUME NEW due \in SUBSET sleepers, Tick(due)
      PROVE  Asked'
  <2>1. CASE ~MaySwitch
    BY <1>1, <2>1 DEF Tick, Asked, tickVars
  <2>2. CASE MaySwitch
    <3>1. ~sdk /\ (sdk' <=> sdk) /\ ~req'
      BY <1>1, <2>2, SdkHolds DEF Tick
    <3>2. QED
      BY <3>1 DEF Asked
  <2>3. QED
    BY <2>1, <2>2
<1>2. ASSUME NEW t \in Threads,
             Lock(t) \/ Mask(t) \/ Unlock(t) \/ Yield(t)
      PROVE  Asked'
  <2>1. /\ cpu = t /\ cpu' = cpu /\ req' = req /\ sdk' = sdk
        /\ pc[t] \notin {"spin", "gone"} /\ (t = Loop => ~sdk)
    BY <1>2 DEF Lock, Mask, Unlock, Yield, Runs, tickVars
  <2>2. ~req /\ ~sdk
    BY <2>1 DEF Asked
  <2>3. QED
    BY <2>1, <2>2 DEF Asked
<1>3. ASSUME NEW t \in Threads, Spin(t)
      PROVE  Asked'
  <2>1. ~sdk /\ sdk' = sdk /\ cpu = t /\ cpu' = t
    BY <1>3 DEF Spin, Asked, tickVars
  <2>2. ~req' \/ (pc' = pc /\ pc[t] \in {"spin", "gone"})
    BY <1>3 DEF Spin
  <2>3. QED
    BY <2>1, <2>2 DEF Asked
<1>4. ASSUME NEW l \in Lanes, Sleep(l) \/ Return(l) \/ Exit(l)
      PROVE  Asked'
  <2>1. /\ cpu = l /\ cpu' = cpu /\ req' = req /\ sdk' = sdk
        /\ pc[l] \notin {"spin", "gone"}
    BY <1>4 DEF Sleep, Return, Exit, Destroy, Runs, tickVars
  <2>2. ~req /\ ~sdk
    BY <1>t, <2>1 DEF Asked
  <2>3. QED
    BY <2>1, <2>2 DEF Asked
<1>5. ASSUME NEW l \in Lanes, Schedule(l) \/ Serve(l)
      PROVE  Asked'
  <2>1. /\ cpu = Loop /\ cpu' = cpu /\ req' = req /\ sdk' = sdk
        /\ pc[Loop] \notin {"spin", "gone"} /\ ~sdk
    <3>1. CASE Schedule(l)
      BY <3>1 DEF Schedule, Runs
    <3>2. CASE ServeRead(l) \/ ServeStale(l) \/ ServeSignal(l)
      BY <3>2 DEF ServeRead, ServeStale, ServeSignal, Runs, tickVars
    <3>3. CASE ServeReap(l)
      BY <3>3 DEF ServeReap, Destroy, Runs, tickVars
    <3>4. QED
      BY <1>5, <3>1, <3>2, <3>3 DEF Serve
  <2>2. ~req
    BY <2>1 DEF Asked
  <2>3. QED
    BY <2>1, <2>2 DEF Asked
<1>6. ASSUME NEW l \in Lanes, NEW sig, Send(l, sig)
      PROVE  Asked'
  BY <1>6 DEF Send, Asked, tickVars, codeVars
<1>7. CASE Sdk
  BY <1>7 DEF Sdk, Asked, tickVars
<1>8. CASE UNCHANGED vars
  BY <1>8 DEF vars, Asked, tickVars, codeVars
<1>9. QED
  BY <1>1, <1>2, <1>3, <1>4, <1>5, <1>6, <1>7, <1>8 DEF Next

LEMMA FrameInit == Init => Frame
<1>1. Init => Shape
  BY LaneAssumption, EmptySeq DEF Init, Shape, Threads, States, Places
<1>2. Init => Asked
  BY DEF Init, Asked, Threads
<1>3. QED
  BY <1>1, <1>2 DEF Frame

\* The lists, the executives and the processor's stack keep their shape, and a
\* switch is asked for only from exit().
THEOREM FrameAlways == Spec => []Frame
<1>1. Frame /\ [Next]_vars => Frame'
  BY ShapeStep, AskedStep DEF Frame
<1>2. QED
  BY FrameInit, <1>1, PTL DEF Spec

\* is_switchable_context and __switch_requested between them never let the
\* interrupt take the processor off the sdk stack, for any number of lanes.
THEOREM SdkNotAbandonedAlways == Spec => SdkNotAbandoned
<1>1. Frame /\ [Next]_vars => [sdk => cpu' = cpu]_vars
  <2> SUFFICES ASSUME Frame, Next, sdk
               PROVE  cpu' = cpu
    OBVIOUS
  <2>1. ASSUME NEW due \in SUBSET sleepers, Tick(due)
        PROVE  cpu' = cpu
    BY <2>1, SdkHolds DEF Frame, Tick, tickVars
  <2>2. ASSUME NEW t \in Threads,
               Lock(t) \/ Mask(t) \/ Unlock(t) \/ Yield(t) \/ Spin(t)
        PROVE  cpu' = cpu
    BY Zenon, <2>2 DEF Lock, Mask, Unlock, Yield, Spin, tickVars
  <2>3. ASSUME NEW l \in Lanes, NEW sig,
               \/ Sleep(l) \/ Return(l) \/ Exit(l) \/ Schedule(l) \/ Serve(l)
               \/ Send(l, sig)
        PROVE  cpu' = cpu
    BY Zenon, <2>3 DEF Sleep, Return, Exit, Destroy, Schedule, Serve, ServeRead, ServeStale,
                ServeSignal, ServeReap, Send, tickVars
  <2>4. CASE Sdk
    BY <2>4 DEF Sdk, tickVars
  <2>5. QED
    BY <2>1, <2>2, <2>3, <2>4 DEF Next
<1>2. QED
  BY FrameAlways, <1>1, PTL DEF Spec, SdkNotAbandoned

-----------------------------------------------------------------------------
(* The lists, the code and the mutex, while no signal broke into the mutex *)

\* what QueuesAgree says
Lists ==
    /\ \A t \in Threads : state[t] = "Sleeping" <=> t \in sleepers
    /\ \A t \in Threads : (state[t] = "Ready" /\ (t = Loop => captured)) <=> In(ready, t)
    /\ Once(ready)
    /\ \A t \in Threads : state[t] = "Running" => current = t
    /\ current # None => cpu = current

\* Where a thread's code can be, given the state of its executive: the one on
\* the processor is Running unless it spins in exit() or has ended.
Code ==
    /\ \A t \in Threads : state[t] = "none" <=> pc[t] \in {"none", "gone"}
    /\ \A t \in Threads : pc[t] = "gone" => cpu = t /\ current = None
    /\ pc[Loop] \notin {"none", "gone", "ending"}
    /\ captured /\ current = None => pc[cpu] = "gone"
    /\ captured /\ pc[cpu] \notin {"spin", "ending", "gone"} => state[cpu] = "Running"
    /\ ~captured => current = None /\ cpu = Loop /\ state[Loop] = "Ready"

\* The mutex: who waits is parked in lock(), the owner is inside or on its way,
\* and nobody else is.
Mutex ==
    /\ locked <=> owner # None
    /\ ~captured => owner = None
    /\ waiters # <<>> => locked
    /\ Once(waiters)
    /\ \A t \in Threads : In(waiters, t) =>
          state[t] = "Mute" /\ pc[t] = "spin" /\ ret[t] = "section" /\ t # owner
    /\ owner # None =>
          /\ InSection(owner) \/ (pc[owner] = "spin" /\ ret[owner] = "section")
          /\ state[owner] # "Finished"
    /\ \A t \in Threads :
          pc[t] = "spin" /\ ret[t] = "section" => In(waiters, t) \/ owner = t
    /\ \A t \in Threads :
          InSection(t) => owner = t \/ (t = Loop /\ "early" \in excused)

Guarded == ~Disturbed => Lists /\ Code /\ Mutex

Whole == Lists /\ Code /\ Mutex

\* Two lists with nothing in common, one after the other.
LEMMA JoinedList ==
    ASSUME NEW s \in Seq(Threads), NEW w \in Seq(Threads), Once(s), Once(w),
           \A t : ~(In(s, t) /\ In(w, t))
    PROVE  /\ Once(s \o w)
           /\ \A t : In(s \o w, t) <=> In(s, t) \/ In(w, t)
<1> DEFINE m == Len(s)
           n == Len(w)
           c == s \o w
<1>1. m \in Nat /\ n \in Nat /\ DOMAIN s = 1..m /\ DOMAIN w = 1..n
  BY LenProperties
<1>2. /\ c \in Seq(Threads) /\ Len(c) = m + n
      /\ \A i \in 1..(m + n) : c[i] = IF i <= m THEN s[i] ELSE w[i - m]
  BY ConcatProperties
<1>3. DOMAIN c = 1..(m + n)
  BY <1>2, LenProperties
<1> HIDE DEF c, m, n
<1>4. ASSUME NEW i \in DOMAIN c
      PROVE  \/ i \in DOMAIN s /\ c[i] = s[i]
             \/ i - m \in DOMAIN w /\ c[i] = w[i - m] /\ i > m
  BY <1>1, <1>2, <1>3
<1>5. \A i \in DOMAIN s : i \in DOMAIN c /\ c[i] = s[i]
  BY <1>1, <1>2, <1>3
<1>6. \A i \in DOMAIN w : i + m \in DOMAIN c /\ c[i + m] = w[i]
  BY <1>1, <1>2, <1>3
<1>7. \A t : In(c, t) <=> In(s, t) \/ In(w, t)
  BY <1>4, <1>5, <1>6 DEF In
<1>8. ASSUME NEW i \in DOMAIN c, NEW j \in DOMAIN c, i # j
      PROVE  c[i] # c[j]
  <2>1. i \in Int /\ j \in Int /\ m \in Int
    BY <1>1, <1>3
  <2>2. CASE i \in DOMAIN s /\ c[i] = s[i] /\ j \in DOMAIN s /\ c[j] = s[j]
    BY <2>2, <1>8 DEF Once
  <2>3. CASE i - m \in DOMAIN w /\ c[i] = w[i - m] /\ j - m \in DOMAIN w /\ c[j] = w[j - m]
    <3>1. i - m # j - m
      BY <2>1, <1>8
    <3>2. QED
      BY <2>3, <3>1 DEF Once
  <2>4. CASE i \in DOMAIN s /\ c[i] = s[i] /\ j - m \in DOMAIN w /\ c[j] = w[j - m]
    BY <2>4 DEF In
  <2>5. CASE j \in DOMAIN s /\ c[j] = s[j] /\ i - m \in DOMAIN w /\ c[i] = w[i - m]
    BY <2>5 DEF In
  <2>6. QED
    BY <1>4, <2>2, <2>3, <2>4, <2>5
<1>9. Once(c)
  BY <1>8 DEF Once
<1>10. QED
  BY <1>7, <1>9 DEF c

\* unlock() takes the head off the waiters and keeps the others.
LEMMA TailList ==
    ASSUME NEW s \in Seq(Threads), s # <<>>
    PROVE  /\ Head(s) \in Threads /\ In(s, Head(s)) /\ Tail(s) \in Seq(Threads)
           /\ Once(s) => /\ Once(Tail(s))
                         /\ \A t : In(Tail(s), t) <=> In(s, t) /\ t # Head(s)
<1> DEFINE n == Len(s)
           u == Tail(s)
<1>1. /\ n \in Nat /\ DOMAIN s = 1..n /\ n > 0
  BY LenProperties, EmptySeq
<1>2. /\ Head(s) \in Threads /\ u \in Seq(Threads) /\ Len(u) = n - 1
      /\ \A i \in 1..(n - 1) : u[i] = s[i + 1]
  BY HeadTailProperties, <1>1
<1>3. Head(s) = s[1]
  OBVIOUS
<1>4. DOMAIN u = 1..(n - 1)
  BY <1>2, LenProperties
<1> HIDE DEF u, n
<1>5. In(s, Head(s))
  BY <1>1, <1>3 DEF In
<1>6. ASSUME Once(s)
      PROVE  Once(u) /\ \A t : In(u, t) <=> In(s, t) /\ t # Head(s)
  <2>1. ASSUME NEW i \in DOMAIN u, NEW j \in DOMAIN u, i # j
        PROVE  u[i] # u[j]
    <3>1. i + 1 \in DOMAIN s /\ j + 1 \in DOMAIN s /\ i + 1 # j + 1
      BY <1>1, <1>4, <2>1
    <3>2. QED
      BY <3>1, <1>2, <1>4, <1>6 DEF Once
  <2>2. ASSUME NEW t, In(u, t)
        PROVE  In(s, t) /\ t # Head(s)
    <3>1. PICK i \in DOMAIN u : u[i] = t
      BY <2>2 DEF In
    <3>2. i + 1 \in DOMAIN s /\ i + 1 # 1 /\ 1 \in DOMAIN s /\ s[i + 1] = t
      BY <1>1, <1>2, <1>4, <3>1
    <3>3. QED
      BY <3>2, <1>3, <1>6 DEF In, Once
  <2>3. ASSUME NEW t, In(s, t), t # Head(s)
        PROVE  In(u, t)
    <3>1. PICK i \in DOMAIN s : s[i] = t
      BY <2>3 DEF In
    <3>2. i - 1 \in 1..(n - 1) /\ (i - 1) + 1 = i
      BY <1>1, <1>3, <2>3, <3>1
    <3>3. u[i - 1] = t
      BY <3>1, <3>2, <1>2
    <3>4. QED
      BY <3>2, <3>3, <1>4 DEF In
  <2>4. QED
    BY <2>1, <2>2, <2>3 DEF Once
<1>7. QED
  BY <1>2, <1>5, <1>6 DEF u

\* run() leaves everything as it is, or requeues a running current thread and
\* makes an entry of the ready list the running one.
LEMMA SwitchOutcome ==
    ASSUME Shape, NEW st \in [Threads -> States], NEW rd \in Seq(Threads),
           Once(rd), \A t \in Threads : st[t] = "Ready" <=> In(rd, t),
           SwitchFrom(st, rd)
    PROVE  \/ /\ state' = st /\ ready' = rd /\ UNCHANGED <<current, cpu, pc>>
              /\ current = None => rd = <<>>
           \/ /\ current' = cpu' /\ cpu' \in Threads
              /\ st[cpu'] = "Ready" \/ (cpu' = current /\ st[cpu'] = "Running")
              /\ \A t \in Threads :
                    state'[t] = IF t = cpu' THEN "Running"
                                ELSE IF t = current /\ st[t] = "Running" THEN "Ready"
                                ELSE st[t]
              /\ Once(ready')
              /\ \A t \in Threads : In(ready', t) <=> state'[t] = "Ready"
              /\ pc' = IF pc[cpu] = "gone" THEN [pc EXCEPT ![cpu] = "none"] ELSE pc
<1> DEFINE c == current
           goesOn == /\ c # None
                     /\ \/ rd = <<>> /\ st[c] \in {"Running", "Ready"}
                        \/ st[c] = "Finished"
           requeue == c # None /\ st[c] = "Running"
           rd2 == IF requeue THEN Pushed(rd, c) ELSE rd
           st2 == IF requeue THEN MadeReady(st, rd, c) ELSE st
           next == Picked(rd2, ticks)
<1>c. c # None => c \in Threads
  BY DEF Shape
<1>1. CASE goesOn \/ rd2 = <<>>
  <2>1. /\ state' = IF goesOn /\ st[c] = "Ready" THEN [st EXCEPT ![c] = "Running"] ELSE st
        /\ ready' = rd
        /\ UNCHANGED <<current, ticks, cpu, pc>>
    BY <1>1 DEF SwitchFrom
  <2>2. ~(goesOn /\ st[c] = "Ready")
    <3>1. SUFFICES ASSUME goesOn, st[c] = "Ready"
                   PROVE  FALSE
      OBVIOUS
    <3>2. In(rd, c) /\ rd = <<>>
      BY <3>1, <1>c
    <3>3. QED
      BY <3>2 DEF In
  <2>3. current = None => rd = <<>>
    BY <1>1
  <2>4. QED
    BY <2>1, <2>2, <2>3
<1>2. CASE ~(goesOn \/ rd2 = <<>>)
  <2>1. /\ state' = [st2 EXCEPT ![next] = "Running"]
        /\ ready' = Dropped(rd2, next)
        /\ current' = next
        /\ cpu' = next
        /\ pc' = IF pc[cpu] = "gone" THEN [pc EXCEPT ![cpu] = "none"] ELSE pc
    BY Zenon, <1>2 DEF SwitchFrom
  <2>2. /\ rd2 \in Seq(Threads) /\ Once(rd2)
        /\ \A t : In(rd2, t) <=> In(rd, t) \/ (requeue /\ t = c)
    BY Zenon, <1>c, PushedList
  <2>3. /\ st2 \in [Threads -> States]
        /\ \A t \in Threads : st2[t] = IF requeue /\ t = c THEN "Ready" ELSE st[t]
    <3>1. requeue => ~In(rd, c)
      BY <1>c
    <3>2. QED
      BY <1>c, <3>1 DEF MadeReady, States
  <2>4. rd2 # <<>>
    BY <1>2
  <2> HIDE DEF rd2
  <2>5. next \in Threads /\ In(rd2, next)
    BY <2>2, <2>4, PickedFromList DEF Shape
  <2>6. /\ Once(Dropped(rd2, next))
        /\ \A t : In(Dropped(rd2, next), t) <=> In(rd2, t) /\ t # next
    BY <2>2, <2>5, DroppedList
  <2> HIDE DEF st2, next
  <2>7. \A t \in Threads :
           state'[t] = IF t = cpu' THEN "Running"
                       ELSE IF t = current /\ st[t] = "Running" THEN "Ready"
                       ELSE st[t]
    BY <2>1, <2>3, <2>5, LaneAssumption
  <2>8. \A t \in Threads : In(ready', t) <=> state'[t] = "Ready"
    BY <2>1, <2>2, <2>5, <2>6, <2>7, LaneAssumption
  <2>9. st[cpu'] = "Ready" \/ (cpu' = current /\ st[cpu'] = "Running")
    BY <2>1, <2>2, <2>5
  <2>10. QED
    BY <2>1, <2>5, <2>6, <2>7, <2>8, <2>9
<1>3. QED
  BY <1>1, <1>2

\* What a tick hands to run() is in order: every Ready thread is in the list,
\* once, and the sleepers that are left are the Sleeping ones.
LEMMA WokenInOrder ==
    ASSUME Shape, Lists, Code, NEW due \in SUBSET sleepers,
           NEW w \in Orders(Fresh(due))
    PROVE  /\ Once(WokenList(w))
           /\ \A t \in Threads : WokenStates(w)[t] = "Ready" <=> In(WokenList(w), t)
           /\ \A t \in Threads : WokenStates(w)[t] = "Sleeping" <=> t \in sleepers \ due
           /\ \A t \in Threads : \/ WokenStates(w)[t] = state[t]
                                 \/ WokenStates(w)[t] = "Ready" /\ state[t] = "Sleeping"
           /\ ~captured => WokenList(w) # <<>>
<1>t. Loop \in Threads /\ Lanes \subseteq Threads /\ Loop \notin Lanes
  BY LaneAssumption DEF Threads
<1>1. /\ AwakeList \in Seq(Threads) /\ AwakeStates \in [Threads -> States]
      /\ w \in Seq(Threads) /\ Once(w)
      /\ \A t : In(w, t) <=> t \in due /\ ~In(AwakeList, t)
  BY WokenShape
<1>2. AwakeStates = state
  <2>1. ~captured => [state EXCEPT ![Loop] = "Ready"] = state
    BY <1>t DEF Code, Shape
  <2>2. QED
    BY <2>1 DEF AwakeStates, MadeReady
<1>3. /\ Once(AwakeList)
      /\ \A t \in Threads : state[t] = "Ready" <=> In(AwakeList, t)
  <2>1. CASE captured
    BY <2>1 DEF AwakeList, Lists
  <2>2. CASE ~captured
    <3>1. AwakeList = Pushed(ready, Loop)
      BY <2>2 DEF AwakeList
    <3>2. /\ Once(ready) => Once(Pushed(ready, Loop))
          /\ \A t : In(Pushed(ready, Loop), t) <=> In(ready, t) \/ t = Loop
      BY <1>t, PushedList DEF Shape
    <3>3. QED
      BY <2>2, <3>1, <3>2 DEF Lists, Code
  <2>3. QED
    BY <2>1, <2>2
<1>4. \A t \in due : t \in Threads /\ state[t] = "Sleeping" /\ ~In(AwakeList, t)
  BY <1>3, <1>t DEF Lists, Shape
<1>5. \A t : In(w, t) <=> t \in due
  BY <1>1, <1>4
<1>6. \A t : ~(In(AwakeList, t) /\ In(w, t))
  BY <1>4, <1>5
<1>7. /\ Once(WokenList(w))
      /\ \A t : In(WokenList(w), t) <=> In(AwakeList, t) \/ In(w, t)
  BY <1>1, <1>3, <1>6, JoinedList DEF WokenList
<1>8. \A t \in Threads : WokenStates(w)[t] = IF t \in due THEN "Ready" ELSE state[t]
  BY <1>2, <1>5 DEF WokenStates
<1>9. \A t \in Threads : WokenStates(w)[t] = "Ready" <=> In(WokenList(w), t)
  BY <1>3, <1>5, <1>7, <1>8
<1>10. \A t \in Threads : WokenStates(w)[t] = "Sleeping" <=> t \in sleepers \ due
  BY <1>8, <1>4 DEF Lists
<1>11. ~captured => WokenList(w) # <<>>
  <2>1. ~captured => In(WokenList(w), Loop)
    BY <1>3, <1>7, <1>t DEF Code
  <2>2. QED
    BY <2>1 DEF In
<1>12. QED
  BY <1>4, <1>7, <1>8, <1>9, <1>10, <1>11

\* A step outside lock() and unlock() keeps the mutex in order if it leaves the
\* waiters parked and the owner inside, and lets nobody else in.
LEMMA MutexKept ==
    ASSUME Mutex, owner \in Threads \cup {None},
           UNCHANGED <<locked, owner, waiters>>,
           captured => captured', excused \subseteq excused',
           \A u \in Threads : In(waiters, u) =>
               state'[u] = "Mute" /\ pc'[u] = pc[u] /\ ret'[u] = ret[u],
           \A u \in Threads : owner = u =>
               /\ InSection(u)' \/ (pc'[u] = "spin" /\ ret'[u] = "section")
               /\ state'[u] # "Finished",
           \A u \in Threads : ~In(waiters, u) /\ owner # u =>
               /\ InSection(u)' => InSection(u)
               /\ ~(pc'[u] = "spin" /\ ret'[u] = "section")
    PROVE  Mutex'
<1>1. \A u \in Threads : In(waiters, u) => ~InSection(u)'
  BY Zenon DEF Mutex, InSection
<1>2. QED
  BY ZenonT(30), <1>1 DEF Mutex

\* What Mutex says of a thread, by its part in the mutex.
LEMMA Parts ==
    ASSUME Mutex, NEW u \in Threads
    PROVE  /\ In(waiters, u) => /\ state[u] = "Mute" /\ pc[u] = "spin"
                               /\ ret[u] = "section" /\ owner # u
           /\ owner = u => /\ InSection(u) \/ (pc[u] = "spin" /\ ret[u] = "section")
                          /\ state[u] # "Finished"
           /\ ~In(waiters, u) /\ owner # u => ~(pc[u] = "spin" /\ ret[u] = "section")
  BY LaneAssumption DEF Mutex

\* The interrupt: whoever it takes the processor from is requeued, parked or
\* gone, whoever it gives it to was Ready.
LEMMA TickGuarded ==
    ASSUME Shape, Shape', Whole, NEW due \in SUBSET sleepers, Tick(due)
    PROVE  Whole'
<1>t. Loop \in Threads /\ cpu \in Threads /\ owner \in Threads \cup {None}
  BY DEF Threads, Shape
<1>w. Lists /\ Code /\ Mutex
  BY DEF Whole
<1>l. UNCHANGED <<ret, locked, owner, waiters, excused>>
  BY DEF Tick, lockVars
<1>1. CASE ~MaySwitch
  <2>1. UNCHANGED <<state, ready, sleepers, current, captured, cpu, pc>>
    BY <1>1 DEF Tick, listVars, tickVars
  <2>2. QED
    BY Zenon, <1>w, <1>l, <2>1 DEF Whole, Lists, Code, Mutex, InSection
<1>2. CASE MaySwitch
  <2>1. PICK w \in Orders(Fresh(due)) : SwitchFrom(WokenStates(w), WokenList(w))
    BY Zenon, <1>2, TickSwitches
  <2>2. captured' /\ sleepers' = sleepers \ due
    BY ZenonT(30), <1>2, TickSwitches
  <2> DEFINE st == WokenStates(w)
             rd == WokenList(w)
  <2>3. rd \in Seq(Threads) /\ st \in [Threads -> States]
    BY WokenShape
  <2>4. /\ Once(rd)
        /\ \A t \in Threads : st[t] = "Ready" <=> In(rd, t)
        /\ \A t \in Threads : st[t] = "Sleeping" <=> t \in sleepers \ due
        /\ \A t \in Threads : \/ st[t] = state[t]
                              \/ st[t] = "Ready" /\ state[t] = "Sleeping"
        /\ ~captured => rd # <<>>
    BY <1>w, WokenInOrder
  <2> DEFINE Stays == /\ state' = st /\ ready' = rd /\ UNCHANGED <<current, cpu, pc>>
                      /\ current = None => rd = <<>>
             Moves == /\ current' = cpu' /\ cpu' \in Threads
                      /\ st[cpu'] = "Ready" \/ (cpu' = current /\ st[cpu'] = "Running")
                      /\ \A t \in Threads :
                            state'[t] = IF t = cpu' THEN "Running"
                                        ELSE IF t = current /\ st[t] = "Running"
                                        THEN "Ready" ELSE st[t]
                      /\ Once(ready')
                      /\ \A t \in Threads : In(ready', t) <=> state'[t] = "Ready"
                      /\ pc' = IF pc[cpu] = "gone" THEN [pc EXCEPT ![cpu] = "none"] ELSE pc
  <2>5. Stays \/ Moves
    BY Zenon, <2>1, <2>3, <2>4, SwitchOutcome
  <2> HIDE DEF st, rd, Stays, Moves
  <2>6. CASE Stays
    <3>1. state' = st /\ ready' = rd /\ UNCHANGED <<current, cpu, pc>>
      BY <2>6 DEF Stays
    <3>2. captured
      BY Zenon, <1>w, <2>4, <2>6 DEF Code, Stays
    <3>3. \A t \in Threads : \/ state'[t] = state[t]
                             \/ state'[t] = "Ready" /\ state[t] = "Sleeping"
      BY Zenon, <2>4, <3>1
    <3>4. Lists'
      <4>1. \A t \in Threads : state'[t] = "Sleeping" <=> t \in sleepers'
        BY <2>2, <2>4, <3>1
      <4>2. \A t \in Threads : state'[t] = "Ready" <=> In(ready', t)
        BY <2>4, <3>1
      <4>3. \A t \in Threads : state'[t] = "Running" => current' = t
        BY <1>w, <3>1, <3>3 DEF Lists
      <4>4. Once(ready') /\ (current' # None => cpu' = current')
        BY <1>w, <2>4, <3>1 DEF Lists
      <4>5. QED
        BY <2>2, <4>1, <4>2, <4>3, <4>4 DEF Lists
    <3>5. Code'
      <4>1. \A t \in Threads : state'[t] = "none" <=> state[t] = "none"
        BY <3>3
      <4>2. state[cpu] = "Running" => state'[cpu] = "Running"
        BY <1>t, <3>3
      <4>3. QED
        BY Zenon, <1>w, <2>2, <3>1, <3>2, <4>1, <4>2 DEF Code
    <3>6. Mutex'
      BY Zenon, <1>w, <1>l, <1>t, <2>2, <3>1, <3>3, Parts, MutexKept DEF InSection
    <3>7. QED
      BY <3>4, <3>5, <3>6 DEF Whole
  <2>7. CASE Moves
    <3>1. /\ current' = cpu' /\ cpu' \in Threads
          /\ st[cpu'] = "Ready" \/ (cpu' = current /\ st[cpu'] = "Running")
          /\ Once(ready')
          /\ \A t \in Threads : In(ready', t) <=> state'[t] = "Ready"
          /\ pc' = IF pc[cpu] = "gone" THEN [pc EXCEPT ![cpu] = "none"] ELSE pc
      BY <2>7 DEF Moves
    <3>2. \A t \in Threads :
             state'[t] = IF t = cpu' THEN "Running"
                         ELSE IF t = current /\ st[t] = "Running" THEN "Ready" ELSE st[t]
      BY <2>7 DEF Moves
    <3>3. /\ pc \in [Threads -> Places]
          /\ \A t \in Threads : pc[t] = "gone" => cpu = t
      BY <1>w DEF Code, Shape
    <3>4. \A t \in Threads : /\ pc[t] # "gone" => pc'[t] = pc[t]
                             /\ pc[t] = "gone" => pc'[t] = "none"
      BY <3>1, <3>3
    <3>5. /\ state'[cpu'] = "Running"
          /\ \A t \in Threads : state'[t] = "Sleeping" <=> st[t] = "Sleeping"
          /\ \A t \in Threads : state'[t] = "none" <=> st[t] = "none"
          /\ \A t \in Threads : state'[t] = "Running" => t = cpu' \/ st[t] = "Running"
          /\ \A t \in Threads : state'[t] = "Running" /\ t # cpu' => t # current
          /\ \A t \in Threads : st[t] = "Mute" => state'[t] = "Mute"
          /\ \A t \in Threads : state'[t] = "Finished" => st[t] = "Finished"
      BY <3>1, <3>2
    <3>6. Lists'
      <4>1. \A t \in Threads : st[t] = "Running" => current = t
        BY <1>w, <2>4 DEF Lists
      <4>2. \A t \in Threads : state'[t] = "Running" => current' = t
        BY <3>1, <3>5, <4>1
      <4>3. \A t \in Threads : state'[t] = "Sleeping" <=> t \in sleepers'
        BY <2>2, <2>4, <3>5
      <4>4. QED
        BY Zenon, <2>2, <3>1, <4>2, <4>3 DEF Lists
    <3>7. Code'
      <4>1. \A t \in Threads : state'[t] = "none" <=> state[t] = "none"
        BY Zenon, <2>4, <3>5
      <4>2. current' # None
        BY <3>1, LaneAssumption
      <4>3. \A t \in Threads : /\ pc'[t] # "gone"
                               /\ pc'[t] = "none" <=> pc[t] \in {"none", "gone"}
        BY <3>4
      <4>4. pc'[Loop] = pc[Loop]
        BY <1>w, <1>t, <3>4 DEF Code
      <4>5. QED
        BY <1>w, <2>2, <3>1, <3>5, <4>1, <4>2, <4>3, <4>4 DEF Code
    <3>8. Mutex'
      <4>1. \A t \in Threads : /\ state[t] = "Mute" => state'[t] = "Mute"
                               /\ state'[t] = "Finished" => state[t] = "Finished"
        BY <2>4, <3>5
      <4>2. QED
        BY Zenon, <1>w, <1>l, <1>t, <2>2, <3>4, <4>1, Parts, MutexKept DEF InSection
    <3>9. QED
      BY <3>6, <3>7, <3>8 DEF Whole
  <2>8. QED
    BY <2>5, <2>6, <2>7
<1>3. QED
  BY <1>1, <1>2
=============================================================================
