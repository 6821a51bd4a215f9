------------------------ MODULE TaskSchedulerProofs ------------------------
(***************************************************************************)
(* The task scheduler's safety, for every table size, every set of         *)
(* executives, signals, intervals and charges.  First the records and the  *)
(* table: what each operation does to one record, the four ways a step can *)
(* change the table, each of which keeps what the invariant says of it,    *)
(* and that every step changes it in one of them.  Then the inductive      *)
(* invariant IInv, what follows from it, the implementation of the id      *)
(* table and the three action properties.                                  *)
(***************************************************************************)
EXTENDS TaskScheduler, TaskIdsProofs

-----------------------------------------------------------------------------
(* What is done to one record keeps its shape *)

\* A record's m_state.
States == {"READY", "RUNNING", "SLEEPING", "STOPPED", "ZOMBIE"}

\* Every interval a record can hold is a natural number.
LEMMA DurationNat ==
    ASSUME NEW d \in Durations \cup {0, 1, RemovedDuration}
    PROVE  d \in Nat
  BY TimeAssumption DEF RemovedDuration

\* task_t::clear() makes a record of any record.
LEMMA ClearedType ==
    ASSUME NEW t, t.exec \in Execs \cup {NoExec}
    PROVE  Cleared(t) \in TaskRec
  BY TimeAssumption DEF Cleared, TaskRec

\* register_task fills a record with an id and what the caller asked for.
LEMMA RegisteredType ==
    ASSUME NEW t \in TaskRec, NEW id \in TaskIdSet, minVrt \in 0 .. MaxVruntime,
           NEW d \in Durations \cup {1}, NEW l \in Nat, NEW a \in Int
    PROVE  Registered(t, id, d, l, a) \in TaskRec
<1>1. ASSUME NEW i \in TaskIdSet \cup {Free}, NEW f \in BOOLEAN,
             NEW p \in Durations \cup {0, 1, RemovedDuration},
             NEW m \in 0 .. MaxVruntime, NEW st \in States
      PROVE  [t EXCEPT !.id = i, !.fn = f, !.duration = p, !.last = l,
                       !.attempts = a, !.vrt = m, !.state = st] \in TaskRec
  BY ZenonT(60) DEF TaskRec, States
<1>2. /\ id \in TaskIdSet \cup {Free} /\ d \in Durations \cup {0, 1, RemovedDuration}
      /\ TRUE \in BOOLEAN /\ "SLEEPING" \in States
  BY DEF States
<1>3. QED
  BY <1>1, <1>2, Zenon DEF Registered

\* updateInterval rewrites a record in place.
LEMMA UpdatedType ==
    ASSUME NEW t \in TaskRec, NEW d \in Durations, NEW l \in Nat, NEW a \in Int
    PROVE  Updated(t, d, l, a) \in TaskRec
<1>1. ASSUME NEW f \in BOOLEAN, NEW m \in Nat,
             NEW p \in Durations \cup {0, 1, RemovedDuration}
      PROVE  [t EXCEPT !.fn = f, !.duration = p, !.attempts = a, !.last = m] \in TaskRec
  BY Zenon DEF TaskRec
<1>2. /\ (IF l = 0 THEN t.last ELSE l) \in Nat
      /\ d \in Durations \cup {0, 1, RemovedDuration} /\ TRUE \in BOOLEAN
  BY DEF TaskRec
<1>3. QED
  BY <1>1, <1>2, Zenon DEF Updated

\* remove_task leaves a zombie record.
LEMMA RemovedType ==
    ASSUME NEW t \in TaskRec
    PROVE  Removed(t) \in TaskRec
<1>1. /\ FALSE \in BOOLEAN /\ 0 \in Int /\ NoExec \in Execs \cup {NoExec}
      /\ "ZOMBIE" \in States
      /\ RemovedDuration \in Durations \cup {0, 1, RemovedDuration}
  BY DEF States
<1>2. ASSUME NEW a \in Int, NEW f \in BOOLEAN, NEW st \in States,
             NEW d \in Durations \cup {0, 1, RemovedDuration},
             NEW e \in Execs \cup {NoExec}
      PROVE  [t EXCEPT !.fn = f, !.duration = d, !.attempts = a, !.state = st,
                       !.exec = e] \in TaskRec
  BY ZenonT(60) DEF TaskRec, States
<1>3. QED
  BY <1>1, <1>2, Zenon DEF Removed

\* Consuming a signal keeps the record's shape.
LEMMA SignalledType ==
    ASSUME NEW t \in TaskRec
    PROVE  Signalled(t) \in TaskRec /\ LaneSignalled(t) \in TaskRec
<1>1. t.state \in States /\ t.fn \in BOOLEAN /\ t.attempts \in Int
  BY DEF TaskRec, States
<1>2. (CASE t.sig = "KILL" -> "ZOMBIE"
         [] t.sig = "STOP" -> "STOPPED"
         [] t.sig = "CONT" /\ t.state = "STOPPED" -> "SLEEPING"
         [] OTHER -> t.state) \in States
  BY <1>1 DEF States
<1>3. (CASE t.sig = "STOP" /\ t.stoppable -> "STOPPED"
         [] t.sig = "CONT" /\ t.stoppable /\ t.state = "STOPPED" -> "SLEEPING"
         [] OTHER -> t.state) \in States
  BY <1>1 DEF States
<1>4. Signalled(t) \in TaskRec
  <2>1. (IF t.sig = "KILL" THEN FALSE ELSE t.fn) \in BOOLEAN
    BY Zenon, <1>1
  <2>2. (IF t.sig = "KILL" THEN 0 ELSE t.attempts) \in Int
    BY <1>1
  <2>3. ASSUME NEW a \in Int, NEW f \in BOOLEAN, NEW st \in States
        PROVE  [t EXCEPT !.sig = "NONE", !.fn = f, !.attempts = a, !.state = st]
                   \in TaskRec
    BY Zenon DEF TaskRec, States
  <2>4. QED
    BY <1>2, <2>1, <2>2, <2>3, Zenon DEF Signalled
<1>5. LaneSignalled(t) \in TaskRec
  BY Zenon, <1>3 DEF LaneSignalled, TaskRec, States
<1>6. QED
  BY <1>4, <1>5

\* Bringing the stamp back to the clock keeps the record's shape.
LEMMA RewoundType ==
    ASSUME NEW t \in TaskRec, now \in Nat
    PROVE  Rewound(t) \in TaskRec
  BY DEF Rewound, TaskRec

\* The catch-up loop leaves a stamp that is a natural number.
LEMMA CatchUpType ==
    ASSUME NEW t \in TaskRec
    PROVE  CatchUp(t) \in Nat
<1> DEFINE Left == {MaxCatchUp - k : k \in CatchUpRounds(t)}
<1>1. CatchUpRounds(t) \subseteq 0 .. MaxCatchUp /\ 0 \in CatchUpRounds(t)
  BY DEF CatchUpRounds, MaxCatchUp
<1>2. Left \subseteq Nat /\ Left # {}
  BY <1>1 DEF MaxCatchUp
<1>3. PICK n \in Left : \A m \in Left : n <= m
  BY Zenon, <1>2, LeastNat
<1>4. PICK k \in CatchUpRounds(t) : n = MaxCatchUp - k
  OBVIOUS
<1>5. \A j \in CatchUpRounds(t) : j <= k
  BY <1>1, <1>3, <1>4 DEF MaxCatchUp
<1>6. (CHOOSE i \in CatchUpRounds(t) : \A j \in CatchUpRounds(t) : j <= i) \in Nat
  BY <1>1, <1>5
<1>7. t.last \in Nat /\ t.duration \in Nat
  BY DurationNat DEF TaskRec
<1>8. QED
  BY <1>6, <1>7 DEF CatchUp

\* What handle_tasks does to a record after a run keeps its shape.
LEMMA AfterRunType ==
    ASSUME NEW t \in TaskRec, NEW c \in Charges, start \in Nat
    PROVE  AfterRun(t, c) \in TaskRec
<1>1. CatchUp(t) \in Nat
  BY CatchUpType
<1>2. Saturated(t.vrt + c) \in 0 .. MaxVruntime
  BY TimeAssumption DEF Saturated, TaskRec
<1>3. (IF t.attempts > 0 THEN t.attempts - 1 ELSE t.attempts) \in Int
  BY DEF TaskRec
<1> DEFINE left == IF t.attempts > 0 THEN t.attempts - 1 ELSE t.attempts
<1>4. /\ (IF t.last = 0 THEN start ELSE CatchUp(t)) \in Nat
      /\ (IF left = 0 THEN "ZOMBIE" ELSE "SLEEPING") \in States
  BY <1>1 DEF States
<1>5. ASSUME NEW m \in 0 .. MaxVruntime, NEW l \in Nat, NEW a \in Int, NEW st \in States
      PROVE  [t EXCEPT !.vrt = m, !.last = l, !.attempts = a, !.state = st] \in TaskRec
  BY Zenon DEF TaskRec, States
<1>6. QED
  BY <1>2, <1>3, <1>4, <1>5, Zenon DEF AfterRun

-----------------------------------------------------------------------------
(* The four ways a step can change the table *)

\* the part of IInv that is about the table and the executives
TableOK ==
    /\ tasks \in [Slots -> TaskRec]
    /\ lane \in [Execs -> LaneRec]
    /\ Table!UniqueIds
    /\ RecordsAgree
    /\ ExecutivesOwned
    /\ NoTaskStranded

\* records are rewritten, but who is in which slot and who runs it stays
Kept ==
    /\ tasks' \in [Slots -> TaskRec]
    /\ lane' \in [Execs -> LaneRec]
    /\ \A s \in Slots :
          /\ tasks'[s].id = tasks[s].id
          /\ tasks'[s].mode = tasks[s].mode
          /\ tasks'[s].exec = tasks[s].exec
          /\ tasks[s].id = Free => tasks'[s].attempts = 0
          /\ tasks[s].mode = "lane" => tasks'[s].attempts = tasks[s].attempts
    /\ \A e \in Execs :
          /\ lane'[e].tid = lane[e].tid
          /\ lane'[e].st = "none" <=> lane[e].st = "none"

\* one task is ended, its executive with it
Ended(id) ==
    /\ tasks' \in [Slots -> TaskRec]
    /\ lane' \in [Execs -> LaneRec]
    /\ \A s \in Slots :
          /\ tasks'[s].id = tasks[s].id
          /\ tasks'[s].mode = tasks[s].mode
          /\ IF tasks[s].id = id
             THEN tasks'[s].exec = NoExec /\ tasks'[s].attempts = 0
             ELSE tasks'[s] = tasks[s]
    /\ \A e \in Execs : IF lane[e].st # "none" /\ lane[e].tid = id
                        THEN lane'[e].st = "none"
                        ELSE lane'[e] = lane[e]

\* the sweep gives one slot back
Released(s) ==
    /\ tasks[s].id # Free /\ tasks[s].exec = NoExec
    /\ tasks' = [tasks EXCEPT ![s] = Cleared(tasks[s])]
    /\ lane' = lane

\* a new task takes the first free slot, with or without an executive
Taken(s, r) ==
    /\ s \in Slots /\ tasks[s].id = Free
    /\ r \in TaskRec /\ r.id \in TaskIdSet
    /\ \A q \in Slots : tasks[q].id # r.id
    /\ tasks' = [tasks EXCEPT ![s] = r]
    /\ \/ /\ r.exec = NoExec
          /\ r.mode = "inline" \/ r.attempts = 0
          /\ lane' = lane
       \/ /\ r.exec \in Execs /\ r.mode = "lane" /\ r.attempts # 0
          /\ lane[r.exec].st = "none"
          /\ lane' = [lane EXCEPT ![r.exec] = [st |-> "ready", tid |-> r.id]]

\* Rewriting records in place keeps the table sound.
LEMMA KeptSound ==
    ASSUME TableOK, Kept
    PROVE  TableOK'
<1>1. Table!UniqueIds'
  BY DEF TableOK, Kept, Table!UniqueIds, TableIds, Slots, Table!Slots, Free, Table!Free
<1>2. RecordsAgree'
  BY DEF TableOK, Kept, RecordsAgree
<1>3. ExecutivesOwned'
  <2>1. ASSUME NEW s \in Slots, tasks'[s].exec # NoExec
        PROVE  /\ tasks'[s].id # Free
               /\ lane'[tasks'[s].exec].st # "none"
               /\ lane'[tasks'[s].exec].tid = tasks'[s].id
    <3>1. tasks[s].exec \in Execs /\ tasks'[s].exec = tasks[s].exec
      BY <2>1 DEF TableOK, Kept, TaskRec
    <3>2. QED
      BY <2>1, <3>1 DEF TableOK, Kept, ExecutivesOwned
  <2>2. ASSUME NEW e \in Execs, lane'[e].st # "none"
        PROVE  \E s \in Slots : tasks'[s].exec = e
    BY <2>2 DEF TableOK, Kept, ExecutivesOwned
  <2>3. QED
    BY <2>1, <2>2 DEF ExecutivesOwned
<1>4. NoTaskStranded'
  BY DEF TableOK, Kept, NoTaskStranded, Live
<1>5. QED
  BY <1>1, <1>2, <1>3, <1>4 DEF TableOK, Kept

\* Ending a task together with its executive keeps the table sound: the id
\* selects one record only, and the executive is that record's.
LEMMA EndedSound ==
    ASSUME TableOK, NEW id \in TaskIdSet, Ended(id)
    PROVE  TableOK'
<1>1. Table!UniqueIds'
  BY DEF TableOK, Ended, Table!UniqueIds, TableIds, Slots, Table!Slots, Free, Table!Free
<1>2. RecordsAgree'
  BY DEF TableOK, Ended, RecordsAgree, Free, TaskIdSet
<1>3. ExecutivesOwned'
  <2>1. ASSUME NEW s \in Slots, tasks'[s].exec # NoExec
        PROVE  /\ tasks'[s].id # Free
               /\ lane'[tasks'[s].exec].st # "none"
               /\ lane'[tasks'[s].exec].tid = tasks'[s].id
    <3>1. tasks[s].id # id /\ tasks'[s] = tasks[s]
      BY <2>1 DEF Ended
    <3>2. tasks[s].exec \in Execs
      BY <2>1, <3>1 DEF TableOK, TaskRec
    <3>3. lane[tasks[s].exec].st # "none" /\ lane[tasks[s].exec].tid = tasks[s].id
      BY <2>1, <3>1 DEF TableOK, ExecutivesOwned
    <3>4. QED
      BY <2>1, <3>1, <3>2, <3>3 DEF TableOK, Ended, ExecutivesOwned
  <2>2. ASSUME NEW e \in Execs, lane'[e].st # "none"
        PROVE  \E s \in Slots : tasks'[s].exec = e
    <3>1. lane[e].st # "none" /\ lane[e].tid # id
      BY <2>2 DEF Ended
    <3>2. PICK s \in Slots : tasks[s].exec = e
      BY <3>1 DEF TableOK, ExecutivesOwned
    <3>3. tasks[s].id # id
      BY <3>1, <3>2, CallerAssumption DEF TableOK, ExecutivesOwned, NoExec
    <3>4. QED
      BY <3>2, <3>3 DEF Ended
  <2>3. QED
    BY <2>1, <2>2 DEF ExecutivesOwned
<1>4. NoTaskStranded'
  BY DEF TableOK, Ended, NoTaskStranded, Live
<1>5. QED
  BY <1>1, <1>2, <1>3, <1>4 DEF TableOK, Ended

\* Giving back the slot of a task without an executive keeps the table sound.
LEMMA ReleasedSound ==
    ASSUME TableOK, NEW s \in Slots, Released(s)
    PROVE  TableOK'
<1>1. /\ tasks' \in [Slots -> TaskRec]
      /\ tasks'[s] = Cleared(tasks[s])
      /\ \A q \in Slots : q # s => tasks'[q] = tasks[q]
  BY ClearedType DEF TableOK, Released, TaskRec
<1>2. /\ tasks'[s].id = Free /\ tasks'[s].exec = NoExec
      /\ tasks'[s].mode = "inline" /\ tasks'[s].attempts = 0
  BY <1>1 DEF Released, Cleared
<1>3. Table!UniqueIds'
  BY <1>1, <1>2 DEF TableOK, Table!UniqueIds, TableIds, Slots, Table!Slots, Free, Table!Free
<1>4. RecordsAgree'
  BY <1>1, <1>2 DEF TableOK, RecordsAgree
<1>5. ExecutivesOwned'
  <2>1. ASSUME NEW q \in Slots, tasks'[q].exec # NoExec
        PROVE  /\ tasks'[q].id # Free
               /\ lane'[tasks'[q].exec].st # "none"
               /\ lane'[tasks'[q].exec].tid = tasks'[q].id
    BY <1>1, <1>2, <2>1 DEF TableOK, Released, ExecutivesOwned
  <2>2. ASSUME NEW e \in Execs, lane'[e].st # "none"
        PROVE  \E q \in Slots : tasks'[q].exec = e
    <3>1. PICK q \in Slots : tasks[q].exec = e
      BY <2>2 DEF TableOK, Released, ExecutivesOwned
    <3>2. q # s
      BY <3>1, CallerAssumption DEF Released, NoExec
    <3>3. QED
      BY <1>1, <3>1, <3>2
  <2>3. QED
    BY <2>1, <2>2 DEF ExecutivesOwned
<1>6. NoTaskStranded'
  BY <1>1, <1>2 DEF TableOK, NoTaskStranded, Live
<1>7. QED
  BY <1>1, <1>3, <1>4, <1>5, <1>6 DEF TableOK, Released

\* Filling a free slot under an unused id keeps the table sound: a free slot
\* has no executive of its own, so none is overwritten.
LEMMA TakenSound ==
    ASSUME TableOK, NEW s, NEW r, Taken(s, r)
    PROVE  TableOK'
<1>1. /\ s \in Slots /\ r \in TaskRec
      /\ tasks' \in [Slots -> TaskRec]
      /\ tasks'[s] = r
      /\ \A q \in Slots : q # s => tasks'[q] = tasks[q]
  BY DEF TableOK, Taken
<1>2. r.id \in TaskIdSet /\ r.id # Free /\ \A q \in Slots : tasks[q].id # r.id
  BY DEF Taken, TaskIdSet, Free
<1>3. tasks[s].exec = NoExec
  BY DEF TableOK, Taken, ExecutivesOwned
<1>4. lane' \in [Execs -> LaneRec]
  BY DEF TableOK, Taken, LaneRec
<1>5. Table!UniqueIds'
  BY <1>1, <1>2 DEF TableOK, Table!UniqueIds, TableIds, Slots, Table!Slots, Free, Table!Free
<1>6. RecordsAgree'
  BY <1>1, <1>2 DEF TableOK, Taken, RecordsAgree
<1>7. NoTaskStranded'
  <2>1. r.mode = "lane" /\ r.attempts # 0 => r.exec # NoExec
    BY CallerAssumption DEF Taken, NoExec
  <2>2. QED
    BY <1>1, <2>1 DEF TableOK, NoTaskStranded, Live
<1>8. ExecutivesOwned'
  <2>1. ASSUME NEW q \in Slots, tasks'[q].exec # NoExec
        PROVE  /\ tasks'[q].id # Free
               /\ lane'[tasks'[q].exec].st # "none"
               /\ lane'[tasks'[q].exec].tid = tasks'[q].id
    <3>1. CASE q = s
      <4>1. /\ r.exec \in Execs
            /\ lane' = [lane EXCEPT ![r.exec] = [st |-> "ready", tid |-> r.id]]
        BY <1>1, <2>1, <3>1 DEF Taken
      <4>2. lane'[r.exec] = [st |-> "ready", tid |-> r.id]
        BY <4>1 DEF TableOK
      <4>3. QED
        BY <1>1, <1>2, <3>1, <4>2
    <3>2. CASE q # s
      <4>1. /\ tasks'[q] = tasks[q] /\ tasks[q].exec \in Execs
            /\ tasks[q].id # Free /\ lane[tasks[q].exec].st # "none"
            /\ lane[tasks[q].exec].tid = tasks[q].id
        BY <1>1, <2>1, <3>2 DEF TableOK, ExecutivesOwned, TaskRec
      <4>2. lane'[tasks[q].exec] = lane[tasks[q].exec]
        BY <4>1 DEF TableOK, Taken
      <4>3. QED
        BY <4>1, <4>2
    <3>3. QED
      BY <3>1, <3>2
  <2>2. ASSUME NEW e \in Execs, lane'[e].st # "none"
        PROVE  \E q \in Slots : tasks'[q].exec = e
    <3>1. CASE lane'[e] = lane[e]
      <4>1. PICK q \in Slots : tasks[q].exec = e
        BY <2>2, <3>1 DEF TableOK, ExecutivesOwned
      <4>2. q # s
        BY <1>3, <4>1, CallerAssumption DEF NoExec
      <4>3. QED
        BY <1>1, <4>1, <4>2
    <3>2. CASE lane'[e] # lane[e]
      BY <1>1, <3>2 DEF TableOK, Taken
    <3>3. QED
      BY <3>1, <3>2
  <2>3. QED
    BY <2>1, <2>2 DEF ExecutivesOwned
<1>9. QED
  BY <1>1, <1>4, <1>5, <1>6, <1>7, <1>8 DEF TableOK

-----------------------------------------------------------------------------
(* Every step changes the table in one of those ways *)

HoldStep ==
    \/ Kept /\ nextId' = nextId
    \/ \E id \in TaskIdSet : Ended(id) /\ nextId' = nextId
    \/ \E r \in TaskRec :
          /\ FreeSlots(TableIds) # {} /\ FreeTries(TableIds, nextId) # {}
          /\ Taken(FirstFree(TableIds), r)
          /\ r.id = NewId(TableIds, nextId)
          /\ nextId' = CursorAfter(TableIds, nextId)

TableStep == HoldStep \/ \E s \in Slots : Released(s) /\ nextId' = nextId

\* A change of one record that leaves its owner alone is one of the first kind.
LEMMA OneKept ==
    ASSUME TableOK, NEW s \in Slots, NEW r \in TaskRec,
           tasks' = [tasks EXCEPT ![s] = r], lane' = lane,
           r.id = tasks[s].id, r.mode = tasks[s].mode, r.exec = tasks[s].exec,
           tasks[s].id = Free => r.attempts = 0,
           tasks[s].mode = "lane" => r.attempts = tasks[s].attempts
    PROVE  Kept
<1>1. /\ tasks' \in [Slots -> TaskRec]
      /\ tasks'[s] = r
      /\ \A q \in Slots : q # s => tasks'[q] = tasks[q]
  BY DEF TableOK
<1>2. QED
  BY <1>1 DEF TableOK, RecordsAgree, Kept

\* A step that leaves the table and the executives alone is one as well.
LEMMA NoneKept ==
    ASSUME TableOK, tasks' = tasks, lane' = lane
    PROVE  Kept
  BY DEF TableOK, RecordsAgree, Kept

\* Destroying an executive ends the task it was made for and no other.
LEMMA ExecutiveEnds ==
    ASSUME TableOK, NEW e \in Execs, lane[e].st # "none",
           lane' = [lane EXCEPT ![e] = NoLane]
    PROVE  /\ lane[e].tid \in TaskIdSet
           /\ lane' \in [Execs -> LaneRec]
           /\ \A d \in Execs : IF lane[d].st # "none" /\ lane[d].tid = lane[e].tid
                               THEN lane'[d].st = "none"
                               ELSE lane'[d] = lane[d]
<1>1. ASSUME NEW d \in Execs, lane[d].st # "none"
      PROVE  \E s \in Slots : /\ tasks[s].exec = d /\ tasks[s].exec # NoExec
                              /\ tasks[s].id # Free /\ lane[d].tid = tasks[s].id
  <2>1. PICK s \in Slots : tasks[s].exec = d
    BY <1>1 DEF TableOK, ExecutivesOwned
  <2>2. tasks[s].exec # NoExec
    BY <2>1, CallerAssumption DEF NoExec
  <2>3. QED
    BY <2>1, <2>2 DEF TableOK, ExecutivesOwned
<1>2. lane[e].tid \in TaskIdSet
  BY <1>1 DEF TableOK, TaskRec
<1>3. ASSUME NEW d \in Execs, lane[d].st # "none", lane[d].tid = lane[e].tid
      PROVE  d = e
  <2>1. PICK s \in Slots : /\ tasks[s].exec = d /\ tasks[s].id # Free
                           /\ lane[d].tid = tasks[s].id
    BY <1>1, <1>3
  <2>2. PICK q \in Slots : /\ tasks[q].exec = e /\ tasks[q].id # Free
                           /\ lane[e].tid = tasks[q].id
    BY <1>1
  <2>3. s = q
    BY Zenon, <1>3, <2>1, <2>2
    DEF TableOK, Table!UniqueIds, TableIds, Slots, Table!Slots, Free, Table!Free
  <2>4. QED
    BY <2>1, <2>2, <2>3
<1>4. NoLane \in LaneRec /\ NoLane.st = "none"
  BY DEF NoLane, LaneRec
<1>5. lane' \in [Execs -> LaneRec] /\ lane'[e] = NoLane
  BY <1>4 DEF TableOK
<1>6. \A d \in Execs : d # e => lane'[d] = lane[d]
  BY DEF TableOK
<1>7. QED
  BY <1>2, <1>3, <1>4, <1>5, <1>6

\* remove_task over a table that differs from the current one in the removed
\* task only ends that task.
LEMMA RemoveIdEnds ==
    ASSUME TableOK, NEW id \in TaskIdSet, NEW tbl \in [Slots -> TaskRec],
           \A s \in Slots : /\ tbl[s].id = tasks[s].id /\ tbl[s].mode = tasks[s].mode
                            /\ tasks[s].id # id => tbl[s] = tasks[s]
    PROVE  /\ RemoveId(tbl, id) \in [Slots -> TaskRec]
           /\ \A s \in Slots :
                 /\ RemoveId(tbl, id)[s].id = tasks[s].id
                 /\ RemoveId(tbl, id)[s].mode = tasks[s].mode
                 /\ IF tasks[s].id = id
                    THEN /\ RemoveId(tbl, id)[s].exec = NoExec
                         /\ RemoveId(tbl, id)[s].attempts = 0
                    ELSE RemoveId(tbl, id)[s] = tasks[s]
<1>1. RemoveId(tbl, id) \in [Slots -> TaskRec]
  BY RemovedType DEF RemoveId
<1>2. ASSUME NEW s \in Slots
      PROVE  /\ RemoveId(tbl, id)[s].id = tasks[s].id
             /\ RemoveId(tbl, id)[s].mode = tasks[s].mode
             /\ IF tasks[s].id = id
                THEN /\ RemoveId(tbl, id)[s].exec = NoExec
                     /\ RemoveId(tbl, id)[s].attempts = 0
                ELSE RemoveId(tbl, id)[s] = tasks[s]
  <2>1. CASE tasks[s].id = id
    <3>1. RemoveId(tbl, id)[s] = Removed(tbl[s])
      BY <2>1 DEF RemoveId
    <3>2. /\ Removed(tbl[s]).id = tbl[s].id /\ Removed(tbl[s]).mode = tbl[s].mode
          /\ Removed(tbl[s]).exec = NoExec /\ Removed(tbl[s]).attempts = 0
      BY DEF Removed, TaskRec
    <3>3. QED
      BY <2>1, <3>1, <3>2
  <2>2. CASE tasks[s].id # id
    <3>1. RemoveId(tbl, id)[s] = tasks[s]
      BY <2>2 DEF RemoveId
    <3>2. QED
      BY <2>2, <3>1
  <2>3. QED
    BY <2>1, <2>2
<1>3. QED
  BY <1>1, <1>2

\* RemoveTask ends a task that has no executive.
LEMMA RemoveTaskStep ==
    ASSUME TableOK, RemoveTask
    PROVE  HoldStep
<1>1. PICK s \in Live : /\ tasks[s].exec = NoExec
                        /\ tasks' = RemoveId(tasks, tasks[s].id)
  BY DEF RemoveTask
<1>2. s \in Slots /\ tasks[s].id \in TaskIdSet /\ lane' = lane /\ nextId' = nextId
  BY <1>1 DEF RemoveTask, Live, TableOK, TaskRec
<1>3. ASSUME NEW e \in Execs, lane[e].st # "none"
      PROVE  lane[e].tid # tasks[s].id
  <2>1. PICK q \in Slots : tasks[q].exec = e
    BY <1>3 DEF TableOK, ExecutivesOwned
  <2>2. q # s /\ lane[e].tid = tasks[q].id
    BY <1>1, <2>1, CallerAssumption DEF TableOK, ExecutivesOwned, NoExec
  <2>3. QED
    BY <1>1, <1>2, <2>2
    DEF TableOK, Table!UniqueIds, TableIds, Slots, Table!Slots, Free, Table!Free, Live
<1>4. Ended(tasks[s].id)
  BY <1>1, <1>2, <1>3, RemoveIdEnds DEF Ended, TableOK
<1>5. QED
  BY <1>2, <1>4 DEF HoldStep

\* Destroying an executive and removing its task ends the task.
LEMMA ExecutiveRemoved ==
    ASSUME TableOK, NEW e \in Execs, lane[e].st # "none",
           lane' = [lane EXCEPT ![e] = NoLane],
           tasks' = RemoveId(tasks, lane[e].tid)
    PROVE  lane[e].tid \in TaskIdSet /\ Ended(lane[e].tid)
<1>1. /\ lane[e].tid \in TaskIdSet
      /\ lane' \in [Execs -> LaneRec]
      /\ \A d \in Execs : IF lane[d].st # "none" /\ lane[d].tid = lane[e].tid
                          THEN lane'[d].st = "none"
                          ELSE lane'[d] = lane[d]
  BY Zenon, ExecutiveEnds
<1>2. tasks \in [Slots -> TaskRec]
  BY DEF TableOK
<1>3. /\ tasks' \in [Slots -> TaskRec]
      /\ \A s \in Slots :
            /\ tasks'[s].id = tasks[s].id /\ tasks'[s].mode = tasks[s].mode
            /\ IF tasks[s].id = lane[e].tid
               THEN tasks'[s].exec = NoExec /\ tasks'[s].attempts = 0
               ELSE tasks'[s] = tasks[s]
  BY <1>1, <1>2, RemoveIdEnds
<1>4. QED
  BY <1>1, <1>3 DEF Ended

\* DestroyLane ends a task with its executive.
LEMMA DestroyLaneStep ==
    ASSUME TableOK, DestroyLane
    PROVE  HoldStep
<1>1. PICK s \in Live :
          /\ tasks[s].exec # NoExec
          /\ lane' = [lane EXCEPT ![tasks[s].exec] = NoLane]
          /\ tasks' = RemoveId(tasks, lane[tasks[s].exec].tid)
  BY Zenon DEF DestroyLane
<1>2. /\ s \in Slots /\ tasks[s].exec \in Execs
      /\ lane[tasks[s].exec].st # "none" /\ nextId' = nextId
  BY <1>1 DEF DestroyLane, Live, TableOK, ExecutivesOwned, TaskRec
<1>3. QED
  BY Zenon, <1>1, <1>2, ExecutiveRemoved DEF HoldStep

\* So does an executive that leaves through exit().
LEMMA LaneExitsStep ==
    ASSUME TableOK, NEW e \in Execs, LaneExits(e)
    PROVE  HoldStep
<1>1. /\ lane[e].st # "none" /\ lane' = [lane EXCEPT ![e] = NoLane]
      /\ tasks' = RemoveId(tasks, lane[e].tid) /\ nextId' = nextId
  BY DEF LaneExits
<1>2. QED
  BY Zenon, <1>1, ExecutiveRemoved DEF HoldStep

\* register_task and scheduleUnderExecSched fill the first free slot under a
\* fresh id.
LEMMA SlotAndId ==
    ASSUME TableOK, nextId \in TaskIdSet, FreeSlots(TableIds) # {}
    PROVE  /\ FirstFree(TableIds) \in Slots
           /\ tasks[FirstFree(TableIds)].id = Free
           /\ NewId(TableIds, nextId) \in TaskIdSet
           /\ CursorAfter(TableIds, nextId) \in TaskIdSet
           /\ \A q \in Slots : tasks[q].id # NewId(TableIds, nextId)
<1>1. TableIds \in [Slots -> TaskIdSet \cup {Free}]
  BY DEF TableOK, TableIds, TaskRec
<1>2. FirstFree(TableIds) \in Slots /\ TableIds[FirstFree(TableIds)] = Free
  BY FirstFreeIsFree
<1>3. /\ NewId(TableIds, nextId) \in TaskIdSet
      /\ CursorAfter(TableIds, nextId) \in TaskIdSet
      /\ \A q \in Slots : TableIds[q] # NewId(TableIds, nextId)
  BY <1>1, NewIdFresh
<1>4. \A q \in Slots : TableIds[q] = tasks[q].id
  BY DEF TableIds
<1>5. QED
  BY <1>2, <1>3, <1>4

\* A registration takes a slot.
LEMMA RegisterTaskStep ==
    ASSUME IInv, TableOK, RegisterTask
    PROVE  HoldStep
<1>1. PICK d \in Durations, l \in Stamps, a \in Attempts : Registers(d, l, a)
  BY DEF RegisterTask
<1> DEFINE s == FirstFree(TableIds)
           id == NewId(TableIds, nextId)
           r == Registered(tasks[s], id, d, l, a)
<1>2. /\ s \in Slots /\ tasks[s].id = Free /\ id \in TaskIdSet
      /\ \A q \in Slots : tasks[q].id # id
  BY <1>1, SlotAndId DEF Registers, IInv, TypeOK
<1>3. tasks[s] \in TaskRec /\ l \in Nat /\ a \in Int /\ minVrt \in 0 .. MaxVruntime
  BY <1>2, TimeAssumption, CallerAssumption DEF IInv, TypeOK, Stamps
<1>4. tasks[s].exec = NoExec /\ tasks[s].mode = "inline"
  BY <1>2 DEF TableOK, ExecutivesOwned, RecordsAgree
<1>5. r \in TaskRec
  BY <1>2, <1>3, RegisteredType
<1>6. r.id = id /\ r.exec = NoExec /\ r.mode = "inline"
  BY <1>3, <1>4 DEF Registered, TaskRec
<1>7. /\ tasks' = [tasks EXCEPT ![s] = r] /\ lane' = lane
      /\ nextId' = CursorAfter(TableIds, nextId)
      /\ FreeSlots(TableIds) # {} /\ FreeTries(TableIds, nextId) # {}
  BY <1>1, <1>2 DEF Registers, TableOK
<1> HIDE DEF s, id, r
<1>8. Taken(s, r)
  BY <1>2, <1>5, <1>6, <1>7 DEF Taken
<1>9. QED
  BY <1>5, <1>6, <1>7, <1>8 DEF HoldStep, s, id

\* A promotion takes a slot together with an executive, or takes it for a task
\* that has already ended.
LEMMA RunUnderLaneStep ==
    ASSUME IInv, TableOK, RunUnderLane
    PROVE  HoldStep
<1> DEFINE s == FirstFree(TableIds)
           id == NewId(TableIds, nextId)
           t == [Registered(tasks[s], id, 1, 0, -1) EXCEPT !.mode = "lane"]
<1>1. /\ FreeSlots(TableIds) # {} /\ FreeTries(TableIds, nextId) # {}
      /\ nextId' = CursorAfter(TableIds, nextId)
  BY Zenon DEF RunUnderLane
<1>2. /\ s \in Slots /\ tasks[s].id = Free /\ id \in TaskIdSet
      /\ \A q \in Slots : tasks[q].id # id
  BY <1>1, SlotAndId DEF IInv, TypeOK
<1>3. tasks[s] \in TaskRec /\ minVrt \in 0 .. MaxVruntime /\ 0 \in Nat /\ -1 \in Int
  BY <1>2 DEF IInv, TypeOK
<1>4. tasks[s].exec = NoExec
  BY <1>2 DEF TableOK, ExecutivesOwned
<1>5. Registered(tasks[s], id, 1, 0, -1) \in TaskRec
  BY <1>2, <1>3, RegisteredType
<1>6. t \in TaskRec
  BY <1>5 DEF TaskRec
<1>7. t.id = id /\ t.exec = NoExec /\ t.mode = "lane" /\ t.attempts = -1
  BY <1>3, <1>4 DEF Registered, TaskRec
<1>8. \E program \in BOOLEAN :
         \/ \E e \in Execs :
              /\ lane[e].st = "none"
              /\ lane' = [lane EXCEPT ![e] = [st |-> "ready", tid |-> id]]
              /\ tasks' = [tasks EXCEPT
                              ![s] = [t EXCEPT !.exec = e, !.fin = program,
                                               !.stoppable = ~program]]
         \/ /\ tasks' = RemoveId([tasks EXCEPT ![s] = t], id)
            /\ lane' = lane
  BY Zenon DEF RunUnderLane, PromotionFailed
<1> HIDE DEF s, id, t
<1>9. ASSUME NEW program \in BOOLEAN, NEW e \in Execs, lane[e].st = "none",
             lane' = [lane EXCEPT ![e] = [st |-> "ready", tid |-> id]],
             tasks' = [tasks EXCEPT ![s] = [t EXCEPT !.exec = e, !.fin = program,
                                                     !.stoppable = ~program]]
      PROVE  \E r \in TaskRec : Taken(s, r) /\ r.id = id
  <2> DEFINE r == [t EXCEPT !.exec = e, !.fin = program, !.stoppable = ~program]
  <2>1. r \in TaskRec
    BY Zenon, <1>6 DEF TaskRec
  <2>2. r.id = id /\ r.exec = e /\ r.mode = "lane" /\ r.attempts # 0
    BY <1>6, <1>7 DEF TaskRec
  <2> HIDE DEF r
  <2>3. Taken(s, r)
    BY Zenon, <1>2, <1>9, <2>1, <2>2 DEF Taken, r
  <2>4. QED
    BY <2>1, <2>2, <2>3
<1>10. ASSUME tasks' = RemoveId([tasks EXCEPT ![s] = t], id), lane' = lane
       PROVE  \E r \in TaskRec : Taken(s, r) /\ r.id = id
  <2>1. tasks' = [tasks EXCEPT ![s] = Removed(t)]
    <3>1. \A q \in Slots : [tasks EXCEPT ![s] = t][q] = IF q = s THEN t ELSE tasks[q]
      BY DEF TableOK
    <3>2. RemoveId([tasks EXCEPT ![s] = t], id)
             = [q \in Slots |-> IF q = s THEN Removed(t) ELSE tasks[q]]
      BY <1>2, <1>7, <3>1 DEF RemoveId
    <3>3. QED
      BY Zenon, <1>2, <1>10, <3>2 DEF TableOK
  <2>2. /\ Removed(t) \in TaskRec /\ Removed(t).id = id
        /\ Removed(t).exec = NoExec /\ Removed(t).attempts = 0
    <3>1. Removed(t) \in TaskRec
      BY <1>6, RemovedType
    <3>2. /\ Removed(t).id = t.id
          /\ Removed(t).exec = NoExec /\ Removed(t).attempts = 0
      BY <1>6 DEF Removed, TaskRec
    <3>3. QED
      BY <1>7, <3>1, <3>2
  <2>3. Taken(s, Removed(t))
    BY Zenon, <1>2, <1>10, <2>1, <2>2 DEF Taken
  <2>4. QED
    BY <2>2, <2>3
<1>11. \E r \in TaskRec : Taken(s, r) /\ r.id = id
  BY Zenon, <1>8, <1>9, <1>10
<1>12. QED
  BY <1>1, <1>11 DEF HoldStep, s, id

\* What consuming a signal, a rewind, a run and an update leave alone.
LEMMA OwnerFields ==
    ASSUME NEW t \in TaskRec
    PROVE  /\ /\ Signalled(t).id = t.id /\ Signalled(t).mode = t.mode
              /\ Signalled(t).exec = t.exec
              /\ Signalled(t).attempts = t.attempts \/ Signalled(t).attempts = 0
           /\ /\ Rewound(t).id = t.id /\ Rewound(t).mode = t.mode
              /\ Rewound(t).exec = t.exec /\ Rewound(t).attempts = t.attempts
           /\ /\ LaneSignalled(t).id = t.id /\ LaneSignalled(t).mode = t.mode
              /\ LaneSignalled(t).exec = t.exec
              /\ LaneSignalled(t).attempts = t.attempts
           /\ \A c \in Charges :
                 /\ AfterRun(t, c).id = t.id /\ AfterRun(t, c).mode = t.mode
                 /\ AfterRun(t, c).exec = t.exec
           /\ \A d, l, a : /\ Updated(t, d, l, a).id = t.id
                           /\ Updated(t, d, l, a).mode = t.mode
                           /\ Updated(t, d, l, a).exec = t.exec
<1>1. /\ Signalled(t).id = t.id /\ Signalled(t).mode = t.mode
      /\ Signalled(t).exec = t.exec
  BY DEF Signalled, TaskRec
<1>2. Signalled(t).attempts = t.attempts \/ Signalled(t).attempts = 0
  BY DEF Signalled, TaskRec
<1>3. /\ Rewound(t).id = t.id /\ Rewound(t).mode = t.mode
      /\ Rewound(t).exec = t.exec /\ Rewound(t).attempts = t.attempts
  BY DEF Rewound, TaskRec
<1>4. /\ LaneSignalled(t).id = t.id /\ LaneSignalled(t).mode = t.mode
      /\ LaneSignalled(t).exec = t.exec /\ LaneSignalled(t).attempts = t.attempts
  BY DEF LaneSignalled, TaskRec
<1>5. ASSUME NEW c \in Charges
      PROVE  /\ AfterRun(t, c).id = t.id /\ AfterRun(t, c).mode = t.mode
             /\ AfterRun(t, c).exec = t.exec
  BY DEF AfterRun, TaskRec
<1>6. ASSUME NEW d, NEW l, NEW a
      PROVE  /\ Updated(t, d, l, a).id = t.id /\ Updated(t, d, l, a).mode = t.mode
             /\ Updated(t, d, l, a).exec = t.exec
  BY DEF Updated, TaskRec
<1>7. QED
  BY <1>1, <1>2, <1>3, <1>4, <1>5, <1>6

\* The head of the pass's list is a slot.
LEMMA HeadIsSlot ==
    ASSUME IInv, order # <<>>
    PROVE  Head(order) \in Slots /\ Tail(order) \in Seq(Slots)
  BY DEF IInv, TypeOK

\* The record the pass looks at, its signal consumed and its stamp rewound.
LEMMA ConsideredRecord ==
    ASSUME IInv, NEW s \in Slots
    PROVE  LET t == Rewound(Signalled(tasks[s]))
           IN /\ t \in TaskRec /\ t.id = tasks[s].id /\ t.mode = tasks[s].mode
              /\ t.exec = tasks[s].exec
              /\ t.attempts = tasks[s].attempts \/ t.attempts = 0
<1>1. tasks[s] \in TaskRec /\ now \in Nat
  BY TimeAssumption DEF IInv, TypeOK
<1>2. Signalled(tasks[s]) \in TaskRec
  BY <1>1, SignalledType
<1>3. Rewound(Signalled(tasks[s])) \in TaskRec
  BY <1>1, <1>2, RewoundType
<1>4. QED
  BY ZenonT(30), <1>1, <1>2, <1>3, OwnerFields

\* A task the pass starts is in the table: a free slot has no attempts.
LEMMA StartTaskStep ==
    ASSUME IInv, TableOK, StartTask
    PROVE  /\ HoldStep
           /\ cur' \in Slots /\ tasks'[cur'].id # Free
           /\ tasks'[cur'].mode = "inline"
           /\ minVrt' \in 0 .. MaxVruntime
<1>1. PICK s \in Slots : \E t \in {Rewound(Signalled(tasks[s]))} :
          /\ Considered(s, t) /\ Runnable(t)
          /\ tasks' = [tasks EXCEPT ![s] = [t EXCEPT !.state = "RUNNING"]]
          /\ minVrt' = IF t.vrt > minVrt THEN t.vrt ELSE minVrt
          /\ Enter(s, "callback", "sweep")
  BY Zenon DEF StartTask
<1> DEFINE t == Rewound(Signalled(tasks[s]))
           r == [t EXCEPT !.state = "RUNNING"]
<1>2. /\ Considered(s, t) /\ Runnable(t)
      /\ tasks' = [tasks EXCEPT ![s] = r]
      /\ minVrt' = IF t.vrt > minVrt THEN t.vrt ELSE minVrt
      /\ cur' = s /\ lane' = lane /\ nextId' = nextId
  BY <1>1 DEF Enter, StartTask
<1>3. /\ t \in TaskRec /\ t.id = tasks[s].id /\ t.mode = tasks[s].mode
      /\ t.exec = tasks[s].exec
      /\ t.attempts = tasks[s].attempts \/ t.attempts = 0
  BY ConsideredRecord
<1>4. tasks[s].mode = "inline" /\ t.attempts # 0
  BY <1>2 DEF Considered, Runnable
<1>5. tasks[s].id # Free
  BY <1>3, <1>4 DEF TableOK, RecordsAgree
<1> HIDE DEF t
<1>6. /\ r \in TaskRec /\ r.id = t.id /\ r.mode = t.mode /\ r.exec = t.exec
  BY <1>3 DEF TaskRec
<1> HIDE DEF r
<1>7. Kept
  BY Zenon, <1>2, <1>3, <1>4, <1>5, <1>6, OneKept
<1>8. tasks'[s] = r
  BY <1>2 DEF TableOK
<1>9. minVrt' \in 0 .. MaxVruntime
  BY <1>2, <1>3 DEF TaskRec, IInv, TypeOK
<1>10. QED
  BY <1>2, <1>3, <1>4, <1>5, <1>6, <1>7, <1>8, <1>9 DEF HoldStep

\* A pass with nothing to run rewrites one record.
LEMMA IdlePassStep ==
    ASSUME IInv, TableOK, IdlePass
    PROVE  HoldStep
<1>1. PICK s \in Slots :
          /\ Considered(s, Rewound(Signalled(tasks[s])))
          /\ tasks' = [tasks EXCEPT ![s] = Rewound(Signalled(tasks[s]))]
  BY Zenon DEF IdlePass
<1> DEFINE t == Rewound(Signalled(tasks[s]))
<1>2. /\ t \in TaskRec /\ t.id = tasks[s].id /\ t.mode = tasks[s].mode
      /\ t.exec = tasks[s].exec
      /\ t.attempts = tasks[s].attempts \/ t.attempts = 0
  BY ConsideredRecord
<1>3. tasks[s].mode = "inline" /\ lane' = lane /\ nextId' = nextId
  BY <1>1 DEF Considered, IdlePass
<1>4. tasks[s].id = Free => t.attempts = 0
  BY <1>2 DEF TableOK, RecordsAgree
<1> HIDE DEF t
<1>5. Kept
  BY Zenon, <1>1, <1>2, <1>3, <1>4, OneKept DEF t
<1>6. QED
  BY <1>3, <1>5 DEF HoldStep

\* A task the pass steps over keeps its slot and its executive.
LEMMA SkippedTaskStep ==
    ASSUME IInv, TableOK, SkippedTask
    PROVE  HoldStep
<1> DEFINE s == Head(order)
<1>1. s \in Slots /\ lane' = lane /\ nextId' = nextId
  BY HeadIsSlot DEF SkippedTask
<1>2. CASE tasks' = tasks
  BY <1>1, <1>2, NoneKept DEF HoldStep
<1>3. CASE tasks[s].mode = "inline" /\ tasks' = [tasks EXCEPT ![s] = Signalled(tasks[s])]
  <2>1. tasks[s] \in TaskRec
    BY <1>1 DEF TableOK
  <2>2. Signalled(tasks[s]) \in TaskRec
    BY <2>1, SignalledType
  <2>3. /\ Signalled(tasks[s]).id = tasks[s].id
        /\ Signalled(tasks[s]).mode = tasks[s].mode
        /\ Signalled(tasks[s]).exec = tasks[s].exec
        /\ Signalled(tasks[s]).attempts \in {tasks[s].attempts, 0}
    BY <2>1, OwnerFields
  <2>4. tasks[s].id = Free => Signalled(tasks[s]).attempts = 0
    BY <1>1, <2>3 DEF TableOK, RecordsAgree
  <2>5. Kept
    BY Zenon, <1>1, <1>3, <2>2, <2>3, <2>4, OneKept
  <2>6. QED
    BY <1>1, <2>5 DEF HoldStep
<1>4. QED
  BY <1>2, <1>3 DEF SkippedTask

\* A lane task's turn rewrites its record, or ends it with its executive; the
\* finalizer that may follow runs on a slot that is still taken.
LEMMA LaneTaskStep ==
    ASSUME IInv, TableOK, LaneTask
    PROVE  HoldStep /\ Head(order) \in Slots /\ tasks'[Head(order)].id # Free
<1> DEFINE s == Head(order)
           t == tasks[s]
           st == LaneStateAfter(t, lane[t.exec].st)
           signalled == [tasks EXCEPT ![s] = LaneSignalled(t)]
           reaped == RemoveId(signalled, lane[t.exec].tid)
<1>1. /\ s \in Slots /\ t \in TaskRec /\ t.exec # NoExec /\ t.mode = "lane"
      /\ nextId' = nextId
  BY Zenon, HeadIsSlot DEF LaneTask, TableOK
<1>2. /\ t.exec \in Execs /\ t.id # Free
      /\ lane[t.exec] \in LaneRec
      /\ lane[t.exec].st # "none" /\ lane[t.exec].tid = t.id
  BY <1>1 DEF TableOK, ExecutivesOwned, TaskRec
<1>3. LaneSignalled(t) \in TaskRec
  BY <1>1, SignalledType
<1>4. /\ LaneSignalled(t).id = t.id /\ LaneSignalled(t).mode = t.mode
      /\ LaneSignalled(t).exec = t.exec /\ LaneSignalled(t).attempts = t.attempts
  BY <1>1, OwnerFields
<1>5. signalled \in [Slots -> TaskRec]
  BY <1>1, <1>3 DEF TableOK
<1>6. \A q \in Slots : signalled[q] = IF q = s THEN LaneSignalled(t) ELSE tasks[q]
  BY <1>1 DEF TableOK
<1>7. \/ /\ tasks' = [reaped EXCEPT ![s].fin = FALSE]
         /\ lane' = [lane EXCEPT ![t.exec] = NoLane]
      \/ /\ st # "finished"
         /\ tasks' = signalled
         /\ lane' = [lane EXCEPT ![t.exec].st = st]
  BY Zenon DEF LaneTask
<1>8. st \in {"ready", "mute", "finished"}
  BY <1>2 DEF LaneStateAfter, LaneRec
<1> HIDE DEF s, t, st, signalled, reaped
<1>9. CASE /\ tasks' = [reaped EXCEPT ![s].fin = FALSE]
           /\ lane' = [lane EXCEPT ![t.exec] = NoLane]
  <2>1. t.id \in TaskIdSet
    BY <1>1, <1>2 DEF TaskRec
  <2>2. \A q \in Slots : /\ signalled[q].id = tasks[q].id
                         /\ signalled[q].mode = tasks[q].mode
                         /\ tasks[q].id # t.id => signalled[q] = tasks[q]
    BY <1>4, <1>6 DEF t
  <2>3. /\ reaped \in [Slots -> TaskRec]
        /\ \A q \in Slots :
              /\ reaped[q].id = tasks[q].id /\ reaped[q].mode = tasks[q].mode
              /\ IF tasks[q].id = t.id
                 THEN reaped[q].exec = NoExec /\ reaped[q].attempts = 0
                 ELSE reaped[q] = tasks[q]
    BY <1>2, <1>5, <2>1, <2>2, RemoveIdEnds DEF reaped
  <2>4. /\ tasks' \in [Slots -> TaskRec]
        /\ \A q \in Slots : q # s => tasks'[q] = reaped[q]
        /\ tasks'[s].id = reaped[s].id /\ tasks'[s].mode = reaped[s].mode
        /\ tasks'[s].exec = reaped[s].exec
        /\ tasks'[s].attempts = reaped[s].attempts
    <3>1. reaped[s] \in TaskRec
      BY <1>1, <2>3
    <3>2. [reaped[s] EXCEPT !.fin = FALSE] \in TaskRec
      BY Zenon, <3>1 DEF TaskRec
    <3>3. tasks' = [reaped EXCEPT ![s] = [reaped[s] EXCEPT !.fin = FALSE]]
      BY <1>9
    <3>4. /\ tasks'[s] = [reaped[s] EXCEPT !.fin = FALSE]
          /\ \A q \in Slots : q # s => tasks'[q] = reaped[q]
          /\ tasks' \in [Slots -> TaskRec]
      BY <1>1, <2>3, <3>2, <3>3
    <3>5. QED
      BY <3>1, <3>4 DEF TaskRec
  <2>5. /\ lane' \in [Execs -> LaneRec]
        /\ \A d \in Execs : IF lane[d].st # "none" /\ lane[d].tid = t.id
                            THEN lane'[d].st = "none"
                            ELSE lane'[d] = lane[d]
    BY Zenon, <1>2, <1>9, ExecutiveEnds
  <2>6. Ended(t.id)
    BY <1>1, <2>3, <2>4, <2>5 DEF Ended, t
  <2>7. tasks'[s].id # Free
    BY <1>1, <1>2, <2>3, <2>4 DEF t
  <2>8. QED
    BY <1>1, <2>1, <2>6, <2>7 DEF HoldStep, s
<1>10. CASE /\ st # "finished" /\ tasks' = signalled
            /\ lane' = [lane EXCEPT ![t.exec].st = st]
  <2>1. lane' \in [Execs -> LaneRec]
    BY <1>2, <1>8, <1>10 DEF TableOK, LaneRec
  <2>2. \A d \in Execs : /\ lane'[d].tid = lane[d].tid
                         /\ lane'[d].st = "none" <=> lane[d].st = "none"
    BY <1>2, <1>8, <1>10 DEF TableOK, LaneRec
  <2>3. \A q \in Slots : /\ tasks'[q].id = tasks[q].id
                         /\ tasks'[q].mode = tasks[q].mode
                         /\ tasks'[q].exec = tasks[q].exec
                         /\ tasks'[q].attempts = tasks[q].attempts
    BY <1>4, <1>6, <1>10 DEF t
  <2>4. Kept
    BY <1>5, <1>10, <2>1, <2>2, <2>3 DEF Kept, TableOK, RecordsAgree
  <2>5. QED
    BY <1>1, <1>2, <2>3, <2>4 DEF HoldStep, s, t
<1>11. QED
  BY <1>7, <1>9, <1>10

\* A callback that returns rewrites the record of the task that ran.
LEMMA CallbackReturnsStep ==
    ASSUME IInv, TableOK, CallbackReturns
    PROVE  HoldStep
<1>1. PICK c \in Charges : tasks' = [tasks EXCEPT ![cur] = AfterRun(tasks[cur], c)]
  BY Zenon DEF CallbackReturns
<1>2. /\ cur \in Slots /\ tasks[cur].id # Free /\ tasks[cur].mode = "inline"
      /\ tasks[cur] \in TaskRec /\ start \in Nat
      /\ lane' = lane /\ nextId' = nextId
  BY TimeAssumption DEF CallbackReturns, IInv, CursorHolds, TypeOK
<1>3. AfterRun(tasks[cur], c) \in TaskRec
  BY <1>2, AfterRunType
<1>4. /\ AfterRun(tasks[cur], c).id = tasks[cur].id
      /\ AfterRun(tasks[cur], c).mode = tasks[cur].mode
      /\ AfterRun(tasks[cur], c).exec = tasks[cur].exec
  BY <1>2, OwnerFields
<1>5. Kept
  BY Zenon, <1>1, <1>2, <1>3, <1>4, OneKept
<1>6. QED
  BY <1>2, <1>5 DEF HoldStep

\* The sweep's next slot holds a task that has ended, so no executive.
LEMMA NextExpiredSlot ==
    ASSUME IInv, pc = "sweep", ToRelease # {}
    PROVE  /\ NextExpired \in Slots /\ NextExpired \in ToRelease
           /\ tasks[NextExpired].id # Free /\ tasks[NextExpired].exec = NoExec
<1>1. ToRelease \subseteq Slots /\ ToRelease \subseteq Nat
  BY SlotsAssumption DEF ToRelease, IInv, TypeOK, CursorHolds, Slots
<1>2. \E s \in ToRelease : \A r \in ToRelease : s <= r
  BY Zenon, <1>1, LeastNat
<1>3. NextExpired \in ToRelease
  BY <1>2 DEF NextExpired
<1>4. QED
  BY <1>1, <1>3 DEF ToRelease, Expired, IInv, RecordsAgree

\* A step of the sweep clears a finalizer or releases a slot.
LEMMA SweepStepStep ==
    ASSUME IInv, TableOK, SweepStep
    PROVE  TableStep
<1> DEFINE s == NextExpired
<1>1. s \in Slots /\ tasks[s].id # Free /\ tasks[s].exec = NoExec /\ tasks[s] \in TaskRec
  BY NextExpiredSlot DEF SweepStep, TableOK
<1>2. lane' = lane /\ nextId' = nextId
  BY DEF SweepStep
<1>3. CASE tasks' = [tasks EXCEPT ![s].fin = FALSE]
  <2> DEFINE r == [tasks[s] EXCEPT !.fin = FALSE]
  <2>1. /\ r \in TaskRec /\ r.id = tasks[s].id /\ r.mode = tasks[s].mode
        /\ r.exec = tasks[s].exec /\ r.attempts = tasks[s].attempts
    BY Zenon, <1>1 DEF TaskRec
  <2>2. tasks' = [tasks EXCEPT ![s] = r]
    BY <1>3
  <2> HIDE DEF r, s
  <2>3. Kept
    BY Zenon, <1>1, <1>2, <2>1, <2>2, OneKept
  <2>4. QED
    BY <1>2, <2>3 DEF TableStep, HoldStep
<1>4. CASE ReleaseSlot(s)
  BY Zenon, <1>1, <1>2, <1>4 DEF ReleaseSlot, Released, TableStep
<1>5. QED
  BY <1>3, <1>4 DEF SweepStep

\* After a finalizer the sweep releases the slot; the pass just goes on.
LEMMA FinalizerReturnsStep ==
    ASSUME IInv, TableOK, FinalizerReturns
    PROVE  TableStep
<1>1. cur \in Slots /\ tasks[cur].id # Free /\ lane' = lane /\ nextId' = nextId
  BY DEF FinalizerReturns, IInv, CursorHolds
<1>2. CASE back = "sweep"
  <2>1. tasks[cur].exec = NoExec
    BY <1>2 DEF FinalizerReturns, IInv, CursorHolds
  <2>2. QED
    BY <1>1, <1>2, <2>1 DEF FinalizerReturns, ReleaseSlot, Released, TableStep
<1>3. CASE back # "sweep"
  BY <1>1, <1>3, NoneKept DEF FinalizerReturns, TableStep, HoldStep
<1>4. QED
  BY <1>2, <1>3

\* updateInterval, setTaskFinalizer, send_signal and a lane's end rewrite
\* records in place.
LEMMA RewriteStep ==
    ASSUME IInv, TableOK,
           \/ UpdateInterval \/ SetTaskFinalizer \/ SendSignal \/ SendSignalByName
           \/ \E e \in Execs : LaneFinishes(e)
    PROVE  HoldStep
<1>1. CASE UpdateInterval
  <2>1. PICK s \in Live, d \in Durations, l \in Stamps, a \in Attempts :
            /\ tasks[s].mode = "inline"
            /\ tasks' = [tasks EXCEPT ![s] = Updated(tasks[s], d, l, a)]
    BY Zenon, <1>1 DEF UpdateInterval, Live, TableOK
  <2>2. /\ s \in Slots /\ tasks[s].id # Free /\ tasks[s] \in TaskRec
        /\ l \in Nat /\ a \in Int /\ lane' = lane /\ nextId' = nextId
    BY <1>1, TimeAssumption, CallerAssumption
    DEF UpdateInterval, Live, Stamps, IInv, TypeOK
  <2>3. Updated(tasks[s], d, l, a) \in TaskRec
    BY <2>2, UpdatedType
  <2>4. /\ Updated(tasks[s], d, l, a).id = tasks[s].id
        /\ Updated(tasks[s], d, l, a).mode = tasks[s].mode
        /\ Updated(tasks[s], d, l, a).exec = tasks[s].exec
    BY <2>2 DEF Updated, TaskRec
  <2>5. Kept
    BY Zenon, <2>1, <2>2, <2>3, <2>4, OneKept
  <2>6. QED
    BY <2>2, <2>5 DEF HoldStep
<1>2. CASE SetTaskFinalizer
  <2>1. PICK s \in Live, b \in Finalizers : tasks' = [tasks EXCEPT ![s].fin = b]
    BY Zenon, <1>2 DEF SetTaskFinalizer
  <2> DEFINE r == [tasks[s] EXCEPT !.fin = b]
  <2>2. /\ s \in Slots /\ tasks[s] \in TaskRec /\ tasks[s].id # Free /\ b \in BOOLEAN
        /\ lane' = lane /\ nextId' = nextId
    BY <1>2, CallerAssumption DEF SetTaskFinalizer, Live, TableOK
  <2>3. /\ r \in TaskRec /\ r.id = tasks[s].id /\ r.mode = tasks[s].mode
        /\ r.exec = tasks[s].exec /\ r.attempts = tasks[s].attempts
    BY <2>2 DEF TaskRec
  <2>4. tasks' = [tasks EXCEPT ![s] = r]
    BY <2>1
  <2> HIDE DEF r
  <2>5. Kept
    BY Zenon, <2>2, <2>3, <2>4, OneKept
  <2>6. QED
    BY <2>2, <2>5 DEF HoldStep
<1>3. CASE SendSignal
  <2>1. PICK s \in Live, sig \in Signals : tasks' = [tasks EXCEPT ![s].sig = sig]
    BY Zenon, <1>3 DEF SendSignal
  <2> DEFINE r == [tasks[s] EXCEPT !.sig = sig]
  <2>2. /\ s \in Slots /\ tasks[s] \in TaskRec /\ tasks[s].id # Free
        /\ lane' = lane /\ nextId' = nextId
    BY <1>3 DEF SendSignal, Live, TableOK
  <2>3. /\ r \in TaskRec /\ r.id = tasks[s].id /\ r.mode = tasks[s].mode
        /\ r.exec = tasks[s].exec /\ r.attempts = tasks[s].attempts
    BY <2>2 DEF TaskRec
  <2>4. tasks' = [tasks EXCEPT ![s] = r]
    BY <2>1
  <2> HIDE DEF r
  <2>5. Kept
    BY Zenon, <2>2, <2>3, <2>4, OneKept
  <2>6. QED
    BY <2>2, <2>5 DEF HoldStep
<1>4. CASE SendSignalByName
  <2>1. PICK S \in SUBSET Live, sig \in Signals :
            tasks' = [s \in Slots |-> IF s \in S THEN [tasks[s] EXCEPT !.sig = sig]
                                                 ELSE tasks[s]]
    BY Zenon, <1>4 DEF SendSignalByName
  <2>2. lane' = lane /\ nextId' = nextId
    BY <1>4 DEF SendSignalByName
  <2>3. ASSUME NEW s \in Slots
        PROVE  /\ tasks'[s] \in TaskRec /\ tasks'[s].id = tasks[s].id
               /\ tasks'[s].mode = tasks[s].mode /\ tasks'[s].exec = tasks[s].exec
               /\ tasks'[s].attempts = tasks[s].attempts
    BY <2>1 DEF TableOK, TaskRec
  <2>4. tasks' \in [Slots -> TaskRec]
    BY <2>1, <2>3
  <2>5. Kept
    BY <2>2, <2>3, <2>4 DEF Kept, TableOK, RecordsAgree
  <2>6. QED
    BY <2>2, <2>5 DEF HoldStep
<1>5. ASSUME NEW e \in Execs, LaneFinishes(e)
      PROVE  HoldStep
  <2>1. /\ lane[e].st = "ready" /\ lane' = [lane EXCEPT ![e].st = "finished"]
        /\ tasks' = tasks /\ nextId' = nextId
    BY <1>5 DEF LaneFinishes
  <2>2. /\ lane' \in [Execs -> LaneRec]
        /\ \A d \in Execs : /\ lane'[d].tid = lane[d].tid
                            /\ lane'[d].st = "none" <=> lane[d].st = "none"
    BY <2>1 DEF TableOK, LaneRec
  <2>3. Kept
    BY <2>1, <2>2 DEF Kept, TableOK, RecordsAgree
  <2>4. QED
    BY <2>1, <2>3 DEF HoldStep
<1>6. QED
  BY <1>1, <1>2, <1>3, <1>4, <1>5

\* No call of the API, no lane and no tick releases a slot.
LEMMA OutsideStep ==
    ASSUME IInv, TableOK, Api \/ LaneStep \/ Tick \/ UNCHANGED vars
    PROVE  HoldStep /\ UNCHANGED loopVars
<1>1. CASE Tick \/ UNCHANGED vars
  <2>1. tasks' = tasks /\ lane' = lane /\ nextId' = nextId /\ UNCHANGED loopVars
    BY <1>1 DEF Tick, vars, apiVars, loopVars
  <2>2. QED
    BY <2>1, NoneKept DEF HoldStep
<1>2. CASE Api
  <2>1. HoldStep
    BY <1>2, RegisterTaskStep, RemoveTaskStep, RunUnderLaneStep, DestroyLaneStep,
       RewriteStep DEF Api
  <2>2. UNCHANGED loopVars
    BY Zenon, <1>2 DEF Api, RegisterTask, UpdateInterval, RemoveTask, SetTaskFinalizer,
                SendSignal, SendSignalByName, RunUnderLane, DestroyLane, loopVars
  <2>3. QED
    BY <2>1, <2>2
<1>3. CASE LaneStep
  BY <1>3, RewriteStep, LaneExitsStep DEF LaneStep, LaneFinishes, LaneExits, loopVars
<1>4. QED
  BY <1>1, <1>2, <1>3

\* Every step of the scheduler changes the table in one of the four ways.
LEMMA NextIsTableStep ==
    ASSUME IInv, [Next]_vars
    PROVE  TableStep
<1>1. TableOK
  BY DEF IInv, TypeOK, TableOK
<1>2. CASE BeginPass \/ EndOfList \/ EndOfPass
  <2>1. tasks' = tasks /\ lane' = lane /\ nextId' = nextId
    BY <1>2 DEF BeginPass, EndOfList, EndOfPass, apiVars
  <2>2. QED
    BY <1>1, <2>1, NoneKept DEF TableStep, HoldStep
<1>3. CASE LaneTask \/ SkippedTask \/ StartTask \/ IdlePass \/ CallbackReturns
  BY <1>1, <1>3, LaneTaskStep, SkippedTaskStep, StartTaskStep, IdlePassStep,
     CallbackReturnsStep DEF TableStep
<1>4. CASE SweepStep \/ FinalizerReturns
  BY <1>1, <1>4, SweepStepStep, FinalizerReturnsStep
<1>5. CASE Api \/ LaneStep \/ Tick \/ UNCHANGED vars
  BY <1>1, <1>5, OutsideStep DEF TableStep
<1>6. QED
  BY <1>2, <1>3, <1>4, <1>5 DEF Next, HandleTasks

-----------------------------------------------------------------------------
(* The invariant *)

\* the part of IInv that is about the main loop
LoopOK ==
    /\ nextId \in TaskIdSet
    /\ now \in 0 .. ClockMod - 1
    /\ pc \in {"idle", "pass", "callback", "sweep", "finalizer"}
    /\ order \in Seq(Slots)
    /\ cur \in 0 .. NSlots + 1
    /\ start \in 0 .. ClockMod - 1
    /\ back \in {"pass", "sweep"}
    /\ minVrt \in 0 .. MaxVruntime
    /\ CursorHolds

\* The two parts make up the invariant.
LEMMA Parts == (IInv <=> TableOK /\ LoopOK) /\ (IInv' <=> TableOK' /\ LoopOK')
  BY DEF IInv, TypeOK, TableOK, LoopOK

\* The table and its executives stay sound.
LEMMA TableStepSound ==
    ASSUME TableOK, TableStep
    PROVE  TableOK'
  BY KeptSound, EndedSound, ReleasedSound, TakenSound DEF TableStep, HoldStep

\* Until the sweep releases it, a taken slot keeps its task and its lane.
LEMMA HeldSlot ==
    ASSUME TableOK, HoldStep, NEW s \in Slots, tasks[s].id # Free
    PROVE  /\ tasks'[s].id = tasks[s].id /\ tasks'[s].mode = tasks[s].mode
           /\ tasks[s].exec = NoExec => tasks'[s].exec = NoExec
<1>1. CASE Kept
  BY <1>1 DEF Kept
<1>2. ASSUME NEW id \in TaskIdSet, Ended(id)
      PROVE  /\ tasks'[s].id = tasks[s].id /\ tasks'[s].mode = tasks[s].mode
             /\ tasks[s].exec = NoExec => tasks'[s].exec = NoExec
  BY <1>2 DEF Ended
<1>3. ASSUME NEW q, NEW r, Taken(q, r)
      PROVE  tasks'[s] = tasks[s]
  BY <1>3 DEF Taken, TableOK
<1>4. QED
  BY <1>1, <1>2, <1>3 DEF HoldStep

\* The id cursor stays on the ring.
LEMMA CursorOnRing ==
    ASSUME IInv, TableOK, TableStep
    PROVE  nextId' \in TaskIdSet
<1>1. nextId \in TaskIdSet
  BY DEF IInv, TypeOK
<1>2. QED
  BY <1>1, SlotAndId DEF TableStep, HoldStep

\* getSortedTaskList makes a list of slots.
LEMMA SortedListType == SortedLists \subseteq Seq(Slots)
<1>1. Live \subseteq Slots
  BY DEF Live
<1>2. IsFiniteSet(Slots)
  BY SlotsAssumption, FS_Interval DEF Slots
<1>3. Cardinality(Live) \in Nat
  BY <1>1, <1>2, FS_Subset, FS_CardinalityType
<1>4. ASSUME NEW q \in SortedLists
      PROVE  q \in Seq(Slots)
  BY <1>1, <1>3, <1>4 DEF SortedLists
<1>5. QED
  BY <1>4

\* Steps that leave the main loop where it is keep what its cursor points at:
\* the slot of a running callback or finalizer stays taken.
LEMMA LoopWaits ==
    ASSUME IInv, TableOK, HoldStep, UNCHANGED loopVars, now' \in 0 .. ClockMod - 1,
           nextId' \in TaskIdSet
    PROVE  LoopOK'
<1>1. CursorHolds'
  <2>1. CASE pc \in {"callback", "finalizer"}
    <3>1. cur \in Slots /\ tasks[cur].id # Free
      BY <2>1 DEF IInv, CursorHolds
    <3>2. /\ tasks'[cur].id = tasks[cur].id /\ tasks'[cur].mode = tasks[cur].mode
          /\ tasks[cur].exec = NoExec => tasks'[cur].exec = NoExec
      BY <3>1, HeldSlot
    <3>3. QED
      BY <2>1, <3>1, <3>2 DEF IInv, CursorHolds, loopVars
  <2>2. CASE pc \notin {"callback", "finalizer"}
    BY <2>2 DEF IInv, CursorHolds, loopVars
  <2>3. QED
    BY <2>1, <2>2
<1>2. QED
  BY <1>1 DEF IInv, TypeOK, LoopOK, loopVars

\* A step of the main loop leaves it in order.
LEMMA LoopMoves ==
    ASSUME IInv, TableOK, HandleTasks, nextId' \in TaskIdSet
    PROVE  LoopOK'
<1> USE DEF LoopOK, CursorHolds, IInv, TypeOK
<1>1. CASE BeginPass
  BY <1>1, SortedListType DEF BeginPass
<1>2. CASE EndOfList
  BY <1>2, SlotsAssumption DEF EndOfList
<1>3. CASE LaneTask
  <2>1. Head(order) \in Slots /\ tasks'[Head(order)].id # Free
    BY <1>3, LaneTaskStep
  <2>2. /\ order' \in Seq(Slots) /\ nextId' = nextId /\ now' = now
        /\ start' = start /\ minVrt' = minVrt /\ pc = "pass"
        /\ \/ pc' = pc /\ cur' = cur /\ back' = back
           \/ pc' = "finalizer" /\ cur' = Head(order) /\ back' = "pass"
    BY Zenon, <1>3, HeadIsSlot DEF LaneTask, Enter
  <2>3. Head(order) \in 0 .. NSlots + 1
    BY <2>1, SlotsAssumption DEF Slots
  <2>4. QED
    BY <2>1, <2>2, <2>3
<1>4. CASE SkippedTask
  BY <1>4, HeadIsSlot DEF SkippedTask
<1>5. CASE StartTask
  <2>1. /\ cur' \in Slots /\ tasks'[cur'].id # Free /\ tasks'[cur'].mode = "inline"
        /\ minVrt' \in 0 .. MaxVruntime
    BY <1>5, StartTaskStep
  <2>2. /\ pc' = "callback" /\ back' = "sweep" /\ start' = now /\ now' = now
        /\ order' = <<>>
    BY <1>5 DEF StartTask, Enter
  <2>3. cur' \in 0 .. NSlots + 1
    BY <2>1, SlotsAssumption DEF Slots
  <2>4. QED
    BY <2>1, <2>2, <2>3
<1>6. CASE IdlePass
  BY <1>6, SlotsAssumption DEF IdlePass
<1>7. CASE CallbackReturns
  BY <1>7, SlotsAssumption, TimeAssumption DEF CallbackReturns
<1>8. CASE SweepStep
  <2>1. /\ NextExpired \in Slots /\ tasks[NextExpired].id # Free
        /\ tasks[NextExpired].exec = NoExec
    BY <1>8, NextExpiredSlot DEF SweepStep
  <2>2. /\ NextExpired \in 0 .. NSlots + 1 /\ NextExpired + 1 \in 0 .. NSlots + 1
        /\ NextExpired + 1 # 0
    BY <2>1, SlotsAssumption DEF Slots
  <2>3. CASE tasks[NextExpired].fin
    <3>1. /\ tasks' = [tasks EXCEPT ![NextExpired].fin = FALSE]
          /\ pc' = "finalizer" /\ cur' = NextExpired /\ back' = "sweep"
      BY <1>8, <2>3 DEF SweepStep, Enter
    <3>2. /\ tasks'[NextExpired].id = tasks[NextExpired].id
          /\ tasks'[NextExpired].exec = tasks[NextExpired].exec
      BY <2>1, <3>1 DEF TableOK, TaskRec
    <3>3. QED
      BY <1>8, <2>1, <2>2, <3>1, <3>2 DEF SweepStep
  <2>4. CASE ~tasks[NextExpired].fin
    BY <1>8, <2>2, <2>4 DEF SweepStep
  <2>5. QED
    BY <2>3, <2>4
<1>9. CASE FinalizerReturns
  <2>1. cur + 1 \in 0 .. NSlots + 1 /\ cur + 1 # 0
    BY <1>9, SlotsAssumption DEF FinalizerReturns, Slots
  <2>2. QED
    BY <1>9, <2>1, SlotsAssumption DEF FinalizerReturns
<1>10. CASE EndOfPass
  BY <1>10, SlotsAssumption DEF EndOfPass
<1>11. QED
  BY Zenon, <1>1, <1>2, <1>3, <1>4, <1>5, <1>6, <1>7, <1>8, <1>9, <1>10 DEF HandleTasks

\* A new table satisfies the invariant.
LEMMA InitHolds == Init => IInv
<1> SUFFICES ASSUME Init PROVE IInv
  OBVIOUS
<1>1. \A s \in Slots : tasks[s] = Cleared([exec |-> NoExec])
  BY DEF Init
<1>2. Cleared([exec |-> NoExec]) \in TaskRec
  <2>1. [exec |-> NoExec].exec \in Execs \cup {NoExec}
    OBVIOUS
  <2>2. QED
    BY <2>1, ClearedType
<1>3. \A s \in Slots : /\ tasks[s].id = Free /\ tasks[s].exec = NoExec
                       /\ tasks[s].attempts = 0 /\ tasks[s].mode = "inline"
  BY <1>1 DEF Cleared
<1>4. tasks \in [Slots -> TaskRec] /\ lane \in [Execs -> LaneRec]
  BY <1>2 DEF Init, NoLane, LaneRec
<1>5. \A e \in Execs : lane[e].st = "none"
  BY DEF Init, NoLane
<1>6. Table!UniqueIds
  BY <1>3 DEF Table!UniqueIds, TableIds, Slots, Table!Slots, Free, Table!Free
<1>7. TableOK
  BY <1>3, <1>4, <1>5, <1>6
  DEF TableOK, RecordsAgree, ExecutivesOwned, NoTaskStranded, Live
<1>8. LoopOK
  BY TimeAssumption, SlotsAssumption, IdsAssumption
  DEF Init, LoopOK, CursorHolds, TaskIdSet
<1>9. QED
  BY <1>7, <1>8, Parts

\* Every step keeps the invariant.
LEMMA StepHolds == IInv /\ [Next]_vars => IInv'
<1> SUFFICES ASSUME IInv, [Next]_vars PROVE IInv'
  OBVIOUS
<1>1. TableOK /\ TableStep
  BY Parts, NextIsTableStep
<1>2. TableOK'
  BY <1>1, TableStepSound
<1>3. nextId' \in TaskIdSet
  BY <1>1, CursorOnRing
<1>4. LoopOK'
  <2>1. CASE HandleTasks
    BY <1>1, <1>3, <2>1, LoopMoves
  <2>2. CASE Api \/ LaneStep \/ Tick \/ UNCHANGED vars
    <3>1. HoldStep /\ UNCHANGED loopVars
      BY <1>1, <2>2, OutsideStep
    <3>2. now' \in 0 .. ClockMod - 1
      <4>1. now \in 0 .. ClockMod - 1
        BY DEF IInv, TypeOK
      <4>2. CASE Tick
        BY <4>1, <4>2, TimeAssumption DEF Tick
      <4>3. CASE now' = now
        BY <4>1, <4>3
      <4>4. QED
        BY Zenon, <2>2, <4>2, <4>3
        DEF Api, RegisterTask, UpdateInterval, RemoveTask, SetTaskFinalizer,
            SendSignal, SendSignalByName, RunUnderLane, DestroyLane,
            LaneStep, LaneFinishes, LaneExits, vars
    <3>3. QED
      BY <1>1, <1>3, <3>1, <3>2, LoopWaits
  <2>3. QED
    BY <2>1, <2>2 DEF Next
<1>5. QED
  BY <1>2, <1>4, Parts

\* The invariant holds in every reachable state.
THEOREM InvariantHolds == Spec => []IInv
  BY InitHolds, StepHolds, PTL DEF Spec

\* Records, cursor, executives and loop state keep their shapes, for every
\* table size and every set of callers' inputs (m_tasks and handle_tasks).
THEOREM TypeCorrect == Spec => []TypeOK
<1>1. IInv => TypeOK
  BY DEF IInv
<1>2. QED
  BY <1>1, InvariantHolds, PTL

\* No record points to a destroyed executive and no executive outlives its
\* task, for any number of executives: handle_tasks, exit() and
\* scheduleUnderExecSched keep m_task_exec and the executives in step.
THEOREM ExecutivesStayOwned == Spec => []ExecutivesOwned
<1>1. IInv => ExecutivesOwned
  BY DEF IInv
<1>2. QED
  BY <1>1, InvariantHolds, PTL

\* No lane task with runs left is ever without an executive, whatever fails
\* (scheduleUnderExecSched and its callers' error paths).
THEOREM NoneStranded == Spec => []NoTaskStranded
<1>1. IInv => NoTaskStranded
  BY DEF IInv
<1>2. QED
  BY <1>1, InvariantHolds, PTL

-----------------------------------------------------------------------------
(* The scheduler implements the table's promise *)

\* The names of the promise are the scheduler's.
LEMMA SameTable ==
    /\ Table!Slots = Slots /\ Table!Free = Free
    /\ Table!FreeSlots(TableIds) = FreeSlots(TableIds)
    /\ Table!FreeTries(TableIds, nextId) = FreeTries(TableIds, nextId)
    /\ Table!FirstFree(TableIds) = FirstFree(TableIds)
    /\ Table!NewId(TableIds, nextId) = NewId(TableIds, nextId)
    /\ Table!CursorAfter(TableIds, nextId) = CursorAfter(TableIds, nextId)
  BY DEF Slots, Table!Slots, Free, Table!Free, FreeSlots, Table!FreeSlots,
         FreeTries, Table!FreeTries, FirstFree, Table!FirstFree, NewId, Table!NewId,
         CursorAfter, Table!CursorAfter, FirstTry, Table!FirstTry,
         Candidate, Table!Candidate

\* Every step of the scheduler is a step of the table's promise, or leaves ids
\* and cursor alone.
LEMMA StepRefines == IInv /\ [Next]_vars => [Table!IdNext]_(Table!idVars)
<1> SUFFICES ASSUME IInv, [Next]_vars
             PROVE  Table!IdNext \/ UNCHANGED Table!idVars
  OBVIOUS
<1>1. TableOK /\ TableStep
  BY Parts, NextIsTableStep
<1>2. CASE /\ nextId' = nextId
           /\ \A s \in Slots : tasks'[s].id = tasks[s].id
  BY <1>2 DEF Table!idVars, TableIds
<1>3. ASSUME NEW s \in Slots, Released(s), nextId' = nextId
      PROVE  Table!IdNext
  <2>1. TableIds[s] # Free
    BY <1>3 DEF Released, TableIds
  <2>2. \A q \in Slots : tasks'[q].id = IF q = s THEN Free ELSE tasks[q].id
    BY <1>1, <1>3 DEF TableOK, Released, Cleared
  <2>3. TableIds' = [TableIds EXCEPT ![s] = Free]
    BY Zenon, <2>2 DEF TableIds
  <2>4. QED
    BY Zenon, <1>3, <2>1, <2>3, SameTable DEF Table!IdNext, Table!Release
<1>4. ASSUME NEW r \in TaskRec,
             FreeSlots(TableIds) # {}, FreeTries(TableIds, nextId) # {},
             Taken(FirstFree(TableIds), r), r.id = NewId(TableIds, nextId),
             nextId' = CursorAfter(TableIds, nextId)
      PROVE  Table!IdNext
  <2> DEFINE s == FirstFree(TableIds)
  <2>1. \A q \in Slots : tasks'[q].id = IF q = s THEN r.id ELSE tasks[q].id
    BY <1>1, <1>4 DEF TableOK, Taken
  <2> HIDE DEF s
  <2>2. TableIds' = [TableIds EXCEPT ![s] = r.id]
    BY Zenon, <2>1 DEF TableIds
  <2>3. QED
    BY <1>4, <2>2, SameTable DEF Table!IdNext, Table!Issue, s
<1>5. QED
  BY Zenon, <1>1, <1>2, <1>3, <1>4 DEF TableStep, HoldStep, Kept, Ended

\* The scheduler implements the table's promise (TaskIds), for every table
\* size: ids are issued to the first free slot, a task keeps its slot and id,
\* and only the sweep of remove_expired_tasks gives a slot back.
THEOREM Refines == Spec => ImplementsTaskIds
<1>1. Init => Table!IdInit
  BY SameTable DEF Init, Table!IdInit, TableIds, Cleared
<1>2. QED
  BY <1>1, StepRefines, InvariantHolds, PTL DEF Spec, ImplementsTaskIds, Table!IdSpec

-----------------------------------------------------------------------------
(* What a step may never do *)

\* Only the sweep, or the return of a finalizer, gives a slot back.
LEMMA OthersHold ==
    ASSUME IInv, TableOK, [Next]_vars, ~SweepStep, ~FinalizerReturns
    PROVE  HoldStep
<1>1. CASE BeginPass \/ EndOfList \/ EndOfPass
  <2>1. tasks' = tasks /\ lane' = lane /\ nextId' = nextId
    BY <1>1 DEF BeginPass, EndOfList, EndOfPass, apiVars
  <2>2. QED
    BY <2>1, NoneKept DEF HoldStep
<1>2. CASE LaneTask \/ SkippedTask \/ StartTask \/ IdlePass \/ CallbackReturns
  BY <1>2, LaneTaskStep, SkippedTaskStep, StartTaskStep, IdlePassStep,
     CallbackReturnsStep
<1>3. CASE Api \/ LaneStep \/ Tick \/ UNCHANGED vars
  BY <1>3, OutsideStep
<1>4. QED
  BY <1>1, <1>2, <1>3 DEF Next, HandleTasks

\* While a callback or a finalizer runs, its slot is neither released nor
\* reused, for every table size and whatever is called meanwhile: the record
\* handle_tasks holds by reference across the call is still the same task's.
THEOREM SlotStaysHeld == Spec => SlotHeld
<1>1. IInv /\ [Next]_vars =>
        [pc' = pc /\ pc \in {"callback", "finalizer"}
             => tasks'[cur].id = tasks[cur].id]_vars
  <2> SUFFICES ASSUME IInv, [Next]_vars, pc' = pc, pc \in {"callback", "finalizer"}
               PROVE  tasks'[cur].id = tasks[cur].id
    OBVIOUS
  <2>1. TableOK /\ cur \in Slots /\ tasks[cur].id # Free
    BY Parts DEF IInv, CursorHolds
  <2>2. ~SweepStep /\ ~FinalizerReturns
    BY DEF SweepStep, FinalizerReturns, IInv, TypeOK
  <2>3. QED
    BY <2>1, <2>2, OthersHold, HeldSlot
<1>2. QED
  BY <1>1, InvariantHolds, PTL DEF Spec, SlotHeld

\* A task's finalizer is never dropped with its record, whatever removes the
\* task: remove_expired_tasks and the reaping in handle_tasks run it first.
THEOREM FinalizersRun == Spec => FinalizerNotLost
<1>1. IInv /\ [Next]_vars =>
        [\A s \in Slots :
            tasks[s].id # Free /\ tasks'[s].id = Free
                => ~tasks[s].fin \/ (pc = "finalizer" /\ cur = s)]_vars
  <2> SUFFICES ASSUME IInv, [Next]_vars, NEW s \in Slots,
                      tasks[s].id # Free, tasks'[s].id = Free
               PROVE  ~tasks[s].fin \/ (pc = "finalizer" /\ cur = s)
    OBVIOUS
  <2>1. TableOK
    BY Parts
  <2>2. SweepStep \/ FinalizerReturns
    BY <2>1, OthersHold, HeldSlot
  <2>3. CASE SweepStep
    <3>1. NextExpired \in Slots
      BY <2>3, NextExpiredSlot DEF SweepStep
    <3>2. CASE tasks[NextExpired].fin
      <4>1. tasks' = [tasks EXCEPT ![NextExpired].fin = FALSE]
        BY <2>3, <3>2 DEF SweepStep
      <4>2. tasks'[s].id = tasks[s].id
        BY <2>1, <3>1, <4>1 DEF TableOK, TaskRec
      <4>3. QED
        BY <4>2
    <3>3. CASE ~tasks[NextExpired].fin
      <4>1. tasks' = [tasks EXCEPT ![NextExpired] = Cleared(tasks[NextExpired])]
        BY <2>3, <3>3 DEF SweepStep, ReleaseSlot
      <4>2. s # NextExpired => tasks'[s] = tasks[s]
        BY <2>1, <4>1 DEF TableOK
      <4>3. QED
        BY <3>3, <4>2
    <3>4. QED
      BY <3>2, <3>3
  <2>4. CASE FinalizerReturns
    <3>1. pc = "finalizer" /\ (tasks' = tasks \/ ReleaseSlot(cur))
      BY <2>4 DEF FinalizerReturns
    <3>2. s # cur => tasks'[s] = tasks[s]
      BY <2>1, <3>1 DEF ReleaseSlot, TableOK
    <3>3. QED
      BY <3>1, <3>2
  <2>5. QED
    BY <2>2, <2>3, <2>4
<1>2. QED
  BY <1>1, InvariantHolds, PTL DEF Spec, FinalizerNotLost

\* No rewriting of a record makes it a running one.
LEMMA NotMadeRunning ==
    ASSUME NEW t \in TaskRec
    PROVE  /\ Cleared(t).state # "RUNNING"
           /\ Removed(t).state # "RUNNING"
           /\ \A id, d, l, a : Registered(t, id, d, l, a).state # "RUNNING"
           /\ \A c \in Charges : AfterRun(t, c).state # "RUNNING"
           /\ \A d, l, a : Updated(t, d, l, a).state = t.state
           /\ Signalled(t).state = "RUNNING" => t.state = "RUNNING"
           /\ LaneSignalled(t).state = "RUNNING" => t.state = "RUNNING"
<1>1. Cleared(t).state # "RUNNING"
  BY DEF Cleared
<1>2. Removed(t).state # "RUNNING"
  BY DEF Removed, TaskRec
<1>3. \A id, d, l, a : Registered(t, id, d, l, a).state # "RUNNING"
  BY DEF Registered, TaskRec
<1>4. ASSUME NEW c \in Charges
      PROVE  AfterRun(t, c).state # "RUNNING"
  BY DEF AfterRun, TaskRec
<1>5. \A d, l, a : Updated(t, d, l, a).state = t.state
  BY DEF Updated, TaskRec
<1>6. Signalled(t).state = "RUNNING" => t.state = "RUNNING"
  BY DEF Signalled, TaskRec
<1>7. LaneSignalled(t).state = "RUNNING" => t.state = "RUNNING"
  BY DEF LaneSignalled, TaskRec
<1>8. QED
  BY <1>1, <1>2, <1>3, <1>4, <1>5, <1>6, <1>7

\* remove_task makes no record a running one.
LEMMA RemoveIdNotRunning ==
    ASSUME NEW tbl \in [Slots -> TaskRec], NEW id, NEW s \in Slots,
           RemoveId(tbl, id)[s].state = "RUNNING"
    PROVE  tbl[s].state = "RUNNING"
<1>1. RemoveId(tbl, id)[s] = Removed(tbl[s]) \/ RemoveId(tbl, id)[s] = tbl[s]
  BY DEF RemoveId
<1>2. QED
  BY Zenon, <1>1, NotMadeRunning

\* Only StartTask sets a record running.
LEMMA OnlyStartRuns ==
    ASSUME IInv, TableOK, [Next]_vars, ~StartTask, NEW s \in Slots,
           tasks'[s].state = "RUNNING"
    PROVE  tasks[s].state = "RUNNING"
<1>0. tasks \in [Slots -> TaskRec] /\ tasks[s] \in TaskRec
  BY DEF TableOK
<1>1. CASE tasks' = tasks
  BY <1>1
<1>2. ASSUME NEW q \in Slots, NEW r, tasks' = [tasks EXCEPT ![q] = r],
             r.state = "RUNNING" => tasks[q].state = "RUNNING"
      PROVE  tasks[s].state = "RUNNING"
  BY <1>0, <1>2
<1>3. ASSUME NEW id, tasks' = RemoveId(tasks, id)
      PROVE  tasks[s].state = "RUNNING"
  BY <1>0, <1>3, RemoveIdNotRunning
<1>4. CASE Tick \/ BeginPass \/ EndOfList \/ EndOfPass \/ UNCHANGED vars
           \/ \E e \in Execs : LaneFinishes(e)
  BY <1>1, <1>4
  DEF Tick, BeginPass, EndOfList, EndOfPass, vars, apiVars, LaneFinishes
<1>5. CASE LaneTask
  <2> DEFINE h == Head(order)
             signalled == [tasks EXCEPT ![h] = LaneSignalled(tasks[h])]
             reaped == RemoveId(signalled, lane[tasks[h].exec].tid)
  <2>1. h \in Slots /\ tasks[h] \in TaskRec
    BY Zenon, <1>0, <1>5, HeadIsSlot DEF LaneTask
  <2>2. LaneSignalled(tasks[h]) \in TaskRec
    BY <2>1, SignalledType
  <2>3. /\ signalled \in [Slots -> TaskRec]
        /\ \A q \in Slots : signalled[q] = IF q = h THEN LaneSignalled(tasks[h])
                                                    ELSE tasks[q]
    BY <1>0, <2>1, <2>2
  <2>4. signalled[s].state = "RUNNING" => tasks[s].state = "RUNNING"
    BY Zenon, <2>1, <2>3, NotMadeRunning
  <2>5. tasks' = signalled \/ tasks' = [reaped EXCEPT ![h].fin = FALSE]
    BY Zenon, <1>5 DEF LaneTask
  <2>6. reaped \in [Slots -> TaskRec]
    BY <2>3, RemovedType DEF RemoveId
  <2>7. CASE tasks' = [reaped EXCEPT ![h].fin = FALSE]
    <3> HIDE DEF reaped
    <3>1. tasks'[s].state = reaped[s].state
      BY <2>1, <2>6, <2>7 DEF TaskRec
    <3>2. reaped[s].state = "RUNNING" => signalled[s].state = "RUNNING"
      BY Zenon, <2>3, RemoveIdNotRunning DEF reaped
    <3>3. QED
      BY <2>4, <3>1, <3>2
  <2> HIDE DEF signalled, reaped
  <2>8. QED
    BY <2>4, <2>5, <2>7
<1>6. CASE SkippedTask
  <2>1. Head(order) \in Slots
    BY <1>6, HeadIsSlot DEF SkippedTask
  <2>2. tasks[Head(order)] \in TaskRec
    BY <1>0, <2>1
  <2>3. \/ tasks' = tasks
        \/ tasks' = [tasks EXCEPT ![Head(order)] = Signalled(tasks[Head(order)])]
    BY <1>6 DEF SkippedTask
  <2>4. QED
    BY <1>2, <2>1, <2>2, <2>3, NotMadeRunning
<1>7. CASE IdlePass
  <2>1. PICK q \in Slots : tasks' = [tasks EXCEPT ![q] = Rewound(Signalled(tasks[q]))]
    BY Zenon, <1>7 DEF IdlePass
  <2>2. tasks[q] \in TaskRec /\ Signalled(tasks[q]) \in TaskRec
    BY <1>0, SignalledType
  <2>3. Rewound(Signalled(tasks[q])).state = Signalled(tasks[q]).state
    BY <2>2 DEF Rewound, TaskRec
  <2>4. QED
    BY <1>2, <2>1, <2>2, <2>3, NotMadeRunning
<1>8. CASE CallbackReturns
  <2>1. PICK c \in Charges : tasks' = [tasks EXCEPT ![cur] = AfterRun(tasks[cur], c)]
    BY Zenon, <1>8 DEF CallbackReturns
  <2>2. cur \in Slots
    BY <1>8 DEF CallbackReturns, IInv, CursorHolds
  <2>3. AfterRun(tasks[cur], c).state # "RUNNING"
    BY Zenon, <1>0, <2>2, NotMadeRunning
  <2>4. QED
    BY <1>2, <2>1, <2>2, <2>3
<1>9. CASE SweepStep \/ FinalizerReturns
  <2>1. ASSUME NEW q \in Slots, ReleaseSlot(q)
        PROVE  tasks[s].state = "RUNNING"
    <3>1. Cleared(tasks[q]).state # "RUNNING"
      BY Zenon, <1>0, NotMadeRunning
    <3>2. QED
      BY <1>2, <2>1, <3>1 DEF ReleaseSlot
  <2>2. ASSUME NEW q \in Slots, tasks' = [tasks EXCEPT ![q].fin = FALSE]
        PROVE  tasks[s].state = "RUNNING"
    <3>1. [tasks[q] EXCEPT !.fin = FALSE].state = tasks[q].state
      BY <1>0 DEF TaskRec
    <3>2. QED
      BY <1>2, <2>2, <3>1
  <2>3. CASE SweepStep
    <3>1. NextExpired \in Slots
      BY <2>3, NextExpiredSlot DEF SweepStep
    <3>2. QED
      BY <2>1, <2>2, <2>3, <3>1 DEF SweepStep
  <2>4. CASE FinalizerReturns
    <3>1. cur \in Slots
      BY <2>4 DEF FinalizerReturns, IInv, CursorHolds
    <3>2. QED
      BY <1>1, <2>1, <2>4, <3>1 DEF FinalizerReturns
  <2>5. QED
    BY <1>9, <2>3, <2>4
<1>10. CASE RemoveTask \/ DestroyLane \/ \E e \in Execs : LaneExits(e)
  BY <1>3, <1>10 DEF RemoveTask, DestroyLane, LaneExits
<1>11. CASE RegisterTask
  <2>1. PICK d \in Durations, l \in Stamps, a \in Attempts : Registers(d, l, a)
    BY Zenon, <1>11 DEF RegisterTask
  <2> DEFINE q == FirstFree(TableIds)
             r == Registered(tasks[q], NewId(TableIds, nextId), d, l, a)
  <2>2. q \in Slots
    BY Zenon, <2>1, FirstFreeIsFree DEF Registers
  <2>3. tasks' = [tasks EXCEPT ![q] = r]
    BY <2>1 DEF Registers
  <2>4. r.state # "RUNNING"
    BY <1>0, <2>2 DEF Registered, TaskRec
  <2>5. QED
    BY <1>2, <2>2, <2>3, <2>4
<1>12. CASE RunUnderLane
  <2> DEFINE q == FirstFree(TableIds)
             id == NewId(TableIds, nextId)
             reg == Registered(tasks[q], id, 1, 0, -1)
             t == [reg EXCEPT !.mode = "lane"]
  <2>1. q \in Slots /\ tasks[q] \in TaskRec
    BY Zenon, <1>0, <1>12, FirstFreeIsFree DEF RunUnderLane
  <2>2. id \in TaskIdSet /\ minVrt \in 0 .. MaxVruntime
    BY Zenon, <1>12, SlotAndId DEF RunUnderLane, IInv, TypeOK
  <2>3. reg \in TaskRec /\ reg.state # "RUNNING"
    <3>1. 1 \in Durations \cup {1} /\ 0 \in Nat /\ -1 \in Int
      OBVIOUS
    <3>2. reg \in TaskRec
      BY Zenon, <2>1, <2>2, <3>1, RegisteredType
    <3>3. reg.state # "RUNNING"
      BY <2>1 DEF Registered, TaskRec
    <3>4. QED
      BY <3>2, <3>3
  <2>4. \/ \E e \in Execs, program \in BOOLEAN :
              tasks' = [tasks EXCEPT ![q] = [t EXCEPT !.exec = e, !.fin = program,
                                                      !.stoppable = ~program]]
        \/ tasks' = RemoveId([tasks EXCEPT ![q] = t], id)
    BY Zenon, <1>12 DEF RunUnderLane, PromotionFailed
  <2> HIDE DEF q, id, reg
  <2>5. t \in TaskRec /\ t.state # "RUNNING"
    BY <2>3 DEF TaskRec
  <2> HIDE DEF t
  <2>6. ASSUME NEW e \in Execs, NEW program \in BOOLEAN,
               tasks' = [tasks EXCEPT ![q] = [t EXCEPT !.exec = e, !.fin = program,
                                                       !.stoppable = ~program]]
        PROVE  tasks[s].state = "RUNNING"
    <3>1. [t EXCEPT !.exec = e, !.fin = program, !.stoppable = ~program].state
              # "RUNNING"
      BY <2>5 DEF TaskRec
    <3>2. QED
      BY <1>2, <2>1, <2>6, <3>1
  <2>7. CASE tasks' = RemoveId([tasks EXCEPT ![q] = t], id)
    <3>1. [tasks EXCEPT ![q] = t] \in [Slots -> TaskRec]
      BY Zenon, <1>0, <2>5
    <3>2. [tasks EXCEPT ![q] = t][s].state = "RUNNING"
      BY Zenon, <2>7, <3>1, RemoveIdNotRunning
    <3>3. QED
      BY <1>0, <2>1, <2>5, <3>2
  <2>8. QED
    BY Zenon, <2>4, <2>6, <2>7
<1>13. CASE UpdateInterval
  <2>1. PICK q \in Live, d \in Durations, l \in Stamps, a \in Attempts :
            tasks' = [tasks EXCEPT ![q] = Updated(tasks[q], d, l, a)]
    BY Zenon, <1>13 DEF UpdateInterval
  <2>2. q \in Slots /\ Updated(tasks[q], d, l, a).state = tasks[q].state
    BY <1>0 DEF Live, Updated, TaskRec
  <2>3. QED
    BY <1>2, <2>1, <2>2
<1>14. CASE SetTaskFinalizer \/ SendSignal
  <2>1. PICK q \in Live : \/ \E b \in Finalizers : tasks' = [tasks EXCEPT ![q].fin = b]
                          \/ \E sig \in Signals : tasks' = [tasks EXCEPT ![q].sig = sig]
    BY <1>14 DEF SetTaskFinalizer, SendSignal
  <2>2. q \in Slots /\ tasks[q] \in TaskRec
    BY <1>0 DEF Live
  <2>3. QED
    BY <1>0, <2>1, <2>2 DEF TaskRec
<1>15. CASE SendSignalByName
  <2>1. PICK S \in SUBSET Live, sig \in Signals :
            tasks' = [q \in Slots |-> IF q \in S THEN [tasks[q] EXCEPT !.sig = sig]
                                                 ELSE tasks[q]]
    BY Zenon, <1>15 DEF SendSignalByName
  <2>2. tasks'[s].state = tasks[s].state
    BY <1>0, <2>1 DEF TaskRec
  <2>3. QED
    BY <2>2
<1>16. QED
  BY <1>4, <1>5, <1>6, <1>7, <1>8, <1>9, <1>10, <1>11, <1>12, <1>13, <1>14, <1>15
  DEF Next, HandleTasks, Api, LaneStep

\* A KILL, TERM or STOP that arrived before a task's turn is obeyed before its
\* callback can start, and a stopped task does not start (handle_tasks).
THEOREM SignalsObeyed == Spec => SignalBeforeRun
<1>1. IInv /\ [Next]_vars =>
        [\A s \in Slots :
            tasks'[s].state = "RUNNING" /\ tasks[s].state # "RUNNING"
                => /\ tasks[s].sig \notin {"KILL", "STOP"}
                   /\ tasks[s].state = "STOPPED" => tasks[s].sig = "CONT"]_vars
  <2> SUFFICES ASSUME IInv, [Next]_vars, NEW s \in Slots,
                      tasks'[s].state = "RUNNING", tasks[s].state # "RUNNING"
               PROVE  /\ tasks[s].sig \notin {"KILL", "STOP"}
                      /\ tasks[s].state = "STOPPED" => tasks[s].sig = "CONT"
    OBVIOUS
  <2>1. TableOK /\ tasks[s] \in TaskRec
    BY Parts DEF TableOK
  <2>2. StartTask
    BY <2>1, OnlyStartRuns
  <2>3. PICK q \in Slots : \E t \in {Rewound(Signalled(tasks[q]))} :
            /\ Considered(q, t)
            /\ tasks' = [tasks EXCEPT ![q] = [t EXCEPT !.state = "RUNNING"]]
    BY Zenon, <2>2 DEF StartTask
  <2>4. q = s
    BY <2>1, <2>3 DEF TableOK
  <2>5. /\ tasks[s].sig # "KILL"
        /\ Rewound(Signalled(tasks[s])).state # "STOPPED"
    BY <2>3, <2>4 DEF Considered
  <2>6. Signalled(tasks[s]) \in TaskRec
    BY <2>1, SignalledType
  <2>7. Rewound(Signalled(tasks[s])).state = Signalled(tasks[s]).state
    BY <2>6 DEF Rewound, TaskRec
  <2>8. /\ tasks[s].sig = "STOP" => Signalled(tasks[s]).state = "STOPPED"
        /\ tasks[s].state = "STOPPED" /\ tasks[s].sig \notin {"KILL", "STOP", "CONT"}
              => Signalled(tasks[s]).state = "STOPPED"
    BY <2>1 DEF Signalled, TaskRec
  <2>9. QED
    BY <2>5, <2>7, <2>8
<1>2. QED
  BY <1>1, InvariantHolds, PTL DEF Spec, SignalBeforeRun
=============================================================================
