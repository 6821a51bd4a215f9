--------------------------- MODULE TaskIdsProofs ---------------------------
(***************************************************************************)
(* The searches of the task table (TaskTable), and the promises of the     *)
(* table (TaskIds) in every reachable state, for every table size and      *)
(* every id ring longer than the table.  The proofs about the scheduler    *)
(* and about the services rest on the same lemmas.                         *)
(***************************************************************************)
EXTENDS TaskIds, FiniteSets, FiniteSetTheorems, WellFoundedInduction, TLAPS

\* A set of natural numbers that is not empty has a least member; the searches
\* for a slot and for an id stop at one.
LEMMA LeastNat ==
    ASSUME NEW S, S \subseteq Nat, S # {}
    PROVE  \E n \in S : \A m \in S : n <= m
<1> DEFINE R == {ss \in Nat \X Nat : ss[1] < ss[2]}
<1>1. IsWellFoundedOn(R, Nat)
  BY NatLessThanWellFounded DEF OpToRel
<1> HIDE DEF R
<1>2. PICK n \in S : \A m \in S : ~(<<m, n>> \in R)
  BY <1>1, WFMin
<1>3. ASSUME NEW m \in S
      PROVE  n <= m
  <2>1. m \in Nat /\ n \in Nat
    OBVIOUS
  <2>2. CASE m < n
    <3>1. <<m, n>> \in R
      BY <2>1, <2>2 DEF R
    <3>2. QED
      BY <3>1, <1>2
  <2>3. QED
    BY <2>1, <2>2
<1>4. QED
  BY <1>3

-----------------------------------------------------------------------------
(* The searches *)

\* Two tries of one search never look at the same id: the ring is longer than
\* the search.
LEMMA CandidatesDiffer ==
    ASSUME NEW n \in TaskIdSet, NEW j \in 0 .. NSlots, NEW k \in 0 .. NSlots, j # k
    PROVE  Candidate(n, j) # Candidate(n, k)
  BY SlotsAssumption, IdsAssumption DEF Candidate, TaskIdSet

\* Every id tried, and the cursor left behind, is on the ring.
LEMMA CandidateInRing ==
    ASSUME NEW n \in TaskIdSet, NEW k \in 0 .. NSlots + 1
    PROVE  Candidate(n, k) \in TaskIdSet
  BY SlotsAssumption, IdsAssumption DEF Candidate, TaskIdSet

\* get_unique_task_id cannot come back empty-handed: it tries one id more than
\* there are slots, all different, so one of them is in no slot.
LEMMA SomeTryFree ==
    ASSUME NEW tbl \in [Slots -> TaskIdSet \cup {Free}], NEW n \in TaskIdSet
    PROVE  FreeTries(tbl, n) # {}
<1>1. SUFFICES ASSUME FreeTries(tbl, n) = {}
               PROVE  FALSE
  OBVIOUS
<1> DEFINE f == [k \in 0 .. NSlots |->
                    CHOOSE s \in Slots : tbl[s] = Candidate(n, k)]
<1>2. \A k \in 0 .. NSlots : \E s \in Slots : tbl[s] = Candidate(n, k)
  BY <1>1 DEF FreeTries
<1>3. \A k \in 0 .. NSlots : f[k] \in Slots /\ tbl[f[k]] = Candidate(n, k)
  BY <1>2
<1>4. f \in [0 .. NSlots -> Slots]
  BY <1>3
<1>5. /\ IsFiniteSet(0 .. NSlots) /\ Cardinality(0 .. NSlots) = NSlots + 1
      /\ IsFiniteSet(Slots) /\ Cardinality(Slots) = NSlots
  <2>1. NSlots \in Int /\ 0 \in Int /\ 1 \in Int /\ ~(0 > NSlots) /\ ~(1 > NSlots)
    BY SlotsAssumption
  <2>2. NSlots - 0 + 1 = NSlots + 1 /\ NSlots - 1 + 1 = NSlots
    BY <2>1
  <2>3. QED
    BY <2>1, <2>2, FS_Interval DEF Slots
<1>6. Cardinality(Slots) < Cardinality(0 .. NSlots)
  BY <1>5, SlotsAssumption
<1>7. PICK j \in 0 .. NSlots, k \in 0 .. NSlots : j # k /\ f[j] = f[k]
  <2> DEFINE T == 0 .. NSlots
  <2>1. /\ IsFiniteSet(T) /\ IsFiniteSet(Slots)
        /\ Cardinality(Slots) < Cardinality(T) /\ f \in [T -> Slots]
    BY <1>4, <1>5, <1>6
  <2> HIDE DEF f, T
  <2>2. \E x, y \in T : x # y /\ f[x] = f[y]
    BY <2>1, FS_PigeonHole
  <2>3. QED
    BY <2>2 DEF T
<1>8. Candidate(n, j) = Candidate(n, k)
  BY <1>3, <1>7
<1>9. QED
  BY <1>7, <1>8, CandidatesDiffer

\* The id found is on the ring and in no slot; so is the cursor on the ring.
LEMMA NewIdFresh ==
    ASSUME NEW tbl \in [Slots -> TaskIdSet \cup {Free}], NEW n \in TaskIdSet
    PROVE  /\ NewId(tbl, n) \in TaskIdSet
           /\ \A s \in Slots : tbl[s] # NewId(tbl, n)
           /\ CursorAfter(tbl, n) \in TaskIdSet
<1>1. FreeTries(tbl, n) # {} /\ FreeTries(tbl, n) \subseteq Nat
  BY SomeTryFree DEF FreeTries
<1>2. \E k \in FreeTries(tbl, n) : \A j \in FreeTries(tbl, n) : k <= j
  BY <1>1, LeastNat
<1>3. FirstTry(tbl, n) \in FreeTries(tbl, n)
  BY <1>2 DEF FirstTry
<1>4. /\ FirstTry(tbl, n) \in 0 .. NSlots
      /\ \A s \in Slots : tbl[s] # Candidate(n, FirstTry(tbl, n))
  BY <1>3 DEF FreeTries
<1>5. /\ FirstTry(tbl, n) \in 0 .. NSlots + 1
      /\ FirstTry(tbl, n) + 1 \in 0 .. NSlots + 1
  BY <1>4, SlotsAssumption
<1>6. QED
  BY <1>4, <1>5, CandidateInRing DEF NewId, CursorAfter

\* register_task's slot, when there is one, is a free slot of the table.
LEMMA FirstFreeIsFree ==
    ASSUME NEW tbl, FreeSlots(tbl) # {}
    PROVE  FirstFree(tbl) \in Slots /\ tbl[FirstFree(tbl)] = Free
<1>1. FreeSlots(tbl) \subseteq Nat
  BY SlotsAssumption DEF FreeSlots, Slots
<1>2. \E s \in FreeSlots(tbl) : \A r \in FreeSlots(tbl) : s <= r
  BY <1>1, LeastNat
<1>3. FirstFree(tbl) \in FreeSlots(tbl)
  BY <1>2 DEF FirstFree
<1>4. QED
  BY <1>3 DEF FreeSlots

-----------------------------------------------------------------------------
(* The promises of the table *)

\* The table is well typed in every reachable state, for every table size and
\* every longer ring of ids: register_task and the removal sweep keep it so.
THEOREM IdTypeCorrect == IdSpec => []IdTypeOK
<1>1. IdInit => IdTypeOK
  BY SlotsAssumption, IdsAssumption DEF IdInit, IdTypeOK, TaskIdSet
<1>2. IdTypeOK /\ [IdNext]_idVars => IdTypeOK'
  <2> SUFFICES ASSUME IdTypeOK, [IdNext]_idVars
               PROVE  IdTypeOK'
    OBVIOUS
  <2>1. CASE Issue
    <3>1. NewId(ids, cursor) \in TaskIdSet /\ CursorAfter(ids, cursor) \in TaskIdSet
      BY NewIdFresh DEF IdTypeOK
    <3>2. QED
      BY <2>1, <3>1 DEF Issue, IdTypeOK
  <2>2. ASSUME NEW s \in Slots, Release(s)
        PROVE  IdTypeOK'
    BY <2>2 DEF Release, IdTypeOK
  <2>3. CASE UNCHANGED idVars
    BY <2>3 DEF idVars, IdTypeOK
  <2>4. QED
    BY <2>1, <2>2, <2>3 DEF IdNext
<1>3. QED
  BY <1>1, <1>2, PTL DEF IdSpec

\* No two live tasks ever share an id, for every table size: the id that
\* get_unique_task_id hands out is in no slot.
THEOREM IdsStayUnique == IdSpec => []UniqueIds
<1>1. IdInit => UniqueIds
  BY DEF IdInit, UniqueIds
<1>2. IdTypeOK /\ UniqueIds /\ [IdNext]_idVars => UniqueIds'
  <2> SUFFICES ASSUME IdTypeOK, UniqueIds, [IdNext]_idVars
               PROVE  UniqueIds'
    OBVIOUS
  <2>1. CASE Issue
    <3>1. \A s \in Slots : ids[s] # NewId(ids, cursor)
      BY NewIdFresh DEF IdTypeOK
    <3>2. FirstFree(ids) \in Slots
      BY <2>1, FirstFreeIsFree DEF Issue
    <3>3. QED
      BY <2>1, <3>1, <3>2 DEF Issue, IdTypeOK, UniqueIds
  <2>2. ASSUME NEW s \in Slots, Release(s)
        PROVE  UniqueIds'
    BY <2>2 DEF Release, IdTypeOK, UniqueIds
  <2>3. CASE UNCHANGED idVars
    BY <2>3 DEF idVars, UniqueIds
  <2>4. QED
    BY <2>1, <2>2, <2>3 DEF IdNext
<1>3. QED
  BY <1>1, <1>2, IdTypeCorrect, PTL DEF IdSpec

\* get_unique_task_id never runs out of tries: register_task fails only when
\* the table is full, whatever the table's size.
THEOREM SearchNeverFails == IdSpec => []SearchSucceeds
<1>1. IdTypeOK => SearchSucceeds
  BY SomeTryFree DEF IdTypeOK, SearchSucceeds
<1>2. QED
  BY <1>1, IdTypeCorrect, PTL
=============================================================================
