--------------------------- MODULE JobTableProofs ---------------------------
(***************************************************************************)
(* Proofs that the job table keeps its safety invariants for every set of  *)
(* jobs and every growth step, and that it implements JobNumbers.          *)
(***************************************************************************)
EXTENDS JobTable, FiniteSetTheorems, WellFoundedInduction, TLAPS

USE CapacityAssumption, NullAssumption

\* The array is never shorter than when it was created.
NeverShrinks == INITIAL_JOB_TABLE_CAPACITY <= job_table_capacity

\* The inductive invariant: no part of it is inductive on its own, since
\* add_job trusts the count to know whether the array has room.
TableInv ==
    /\ TableTypeOK
    /\ IdIsPosition
    /\ NoDanglingSlot
    /\ SizeIsCount
    /\ NeverShrinks

-----------------------------------------------------------------------------
(* Lemmas about the helpers of add_job.                                    *)

\* The occupied slots form a finite set, so their number is a natural.
LEMMA OccupiedFinite ==
    ASSUME TableTypeOK
    PROVE  /\ IsFiniteSet(Occupied)
           /\ Cardinality(Occupied) \in Nat
           /\ Cardinality(Occupied) <= job_table_capacity
           /\ Cardinality(Occupied) = job_table_capacity
                 => Occupied = 1 .. job_table_capacity
<1>1. Occupied \subseteq 1 .. job_table_capacity
  BY DEF Occupied, TableTypeOK
<1>2. /\ IsFiniteSet(1 .. job_table_capacity)
      /\ Cardinality(1 .. job_table_capacity) = job_table_capacity
  BY FS_Interval DEF TableTypeOK
<1> QED
  BY <1>1, <1>2, FS_Subset, FS_CardinalityType DEF TableTypeOK

\* A non-empty set of positive numbers has a least element.
LEMMA LeastElement ==
    ASSUME NEW S \in SUBSET (Nat \ {0}), S # {}
    PROVE  \E m \in S : \A k \in S : m <= k
<1> DEFINE Below == {1 .. k : k \in S}
           R == StrictSubsetOrdering(Nat)
<1>1. Below \subseteq FiniteSubsetsOf(Nat)
  BY FS_Interval DEF FiniteSubsetsOf
<1>2. PICK x \in Below : \A y \in Below : <<y, x>> \notin R
  <2>1. Below # {}
    OBVIOUS
  <2>2. IsWellFoundedOn(R, FiniteSubsetsOf(Nat))
    BY FS_StrictSubsetOrderingWellFounded
  <2> HIDE DEF R, Below
  <2> QED
    BY <1>1, <2>1, <2>2, WFMin
<1>3. PICK m \in S : x = 1 .. m
  OBVIOUS
<1>4. ASSUME NEW k \in S, k < m
      PROVE  FALSE
  <2>1. 1 .. k \subseteq 1 .. m /\ m \in (1 .. m) \ (1 .. k)
    BY <1>4
  <2>2. <<1 .. k, 1 .. m>> \in R
    BY <2>1, <1>1 DEF StrictSubsetOrdering
  <2> QED
    BY <1>2, <1>3, <2>2
<1> QED
  BY <1>4

\* When some slot is free, FirstFree returns the first one.
LEMMA FirstFreeIsFree ==
    ASSUME NEW cap \in Nat, NEW table \in [1 .. cap -> Jobs \cup {NULL}]
    PROVE  \/ FirstFree(table) = 0 /\ \A i \in 1 .. cap : table[i] # NULL
           \/ /\ FirstFree(table) \in 1 .. cap
              /\ table[FirstFree(table)] = NULL
              /\ \A k \in 1 .. FirstFree(table) - 1 : table[k] # NULL
<1> DEFINE Free == {i \in 1 .. cap : table[i] = NULL}
<1>1. CASE \A i \in 1 .. cap : table[i] # NULL
  BY <1>1 DEF FirstFree
<1>2. CASE ~ \A i \in 1 .. cap : table[i] # NULL
  <2>1. Free \in SUBSET (Nat \ {0}) /\ Free # {}
    BY <1>2
  <2>2. PICK m \in Free : \A k \in Free : m <= k
    BY <2>1, LeastElement
  <2>3. /\ m \in DOMAIN table
        /\ table[m] = NULL
        /\ \A k \in 1 .. m - 1 : table[k] # NULL
    BY <2>2
  <2> QED
    BY <1>2, <2>3 DEF FirstFree
<1> QED
  BY <1>1, <1>2

\* The growth keeps the occupied slots and leaves at least one slot free.
LEMMA GrowthLeavesRoom ==
    ASSUME TableInv
    PROVE  /\ GrownCapacity \in Nat \ {0}
           /\ job_table_capacity <= GrownCapacity
           /\ GrownTable \in [1 .. GrownCapacity -> Jobs \cup {NULL}]
           /\ Occupied = {i \in 1 .. GrownCapacity : GrownTable[i] # NULL}
           /\ \A i \in Occupied : GrownTable[i] = job_table[i]
           /\ FirstFree(GrownTable) \in 1 .. GrownCapacity
           /\ GrownTable[FirstFree(GrownTable)] = NULL
           /\ \A k \in 1 .. FirstFree(GrownTable) - 1 : GrownTable[k] # NULL
<1> USE DEF TableInv
<1>1. /\ GrownCapacity \in Nat \ {0}
      /\ job_table_capacity <= GrownCapacity
  BY DEF GrownCapacity, TableTypeOK
<1>2. GrownTable \in [1 .. GrownCapacity -> Jobs \cup {NULL}]
  BY <1>1 DEF GrownTable, GrownCapacity, IsFull, TableTypeOK
<1>3. /\ Occupied = {i \in 1 .. GrownCapacity : GrownTable[i] # NULL}
      /\ \A i \in Occupied : GrownTable[i] = job_table[i]
  BY <1>1 DEF GrownTable, GrownCapacity, IsFull, Occupied, TableTypeOK
<1>4. \E i \in 1 .. GrownCapacity : GrownTable[i] = NULL
  <2>1. CASE IsFull
    <3>1. GrownCapacity \in 1 .. GrownCapacity /\ GrownTable[GrownCapacity] = NULL
      BY <2>1 DEF GrownTable, GrownCapacity, IsFull, TableTypeOK
    <3> QED
      BY <3>1
  <2>2. CASE ~ IsFull
    <3>1. Occupied # 1 .. job_table_capacity
      <4>1. Cardinality(1 .. job_table_capacity) = job_table_capacity
        BY FS_Interval DEF TableTypeOK
      <4> QED
        BY <2>2, <4>1 DEF SizeIsCount, IsFull
    <3> QED
      BY <1>3, <2>2, <3>1 DEF GrownCapacity, IsFull, TableTypeOK, Occupied
  <2> QED
    BY <2>1, <2>2
<1> QED
  BY <1>1, <1>2, <1>3, <1>4, FirstFreeIsFree

-----------------------------------------------------------------------------
(* The invariant.                                                          *)

LEMMA TableInvInit == TableInit => TableInv
<1> SUFFICES ASSUME TableInit PROVE TableInv
  OBVIOUS
<1>1. Occupied = {}
  BY DEF TableInit, EmptySlots, Occupied
<1>2. TableTypeOK
  BY DEF TableInit, EmptySlots, TableTypeOK
<1> QED
  BY <1>1, <1>2, FS_EmptySet
     DEF TableInv, TableInit, IdIsPosition, NoDanglingSlot, ListedJobs, SizeIsCount,
         NeverShrinks

LEMMA AddJobKeepsInv ==
    ASSUME TableInv, NEW j \in Jobs, add_job(j)
    PROVE  TableInv'
<1> DEFINE slot == FirstFree(GrownTable)
<1>1. /\ slot \in 1 .. GrownCapacity
      /\ GrownCapacity \in Nat \ {0}
      /\ GrownTable \in [1 .. GrownCapacity -> Jobs \cup {NULL}]
      /\ Occupied = {i \in 1 .. GrownCapacity : GrownTable[i] # NULL}
      /\ \A i \in Occupied : GrownTable[i] = job_table[i]
      /\ GrownTable[slot] = NULL
  BY GrowthLeavesRoom
<1>2. /\ job_table_capacity' = GrownCapacity
      /\ job_table' = [GrownTable EXCEPT ![slot] = j]
      /\ job_table_size' = job_table_size + 1
      /\ job_id' = [job_id EXCEPT ![j] = slot]
      /\ heap' = heap
      /\ j \in heap \ ListedJobs
  BY <1>1 DEF add_job
<1>3. Occupied' = Occupied \cup {slot} /\ slot \notin Occupied
  BY <1>1, <1>2 DEF Occupied
<1>4. TableTypeOK'
  BY <1>1, <1>2 DEF TableInv, TableTypeOK
<1>5. IdIsPosition'
  <2>1. \A i \in Occupied : job_table'[i] = job_table[i] /\ job_table[i] # j
    BY <1>1, <1>2, <1>3 DEF ListedJobs
  <2>2. \A i \in Occupied : job_table[i] \in Jobs
    BY DEF TableInv, TableTypeOK, Occupied
  <2>3. \A i \in Occupied : job_id'[job_table[i]] = i
    BY <1>2, <2>1, <2>2 DEF TableInv, IdIsPosition, TableTypeOK
  <2>4. job_table'[slot] = j /\ job_id'[j] = slot
    BY <1>1, <1>2 DEF TableInv, TableTypeOK
  <2> HIDE DEF slot
  <2> QED
    BY <1>3, <2>1, <2>3, <2>4 DEF IdIsPosition
<1>6. NoDanglingSlot'
  BY <1>1, <1>2, <1>3 DEF TableInv, NoDanglingSlot, ListedJobs
<1>7. SizeIsCount'
  <2>1. IsFiniteSet(Occupied)
    BY OccupiedFinite DEF TableInv
  <2> QED
    BY <1>2, <1>3, <2>1, FS_AddElement DEF TableInv, SizeIsCount
<1>8. NeverShrinks'
  BY <1>2, GrowthLeavesRoom DEF TableInv, TableTypeOK, NeverShrinks
<1> QED
  BY <1>4, <1>5, <1>6, <1>7, <1>8 DEF TableInv

LEMMA RemoveJobKeepsInv ==
    ASSUME TableInv, NEW id \in 1 .. job_table_capacity, remove_job(id)
    PROVE  TableInv'
<1>1. Occupied' = Occupied \ {id} /\ id \in Occupied
  BY DEF TableInv, TableTypeOK, remove_job, IsJobNumber, Occupied
<1>2. TableTypeOK'
  BY DEF TableInv, TableTypeOK, remove_job, IsJobNumber
<1>3. \A i \in Occupied' : job_table'[i] = job_table[i]
  BY <1>1 DEF remove_job, Occupied, TableInv, TableTypeOK
<1>4. IdIsPosition'
  BY <1>1, <1>3 DEF TableInv, IdIsPosition, remove_job
<1>5. NoDanglingSlot'
  \* The freed job sits in no other slot, since its number names one slot.
  BY <1>1, <1>3 DEF TableInv, NoDanglingSlot, IdIsPosition, ListedJobs, remove_job
<1>6. SizeIsCount'
  <2>1. IsFiniteSet(Occupied)
    BY OccupiedFinite DEF TableInv
  <2> QED
    BY <1>1, <2>1, FS_RemoveElement DEF TableInv, SizeIsCount, remove_job
<1>7. NeverShrinks'
  BY DEF TableInv, NeverShrinks, remove_job
<1> QED
  BY <1>2, <1>4, <1>5, <1>6, <1>7 DEF TableInv

LEMMA TableInvStep == TableInv /\ [TableNext]_tableVars => TableInv'
<1> SUFFICES ASSUME TableInv, [TableNext]_tableVars PROVE TableInv'
  OBVIOUS
<1> USE DEF TableInv, NeverShrinks
<1>1. ASSUME NEW j \in Jobs, new_job(j) PROVE TableInv'
  <2>1. Occupied' = Occupied /\ ListedJobs' = ListedJobs
    BY <1>1 DEF new_job, Occupied, ListedJobs
  <2>2. \A i \in Occupied : job_table[i] # j
    BY <1>1 DEF new_job, NoDanglingSlot, ListedJobs
  <2> QED
    BY <1>1, <2>1, <2>2 DEF new_job, TableTypeOK, IdIsPosition, NoDanglingSlot, SizeIsCount, Occupied
<1>2. ASSUME NEW j \in Jobs, destroy_job(j) PROVE TableInv'
  <2>1. Occupied' = Occupied /\ ListedJobs' = ListedJobs
    BY <1>2 DEF destroy_job, Occupied, ListedJobs
  <2> QED
    BY <1>2, <2>1 DEF destroy_job, TableTypeOK, IdIsPosition, NoDanglingSlot, SizeIsCount
<1>3. ASSUME NEW j \in Jobs, add_job(j) PROVE TableInv'
  BY <1>3, AddJobKeepsInv
<1>4. ASSUME NEW id \in 1 .. job_table_capacity, remove_job(id) PROVE TableInv'
  BY <1>4, RemoveJobKeepsInv
<1>5. CASE init_job_table
  <2>1. Occupied' = {}
    BY <1>5 DEF init_job_table, EmptySlots, Occupied
  <2>2. TableTypeOK'
    BY <1>5 DEF init_job_table, EmptySlots, TableTypeOK
  <2> QED
    BY <1>5, <2>1, <2>2, FS_EmptySet
       DEF init_job_table, IdIsPosition, NoDanglingSlot, ListedJobs, SizeIsCount
<1>6. CASE UNCHANGED tableVars
  BY <1>6 DEF tableVars, TableTypeOK, IdIsPosition, NoDanglingSlot, SizeIsCount, ListedJobs, Occupied
<1> QED
  BY <1>1, <1>2, <1>3, <1>4, <1>5, <1>6 DEF TableNext
-----------------------------------------------------------------------------
(* The theorems.                                                           *)

LEMMA TableInvariant == TableSpec => []TableInv
<1> QED
  BY TableInvInit, TableInvStep, PTL DEF TableSpec

\* The variables keep their types, and the array the length that
\* job_table_capacity states, whatever the shell does with its jobs.
THEOREM TableTypeCorrect == TableSpec => []TableTypeOK
<1>1. TableInv => TableTypeOK
  BY DEF TableInv
<1> QED
  BY TableInvariant, <1>1, PTL

\* The number of a listed job leads back to its slot, so remove_job(job->id)
\* removes that very job.
THEOREM NumbersArePositions == TableSpec => []IdIsPosition
<1>1. TableInv => IdIsPosition
  BY DEF TableInv
<1> QED
  BY TableInvariant, <1>1, PTL

\* No slot keeps the address of a job that was freed.
THEOREM NoDanglingPointer == TableSpec => []NoDanglingSlot
<1>1. TableInv => NoDanglingSlot
  BY DEF TableInv
<1> QED
  BY TableInvariant, <1>1, PTL

\* job_table_size is the number of jobs in the table.
THEOREM CountIsExact == TableSpec => []SizeIsCount
<1>1. TableInv => SizeIsCount
  BY DEF TableInv
<1> QED
  BY TableInvariant, <1>1, PTL

\* add_job never returns -1 for want of a slot.
THEOREM AddJobSucceeds == TableSpec => []AlwaysRoom
<1>1. TableInv => AlwaysRoom
  BY GrowthLeavesRoom DEF AlwaysRoom
<1> QED
  BY TableInvariant, <1>1, PTL

\* The array grows only when all of it is used.
THEOREM GrowthIsNeeded == TableSpec => GrowsOnlyWhenFull
<1> DEFINE Growth == job_table_capacity' > job_table_capacity => Occupied = DOMAIN job_table
<1>1. TableInv /\ [TableNext]_tableVars => [Growth]_tableVars
  <2> SUFFICES ASSUME TableInv, TableNext, job_table_capacity' > job_table_capacity
               PROVE  Occupied = DOMAIN job_table
    OBVIOUS
  <2>1. PICK j \in Jobs : add_job(j)
    BY DEF TableInv, TableTypeOK, NeverShrinks, TableNext, new_job, destroy_job, remove_job,
           init_job_table
  <2>2. IsFull
    BY <2>1 DEF add_job, GrownCapacity, TableInv, TableTypeOK
  <2> QED
    BY <2>2, OccupiedFinite DEF TableInv, SizeIsCount, IsFull, TableTypeOK
<1> QED
  BY TableInvariant, <1>1, PTL DEF TableSpec, GrowsOnlyWhenFull

\* The array with its counters implements the numbering of JobNumbers: every
\* job gets the smallest free number and keeps it until it is removed.
THEOREM TableImplementsNumbers == TableSpec => ImplementsJobNumbers
<1> DEFINE numbered == [i \in Occupied |-> job_table[i]]
<1>1. TableInit => Numbers!NumbersInit
  <2> SUFFICES ASSUME TableInit PROVE Numbers!NumbersInit
    OBVIOUS
  <2>1. Occupied = {}
    BY DEF TableInit, EmptySlots, Occupied
  <2> QED
    BY <2>1 DEF Numbers!NumbersInit
<1>2. TableInv /\ [TableNext]_tableVars => [Numbers!NumbersNext]_numbered
  <2> SUFFICES ASSUME TableInv, [TableNext]_tableVars
               PROVE  [Numbers!NumbersNext]_numbered
    OBVIOUS
  <2>1. ASSUME NEW j \in Jobs, new_job(j) \/ destroy_job(j) PROVE numbered' = numbered
    BY <2>1 DEF new_job, destroy_job, Occupied
  <2>2. ASSUME NEW j \in Jobs, add_job(j) PROVE Numbers!Assign(j)
    <3> DEFINE slot == FirstFree(GrownTable)
    <3>1. /\ slot \in 1 .. GrownCapacity
          /\ GrownCapacity \in Nat
          /\ job_table' = [GrownTable EXCEPT ![slot] = j]
          /\ j \notin ListedJobs
      BY <2>2, GrowthLeavesRoom DEF add_job
    <3>2. /\ Occupied' = Occupied \cup {slot}
          /\ slot \notin Occupied
          /\ 1 .. slot - 1 \subseteq Occupied
      BY <3>1, GrowthLeavesRoom DEF Occupied
    <3>3. slot \in {m + 1 : m \in {0} \cup Occupied}
      <4>1. slot - 1 \in {0} \cup Occupied /\ slot = (slot - 1) + 1
        BY <3>1, <3>2
      <4> QED
        BY <4>1
    <3>4. numbered' = [m \in Occupied \cup {slot} |-> IF m = slot THEN j ELSE numbered[m]]
      BY <3>1, <3>2, GrowthLeavesRoom
    <3>5. DOMAIN numbered = Occupied /\ j \notin {numbered[n] : n \in DOMAIN numbered}
      BY <3>1 DEF ListedJobs
    <3> HIDE DEF slot
    <3> QED
      BY <3>2, <3>3, <3>4, <3>5 DEF Numbers!Assign, Numbers!Listed
  <2>3. ASSUME NEW id \in 1 .. job_table_capacity, remove_job(id) PROVE Numbers!Release(id)
    <3>1. /\ Occupied' = Occupied \ {id}
          /\ id \in Occupied
          /\ \A i \in Occupied' : job_table'[i] = job_table[i]
      BY <2>3 DEF remove_job, IsJobNumber, Occupied, TableInv, TableTypeOK
    <3> QED
      BY <3>1 DEF Numbers!Release
  <2>4. CASE init_job_table
    <3>1. Occupied' = {}
      BY <2>4 DEF init_job_table, EmptySlots, Occupied
    <3> QED
      BY <3>1 DEF Numbers!NumbersNext, Numbers!Clear
  <2>5. CASE UNCHANGED tableVars
    BY <2>5 DEF tableVars, Occupied
  <2> QED
    BY <2>1, <2>2, <2>3, <2>4, <2>5 DEF TableNext, Numbers!NumbersNext, IsJobNumber, remove_job, Numbers!Release
<1> QED
  BY TableInvariant, <1>1, <1>2, PTL DEF TableSpec, ImplementsJobNumbers, Numbers!NumbersSpec
=============================================================================
