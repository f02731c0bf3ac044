------------------------------ MODULE JobTable ------------------------------
(***************************************************************************)
(* The job table of jsh (src/src/jobs.c): a growing array of pointers to   *)
(* jobs whose index plus one is the job number.  A free slot holds NULL,   *)
(* the array grows by INITIAL_JOB_TABLE_CAPACITY slots when it is full and *)
(* never shrinks, and the code keeps the number of occupied slots and the  *)
(* capacity in variables of their own.                                     *)
(*                                                                         *)
(* A job is an address of the heap (a member of Jobs); the fields of the   *)
(* object other than its number are modelled in module Shell.              *)
(***************************************************************************)
EXTENDS Integers, FiniteSets

CONSTANTS
    Jobs,                        \* addresses malloc may return for a job
    NULL,                        \* the null pointer
    INITIAL_JOB_TABLE_CAPACITY   \* slots added each time (64 in the code)

ASSUME CapacityAssumption == INITIAL_JOB_TABLE_CAPACITY \in Nat \ {0}
ASSUME NullAssumption == NULL \notin Jobs

VARIABLES
    job_table,            \* the array, its length is what was allocated
    job_table_size,       \* number of jobs in the table, as the code counts
    job_table_capacity,   \* length of the array, as the code counts
    job_id,               \* field id of every job, 0 when uninitialized or freed
    heap                  \* jobs that are allocated

tableVars == <<job_table, job_table_size, job_table_capacity, job_id, heap>>

Occupied == {i \in DOMAIN job_table : job_table[i] # NULL}
ListedJobs == {job_table[i] : i \in Occupied}

EmptySlots == [i \in 1 .. INITIAL_JOB_TABLE_CAPACITY |-> NULL]

-----------------------------------------------------------------------------
(* The operations.  new_job, destroy_job and init_job_table are called by  *)
(* the launcher and by main, add_job and remove_job by the job control.    *)

\* A job is allocated; it has no number yet.
new_job(j) ==
    /\ j \in Jobs \ heap
    /\ heap' = heap \cup {j}
    /\ job_id' = [job_id EXCEPT ![j] = 0]
    /\ UNCHANGED <<job_table, job_table_size, job_table_capacity>>

\* A job that was never added to the table, or could not be, is freed.
destroy_job(j) ==
    /\ j \in heap \ ListedJobs
    /\ heap' = heap \ {j}
    /\ UNCHANGED <<job_table, job_table_size, job_table_capacity, job_id>>

\* The array after the growth add_job starts with: reallocarray keeps the
\* old slots and the loop sets those from job_table_size on to NULL.
IsFull == job_table_size = job_table_capacity

GrownCapacity ==
    IF IsFull THEN job_table_capacity + INITIAL_JOB_TABLE_CAPACITY
              ELSE job_table_capacity

GrownTable ==
    IF IsFull
    THEN [i \in 1 .. GrownCapacity |-> IF i > job_table_size THEN NULL ELSE job_table[i]]
    ELSE job_table

\* Mutant: the last free slot instead of the first one.
FirstFree_Last(table) ==
    IF \A i \in DOMAIN table : table[i] # NULL
    THEN 0
    ELSE CHOOSE i \in DOMAIN table :
            /\ table[i] = NULL
            /\ \A k \in DOMAIN table : k > i => table[k] # NULL

\* The first free slot of a table, 0 when there is none.
FirstFree(table) ==
    IF \A i \in DOMAIN table : table[i] # NULL
    THEN 0
    ELSE CHOOSE i \in DOMAIN table :
            /\ table[i] = NULL
            /\ \A k \in 1 .. i - 1 : table[k] # NULL

\* Mutant: the number given is the count of jobs, not the slot.
add_job_CountAsNumber(j) ==
    LET slot == FirstFree(GrownTable) IN
    /\ j \in heap \ ListedJobs
    /\ job_table_capacity' = GrownCapacity
    /\ job_table' = IF slot = 0 THEN GrownTable ELSE [GrownTable EXCEPT ![slot] = j]
    /\ job_table_size' = IF slot = 0 THEN job_table_size ELSE job_table_size + 1
    /\ job_id' = IF slot = 0 THEN job_id ELSE [job_id EXCEPT ![j] = job_table_size + 1]
    /\ UNCHANGED heap

\* Mutant: the array grows but job_table_capacity keeps its old value.
add_job_StaleCapacity(j) ==
    LET slot == FirstFree(GrownTable) IN
    /\ j \in heap \ ListedJobs
    /\ job_table' = IF slot = 0 THEN GrownTable ELSE [GrownTable EXCEPT ![slot] = j]
    /\ job_table_size' = IF slot = 0 THEN job_table_size ELSE job_table_size + 1
    /\ job_id' = IF slot = 0 THEN job_id ELSE [job_id EXCEPT ![j] = slot]
    /\ UNCHANGED <<job_table_capacity, heap>>

\* A job enters the first free slot of the table, grown when it was full.
\* Without a free slot the code returns -1 and the job is not listed.
add_job(j) ==
    LET slot == FirstFree(GrownTable) IN
    /\ j \in heap \ ListedJobs
    /\ job_table_capacity' = GrownCapacity
    /\ job_table' = IF slot = 0 THEN GrownTable ELSE [GrownTable EXCEPT ![slot] = j]
    /\ job_table_size' = IF slot = 0 THEN job_table_size ELSE job_table_size + 1
    /\ job_id' = IF slot = 0 THEN job_id ELSE [job_id EXCEPT ![j] = slot]
    /\ UNCHANGED heap

\* The checks common to remove_job and get_job.
IsJobNumber(id) ==
    /\ id \in 1 .. job_table_capacity
    /\ job_table_size # 0
    /\ job_table[id] # NULL

\* Mutant: the job is freed but its slot is not cleared.
remove_job_KeepsSlot(id) ==
    /\ IsJobNumber(id)
    /\ heap' = heap \ {job_table[id]}
    /\ job_table_size' = job_table_size - 1
    /\ job_id' = [job_id EXCEPT ![job_table[id]] = 0]
    /\ UNCHANGED <<job_table, job_table_capacity>>

\* The job in slot id is freed and its slot is cleared.  A call with a
\* number that fails the checks changes nothing and is not a step.
remove_job(id) ==
    /\ IsJobNumber(id)
    /\ heap' = heap \ {job_table[id]}
    /\ job_table' = [job_table EXCEPT ![id] = NULL]
    /\ job_table_size' = job_table_size - 1
    /\ job_id' = [job_id EXCEPT ![job_table[id]] = 0]
    /\ UNCHANGED job_table_capacity

\* The table is destroyed with the jobs in it and allocated afresh.
init_job_table ==
    /\ heap' = heap \ ListedJobs
    /\ job_table' = EmptySlots
    /\ job_table_size' = 0
    /\ job_table_capacity' = INITIAL_JOB_TABLE_CAPACITY
    /\ job_id' = [j \in Jobs |-> IF j \in ListedJobs THEN 0 ELSE job_id[j]]

-----------------------------------------------------------------------------
TableInit ==
    /\ job_table = EmptySlots
    /\ job_table_size = 0
    /\ job_table_capacity = INITIAL_JOB_TABLE_CAPACITY
    /\ job_id = [j \in Jobs |-> 0]
    /\ heap = {}

TableNext ==
    \/ \E j \in Jobs : new_job(j) \/ destroy_job(j) \/ add_job(j)
    \/ \E id \in 1 .. job_table_capacity : remove_job(id)
    \/ init_job_table

TableSpec == TableInit /\ [][TableNext]_tableVars

-----------------------------------------------------------------------------
(* Properties.                                                             *)

\* The variables hold values of their C types, and the array is as long as
\* job_table_capacity says, so no loop over the table leaves it.
TableTypeOK ==
    /\ job_table_capacity \in Nat \ {0}
    /\ job_table \in [1 .. job_table_capacity -> Jobs \cup {NULL}]
    /\ job_table_size \in Nat
    /\ job_id \in [Jobs -> Nat]
    /\ heap \subseteq Jobs

\* A job knows its place: the number stored in it leads back to its slot,
\* which is what fd_update_jobs relies on when it calls remove_job(job->id),
\* and therefore no job sits in two slots.
IdIsPosition == \A i \in Occupied : job_id[job_table[i]] = i

\* No slot of the table points to a job that was freed.
NoDanglingSlot == ListedJobs \subseteq heap

\* job_table_size, which the prompt shows and remove_job and get_job test
\* before they look at a slot, is the number of occupied slots.
SizeIsCount == job_table_size = Cardinality(Occupied)

\* add_job always finds a slot: the -1 it may return, which its two callers
\* do not test before they print the job and forget it, never happens.
AlwaysRoom == FirstFree(GrownTable) # 0

\* The array only grows when every slot of it is taken.
GrowsOnlyWhenFull ==
    [][job_table_capacity' > job_table_capacity => Occupied = DOMAIN job_table]_tableVars

\* The table with its counters implements the numbering of JobNumbers.
Numbers == INSTANCE JobNumbers WITH
              numbered <- [i \in Occupied |-> job_table[i]]

ImplementsJobNumbers == Numbers!NumbersSpec
=============================================================================
