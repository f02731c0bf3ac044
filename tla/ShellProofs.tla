---------------------------- MODULE ShellProofs ----------------------------
(***************************************************************************)
(* Proofs about the shell, for every set of processes, jobs and commands:  *)
(* it uses the job table as module JobTable says, so that the theorems of  *)
(* JobTableProofs hold of it.                                              *)
(***************************************************************************)
EXTENDS Shell, JobTableProofs, SequenceTheorems

-----------------------------------------------------------------------------
(* The shell and its job table.                                            *)

\* Every step of the shell and of its processes is a step of the job table
\* or leaves the table alone.
LEMMA ShellStepsTable == TableInv /\ [ShellNext]_vars => [TableNext]_tableVars
<1> SUFFICES ASSUME TableInv, [ShellNext]_vars PROVE [TableNext]_tableVars
  OBVIOUS
<1> DEFINE Idle == UNCHANGED tableVars
<1>1. \A h : new_job(h) \/ add_job(h) \/ destroy_job(h) => TableNext
  BY DEF TableInv, TableTypeOK, TableNext, new_job, add_job, destroy_job
<1>2. \A id : remove_job(id) => TableNext
  BY DEF TableNext, remove_job, IsJobNumber
<1>3. CASE UserStep
  BY <1>1, <1>3 DEF UserStep, ReadLine, RunCommand
<1>4. CASE EndLine
  BY <1>4 DEF EndLine
<1>5. CASE LaunchStep
  BY <1>1, <1>5 DEF LaunchStep, LaunchProcess, HandshakeFails, HandshakeBreaks, LaunchBuiltin,
                    LaunchFails, LaunchDone, LaunchForeground
<1>6. CASE UpdateStep
  BY <1>2, <1>6 DEF UpdateStep, UpdateWait, UpdateJob, UpdateReturnsToPrompt,
                    UpdateReturnsToJobs, ExitRefused, ExitAccepted
<1>7. CASE BuiltinStep
  BY <1>7 DEF BuiltinStep, BuiltinUpdates, BuiltinOther, BuiltinKill, BuiltinBg, BuiltinFg
<1>8. CASE BlockStep
  BY <1>1, <1>2, <1>8 DEF BlockStep, BlockWait, FgReturns, ForegroundReturns
<1>9. CASE ProcessStep \/ Ended \/ UNCHANGED vars
  BY <1>9 DEF ProcessStep, Ended, vars
<1> QED
  BY <1>3, <1>4, <1>5, <1>6, <1>7, <1>8, <1>9 DEF ShellNext, ShellStep

\* The inductive invariant of the job table holds in the shell.
LEMMA ShellTableInvariant == ShellSpec => []TableInv
<1>1. ShellInit => TableInv
  BY TableInvInit DEF ShellInit
<1>2. TableInv /\ [ShellNext]_vars => TableInv'
  BY ShellStepsTable, TableInvStep
<1> QED
  BY <1>1, <1>2, PTL DEF ShellSpec

\* Whatever the commands, the processes and the signals, the launcher and the
\* job control call new_job, add_job, remove_job and destroy_job as JobTable
\* lets them: a job is never freed twice, or listed twice, and the theorems
\* about the table hold of the shell.
THEOREM ShellUsesTable == ShellSpec => TableSpec
<1>1. ShellInit => TableInit
  BY DEF ShellInit
<1> QED
  BY <1>1, ShellStepsTable, ShellTableInvariant, PTL DEF ShellSpec, TableSpec

-----------------------------------------------------------------------------
(* The processes.                                                          *)

\* A process that is there stays there, in its group.
Survives(r, s) == r.st # "free" => s.st # "free" /\ s.grp = r.grp

LEMMA SignalledSurvives ==
    ASSUME NEW r \in Process, NEW sig
    PROVE  Signalled(r, sig) \in Process /\ Survives(r, Signalled(r, sig))
BY ExitCodesAssumption DEF Process, Signalled, Dead, Zombies, Survives

LEMMA DeadIsProcess ==
    ASSUME NEW r \in Process, NEW how \in Zombies, NEW code \in ExitCodes
    PROVE  Dead(r, how, code) \in Process /\ Survives(r, Dead(r, how, code))
BY DEF Process, Dead, Zombies, Survives

LEMMA NewIsProcess ==
    ASSUME NEW g \in Pids \cup {SHELL}, NEW prelude \in {"none", "fg", "bg"}
    PROVE  /\ NewProcess(g, prelude) \in Process
           /\ NewProcess(g, prelude).st = "live"
           /\ NewProcess(g, prelude).grp = g
BY ExitCodesAssumption DEF Process, NewProcess

LEMMA AfterReportIsProcess ==
    ASSUME NEW r \in Process
    PROVE  /\ AfterReport(r) \in Process
           /\ r.st \notin Zombies => Survives(r, AfterReport(r))
BY ExitCodesAssumption DEF Process, AfterReport, FreeProcess, Zombies, Survives

\* What a step of the kernel, or a signal, does to the processes.
ProcessesSurvive == \A p \in Pids : Survives(proc[p], proc'[p])

LEMMA SignalGroupSurvives ==
    ASSUME KernelTypeOK, NEW g, NEW sig, SignalGroup(g, sig)
    PROVE  proc' \in [Pids -> Process] /\ kids' \subseteq Pids \cup {SHELL} /\ ProcessesSurvive
<1>1. \A p \in Pids : proc[p] \in Process
  BY DEF KernelTypeOK
<1>2. ASSUME NEW p \in Pids PROVE proc'[p] \in Process /\ Survives(proc[p], proc'[p])
  BY <1>1, SignalledSurvives DEF SignalGroup, Survives
<1> QED
  BY <1>2 DEF SignalGroup, KernelTypeOK, ProcessesSurvive

LEMMA KernelStepSurvives ==
    ASSUME KernelTypeOK, KernelNext
    PROVE  KernelTypeOK' /\ ProcessesSurvive
<1>1. \A p \in Pids : proc[p] \in Process /\ Survives(proc[p], proc[p])
  BY DEF KernelTypeOK, Survives
<1>2. ASSUME NEW p \in Pids, ChildRuns(p) PROVE KernelTypeOK' /\ ProcessesSurvive
  BY <1>1, <1>2 DEF ChildRuns, KernelTypeOK, Process, ProcessesSurvive, Survives
<1>3. ASSUME NEW p \in Pids, NEW code \in ExitCodes, ChildExits(p, code)
      PROVE  KernelTypeOK' /\ ProcessesSurvive
  <2>1. Dead(proc[p], "exited", code) \in Process /\ Survives(proc[p], Dead(proc[p], "exited", code))
    BY <1>1, DeadIsProcess DEF Zombies
  <2> QED
    BY <1>1, <1>3, <2>1 DEF ChildExits, KernelTypeOK, ProcessesSurvive
<1>4. ASSUME NEW p \in Pids, NEW sig, ChildSignalled(p, sig)
      PROVE  KernelTypeOK' /\ ProcessesSurvive
  BY <1>1, <1>4, SignalledSurvives DEF ChildSignalled, KernelTypeOK, ProcessesSurvive
<1>5. ASSUME NEW p \in Pids, ChildSpawns(p) PROVE KernelTypeOK' /\ ProcessesSurvive
  <2>1. proc[p].grp \in Pids \cup {SHELL}
    BY <1>1 DEF Process
  <2> QED
    BY <1>1, <1>5, <2>1 DEF ChildSpawns, KernelTypeOK, ProcessesSurvive
<1>6. ASSUME NEW g \in kids, KidsEnd(g) PROVE KernelTypeOK' /\ ProcessesSurvive
  BY <1>1, <1>6 DEF KidsEnd, KernelTypeOK, ProcessesSurvive
<1> QED
  BY <1>2, <1>3, <1>4, <1>5, <1>6 DEF KernelNext

-----------------------------------------------------------------------------
(* Types.                                                                  *)

\* The fields of the jobs, and the variables of the control.
JobsTyped ==
    /\ pgid \in [Jobs -> Pids \cup {NULL}]
    /\ status \in [Jobs -> Status]
    /\ subjobs \in [Jobs -> Seq(Subjob \cup {NULL})]
    /\ shown \in [Jobs -> Status \cup {"none"}]

LoopTyped ==
    /\ caller \in {"none", "prompt", "jobs", "jobs -t", "exit", "fg", "exec"}
    /\ slot \in Nat
    /\ sub \in Nat
    /\ target \in Jobs \cup {NULL}
    /\ exit_status \in ExitCodes

LaunchTyped ==
    /\ calls \in Seq(Calls)
    /\ background \in BOOLEAN
    /\ call \in Nat
    /\ newjob \in Jobs \cup {NULL}
    /\ info \in ExitCodes \cup {NULL}

MainTyped ==
    /\ pc \in PC
    /\ line \in {"any", "trimmed", "exit", "none"}
    /\ last_exit_code \in ExitCodes
    /\ should_exit \in BOOLEAN

LEMMA TypesInParts ==
    ShellTypeOK <=> /\ TableTypeOK
                    /\ KernelTypeOK
                    /\ JobsTyped
                    /\ LoopTyped
                    /\ LaunchTyped
                    /\ MainTyped
BY DEF ShellTypeOK, JobsTyped, LoopTyped, LaunchTyped, MainTyped

\* update_job_status gives a job that is finished a final status, and any
\* other one of Running and Stopped.
LEMMA StatusFollowsSubjobs ==
    ASSUME NEW h
    PROVE  /\ is_job_finished(h) => update_job_status(h) \in FinishedStatus
           /\ ~is_job_finished(h) => update_job_status(h) \in {"RUNNING", "STOPPED"}
           /\ update_job_status(h) \in Status
<1>1. is_job_running(h) => ~is_job_finished(h)
  BY DEF is_job_running, is_job_finished, FinishedStatus
<1>2. is_job_suspended(h) <=> ~is_job_finished(h) /\ ~is_job_running(h)
  BY DEF is_job_suspended
<1> QED
  BY <1>1, <1>2 DEF update_job_status, FinishedStatus, Status

\* A report of waitpid is turned into a status.
LEMMA ReportGivesStatus ==
    ASSUME NEW r \in Process, NEW w, IsReportable(r, w)
    PROVE  /\ job_status_from_int(r) \in Status
           /\ r.st \in Zombies => job_status_from_int(r) \in FinishedStatus
BY DEF Process, IsReportable, Zombies, job_status_from_int, Status, FinishedStatus

\* Where an unfinished process stands in its job.
LEMMA UnfinishedSubjob ==
    ASSUME JobsTyped, NEW h \in Jobs, NEW k \in Unfinished(h)
    PROVE  /\ k \in 1 .. Len(subjobs[h])
           /\ subjobs[h][k] \in Subjob
           /\ subjobs[h][k] # NULL
BY DEF JobsTyped, Unfinished, Forked

\* Replacing an element of a sequence keeps its length and its type.
LEMMA ReplacedInSeq ==
    ASSUME NEW S, NEW s \in Seq(S), NEW k, NEW e \in S
    PROVE  /\ [s EXCEPT ![k] = e] \in Seq(S)
           /\ Len([s EXCEPT ![k] = e]) = Len(s)
<1>1. CASE k \in 1 .. Len(s)
  BY <1>1, ExceptSeq
<1>2. CASE k \notin 1 .. Len(s)
  <2>1. s \in [1 .. Len(s) -> S] /\ DOMAIN s = 1 .. Len(s)
    OBVIOUS
  <2>2. [s EXCEPT ![k] = e] = s
    BY <1>2, <2>1
  <2> QED
    BY <2>2
<1> QED
  BY <1>1, <1>2

\* What a report changes: the status of one process and its record.
LEMMA CollectTyped ==
    ASSUME JobsTyped, KernelTypeOK, NEW h \in Jobs, NEW k \in Unfinished(h), NEW w,
           IsReportable(proc[subjobs[h][k].pid], w), Collect(h, k)
    PROVE  /\ KernelTypeOK'
           /\ subjobs' \in [Jobs -> Seq(Subjob \cup {NULL})]
<1> DEFINE p == subjobs[h][k].pid
           new == job_status_from_int(proc[p])
<1>1. p \in Pids /\ subjobs[h][k] \in Subjob /\ k \in 1 .. Len(subjobs[h])
  BY UnfinishedSubjob DEF Subjob
<1>2. proc[p] \in Process /\ new \in Status /\ AfterReport(proc[p]) \in Process
  BY <1>1, ReportGivesStatus, AfterReportIsProcess DEF KernelTypeOK
<1>3. [subjobs[h][k] EXCEPT !.last_status = new] \in Subjob
  BY <1>1, <1>2 DEF Subjob
<1>4. [subjobs[h] EXCEPT ![k] = [@ EXCEPT !.last_status = new]] \in Seq(Subjob \cup {NULL})
  BY <1>1, <1>3 DEF JobsTyped
<1>5. subjobs' \in [Jobs -> Seq(Subjob \cup {NULL})]
  BY <1>4 DEF JobsTyped, Collect
<1>6. KernelTypeOK'
  BY <1>2 DEF KernelTypeOK, Collect
<1> QED
  BY <1>5, <1>6

\* Variables that do not change keep their types.
LEMMA TypesKept ==
    /\ KernelTypeOK /\ UNCHANGED kernelVars => KernelTypeOK'
    /\ JobsTyped /\ UNCHANGED jobVars => JobsTyped'
    /\ LoopTyped /\ UNCHANGED loopVars => LoopTyped'
    /\ LaunchTyped /\ UNCHANGED launchVars => LaunchTyped'
<1>1. KernelTypeOK /\ UNCHANGED kernelVars => KernelTypeOK'
  BY DEF KernelTypeOK, kernelVars
<1>2. JobsTyped /\ UNCHANGED jobVars => JobsTyped'
  BY DEF JobsTyped, jobVars
<1>3. LoopTyped /\ UNCHANGED loopVars => LoopTyped'
  BY DEF LoopTyped, loopVars
<1>4. LaunchTyped /\ UNCHANGED launchVars => LaunchTyped'
  BY DEF LaunchTyped, launchVars
<1> QED
  BY <1>1, <1>2, <1>3, <1>4

\* The ways a command, a builtin and the loops end keep the types.
LEMMA ReturnsTyped ==
    ASSUME LaunchTyped, MainTyped, NEW code \in ExitCodes,
           CommandReturns(code) \/ BuiltinReturns(code)
    PROVE  LaunchTyped' /\ pc' \in PC /\ last_exit_code' \in ExitCodes
<1>1. <<>> \in Seq(Calls)
  OBVIOUS
<1>2. CASE CommandReturns(code)
  BY <1>1, <1>2 DEF LaunchTyped, MainTyped, CommandReturns, CommandDestroyed, PC
<1>3. CASE newjob # NULL /\ BuiltinReturns(code)
  BY <1>3 DEF LaunchTyped, MainTyped, BuiltinReturns, PC
<1> QED
  BY <1>2, <1>3 DEF BuiltinReturns

LEMMA LoopLeftTyped == LoopLeft => LoopTyped'
BY ExitCodesAssumption DEF LoopLeft, LoopTyped

LEMMA JobFreedTyped ==
    ASSUME JobsTyped, NEW h, JobFreed(h)
    PROVE  /\ pgid' \in [Jobs -> Pids \cup {NULL}]
           /\ status' \in [Jobs -> Status]
           /\ subjobs' \in [Jobs -> Seq(Subjob \cup {NULL})]
<1>1. <<>> \in Seq(Subjob \cup {NULL})
  OBVIOUS
<1> QED
  BY <1>1 DEF JobsTyped, JobFreed, Status

LEMMA TypesInit == ShellInit => ShellTypeOK
<1> SUFFICES ASSUME ShellInit PROVE ShellTypeOK
  OBVIOUS
<1>1. TableTypeOK
  BY TableInvInit DEF ShellInit, TableInv
<1>2. KernelTypeOK
  BY ExitCodesAssumption DEF ShellInit, KernelInit, KernelTypeOK, FreeProcess, Process
<1>3. JobsTyped
  <2>1. <<>> \in Seq(Subjob \cup {NULL})
    OBVIOUS
  <2> QED
    BY <2>1 DEF ShellInit, JobsTyped, Status
<1>4. LaunchTyped
  <2>1. <<>> \in Seq(Calls)
    OBVIOUS
  <2> QED
    BY <2>1 DEF ShellInit, LaunchTyped
<1>5. LoopTyped /\ MainTyped
  BY ExitCodesAssumption DEF ShellInit, LoopTyped, MainTyped, PC
<1> QED
  BY <1>1, <1>2, <1>3, <1>4, <1>5, TypesInParts

\* The parts of ShellTypeOK that are not about the table.
OthersTyped == KernelTypeOK /\ JobsTyped /\ LoopTyped /\ LaunchTyped /\ MainTyped

\* Where the control is determines which job it works on: the job being
\* launched is allocated and not listed, the job fg waits for is listed.
ControlInv ==
    /\ newjob # NULL => newjob \in heap \ ListedJobs
    /\ pc = "launch" => newjob # NULL
    /\ pc \in {"next", "prompt"} => newjob = NULL
    /\ pc = "update" /\ caller = "prompt" => newjob = NULL
    /\ pc = "block" => \/ caller = "fg" /\ target \in ListedJobs
                       \/ caller = "exec" /\ target = newjob /\ newjob # NULL

\* The inductive invariant behind ShellTypeOK.
TypedInv == TableInv /\ OthersTyped /\ ControlInv

\* What the operations of the table do to the set of the listed jobs.
LEMMA ListedChanges ==
    ASSUME TableInv, NEW j
    PROVE  /\ new_job(j) => ListedJobs' = ListedJobs /\ heap' = heap \cup {j}
           /\ destroy_job(j) => ListedJobs' = ListedJobs /\ heap' = heap \ {j}
           /\ add_job(j) => ListedJobs' = ListedJobs \cup {j} /\ heap' = heap
           /\ UNCHANGED tableVars => ListedJobs' = ListedJobs /\ heap' = heap
<1>1. ASSUME add_job(j) PROVE ListedJobs' = ListedJobs \cup {j} /\ heap' = heap
  <2> DEFINE new == FirstFree(GrownTable)
  <2>1. /\ GrownCapacity \in Nat
        /\ GrownTable \in [1 .. GrownCapacity -> Jobs \cup {NULL}]
        /\ Occupied = {i \in 1 .. GrownCapacity : GrownTable[i] # NULL}
        /\ \A i \in Occupied : GrownTable[i] = job_table[i]
    BY GrowthLeavesRoom
  <2>2. new \in 1 .. GrownCapacity /\ GrownTable[new] = NULL
    BY <2>1, GrowthLeavesRoom, FirstFreeIsFree
  <2>3. job_table' = [GrownTable EXCEPT ![new] = j] /\ j \in Jobs /\ j # NULL /\ heap' = heap
    BY <1>1, <2>1, <2>2, NullAssumption DEF add_job, TableInv, TableTypeOK
  <2>4. Occupied' = Occupied \cup {new} /\ \A i \in Occupied : job_table'[i] = job_table[i]
    BY <2>1, <2>2, <2>3 DEF Occupied
  <2>5. job_table'[new] = j
    BY <2>1, <2>2, <2>3
  <2> QED
    BY <2>3, <2>4, <2>5 DEF ListedJobs
<1> QED
  BY <1>1 DEF new_job, destroy_job, tableVars, ListedJobs, Occupied

LEMMA RemovalChanges ==
    ASSUME TableInv, NEW h \in ListedJobs, remove_job(job_id[h])
    PROVE  ListedJobs' = ListedJobs \ {h} /\ heap' = heap \ {h}
<1>1. PICK i \in Occupied : job_table[i] = h
  BY DEF ListedJobs
<1>2. job_id[h] = i /\ i \in DOMAIN job_table
  BY <1>1 DEF TableInv, IdIsPosition, Occupied
<1>3. \A k \in Occupied : job_table[k] = h => k = i
  BY <1>1, <1>2 DEF TableInv, IdIsPosition
<1>4. job_table' = [job_table EXCEPT ![i] = NULL] /\ heap' = heap \ {h}
  BY <1>1, <1>2 DEF remove_job
<1>5. Occupied' = Occupied \ {i} /\ \A k \in Occupied \ {i} : job_table'[k] = job_table[k]
  BY <1>2, <1>4 DEF Occupied, TableInv, TableTypeOK
<1> QED
  BY <1>1, <1>3, <1>4, <1>5 DEF ListedJobs

LEMMA ListedAreJobs == TableInv => ListedJobs \subseteq heap /\ heap \subseteq Jobs
BY DEF TableInv, TableTypeOK, NoDanglingSlot

-----------------------------------------------------------------------------
(* The steps keep the types and the place of the control.                  *)

LEMMA UserStepTyped ==
    ASSUME TypedInv, UserStep
    PROVE  OthersTyped' /\ ControlInv'
<1> USE DEF TypedInv
<1>1. CASE ReadLine
  <2>1. OthersTyped'
    BY <1>1, TypesKept, ExitCodesAssumption DEF ReadLine, OthersTyped, MainTyped, PC
  <2>2. ControlInv'
    BY <1>1, ListedChanges DEF ReadLine, ControlInv, tableVars, loopVars, launchVars
  <2> QED
    BY <2>1, <2>2
<1>2. ASSUME NEW c \in Commands, NEW bg \in BOOLEAN, RunCommand(c, bg)
      PROVE  OthersTyped' /\ ControlInv'
  <2>1. c \in Seq(Calls) /\ Len(c) \in Nat
    BY CommandsAssumption
  <2>2. KernelTypeOK' /\ LoopTyped'
    BY <1>2, TypesKept DEF RunCommand, OthersTyped
  <2>3. MainTyped'
    BY <1>2 DEF RunCommand, OthersTyped, MainTyped, PC
  <2>4. LaunchTyped'
    BY <1>2, <2>1 DEF RunCommand, OthersTyped, LaunchTyped, launchVars
  <2>5. [k \in 1 .. Len(c) |-> NULL] \in Seq(Subjob \cup {NULL})
    BY <2>1
  <2>6. JobsTyped'
    <3>1. CASE UNCHANGED jobVars
      BY <3>1, TypesKept DEF OthersTyped
    <3>2. ASSUME NEW h \in Jobs,
                 pgid' = [pgid EXCEPT ![h] = NULL],
                 status' = [status EXCEPT ![h] = "RUNNING"],
                 subjobs' = [subjobs EXCEPT ![h] = [k \in 1 .. Len(c) |-> NULL]],
                 shown' = [shown EXCEPT ![h] = "none"]
          PROVE  JobsTyped'
      BY <2>5, <3>2 DEF OthersTyped, JobsTyped, Status
    <3> QED
      BY <1>2, <3>1, <3>2 DEF RunCommand
  <2>7. ControlInv'
    <3>1. CASE pc' = "builtin" /\ UNCHANGED <<tableVars, newjob>>
      BY <1>2, <3>1, ListedChanges DEF RunCommand, ControlInv
    <3>2. ASSUME NEW h \in Jobs, new_job(h), newjob' = h, pc' = "launch" PROVE ControlInv'
      <4>1. ListedJobs' = ListedJobs /\ heap' = heap \cup {h} /\ h \notin ListedJobs /\ h # NULL
        BY <3>2, ListedChanges, ListedAreJobs, NullAssumption DEF new_job
      <4> QED
        BY <3>2, <4>1 DEF ControlInv
    <3> QED
      BY <1>2, <3>1, <3>2 DEF RunCommand
  <2> QED
    BY <2>2, <2>3, <2>4, <2>6, <2>7 DEF OthersTyped
<1> QED
  BY <1>1, <1>2 DEF UserStep

LEMMA EndLineTyped ==
    ASSUME TypedInv, EndLine
    PROVE  OthersTyped' /\ ControlInv'
<1> USE DEF TypedInv, OthersTyped
<1>1. KernelTypeOK' /\ JobsTyped' /\ LaunchTyped'
  BY TypesKept DEF EndLine
<1>2. LoopTyped'
  <2>1. CASE UNCHANGED loopVars
    BY <2>1, TypesKept
  <2>2. CASE StartUpdate("prompt")
    BY <2>2 DEF StartUpdate, LoopTyped
  <2> QED
    BY <2>1, <2>2 DEF EndLine
<1>3. MainTyped'
  BY DEF EndLine, StartUpdate, MainTyped, mainVars, PC
<1>4. ControlInv'
  BY ListedChanges DEF EndLine, StartUpdate, ControlInv, launchVars
<1> QED
  BY <1>1, <1>2, <1>3, <1>4

LEMMA LaunchStepTyped ==
    ASSUME TypedInv, LaunchStep
    PROVE  OthersTyped' /\ ControlInv'
<1> USE DEF TypedInv, OthersTyped
<1>1. pc = "launch" /\ newjob \in heap \ ListedJobs /\ newjob \in Jobs /\ newjob # NULL
  BY ListedAreJobs DEF LaunchStep, LaunchProcess, HandshakeFails, HandshakeBreaks, LaunchBuiltin,
        LaunchFails, LaunchDone, LaunchForeground, ControlInv
<1>2. \A p \in Pids : LaunchGroup(p) \in Pids
  BY <1>1 DEF LaunchGroup, JobsTyped
<1>3. ASSUME NEW p \in Pids, LaunchProcess(p) PROVE OthersTyped' /\ ControlInv'
  <2>1. KernelTypeOK'
    <3>1. NewProcess(LaunchGroup(p), IF background THEN "bg" ELSE "fg") \in Process
      BY <1>2, NewIsProcess
    <3> QED
      BY <1>3, <3>1 DEF LaunchProcess, KernelTypeOK
  <2>2. JobsTyped'
    <3>1. Start(p) \in Subjob
      BY DEF Start, Subjob, Status
    <3>2. [subjobs[newjob] EXCEPT ![call] = Start(p)] \in Seq(Subjob \cup {NULL})
      BY <1>1, <3>1, ReplacedInSeq DEF JobsTyped
    <3> QED
      BY <1>1, <1>2, <1>3, <3>2 DEF LaunchProcess, JobsTyped
  <2>3. LoopTyped' /\ MainTyped'
    BY <1>3, TypesKept DEF LaunchProcess, MainTyped, mainVars
  <2>4. LaunchTyped'
    BY <1>3 DEF LaunchProcess, LaunchTyped
  <2>5. ControlInv'
    BY <1>1, <1>3, ListedChanges DEF LaunchProcess, ControlInv, loopVars
  <2> QED
    BY <2>1, <2>2, <2>3, <2>4, <2>5
<1>4. ASSUME NEW p \in Pids, HandshakeFails(p) PROVE OthersTyped' /\ ControlInv'
  <2>1. KernelTypeOK'
    <3>1. PICK own \in {SHELL, LaunchGroup(p)} :
             proc' = [q \in Pids |-> IF q = p THEN Dead(NewProcess(own, "none"), "killed", 0)
                                    ELSE IF proc[q].grp = LaunchGroup(p) THEN Signalled(proc[q], "KILL")
                                    ELSE proc[q]]
      BY <1>4 DEF HandshakeFails
    <3>2. NewProcess(own, "none") \in Process
      BY <1>2, <3>1, NewIsProcess
    <3>3. Dead(NewProcess(own, "none"), "killed", 0) \in Process
      BY <3>2, DeadIsProcess, ExitCodesAssumption DEF Zombies
    <3>4. \A q \in Pids : proc[q] \in Process /\ Signalled(proc[q], "KILL") \in Process
      BY SignalledSurvives DEF KernelTypeOK
    <3> QED
      BY <1>4, <3>1, <3>3, <3>4 DEF HandshakeFails, KernelTypeOK
  <2>2. JobsTyped'
    BY <1>4, JobFreedTyped DEF HandshakeFails, JobsTyped
  <2>3. LoopTyped' /\ LaunchTyped' /\ MainTyped'
    BY <1>4, TypesKept, ReturnsTyped, ExitCodesAssumption DEF HandshakeFails, MainTyped
  <2>4. ControlInv'
    BY <1>1, <1>4, NullAssumption DEF HandshakeFails, CommandReturns, CommandDestroyed, ControlInv
  <2> QED
    BY <2>1, <2>2, <2>3, <2>4
<1>5. ASSUME NEW p \in Pids, HandshakeBreaks(p) PROVE OthersTyped' /\ ControlInv'
  <2>1. Dead(NewProcess(SHELL, "none"), "killed", 0) \in Process
    BY NewIsProcess, DeadIsProcess, ExitCodesAssumption DEF Zombies
  <2>2. KernelTypeOK' /\ JobsTyped'
    BY <1>1, <1>2, <1>5, <2>1 DEF HandshakeBreaks, KernelTypeOK, JobsTyped
  <2>3. LoopTyped' /\ LaunchTyped' /\ MainTyped'
    BY <1>5, TypesKept DEF HandshakeBreaks, MainTyped, mainVars, PC
  <2>4. ControlInv'
    BY <1>1, <1>5, ListedChanges DEF HandshakeBreaks, ControlInv, launchVars
  <2> QED
    BY <2>2, <2>3, <2>4
<1>6. CASE LaunchBuiltin
  <2>1. OthersTyped'
    BY <1>6, TypesKept DEF LaunchBuiltin, MainTyped, mainVars, PC
  <2>2. ControlInv'
    BY <1>1, <1>6, ListedChanges DEF LaunchBuiltin, ControlInv, launchVars
  <2> QED
    BY <2>1, <2>2
<1>7. CASE LaunchFails
  <2>1. KernelTypeOK'
    BY <1>7, SignalGroupSurvives DEF LaunchFails, KernelTypeOK
  <2>2. JobsTyped'
    BY <1>7, JobFreedTyped DEF LaunchFails, JobsTyped
  <2>3. LoopTyped' /\ LaunchTyped' /\ MainTyped'
    BY <1>7, TypesKept, ReturnsTyped, ExitCodesAssumption DEF LaunchFails, MainTyped
  <2>4. ControlInv'
    BY <1>7 DEF LaunchFails, CommandReturns, CommandDestroyed, ControlInv
  <2> QED
    BY <2>1, <2>2, <2>3, <2>4
<1>8. CASE LaunchDone
  <2>1. KernelTypeOK' /\ JobsTyped'
    BY <1>1, <1>8 DEF LaunchDone, KernelTypeOK, JobsTyped, kernelVars
  <2>2. LoopTyped' /\ LaunchTyped' /\ MainTyped'
    BY <1>8, TypesKept, ReturnsTyped, ExitCodesAssumption DEF LaunchDone, MainTyped
  <2>3. ControlInv'
    BY <1>8 DEF LaunchDone, CommandReturns, CommandDestroyed, ControlInv
  <2> QED
    BY <2>1, <2>2, <2>3
<1>9. CASE LaunchForeground
  <2>1. OthersTyped'
    BY <1>9, TypesKept, ExitCodesAssumption DEF LaunchForeground, StartBlocking, LoopTyped,
          LaunchTyped, MainTyped, mainVars, PC
  <2>2. ControlInv'
    BY <1>1, <1>9, ListedChanges DEF LaunchForeground, StartBlocking, ControlInv, launchVars
  <2> QED
    BY <2>1, <2>2
<1> QED
  BY <1>3, <1>4, <1>5, <1>6, <1>7, <1>8, <1>9 DEF LaunchStep

LEMMA UpdateStepTyped ==
    ASSUME TypedInv, UpdateStep
    PROVE  OthersTyped' /\ ControlInv'
<1> USE DEF TypedInv, OthersTyped
<1>1. \A i \in Occupied : /\ job_table[i] \in ListedJobs
                          /\ job_table[i] \in Jobs
                          /\ i \in Nat
                          /\ job_table[i] # newjob
  BY ListedAreJobs, NullAssumption DEF Occupied, ListedJobs, TableInv, TableTypeOK, ControlInv
<1>2. ASSUME NEW i \in DOMAIN job_table, UpdateWait(i) PROVE OthersTyped' /\ ControlInv'
  <2> DEFINE h == job_table[i]
  <2>1. i \in Occupied
    BY <1>2 DEF UpdateWait, AtSlot
  <2>2. PICK k \in Unfinished(h) :
           /\ \/ /\ IsReportable(proc[subjobs[h][k].pid], TRUE)
                 /\ Collect(h, k)
              \/ UNCHANGED <<subjobs, kernelVars>>
           /\ slot' \in {i, i + 1}
           /\ sub' \in {1, k + 1}
    BY <1>2 DEF UpdateWait
  <2>3. k \in Nat
    BY <1>1, <2>1, UnfinishedSubjob
  <2>4. KernelTypeOK' /\ subjobs' \in [Jobs -> Seq(Subjob \cup {NULL})]
    <3>1. CASE Collect(h, k) /\ IsReportable(proc[subjobs[h][k].pid], TRUE)
      BY <1>1, <2>1, <3>1, CollectTyped
    <3>2. CASE UNCHANGED <<subjobs, kernelVars>>
      BY <3>2, TypesKept DEF JobsTyped
    <3> QED
      BY <2>2, <3>1, <3>2
  <2>5. JobsTyped'
    BY <1>2, <2>4 DEF UpdateWait, JobsTyped
  <2>6. LoopTyped'
    <3>1. UNCHANGED <<caller, target, exit_status>>
      BY <1>2 DEF UpdateWait
    <3>2. slot' \in Nat /\ sub' \in Nat
      BY <1>1, <2>1, <2>2, <2>3
    <3> QED
      BY <3>1, <3>2 DEF LoopTyped
  <2>7. LaunchTyped' /\ MainTyped'
    BY <1>2, TypesKept DEF UpdateWait, MainTyped, mainVars
  <2>8. ControlInv'
    BY <1>2, ListedChanges DEF UpdateWait, ControlInv, launchVars
  <2> QED
    BY <2>4, <2>5, <2>6, <2>7, <2>8
<1>3. ASSUME NEW i \in DOMAIN job_table, UpdateJob(i) PROVE OthersTyped' /\ ControlInv'
  <2> DEFINE h == job_table[i]
             new == update_job_status(h)
  <2>1. i \in Occupied /\ h \in ListedJobs /\ h \in Jobs /\ i \in Nat /\ h # newjob
    BY <1>1, <1>3 DEF UpdateJob, AtSlot
  <2>2. new \in Status
    BY StatusFollowsSubjobs
  <2>3. shown' \in [Jobs -> Status \cup {"none"}]
    BY <1>3, <2>2 DEF UpdateJob, JobsTyped
  <2>6. KernelTypeOK' /\ LoopTyped' /\ LaunchTyped' /\ MainTyped'
    <3>1. KernelTypeOK' /\ LaunchTyped' /\ MainTyped'
      BY <1>3, TypesKept DEF UpdateJob, MainTyped, mainVars
    <3>2. LoopTyped'
      <4>1. UNCHANGED <<caller, target, exit_status>> /\ slot' \in Nat /\ sub' \in Nat
        BY <1>3, <2>1 DEF UpdateJob
      <4> QED
        BY <4>1 DEF LoopTyped
    <3> QED
      BY <3>1, <3>2
  <2>4. CASE remove_job(job_id[h]) /\ JobFreed(h)
    <3>1. JobsTyped'
      BY <2>3, <2>4, JobFreedTyped DEF JobsTyped
    <3>2. ControlInv'
      BY <1>3, <2>1, <2>4, RemovalChanges DEF UpdateJob, ControlInv, launchVars
    <3> QED
      BY <2>6, <3>1, <3>2
  <2>5. CASE status' = [status EXCEPT ![h] = new] /\ UNCHANGED <<tableVars, pgid, subjobs>>
    <3>1. JobsTyped'
      BY <2>2, <2>3, <2>5 DEF JobsTyped
    <3>2. ControlInv'
      BY <1>3, <2>1, <2>5, ListedChanges DEF UpdateJob, ControlInv, launchVars
    <3> QED
      BY <2>6, <3>1, <3>2
  <2> QED
    BY <1>3, <2>4, <2>5 DEF UpdateJob
<1>4. CASE UpdateReturnsToPrompt
  <2>1. KernelTypeOK' /\ JobsTyped' /\ LaunchTyped' /\ LoopTyped'
    BY <1>4, TypesKept, LoopLeftTyped DEF UpdateReturnsToPrompt
  <2>2. MainTyped'
    BY <1>4 DEF UpdateReturnsToPrompt, MainTyped, mainVars, PC
  <2>3. ControlInv'
    BY <1>4, ListedChanges DEF UpdateReturnsToPrompt, ControlInv, launchVars
  <2> QED
    BY <2>1, <2>2, <2>3
<1>5. ASSUME UNCHANGED <<tableVars, kernelVars, jobVars, line, should_exit>>, LoopLeft,
             \/ pc' = "crashed" /\ UNCHANGED <<launchVars, last_exit_code>>
             \/ \E code \in {0, 1} : BuiltinReturns(code)
      PROVE  OthersTyped' /\ ControlInv'
  <2>1. KernelTypeOK' /\ JobsTyped' /\ LoopTyped'
    BY <1>5, TypesKept, LoopLeftTyped
  <2>2. LaunchTyped' /\ MainTyped'
    <3>1. LaunchTyped' /\ pc' \in PC /\ last_exit_code' \in ExitCodes
      BY <1>5, TypesKept, ReturnsTyped, ExitCodesAssumption DEF PC, MainTyped
    <3> QED
      BY <1>5, <3>1 DEF MainTyped
  <2>3. ControlInv'
    BY <1>5, ListedChanges DEF ControlInv, launchVars, BuiltinReturns, CommandReturns, CommandDestroyed
  <2> QED
    BY <2>1, <2>2, <2>3
<1>6. CASE UpdateReturnsToJobs \/ ExitRefused
  BY <1>5, <1>6 DEF UpdateReturnsToJobs, ExitRefused
<1>7. ASSUME NEW val \in ExitCodes, ExitAccepted(val) PROVE OthersTyped' /\ ControlInv'
  <2>1. KernelTypeOK' /\ JobsTyped' /\ LoopTyped'
    BY <1>7, TypesKept, LoopLeftTyped DEF ExitAccepted
  <2>2. MainTyped'
    BY <1>7 DEF ExitAccepted, MainTyped, PC
  <2>3. LaunchTyped'
    <3>1. CASE CommandDestroyed
      <4>1. <<>> \in Seq(Calls)
        OBVIOUS
      <4> QED
        BY <3>1, <4>1 DEF CommandDestroyed, LaunchTyped
    <3>2. CASE /\ info' = IF call = 1 THEN val ELSE info
               /\ call' = call + 1
               /\ UNCHANGED <<calls, background, newjob>>
      BY <3>2 DEF LaunchTyped
    <3> QED
      BY <1>7, <3>1, <3>2 DEF ExitAccepted
  <2>4. ControlInv'
    BY <1>7, ListedChanges DEF ExitAccepted, ControlInv, CommandDestroyed
  <2> QED
    BY <2>1, <2>2, <2>3, <2>4
<1> QED
  BY <1>2, <1>3, <1>4, <1>6, <1>7 DEF UpdateStep

LEMMA BuiltinStepTyped ==
    ASSUME TypedInv, BuiltinStep
    PROVE  OthersTyped' /\ ControlInv'
<1> USE DEF TypedInv, OthersTyped
<1>1. \A id \in DOMAIN job_table : IsJobNumber(id) =>
         /\ job_table[id] \in ListedJobs
         /\ job_table[id] \in Jobs
         /\ job_table[id] # newjob
  BY ListedAreJobs DEF IsJobNumber, Occupied, ListedJobs, ControlInv
<1>2. CASE BuiltinUpdates
  <2>1. KernelTypeOK' /\ JobsTyped' /\ LaunchTyped'
    BY <1>2, TypesKept DEF BuiltinUpdates
  <2>2. LoopTyped' /\ MainTyped'
    BY <1>2 DEF BuiltinUpdates, StartUpdate, LoopTyped, MainTyped, mainVars, PC
  <2>3. ControlInv'
    BY <1>2, ListedChanges DEF BuiltinUpdates, StartUpdate, ControlInv, launchVars
  <2> QED
    BY <2>1, <2>2, <2>3
<1>3. ASSUME UNCHANGED <<tableVars, tty, jobVars, loopVars, line, should_exit>>, KernelTypeOK',
             \/ pc' = "killed" /\ UNCHANGED <<launchVars, last_exit_code>>
             \/ \E code \in {0, 1} : BuiltinReturns(code)
      PROVE  OthersTyped' /\ ControlInv'
  <2>1. JobsTyped' /\ LoopTyped'
    BY <1>3, TypesKept
  <2>2. LaunchTyped' /\ pc' \in PC /\ last_exit_code' \in ExitCodes
    BY <1>3, TypesKept, ReturnsTyped, ExitCodesAssumption DEF PC, MainTyped
  <2>3. MainTyped'
    BY <1>3, <2>2 DEF MainTyped
  <2>4. ControlInv'
    BY <1>3, ListedChanges DEF ControlInv, launchVars, BuiltinReturns, CommandReturns, CommandDestroyed
  <2> QED
    BY <1>3, <2>1, <2>2, <2>3, <2>4
<1>4. CASE BuiltinOther
  BY <1>3, <1>4, TypesKept DEF BuiltinOther, kernelVars
<1>5. \A g, sig : SignalGroup(g, sig) /\ UNCHANGED tty => KernelTypeOK'
  BY SignalGroupSurvives DEF KernelTypeOK
<1>6. ASSUME NEW id \in DOMAIN job_table, NEW sig, BuiltinKill(id, sig)
      PROVE  OthersTyped' /\ ControlInv'
  <2>1. KernelTypeOK'
    BY <1>5, <1>6, TypesKept DEF BuiltinKill, kernelVars
  <2> QED
    BY <1>3, <1>6, <2>1 DEF BuiltinKill
<1>7. ASSUME NEW id \in DOMAIN job_table, BuiltinBg(id) PROVE OthersTyped' /\ ControlInv'
  <2>1. KernelTypeOK'
    BY <1>5, <1>7, TypesKept DEF BuiltinBg, kernelVars
  <2> QED
    BY <1>3, <1>7, <2>1 DEF BuiltinBg
<1>8. ASSUME NEW id \in DOMAIN job_table, BuiltinFg(id) PROVE OthersTyped' /\ ControlInv'
  <2> DEFINE h == job_table[id]
  <2>1. h \in ListedJobs /\ h \in Jobs
    BY <1>1, <1>8 DEF BuiltinFg
  <2>2. KernelTypeOK'
    BY <1>8, <2>1, SignalGroupSurvives DEF BuiltinFg, KernelTypeOK, JobsTyped
  <2>3. JobsTyped' /\ LaunchTyped'
    BY <1>8, TypesKept DEF BuiltinFg
  <2>4. LoopTyped'
    BY <1>8, <2>1, ExitCodesAssumption DEF BuiltinFg, StartBlocking, LoopTyped
  <2>5. MainTyped'
    BY <1>8 DEF BuiltinFg, StartBlocking, MainTyped, mainVars, PC
  <2>6. ControlInv'
    BY <1>8, <2>1, ListedChanges DEF BuiltinFg, StartBlocking, ControlInv, launchVars
  <2> QED
    BY <2>2, <2>3, <2>4, <2>5, <2>6
<1> QED
  BY <1>2, <1>4, <1>6, <1>7, <1>8 DEF BuiltinStep

LEMMA BlockStepTyped ==
    ASSUME TypedInv, BlockStep
    PROVE  OthersTyped' /\ ControlInv'
<1> USE DEF TypedInv, OthersTyped
<1>1. CASE BlockWait
  <2>1. target \in Jobs
    BY <1>1, ListedAreJobs DEF BlockWait, ControlInv, LaunchTyped
  <2>2. PICK k \in Unfinished(target) :
           /\ IsReportable(proc[subjobs[target][k].pid], FALSE)
           /\ Collect(target, k)
           /\ exit_status' \in {proc[subjobs[target][k].pid].code, exit_status}
           /\ sub' = k + 1
    BY <1>1 DEF BlockWait, WaitReturns, ExitStatus
  <2>3. k \in Nat /\ subjobs[target][k].pid \in Pids
    BY <2>1, UnfinishedSubjob DEF Subjob
  <2>4. KernelTypeOK' /\ subjobs' \in [Jobs -> Seq(Subjob \cup {NULL})]
    BY <2>1, <2>2, CollectTyped
  <2>5. JobsTyped'
    BY <1>1, <2>4 DEF BlockWait, JobsTyped
  <2>6. exit_status' \in ExitCodes
    <3>1. proc[subjobs[target][k].pid] \in Process
      BY <2>3 DEF KernelTypeOK
    <3>2. proc[subjobs[target][k].pid].code \in ExitCodes
      BY <3>1 DEF Process
    <3> QED
      BY <2>2, <3>2 DEF LoopTyped
  <2>7. LoopTyped'
    <3>1. UNCHANGED <<caller, slot, target>>
      BY <1>1 DEF BlockWait
    <3>2. sub' \in Nat
      BY <2>2, <2>3
    <3> QED
      BY <2>6, <3>1, <3>2 DEF LoopTyped
  <2>8. LaunchTyped' /\ MainTyped'
    BY <1>1, TypesKept DEF BlockWait, MainTyped, mainVars
  <2>9. ControlInv'
    BY <1>1, ListedChanges DEF BlockWait, ControlInv, launchVars
  <2> QED
    BY <2>4, <2>5, <2>7, <2>8, <2>9
<1>2. CASE FgReturns
  <2>1. target \in ListedJobs /\ target \in Jobs /\ target # newjob
    BY <1>2, ListedAreJobs, NullAssumption DEF FgReturns, ControlInv
  <2>2. KernelTypeOK'
    BY <1>2 DEF FgReturns, TerminalTakenBack, KernelTypeOK
  <2>3. JobsTyped'
    <3>1. update_job_status(target) \in Status
      BY StatusFollowsSubjobs
    <3>2. CASE JobFreed(target) /\ shown' = [shown EXCEPT ![target] = "none"]
      BY <3>2, JobFreedTyped DEF JobsTyped
    <3>3. CASE /\ status' = [status EXCEPT ![target] = update_job_status(target)]
               /\ shown' = [shown EXCEPT ![target] = update_job_status(target)]
               /\ UNCHANGED <<pgid, subjobs>>
      BY <3>1, <3>3 DEF JobsTyped
    <3> QED
      BY <1>2, <3>2, <3>3 DEF FgReturns
  <2>4. LoopTyped'
    BY <1>2, LoopLeftTyped DEF FgReturns
  <2>5. LaunchTyped' /\ MainTyped'
    <3>1. LaunchTyped' /\ pc' \in PC /\ last_exit_code' \in ExitCodes
      BY <1>2, ReturnsTyped, ExitCodesAssumption DEF FgReturns
    <3> QED
      BY <1>2, <3>1 DEF FgReturns, MainTyped
  <2>6. /\ newjob' # NULL => newjob' = newjob /\ pc' = "launch"
        /\ pc' \in {"next", "launch"}
        /\ pc' = "next" => newjob' = NULL
        /\ pc' = "launch" => newjob' # NULL
    BY <1>2 DEF FgReturns, BuiltinReturns, CommandReturns, CommandDestroyed
  <2>7. newjob \in heap \ ListedJobs => newjob \in heap' \ ListedJobs'
    BY <1>2, <2>1, RemovalChanges, ListedChanges DEF FgReturns
  <2>8. ControlInv'
    BY <2>6, <2>7 DEF ControlInv
  <2> QED
    BY <2>2, <2>3, <2>4, <2>5, <2>8
<1>3. CASE ForegroundReturns
  <2>1. newjob \in Jobs /\ newjob # NULL
    BY <1>3, ListedAreJobs DEF ForegroundReturns, ControlInv
  <2>2. KernelTypeOK'
    BY <1>3 DEF ForegroundReturns, TerminalTakenBack, KernelTypeOK
  <2>3. JobsTyped'
    <3>1. update_job_status(newjob) \in Status
      BY StatusFollowsSubjobs
    <3>2. CASE JobFreed(newjob) /\ UNCHANGED shown
      BY <3>2, JobFreedTyped DEF JobsTyped
    <3>3. CASE /\ status' = [status EXCEPT ![newjob] = update_job_status(newjob)]
               /\ shown' = [shown EXCEPT ![newjob] = update_job_status(newjob)]
               /\ UNCHANGED <<pgid, subjobs>>
      BY <3>1, <3>3 DEF JobsTyped
    <3> QED
      BY <1>3, <3>2, <3>3 DEF ForegroundReturns
  <2>4. LoopTyped'
    BY <1>3, LoopLeftTyped DEF ForegroundReturns
  <2>5. \E code \in ExitCodes : CommandReturns(code)
    BY <1>3, ExitCodesAssumption DEF ForegroundReturns, ForegroundCode, LoopTyped, LaunchTyped
  <2>6. LaunchTyped' /\ MainTyped'
    BY <1>3, <2>5, ReturnsTyped DEF ForegroundReturns, MainTyped
  <2>7. ControlInv'
    BY <2>5 DEF CommandReturns, CommandDestroyed, ControlInv
  <2> QED
    BY <2>2, <2>3, <2>4, <2>6, <2>7
<1> QED
  BY <1>1, <1>2, <1>3 DEF BlockStep

LEMMA ProcessStepTyped ==
    ASSUME TypedInv, ProcessStep
    PROVE  OthersTyped' /\ ControlInv'
<1>1. KernelTypeOK'
  BY KernelStepSurvives DEF TypedInv, OthersTyped, ProcessStep
<1>2. JobsTyped' /\ LoopTyped' /\ LaunchTyped' /\ MainTyped'
  BY TypesKept DEF TypedInv, OthersTyped, ProcessStep, MainTyped, mainVars
<1>3. ControlInv'
  BY ListedChanges DEF TypedInv, ProcessStep, ControlInv, loopVars, launchVars
<1> QED
  BY <1>1, <1>2, <1>3 DEF OthersTyped

-----------------------------------------------------------------------------
(* Every variable keeps its type.                                          *)

LEMMA TypedInvInit == ShellInit => TypedInv
<1> SUFFICES ASSUME ShellInit PROVE TypedInv
  OBVIOUS
<1>1. TableInv
  BY TableInvInit DEF ShellInit
<1>2. OthersTyped
  BY TypesInit, TypesInParts DEF OthersTyped
<1>3. ControlInv
  BY DEF ShellInit, ControlInv
<1> QED
  BY <1>1, <1>2, <1>3 DEF TypedInv

LEMMA TypedInvStep == TypedInv /\ [ShellNext]_vars => TypedInv'
<1> SUFFICES ASSUME TypedInv, [ShellNext]_vars PROVE TypedInv'
  OBVIOUS
<1>1. TableInv'
  BY ShellStepsTable, TableInvStep DEF TypedInv
<1>2. CASE UNCHANGED vars
  <2>1. OthersTyped'
    BY <1>2, TypesKept DEF TypedInv, OthersTyped, MainTyped, mainVars, vars
  <2>2. ControlInv'
    BY <1>2, ListedChanges DEF TypedInv, ControlInv, vars, loopVars, launchVars
  <2> QED
    BY <1>1, <2>1, <2>2 DEF TypedInv
<1>3. OthersTyped' /\ ControlInv'
  <2>1. CASE ShellStep
    BY <2>1, EndLineTyped, LaunchStepTyped, UpdateStepTyped, BuiltinStepTyped, BlockStepTyped DEF ShellStep
  <2> QED
    BY <1>2, <2>1, UserStepTyped, ProcessStepTyped DEF ShellNext, Ended, TypedInv
<1> QED
  BY <1>1, <1>3 DEF TypedInv

LEMMA TypedInvariant == ShellSpec => []TypedInv
<1> QED
  BY TypedInvInit, TypedInvStep, PTL DEF ShellSpec

\* The state of the shell, of its jobs and of its processes keeps its types:
\* no status is made of a report that is none, and no step works on a job or a
\* subjob that is not there.
THEOREM ShellTypeCorrect == ShellSpec => []ShellTypeOK
<1>1. TypedInv => ShellTypeOK
  BY TypesInParts DEF TypedInv, TableInv, OthersTyped
<1> QED
  BY TypedInvariant, <1>1, PTL

-----------------------------------------------------------------------------
(* What was printed about the jobs.                                        *)

\* At every moment, not at the prompt only, the last thing printed for a
\* listed job is its status, and it is not a final one.  A job that is being
\* launched has its first status still.
AnnouncedInv ==
    /\ \A h \in ListedJobs : shown[h] = status[h] /\ ~is_finished_status(status[h])
    /\ newjob # NULL => status[newjob] = "RUNNING"

\* The steps that print nothing and list the same jobs as before.
Quiet ==
    /\ UNCHANGED <<tableVars, status, shown>>
    /\ newjob' \in {newjob, NULL}

LEMMA QuietSteps ==
    ASSUME ShellNext
    PROVE  \/ Quiet
           \/ \E c \in Commands, bg \in BOOLEAN : RunCommand(c, bg)
           \/ \E p \in Pids : HandshakeFails(p)
           \/ LaunchFails
           \/ LaunchDone
           \/ \E i \in DOMAIN job_table : UpdateJob(i)
           \/ FgReturns
           \/ ForegroundReturns
<1>1. CASE ReadLine \/ EndLine \/ ProcessStep \/ Ended
  BY <1>1 DEF ReadLine, EndLine, ProcessStep, Ended, vars, jobVars, launchVars, Quiet
<1>2. ASSUME NEW p \in Pids, LaunchProcess(p) \/ HandshakeBreaks(p) PROVE Quiet
  BY <1>2 DEF LaunchProcess, HandshakeBreaks, launchVars, Quiet
<1>3. CASE LaunchBuiltin \/ LaunchForeground
  BY <1>3 DEF LaunchBuiltin, LaunchForeground, jobVars, launchVars, Quiet
<1>4. ASSUME NEW i \in DOMAIN job_table, UpdateWait(i) PROVE Quiet
  BY <1>4 DEF UpdateWait, launchVars, Quiet
<1>5. \A code : BuiltinReturns(code) => newjob' \in {newjob, NULL}
  BY DEF BuiltinReturns, CommandReturns, CommandDestroyed
<1>6. CASE UpdateReturnsToPrompt \/ UpdateReturnsToJobs \/ ExitRefused
  BY <1>5, <1>6 DEF UpdateReturnsToPrompt, UpdateReturnsToJobs, ExitRefused, jobVars, launchVars, Quiet
<1>7. ASSUME NEW val \in ExitCodes, ExitAccepted(val) PROVE Quiet
  BY <1>7 DEF ExitAccepted, CommandDestroyed, jobVars, Quiet
<1>8. CASE BuiltinStep
  BY <1>5, <1>8 DEF BuiltinStep, BuiltinUpdates, BuiltinOther, BuiltinKill, BuiltinBg, BuiltinFg,
                    jobVars, launchVars, Quiet
<1>9. CASE BlockWait
  BY <1>9 DEF BlockWait, launchVars, Quiet
<1> QED
  BY <1>1, <1>2, <1>3, <1>4, <1>6, <1>7, <1>8, <1>9
     DEF ShellNext, UserStep, ShellStep, LaunchStep, UpdateStep, BlockStep

\* A job that is finished has no process left to wait for.
LEMMA FinishedIsOver == \A h : is_job_finished(h) => Unfinished(h) = {}
BY DEF is_job_finished, LastStatuses, Unfinished, is_finished_status

LEMMA AnnouncedStep == TypedInv /\ AnnouncedInv /\ [ShellNext]_vars => AnnouncedInv'
<1> SUFFICES ASSUME TypedInv, AnnouncedInv, [ShellNext]_vars PROVE AnnouncedInv'
  OBVIOUS
<1> USE DEF TypedInv
<1>1. CASE Quiet \/ UNCHANGED vars
  <2>1. ListedJobs' = ListedJobs /\ UNCHANGED <<status, shown>> /\ newjob' \in {newjob, NULL}
    BY <1>1, ListedChanges DEF Quiet, vars, jobVars, launchVars
  <2> QED
    BY <2>1 DEF AnnouncedInv, is_finished_status
<1>2. /\ newjob # NULL => newjob \in Jobs /\ newjob \notin ListedJobs
      /\ ListedJobs \subseteq Jobs
      /\ status \in [Jobs -> Status]
      /\ shown \in [Jobs -> Status \cup {"none"}]
  BY ListedAreJobs DEF ControlInv, OthersTyped, JobsTyped
<1>3. ASSUME NEW c \in Commands, NEW bg \in BOOLEAN, RunCommand(c, bg) PROVE AnnouncedInv'
  <2>1. CASE UNCHANGED <<tableVars, status, shown, newjob>>
    BY <1>1, <2>1 DEF Quiet
  <2>2. ASSUME NEW h \in Jobs, new_job(h), newjob' = h,
               status' = [status EXCEPT ![h] = "RUNNING"], shown' = [shown EXCEPT ![h] = "none"]
        PROVE  AnnouncedInv'
    <3>1. ListedJobs' = ListedJobs /\ h \notin ListedJobs
      BY <2>2, ListedChanges, ListedAreJobs DEF new_job
    <3>2. \A g \in ListedJobs : g \in Jobs /\ status'[g] = status[g] /\ shown'[g] = shown[g]
      BY <1>2, <2>2, <3>1
    <3>3. status'[h] = "RUNNING"
      BY <1>2, <2>2
    <3> QED
      BY <2>2, <3>1, <3>2, <3>3 DEF AnnouncedInv, is_finished_status
  <2> QED
    BY <1>3, <2>1, <2>2 DEF RunCommand, jobVars
<1>4. ASSUME destroy_job(newjob), JobFreed(newjob), UNCHANGED shown, newjob' = NULL
      PROVE  AnnouncedInv'
  <2>1. ListedJobs' = ListedJobs /\ newjob \notin ListedJobs
    BY <1>4, ListedChanges DEF destroy_job
  <2>2. \A g \in ListedJobs : status'[g] = status[g] /\ shown'[g] = shown[g]
    BY <1>2, <1>4, <2>1 DEF JobFreed
  <2> QED
    BY <1>4, <2>1, <2>2 DEF AnnouncedInv, is_finished_status
<1>5. (\E p \in Pids : HandshakeFails(p)) \/ LaunchFails => AnnouncedInv'
  BY <1>4 DEF HandshakeFails, LaunchFails, CommandReturns, CommandDestroyed
<1>6. CASE LaunchDone
  <2>1. /\ ListedJobs' = ListedJobs \cup {newjob}
        /\ shown' = [shown EXCEPT ![newjob] = status[newjob]]
        /\ status' = status
        /\ newjob' = NULL
        /\ newjob # NULL
    BY <1>6, ListedChanges DEF LaunchDone, CommandReturns, CommandDestroyed, ControlInv
  <2> QED
    BY <1>2, <2>1 DEF AnnouncedInv, is_finished_status, FinishedStatus
<1>7. \A h : ~is_job_finished(h) => ~is_finished_status(update_job_status(h))
  BY StatusFollowsSubjobs DEF is_finished_status, FinishedStatus
<1>8. ASSUME NEW i \in DOMAIN job_table, UpdateJob(i) PROVE AnnouncedInv'
  <2> DEFINE h == job_table[i]
             new == update_job_status(h)
  <2>1. h \in ListedJobs /\ h # newjob /\ newjob' = newjob
    BY <1>2, <1>8, NullAssumption DEF UpdateJob, AtSlot, Occupied, ListedJobs, launchVars
  <2>2. CASE remove_job(job_id[h]) /\ JobFreed(h)
    <3>1. ListedJobs' = ListedJobs \ {h}
      BY <2>1, <2>2, RemovalChanges
    <3>2. \A g \in Jobs \ {h} : status'[g] = status[g] /\ shown'[g] = shown[g]
      BY <1>2, <1>8, <2>2 DEF UpdateJob, JobFreed
    <3> QED
      BY <1>2, <2>1, <3>1, <3>2 DEF AnnouncedInv, is_finished_status
  <2>3. CASE /\ ~is_job_finished(h)
             /\ status' = [status EXCEPT ![h] = new]
             /\ UNCHANGED tableVars
    <3>1. ListedJobs' = ListedJobs
      BY <2>3, ListedChanges
    <3>2. shown' = IF status[h] # new THEN [shown EXCEPT ![h] = new] ELSE shown
      BY <1>8 DEF UpdateJob
    <3>3. status'[h] = new /\ shown'[h] = new /\ ~is_finished_status(new)
      BY <1>2, <1>7, <2>1, <2>3, <3>2 DEF AnnouncedInv
    <3>4. \A g \in Jobs \ {h} : status'[g] = status[g] /\ shown'[g] = shown[g]
      BY <1>2, <2>3, <3>2
    <3> QED
      BY <1>2, <2>1, <3>1, <3>3, <3>4 DEF AnnouncedInv, is_finished_status
  <2> QED
    BY <1>8, <2>2, <2>3 DEF UpdateJob
<1>9. CASE FgReturns
  <2>1. target \in ListedJobs /\ target # newjob /\ newjob' \in {newjob, NULL}
    BY <1>2, <1>9, NullAssumption DEF FgReturns, ControlInv, BuiltinReturns, CommandReturns, CommandDestroyed
  <2>2. CASE /\ remove_job(job_id[target])
             /\ JobFreed(target)
             /\ shown' = [shown EXCEPT ![target] = "none"]
    <3>1. ListedJobs' = ListedJobs \ {target}
      BY <2>1, <2>2, RemovalChanges
    <3>2. \A g \in Jobs \ {target} : status'[g] = status[g] /\ shown'[g] = shown[g]
      BY <1>2, <2>2 DEF JobFreed
    <3> QED
      BY <1>2, <2>1, <3>1, <3>2 DEF AnnouncedInv, is_finished_status
  <2>3. CASE /\ ~is_job_finished(target)
             /\ status' = [status EXCEPT ![target] = update_job_status(target)]
             /\ shown' = [shown EXCEPT ![target] = update_job_status(target)]
             /\ UNCHANGED tableVars
    <3>1. ListedJobs' = ListedJobs
      BY <2>3, ListedChanges
    <3>2. \A g \in Jobs \ {target} : status'[g] = status[g] /\ shown'[g] = shown[g]
      BY <1>2, <2>3
    <3>3. status'[target] = shown'[target] /\ ~is_finished_status(status'[target])
      BY <1>2, <1>7, <2>1, <2>3
    <3> QED
      BY <1>2, <2>1, <3>1, <3>2, <3>3 DEF AnnouncedInv, is_finished_status
  <2> QED
    BY <1>9, <2>2, <2>3 DEF FgReturns
<1>10. CASE ForegroundReturns
  <2>1. newjob # NULL /\ newjob' = NULL
    BY <1>10 DEF ForegroundReturns, ControlInv, CommandReturns, CommandDestroyed
  <2>2. CASE destroy_job(newjob) /\ JobFreed(newjob) /\ UNCHANGED shown
    BY <1>4, <2>1, <2>2
  <2>3. CASE /\ ~is_job_finished(newjob)
             /\ add_job(newjob)
             /\ status' = [status EXCEPT ![newjob] = update_job_status(newjob)]
             /\ shown' = [shown EXCEPT ![newjob] = update_job_status(newjob)]
    <3>1. ListedJobs' = ListedJobs \cup {newjob}
      BY <2>3, ListedChanges
    <3>2. \A g \in Jobs \ {newjob} : status'[g] = status[g] /\ shown'[g] = shown[g]
      BY <1>2, <2>3
    <3>3. status'[newjob] = shown'[newjob] /\ ~is_finished_status(status'[newjob])
      BY <1>2, <1>7, <2>1, <2>3
    <3> QED
      BY <1>2, <2>1, <3>1, <3>2, <3>3 DEF AnnouncedInv, is_finished_status
  <2> QED
    BY <1>10, <2>2, <2>3 DEF ForegroundReturns
<1> QED
  BY <1>1, <1>3, <1>5, <1>6, <1>8, <1>9, <1>10, QuietSteps

LEMMA AnnouncedInvariant == ShellSpec => []AnnouncedInv
<1>1. ShellInit => AnnouncedInv
  BY DEF ShellInit, TableInit, EmptySlots, AnnouncedInv, ListedJobs, Occupied
<1> QED
  BY <1>1, TypedInvariant, AnnouncedStep, PTL DEF ShellSpec

\* The user can trust the messages of the shell: at the prompt, what was last
\* printed for every job of the table is its status.
THEOREM AnnouncementsUpToDate == ShellSpec => []AnnouncedAtPrompt
<1>1. AnnouncedInv => AnnouncedAtPrompt
  BY DEF AnnouncedInv, AnnouncedAtPrompt
<1> QED
  BY <1>1, AnnouncedInvariant, PTL

-----------------------------------------------------------------------------
(* How a job leaves the table.                                             *)

\* update_jobs and fg are the only ones to remove a job.
LEMMA Removals ==
    ASSUME TypedInv, AnnouncedInv, ShellNext, NEW h \in ListedJobs \ ListedJobs'
    PROVE  /\ is_job_finished(h)
           /\ \/ shown'[h] = update_job_status(h) /\ shown[h] = status[h]
                 /\ ~is_finished_status(status[h])
              \/ caller = "fg" /\ shown'[h] = "none"
<1> USE DEF TypedInv
<1>1. CASE Quiet
  BY <1>1, ListedChanges DEF Quiet
<1>2. ASSUME NEW c \in Commands, NEW bg \in BOOLEAN, RunCommand(c, bg) PROVE FALSE
  BY <1>2, ListedChanges DEF RunCommand
<1>3. (\E p \in Pids : HandshakeFails(p)) \/ LaunchFails => FALSE
  BY ListedChanges DEF HandshakeFails, LaunchFails
<1>4. LaunchDone => FALSE
  BY ListedChanges DEF LaunchDone
<1>5. ForegroundReturns => FALSE
  BY ListedChanges DEF ForegroundReturns
<1>6. h \in Jobs /\ shown \in [Jobs -> Status \cup {"none"}]
  BY ListedAreJobs DEF OthersTyped, JobsTyped
<1>7. ASSUME NEW i \in DOMAIN job_table, UpdateJob(i)
      PROVE  /\ is_job_finished(h)
             /\ shown'[h] = update_job_status(h)
             /\ shown[h] = status[h]
             /\ ~is_finished_status(status[h])
  <2> DEFINE g == job_table[i]
  <2>1. g \in ListedJobs
    BY <1>7 DEF UpdateJob, AtSlot, Occupied, ListedJobs
  <2>2. ~UNCHANGED tableVars
    BY ListedChanges
  <2>3. is_job_finished(g) /\ remove_job(job_id[g])
    BY <1>7, <2>2 DEF UpdateJob
  <2>4. h = g
    BY <2>1, <2>3, RemovalChanges
  <2>5. shown[h] = status[h] /\ ~is_finished_status(status[h])
    BY DEF AnnouncedInv
  <2>6. is_finished_status(update_job_status(h))
    BY <2>3, <2>4, StatusFollowsSubjobs DEF is_finished_status
  <2>7. status[h] # update_job_status(h)
    BY <2>5, <2>6
  <2>8. shown' = [shown EXCEPT ![h] = update_job_status(h)]
    BY <1>7, <2>4, <2>7 DEF UpdateJob
  <2> QED
    BY <1>6, <2>3, <2>4, <2>5, <2>8
<1>8. ASSUME FgReturns PROVE is_job_finished(h) /\ caller = "fg" /\ shown'[h] = "none"
  <2>1. target \in ListedJobs /\ caller = "fg"
    BY <1>8 DEF FgReturns, ControlInv
  <2>2. ~UNCHANGED tableVars
    BY ListedChanges
  <2>3. /\ is_job_finished(target)
        /\ remove_job(job_id[target])
        /\ shown' = [shown EXCEPT ![target] = "none"]
    BY <1>8, <2>2 DEF FgReturns
  <2>4. h = target
    BY <2>1, <2>3, RemovalChanges
  <2> QED
    BY <1>6, <2>1, <2>3, <2>4
<1> QED
  BY <1>1, <1>2, <1>3, <1>4, <1>5, <1>7, <1>8, QuietSteps

\* A job only leaves the table when all its processes are known to have ended,
\* and never without a message that says so, unless the user was waiting for
\* it with fg.
THEOREM RemovalsAreAnnounced == ShellSpec => RemovalAnnounced
<1> DEFINE Announces ==
      \A h \in ListedJobs \ ListedJobs' :
         /\ Unfinished(h) = {}
         /\ caller # "fg" => is_finished_status(shown'[h]) /\ shown'[h] # shown[h]
<1>1. TypedInv /\ AnnouncedInv /\ [ShellNext]_vars => [Announces]_vars
  <2> SUFFICES ASSUME TypedInv, AnnouncedInv, ShellNext, NEW h \in ListedJobs \ ListedJobs'
               PROVE  /\ Unfinished(h) = {}
                      /\ caller # "fg" => is_finished_status(shown'[h]) /\ shown'[h] # shown[h]
    OBVIOUS
  <2>1. is_job_finished(h) => is_finished_status(update_job_status(h))
    BY StatusFollowsSubjobs DEF is_finished_status
  <2> QED
    BY <2>1, Removals, FinishedIsOver
<1> QED
  BY <1>1, TypedInvariant, AnnouncedInvariant, PTL DEF ShellSpec, RemovalAnnounced

\* Done and Killed are only said of a job whose group has no process left.
THEOREM VerdictsAreTrue == ShellSpec => VerdictIsTrue
<1> DEFINE IsTrue ==
      \A h \in ListedJobs \ ListedJobs' :
         shown'[h] \in {"DONE", "KILLED"} => pgid[h] # NULL /\ ~GroupExists(pgid[h])
<1>1. TypedInv /\ AnnouncedInv /\ [ShellNext]_vars => [IsTrue]_vars
  <2> SUFFICES ASSUME TypedInv, AnnouncedInv, ShellNext, NEW h \in ListedJobs \ ListedJobs',
                      shown'[h] \in {"DONE", "KILLED"}
               PROVE  pgid[h] # NULL /\ ~GroupExists(pgid[h])
    OBVIOUS
  <2>1. is_job_finished(h) /\ update_job_status(h) \in {"DONE", "KILLED"}
    BY Removals
  <2>2. ~is_job_running(h) /\ ~is_job_suspended(h)
    BY <2>1 DEF is_job_running, is_job_suspended, is_job_finished, FinishedStatus
  <2>3. ~Ping(h)
    BY <2>1, <2>2 DEF update_job_status
  <2> QED
    BY <2>3 DEF Ping
<1> QED
  BY <1>1, TypedInvariant, AnnouncedInvariant, PTL DEF ShellSpec, VerdictIsTrue

-----------------------------------------------------------------------------
(* Which processes the shell waits for.                                    *)

\* Job h has a process in place k that the loops will call waitpid for.
Watches(h, k) == h \in Tracked /\ k \in Unfinished(h)

\* The steps that change neither the jobs nor which processes there are.
SameProcesses ==
    /\ UNCHANGED <<tableVars, pgid, subjobs>>
    /\ newjob' \in {newjob, NULL}
    /\ ProcessesSurvive

LEMMA UnfinishedKept == UNCHANGED subjobs => \A h : Unfinished(h)' = Unfinished(h)
BY DEF Unfinished, Forked, is_finished_status

\* No new process is watched, and those that are stay what they were.
LEMMA WaitsKept ==
    ASSUME NoStrayWait,
           \A h, k : Watches(h, k)' =>
              /\ Watches(h, k)
              /\ subjobs'[h][k].pid = subjobs[h][k].pid
              /\ pgid'[h] = pgid[h]
              /\ Survives(proc[subjobs[h][k].pid], proc'[subjobs[h][k].pid])
    PROVE  NoStrayWait'
BY DEF NoStrayWait, Watches, Survives

\* The processes that are watched are children in the group of their job.
LEMMA WatchedProcess ==
    ASSUME TypedInv, NoStrayWait, NEW h, NEW k, Watches(h, k)
    PROVE  /\ h \in Jobs
           /\ k \in 1 .. Len(subjobs[h])
           /\ subjobs[h][k].pid \in Pids
           /\ proc[subjobs[h][k].pid] \in Process
           /\ proc[subjobs[h][k].pid].st # "free"
           /\ pgid[h] # NULL
<1>1. h \in Jobs /\ k \in Unfinished(h)
  BY ListedAreJobs DEF Watches, Tracked, Launched, TypedInv, OthersTyped, LaunchTyped
<1>2. k \in 1 .. Len(subjobs[h]) /\ subjobs[h][k].pid \in Pids
  BY <1>1, UnfinishedSubjob DEF TypedInv, OthersTyped, Subjob
<1>3. proc[subjobs[h][k].pid] \in Process
  BY <1>2 DEF TypedInv, OthersTyped, KernelTypeOK
<1>4. /\ proc[subjobs[h][k].pid].st # "free"
      /\ proc[subjobs[h][k].pid].grp = pgid[h]
  BY DEF NoStrayWait, Watches
<1>5. proc[subjobs[h][k].pid].grp \in Pids \cup {SHELL}
  BY <1>3 DEF Process
<1> QED
  BY <1>1, <1>2, <1>3, <1>4, <1>5, PgidAssumption

LEMMA SameProcessesSteps ==
    ASSUME TypedInv, ShellNext
    PROVE  \/ SameProcesses
           \/ \E c \in Commands, bg \in BOOLEAN : RunCommand(c, bg)
           \/ \E p \in Pids : LaunchProcess(p) \/ HandshakeFails(p) \/ HandshakeBreaks(p)
           \/ LaunchFails
           \/ LaunchDone
           \/ \E i \in DOMAIN job_table : UpdateWait(i) \/ UpdateJob(i)
           \/ BlockWait
           \/ FgReturns
           \/ ForegroundReturns
<1> USE DEF TypedInv, OthersTyped
<1>1. UNCHANGED proc => ProcessesSurvive
  BY DEF ProcessesSurvive, Survives
<1>2. CASE ReadLine \/ EndLine \/ Ended
  BY <1>1, <1>2 DEF ReadLine, EndLine, Ended, vars, kernelVars, jobVars, launchVars, SameProcesses
<1>3. CASE ProcessStep
  BY <1>3, KernelStepSurvives DEF ProcessStep, jobVars, launchVars, SameProcesses
<1>4. CASE LaunchBuiltin \/ LaunchForeground
  BY <1>1, <1>4 DEF LaunchBuiltin, LaunchForeground, kernelVars, jobVars, launchVars, SameProcesses
<1>5. \A code : BuiltinReturns(code) => newjob' \in {newjob, NULL}
  BY DEF BuiltinReturns, CommandReturns, CommandDestroyed
<1>6. CASE UpdateReturnsToPrompt \/ UpdateReturnsToJobs \/ ExitRefused
  BY <1>1, <1>5, <1>6 DEF UpdateReturnsToPrompt, UpdateReturnsToJobs, ExitRefused, kernelVars,
                          jobVars, launchVars, SameProcesses
<1>7. ASSUME NEW val \in ExitCodes, ExitAccepted(val) PROVE SameProcesses
  BY <1>1, <1>7 DEF ExitAccepted, CommandDestroyed, kernelVars, jobVars, SameProcesses
<1>8. CASE BuiltinUpdates \/ BuiltinOther
  BY <1>1, <1>5, <1>8 DEF BuiltinUpdates, BuiltinOther, kernelVars, jobVars, launchVars, SameProcesses
<1>9. \A g, sig : SignalGroup(g, sig) => ProcessesSurvive
  BY SignalGroupSurvives
<1>10. ASSUME NEW id \in DOMAIN job_table, NEW sig, BuiltinKill(id, sig) PROVE SameProcesses
  BY <1>1, <1>5, <1>9, <1>10 DEF BuiltinKill, jobVars, launchVars, SameProcesses
<1>11. ASSUME NEW id \in DOMAIN job_table, BuiltinBg(id) \/ BuiltinFg(id) PROVE SameProcesses
  BY <1>1, <1>5, <1>9, <1>11 DEF BuiltinBg, BuiltinFg, jobVars, launchVars, SameProcesses
<1> QED
  BY <1>2, <1>3, <1>4, <1>6, <1>7, <1>8, <1>10, <1>11
     DEF ShellNext, UserStep, ShellStep, LaunchStep, UpdateStep, BuiltinStep, BlockStep

\* Collecting a report either learns that the process has ended, and then it
\* is watched no more, or leaves it a child of the shell.
LEMMA CollectKeepsWaits ==
    ASSUME TypedInv, NoStrayWait, NEW h, NEW k, NEW w, Watches(h, k),
           IsReportable(proc[subjobs[h][k].pid], w), Collect(h, k),
           UNCHANGED <<tableVars, pgid, newjob>>
    PROVE  NoStrayWait'
<1> DEFINE p == subjobs[h][k].pid
           new == job_status_from_int(proc[p])
<1>1. /\ h \in Jobs /\ k \in 1 .. Len(subjobs[h]) /\ p \in Pids /\ proc[p] \in Process
  BY WatchedProcess
<1>2. Tracked' = Tracked
  BY ListedChanges DEF TypedInv, Tracked, Launched
<1>3. new \in Status /\ (proc[p].st \in Zombies => new \in FinishedStatus)
  BY <1>1, ReportGivesStatus
<1>4. subjobs' = [subjobs EXCEPT ![h] =
                     [subjobs[h] EXCEPT ![k] = [subjobs[h][k] EXCEPT !.last_status = new]]]
  BY DEF Collect
<1>5. /\ subjobs[h][k] \in Subjob
      /\ subjobs[h] \in Seq(Subjob \cup {NULL})
      /\ subjobs \in [Jobs -> Seq(Subjob \cup {NULL})]
  BY <1>1, UnfinishedSubjob DEF TypedInv, OthersTyped, JobsTyped, Watches
<1>6. subjobs'[h] = [subjobs[h] EXCEPT ![k] = [subjobs[h][k] EXCEPT !.last_status = new]]
  BY <1>1, <1>4, <1>5
<1>7. subjobs'[h][k] = [subjobs[h][k] EXCEPT !.last_status = new]
  BY <1>1, <1>5, <1>6
<1>8. subjobs'[h][k].pid = p /\ subjobs'[h][k].last_status = new
  BY <1>5, <1>7 DEF Subjob
<1>9. DOMAIN subjobs'[h] = DOMAIN subjobs[h] /\ \A m : m # k => subjobs'[h][m] = subjobs[h][m]
  BY <1>1, <1>5, <1>6
<1>10. \A g : g # h => subjobs'[g] = subjobs[g]
  BY <1>4, <1>5
<1>11. \A g, m : m \in Unfinished(g)' => m \in Unfinished(g) \/ (g = h /\ m = k)
  BY <1>9, <1>10 DEF Unfinished, Forked, is_finished_status
<1>12. ASSUME NEW g, NEW m, Watches(g, m)'
       PROVE  /\ Watches(g, m)
              /\ subjobs'[g][m].pid = subjobs[g][m].pid
              /\ pgid'[g] = pgid[g]
              /\ Survives(proc[subjobs[g][m].pid], proc'[subjobs[g][m].pid])
  <2>1. Watches(g, m) /\ pgid'[g] = pgid[g]
    BY <1>2, <1>11, <1>12 DEF Watches
  <2>2. subjobs'[g][m].pid = subjobs[g][m].pid
    BY <1>8, <1>9, <1>10
  <2>3. CASE g = h /\ m = k
    <3>1. new \notin FinishedStatus
      BY <1>8, <1>12, <2>3 DEF Watches, Unfinished, is_finished_status
    <3>2. Survives(proc[p], AfterReport(proc[p]))
      BY <1>1, <1>3, <3>1, AfterReportIsProcess
    <3> QED
      BY <1>1, <2>1, <2>2, <2>3, <3>2 DEF Collect, TypedInv, OthersTyped, KernelTypeOK
  <2>4. CASE ~(g = h /\ m = k)
    <3>1. subjobs[g][m].pid # p
      BY <2>1, <2>4 DEF NoStrayWait, Watches
    <3>2. subjobs[g][m].pid \in Pids
      BY <2>1, WatchedProcess
    <3>3. proc'[subjobs[g][m].pid] = proc[subjobs[g][m].pid]
      BY <1>1, <3>1, <3>2 DEF Collect, TypedInv, OthersTyped, KernelTypeOK
    <3> QED
      BY <2>1, <2>2, <3>3 DEF Survives
  <2> QED
    BY <2>3, <2>4
<1> QED
  BY <1>12, WaitsKept

\* Freeing a job only takes processes from the watched ones.
LEMMA FreeingKeepsWaits ==
    ASSUME TypedInv, NoStrayWait, NEW x \in Jobs, JobFreed(x), Tracked' \subseteq Tracked,
           \A h, k : Watches(h, k) =>
              Survives(proc[subjobs[h][k].pid], proc'[subjobs[h][k].pid])
    PROVE  NoStrayWait'
<1>1. /\ subjobs' = [subjobs EXCEPT ![x] = <<>>]
      /\ pgid' = [pgid EXCEPT ![x] = NULL]
      /\ subjobs \in [Jobs -> Seq(Subjob \cup {NULL})]
      /\ pgid \in [Jobs -> Pids \cup {NULL}]
  BY DEF JobFreed, TypedInv, OthersTyped, JobsTyped
<1>2. Unfinished(x)' = {}
  BY <1>1 DEF Unfinished, Forked
<1>3. \A h : h # x => Unfinished(h)' = Unfinished(h) /\ subjobs'[h] = subjobs[h] /\ pgid'[h] = pgid[h]
  BY <1>1 DEF Unfinished, Forked, is_finished_status
<1> QED
  BY <1>2, <1>3, WaitsKept DEF Watches

\* The same jobs with the same processes.
LEMMA SameWaits ==
    ASSUME TypedInv, NoStrayWait, UNCHANGED <<pgid, subjobs>>, Tracked' \subseteq Tracked,
           \A h, k : Watches(h, k) =>
              Survives(proc[subjobs[h][k].pid], proc'[subjobs[h][k].pid])
    PROVE  NoStrayWait'
BY UnfinishedKept, WaitsKept DEF Watches

LEMMA NewJobKeepsWaits ==
    ASSUME TypedInv, NoStrayWait, NEW c \in Commands, NEW bg \in BOOLEAN, RunCommand(c, bg)
    PROVE  NoStrayWait'
<1>1. \A r : Survives(r, r)
  BY DEF Survives
<1>2. UNCHANGED proc
  BY DEF RunCommand, kernelVars
<1>3. CASE UNCHANGED <<tableVars, pgid, subjobs, newjob>>
  BY <1>1, <1>2, <1>3, ListedChanges, SameWaits DEF TypedInv, Tracked, Launched
<1>4. ASSUME NEW h \in Jobs, new_job(h), newjob' = h, pgid' = [pgid EXCEPT ![h] = NULL],
             subjobs' = [subjobs EXCEPT ![h] = [k \in 1 .. Len(c) |-> NULL]]
      PROVE  NoStrayWait'
  <2>1. /\ subjobs \in [Jobs -> Seq(Subjob \cup {NULL})]
        /\ pgid \in [Jobs -> Pids \cup {NULL}]
    BY DEF TypedInv, OthersTyped, JobsTyped
  <2>2. subjobs'[h] = [k \in 1 .. Len(c) |-> NULL]
    BY <1>4, <2>1
  <2>3. Unfinished(h)' = {}
    BY <2>2 DEF Unfinished, Forked
  <2>4. \A g : g # h => Unfinished(g)' = Unfinished(g) /\ subjobs'[g] = subjobs[g] /\ pgid'[g] = pgid[g]
    BY <1>4, <2>1 DEF Unfinished, Forked, is_finished_status
  <2>5. Tracked' \subseteq Tracked \cup {h}
    BY <1>4, ListedChanges DEF TypedInv, Tracked, Launched
  <2> QED
    BY <1>1, <1>2, <2>3, <2>4, <2>5, WaitsKept DEF Watches
<1> QED
  BY <1>3, <1>4 DEF RunCommand, jobVars

LEMMA LaunchKeepsWaits ==
    ASSUME TypedInv, NoStrayWait, NEW p \in Pids, LaunchProcess(p)
    PROVE  NoStrayWait'
<1> DEFINE g == LaunchGroup(p)
<1>1. newjob \in Jobs /\ newjob \in Tracked
  BY ListedAreJobs DEF TypedInv, ControlInv, LaunchProcess, Tracked, Launched
<1>2. Tracked' = Tracked
  BY ListedChanges DEF TypedInv, LaunchProcess, Tracked, Launched
<1>3. /\ subjobs \in [Jobs -> Seq(Subjob \cup {NULL})]
      /\ pgid \in [Jobs -> Pids \cup {NULL}]
      /\ proc \in [Pids -> Process]
  BY DEF TypedInv, OthersTyped, JobsTyped, KernelTypeOK
<1>4. g \in Pids
  BY <1>1, <1>3 DEF LaunchGroup
<1>5. /\ subjobs' = [subjobs EXCEPT ![newjob] = [subjobs[newjob] EXCEPT ![call] = Start(p)]]
      /\ pgid' = [pgid EXCEPT ![newjob] = g]
      /\ proc' = [proc EXCEPT ![p] = NewProcess(g, IF background THEN "bg" ELSE "fg")]
  BY DEF LaunchProcess
<1>6. proc'[p].st = "live" /\ proc'[p].grp = g /\ pgid'[newjob] = g
  BY <1>1, <1>3, <1>4, <1>5, NewIsProcess
<1>7. \A h, k : Watches(h, k) => subjobs[h][k].pid \in Pids \ {p}
  BY WatchedProcess DEF LaunchProcess, IsFreePid
<1>8. subjobs'[newjob] = [subjobs[newjob] EXCEPT ![call] = Start(p)]
  BY <1>1, <1>3, <1>5
<1>9. ASSUME NEW h, NEW k, Watches(h, k)', ~(h = newjob /\ k = call)
      PROVE  /\ Watches(h, k)
             /\ subjobs'[h][k].pid = subjobs[h][k].pid
             /\ pgid'[h] = pgid[h]
             /\ proc'[subjobs[h][k].pid] = proc[subjobs[h][k].pid]
  <2>1. subjobs'[h][k] = subjobs[h][k] /\ DOMAIN subjobs'[h] = DOMAIN subjobs[h]
    BY <1>3, <1>5, <1>8, <1>9
  <2>2. Watches(h, k)
    BY <1>2, <1>9, <2>1 DEF Watches, Unfinished, Forked, is_finished_status
  <2>3. pgid'[h] = pgid[h]
    <3>1. CASE h = newjob
      BY <1>1, <1>3, <1>5, <2>2, <3>1, WatchedProcess DEF LaunchGroup
    <3>2. CASE h # newjob
      BY <1>3, <1>5, <3>2
    <3> QED
      BY <3>1, <3>2
  <2>4. proc'[subjobs[h][k].pid] = proc[subjobs[h][k].pid]
    BY <1>3, <1>5, <1>7, <2>2
  <2> QED
    BY <2>1, <2>2, <2>3, <2>4
<1>10. ASSUME NEW h, NEW k, Watches(h, k)', h = newjob, k = call
       PROVE  subjobs'[h][k].pid = p
  <2>1. k \in DOMAIN subjobs'[h]
    BY <1>10 DEF Watches, Unfinished, Forked
  <2>2. subjobs'[h] = [subjobs[h] EXCEPT ![k] = Start(p)]
    BY <1>8, <1>10
  <2>3. subjobs'[h][k] = Start(p)
    BY <2>1, <2>2
  <2> QED
    BY <2>3 DEF Start
<1>11. ASSUME NEW h, NEW k, Watches(h, k)', NEW q, q = subjobs'[h][k].pid
       PROVE  /\ proc'[q].st # "free"
              /\ proc'[q].grp = pgid'[h]
              /\ \A f, m : Watches(f, m)' /\ subjobs'[f][m].pid = q => f = h /\ m = k
  <2>1. CASE h = newjob /\ k = call
    <3>1. q = p
      BY <1>10, <1>11, <2>1
    <3>2. ASSUME NEW f, NEW m, Watches(f, m)', subjobs'[f][m].pid = p PROVE f = newjob /\ m = call
      BY <1>7, <1>9, <3>2
    <3> QED
      BY <1>6, <2>1, <3>1, <3>2
  <2>2. CASE ~(h = newjob /\ k = call)
    <3>1. /\ Watches(h, k)
          /\ q = subjobs[h][k].pid
          /\ q # p
          /\ pgid'[h] = pgid[h]
          /\ proc'[q] = proc[q]
      BY <1>7, <1>9, <1>11, <2>2
    <3>2. /\ proc[q].st # "free"
          /\ proc[q].grp = pgid[h]
          /\ \A f, m : Watches(f, m) /\ subjobs[f][m].pid = q => f = h /\ m = k
      BY <3>1 DEF NoStrayWait, Watches
    <3>3. ASSUME NEW f, NEW m, Watches(f, m)', subjobs'[f][m].pid = q PROVE f = h /\ m = k
      <4>1. ~(f = newjob /\ m = call)
        BY <1>10, <3>1, <3>3
      <4> QED
        BY <1>9, <3>2, <3>3, <4>1
    <3> QED
      BY <3>1, <3>2, <3>3
  <2> QED
    BY <2>1, <2>2
<1> QED
  BY <1>11 DEF NoStrayWait, Watches

LEMMA FailedLaunchKeepsWaits ==
    ASSUME TypedInv, NoStrayWait,
           LaunchFails \/ \E p \in Pids : HandshakeFails(p) \/ HandshakeBreaks(p)
    PROVE  NoStrayWait'
<1>1. newjob \in Jobs /\ newjob # NULL /\ newjob \in Tracked
  BY ListedAreJobs DEF TypedInv, ControlInv, LaunchFails, HandshakeFails, HandshakeBreaks, Tracked, Launched
<1>2. \A r : Survives(r, r)
  BY DEF Survives
<1>3. ASSUME NEW h, NEW k, Watches(h, k)
      PROVE  /\ subjobs[h][k].pid \in Pids
             /\ proc[subjobs[h][k].pid] \in Process
             /\ proc[subjobs[h][k].pid].st # "free"
             /\ \A sig : Survives(proc[subjobs[h][k].pid], Signalled(proc[subjobs[h][k].pid], sig))
  BY <1>3, WatchedProcess, SignalledSurvives
<1>4. destroy_job(newjob) /\ newjob' = NULL => Tracked' \subseteq Tracked
  BY ListedChanges DEF TypedInv, Tracked, Launched
<1>5. CASE LaunchFails
  <2>1. ProcessesSurvive
    BY <1>2, <1>5, SignalGroupSurvives DEF LaunchFails, TypedInv, OthersTyped, ProcessesSurvive
  <2>2. Tracked' \subseteq Tracked
    BY <1>4, <1>5 DEF LaunchFails, CommandReturns, CommandDestroyed
  <2> QED
    BY <1>1, <1>3, <1>5, <2>1, <2>2, FreeingKeepsWaits DEF LaunchFails, ProcessesSurvive
<1>6. ASSUME NEW p \in Pids, HandshakeFails(p) PROVE NoStrayWait'
  <2>1. Tracked' \subseteq Tracked /\ JobFreed(newjob) /\ proc[p].st = "free"
    BY <1>4, <1>6 DEF HandshakeFails, CommandReturns, CommandDestroyed, IsFreePid
  <2>2. \A q \in Pids \ {p} : proc'[q] = proc[q] \/ proc'[q] = Signalled(proc[q], "KILL")
    BY <1>6 DEF HandshakeFails
  <2>3. \A h, k : Watches(h, k) => Survives(proc[subjobs[h][k].pid], proc'[subjobs[h][k].pid])
    BY <1>2, <1>3, <2>1, <2>2
  <2> QED
    BY <1>1, <2>1, <2>3, FreeingKeepsWaits
<1>7. ASSUME NEW p \in Pids, HandshakeBreaks(p) PROVE NoStrayWait'
  <2>1. Tracked' = Tracked /\ UNCHANGED subjobs
    BY <1>7, ListedChanges DEF TypedInv, HandshakeBreaks, launchVars, Tracked, Launched
  <2>2. \A q \in Pids \ {p} : proc'[q] = proc[q]
    BY <1>7 DEF HandshakeBreaks, TypedInv, OthersTyped, KernelTypeOK
  <2>3. \A h, k : Watches(h, k) => Survives(proc[subjobs[h][k].pid], proc'[subjobs[h][k].pid])
    BY <1>2, <1>3, <1>7, <2>2 DEF HandshakeBreaks, IsFreePid
  <2>4. \A h, k : Watches(h, k) => pgid'[h] = pgid[h]
    BY <1>1, <1>7, WatchedProcess DEF HandshakeBreaks, LaunchGroup, TypedInv, OthersTyped, JobsTyped
  <2>5. \A h, k : Watches(h, k)' => Watches(h, k)
    BY <2>1, UnfinishedKept DEF Watches
  <2> QED
    BY <2>1, <2>3, <2>4, <2>5, WaitsKept
<1> QED
  BY <1>5, <1>6, <1>7

LEMMA UpdateKeepsWaits ==
    ASSUME TypedInv, NoStrayWait, NEW i \in DOMAIN job_table, UpdateWait(i) \/ UpdateJob(i)
    PROVE  NoStrayWait'
<1> DEFINE h == job_table[i]
<1>1. \A r : Survives(r, r)
  BY DEF Survives
<1>2. h \in ListedJobs /\ h \in Jobs
  BY ListedAreJobs DEF UpdateWait, UpdateJob, AtSlot, Occupied, ListedJobs, TypedInv
<1>3. CASE UpdateWait(i)
  <2>1. UNCHANGED <<tableVars, pgid, newjob>>
    BY <1>3 DEF UpdateWait, launchVars
  <2>2. PICK k \in Unfinished(h) :
           \/ IsReportable(proc[subjobs[h][k].pid], TRUE) /\ Collect(h, k)
           \/ UNCHANGED <<subjobs, kernelVars>>
    BY <1>3 DEF UpdateWait
  <2>3. CASE IsReportable(proc[subjobs[h][k].pid], TRUE) /\ Collect(h, k)
    BY <1>2, <2>1, <2>3, CollectKeepsWaits DEF Watches, Tracked
  <2>4. CASE UNCHANGED <<subjobs, kernelVars>>
    BY <1>1, <2>1, <2>4, ListedChanges, SameWaits DEF TypedInv, kernelVars, Tracked, Launched
  <2> QED
    BY <2>2, <2>3, <2>4
<1>4. CASE UpdateJob(i)
  <2>1. UNCHANGED <<proc, newjob>>
    BY <1>4 DEF UpdateJob, kernelVars, launchVars
  <2>2. CASE remove_job(job_id[h]) /\ JobFreed(h)
    <3>1. Tracked' \subseteq Tracked
      BY <1>2, <2>1, <2>2, RemovalChanges DEF TypedInv, Tracked, Launched
    <3> QED
      BY <1>1, <1>2, <2>1, <2>2, <3>1, FreeingKeepsWaits
  <2>3. CASE UNCHANGED <<tableVars, pgid, subjobs>>
    BY <1>1, <2>1, <2>3, ListedChanges, SameWaits DEF TypedInv, Tracked, Launched
  <2> QED
    BY <1>4, <2>2, <2>3 DEF UpdateJob
<1> QED
  BY <1>3, <1>4

LEMMA BlockKeepsWaits ==
    ASSUME TypedInv, NoStrayWait, BlockStep
    PROVE  NoStrayWait'
<1>1. \A r : Survives(r, r)
  BY DEF Survives
<1>2. target \in Tracked /\ target \in Jobs
  BY ListedAreJobs DEF BlockStep, BlockWait, FgReturns, ForegroundReturns, TypedInv, ControlInv,
                       Tracked, Launched
<1>3. CASE BlockWait
  <2>1. UNCHANGED <<tableVars, pgid, newjob>>
    BY <1>3 DEF BlockWait, launchVars
  <2>2. PICK k \in Unfinished(target) :
           IsReportable(proc[subjobs[target][k].pid], FALSE) /\ Collect(target, k)
    BY <1>3 DEF BlockWait, WaitReturns
  <2> QED
    BY <1>2, <2>1, <2>2, CollectKeepsWaits DEF Watches
<1>4. CASE FgReturns
  <2>1. UNCHANGED proc /\ newjob' \in {newjob, NULL} /\ target \in ListedJobs
    BY <1>4 DEF FgReturns, BuiltinReturns, CommandReturns, CommandDestroyed, TypedInv, ControlInv
  <2>2. CASE remove_job(job_id[target]) /\ JobFreed(target)
    <3>1. Tracked' \subseteq Tracked
      BY <2>1, <2>2, RemovalChanges DEF TypedInv, Tracked, Launched
    <3> QED
      BY <1>1, <1>2, <2>1, <2>2, <3>1, FreeingKeepsWaits
  <2>3. CASE UNCHANGED <<tableVars, pgid, subjobs>>
    BY <1>1, <2>1, <2>3, ListedChanges, SameWaits DEF TypedInv, Tracked, Launched
  <2> QED
    BY <1>4, <2>2, <2>3 DEF FgReturns
<1>5. CASE ForegroundReturns
  <2>1. UNCHANGED proc /\ newjob' = NULL /\ newjob \in Tracked /\ newjob \in Jobs
    BY <1>5, ListedAreJobs DEF ForegroundReturns, CommandReturns, CommandDestroyed, TypedInv, ControlInv,
                               Tracked, Launched
  <2>2. CASE destroy_job(newjob) /\ JobFreed(newjob)
    <3>1. Tracked' \subseteq Tracked
      BY <2>1, <2>2, ListedChanges DEF TypedInv, Tracked, Launched
    <3> QED
      BY <1>1, <2>1, <2>2, <3>1, FreeingKeepsWaits
  <2>3. CASE add_job(newjob) /\ UNCHANGED <<pgid, subjobs>>
    <3>1. Tracked' \subseteq Tracked
      BY <2>1, <2>3, ListedChanges DEF TypedInv, Tracked, Launched
    <3> QED
      BY <1>1, <2>1, <2>3, <3>1, SameWaits
  <2> QED
    BY <1>5, <2>2, <2>3 DEF ForegroundReturns
<1> QED
  BY <1>3, <1>4, <1>5 DEF BlockStep

LEMMA NoStrayWaitStep == TypedInv /\ NoStrayWait /\ [ShellNext]_vars => NoStrayWait'
<1> SUFFICES ASSUME TypedInv, NoStrayWait, [ShellNext]_vars PROVE NoStrayWait'
  OBVIOUS
<1>1. \A r : Survives(r, r)
  BY DEF Survives
<1>2. \A h, k : Watches(h, k) => subjobs[h][k].pid \in Pids
  BY WatchedProcess
<1>3. CASE SameProcesses
  <2>1. Tracked' \subseteq Tracked
    BY <1>3, ListedChanges DEF SameProcesses, TypedInv, Tracked, Launched
  <2> QED
    BY <1>2, <1>3, <2>1, SameWaits DEF SameProcesses, ProcessesSurvive
<1>4. CASE UNCHANGED vars
  <2>1. UNCHANGED <<tableVars, proc, pgid, subjobs, newjob>>
    BY <1>4 DEF vars, kernelVars, jobVars, launchVars
  <2> QED
    BY <1>1, <2>1, ListedChanges, SameWaits DEF TypedInv, Tracked, Launched
<1>5. CASE LaunchDone
  <2>1. UNCHANGED <<proc, pgid, subjobs>> /\ newjob' = NULL /\ newjob \in Tracked
    BY <1>5 DEF LaunchDone, kernelVars, CommandReturns, CommandDestroyed, TypedInv, ControlInv, Tracked, Launched
  <2>2. Tracked' \subseteq Tracked
    BY <1>5, <2>1, ListedChanges DEF LaunchDone, TypedInv, Tracked, Launched
  <2> QED
    BY <1>1, <2>1, <2>2, SameWaits
<1> QED
  BY <1>3, <1>4, <1>5, SameProcessesSteps, NewJobKeepsWaits, LaunchKeepsWaits, FailedLaunchKeepsWaits,
     UpdateKeepsWaits, BlockKeepsWaits DEF BlockStep

LEMMA NoStrayWaitInit == ShellInit => NoStrayWait
BY DEF ShellInit, TableInit, EmptySlots, NoStrayWait, Tracked, Launched, ListedJobs, Occupied

\* However the processes and the reuse of pids interleave with the shell,
\* waitpid is only called for a child of the shell that is in the group of the
\* job it is called for: the shell never reaps, or waits for, the wrong one.
THEOREM WaitsAreSound == ShellSpec => []NoStrayWait
<1> QED
  BY NoStrayWaitInit, NoStrayWaitStep, TypedInvariant, PTL DEF ShellSpec
=============================================================================
