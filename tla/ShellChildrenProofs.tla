------------------------ MODULE ShellChildrenProofs ------------------------
(***************************************************************************)
(* Proofs about the children of the shell and the jobs that watch them, for*)
(* every set of processes, jobs and commands: no child is lost, what is    *)
(* known of one catches up with it, groups are told apart, exit leaves     *)
(* nobody behind, the chief gives the exit code, and the terminal is the   *)
(* shell's at its prompt.  They rest on the types and on NoStrayWait       *)
(* (ShellProofs).  The steps are first sorted by what they do to the jobs  *)
(* (JobSteps): leave them alone, free one, create one, learn something of a*)
(* process, or fork one; each invariant then goes through these five cases.*)
(***************************************************************************)
EXTENDS ShellProofs

-----------------------------------------------------------------------------
(* What the steps do to the processes and to the jobs.                     *)

\* A report that is due tells of the state the process is in.
Fit(r) ==
    /\ r.report = "stopped" => r.st = "stopped"
    /\ r.report = "continued" => r.st = "live"

\* What is known of a process is only behind by the report that is due.
CaughtUp(known, r) ==
    /\ known = "STOPPED" /\ r.st = "live" => r.report = "continued"
    /\ known = "RUNNING" /\ r.st = "stopped" => r.report = "stopped"

\* What may become of a process while the shell does not ask for it.
Goes(r, s) ==
    /\ Fit(r) => Fit(s)
    /\ r.st # "free" =>
          /\ s.st # "free"
          /\ s.grp = r.grp
          /\ \A known : CaughtUp(known, r) => CaughtUp(known, s)
    /\ r.st \in Zombies => s = r
    /\ r.st = "free" => s.st = "free" \/ LaunchMayFail

ProcessesGo == \A p \in Pids : Goes(proc[p], proc'[p])

LEMMA SameGoes == \A r : Goes(r, r)
BY DEF Goes

LEMMA SignalledGoes ==
    ASSUME NEW r \in Process, NEW sig
    PROVE  Goes(r, Signalled(r, sig))
BY DEF Process, Signalled, Dead, Zombies, Goes, Fit, CaughtUp

LEMMA SignalGroupGoes ==
    ASSUME KernelTypeOK, NEW g, NEW sig, SignalGroup(g, sig)
    PROVE  ProcessesGo
BY SameGoes, SignalledGoes DEF SignalGroup, KernelTypeOK, ProcessesGo

LEMMA KernelStepGoes ==
    ASSUME KernelTypeOK, KernelNext
    PROVE  ProcessesGo
<1>1. \A p \in Pids : proc[p] \in Process
  BY DEF KernelTypeOK
<1>2. ASSUME NEW p \in Pids, ChildRuns(p) PROVE ProcessesGo
  <2>1. Goes(proc[p], [proc[p] EXCEPT !.prelude = "none"])
    BY <1>1, <1>2 DEF ChildRuns, Process, Zombies, Goes, Fit, CaughtUp
  <2> QED
    BY <1>2, <2>1, SameGoes DEF ChildRuns, KernelTypeOK, ProcessesGo
<1>3. ASSUME NEW p \in Pids, NEW code \in ExitCodes, ChildExits(p, code) PROVE ProcessesGo
  <2>1. Goes(proc[p], Dead(proc[p], "exited", code))
    BY <1>1, <1>3 DEF ChildExits, Process, Zombies, Dead, Goes, Fit, CaughtUp
  <2> QED
    BY <1>3, <2>1, SameGoes DEF ChildExits, KernelTypeOK, ProcessesGo
<1>4. ASSUME NEW p \in Pids, NEW sig, ChildSignalled(p, sig) PROVE ProcessesGo
  BY <1>1, <1>4, SignalledGoes, SameGoes DEF ChildSignalled, KernelTypeOK, ProcessesGo
<1>5. UNCHANGED proc => ProcessesGo
  BY SameGoes DEF ProcessesGo
<1> QED
  BY <1>2, <1>3, <1>4, <1>5 DEF KernelNext, ChildSpawns, KidsEnd

\* The jobs and their processes are as before.
Stays ==
    /\ UNCHANGED <<pgid, subjobs>>
    /\ Tracked' = Tracked /\ heap' = heap
    /\ ProcessesGo

\* A job is freed, because it is finished or could not be launched.
Leaves(h) ==
    /\ h \in Tracked
    /\ is_job_finished(h) \/ LaunchMayFail
    /\ JobFreed(h)
    /\ Tracked' = Tracked \ {h} /\ heap' = heap \ {h}
    /\ ProcessesGo

\* A job is created for the command c.
Comes(h, c) ==
    /\ h \in Jobs \ Tracked
    /\ pgid' = [pgid EXCEPT ![h] = NULL]
    /\ subjobs' = [subjobs EXCEPT ![h] = [k \in 1 .. Len(c) |-> NULL]]
    /\ Tracked' = Tracked \cup {h} /\ heap' = heap \cup {h}
    /\ UNCHANGED proc

\* The job that update_jobs has come to, or that the shell blocks for.
JobAtHand ==
    CASE pc = "update" /\ slot \in Occupied -> job_table[slot]
      [] pc = "block"                       -> target
      [] OTHER                              -> NULL

\* waitpid returns a report for subjob k of job h.
Learns(h, k) ==
    /\ Watches(h, k)
    /\ JobAtHand' = h
    /\ \E w \in BOOLEAN : IsReportable(proc[subjobs[h][k].pid], w)
    /\ Collect(h, k)
    /\ UNCHANGED pgid
    /\ Tracked' = Tracked /\ heap' = heap

LEMMA BuiltinKeepsJob == \A code : BuiltinReturns(code) => newjob' = newjob
BY DEF BuiltinReturns, CommandReturns, CommandDestroyed

\* Most steps leave the jobs alone.
LEMMA StayingSteps ==
    ASSUME TypedInv, ShellNext
    PROVE  \/ Stays
           \/ \E c \in Commands, bg \in BOOLEAN : RunCommand(c, bg)
           \/ \E p \in Pids : LaunchProcess(p) \/ HandshakeFails(p) \/ HandshakeBreaks(p)
           \/ LaunchFails
           \/ LaunchDone
           \/ \E i \in DOMAIN job_table : UpdateWait(i) \/ UpdateJob(i)
           \/ BlockWait
           \/ FgReturns
           \/ ForegroundReturns
<1> USE DEF TypedInv, OthersTyped
<1> DEFINE Same == UNCHANGED <<tableVars, pgid, subjobs, newjob>>
<1>1. Same /\ ProcessesGo => Stays
  BY ListedChanges DEF Stays, Tracked, Launched
<1>2. UNCHANGED proc => ProcessesGo
  BY SameGoes DEF ProcessesGo
<1>3. CASE ReadLine \/ EndLine \/ Ended
  BY <1>1, <1>2, <1>3 DEF ReadLine, EndLine, Ended, vars, kernelVars, jobVars, launchVars
<1>4. CASE ProcessStep
  BY <1>1, <1>4, KernelStepGoes DEF ProcessStep, jobVars, launchVars
<1>5. CASE LaunchBuiltin \/ LaunchForeground
  BY <1>1, <1>2, <1>5 DEF LaunchBuiltin, LaunchForeground, kernelVars, jobVars, launchVars
<1>6. CASE UpdateReturnsToPrompt \/ UpdateReturnsToJobs \/ ExitRefused
  <2>1. Same /\ UNCHANGED proc
    BY <1>6, BuiltinKeepsJob DEF UpdateReturnsToPrompt, UpdateReturnsToJobs, ExitRefused,
                                 kernelVars, jobVars, launchVars
  <2> QED
    BY <1>1, <1>2, <2>1
<1>7. ASSUME NEW val \in ExitCodes, ExitAccepted(val) PROVE Stays
  BY <1>1, <1>2, <1>7 DEF ExitAccepted, CommandDestroyed, kernelVars, jobVars
<1>8. CASE BuiltinUpdates \/ BuiltinOther
  <2>1. Same /\ UNCHANGED proc
    BY <1>8, BuiltinKeepsJob DEF BuiltinUpdates, BuiltinOther, kernelVars, jobVars, launchVars
  <2> QED
    BY <1>1, <1>2, <2>1
<1>9. ASSUME NEW id \in DOMAIN job_table, NEW sig, BuiltinKill(id, sig) PROVE Stays
  BY <1>1, <1>2, <1>9, BuiltinKeepsJob, SignalGroupGoes DEF BuiltinKill, jobVars, launchVars
<1>10. ASSUME NEW id \in DOMAIN job_table, BuiltinBg(id) \/ BuiltinFg(id) PROVE Stays
  BY <1>1, <1>2, <1>10, BuiltinKeepsJob, SignalGroupGoes DEF BuiltinBg, BuiltinFg, jobVars, launchVars
<1> QED
  BY <1>3, <1>4, <1>5, <1>6, <1>7, <1>8, <1>9, <1>10
     DEF ShellNext, UserStep, ShellStep, LaunchStep, UpdateStep, BuiltinStep, BlockStep

LEMMA FailedLaunchLeaves ==
    ASSUME TypedInv, NoStrayWait, LaunchFails \/ \E p \in Pids : HandshakeFails(p)
    PROVE  Leaves(newjob)
<1> USE DEF TypedInv, OthersTyped
<1>1. LaunchMayFail /\ destroy_job(newjob) /\ JobFreed(newjob) /\ newjob' = NULL
  BY DEF LaunchFails, HandshakeFails, CommandReturns, CommandDestroyed
<1>2. newjob \in Tracked /\ newjob # NULL
  BY DEF LaunchFails, HandshakeFails, ControlInv, Tracked, Launched
<1>3. Tracked' = Tracked \ {newjob} /\ heap' = heap \ {newjob}
  BY <1>1, <1>2, ListedChanges DEF ControlInv, Tracked, Launched
<1>4. CASE LaunchFails
  <2>1. ProcessesGo
    BY <1>4, SameGoes, SignalGroupGoes DEF LaunchFails, ProcessesGo
  <2> QED
    BY <1>1, <1>2, <1>3, <2>1 DEF Leaves
<1>5. ASSUME NEW p \in Pids, HandshakeFails(p) PROVE Leaves(newjob)
  <2>1. \A q \in Pids : proc[q] \in Process
    BY DEF KernelTypeOK
  <2>2. \A q \in Pids \ {p} : proc'[q] = proc[q] \/ proc'[q] = Signalled(proc[q], "KILL")
    BY <1>5 DEF HandshakeFails
  <2>3. Goes(proc[p], proc'[p])
    <3>1. proc[p].st = "free" /\ \E g : proc'[p] = Dead(NewProcess(g, "none"), "killed", 0)
      BY <1>5 DEF HandshakeFails, IsFreePid
    <3>2. \A g : Fit(Dead(NewProcess(g, "none"), "killed", 0))
      BY DEF Dead, NewProcess, Fit
    <3> QED
      BY <1>1, <3>1, <3>2 DEF Goes, Zombies
  <2>4. ProcessesGo
    BY <2>1, <2>2, <2>3, SameGoes, SignalledGoes DEF ProcessesGo
  <2> QED
    BY <1>1, <1>2, <1>3, <2>4 DEF Leaves
<1> QED
  BY <1>4, <1>5

\* What update_jobs does to a job of the table.
LEMMA UpdateIsOne ==
    ASSUME TypedInv, NEW i \in DOMAIN job_table, UpdateWait(i) \/ UpdateJob(i)
    PROVE  /\ job_table[i] \in ListedJobs
           /\ UpdateWait(i) => (Stays /\ UNCHANGED proc) \/ \E k : Learns(job_table[i], k)
           /\ UpdateJob(i) => \/ Stays /\ ~is_job_finished(job_table[i])
                             \/ Leaves(job_table[i])
<1> USE DEF TypedInv, OthersTyped
<1> DEFINE h == job_table[i]
<1>1. h \in ListedJobs
  BY DEF UpdateWait, UpdateJob, AtSlot, Occupied, ListedJobs
<1>2. UNCHANGED proc => ProcessesGo
  BY SameGoes DEF ProcessesGo
<1>3. UNCHANGED <<tableVars, newjob>> => Tracked' = Tracked /\ heap' = heap
  BY ListedChanges DEF Tracked, Launched
<1>4. ASSUME UpdateWait(i) PROVE (Stays /\ UNCHANGED proc) \/ \E k : Learns(h, k)
  <2>1. UNCHANGED <<tableVars, newjob, pgid>>
    BY <1>4 DEF UpdateWait, launchVars
  <2>2. PICK k \in Unfinished(h) :
           \/ IsReportable(proc[subjobs[h][k].pid], TRUE) /\ Collect(h, k) /\ slot' = i
           \/ UNCHANGED <<subjobs, kernelVars>>
    BY <1>4 DEF UpdateWait
  <2>3. CASE IsReportable(proc[subjobs[h][k].pid], TRUE) /\ Collect(h, k) /\ slot' = i
    <3>1. i \in Occupied' /\ job_table'[i] = h /\ pc' = "update"
      BY <1>4, <2>1 DEF UpdateWait, AtSlot, Occupied, tableVars
    <3>2. JobAtHand' = h
      BY <2>3, <3>1 DEF JobAtHand
    <3> QED
      BY <1>1, <1>3, <2>1, <2>3, <3>2 DEF Learns, Watches, Tracked
  <2>4. CASE UNCHANGED <<subjobs, kernelVars>>
    BY <1>2, <1>3, <2>1, <2>4 DEF Stays, kernelVars
  <2> QED
    BY <2>2, <2>3, <2>4
<1>5. ASSUME UpdateJob(i) PROVE (Stays /\ ~is_job_finished(h)) \/ Leaves(h)
  <2>1. UNCHANGED <<proc, newjob>>
    BY <1>5 DEF UpdateJob, kernelVars, launchVars
  <2>2. CASE is_job_finished(h) /\ remove_job(job_id[h]) /\ JobFreed(h)
    <3>1. h # newjob
      BY <1>1, ListedAreJobs, NullAssumption DEF ControlInv
    <3>2. Tracked' = Tracked \ {h} /\ heap' = heap \ {h}
      BY <1>1, <2>1, <2>2, <3>1, RemovalChanges DEF Tracked, Launched
    <3> QED
      BY <1>1, <1>2, <2>1, <2>2, <3>2 DEF Leaves, Tracked
  <2>3. CASE UNCHANGED <<tableVars, pgid, subjobs>> /\ ~is_job_finished(h)
    BY <1>2, <1>3, <2>1, <2>3 DEF Stays
  <2> QED
    BY <1>5, <2>2, <2>3 DEF UpdateJob
<1> QED
  BY <1>1, <1>4, <1>5

\* What the blocking wait does to the job it is called for.
LEMMA BlockIsOne ==
    ASSUME TypedInv, BlockStep
    PROVE  /\ target \in Tracked /\ target \in Jobs
           /\ BlockWait => \E k : Learns(target, k)
           /\ FgReturns \/ ForegroundReturns => \/ Stays /\ ~is_job_finished(target)
                                               \/ Leaves(target)
<1> USE DEF TypedInv, OthersTyped
<1>1. target \in Tracked /\ target \in Jobs
  BY ListedAreJobs DEF BlockStep, BlockWait, FgReturns, ForegroundReturns, ControlInv, Tracked, Launched
<1>2. UNCHANGED proc => ProcessesGo
  BY SameGoes DEF ProcessesGo
<1>3. UNCHANGED <<tableVars, newjob>> => Tracked' = Tracked /\ heap' = heap
  BY ListedChanges DEF Tracked, Launched
<1>4. BlockWait => \E k : Learns(target, k)
  BY <1>1, <1>3 DEF BlockWait, WaitReturns, launchVars, Learns, Watches, JobAtHand
<1>5. ASSUME FgReturns PROVE (Stays /\ ~is_job_finished(target)) \/ Leaves(target)
  <2>1. UNCHANGED <<proc, newjob>> /\ target \in ListedJobs /\ target # newjob
    BY <1>5, BuiltinKeepsJob, ListedAreJobs, NullAssumption DEF FgReturns, ControlInv
  <2>2. CASE is_job_finished(target) /\ remove_job(job_id[target]) /\ JobFreed(target)
    <3>1. Tracked' = Tracked \ {target} /\ heap' = heap \ {target}
      BY <2>1, <2>2, RemovalChanges DEF Tracked, Launched
    <3> QED
      BY <1>1, <1>2, <2>1, <2>2, <3>1 DEF Leaves
  <2>3. CASE UNCHANGED <<tableVars, pgid, subjobs>> /\ ~is_job_finished(target)
    BY <1>2, <1>3, <2>1, <2>3 DEF Stays
  <2> QED
    BY <1>5, <2>2, <2>3 DEF FgReturns
<1>6. ASSUME ForegroundReturns PROVE (Stays /\ ~is_job_finished(target)) \/ Leaves(target)
  <2>1. UNCHANGED proc /\ newjob' = NULL /\ newjob = target /\ newjob \notin ListedJobs /\ newjob # NULL
    BY <1>6, ListedAreJobs DEF ForegroundReturns, CommandReturns, CommandDestroyed, ControlInv
  <2>2. CASE is_job_finished(newjob) /\ destroy_job(newjob) /\ JobFreed(newjob)
    <3>1. Tracked' = Tracked \ {newjob} /\ heap' = heap \ {newjob}
      BY <2>1, <2>2, ListedChanges DEF Tracked, Launched
    <3> QED
      BY <1>1, <1>2, <2>1, <2>2, <3>1 DEF Leaves
  <2>3. CASE add_job(newjob) /\ UNCHANGED <<pgid, subjobs>> /\ ~is_job_finished(newjob)
    <3>1. Tracked' = Tracked /\ heap' = heap
      BY <2>1, <2>3, ListedChanges DEF Tracked, Launched
    <3> QED
      BY <1>2, <2>1, <2>3, <3>1 DEF Stays
  <2> QED
    BY <1>6, <2>1, <2>2, <2>3 DEF ForegroundReturns
<1> QED
  BY <1>1, <1>4, <1>5, <1>6

\* All steps, by what they do to the jobs.
LEMMA JobSteps ==
    ASSUME TypedInv, NoStrayWait, [ShellNext]_vars
    PROVE  \/ Stays
           \/ \E h : Leaves(h)
           \/ \E h, c : Comes(h, c)
           \/ \E h, k : Learns(h, k)
           \/ \E p \in Pids : LaunchProcess(p) \/ HandshakeBreaks(p)
<1> USE DEF TypedInv, OthersTyped
<1>1. UNCHANGED proc => ProcessesGo
  BY SameGoes DEF ProcessesGo
<1>2. UNCHANGED <<tableVars, newjob>> => Tracked' = Tracked /\ heap' = heap
  BY ListedChanges DEF Tracked, Launched
<1>3. CASE UNCHANGED vars
  BY <1>1, <1>2, <1>3 DEF vars, kernelVars, jobVars, launchVars, Stays
<1>4. ASSUME NEW c \in Commands, NEW bg \in BOOLEAN, RunCommand(c, bg)
      PROVE  Stays \/ \E h : Comes(h, c)
  <2>1. UNCHANGED proc /\ newjob = NULL
    BY <1>4 DEF RunCommand, kernelVars, ControlInv
  <2>2. CASE UNCHANGED <<tableVars, jobVars, newjob>>
    BY <1>1, <1>2, <2>1, <2>2 DEF jobVars, Stays
  <2>3. ASSUME NEW h \in Jobs, new_job(h), newjob' = h, pgid' = [pgid EXCEPT ![h] = NULL],
               subjobs' = [subjobs EXCEPT ![h] = [k \in 1 .. Len(c) |-> NULL]]
        PROVE  Comes(h, c)
    <3>1. ListedJobs' = ListedJobs /\ heap' = heap \cup {h} /\ h \notin heap
      BY <2>3, ListedChanges DEF new_job
    <3>2. h # NULL /\ h \notin ListedJobs
      BY <2>3, <3>1, ListedAreJobs, NullAssumption
    <3> QED
      BY <2>1, <2>3, <3>1, <3>2 DEF Comes, Tracked, Launched
  <2> QED
    BY <1>4, <2>2, <2>3 DEF RunCommand
<1>5. CASE LaunchDone
  <2>1. /\ UNCHANGED <<proc, pgid, subjobs>> /\ newjob # NULL /\ newjob' = NULL
        /\ add_job(newjob)
    BY <1>5 DEF LaunchDone, kernelVars, CommandReturns, CommandDestroyed, ControlInv
  <2>2. Tracked' = Tracked /\ heap' = heap
    BY <2>1, ListedChanges DEF Tracked, Launched
  <2> QED
    BY <1>1, <2>1, <2>2 DEF Stays
<1> QED
  BY <1>3, <1>4, <1>5, StayingSteps, FailedLaunchLeaves, UpdateIsOne, BlockIsOne DEF BlockStep

-----------------------------------------------------------------------------
(* What the steps do to the watched processes.                             *)

\* What is watched afterwards was watched before, with the same knowledge.
WatchesLessOf(h, k) ==
    /\ Watches(h, k)
    /\ subjobs'[h][k] = subjobs[h][k]
    /\ pgid'[h] = pgid[h]

LEMMA QuietWatches ==
    ASSUME TypedInv, Stays \/ (\E h : Leaves(h)) \/ (\E h, c : Comes(h, c))
    PROVE  /\ \A h, k : Watches(h, k)' => WatchesLessOf(h, k)
           /\ LaunchMayFail \/ \A h, k : Watches(h, k) => Watches(h, k)'
           /\ ProcessesGo
<1>1. /\ subjobs \in [Jobs -> Seq(Subjob \cup {NULL})]
      /\ pgid \in [Jobs -> Pids \cup {NULL}]
  BY DEF TypedInv, OthersTyped, JobsTyped
<1>2. CASE Stays
  BY <1>2, UnfinishedKept DEF Stays, Watches, WatchesLessOf
<1>3. ASSUME NEW h, Leaves(h)
      PROVE  /\ \A g, k : Watches(g, k)' => WatchesLessOf(g, k)
             /\ LaunchMayFail \/ \A g, k : Watches(g, k) => Watches(g, k)'
             /\ ProcessesGo
  <2>1. subjobs' = [subjobs EXCEPT ![h] = <<>>] /\ pgid' = [pgid EXCEPT ![h] = NULL]
    BY <1>3 DEF Leaves, JobFreed
  <2>2. \A g : g # h => Unfinished(g)' = Unfinished(g) /\ subjobs'[g] = subjobs[g] /\ pgid'[g] = pgid[g]
    BY <1>1, <2>1 DEF Unfinished, Forked, is_finished_status
  <2>3. LaunchMayFail \/ Unfinished(h) = {}
    BY <1>3, FinishedIsOver DEF Leaves
  <2>4. Tracked' = Tracked \ {h}
    BY <1>3 DEF Leaves
  <2>5. \A g, k : Watches(g, k)' => WatchesLessOf(g, k)
    BY <2>2, <2>4 DEF Watches, WatchesLessOf
  <2>6. LaunchMayFail \/ \A g, k : Watches(g, k) => Watches(g, k)'
    BY <2>2, <2>3, <2>4 DEF Watches
  <2> QED
    BY <1>3, <2>5, <2>6 DEF Leaves
<1>4. ASSUME NEW h, NEW c, Comes(h, c)
      PROVE  /\ \A g, k : Watches(g, k)' => WatchesLessOf(g, k)
             /\ \A g, k : Watches(g, k) => Watches(g, k)'
             /\ ProcessesGo
  <2>1. /\ subjobs' = [subjobs EXCEPT ![h] = [k \in 1 .. Len(c) |-> NULL]]
        /\ pgid' = [pgid EXCEPT ![h] = NULL]
        /\ Tracked' = Tracked \cup {h} /\ h \in Jobs \ Tracked
    BY <1>4 DEF Comes
  <2>2. \A g : g # h => Unfinished(g)' = Unfinished(g) /\ subjobs'[g] = subjobs[g] /\ pgid'[g] = pgid[g]
    BY <1>1, <2>1 DEF Unfinished, Forked, is_finished_status
  <2>3. subjobs'[h] = [k \in 1 .. Len(c) |-> NULL]
    BY <1>1, <2>1
  <2>4. Unfinished(h)' = {}
    BY <2>3 DEF Unfinished, Forked
  <2>5. ProcessesGo
    BY <1>4, SameGoes DEF Comes, ProcessesGo
  <2> QED
    BY <2>1, <2>2, <2>4, <2>5 DEF Watches, WatchesLessOf
<1> QED
  BY <1>2, <1>3, <1>4

\* A report changes what is known of one process.
LEMMA LearnEffects ==
    ASSUME TypedInv, NoStrayWait, NEW h, NEW k, Learns(h, k), NEW p, p = subjobs[h][k].pid
    PROVE  /\ h \in Jobs /\ k \in 1 .. Len(subjobs[h]) /\ p \in Pids /\ proc[p] \in Process
           /\ \A g, m : g # h \/ m # k =>
                 /\ Watches(g, m)' <=> Watches(g, m)
                 /\ subjobs'[g][m] = subjobs[g][m]
           /\ \A g : DOMAIN subjobs'[g] = DOMAIN subjobs[g]
           /\ \A g : g # h => subjobs'[g] = subjobs[g]
           /\ subjobs'[h][k] # NULL
           /\ subjobs'[h][k].pid = p
           /\ subjobs'[h][k].last_status = job_status_from_int(proc[p])
           /\ proc[p].st \in Zombies => job_status_from_int(proc[p]) \in FinishedStatus
           /\ proc[p].st \notin Zombies => job_status_from_int(proc[p]) \notin FinishedStatus
           /\ proc[p].st \notin Zombies => Watches(h, k)'
           /\ Watches(h, k)' => proc[p].st \notin Zombies
           /\ proc'[p] = AfterReport(proc[p])
           /\ \A q \in Pids \ {p} : proc'[q] = proc[q]
<1> DEFINE new == job_status_from_int(proc[p])
<1>1. Watches(h, k) /\ Collect(h, k) /\ Tracked' = Tracked
  BY DEF Learns
<1>2. h \in Jobs /\ k \in 1 .. Len(subjobs[h]) /\ p \in Pids /\ proc[p] \in Process
  BY <1>1, WatchedProcess
<1>3. PICK w \in BOOLEAN : IsReportable(proc[p], w)
  BY DEF Learns
<1>4. /\ new \in Status
      /\ proc[p].st \in Zombies => new \in FinishedStatus
      /\ proc[p].st \notin Zombies => new \notin FinishedStatus
  BY <1>2, <1>3 DEF Process, IsReportable, Zombies, job_status_from_int, Status, FinishedStatus
<1>5. /\ subjobs[h][k] \in Subjob
      /\ subjobs[h] \in Seq(Subjob \cup {NULL})
      /\ subjobs \in [Jobs -> Seq(Subjob \cup {NULL})]
  BY <1>1, <1>2, UnfinishedSubjob DEF TypedInv, OthersTyped, JobsTyped, Watches
<1>6. /\ subjobs' = [subjobs EXCEPT ![h] =
                        [subjobs[h] EXCEPT ![k] = [subjobs[h][k] EXCEPT !.last_status = new]]]
      /\ proc' = [proc EXCEPT ![p] = AfterReport(proc[p])]
  BY <1>1 DEF Collect
<1>7. subjobs'[h] = [subjobs[h] EXCEPT ![k] = [subjobs[h][k] EXCEPT !.last_status = new]]
  BY <1>2, <1>5, <1>6
<1>8. subjobs'[h][k] = [subjobs[h][k] EXCEPT !.last_status = new]
  BY <1>2, <1>5, <1>7
<1>9. subjobs'[h][k].pid = p /\ subjobs'[h][k].last_status = new
  BY <1>5, <1>8 DEF Subjob
<1>10. subjobs'[h][k] # NULL
  <2>1. subjobs'[h][k] \in Subjob
    BY <1>2, <1>4, <1>5, <1>8 DEF Subjob
  <2> QED
    BY <2>1, SubjobAssumption
<1>11. DOMAIN subjobs'[h] = DOMAIN subjobs[h] /\ \A m : m # k => subjobs'[h][m] = subjobs[h][m]
  BY <1>2, <1>5, <1>7
<1>12. \A g : g # h => subjobs'[g] = subjobs[g]
  BY <1>5, <1>6
<1>13. \A g, m : g # h \/ m # k => (m \in Unfinished(g)' <=> m \in Unfinished(g))
  BY <1>11, <1>12 DEF Unfinished, Forked, is_finished_status
<1>14. k \in Unfinished(h)' <=> new \notin FinishedStatus
  BY <1>2, <1>5, <1>9, <1>10, <1>11 DEF Unfinished, Forked, is_finished_status
<1>15. proc'[p] = AfterReport(proc[p]) /\ \A q \in Pids \ {p} : proc'[q] = proc[q]
  BY <1>2, <1>6 DEF TypedInv, OthersTyped, KernelTypeOK
<1>16. \A g, m : g # h \/ m # k => (Watches(g, m)' <=> Watches(g, m)) /\ subjobs'[g][m] = subjobs[g][m]
  BY <1>1, <1>11, <1>12, <1>13 DEF Watches
<1>17. Watches(h, k)' <=> new \notin FinishedStatus
  BY <1>1, <1>14 DEF Watches
<1> QED
  BY <1>2, <1>4, <1>9, <1>10, <1>11, <1>12, <1>15, <1>16, <1>17

-----------------------------------------------------------------------------
(* The job that is being launched.                                         *)

\* It has a place for every call; those that the loop of execute_as_job has
\* not come to are NULL, and nobody has asked for the others before the wait.
LaunchInv ==
    newjob # NULL =>
       /\ call \in Nat \ {0}
       /\ DOMAIN subjobs[newjob] = 1 .. Len(calls)
       /\ \A k \in call .. Len(calls) : subjobs[newjob][k] = NULL
       /\ (pc = "block" /\ caller = "exec") \/ Unfinished(newjob) = Forked(newjob)

\* The job and its loop are as before, or the loop has done one call.
LaunchGoesOn ==
    /\ UNCHANGED <<newjob, calls, background>>
    /\ call' \in {call, call + 1}
    /\ subjobs'[newjob] = subjobs[newjob]
    /\ pc = "block" /\ caller = "exec" => pc' = "block" /\ caller' = "exec"
    /\ pc' = "block" /\ caller' = "exec" => sub' = 1 \/ (pc = "block" /\ caller = "exec" /\ sub' = sub)

\* There is no such job, or there is none any more.
LaunchOver ==
    /\ newjob' = NULL
    /\ newjob = NULL \/ LaunchMayFail \/ LaunchDone \/ ForegroundReturns

LEMMA LaunchSteps ==
    ASSUME TypedInv, NoStrayWait, [ShellNext]_vars
    PROVE  \/ LaunchOver
           \/ LaunchGoesOn
           \/ \E c \in Commands, bg \in BOOLEAN : RunCommand(c, bg)
           \/ \E p \in Pids : LaunchProcess(p)
           \/ BlockWait /\ target = newjob
<1> USE DEF TypedInv, OthersTyped
<1>1. \A code : BuiltinReturns(code) =>
         \/ newjob = NULL /\ newjob' = NULL
         \/ UNCHANGED <<newjob, calls, background>> /\ call' = call + 1 /\ pc' = "launch"
  BY DEF BuiltinReturns, CommandReturns, CommandDestroyed
<1>2. CASE UNCHANGED vars \/ ProcessStep \/ Ended
  BY <1>2 DEF ProcessStep, Ended, vars, jobVars, launchVars, loopVars, LaunchGoesOn, LaunchOver
<1>3. CASE ReadLine \/ EndLine \/ LaunchBuiltin \/ LaunchForeground
  BY <1>3 DEF ReadLine, EndLine, LaunchBuiltin, LaunchForeground, StartBlocking, StartUpdate, loopVars, jobVars, launchVars, LaunchGoesOn, LaunchOver
<1>4. ASSUME NEW p \in Pids, HandshakeFails(p) \/ HandshakeBreaks(p)
      PROVE  LaunchOver \/ LaunchGoesOn
  BY <1>4 DEF HandshakeFails, HandshakeBreaks, CommandReturns, CommandDestroyed, launchVars, LaunchGoesOn, LaunchOver
<1>5. CASE LaunchFails \/ LaunchDone \/ ForegroundReturns
  BY <1>5 DEF LaunchFails, LaunchDone, ForegroundReturns, CommandReturns, CommandDestroyed, LaunchOver
<1>6. CASE UpdateReturnsToPrompt \/ UpdateReturnsToJobs \/ ExitRefused
  BY <1>1, <1>6 DEF UpdateReturnsToPrompt, UpdateReturnsToJobs, ExitRefused, jobVars, launchVars, LaunchGoesOn, LaunchOver
<1>7. ASSUME NEW val \in ExitCodes, ExitAccepted(val) PROVE LaunchOver \/ LaunchGoesOn
  BY <1>7 DEF ExitAccepted, CommandDestroyed, jobVars, LaunchGoesOn, LaunchOver
<1>8. CASE BuiltinUpdates \/ BuiltinOther
  BY <1>1, <1>8 DEF BuiltinUpdates, BuiltinOther, StartUpdate, jobVars, launchVars, LaunchGoesOn, LaunchOver
<1>9. ASSUME NEW id \in DOMAIN job_table, NEW sig, BuiltinKill(id, sig) PROVE LaunchOver \/ LaunchGoesOn
  BY <1>1, <1>9 DEF BuiltinKill, jobVars, launchVars, LaunchGoesOn, LaunchOver
<1>10. ASSUME NEW id \in DOMAIN job_table, BuiltinBg(id) \/ BuiltinFg(id) PROVE LaunchOver \/ LaunchGoesOn
  BY <1>1, <1>10 DEF BuiltinBg, BuiltinFg, StartBlocking, jobVars, launchVars, LaunchGoesOn, LaunchOver
<1>11. \A h \in ListedJobs : h # newjob
  BY ListedAreJobs, NullAssumption DEF ControlInv
<1>12. ASSUME NEW h \in ListedJobs, Stays \/ Leaves(h) \/ \E k : Learns(h, k)
       PROVE  subjobs'[newjob] = subjobs[newjob]
  <2>1. CASE Leaves(h)
    BY <1>11, <2>1 DEF Leaves, JobFreed, JobsTyped
  <2>2. ASSUME NEW k, Learns(h, k) PROVE subjobs'[newjob] = subjobs[newjob]
    BY <1>11, <2>2, LearnEffects
  <2> QED
    BY <1>12, <2>1, <2>2 DEF Stays
<1>13. ASSUME NEW i \in DOMAIN job_table, UpdateWait(i) \/ UpdateJob(i) PROVE LaunchGoesOn
  <2>1. subjobs'[newjob] = subjobs[newjob]
    BY <1>12, <1>13, UpdateIsOne
  <2> QED
    BY <1>13, <2>1 DEF UpdateWait, UpdateJob, launchVars, LaunchGoesOn, LaunchOver
<1>14. CASE BlockWait /\ target # newjob
  <2>1. target \in ListedJobs /\ subjobs'[newjob] = subjobs[newjob]
    BY <1>12, <1>14, BlockIsOne DEF BlockWait, BlockStep, ControlInv
  <2>2. caller = "fg" /\ pc = "block" /\ pc' = pc /\ caller' = caller
    BY <1>14 DEF BlockWait, ControlInv
  <2> QED
    BY <1>14, <2>1, <2>2 DEF BlockWait, launchVars, LaunchGoesOn
<1>15. CASE FgReturns
  <2>1. target \in ListedJobs /\ subjobs'[newjob] = subjobs[newjob]
    BY <1>12, <1>15, BlockIsOne DEF FgReturns, BlockStep, ControlInv
  <2> QED
    BY <1>1, <1>15, <2>1 DEF FgReturns, LaunchGoesOn, LaunchOver
<1> QED
  BY <1>2, <1>3, <1>4, <1>5, <1>6, <1>7, <1>8, <1>9, <1>10, <1>13, <1>14, <1>15
     DEF ShellNext, UserStep, ShellStep, LaunchStep, UpdateStep, BuiltinStep, BlockStep

\* A process that was forked is watched, in a place that was empty.
LEMMA LaunchEffects ==
    ASSUME TypedInv, NoStrayWait, LaunchInv, NEW p \in Pids, LaunchProcess(p),
           NEW h, h = newjob, NEW k, k = call
    PROVE  /\ h \in Jobs /\ h \in Tracked
           /\ k \in 1 .. Len(calls)
           /\ Tracked' = Tracked /\ heap' = heap
           /\ ~Watches(h, k) /\ Watches(h, k)'
           /\ subjobs[h][k] = NULL
           /\ subjobs'[h][k] = Start(p) /\ Start(p) # NULL
           /\ \A g, m : g # h \/ m # k =>
                 /\ Watches(g, m)' <=> Watches(g, m)
                 /\ subjobs'[g][m] = subjobs[g][m]
           /\ \A g : DOMAIN subjobs'[g] = DOMAIN subjobs[g]
           /\ \A g : g # h => subjobs'[g] = subjobs[g] /\ pgid'[g] = pgid[g]
           /\ pgid'[h] = LaunchGroup(p)
           /\ proc[p].st = "free" /\ proc'[p].st = "live" /\ proc'[p].report = "none"
           /\ \A q \in Pids \ {p} : proc'[q] = proc[q]
<1> USE DEF TypedInv, OthersTyped
<1>1. h \in Jobs /\ h \in Tracked /\ newjob # NULL
  BY ListedAreJobs DEF ControlInv, LaunchProcess, Tracked, Launched
<1>2. k \in 1 .. Len(calls) /\ DOMAIN subjobs[h] = 1 .. Len(calls) /\ subjobs[h][k] = NULL
  BY <1>1 DEF LaunchInv, LaunchProcess, LaunchTyped
<1>3. Tracked' = Tracked /\ heap' = heap
  BY ListedChanges DEF LaunchProcess, Tracked, Launched
<1>4. /\ subjobs \in [Jobs -> Seq(Subjob \cup {NULL})]
      /\ pgid \in [Jobs -> Pids \cup {NULL}]
      /\ proc \in [Pids -> Process]
  BY DEF JobsTyped, KernelTypeOK
<1>5. /\ subjobs' = [subjobs EXCEPT ![h] = [subjobs[h] EXCEPT ![k] = Start(p)]]
      /\ pgid' = [pgid EXCEPT ![h] = LaunchGroup(p)]
      /\ proc' = [proc EXCEPT ![p] = NewProcess(LaunchGroup(p), IF background THEN "bg" ELSE "fg")]
  BY DEF LaunchProcess
<1>6. subjobs'[h] = [subjobs[h] EXCEPT ![k] = Start(p)] /\ pgid'[h] = LaunchGroup(p)
  BY <1>1, <1>4, <1>5
<1>7. \A g : g # h => subjobs'[g] = subjobs[g] /\ pgid'[g] = pgid[g]
  BY <1>4, <1>5
<1>8. subjobs'[h][k] = Start(p) /\ \A m : m # k => subjobs'[h][m] = subjobs[h][m]
  BY <1>2, <1>6
<1>9. \A g : DOMAIN subjobs'[g] = DOMAIN subjobs[g]
  BY <1>6, <1>7
<1>10. Start(p) # NULL /\ ~is_finished_status(Start(p).last_status)
  BY SubjobAssumption DEF Start, Subjob, Status, is_finished_status, FinishedStatus
<1>11. k \in Unfinished(h)' /\ k \notin Unfinished(h)
  <2>1. k \in DOMAIN subjobs'[h]
    BY <1>2, <1>9
  <2> QED
    BY <1>2, <1>8, <1>10, <2>1 DEF Unfinished, Forked, is_finished_status
<1>12. \A g, m : g # h \/ m # k => (m \in Unfinished(g)' <=> m \in Unfinished(g)) /\ subjobs'[g][m] = subjobs[g][m]
  BY <1>7, <1>8, <1>9 DEF Unfinished, Forked, is_finished_status
<1>13. proc[p].st = "free" /\ proc'[p].st = "live" /\ proc'[p].report = "none"
  BY <1>4, <1>5 DEF LaunchProcess, IsFreePid, NewProcess
<1>14. \A q \in Pids \ {p} : proc'[q] = proc[q]
  BY <1>4, <1>5
<1>15. ~Watches(h, k) /\ Watches(h, k)'
  BY <1>1, <1>3, <1>11 DEF Watches
<1>16. \A g, m : g # h \/ m # k => (Watches(g, m)' <=> Watches(g, m)) /\ subjobs'[g][m] = subjobs[g][m]
  BY <1>3, <1>12 DEF Watches
<1> QED
  BY <1>1, <1>2, <1>3, <1>6, <1>7, <1>8, <1>9, <1>10, <1>13, <1>14, <1>15, <1>16

LEMMA LaunchInvStep ==
    ASSUME TypedInv, NoStrayWait, LaunchInv, [ShellNext]_vars
    PROVE  LaunchInv'
<1> USE DEF TypedInv, OthersTyped
<1>1. CASE newjob' = NULL
  BY <1>1 DEF LaunchInv, LaunchOver
<1>2. CASE LaunchGoesOn /\ newjob # NULL
  <2>1. Unfinished(newjob)' = Unfinished(newjob) /\ Forked(newjob)' = Forked(newjob)
    BY <1>2 DEF LaunchGoesOn, Unfinished, Forked, is_finished_status
  <2>2. call' \in Nat \ {0} /\ call' .. Len(calls) \subseteq call .. Len(calls)
    BY <1>2 DEF LaunchGoesOn, LaunchInv, LaunchTyped
  <2> QED
    BY <1>2, <2>1, <2>2 DEF LaunchGoesOn, LaunchInv
<1>3. ASSUME NEW c \in Commands, NEW bg \in BOOLEAN, RunCommand(c, bg) PROVE LaunchInv'
  <2>1. CASE newjob' = newjob
    BY <1>1, <1>3, <2>1 DEF RunCommand, ControlInv
  <2>2. ASSUME NEW h \in Jobs, newjob' = h, subjobs' = [subjobs EXCEPT ![h] = [k \in 1 .. Len(c) |-> NULL]]
        PROVE  LaunchInv'
    <3>1. subjobs'[newjob'] = [k \in 1 .. Len(c) |-> NULL] /\ calls' = c /\ call' = 1
      BY <1>3, <2>2 DEF RunCommand, JobsTyped
    <3>2. Len(c) \in Nat
      BY CommandsAssumption
    <3> QED
      BY <3>1, <3>2 DEF LaunchInv, Unfinished, Forked
  <2> QED
    BY <1>3, <2>1, <2>2 DEF RunCommand
<1>4. ASSUME NEW p \in Pids, LaunchProcess(p), NEW h, h = newjob, NEW k, k = call PROVE LaunchInv'
  <2>1. newjob' = h /\ calls' = calls /\ call' = k + 1 /\ h # NULL /\ pc = "launch"
    BY <1>4 DEF LaunchProcess, ControlInv
  <2>2. /\ Unfinished(h) = Forked(h) /\ k \in Nat \ {0} /\ DOMAIN subjobs[h] = 1 .. Len(calls)
        /\ \A m \in k .. Len(calls) : subjobs[h][m] = NULL
    BY <1>4, <2>1 DEF LaunchInv
  <2>3. /\ Watches(h, k)'
        /\ \A m : m # k => subjobs'[h][m] = subjobs[h][m]
        /\ DOMAIN subjobs'[h] = DOMAIN subjobs[h]
    BY <1>4, LaunchEffects
  <2>4. Unfinished(h)' = Forked(h)'
    BY <2>2, <2>3 DEF Watches, Unfinished, Forked, is_finished_status
  <2>5. \A m \in k + 1 .. Len(calls) : subjobs'[h][m] = NULL
    BY <2>2, <2>3 DEF LaunchTyped
  <2> QED
    BY <2>1, <2>2, <2>3, <2>4, <2>5 DEF LaunchInv
<1>5. CASE BlockWait /\ target = newjob /\ newjob # NULL
  <2>1. UNCHANGED <<newjob, calls, call, pc, caller>> /\ pc = "block" /\ caller = "exec"
    BY <1>5, ListedAreJobs DEF BlockWait, launchVars, ControlInv
  <2>2. PICK k : Learns(newjob, k)
    BY <1>5, BlockIsOne DEF BlockStep
  <2>3. /\ DOMAIN subjobs'[newjob] = DOMAIN subjobs[newjob]
        /\ \A m : m # k => subjobs'[newjob][m] = subjobs[newjob][m]
        /\ subjobs[newjob][k] # NULL
    BY <2>2, LearnEffects DEF Learns, Watches, Unfinished, Forked
  <2> QED
    BY <2>1, <2>3, <1>5 DEF LaunchInv
<1> QED
  BY <1>1, <1>2, <1>3, <1>4, <1>5, LaunchSteps DEF LaunchGoesOn, LaunchOver, BlockWait, launchVars

LEMMA BreaksEffects ==
    ASSUME TypedInv, NEW p \in Pids, HandshakeBreaks(p), NEW h, h = newjob
    PROVE  /\ Tracked' = Tracked /\ heap' = heap /\ UNCHANGED subjobs
           /\ \A g, m : Watches(g, m)' <=> Watches(g, m)
           /\ h \in Jobs /\ h \in Tracked
           /\ pgid'[h] = LaunchGroup(p) /\ \A g : g # h => pgid'[g] = pgid[g]
           /\ proc[p].st = "free"
           /\ pc' = "killed"
           /\ LaunchMayFail
           /\ ProcessesGo
<1> USE DEF TypedInv, OthersTyped
<1>1. Tracked' = Tracked /\ heap' = heap /\ UNCHANGED subjobs /\ LaunchMayFail /\ pc' = "killed"
  BY ListedChanges DEF HandshakeBreaks, launchVars, Tracked, Launched
<1>2. \A g, m : Watches(g, m)' <=> Watches(g, m)
  BY <1>1, UnfinishedKept DEF Watches
<1>3. h \in Jobs /\ h \in Tracked
  BY ListedAreJobs DEF HandshakeBreaks, ControlInv, Tracked, Launched
<1>4. pgid'[h] = LaunchGroup(p) /\ \A g : g # h => pgid'[g] = pgid[g]
  BY <1>3 DEF HandshakeBreaks, JobsTyped
<1>5. proc[p].st = "free" /\ proc' = [proc EXCEPT ![p] = Dead(NewProcess(SHELL, "none"), "killed", 0)]
  BY DEF HandshakeBreaks, IsFreePid
<1>6. Fit(Dead(NewProcess(SHELL, "none"), "killed", 0))
  BY DEF Dead, NewProcess, Fit
<1>7. ProcessesGo
  BY <1>1, <1>5, <1>6, SameGoes DEF KernelTypeOK, ProcessesGo, Goes, Zombies
<1> QED
  BY <1>1, <1>2, <1>3, <1>4, <1>5, <1>7

-----------------------------------------------------------------------------
(* What is known of a child.                                               *)

ReportsFit == \A p \in Pids : Fit(proc[p])

LEMMA CatchUpWatched ==
    StatusCatchesUp <=> \A h, k : Watches(h, k) => CaughtUp(subjobs[h][k].last_status, proc[subjobs[h][k].pid])
BY DEF StatusCatchesUp, Watches, CaughtUp

LEMMA StatusStep ==
    ASSUME TypedInv, NoStrayWait, LaunchInv, ReportsFit, StatusCatchesUp, [ShellNext]_vars
    PROVE  ReportsFit' /\ StatusCatchesUp'
<1> USE DEF TypedInv, OthersTyped
<1> DEFINE Right(h, k) == CaughtUp(subjobs[h][k].last_status, proc[subjobs[h][k].pid])
<1>1. \A h, k : Watches(h, k) =>
         Right(h, k) /\ subjobs[h][k].pid \in Pids /\ proc[subjobs[h][k].pid].st # "free"
  BY CatchUpWatched, WatchedProcess
<1>2. ASSUME ProcessesGo, \A h, k : Watches(h, k)' => Watches(h, k) /\ subjobs'[h][k] = subjobs[h][k]
      PROVE  ReportsFit' /\ StatusCatchesUp'
  <2>1. ReportsFit'
    BY <1>2 DEF ReportsFit, ProcessesGo, Goes
  <2>2. \A h, k : Watches(h, k)' => Right(h, k)'
    BY <1>1, <1>2 DEF ProcessesGo, Goes
  <2> QED
    BY <2>1, <2>2, CatchUpWatched DEF Watches, StatusCatchesUp, CaughtUp
<1>3. ASSUME NEW h, NEW k, Learns(h, k) PROVE ReportsFit' /\ StatusCatchesUp'
  <2> DEFINE p == subjobs[h][k].pid
  <2>1. p \in Pids /\ proc[p] \in Process /\ Watches(h, k)
    BY <1>3, LearnEffects DEF Learns
  <2>2. /\ Fit(AfterReport(proc[p]))
        /\ proc[p].st \notin Zombies => CaughtUp(job_status_from_int(proc[p]), AfterReport(proc[p]))
    <3>1. Fit(proc[p]) /\ \E w \in BOOLEAN : IsReportable(proc[p], w)
      BY <1>3, <2>1 DEF ReportsFit, Learns
    <3> QED
      BY <2>1, <3>1 DEF Fit, CaughtUp, AfterReport, FreeProcess, IsReportable, job_status_from_int, Process, Zombies
  <2>3. proc'[p] = AfterReport(proc[p]) /\ \A q \in Pids \ {p} : proc'[q] = proc[q]
    BY <1>3, LearnEffects
  <2>4. ReportsFit'
    BY <2>1, <2>2, <2>3 DEF ReportsFit
  <2>5. ASSUME NEW g, NEW m, Watches(g, m)' PROVE Right(g, m)'
    <3>1. CASE g = h /\ m = k
      BY <1>3, <2>2, <2>3, <2>5, <3>1, LearnEffects
    <3>2. CASE g # h \/ m # k
      <4>1. Watches(g, m) /\ subjobs'[g][m] = subjobs[g][m]
        BY <1>3, <2>5, <3>2, LearnEffects
      <4>2. subjobs[g][m].pid # p
        BY <2>1, <3>2, <4>1 DEF NoStrayWait, Watches
      <4> QED
        BY <1>1, <2>3, <4>1, <4>2
    <3> QED
      BY <3>1, <3>2
  <2> QED
    BY <2>4, <2>5 DEF StatusCatchesUp, Watches, CaughtUp
<1>4. ASSUME NEW p \in Pids, LaunchProcess(p), NEW h, h = newjob, NEW k, k = call
      PROVE  ReportsFit' /\ StatusCatchesUp'
  <2>1. /\ proc[p].st = "free" /\ proc'[p].st = "live" /\ proc'[p].report = "none"
        /\ \A q \in Pids \ {p} : proc'[q] = proc[q]
        /\ subjobs'[h][k] = Start(p)
    BY <1>4, LaunchEffects
  <2>2. ReportsFit'
    BY <2>1 DEF ReportsFit, Fit
  <2>3. ASSUME NEW g, NEW m, Watches(g, m)' PROVE Right(g, m)'
    <3>1. CASE g = h /\ m = k
      BY <2>1, <3>1 DEF CaughtUp, Start
    <3>2. CASE g # h \/ m # k
      <4>1. Watches(g, m) /\ subjobs'[g][m] = subjobs[g][m]
        BY <1>4, <2>3, <3>2, LaunchEffects
      <4> QED
        BY <1>1, <2>1, <4>1
    <3> QED
      BY <3>1, <3>2
  <2> QED
    BY <2>2, <2>3 DEF StatusCatchesUp, Watches, CaughtUp
<1>5. ASSUME NEW p \in Pids, HandshakeBreaks(p) PROVE ReportsFit' /\ StatusCatchesUp'
  <2>1. ProcessesGo /\ UNCHANGED subjobs /\ \A h, k : Watches(h, k)' <=> Watches(h, k)
    BY <1>5, BreaksEffects
  <2> QED
    BY <1>2, <2>1
<1>6. ASSUME Stays \/ (\E h : Leaves(h)) \/ (\E h, c : Comes(h, c)) PROVE ReportsFit' /\ StatusCatchesUp'
  <2>1. ProcessesGo /\ \A h, k : Watches(h, k)' => WatchesLessOf(h, k)
    BY <1>6, QuietWatches
  <2> QED
    BY <1>2, <2>1 DEF WatchesLessOf
<1> QED
  BY <1>3, <1>4, <1>5, <1>6, JobSteps

\* The job being launched, the reports and what is known of the children.
ChildrenInv == LaunchInv /\ ReportsFit /\ StatusCatchesUp

LEMMA ChildrenInvariant == ShellSpec => []ChildrenInv
<1>1. ASSUME ShellInit PROVE ChildrenInv
  <2>1. newjob = NULL /\ \A p \in Pids : proc[p] = FreeProcess
    BY <1>1 DEF ShellInit, KernelInit
  <2>2. ReportsFit
    BY <2>1 DEF ReportsFit, Fit, FreeProcess
  <2>3. Tracked = {}
    BY <1>1, <2>1 DEF ShellInit, TableInit, Tracked, Launched, ListedJobs, Occupied, EmptySlots
  <2> QED
    BY <2>1, <2>2, <2>3 DEF ChildrenInv, LaunchInv, StatusCatchesUp
<1>2. TypedInv /\ NoStrayWait /\ ChildrenInv /\ [ShellNext]_vars => ChildrenInv'
  BY LaunchInvStep, StatusStep DEF ChildrenInv
<1> QED
  BY <1>1, <1>2, TypedInvariant, WaitsAreSound, PTL DEF ShellSpec

\* What wait_for_job stored for a process is never wrong for good: when it
\* says stopped and the process runs, or running and the process is stopped,
\* waitpid has not returned the report that corrects it yet, whatever the
\* order of stops, continuations, waits and signals.
THEOREM StatusesCatchUp == ShellSpec => []StatusCatchesUp
<1>1. ChildrenInv => StatusCatchesUp
  BY DEF ChildrenInv
<1> QED
  BY <1>1, ChildrenInvariant, PTL

-----------------------------------------------------------------------------
(* No child is lost.                                                       *)

LEMMA LostWatched ==
    NothingLost <=>
       /\ heap = Tracked
       /\ \A p \in Pids : proc[p].st # "free" => \E h, k : Watches(h, k) /\ subjobs[h][k].pid = p
BY DEF NothingLost, Watches

LEMMA NothingLostStep ==
    ASSUME TypedInv, NoStrayWait, LaunchInv, ~LaunchMayFail, NothingLost, [ShellNext]_vars
    PROVE  NothingLost'
<1> USE DEF TypedInv, OthersTyped
<1> DEFINE Seen(p) == \E h, k : Watches(h, k) /\ subjobs[h][k].pid = p
<1>1. heap = Tracked /\ \A p \in Pids : proc[p].st # "free" => Seen(p)
  BY LostWatched
<1>2. SUFFICES /\ heap' = Tracked'
               /\ \A p \in Pids : proc'[p].st # "free" => Seen(p)'
  BY DEF NothingLost, Watches
<1>3. ASSUME Stays \/ (\E h : Leaves(h)) \/ (\E h, c : Comes(h, c))
      PROVE  heap' = Tracked' /\ \A p \in Pids : proc'[p].st # "free" => Seen(p)'
  <2>1. heap' = Tracked'
    BY <1>1, <1>3 DEF Stays, Leaves, Comes
  <2>2. \A p \in Pids : proc'[p].st # "free" => proc[p].st # "free"
    BY <1>3, QuietWatches DEF ProcessesGo, Goes
  <2>3. \A h, k : Watches(h, k) => Watches(h, k)' /\ subjobs'[h][k] = subjobs[h][k]
    BY <1>3, QuietWatches DEF WatchesLessOf
  <2> QED
    BY <1>1, <2>1, <2>2, <2>3
<1>4. ASSUME NEW h, NEW k, Learns(h, k), NEW q, q = subjobs[h][k].pid
      PROVE  heap' = Tracked' /\ \A p \in Pids : proc'[p].st # "free" => Seen(p)'
  <2>1. heap' = Tracked'
    BY <1>1, <1>4 DEF Learns
  <2>2. q \in Pids /\ proc'[q] = AfterReport(proc[q]) /\ \A p \in Pids \ {q} : proc'[p] = proc[p]
    BY <1>4, LearnEffects
  <2>3. ASSUME NEW p \in Pids, p # q, proc'[p].st # "free" PROVE Seen(p)'
    <3>1. PICK g, m : Watches(g, m) /\ subjobs[g][m].pid = p
      BY <1>1, <2>2, <2>3
    <3>2. g # h \/ m # k
      BY <1>4, <2>3, <3>1
    <3>3. Watches(g, m)' /\ subjobs'[g][m] = subjobs[g][m]
      BY <1>4, <3>1, <3>2, LearnEffects
    <3> QED
      BY <3>1, <3>3
  <2>4. ASSUME proc'[q].st # "free" PROVE Seen(q)'
    <3>1. proc[q].st \notin Zombies
      BY <2>2, <2>4 DEF AfterReport, FreeProcess
    <3>2. Watches(h, k)' /\ subjobs'[h][k].pid = q
      BY <1>4, <3>1, LearnEffects
    <3> QED
      BY <3>2
  <2> QED
    BY <2>1, <2>3, <2>4
<1>5. ASSUME NEW p \in Pids, LaunchProcess(p), NEW h, h = newjob, NEW k, k = call
      PROVE  heap' = Tracked' /\ \A q \in Pids : proc'[q].st # "free" => Seen(q)'
  <2>1. /\ Tracked' = Tracked /\ heap' = heap
        /\ Watches(h, k)' /\ subjobs'[h][k] = Start(p)
        /\ \A q \in Pids \ {p} : proc'[q] = proc[q]
    BY <1>5, LaunchEffects
  <2>2. subjobs'[h][k].pid = p
    BY <2>1 DEF Start
  <2>3. ASSUME NEW q \in Pids, q # p, proc'[q].st # "free" PROVE Seen(q)'
    <3>1. PICK g, m : Watches(g, m) /\ subjobs[g][m].pid = q
      BY <1>1, <2>1, <2>3
    <3>2. ~Watches(h, k)
      BY <1>5, LaunchEffects
    <3>3. g # h \/ m # k
      BY <3>1, <3>2
    <3>4. Watches(g, m)' /\ subjobs'[g][m] = subjobs[g][m]
      BY <1>5, <3>1, <3>3, LaunchEffects
    <3> QED
      BY <3>1, <3>4
  <2> QED
    BY <1>1, <2>1, <2>2, <2>3
<1>6. \A p \in Pids : ~HandshakeBreaks(p)
  BY DEF HandshakeBreaks
<1> QED
  BY <1>3, <1>4, <1>5, <1>6, JobSteps

\* A child is never forgotten: as long as no launch fails, every child that
\* is alive, stopped or a zombie is one that the shell will still ask for, by
\* way of a job that is listed or being launched, and every job that is
\* allocated is one of these.
THEOREM NoChildLost ==
    ASSUME ~LaunchMayFail
    PROVE  ShellSpec => []NothingLost
<1>1. ShellInit => NothingLost
  BY DEF ShellInit, KernelInit, FreeProcess, NothingLost, Tracked, Launched, TableInit,
         ListedJobs, Occupied, EmptySlots
<1>2. TypedInv /\ NoStrayWait /\ ChildrenInv /\ NothingLost /\ [ShellNext]_vars => NothingLost'
  BY NothingLostStep DEF ChildrenInv
<1> QED
  BY <1>1, <1>2, TypedInvariant, WaitsAreSound, ChildrenInvariant, PTL DEF ShellSpec

\* Only exit makes the shell leave its main loop.
LEMMA ExitSteps ==
    ASSUME [ShellNext]_vars, should_exit' /\ ~should_exit
    PROVE  \E val \in ExitCodes : ExitAccepted(val)
<1>1. ~UNCHANGED should_exit
  OBVIOUS
<1>2. ~UserStep /\ ~EndLine /\ ~LaunchStep
  BY <1>1 DEF UserStep, ReadLine, RunCommand, EndLine, mainVars, LaunchStep, LaunchProcess, HandshakeFails,
              HandshakeBreaks, LaunchBuiltin, LaunchFails, LaunchDone, LaunchForeground
<1>3. ~BuiltinStep /\ ~BlockStep
  BY <1>1 DEF BuiltinStep, BuiltinUpdates, BuiltinOther, BuiltinKill, BuiltinBg, BuiltinFg, mainVars,
              BlockStep, BlockWait, FgReturns, ForegroundReturns
<1>4. ~ProcessStep /\ ~Ended /\ ~UNCHANGED vars
  BY <1>1 DEF ProcessStep, Ended, vars, mainVars
<1>5. UpdateStep
  BY <1>2, <1>3, <1>4 DEF ShellNext, ShellStep
<1> QED
  BY <1>1, <1>5 DEF UpdateStep, UpdateWait, UpdateJob, UpdateReturnsToPrompt, UpdateReturnsToJobs,
                    ExitRefused, mainVars

LEMMA ExitLeavesNobody ==
    ASSUME TypedInv, NoStrayWait, NothingLost, NEW val, ExitAccepted(val)
    PROVE  \A p \in Pids : proc[p].st # "free" => newjob # NULL /\ proc[p].grp = pgid[newjob]
<1> SUFFICES ASSUME NEW p \in Pids, proc[p].st # "free"
             PROVE  newjob # NULL /\ proc[p].grp = pgid[newjob]
  OBVIOUS
<1>1. PICK h, k : h \in Tracked /\ k \in Unfinished(h) /\ subjobs[h][k].pid = p
  BY DEF NothingLost
<1>2. h \in Jobs
  BY <1>1, WatchedProcess DEF Watches
<1>3. subjobs[h][k].last_status \in {"RUNNING", "STOPPED"}
  BY <1>1, <1>2, UnfinishedSubjob
     DEF TypedInv, OthersTyped, Subjob, Status, Unfinished, is_finished_status, FinishedStatus
<1>4. is_job_alive(h)
  BY <1>1, <1>3 DEF is_job_alive, LastStatuses, Unfinished
<1>5. h = newjob /\ newjob # NULL
  BY <1>1, <1>4 DEF ExitAccepted, are_jobs_running, Tracked, Launched
<1> QED
  BY <1>1, <1>5 DEF NoStrayWait

\* As long as no launch fails, exit never leaves a child behind but those of
\* the pipeline it is a call of, although it only looks at the statuses that
\* were stored for the listed jobs.
THEOREM ExitLeavesNoChildBehind ==
    ASSUME ~LaunchMayFail
    PROVE  ShellSpec => ExitLeavesNoChild
<1> DEFINE OnlyOwn == \A p \in Pids : proc[p].st # "free" => newjob # NULL /\ proc[p].grp = pgid[newjob]
<1>1. TypedInv /\ NoStrayWait /\ NothingLost /\ [ShellNext]_vars
         => [should_exit' /\ ~should_exit => OnlyOwn]_vars
  BY ExitSteps, ExitLeavesNobody
<1> QED
  BY <1>1, TypedInvariant, WaitsAreSound, NoChildLost, PTL DEF ShellSpec, ExitLeavesNoChild

-----------------------------------------------------------------------------
(* Groups.                                                                 *)

\* A job that has a group is only without a process that keeps the pid of
\* the group from being given away while the shell is dealing with the job,
\* or when the shell is dead.
HandInv ==
    \A h \in Tracked : pgid[h] # NULL /\ Unfinished(h) = {} => h = JobAtHand \/ pc = "killed"

\* Where the control is at a job, few steps are possible.
LEMMA PlaceSteps ==
    ASSUME [ShellNext]_vars, pc \in {"update", "block", "killed"}
    PROVE  \/ UNCHANGED <<tableVars, pc, slot, target>>
           \/ pc = "update" /\ UpdateStep
           \/ pc = "block" /\ BlockStep
<1>1. CASE ProcessStep \/ Ended \/ UNCHANGED vars
  BY <1>1 DEF ProcessStep, Ended, vars, loopVars
<1>2. ~UserStep /\ ~EndLine /\ ~LaunchStep /\ ~BuiltinStep
  BY DEF UserStep, ReadLine, RunCommand, EndLine, LaunchStep, LaunchProcess, HandshakeFails, HandshakeBreaks,
         LaunchBuiltin, LaunchFails, LaunchDone, LaunchForeground, BuiltinStep, BuiltinUpdates, BuiltinOther,
         BuiltinKill, BuiltinBg, BuiltinFg
<1>3. UpdateStep => pc = "update"
  BY DEF UpdateStep, UpdateWait, UpdateJob, UpdateReturnsToPrompt, UpdateReturnsToJobs, ExitRefused, ExitAccepted
<1>4. BlockStep => pc = "block"
  BY DEF BlockStep, BlockWait, FgReturns, ForegroundReturns
<1> QED
  BY <1>1, <1>2, <1>3, <1>4 DEF ShellNext, ShellStep

\* A job without a process stays the one at hand until it is freed.
LEMMA HandKept ==
    ASSUME TypedInv, [ShellNext]_vars, NEW h \in Tracked,
           Unfinished(h) = {}, h = JobAtHand \/ pc = "killed"
    PROVE  h = JobAtHand' \/ pc' = "killed" \/ h \notin Tracked'
<1> USE DEF TypedInv, OthersTyped
<1>1. h \in Jobs /\ h # NULL
  BY ListedAreJobs, NullAssumption DEF Tracked, Launched, LaunchTyped
<1>2. is_job_finished(h)
  <2>1. subjobs[h] \in Seq(Subjob \cup {NULL})
    BY <1>1 DEF JobsTyped
  <2> QED
    BY <2>1 DEF Unfinished, Forked, is_job_finished, LastStatuses, is_finished_status
<1>3. pc \in {"update", "block", "killed"}
  BY <1>1 DEF JobAtHand
<1>4. CASE UNCHANGED <<tableVars, pc, slot, target>>
  BY <1>4 DEF JobAtHand, Occupied, tableVars
<1>5. CASE pc = "update" /\ UpdateStep
  <2>1. slot \in Occupied /\ job_table[slot] = h
    BY <1>1, <1>5 DEF JobAtHand
  <2>2. ~PastTable /\ \A i : AtSlot(i) => i = slot
    <3>1. slot \in Nat /\ \A i \in Occupied : i \in Nat
      <4>1. DOMAIN job_table \subseteq Nat
        BY DEF TableInv, TableTypeOK
      <4> QED
        BY <4>1 DEF Occupied, LoopTyped
    <3>2. ~PastTable
      BY <2>1, <3>1 DEF PastTable
    <3>3. ASSUME NEW i, AtSlot(i) PROVE i = slot
      <4>1. i \in Occupied /\ slot <= i /\ (slot < slot \/ i <= slot)
        BY <2>1, <3>3 DEF AtSlot
      <4> QED
        BY <3>1, <4>1
    <3> QED
      BY <3>2, <3>3
  <2>3. PICK i \in DOMAIN job_table : UpdateWait(i) \/ UpdateJob(i)
    BY <1>5, <2>2 DEF UpdateStep, UpdateReturnsToPrompt, UpdateReturnsToJobs, ExitRefused, ExitAccepted
  <2>4. i = slot
    BY <2>2, <2>3 DEF UpdateWait, UpdateJob
  <2>5. ~UpdateWait(i)
    BY <1>1, <2>1, <2>4 DEF UpdateWait
  <2>6. Leaves(h)
    BY <1>2, <2>1, <2>3, <2>4, <2>5, UpdateIsOne
  <2> QED
    BY <2>6 DEF Leaves
<1>6. CASE pc = "block" /\ BlockStep
  <2>1. h = target
    BY <1>6 DEF JobAtHand
  <2>2. ~BlockWait
    BY <2>1 DEF BlockWait
  <2>3. Leaves(h)
    BY <1>2, <1>6, <2>1, <2>2, BlockIsOne DEF BlockStep
  <2> QED
    BY <2>3 DEF Leaves
<1> QED
  BY <1>3, <1>4, <1>5, <1>6, PlaceSteps

\* In the loop of execute_as_job, a pid that is free names no group of a job.
LEMMA FreePidIsNoGroup ==
    ASSUME TypedInv, NoStrayWait, HandInv, pc = "launch", NEW p \in Pids, IsFreePid(p), NEW g \in Tracked
    PROVE  pgid[g] # p
<1> SUFFICES ASSUME pgid[g] = p PROVE FALSE
  OBVIOUS
<1>1. g \in Jobs /\ g # NULL
  BY ListedAreJobs, NullAssumption DEF TypedInv, OthersTyped, Tracked, Launched, LaunchTyped
<1>2. pgid[g] # NULL
  BY PgidAssumption
<1>3. PICK k : k \in Unfinished(g)
  BY <1>1, <1>2 DEF HandInv, JobAtHand
<1>4. GroupExists(pgid[g])
  BY <1>3, WatchedProcess DEF NoStrayWait, GroupExists, Watches
<1> QED
  BY <1>4 DEF IsFreePid

\* A group given by LaunchGroup is that of no other job.
LEMMA LaunchGroupIsOwn ==
    ASSUME TypedInv, NoStrayWait, HandInv, GroupsAreDistinct, pc = "launch",
           NEW p \in Pids, IsFreePid(p), NEW h \in Tracked, h = newjob, NEW g \in Tracked, g # h
    PROVE  pgid[g] # LaunchGroup(p)
BY FreePidIsNoGroup DEF GroupsAreDistinct, LaunchGroup

LEMMA GroupsStep ==
    ASSUME TypedInv, NoStrayWait, LaunchInv, HandInv, GroupsAreDistinct, [ShellNext]_vars
    PROVE  HandInv' /\ GroupsAreDistinct'
<1> USE DEF TypedInv, OthersTyped
<1> DEFINE Bare(h) == h \in Tracked /\ pgid[h] # NULL /\ Unfinished(h) = {}
           Handed(h) == h = JobAtHand' \/ pc' = "killed" \/ h \notin Tracked'
<1>1. \A h : Bare(h) => Handed(h)
  BY HandKept DEF HandInv
<1>2. SUFFICES /\ \A h : Bare(h)' => Handed(h)
               /\ \A g, h \in Tracked' : g # h /\ pgid'[g] # NULL => pgid'[g] # pgid'[h]
  BY DEF HandInv, GroupsAreDistinct
<1>3. ASSUME NEW d,
             \A h : h # d /\ h \in Tracked' =>
                h \in Tracked /\ pgid'[h] = pgid[h] /\ Unfinished(h)' = Unfinished(h)
      PROVE  \A h : h # d /\ Bare(h)' => Handed(h)
  BY <1>1, <1>3
<1>4. CASE Stays
  <2>1. \A h : Unfinished(h)' = Unfinished(h)
    BY <1>4, UnfinishedKept DEF Stays
  <2> QED
    BY <1>1, <1>4, <2>1 DEF Stays, GroupsAreDistinct
<1>5. ASSUME NEW h, Leaves(h)
      PROVE  /\ \A g : Bare(g)' => Handed(g)
             /\ \A f, g \in Tracked' : f # g /\ pgid'[f] # NULL => pgid'[f] # pgid'[g]
  <2>1. Tracked' = Tracked \ {h}
    BY <1>5 DEF Leaves
  <2>2. \A g : g # h => subjobs'[g] = subjobs[g] /\ pgid'[g] = pgid[g]
    BY <1>5 DEF Leaves, JobFreed, JobsTyped
  <2>3. \A g : g # h => Unfinished(g)' = Unfinished(g)
    BY <2>2 DEF Unfinished, Forked, is_finished_status
  <2>4. \A g : Bare(g)' => Handed(g)
    <3>1. \A g : g # h /\ Bare(g)' => Handed(g)
      BY <1>3, <2>1, <2>2, <2>3
    <3>2. ~Bare(h)'
      BY <2>1
    <3> QED
      BY <3>1, <3>2
  <2>5. \A f, g \in Tracked' : f # g /\ pgid'[f] # NULL => pgid'[f] # pgid'[g]
    BY <2>1, <2>2 DEF GroupsAreDistinct
  <2> QED
    BY <2>4, <2>5
<1>6. ASSUME NEW h, NEW c, Comes(h, c)
      PROVE  /\ \A g : Bare(g)' => Handed(g)
             /\ \A f, g \in Tracked' : f # g /\ pgid'[f] # NULL => pgid'[f] # pgid'[g]
  <2>1. Tracked' = Tracked \cup {h} /\ h \in Jobs \ Tracked
    BY <1>6 DEF Comes
  <2>2. pgid'[h] = NULL /\ \A g : g # h => subjobs'[g] = subjobs[g] /\ pgid'[g] = pgid[g]
    BY <1>6 DEF Comes, JobsTyped
  <2>3. \A g : g # h => Unfinished(g)' = Unfinished(g)
    BY <2>2 DEF Unfinished, Forked, is_finished_status
  <2> QED
    BY <1>3, <2>1, <2>2, <2>3 DEF GroupsAreDistinct
<1>7. ASSUME NEW h, NEW k, Learns(h, k)
      PROVE  /\ \A g : Bare(g)' => Handed(g)
             /\ \A f, g \in Tracked' : f # g /\ pgid'[f] # NULL => pgid'[f] # pgid'[g]
  <2>1. Tracked' = Tracked /\ pgid' = pgid /\ JobAtHand' = h
    BY <1>7 DEF Learns
  <2>2. \A g : g # h => subjobs'[g] = subjobs[g]
    BY <1>7, LearnEffects
  <2>3. \A g : g # h => Unfinished(g)' = Unfinished(g)
    BY <2>2 DEF Unfinished, Forked, is_finished_status
  <2> QED
    BY <1>3, <2>1, <2>3 DEF GroupsAreDistinct
<1>8. ASSUME NEW p \in Pids, LaunchProcess(p), NEW h, h = newjob, NEW k, k = call
      PROVE  /\ \A g : Bare(g)' => Handed(g)
             /\ \A f, g \in Tracked' : f # g /\ pgid'[f] # NULL => pgid'[f] # pgid'[g]
  <2>1. /\ h \in Tracked /\ Tracked' = Tracked
        /\ Watches(h, k)'
        /\ pgid'[h] = LaunchGroup(p)
        /\ \A g : g # h => subjobs'[g] = subjobs[g] /\ pgid'[g] = pgid[g]
    BY <1>8, LaunchEffects
  <2>2. \A g : g # h => Unfinished(g)' = Unfinished(g)
    BY <2>1 DEF Unfinished, Forked, is_finished_status
  <2>3. ~Bare(h)'
    BY <2>1 DEF Watches
  <2>4. \A g \in Tracked : g # h => pgid[g] # LaunchGroup(p)
    BY <1>8, <2>1, LaunchGroupIsOwn DEF LaunchProcess
  <2> QED
    BY <1>3, <2>1, <2>2, <2>3, <2>4 DEF GroupsAreDistinct
<1>9. ASSUME NEW p \in Pids, HandshakeBreaks(p), NEW h, h = newjob
      PROVE  /\ \A g : Bare(g)' => Handed(g)
             /\ \A f, g \in Tracked' : f # g /\ pgid'[f] # NULL => pgid'[f] # pgid'[g]
  <2>1. /\ h \in Tracked /\ Tracked' = Tracked /\ pc' = "killed"
        /\ pgid'[h] = LaunchGroup(p) /\ \A g : g # h => pgid'[g] = pgid[g]
    BY <1>9, BreaksEffects
  <2>2. \A g \in Tracked : g # h => pgid[g] # LaunchGroup(p)
    BY <1>9, <2>1, LaunchGroupIsOwn DEF HandshakeBreaks
  <2> QED
    BY <2>1, <2>2 DEF GroupsAreDistinct
<1> QED
  BY <1>4, <1>5, <1>6, <1>7, <1>8, <1>9, JobSteps

LEMMA GroupsInvariant == ShellSpec => [](HandInv /\ GroupsAreDistinct)
<1>1. ASSUME ShellInit PROVE HandInv /\ GroupsAreDistinct
  <2>1. Tracked = {}
    BY <1>1 DEF ShellInit, TableInit, Tracked, Launched, ListedJobs, Occupied, EmptySlots
  <2> QED
    BY <2>1 DEF HandInv, GroupsAreDistinct
<1>2. /\ TypedInv /\ NoStrayWait /\ ChildrenInv /\ HandInv /\ GroupsAreDistinct
      /\ [ShellNext]_vars
      => HandInv' /\ GroupsAreDistinct'
  BY GroupsStep DEF ChildrenInv
<1> QED
  BY <1>1, <1>2, TypedInvariant, WaitsAreSound, ChildrenInvariant, PTL DEF ShellSpec

\* kill, fg and bg reach the processes of the job they name and of no other:
\* two jobs never have the same group, although pids are given away again and
\* launches may fail, because a job of the table keeps its group in use until
\* update_jobs finds it finished and removes it.
THEOREM GroupsNeverShared == ShellSpec => []GroupsAreDistinct
BY GroupsInvariant, PTL

-----------------------------------------------------------------------------
(* The exit code of a command.                                             *)

\* In the loop of execute_as_job the chief comes first: once the loop has
\* passed it, it has left its code or it was forked.
ChiefInv ==
    newjob # NULL =>
       /\ info # NULL => call > 1
       /\ call > 1 => info # NULL \/ 1 \in Forked(newjob)
       /\ Len(calls) >= 1
       /\ pc = "block" /\ caller = "exec" => call > 1

\* A builtin that is a call of the pipeline returns.
CallReturns ==
    \E code \in ExitCodes :
       /\ info' = IF call = 1 THEN code ELSE info
       /\ call' = call + 1
       /\ calls' = calls
       /\ pc' = "launch"

\* The loop goes on only by a builtin that returns or a process that is
\* forked, and the wait for the job begins when it is over.
LEMMA CodeSteps ==
    ASSUME TypedInv, [ShellNext]_vars, newjob # NULL, newjob' = newjob
    PROVE  \/ /\ UNCHANGED <<info, call, calls>>
              /\ pc' = "block" /\ caller' = "exec" =>
                    (pc = "block" /\ caller = "exec") \/ call > Len(calls)
           \/ CallReturns
           \/ \E p \in Pids : LaunchProcess(p)
<1> USE ExitCodesAssumption DEF TypedInv, OthersTyped
<1> DEFINE Same == /\ UNCHANGED <<info, call, calls>>
                   /\ pc' = "block" /\ caller' = "exec" =>
                         (pc = "block" /\ caller = "exec") \/ call > Len(calls)
<1>1. \A code \in ExitCodes : BuiltinReturns(code) => CallReturns
  BY DEF BuiltinReturns, CallReturns
<1>2. CASE UNCHANGED vars \/ ProcessStep \/ Ended
  BY <1>2 DEF ProcessStep, Ended, vars, launchVars, loopVars
<1>3. CASE UserStep \/ EndLine
  BY <1>3 DEF UserStep, ReadLine, RunCommand, EndLine, ControlInv
<1>4. CASE LaunchStep
  BY <1>4 DEF LaunchStep, HandshakeFails, HandshakeBreaks, LaunchBuiltin, LaunchFails, LaunchDone,
              LaunchForeground, CommandReturns, CommandDestroyed, launchVars, StartBlocking
<1>5. CASE UpdateStep
  <2>1. ASSUME NEW i \in DOMAIN job_table, UpdateWait(i) \/ UpdateJob(i) PROVE Same
    BY <2>1 DEF UpdateWait, UpdateJob, launchVars
  <2>2. CASE UpdateReturnsToPrompt
    BY <2>2 DEF UpdateReturnsToPrompt, launchVars
  <2>3. CASE UpdateReturnsToJobs
    BY <1>1, <2>3 DEF UpdateReturnsToJobs, launchVars
  <2>4. CASE ExitRefused
    BY <1>1, <2>4 DEF ExitRefused
  <2>5. ASSUME NEW val \in ExitCodes, ExitAccepted(val) PROVE CallReturns
    BY <2>5 DEF ExitAccepted, CallReturns
  <2> QED
    BY <1>5, <2>1, <2>2, <2>3, <2>4, <2>5 DEF UpdateStep
<1>6. CASE BuiltinStep
  <2>1. CASE BuiltinUpdates
    BY <2>1 DEF BuiltinUpdates, StartUpdate, launchVars
  <2>2. CASE BuiltinOther
    BY <1>1, <2>2 DEF BuiltinOther
  <2>3. ASSUME NEW id \in DOMAIN job_table, NEW sig \in Signals, BuiltinKill(id, sig)
        PROVE  Same \/ CallReturns
    BY <1>1, <2>3 DEF BuiltinKill, launchVars
  <2>4. ASSUME NEW id \in DOMAIN job_table, BuiltinBg(id) PROVE CallReturns
    BY <1>1, <2>4 DEF BuiltinBg
  <2>5. ASSUME NEW id \in DOMAIN job_table, BuiltinFg(id) PROVE Same
    BY <2>5 DEF BuiltinFg, StartBlocking, launchVars
  <2> QED
    BY <1>6, <2>1, <2>2, <2>3, <2>4, <2>5 DEF BuiltinStep
<1>7. CASE BlockStep
  <2>1. CASE BlockWait
    BY <2>1 DEF BlockWait, launchVars
  <2>2. CASE FgReturns
    BY <1>1, <2>2 DEF FgReturns
  <2>3. ~ForegroundReturns
    BY DEF ForegroundReturns, CommandReturns, CommandDestroyed
  <2> QED
    BY <1>7, <2>1, <2>2, <2>3 DEF BlockStep
<1> QED
  BY <1>2, <1>3, <1>4, <1>5, <1>6, <1>7 DEF ShellNext, ShellStep

LEMMA ChiefInvStep ==
    ASSUME TypedInv, NoStrayWait, LaunchInv, ChiefInv, [ShellNext]_vars
    PROVE  ChiefInv'
<1> USE DEF TypedInv, OthersTyped
<1>1. CASE newjob' = NULL
  BY <1>1 DEF ChiefInv
<1>2. CASE newjob' # NULL /\ newjob' # newjob
  <2>1. PICK c \in Commands, bg \in BOOLEAN : RunCommand(c, bg)
    BY <1>2, LaunchSteps DEF LaunchOver, LaunchGoesOn, LaunchProcess, BlockWait, launchVars
  <2>2. calls' = c /\ call' = 1 /\ info' = NULL /\ pc' \in {"builtin", "launch"}
    BY <2>1 DEF RunCommand
  <2>3. c \in Seq(Calls) /\ c # <<>>
    BY CommandsAssumption
  <2>4. Len(c) >= 1
    BY <2>3
  <2> QED
    BY <2>2, <2>4 DEF ChiefInv
<1>3. CASE newjob # NULL /\ newjob' = newjob
  <2> DEFINE Stayed == 1 \in Forked(newjob) => 1 \in Forked(newjob)'
  <2>1. call \in Nat \ {0} /\ Stayed
    <3>1. CASE LaunchGoesOn
      BY <1>3, <3>1 DEF LaunchGoesOn, LaunchInv, Forked
    <3>2. ASSUME NEW p \in Pids, LaunchProcess(p) PROVE Stayed
      BY <1>3, <3>2, LaunchEffects DEF Forked
    <3>3. CASE BlockWait /\ target = newjob
      <4>1. PICK k : Learns(newjob, k)
        BY <3>3, BlockIsOne DEF BlockStep
      <4>2. /\ DOMAIN subjobs'[newjob] = DOMAIN subjobs[newjob]
            /\ subjobs'[newjob][k] # NULL
            /\ \A m : m # k => subjobs'[newjob][m] = subjobs[newjob][m]
        BY <4>1, LearnEffects
      <4>3. Stayed
        BY <1>3, <4>2 DEF Forked
      <4> QED
        BY <1>3, <4>3 DEF LaunchInv
    <3>4. ~LaunchOver /\ \A c, bg : ~RunCommand(c, bg)
      BY <1>3 DEF LaunchOver, RunCommand, ControlInv
    <3> QED
      BY <1>3, <3>1, <3>2, <3>3, <3>4, LaunchSteps DEF LaunchInv
  <2>2. CASE /\ UNCHANGED <<info, call, calls>>
             /\ pc' = "block" /\ caller' = "exec" =>
                   (pc = "block" /\ caller = "exec") \/ call > Len(calls)
    <3>1. Len(calls) \in Nat
      BY DEF LaunchTyped
    <3> QED
      BY <1>3, <2>1, <2>2, <3>1 DEF ChiefInv
  <2>3. CASE CallReturns
    <3>1. PICK code \in ExitCodes :
             info' = (IF call = 1 THEN code ELSE info) /\ call' = call + 1 /\ calls' = calls /\ pc' = "launch"
      BY <2>3 DEF CallReturns
    <3>2. code # NULL
      BY CodesAssumption
    <3> QED
      BY <1>3, <2>1, <3>1, <3>2 DEF ChiefInv
  <2>4. ASSUME NEW p \in Pids, LaunchProcess(p) PROVE ChiefInv'
    <3>1. UNCHANGED <<info, calls, pc>> /\ call' = call + 1 /\ pc = "launch"
      BY <2>4 DEF LaunchProcess
    <3>2. call \in Forked(newjob)'
      <4>1. call \in 1 .. Len(calls) /\ subjobs'[newjob][call] # NULL /\ DOMAIN subjobs'[newjob] = DOMAIN subjobs[newjob]
        BY <1>3, <2>4, LaunchEffects
      <4> QED
        BY <1>3, <4>1 DEF LaunchInv, Forked
    <3> QED
      BY <1>3, <2>1, <3>1, <3>2 DEF ChiefInv
  <2> QED
    BY <1>3, <2>2, <2>3, <2>4, CodeSteps
<1> QED
  BY <1>1, <1>2, <1>3

LEMMA ChiefInvariant == ShellSpec => []ChiefInv
<1>1. ShellInit => ChiefInv
  BY DEF ShellInit, ChiefInv
<1>2. TypedInv /\ NoStrayWait /\ ChildrenInv /\ ChiefInv /\ [ShellNext]_vars => ChiefInv'
  BY ChiefInvStep DEF ChildrenInv
<1> QED
  BY <1>1, <1>2, TypedInvariant, WaitsAreSound, ChildrenInvariant, PTL DEF ShellSpec

\* The process of a subjob that has ended stays a zombie with its code until
\* the report is stored for that very subjob.
LEMMA ZombieKept ==
    ASSUME TypedInv, NoStrayWait, LaunchInv, [ShellNext]_vars, NEW h \in Tracked, NEW k \in Unfinished(h),
           NEW p, p = subjobs[h][k].pid, proc[p].st \in Zombies, subjobs'[h][k] = subjobs[h][k]
    PROVE  proc'[p] = proc[p]
<1> USE DEF TypedInv, OthersTyped
<1>1. Watches(h, k) /\ p \in Pids /\ proc[p].st # "free"
  BY WatchedProcess DEF Watches, Zombies
<1>2. ProcessesGo => proc'[p] = proc[p]
  BY <1>1 DEF ProcessesGo, Goes
<1>3. ASSUME NEW g, NEW m, Learns(g, m) PROVE proc'[p] = proc[p]
  <2>1. Watches(g, m) /\ subjobs[g][m].pid \in Pids
    BY <1>3, LearnEffects DEF Learns
  <2>2. CASE subjobs[g][m].pid = p
    <3>1. g = h /\ m = k
      BY <1>1, <2>1, <2>2 DEF NoStrayWait, Watches
    <3>2. subjobs'[h][k].last_status \in FinishedStatus
      BY <1>3, <3>1, LearnEffects
    <3> QED
      BY <3>2 DEF Unfinished, is_finished_status
  <2>3. CASE subjobs[g][m].pid # p
    BY <1>1, <1>3, <2>3, LearnEffects
  <2> QED
    BY <2>2, <2>3
<1>4. ASSUME NEW q \in Pids, LaunchProcess(q) \/ HandshakeBreaks(q) PROVE proc'[p] = proc[p]
  <2>1. proc[q].st = "free" /\ \A r \in Pids \ {q} : proc'[r] = proc[r]
    BY <1>4 DEF LaunchProcess, HandshakeBreaks, IsFreePid, KernelTypeOK
  <2> QED
    BY <1>1, <2>1
<1> QED
  BY <1>2, <1>3, <1>4, JobSteps DEF Stays, Leaves, Comes

\* A shell that waits is left by the wait alone.
LEMMA BlockedSteps ==
    ASSUME [ShellNext]_vars, pc = "block"
    PROVE  UNCHANGED vars \/ ProcessStep \/ Ended \/ BlockStep
<1>1. ~UserStep /\ ~EndLine /\ ~LaunchStep /\ ~BuiltinStep
  BY DEF UserStep, ReadLine, RunCommand, EndLine, LaunchStep, LaunchProcess, HandshakeFails, HandshakeBreaks,
         LaunchBuiltin, LaunchFails, LaunchDone, LaunchForeground, BuiltinStep, BuiltinUpdates, BuiltinOther,
         BuiltinKill, BuiltinBg, BuiltinFg
<1>2. ~UpdateStep
  BY DEF UpdateStep, UpdateWait, UpdateJob, UpdateReturnsToPrompt, UpdateReturnsToJobs, ExitRefused, ExitAccepted
<1> QED
  BY <1>1, <1>2 DEF ShellNext, ShellStep

\* While the command runs, the code of its chief is kept.
LEMMA CodeKept ==
    ASSUME TypedInv, NoStrayWait, LaunchInv, ChiefInv, [ShellNext]_vars, newjob # NULL, newjob' = newjob
    PROVE  ChiefCode \in {NULL, ChiefCode'}
<1> USE DEF TypedInv, OthersTyped
<1> DEFINE j == newjob
           s == subjobs[j][1]
<1>1. call \in Nat \ {0} /\ j \in Tracked
  BY DEF LaunchInv, Tracked, Launched
<1>2. CASE info # NULL
  <2>1. info' = info
    <3>1. call # 1
      BY <1>2 DEF ChiefInv
    <3> QED
      BY <3>1, CodeSteps DEF CallReturns, LaunchProcess
  <2> QED
    BY <1>2, <2>1 DEF ChiefCode
<1>3. CASE info = NULL /\ 1 \notin Forked(j)
  BY <1>3 DEF ChiefCode
<1>4. CASE info = NULL /\ 1 \in Forked(j)
  <2>1. info' = NULL
    <3>1. call # 1
      BY <1>4 DEF LaunchInv, Forked
    <3> QED
      BY <1>4, <3>1, CodeSteps DEF CallReturns, LaunchProcess
  <2>2. \/ subjobs'[j][1] = s /\ 1 \in Forked(j)'
        \/ BlockWait /\ target = j
    <3>1. CASE LaunchGoesOn
      BY <1>4, <3>1 DEF LaunchGoesOn, Forked
    <3>2. ASSUME NEW p \in Pids, LaunchProcess(p) PROVE subjobs'[j][1] = s /\ 1 \in Forked(j)'
      BY <1>4, <3>2, LaunchEffects DEF Forked
    <3>3. ~LaunchOver /\ \A c, bg : ~RunCommand(c, bg)
      BY DEF LaunchOver, RunCommand, ControlInv
    <3> QED
      BY <3>1, <3>2, <3>3, LaunchSteps
  <2>3. CASE 1 \in Unfinished(j) /\ subjobs'[j][1] = s /\ 1 \in Forked(j)'
    <3>1. ~is_finished_status(s.last_status)
      BY <2>3 DEF Unfinished
    <3>2. proc[s.pid].st \in Zombies => proc'[s.pid] = proc[s.pid]
      BY <1>1, <2>3, ZombieKept
    <3> QED
      BY <1>4, <2>1, <2>3, <3>1, <3>2 DEF ChiefCode
  <2>4. CASE BlockWait /\ target = j
    <3>1. PICK k \in Unfinished(j) :
             /\ Collect(j, k)
             /\ exit_status' = ExitStatus(k, proc[subjobs[j][k].pid])
             /\ IsReportable(proc[subjobs[j][k].pid], FALSE)
      BY <2>4 DEF BlockWait, WaitReturns
    <3>2. PICK m : Learns(j, m)
      BY <2>4, BlockIsOne DEF BlockStep
    <3>3. subjobs' = [subjobs EXCEPT ![j][k].last_status = job_status_from_int(proc[subjobs[j][k].pid])]
      BY <3>1 DEF Collect
    <3>4. j \in Jobs /\ subjobs[j] \in Seq(Subjob \cup {NULL}) /\ 1 \in DOMAIN subjobs[j] /\ k \in DOMAIN subjobs[j]
      BY <1>4, <3>1, <3>2, LearnEffects DEF JobsTyped, Forked, Unfinished
    <3>5. subjobs'[j] = [subjobs[j] EXCEPT ![k].last_status = job_status_from_int(proc[subjobs[j][k].pid])]
      BY <3>3, <3>4 DEF JobsTyped
    <3>6. CASE k # 1
      <4>1. subjobs'[j][1] = s /\ 1 \in Forked(j)'
        BY <1>4, <3>4, <3>5, <3>6 DEF Forked
      <4>2. CASE 1 \in Unfinished(j)
        BY <2>3, <4>1, <4>2
      <4>3. CASE 1 \notin Unfinished(j)
        <5>1. is_finished_status(s.last_status) /\ exit_status' = exit_status
          BY <1>4, <3>1, <3>6, <4>3 DEF Unfinished, ExitStatus
        <5> QED
          BY <1>4, <2>1, <4>1, <5>1 DEF ChiefCode
      <4> QED
        BY <4>2, <4>3
    <3>7. CASE k = 1
      <4>1. ~is_finished_status(s.last_status)
        BY <3>1, <3>7 DEF Unfinished
      <4>2. CASE proc[s.pid].st \notin Zombies
        BY <1>4, <4>1, <4>2 DEF ChiefCode
      <4>3. CASE proc[s.pid].st \in Zombies
        <5>1. exit_status' = proc[s.pid].code
          BY <3>1, <3>7, <4>3 DEF ExitStatus
        <5>2. job_status_from_int(proc[s.pid]) \in FinishedStatus
          BY <4>3 DEF job_status_from_int, Zombies, FinishedStatus
        <5>3. s \in Subjob
          BY <1>4, <3>4 DEF Forked
        <5>4. subjobs'[j][1] = [s EXCEPT !.last_status = job_status_from_int(proc[s.pid])]
          BY <3>4, <3>5, <3>7
        <5>5. subjobs'[j][1].last_status \in FinishedStatus
          BY <5>2, <5>3, <5>4 DEF Subjob
        <5>6. 1 \in Forked(j)'
          <6>1. 1 \in DOMAIN subjobs'[j]
            BY <3>4, <3>5
          <6>2. subjobs'[j][1] # NULL
            BY <3>2, <1>4, LearnEffects DEF Forked
          <6> QED
            BY <6>1, <6>2 DEF Forked
        <5> QED
          BY <1>4, <2>1, <4>1, <4>3, <5>1, <5>5, <5>6 DEF ChiefCode, is_finished_status
      <4> QED
        BY <4>2, <4>3
    <3> QED
      BY <3>6, <3>7
  <2>5. CASE 1 \notin Unfinished(j) /\ ~(BlockWait /\ target = j)
    <3>1. is_finished_status(s.last_status) /\ pc = "block" /\ caller = "exec" /\ target = j
      BY <1>4, <2>5, ListedAreJobs DEF Unfinished, LaunchInv, ControlInv
    <3>2. exit_status' = exit_status
      <4>1. CASE BlockStep
        BY <2>5, <3>1, <4>1 DEF BlockStep, FgReturns, ForegroundReturns, CommandReturns, CommandDestroyed
      <4>2. CASE UNCHANGED vars \/ ProcessStep \/ Ended
        BY <4>2 DEF vars, loopVars, ProcessStep, Ended
      <4> QED
        BY <3>1, <4>1, <4>2, BlockedSteps
    <3> QED
      BY <1>4, <2>1, <2>2, <2>5, <3>1, <3>2 DEF ChiefCode
  <2> QED
    BY <2>2, <2>3, <2>4, <2>5
<1> QED
  BY <1>2, <1>3, <1>4

\* A job that was in the foreground and has left the shell gives the code.
LEMMA CodeReturned ==
    ASSUME TypedInv, LaunchInv, ChiefInv, [ShellNext]_vars, newjob # NULL, newjob' # newjob,
           pc = "block", newjob \notin ListedJobs'
    PROVE  ChiefCode # NULL /\ last_exit_code' = ChiefCode
<1> USE DEF TypedInv, OthersTyped
<1>1. ForegroundReturns
  <2>1. BlockStep
    BY BlockedSteps DEF vars, launchVars, ProcessStep, Ended
  <2> QED
    BY <2>1, BuiltinKeepsJob DEF BlockStep, BlockWait, FgReturns, launchVars
<1>2. is_job_finished(newjob) /\ last_exit_code' = ForegroundCode
  <2>1. ~add_job(newjob)
    BY ListedChanges
  <2> QED
    BY <1>1, <2>1 DEF ForegroundReturns, CommandReturns
<1>3. caller = "exec" /\ (info # NULL \/ 1 \in Forked(newjob))
  BY <1>1 DEF ForegroundReturns, ChiefInv
<1>4. CASE info # NULL
  BY <1>2, <1>4 DEF ChiefCode, ForegroundCode
<1>5. CASE info = NULL
  <2>1. is_finished_status(subjobs[newjob][1].last_status)
    BY <1>2, <1>3, <1>5, FinishedIsOver DEF Unfinished
  <2>2. ChiefCode = exit_status /\ exit_status # NULL
    BY <1>3, <1>5, <2>1, CodesAssumption DEF ChiefCode, LoopTyped
  <2> QED
    BY <1>2, <1>5, <2>2 DEF ForegroundCode
<1> QED
  BY <1>4, <1>5

\* What a command in the foreground returns is the code its chief ended with,
\* a builtin or a process: no other process of the pipeline or of another job
\* takes its place, although the pid of one that was reaped is given away
\* again, and no wait, builtin or launch in between loses it.
THEOREM ChiefGivesItsCode == ShellSpec => ChiefGivesCode
<1>1. TypedInv /\ NoStrayWait /\ ChildrenInv /\ ChiefInv /\ [ShellNext]_vars
         => [newjob # NULL =>
                IF newjob' = newjob
                THEN ChiefCode \in {NULL, ChiefCode'}
                ELSE pc = "block" /\ newjob \notin ListedJobs' =>
                        ChiefCode # NULL /\ last_exit_code' = ChiefCode]_vars
  BY CodeKept, CodeReturned DEF ChildrenInv
<1> QED
  BY <1>1, TypedInvariant, WaitsAreSound, ChildrenInvariant, ChiefInvariant, PTL DEF ShellSpec, ChiefGivesCode

-----------------------------------------------------------------------------
(* The terminal.                                                           *)

\* A child that has yet to take the terminal runs, and the shell is bound to
\* wait for it: it is of the pipeline in the foreground, and the loop of the
\* wait has not passed it.
EagerInv ==
    \A p \in Pids : proc[p].prelude = "fg" =>
       /\ proc[p].st = "live" /\ proc[p].report = "none"
       /\ newjob # NULL /\ ~background
       /\ \E k \in Unfinished(newjob) :
             /\ subjobs[newjob][k].pid = p
             /\ pc = "block" /\ caller = "exec" => sub <= k

\* The shell takes the terminal back when it ends a wait.
TtyInv == tty # SHELL => pc = "block" \/ (newjob # NULL /\ ~background)

\* What changes the processes.
LEMMA ProcessSteps ==
    ASSUME TypedInv, NoStrayWait, ~LaunchMayFail, [ShellNext]_vars
    PROVE  \/ UNCHANGED proc
           \/ KernelNext
           \/ \E p \in Pids : LaunchProcess(p)
           \/ \E h \in ListedJobs, sig \in Signals : pgid[h] # NULL /\ SignalGroup(pgid[h], sig)
           \/ \E h, k : Learns(h, k)
<1> USE DEF TypedInv, OthersTyped
<1>1. CASE UserStep \/ EndLine \/ Ended \/ UNCHANGED vars
  BY <1>1 DEF UserStep, ReadLine, RunCommand, EndLine, Ended, vars, kernelVars
<1>2. CASE ProcessStep
  BY <1>2 DEF ProcessStep
<1>3. CASE LaunchStep
  BY <1>3 DEF LaunchStep, HandshakeFails, HandshakeBreaks, LaunchBuiltin, LaunchFails, LaunchDone,
              LaunchForeground, kernelVars
<1>4. CASE UpdateStep
  <2>1. ASSUME NEW i \in DOMAIN job_table, UpdateWait(i) PROVE UNCHANGED proc \/ \E h, k : Learns(h, k)
    BY <2>1, UpdateIsOne
  <2> QED
    BY <1>4, <2>1 DEF UpdateStep, UpdateJob, UpdateReturnsToPrompt, UpdateReturnsToJobs, ExitRefused,
                      ExitAccepted, kernelVars
<1>5. CASE BuiltinStep
  <2>1. \A id : IsJobNumber(id) => job_table[id] \in ListedJobs
    BY DEF IsJobNumber, ListedJobs, Occupied, TableInv, TableTypeOK
  <2>2. ASSUME NEW id \in DOMAIN job_table, NEW sig \in Signals, BuiltinKill(id, sig)
        PROVE  \/ UNCHANGED proc
               \/ \E h \in ListedJobs, s \in Signals : pgid[h] # NULL /\ SignalGroup(pgid[h], s)
    BY <2>1, <2>2 DEF BuiltinKill
  <2>3. ASSUME NEW id \in DOMAIN job_table, BuiltinBg(id) \/ BuiltinFg(id)
        PROVE  \/ UNCHANGED proc
               \/ \E h \in ListedJobs, s \in Signals : pgid[h] # NULL /\ SignalGroup(pgid[h], s)
    BY <2>1, <2>3 DEF BuiltinBg, BuiltinFg, Signals
  <2> QED
    BY <1>5, <2>2, <2>3 DEF BuiltinStep, BuiltinUpdates, BuiltinOther, kernelVars
<1>6. CASE BlockStep
  BY <1>6, BlockIsOne DEF BlockStep, FgReturns, ForegroundReturns
<1> QED
  BY <1>1, <1>2, <1>3, <1>4, <1>5, <1>6 DEF ShellNext, ShellStep

\* No child comes to want the terminal but one that is forked for it.
LEMMA EagerProcess ==
    ASSUME TypedInv, NoStrayWait, GroupsAreDistinct, EagerInv, ~LaunchMayFail, ~StopsEarly,
           [ShellNext]_vars, NEW p \in Pids, proc'[p].prelude = "fg"
    PROVE  \/ proc'[p] = proc[p]
           \/ LaunchProcess(p) /\ ~background
<1> USE DEF TypedInv, OthersTyped
<1>1. proc \in [Pids -> Process] /\ proc[p] \in Process
  BY DEF KernelTypeOK
<1>2. \A sig : Signalled(proc[p], sig).prelude = "fg" => proc[p].prelude = "fg"
  BY <1>1 DEF Signalled, Dead, Process
<1>3. \A sig : proc[p].prelude = "fg" /\ sig # "STOP" /\ Signalled(proc[p], sig).prelude = "fg"
             => Signalled(proc[p], sig) = proc[p]
  BY <1>1 DEF EagerInv, Signalled, Dead, Process
<1>4. CASE KernelNext
  <2>1. ASSUME NEW q \in Pids, ChildRuns(q) PROVE proc'[p] = proc[p]
    BY <1>1, <2>1 DEF ChildRuns, Process
  <2>2. ASSUME NEW q \in Pids, NEW code \in ExitCodes, ChildExits(q, code) PROVE proc'[p] = proc[p]
    BY <1>1, <2>2 DEF ChildExits, Dead, Process
  <2>3. ASSUME NEW q \in Pids, NEW sig, ChildSignalled(q, sig) PROVE proc'[p] = proc[p]
    BY <1>1, <1>2, <1>3, <2>3 DEF ChildSignalled
  <2> QED
    BY <1>4, <2>1, <2>2, <2>3 DEF KernelNext, ChildSpawns, KidsEnd
<1>5. ASSUME NEW q \in Pids, LaunchProcess(q)
      PROVE  proc'[p] = proc[p] \/ (LaunchProcess(p) /\ ~background)
  <2>1. proc' = [proc EXCEPT ![q] = NewProcess(LaunchGroup(q), IF background THEN "bg" ELSE "fg")]
    BY <1>5 DEF LaunchProcess
  <2>2. CASE p = q
    <3>1. ~background
      BY <1>1, <2>1, <2>2 DEF NewProcess
    <3> QED
      BY <1>5, <2>2, <3>1
  <2>3. CASE p # q
    BY <1>1, <2>1, <2>3
  <2> QED
    BY <2>2, <2>3
<1>6. ASSUME NEW h \in ListedJobs, NEW sig \in Signals, pgid[h] # NULL, SignalGroup(pgid[h], sig)
      PROVE  proc'[p] = proc[p]
  <2>1. proc'[p] = proc[p] \/ (proc[p].grp = pgid[h] /\ proc'[p] = Signalled(proc[p], sig))
    BY <1>6 DEF SignalGroup
  <2>2. CASE proc[p].prelude = "fg"
    <3>1. newjob \in Tracked /\ h \in Tracked /\ h # newjob /\ proc[p].grp = pgid[newjob]
      BY <2>2, ListedAreJobs, NullAssumption DEF EagerInv, NoStrayWait, Tracked, Launched, ControlInv
    <3>2. proc[p].grp # pgid[h]
      BY <1>6, <3>1 DEF GroupsAreDistinct
    <3> QED
      BY <2>1, <3>2
  <2> QED
    BY <1>2, <2>1, <2>2
<1>7. ASSUME NEW h, NEW k, Learns(h, k) PROVE proc'[p] = proc[p]
  <2>1. proc'[p] = proc[p] \/ proc'[p] = AfterReport(proc[p])
    BY <1>7, LearnEffects
  <2>2. AfterReport(proc[p]).prelude = "fg" => proc[p].prelude = "fg"
    BY <1>1 DEF AfterReport, FreeProcess, Process
  <2>3. proc[p].prelude = "fg" => AfterReport(proc[p]) = proc[p]
    BY <1>1 DEF EagerInv, AfterReport, Zombies, Process
  <2> QED
    BY <2>1, <2>2, <2>3
<1> QED
  BY <1>4, <1>5, <1>6, <1>7, ProcessSteps

\* The blocking wait does not pass a child that has done nothing to report.
LEMMA WaitPassesNoEager ==
    ASSUME TypedInv, NoStrayWait, BlockWait, NEW h, h = target, NEW k \in Unfinished(h), sub <= k,
           proc[subjobs[h][k].pid].st = "live", proc[subjobs[h][k].pid].report = "none"
    PROVE  k \in Unfinished(h)' /\ subjobs'[h][k] = subjobs[h][k] /\ sub' <= k
<1> USE DEF TypedInv, OthersTyped
<1>1. h \in Jobs /\ h \in Tracked
  BY BlockIsOne DEF BlockStep
<1>2. PICK m \in Unfinished(h) :
         /\ AtSubjob(h, m)
         /\ WaitReturns(proc[subjobs[h][m].pid])
         /\ Collect(h, m)
         /\ sub' = m + 1
  BY DEF BlockWait
<1>3. m # k
  BY <1>2 DEF WaitReturns, IsReportable, Zombies
<1>4. /\ k \in 1 .. Len(subjobs[h]) /\ m \in 1 .. Len(subjobs[h])
      /\ subjobs \in [Jobs -> Seq(Subjob \cup {NULL})]
      /\ subjobs[h] \in Seq(Subjob \cup {NULL})
  BY <1>1, <1>2, WatchedProcess DEF Watches, JobsTyped
<1>5. m + 1 <= k
  <2>1. sub \in Nat
    BY DEF LoopTyped
  <2>2. k \in Nat /\ m \in Nat
    BY <1>4
  <2>3. k < sub \/ m <= k
    BY <1>2 DEF AtSubjob
  <2> QED
    BY <1>3, <2>1, <2>2, <2>3
<1>6. subjobs' = [subjobs EXCEPT ![h] =
                     [subjobs[h] EXCEPT ![m] =
                        [subjobs[h][m] EXCEPT !.last_status = job_status_from_int(proc[subjobs[h][m].pid])]]]
  BY <1>2 DEF Collect
<1>7. subjobs'[h] = [subjobs[h] EXCEPT ![m] =
                        [subjobs[h][m] EXCEPT !.last_status = job_status_from_int(proc[subjobs[h][m].pid])]]
  BY <1>1, <1>4, <1>6
<1>8. subjobs'[h][k] = subjobs[h][k] /\ DOMAIN subjobs'[h] = DOMAIN subjobs[h]
  BY <1>3, <1>4, <1>7
<1> QED
  BY <1>2, <1>5, <1>8 DEF Unfinished, Forked, is_finished_status

LEMMA EagerStep ==
    ASSUME TypedInv, NoStrayWait, LaunchInv, GroupsAreDistinct, EagerInv, ~LaunchMayFail, ~StopsEarly,
           [ShellNext]_vars
    PROVE  EagerInv'
<1> USE DEF TypedInv, OthersTyped
<1> DEFINE Bound(p) == /\ newjob # NULL /\ ~background
                       /\ \E k \in Unfinished(newjob) :
                             /\ subjobs[newjob][k].pid = p
                             /\ pc = "block" /\ caller = "exec" => sub <= k
<1> SUFFICES ASSUME NEW p \in Pids, proc'[p].prelude = "fg"
             PROVE  proc'[p].st = "live" /\ proc'[p].report = "none" /\ Bound(p)'
  BY DEF EagerInv
<1>1. ASSUME LaunchProcess(p), ~background, NEW h, h = newjob, NEW k, k = call
      PROVE  proc'[p].st = "live" /\ proc'[p].report = "none" /\ Bound(p)'
  <2>1. /\ proc'[p].st = "live" /\ proc'[p].report = "none"
        /\ Watches(h, k)' /\ subjobs'[h][k] = Start(p)
    BY <1>1, LaunchEffects
  <2>2. newjob' = h /\ h # NULL /\ background' = background /\ pc' = "launch"
    BY <1>1 DEF LaunchProcess, ControlInv
  <2>3. k \in Unfinished(h)' /\ subjobs'[h][k].pid = p
    BY <2>1 DEF Watches, Start
  <2> QED
    BY <1>1, <2>1, <2>2, <2>3
<1>2. ASSUME proc'[p] = proc[p], NEW h, h = newjob
      PROVE  proc'[p].st = "live" /\ proc'[p].report = "none" /\ Bound(p)'
  <2>1. /\ proc[p].st = "live" /\ proc[p].report = "none"
        /\ h # NULL /\ ~background
    BY <1>2 DEF EagerInv
  <2>2. PICK k \in Unfinished(h) :
           /\ subjobs[h][k].pid = p
           /\ pc = "block" /\ caller = "exec" => sub <= k
    BY <1>2 DEF EagerInv
  <2>3. Watches(h, k) /\ k \in Nat /\ 1 <= k
    <3>1. Watches(h, k)
      BY <1>2, <2>1, <2>2 DEF Watches, Tracked, Launched
    <3> QED
      BY <3>1, WatchedProcess
  <2>4. SUFFICES /\ newjob' = h /\ background' = background
                 /\ k \in Unfinished(h)' /\ subjobs'[h][k] = subjobs[h][k]
                 /\ pc' = "block" /\ caller' = "exec" => sub' <= k
    BY <1>2, <2>1, <2>2
  <2>5. CASE LaunchOver
    <3>1. ~LaunchDone
      BY <2>1 DEF LaunchDone
    <3>2. ~ForegroundReturns
      <4>1. SUFFICES ASSUME ForegroundReturns PROVE FALSE
        OBVIOUS
      <4>2. k < sub /\ sub <= k
        BY <1>2, <2>2, <4>1 DEF ForegroundReturns, PastSubjobs
      <4>3. sub \in Nat
        BY DEF LoopTyped
      <4> QED
        BY <2>3, <4>2, <4>3
    <3> QED
      BY <1>2, <2>1, <2>5, <3>1, <3>2 DEF LaunchOver
  <2>6. CASE LaunchGoesOn
    <3>1. subjobs'[h] = subjobs[h] /\ newjob' = h
      BY <1>2, <2>6 DEF LaunchGoesOn
    <3>2. k \in Unfinished(h)'
      BY <2>2, <3>1 DEF Unfinished, Forked, is_finished_status
    <3> QED
      BY <2>2, <2>3, <2>6, <3>1, <3>2 DEF LaunchGoesOn
  <2>7. ASSUME NEW c \in Commands, NEW bg \in BOOLEAN, RunCommand(c, bg) PROVE FALSE
    BY <1>2, <2>1, <2>7 DEF RunCommand, ControlInv
  <2>8. ASSUME NEW q \in Pids, LaunchProcess(q), NEW m, m = call
        PROVE  /\ newjob' = h /\ background' = background
               /\ k \in Unfinished(h)' /\ subjobs'[h][k] = subjobs[h][k]
               /\ pc' = "launch"
    <3>1. k # m
      BY <1>2, <2>3, <2>8, LaunchEffects
    <3>2. Watches(h, k)' /\ subjobs'[h][k] = subjobs[h][k]
      BY <1>2, <2>3, <2>8, <3>1, LaunchEffects
    <3> QED
      BY <1>2, <2>8, <3>2 DEF LaunchProcess, Watches
  <2>9. CASE BlockWait /\ target = newjob
    <3>1. caller = "exec" /\ pc = "block"
      BY <1>2, <2>1, <2>9, ListedAreJobs DEF BlockWait, ControlInv
    <3>2. k \in Unfinished(h)' /\ subjobs'[h][k] = subjobs[h][k] /\ sub' <= k
      BY <1>2, <2>1, <2>2, <2>9, <3>1, WaitPassesNoEager
    <3> QED
      BY <1>2, <2>9, <3>2 DEF BlockWait, launchVars
  <2> QED
    BY <2>5, <2>6, <2>7, <2>8, <2>9, LaunchSteps
<1> QED
  BY <1>1, <1>2, EagerProcess

LEMMA TtyStep ==
    ASSUME TypedInv, EagerInv, TtyInv, ~LaunchMayFail, [ShellNext]_vars
    PROVE  TtyInv'
<1> USE DEF TypedInv, OthersTyped
<1> DEFINE Keeps == UNCHANGED <<tty, newjob, background>> /\ (pc = "block" => pc' = "block")
           Idle == UNCHANGED tty /\ pc # "block" /\ (newjob = NULL \/ background)
<1>1. Keeps => TtyInv'
  BY DEF TtyInv
<1>2. Idle => TtyInv'
  BY DEF TtyInv
<1>3. \A code : BuiltinReturns(code) => newjob = NULL \/ UNCHANGED <<newjob, background>>
  BY DEF BuiltinReturns
<1>4. CASE UserStep \/ EndLine \/ Ended \/ UNCHANGED vars
  BY <1>1, <1>2, <1>4 DEF UserStep, ReadLine, RunCommand, EndLine, Ended, vars, kernelVars, launchVars, ControlInv
<1>5. CASE ProcessStep
  <2>1. ASSUME NEW p \in Pids, ChildRuns(p) PROVE UNCHANGED tty \/ (newjob # NULL /\ ~background)
    BY <2>1 DEF ChildRuns, EagerInv
  <2>2. UNCHANGED tty \/ (newjob # NULL /\ ~background)
    BY <1>5, <2>1 DEF ProcessStep, KernelNext, ChildExits, ChildSignalled, ChildSpawns, KidsEnd
  <2> QED
    BY <1>5, <2>2 DEF ProcessStep, launchVars, TtyInv
<1>6. CASE LaunchStep
  BY <1>1, <1>2, <1>6 DEF LaunchStep, LaunchProcess, HandshakeFails, HandshakeBreaks, LaunchBuiltin, LaunchFails,
                          LaunchDone, LaunchForeground, kernelVars, launchVars
<1>7. CASE UpdateStep
  <2>1. UNCHANGED tty /\ pc # "block"
    BY <1>7 DEF UpdateStep, UpdateWait, UpdateJob, UpdateReturnsToPrompt, UpdateReturnsToJobs, ExitRefused,
                ExitAccepted, Collect, kernelVars
  <2>2. newjob = NULL \/ UNCHANGED <<newjob, background>>
    BY <1>3, <1>7 DEF UpdateStep, UpdateWait, UpdateJob, UpdateReturnsToPrompt, UpdateReturnsToJobs, ExitRefused,
                      ExitAccepted, launchVars
  <2> QED
    BY <1>1, <1>2, <2>1, <2>2
<1>8. CASE BuiltinStep
  <2>1. BuiltinStep => pc # "block"
    BY DEF BuiltinStep, BuiltinUpdates, BuiltinOther, BuiltinKill, BuiltinBg, BuiltinFg
  <2>2. newjob = NULL \/ UNCHANGED <<newjob, background>>
    BY <1>3, <1>8 DEF BuiltinStep, BuiltinUpdates, BuiltinOther, BuiltinKill, BuiltinBg, BuiltinFg, launchVars
  <2>3. UNCHANGED tty \/ pc' = "block"
    BY <1>8 DEF BuiltinStep, BuiltinUpdates, BuiltinOther, BuiltinKill, BuiltinBg, BuiltinFg, StartBlocking, kernelVars
  <2> QED
    BY <1>1, <1>2, <1>8, <2>1, <2>2, <2>3 DEF TtyInv
<1>9. CASE BlockStep
  BY <1>9 DEF BlockStep, BlockWait, FgReturns, ForegroundReturns, TerminalTakenBack, TtyInv
<1> QED
  BY <1>4, <1>5, <1>6, <1>7, <1>8, <1>9 DEF ShellNext, ShellStep

\* Every prompt is shown with the terminal in the hands of the shell, whatever
\* the children, the signals and the builtins of a pipeline do: no child that
\* was told to take the terminal is left over when the shell takes it back.
\* It takes that no launch fails and no child stops before it runs.
THEOREM TerminalComesBack ==
    ASSUME ~LaunchMayFail, ~StopsEarly
    PROVE  ShellSpec => []TerminalAtPrompt
<1>1. ShellInit => EagerInv /\ TtyInv
  BY DEF ShellInit, KernelInit, FreeProcess, EagerInv, TtyInv
<1>2. /\ TypedInv /\ NoStrayWait /\ ChildrenInv /\ HandInv /\ GroupsAreDistinct
      /\ EagerInv /\ TtyInv /\ [ShellNext]_vars
      => EagerInv' /\ TtyInv'
  BY EagerStep, TtyStep DEF ChildrenInv
<1>3. TypedInv /\ TtyInv => TerminalAtPrompt
  BY DEF TypedInv, ControlInv, TtyInv, TerminalAtPrompt
<1> QED
  BY <1>1, <1>2, <1>3, TypedInvariant, WaitsAreSound, ChildrenInvariant, GroupsInvariant, PTL DEF ShellSpec
=============================================================================
