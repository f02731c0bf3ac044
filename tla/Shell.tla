------------------------------- MODULE Shell -------------------------------
(***************************************************************************)
(* The main loop and the job control of jsh: prompt() reads lines and runs *)
(* their commands, execute_external_command forks the processes of a       *)
(* pipeline as one job, update_jobs collects what became of the jobs, and  *)
(* jobs, fg, bg, kill and exit act on the jobs of the table.               *)
(*                                                                         *)
(* The shell is one process that interleaves with its children, so a step  *)
(* of this module ends at most one system call that the children can make  *)
(* answer differently; the places where the control of the shell may be    *)
(* are the values of pc.  A pgid of 0 is written NULL.                     *)
(***************************************************************************)
EXTENDS JobTable, Kernel, Sequences

CONSTANTS
    Commands,        \* the commands a line may hold, as sequences of calls
    LaunchMayFail    \* whether fork or the handshake with the child may fail

\* The calls of a command: programs, and the builtins.  "other" stands for
\* cd, pwd and ?, and for builtins refused for their arguments; "jobs -t" is
\* kept apart for the processes it looks up.
Builtins == {"other", "jobs", "jobs -t", "exit", "kill", "bg", "fg"}
Calls == {"program"} \cup Builtins

\* The end of the input counts as the command exit.
ASSUME CommandsAssumption ==
    /\ Commands \subseteq Seq(Calls) \ {<<>>}
    /\ <<"exit">> \in Commands

\* 0 is no pid.
ASSUME PgidAssumption == NULL \notin Pids \cup {SHELL}

\* A call without an exit code is told from every exit code.
ASSUME CodesAssumption == NULL \notin ExitCodes

VARIABLES
    pgid,             \* field pgid of every job
    status,           \* field status of every job
    subjobs,          \* field subjobs: per call NULL, or the pid of its process
                      \* and the last status known of it
    shown,            \* the status that was last printed for a job, "none" before
    pc,               \* where the control is
    caller,           \* what update_jobs or the blocking wait returns to
    slot,             \* index of the loop over the job table
    sub,              \* index of the loop over the subjobs of a job
    target,           \* the job that blocking_wait_for_job waits for
    exit_status,      \* variable of that name in blocking_wait_for_job
    calls,            \* the calls of the command that is running
    background,       \* its flag background
    call,             \* index of the loop of execute_as_job
    newjob,           \* the job it launches, NULL when there is none
    info,             \* exit code of the chief, NULL when it is a process
    line,             \* what may follow on the line
    last_exit_code,
    should_exit

jobVars    == <<pgid, status, subjobs, shown>>
loopVars   == <<caller, slot, sub, target, exit_status>>
launchVars == <<calls, background, call, newjob, info>>
mainVars   == <<line, last_exit_code, should_exit>>
vars == <<tableVars, kernelVars, jobVars, pc, loopVars, launchVars, mainVars>>

Status == {"RUNNING", "STOPPED", "DONE", "KILLED", "DETACHED"}
FinishedStatus == {"DONE", "KILLED", "DETACHED"}
Subjob == [pid : Pids, last_status : Status]

\* NULL points to no subjob.
ASSUME SubjobAssumption == NULL \notin Subjob

Start(p) == [pid |-> p, last_status |-> "RUNNING"]

\* The job being launched is in no table yet.
Launched == {newjob} \ {NULL}
Tracked == ListedJobs \cup Launched

\* Where the processes of job h are: the indexes of the calls that were
\* forked and, among them, of those not known to have ended.
Forked(h) == {k \in DOMAIN subjobs[h] : subjobs[h][k] # NULL}
is_finished_status(s) == s \in FinishedStatus

\* Mutant: the processes known to be stopped are not looked at again.
Unfinished_RunningOnly(h) == {k \in Forked(h) : subjobs[h][k].last_status = "RUNNING"}

Unfinished(h) == {k \in Forked(h) : ~is_finished_status(subjobs[h][k].last_status)}

LastStatuses(h) == {subjobs[h][k].last_status : k \in Forked(h)}

\* Mutants: one finished process is enough; only the chief is looked at; a
\* killed process does not count as finished.
is_job_finished_AnyProcess(h) == LastStatuses(h) \cap FinishedStatus # {}
is_job_finished_ChiefOnly(h) ==
    \A k \in Forked(h) \cap {1} : is_finished_status(subjobs[h][k].last_status)
is_job_finished_DoneOnly(h) == LastStatuses(h) \subseteq {"DONE"}

is_job_finished(h) == LastStatuses(h) \subseteq FinishedStatus
is_job_killed(h) == is_job_finished(h) /\ "KILLED" \in LastStatuses(h)
is_job_running(h) == "RUNNING" \in LastStatuses(h)
is_job_suspended(h) == ~is_job_finished(h) /\ ~is_job_running(h)

\* Mutant: a stopped job does not count.
is_job_alive_RunningOnly(h) == "RUNNING" \in LastStatuses(h)

is_job_alive(h) == LastStatuses(h) \cap {"RUNNING", "STOPPED"} # {}
are_jobs_running == \E h \in ListedJobs : is_job_alive(h)

\* kill(-job->pgid, 0): the group 0 is the one of the shell.
Ping(h) == pgid[h] = NULL \/ GroupExists(pgid[h])

\* Mutant: the group is not looked for.
update_job_status_NoPing(h) ==
    CASE is_job_running(h)   -> "RUNNING"
      [] is_job_suspended(h) -> "STOPPED"
      [] is_job_finished(h)  -> IF is_job_killed(h) THEN "KILLED" ELSE "DONE"

update_job_status(h) ==
    CASE is_job_running(h)                                      -> "RUNNING"
      [] is_job_suspended(h)                                    -> "STOPPED"
      [] is_job_finished(h) /\ Ping(h)                          -> "DETACHED"
      [] is_job_finished(h) /\ ~Ping(h) /\ is_job_killed(h)     -> "KILLED"
      [] is_job_finished(h) /\ ~Ping(h) /\ ~is_job_killed(h)    -> "DONE"

\* Mutants: a process that was continued falls through to the wrong status; the status of waitpid is stored as it is.
job_status_from_int_NoContinued(r) ==
    CASE r.st = "exited"         -> "DONE"
      [] r.st = "killed"         -> "KILLED"
      [] OTHER                   -> "STOPPED"
job_status_from_int_Raw(r) == r.st

job_status_from_int(r) ==
    CASE r.st = "exited"                                -> "DONE"
      [] r.st = "killed"                                -> "KILLED"
      [] r.st \notin Zombies /\ r.report = "stopped"    -> "STOPPED"
      [] r.st \notin Zombies /\ r.report = "continued"  -> "RUNNING"

\* waitpid for subjob k of job h has returned the report of its process.
Collect(h, k) ==
    LET p == subjobs[h][k].pid IN
    /\ subjobs' = [subjobs EXCEPT ![h][k].last_status = job_status_from_int(proc[p])]
    /\ proc' = [proc EXCEPT ![p] = AfterReport(@)]
    /\ UNCHANGED <<kids, tty>>

\* The loops over the subjobs of job h have reached subjob k, and have
\* passed the last one: NULL and finished subjobs are stepped over.
AtSubjob(h, k) == k \in Unfinished(h) /\ sub <= k /\ \A m \in Unfinished(h) : m < sub \/ k <= m

\* Mutant: the loop only ends when every process has ended.
PastSubjobs_WaitsForAll(h) == Unfinished(h) = {}

PastSubjobs(h) == \A m \in Unfinished(h) : m < sub

-----------------------------------------------------------------------------
(* A command or a builtin returns to where it was called from.             *)

\* The variables of a command that is no longer there, and of a loop that is
\* left, have the values they have before they are used.
CommandDestroyed ==
    /\ calls' = <<>>
    /\ background' = FALSE
    /\ call' = 1
    /\ newjob' = NULL
    /\ info' = NULL

LoopLeft ==
    /\ caller' = "none"
    /\ slot' = 1
    /\ sub' = 1
    /\ target' = NULL
    /\ exit_status' = 0

\* The fields of a job that is freed; what was printed last is remembered.
JobFreed(h) ==
    /\ pgid' = [pgid EXCEPT ![h] = NULL]
    /\ status' = [status EXCEPT ![h] = "RUNNING"]
    /\ subjobs' = [subjobs EXCEPT ![h] = <<>>]

\* execute_command has a result for the command, which is destroyed with it.
CommandReturns(code) ==
    /\ last_exit_code' = code
    /\ pc' = "next"
    /\ CommandDestroyed

\* A builtin returns to execute_command when it is the whole command, to the
\* loop of execute_as_job when it is a call of a pipeline.
BuiltinReturns(code) ==
    \/ /\ newjob = NULL
       /\ CommandReturns(code)
    \/ /\ newjob # NULL
       /\ info' = IF call = 1 THEN code ELSE info
       /\ call' = call + 1
       /\ pc' = "launch"
       /\ UNCHANGED <<calls, background, newjob, last_exit_code>>

\* fd_update_jobs is called.
StartUpdate(from) ==
    /\ pc' = "update"
    /\ caller' = from
    /\ slot' = 1
    /\ sub' = 1
    /\ UNCHANGED <<target, exit_status>>

\* blocking_wait_for_job is called.
StartBlocking(from, h) ==
    /\ pc' = "block"
    /\ caller' = from
    /\ target' = h
    /\ sub' = 1
    /\ exit_status' = 0
    /\ UNCHANGED slot
-----------------------------------------------------------------------------
(* The main loop: prompt().                                                *)

\* readline returns NULL at the end of the input, which counts as the line
\* "exit", or a line.  It cannot read one when the terminal belongs to another
\* group: SIGTTIN is ignored, so the read fails and ends the input.  Parsing
\* sets last_exit_code when it refuses the line or its last command; the
\* commands before that one are executed nonetheless.
ReadLine ==
    /\ pc = "prompt"
    /\ pc' = "next"
    /\ \/ line' = "exit" /\ UNCHANGED last_exit_code
       \/ tty = SHELL /\ line' = "any" /\ UNCHANGED last_exit_code
       \/ tty = SHELL /\ line' = "trimmed" /\ last_exit_code' = 1
    /\ UNCHANGED <<tableVars, kernelVars, jobVars, loopVars, launchVars, should_exit>>

\* Bound of the model: a command is only entered while Pids has a free pid
\* for each of its programs.
EnoughPids(c) ==
    Cardinality({k \in DOMAIN c : c[k] = "program"}) <= Cardinality({p \in Pids : IsFreePid(p)})

\* A command of the line is executed.  Every command but the last one of the
\* line is followed by &, and so is every one left of a line that was trimmed.
\* A builtin on its own runs in the shell, anything else becomes a job.
RunCommand(c, bg) ==
    /\ pc = "next"
    /\ \/ line = "any"
       \/ line = "trimmed" /\ bg
       \/ line = "exit" /\ c = <<"exit">> /\ ~bg
    /\ EnoughPids(c)
    /\ calls' = c
    /\ background' = bg
    /\ call' = 1
    /\ info' = NULL
    /\ line' = IF bg THEN line ELSE "none"
    /\ UNCHANGED <<kernelVars, loopVars, last_exit_code, should_exit>>
    /\ \/ /\ Len(c) = 1 /\ c[1] \in Builtins
          /\ pc' = "builtin"
          /\ UNCHANGED <<tableVars, jobVars, newjob>>
       \/ /\ ~(Len(c) = 1 /\ c[1] \in Builtins)
          /\ pc' = "launch"
          /\ \E h \in Jobs :
                /\ new_job(h)
                /\ newjob' = h
                /\ pgid' = [pgid EXCEPT ![h] = NULL]
                /\ status' = [status EXCEPT ![h] = "RUNNING"]
                /\ subjobs' = [subjobs EXCEPT ![h] = [k \in 1 .. Len(c) |-> NULL]]
                /\ shown' = [shown EXCEPT ![h] = "none"]

\* The line is finished; the loop goes on unless exit was accepted.
EndLine ==
    /\ pc = "next"
    /\ line # "exit"
    /\ \/ should_exit /\ pc' = "exited" /\ UNCHANGED loopVars
       \/ ~should_exit /\ StartUpdate("prompt")
    /\ UNCHANGED <<tableVars, kernelVars, jobVars, launchVars, mainVars>>

-----------------------------------------------------------------------------
(* execute_external_command: one job for the calls of a command.           *)

\* Mutant: every process gets a group of its own.
LaunchGroup_Own(p) == p

\* The group of the job is the pid of the first process forked for it.
LaunchGroup(p) == IF pgid[newjob] = NULL THEN p ELSE pgid[newjob]

\* A process is forked for the call and joins the group of the job; the shell
\* waits until it has.
LaunchProcess(p) ==
    /\ pc = "launch"
    /\ call <= Len(calls)
    /\ calls[call] = "program"
    /\ IsFreePid(p)
    /\ pgid' = [pgid EXCEPT ![newjob] = LaunchGroup(p)]
    /\ proc' = [proc EXCEPT ![p] = NewProcess(LaunchGroup(p), IF background THEN "bg" ELSE "fg")]
    /\ subjobs' = [subjobs EXCEPT ![newjob][call] = Start(p)]
    /\ call' = call + 1
    /\ UNCHANGED <<tableVars, kids, tty, status, shown, pc, loopVars, calls, background,
                   newjob, info, mainVars>>

\* A builtin of a pipeline runs in the shell, between the forks.
LaunchBuiltin ==
    /\ pc = "launch"
    /\ call <= Len(calls)
    /\ calls[call] \in Builtins
    /\ pc' = "builtin"
    /\ UNCHANGED <<tableVars, kernelVars, jobVars, loopVars, launchVars, mainVars>>

\* pipe or fork fails: the group is killed and the job is destroyed, the
\* command returns 1.
LaunchFails ==
    /\ LaunchMayFail
    /\ pc = "launch"
    /\ call <= Len(calls)
    /\ calls[call] = "program"
    /\ IF pgid[newjob] = NULL THEN UNCHANGED <<proc, kids>> ELSE SignalGroup(pgid[newjob], "KILL")
    /\ destroy_job(newjob)
    /\ JobFreed(newjob)
    /\ CommandReturns(1)
    /\ UNCHANGED <<tty, shown, loopVars, line, should_exit>>

\* The child dies before it has answered the shell, in the group of the shell
\* or already in its own: the launch fails as well, and the child, which no
\* job names, stays a zombie.
HandshakeFails(p) ==
    LET g == LaunchGroup(p) IN
    /\ LaunchMayFail
    /\ pc = "launch"
    /\ call <= Len(calls)
    /\ calls[call] = "program"
    /\ IsFreePid(p)
    /\ \E own \in {SHELL, g} :
          proc' = [q \in Pids |-> IF q = p THEN Dead(NewProcess(own, "none"), "killed", 0)
                                 ELSE IF proc[q].grp = g THEN Signalled(proc[q], "KILL")
                                 ELSE proc[q]]
    /\ kids' = kids \ {g}
    /\ destroy_job(newjob)
    /\ JobFreed(newjob)
    /\ CommandReturns(1)
    /\ UNCHANGED <<tty, shown, loopVars, line, should_exit>>

\* A child that dies before the shell has written to it breaks the pipe, and
\* SIGPIPE, which the shell does not ignore, ends the shell.
HandshakeBreaks(p) ==
    /\ LaunchMayFail
    /\ pc = "launch"
    /\ call <= Len(calls)
    /\ calls[call] = "program"
    /\ IsFreePid(p)
    /\ proc' = [proc EXCEPT ![p] = Dead(NewProcess(SHELL, "none"), "killed", 0)]
    /\ pgid' = [pgid EXCEPT ![newjob] = LaunchGroup(p)]
    /\ pc' = "killed"
    /\ UNCHANGED <<tableVars, kids, tty, status, subjobs, shown, loopVars, launchVars, mainVars>>

\* Mutant: the job is not printed.
LaunchDone_NoPrint ==
    /\ pc = "launch"
    /\ call > Len(calls)
    /\ background
    /\ add_job(newjob)
    /\ CommandReturns(0)
    /\ UNCHANGED <<kernelVars, pgid, status, subjobs, shown, loopVars, line, should_exit>>

\* Every call is launched and the job is in the background: it enters the
\* table and is announced.
LaunchDone ==
    /\ pc = "launch"
    /\ call > Len(calls)
    /\ background
    /\ add_job(newjob)
    /\ shown' = [shown EXCEPT ![newjob] = status[newjob]]
    /\ CommandReturns(0)
    /\ UNCHANGED <<kernelVars, pgid, status, subjobs, loopVars, line, should_exit>>

\* Every call is launched and the job is in the foreground.
LaunchForeground ==
    /\ pc = "launch"
    /\ call > Len(calls)
    /\ ~background
    /\ StartBlocking("exec", newjob)
    /\ UNCHANGED <<tableVars, kernelVars, jobVars, launchVars, mainVars>>

-----------------------------------------------------------------------------
(* fd_update_jobs and wait_for_job.                                        *)

\* The loop over the table has reached slot i, or has passed the last job.
AtSlot(i) == i \in Occupied /\ slot <= i /\ \A m \in Occupied : m < slot \/ i <= m
PastTable == \A m \in Occupied : m < slot

\* waitpid with WNOHANG for the next subjob of the job in slot i.  Were the
\* process no child of the shell, the job would be given up for this time.
UpdateWait(i) ==
    LET h == job_table[i] IN
    /\ pc = "update"
    /\ AtSlot(i)
    /\ \E k \in Unfinished(h) :
          LET p == subjobs[h][k].pid IN
          /\ AtSubjob(h, k)
          /\ IF proc[p].st # "free" /\ IsReportable(proc[p], TRUE)
             THEN Collect(h, k)
             ELSE UNCHANGED <<subjobs, kernelVars>>
          /\ slot' = IF proc[p].st = "free" THEN i + 1 ELSE i
          /\ sub' = IF proc[p].st = "free" THEN 1 ELSE k + 1
    /\ UNCHANGED <<tableVars, pgid, status, shown, pc, caller, target, exit_status, launchVars,
                   mainVars>>

\* The status of the job follows from its subjobs; a change is printed, and
\* a job that is finished leaves the table.
UpdateJob(i) ==
    LET h == job_table[i]
        new == update_job_status(h) IN
    /\ pc = "update"
    /\ AtSlot(i)
    /\ PastSubjobs(h)
    /\ shown' = IF status[h] # new THEN [shown EXCEPT ![h] = new] ELSE shown
    /\ \/ /\ is_job_finished(h)
          /\ remove_job(job_id[h])
          /\ JobFreed(h)
       \/ /\ ~is_job_finished(h)
          /\ status' = [status EXCEPT ![h] = new]
          /\ UNCHANGED <<tableVars, pgid, subjobs>>
    /\ slot' = i + 1
    /\ sub' = 1
    /\ UNCHANGED <<kernelVars, pc, caller, target, exit_status, launchVars, mainVars>>

\* print_job_tree reads the pid of every subjob, those that are NULL too.
TreeCrashes == \E h \in ListedJobs : Forked(h) # DOMAIN subjobs[h]

\* Every job was updated: back to the prompt, to jobs or to exit.
UpdateReturnsToPrompt ==
    /\ pc = "update" /\ PastTable /\ caller = "prompt"
    /\ pc' = "prompt"
    /\ LoopLeft
    /\ UNCHANGED <<tableVars, kernelVars, jobVars, launchVars, mainVars>>

UpdateReturnsToJobs ==
    /\ pc = "update" /\ PastTable /\ caller \in {"jobs", "jobs -t"}
    /\ \/ /\ caller = "jobs -t" /\ TreeCrashes
          /\ pc' = "crashed"
          /\ UNCHANGED <<launchVars, last_exit_code>>
       \/ /\ caller = "jobs -t" => ~TreeCrashes
          /\ \E code \in {0, 1} : BuiltinReturns(code)
    /\ LoopLeft
    /\ UNCHANGED <<tableVars, kernelVars, jobVars, line, should_exit>>

\* exit is refused while a job is alive, or for its argument.
ExitRefused ==
    /\ pc = "update" /\ PastTable /\ caller = "exit"
    /\ BuiltinReturns(1)
    /\ LoopLeft
    /\ UNCHANGED <<tableVars, kernelVars, jobVars, line, should_exit>>

\* exit is accepted; its argument becomes the last exit code at once.
ExitAccepted(val) ==
    /\ pc = "update" /\ PastTable /\ caller = "exit"
    /\ ~are_jobs_running
    /\ should_exit' = TRUE
    /\ last_exit_code' = val
    /\ LoopLeft
    /\ \/ newjob = NULL /\ pc' = "next" /\ CommandDestroyed
       \/ /\ newjob # NULL /\ pc' = "launch"
          /\ info' = IF call = 1 THEN val ELSE info
          /\ call' = call + 1
          /\ UNCHANGED <<calls, background, newjob>>
    /\ UNCHANGED <<tableVars, kernelVars, jobVars, line>>
-----------------------------------------------------------------------------
(* The builtins.                                                           *)

\* jobs and exit begin by updating the jobs.
BuiltinUpdates ==
    /\ pc = "builtin"
    /\ calls[call] \in {"jobs", "jobs -t", "exit"}
    /\ StartUpdate(calls[call])
    /\ UNCHANGED <<tableVars, kernelVars, jobVars, launchVars, mainVars>>

\* The builtins that leave the jobs alone, and those refused for their
\* arguments: no argument, or a number that get_job does not find.
BuiltinOther ==
    /\ pc = "builtin"
    /\ \/ calls[call] = "other" /\ \E code \in {0, 1} : BuiltinReturns(code)
       \/ calls[call] \in {"kill", "bg", "fg"} /\ BuiltinReturns(1)
    /\ UNCHANGED <<tableVars, kernelVars, jobVars, loopVars, line, should_exit>>

\* kill %id sends the signal to the group of the job.  The group 0 is that of
\* the shell, which ignores SIGTERM, resumes after SIGSTOP when its own parent
\* continues it, and dies of SIGKILL.
BuiltinKill(id, sig) ==
    LET g == pgid[job_table[id]] IN
    /\ pc = "builtin"
    /\ calls[call] = "kill"
    /\ IsJobNumber(id)
    /\ \/ /\ g # NULL
          /\ SignalGroup(g, sig)
          /\ BuiltinReturns(IF GroupExists(g) THEN 0 ELSE 1)
       \/ /\ g = NULL /\ sig # "KILL"
          /\ BuiltinReturns(0)
          /\ UNCHANGED <<proc, kids>>
       \/ /\ g = NULL /\ sig = "KILL"
          /\ pc' = "killed"
          /\ UNCHANGED <<proc, kids, launchVars, last_exit_code>>
    /\ UNCHANGED <<tableVars, tty, jobVars, loopVars, line, should_exit>>

\* bg %id continues the group of the job; the group 0 is running already.
BuiltinBg(id) ==
    LET g == pgid[job_table[id]] IN
    /\ pc = "builtin"
    /\ calls[call] = "bg"
    /\ IsJobNumber(id)
    /\ IF g = NULL THEN UNCHANGED <<proc, kids>> ELSE SignalGroup(g, "CONT")
    /\ BuiltinReturns(IF Ping(job_table[id]) THEN 0 ELSE 1)
    /\ UNCHANGED <<tableVars, tty, jobVars, loopVars, line, should_exit>>

\* fg %id gives the terminal to the group of the job, continues it and waits
\* for it.  A group that does not exist, or 0, cannot have the terminal.
BuiltinFg(id) ==
    LET h == job_table[id] IN
    /\ pc = "builtin"
    /\ calls[call] = "fg"
    /\ IsJobNumber(id)
    /\ pgid[h] # NULL /\ GroupExists(pgid[h])
    /\ tty' = pgid[h]
    /\ SignalGroup(pgid[h], "CONT")
    /\ StartBlocking("fg", h)
    /\ UNCHANGED <<tableVars, jobVars, launchVars, mainVars>>

-----------------------------------------------------------------------------
(* blocking_wait_for_job, for fg and for a job in the foreground.          *)

\* Mutants: WUNTRACED is forgotten; every process sets the exit status; the
\* terminal is not taken back.
WaitReturns_NoUntraced(r) == r.st \in Zombies
ExitStatus_AnySubjob(k, r) == IF r.st \in Zombies THEN r.code ELSE exit_status
TerminalTakenBack_Forgotten == UNCHANGED tty

\* waitpid returns once the process has ended or stopped.
WaitReturns(r) == IsReportable(r, FALSE)

\* Only the end of the first process, the chief, sets the exit status, and a
\* process that was killed has exit status 0.
ExitStatus(k, r) == IF k = 1 /\ r.st \in Zombies THEN r.code ELSE exit_status

TerminalTakenBack == tty' = SHELL

\* waitpid for the next subjob returns.
BlockWait ==
    /\ pc = "block"
    /\ \E k \in Unfinished(target) :
          LET r == proc[subjobs[target][k].pid] IN
          /\ AtSubjob(target, k)
          /\ WaitReturns(r)
          /\ Collect(target, k)
          /\ exit_status' = ExitStatus(k, r)
          /\ sub' = k + 1
    /\ UNCHANGED <<tableVars, pgid, status, shown, pc, caller, slot, target, launchVars, mainVars>>

\* put_job_in_foreground after the wait: a job that is finished leaves the
\* table silently, another one is printed, and the shell takes the terminal.
FgReturns ==
    /\ pc = "block" /\ caller = "fg" /\ PastSubjobs(target)
    /\ \/ /\ is_job_finished(target)
          /\ remove_job(job_id[target])
          /\ JobFreed(target)
          /\ shown' = [shown EXCEPT ![target] = "none"]
       \/ /\ ~is_job_finished(target)
          /\ status' = [status EXCEPT ![target] = update_job_status(target)]
          /\ shown' = [shown EXCEPT ![target] = update_job_status(target)]
          /\ UNCHANGED <<tableVars, pgid, subjobs>>
    /\ TerminalTakenBack
    /\ BuiltinReturns(0)
    /\ LoopLeft
    /\ UNCHANGED <<proc, kids, line, should_exit>>

\* Mutant: what the wait returns counts, even when the chief is a builtin.
ForegroundCode_WaitOnly == exit_status

\* A builtin as the chief has left its code, else the wait returns that of the
\* process.
ForegroundCode == IF info # NULL THEN info ELSE exit_status

\* execute_external_command after the wait: a job that is finished is
\* destroyed and gives the command its code, a stopped one enters the table.
ForegroundReturns ==
    /\ pc = "block" /\ caller = "exec" /\ PastSubjobs(newjob)
    /\ TerminalTakenBack
    /\ \/ /\ is_job_finished(newjob)
          /\ destroy_job(newjob)
          /\ JobFreed(newjob)
          /\ CommandReturns(ForegroundCode)
          /\ UNCHANGED shown
       \/ /\ ~is_job_finished(newjob)
          /\ add_job(newjob)
          /\ CommandReturns(0)
          /\ status' = [status EXCEPT ![newjob] = update_job_status(newjob)]
          /\ shown' = [shown EXCEPT ![newjob] = update_job_status(newjob)]
          /\ UNCHANGED <<pgid, subjobs>>
    /\ LoopLeft
    /\ UNCHANGED <<proc, kids, line, should_exit>>

-----------------------------------------------------------------------------
(* The specification.                                                      *)

ShellInit ==
    /\ TableInit
    /\ KernelInit
    /\ pgid = [h \in Jobs |-> NULL]
    /\ status = [h \in Jobs |-> "RUNNING"]
    /\ subjobs = [h \in Jobs |-> <<>>]
    /\ shown = [h \in Jobs |-> "none"]
    /\ pc = "update"
    /\ caller = "prompt"
    /\ slot = 1
    /\ sub = 1
    /\ target = NULL
    /\ exit_status = 0
    /\ calls = <<>>
    /\ background = FALSE
    /\ call = 1
    /\ newjob = NULL
    /\ info = NULL
    /\ line = "none"
    /\ last_exit_code = 0
    /\ should_exit = FALSE

\* What the user decides: which commands a line holds and when it is entered.
UserStep ==
    \/ ReadLine
    \/ \E c \in Commands, bg \in BOOLEAN : RunCommand(c, bg)

\* The shell going on by itself until the line is finished and the next
\* prompt is shown.
LaunchStep ==
    \/ \E p \in Pids : LaunchProcess(p) \/ HandshakeFails(p) \/ HandshakeBreaks(p)
    \/ LaunchBuiltin
    \/ LaunchFails
    \/ LaunchDone
    \/ LaunchForeground

UpdateStep ==
    \/ \E i \in DOMAIN job_table : UpdateWait(i) \/ UpdateJob(i)
    \/ UpdateReturnsToPrompt
    \/ UpdateReturnsToJobs
    \/ ExitRefused
    \/ \E val \in ExitCodes : ExitAccepted(val)

BuiltinStep ==
    \/ BuiltinUpdates
    \/ BuiltinOther
    \/ \E id \in DOMAIN job_table :
          \/ \E sig \in Signals : BuiltinKill(id, sig)
          \/ BuiltinBg(id)
          \/ BuiltinFg(id)

BlockStep == BlockWait \/ FgReturns \/ ForegroundReturns

ShellStep == EndLine \/ LaunchStep \/ UpdateStep \/ BuiltinStep \/ BlockStep

\* The processes go on without the shell.
ProcessStep == KernelNext /\ UNCHANGED <<tableVars, jobVars, pc, loopVars, launchVars, mainVars>>

\* The shell has ended; nothing is left to do.
Ended == pc \in {"exited", "crashed", "killed"} /\ UNCHANGED vars

ShellNext == UserStep \/ ShellStep \/ ProcessStep \/ Ended

ShellSpec == ShellInit /\ [][ShellNext]_vars

\* The shell does not stop by itself, a line holds finitely many commands, and
\* the user goes on entering lines or ends the input.  Nothing is assumed of
\* the processes: they may run, stop and continue as they like.
Fairness ==
    /\ WF_vars(ShellStep)
    /\ SF_vars(EndLine)
    /\ WF_vars(ReadLine)
    /\ WF_vars(RunCommand(<<"exit">>, FALSE) /\ line = "exit")

FairShellSpec == ShellSpec /\ Fairness

-----------------------------------------------------------------------------
(* Properties.                                                             *)

PC == {"update", "prompt", "next", "launch", "builtin", "block", "exited", "crashed", "killed"}

\* Every variable holds a value of its type; the table and the kernel have
\* theirs.
ShellTypeOK ==
    /\ TableTypeOK
    /\ KernelTypeOK
    /\ pgid \in [Jobs -> Pids \cup {NULL}]
    /\ status \in [Jobs -> Status]
    /\ subjobs \in [Jobs -> Seq(Subjob \cup {NULL})]
    /\ shown \in [Jobs -> Status \cup {"none"}]
    /\ pc \in PC
    /\ caller \in {"none", "prompt", "jobs", "jobs -t", "exit", "fg", "exec"}
    /\ slot \in Nat
    /\ sub \in Nat
    /\ target \in Jobs \cup {NULL}
    /\ exit_status \in ExitCodes
    /\ calls \in Seq(Calls)
    /\ background \in BOOLEAN
    /\ call \in Nat
    /\ newjob \in Jobs \cup {NULL}
    /\ info \in ExitCodes \cup {NULL}
    /\ line \in {"any", "trimmed", "exit", "none"}
    /\ last_exit_code \in ExitCodes
    /\ should_exit \in BOOLEAN

\* waitpid is never called for a pid that was reaped, or that the kernel has
\* given to another job since: a subjob that is not known to have ended names
\* a child in the group of its job, and no other such subjob names it.  The
\* skip of finished subjobs in wait_for_job is what keeps this true.
NoStrayWait ==
    \A h \in Tracked : \A k \in Unfinished(h) :
       LET p == subjobs[h][k].pid IN
       /\ proc[p].st # "free"
       /\ proc[p].grp = pgid[h]
       /\ \A g \in Tracked : \A m \in Unfinished(g) : subjobs[g][m].pid = p => g = h /\ m = k

\* Every child that is alive or a zombie is watched by some job, so none is
\* lost; and every job that is allocated is in the table or being launched.
NothingLost ==
    /\ heap = Tracked
    /\ \A p \in Pids : proc[p].st # "free" =>
          \E h \in Tracked : \E k \in Unfinished(h) : subjobs[h][k].pid = p

\* The status kept for a process is only behind the truth by a report that
\* waitpid is going to return.
StatusCatchesUp ==
    \A h \in Tracked : \A k \in Unfinished(h) :
       LET r == proc[subjobs[h][k].pid]
           known == subjobs[h][k].last_status IN
       /\ known = "STOPPED" /\ r.st = "live" => r.report = "continued"
       /\ known = "RUNNING" /\ r.st = "stopped" => r.report = "stopped"

\* Two jobs never share a process group, so kill, fg and bg reach the
\* processes of the job they name and of no other.
GroupsAreDistinct ==
    \A g, h \in Tracked : g # h /\ pgid[g] # NULL => pgid[g] # pgid[h]

\* When the prompt is shown, the terminal belongs to the shell.
TerminalAtPrompt == pc = "prompt" => tty = SHELL

\* When the prompt is shown, the last thing printed for every job of the
\* table is its status, and that status is Running or Stopped.
AnnouncedAtPrompt ==
    pc = "prompt" =>
       \A h \in ListedJobs : shown[h] = status[h] /\ ~is_finished_status(status[h])

\* A job leaves the table when all its processes have ended, and its last
\* status was printed unless the job was in the foreground.
RemovalAnnounced ==
    [][\A h \in ListedJobs \ ListedJobs' :
          /\ Unfinished(h) = {}
          /\ caller # "fg" => is_finished_status(shown'[h]) /\ shown'[h] # shown[h]]_vars

\* A job is announced as done or killed only if none of its processes is
\* left, those that its processes forked included.
VerdictIsTrue ==
    [][\A h \in ListedJobs \ ListedJobs' :
          shown'[h] \in {"DONE", "KILLED"} => pgid[h] # NULL /\ ~GroupExists(pgid[h])]_vars

\* exit is accepted only when no child is left but those of the pipeline that
\* exit is itself a call of.
ExitLeavesNoChild ==
    [][should_exit' /\ ~should_exit =>
          \A p \in Pids : proc[p].st # "free" => newjob # NULL /\ proc[p].grp = pgid[newjob]]_vars

\* The code that the chief of the command being executed, the last call of its
\* pipeline, ended with, wherever it is: a builtin left it in info, the kernel
\* keeps it for a process until the shell asks, and then exit_status has it.
\* NULL as long as the chief has not ended.
ChiefCode ==
    CASE info # NULL -> info
      [] info = NULL /\ newjob # NULL /\ 1 \in Forked(newjob) ->
            LET chief == subjobs[newjob][1] IN
            IF is_finished_status(chief.last_status) THEN exit_status
            ELSE IF proc[chief.pid].st \in Zombies THEN proc[chief.pid].code
            ELSE NULL
      [] OTHER -> NULL

\* A command in the foreground whose job is finished returns the code its
\* chief ended with: the code is not lost or replaced by another one from the
\* end of the chief on, in whichever order the processes of the pipeline end,
\* stop and are waited for, and becomes the last exit code.
ChiefGivesCode ==
    [][newjob # NULL =>
          IF newjob' = newjob
          THEN ChiefCode \in {NULL, ChiefCode'}
          ELSE pc = "block" /\ newjob \notin ListedJobs' =>
                  ChiefCode # NULL /\ last_exit_code' = ChiefCode]_vars

\* What project.md says of kill %job: the signal goes to the processes of the
\* job.  Violated: a job of builtins has group 0, which is that of the shell.
KillSparesTheShell == pc # "killed"

\* As long as the prompt comes back, every child that has ended is reaped:
\* update_jobs looks at every process of every job before each prompt.
ZombiesAreReaped ==
    []<>(pc = "prompt") =>
       \A p \in Pids : (proc[p].st \in Zombies ~> proc[p].st = "free")

\* A walk over the job table ends, whatever the processes do meanwhile.
UpdateEnds == pc = "update" ~> pc # "update"

\* The shell stays in a blocking wait for ever only for a process that is
\* alive again and again; one that has ended or stopped lets it go on.
BlocksOnTheLiving ==
    <>[](pc = "block") =>
       []<>(pc = "block" /\ \E k \in Unfinished(target) : proc[subjobs[target][k].pid].st = "live")
=============================================================================
