# Verification of jsh

jsh is an interactive shell with job control (`src/src`, about 3 700 lines of
C; `src/project.md` says what it should do and `src/ARCHITECTURE.md` how it is
built).  These modules model its parser, the pipes and descriptors of a line, its
job table, its job control and `cd`; TLC checks them on small instances, and TLAPS
proves the main invariants for every instance.

## The system

| component | source | state it keeps | operations |
|---|---|---|---|
| job table | `jobs.c:61-178` | `job_table`, `job_table_size`, `job_table_capacity`, `job->id`, what is allocated | `new_job`, `destroy_job`, `add_job`, `remove_job`, `init_job_table` |
| job control | `jobs.c:180-655`, `fg.c`, `bg.c`, `kill.c`, `exit.c` | `pgid`, `status`, `subjobs` of each job; what was printed | `update_jobs`, `wait_for_job`, `blocking_wait_for_job`, `jobs`, `fg`, `bg`, `kill`, `exit` |
| execution | `internals.c` | the command that runs, the job being launched, `last_exit_code`, `should_exit` | `execute_command`, `execute_external_command`, `execute_as_job`, `execute_single_command` |
| main loop | `prompt.c:77-118`, `jsh.c` | the rest of the line | `prompt` |
| signals, terminal | `signals.c`, `internals.c:185-193` | foreground group of the terminal, signals ignored | `ignore_signals`, `restore_signals`, `tcsetpgrp` |
| parser | `command.c:368-948`, `string_utils.c` (splitting) | the commands of a line with their calls, pipes and open files; two static variables | `parse_read_line`, `parse_command`, `parse_command_call`, `parse_command_substitution`, `parse_redirections`, `link_pipelines` |
| pipes, redirections | `internals.c:97-128, 139-199, 287-293, 357-396` | the descriptors of the shell and of its children; `open_pipes`, `reading_pipes`, `writing_pipes` | `close_reading_pipes`, `close_writing_pipes`, the closing loop of `execute_as_job`, `close_unused_file_descriptors` |
| working directory | `cd.c`, `pwd.c` | the directory, `lwd` | `cd`, `pwd` |
| process tree | `proc.c` | none (reads `/proc`) | `get_children` |
| prompt string, strings, numbers | `prompt.c:7-75`, `string_utils.c`, `utils.c` | none | pure functions |
| operating system | external | children, reports, groups, terminal | `fork`, `setpgid`, `waitpid`, `kill`, `tcsetpgrp`, signals |

How they interact.  `prompt()` updates the jobs, reads a line, has it parsed
and executes its commands one after the other.  The parser does not only read: it
opens every file and every pipe of the line as it comes to them, all of them before
the first command is started.  A builtin on its own runs in
the shell.  Everything else becomes a job: the calls are launched one by one
(a builtin of a pipeline runs in the shell between the forks), and the job is
waited for (foreground) or enters the table (background, or stopped while in the
foreground).  The shell is a single thread without signal handlers: all it
learns of its children is what `waitpid` and `kill(-pgid, 0)` answer when it
asks.  The children run concurrently with it, stop, continue, fork and end
between any two of its system calls, and take the terminal themselves.

What makes it hard is therefore not the shell alone: a job has several
processes whose statuses are read at different times; a report of `waitpid` may
be overwritten by the next; a pid may be reused once reaped; a finished process
may leave others in its group; and the launch of a pipeline can fail halfway.  Descriptors add
to this: every child inherits all that the shell holds at its fork, so what the shell
or a child forgets to close keeps an input of another process from ending, and what is
closed too early ends it before its time.

What makes each component correct:

* job table - a job's number is its slot, numbers are the smallest free ones,
  pointers are never stale, the counters are exact, an insertion always succeeds;
* job control - no child is lost, none is waited for by the wrong job, the
  statuses catch up with the truth, what is printed is up to date and true,
  `exit` is refused while a job is alive, groups are not confused;
* execution and terminal - a pipeline is one group, the chief (subjob 0, the
  last program of the pipeline) gives the exit code, the shell has the
  terminal at its prompt;
* pipes - a reader sees the end of its input when its writers are done and not
  before, a program holds its own ends and no others, nothing stays open at the prompt;
* parser - which lines it accepts, what calls, links and redirections they stand
  for, and that it closes what it opened for a command it refuses;
* working directory - `cd -` goes to where the last successful `cd` left from;
* process tree, prompt, numbers - the functions compute what their headers say
  on every input, at the limits too.

`PROJECT.json` lists the components with their status, and under `hazards` the
places of the code that tests hardly reach, with the properties about each.

## Modules

| module | models |
|---|---|
| `JobNumbers` | abstract: jobs carry distinct numbers, a new one the smallest free |
| `JobTable` | the array with its counters, one action per function of `jobs.c:61-178` |
| `JobTableProofs` | its invariants, and that it implements `JobNumbers` |
| `Kernel` | external: children, groups, terminal, as the system calls of jsh see them |
| `Shell` | main loop, launch, update, builtins and blocking wait, over `JobTable` and `Kernel` |
| `ShellProofs` | the type invariant and four safety properties of `Shell` |
| `ShellChildrenProofs` | its properties about children, groups, exit codes and the terminal |
| `Launch` | abstract: processes join the job one by one, in its group |
| `ForkHandshake` | a launch, one action per system call of the shell and of the children |
| `ForkHandshakeProofs` | its invariants, and that it implements `Launch` |
| `Grammar` | abstract: which token sequences are commands, and which call reads what which other writes |
| `Parser` | `parse_read_line` and all it calls, on lines of tokens |
| `ParserProofs` | what the parser makes of any line: its invariants, and that `Plumbing` may execute it |
| `GrammarProofs` | that the parser accepts the lines of `Grammar` and no others, and links the calls that `Grammar` links |
| `Streams` | abstract: an input ends, and only when all who write into it are gone |
| `Plumbing` | the descriptors of the commands of a line, from the parser to their end |
| `PlumbingProofs` | its invariants, and that it implements `Streams` |
| `WorkingDir` | `cd`, `pwd` and the prompt, with a file system that others change |
| `WorkingDirProofs` | what `cd` does to the directory and to `lwd` |
| `MCJobTable`, `MCShell`, `MCForkHandshake`, `MCParser`, `MCPlumbing`, `MCWorkingDir` | the instances TLC checks |

`Shell` is composed of `JobTable` and `Kernel`, whose variables it extends and
whose actions its own conjoin.  `Launch` is the link between `Shell` and
`ForkHandshake`: a process of a job is there, in its group, after one step
(`LaunchProcess`), or the launch is given up.  `Plumbing` takes the same step for one
(`LaunchProgram`), and executes the commands that `Parser` makes: `MCPlumbing` gets
its lines from `Parser!parse_read_line`, and `CommandsAreExecutable` proves that what the parser
returns, whatever the line, is what `Plumbing` and its proofs assume of their lines.  `WorkingDir` shares no state with the
others; for `Shell` its commands are the call `other`.

`JobTable`.  A job is an address; `heap` is what is allocated.  `Occupied` and
`ListedJobs` are the slots in use and their jobs.  `add_job` is one action: growth,
search and insertion.  A call that fails its checks changes nothing and is no
step.  `init_job_table` may be called again, as the tests do.

`Kernel`.  A child is a record: state, unreported stop or continuation, exit
code, group, and its *prelude*, what it does between answering the shell and its
`exec` (take the terminal, restore the signals).  SIGSTOP and SIGCONT overwrite
one another's report.  SIGTERM and the signals of the keyboard may be ignored,
caught or fatal, so they are left to the children's own steps.  `kids` holds the
groups with a live process that is not a child of the shell (what Detached is
about).  Constants switch on what a run does not need: `MaySpawn` (children
fork), `OutsideContinue` (somebody else sends SIGCONT), `StopsEarly` (a child is
stopped during its prelude).

`Shell`.  `pc` says where the control is, one value per place where the shell can
be between two system calls that its children may answer differently:

| `pc` | in the code | actions |
|---|---|---|
| `update` | loops of `fd_update_jobs`, `wait_for_job` | `UpdateWait` (one `waitpid`), `UpdateJob`, `UpdateReturnsToPrompt`, `UpdateReturnsToJobs`, `ExitRefused`, `ExitAccepted` |
| `prompt` | `readline` | `ReadLine` |
| `next` | loop over the commands of the line | `RunCommand`, `EndLine` |
| `launch` | `execute_as_job` | `LaunchProcess`, `LaunchBuiltin`, `LaunchFails`, `HandshakeFails`, `HandshakeBreaks`, `LaunchDone`, `LaunchForeground` |
| `builtin` | `execute_internal_command` | `BuiltinUpdates`, `BuiltinOther`, `BuiltinKill`, `BuiltinBg`, `BuiltinFg` |
| `block` | loop of `blocking_wait_for_job` | `BlockWait`, `FgReturns`, `ForegroundReturns` |
| `exited`, `killed`, `crashed` | `main` returns, the shell is killed, a NULL pointer is read | none |

`caller` is what the update or the wait returns to, `slot` and `sub` the indexes
of the loops, `target` and `exit_status` the variables of the blocking wait;
`calls`, `background`, `call`, `newjob` and `info` those of the launch.  A variable
whose scope is left is set back to its initial value, which no later step reads.
`shown` has no counterpart in memory: it is the status last printed of a job.  A
`pgid` of 0 is written `NULL`.  `line` is what may still follow on the line: any
command, only background ones (the last was refused: `command.c:902-905`), only
the `exit` that the end of the input stands for, or nothing.

Abstracted: the arguments of builtins (a builtin may be refused for them,
whatever they are), the text of messages, the pipes, and the parser, of which
`ReadLine` and `RunCommand` keep which commands of a line are run.  `kill` with a pid does what
`ChildSignalled` may do at any time.

`ForkHandshake`.  `execute_as_job` for a pipeline of `N` programs.  `shell` and
`child[i]` are named after what the process does next; a step stands for the
system calls of `internals.c:139-231` up to the next one that another process can
notice (the two `pipe` are one step, a `write` and the `close` after it too), and between
two steps any process may be killed (`MayDie`).  `open` is the set of the descriptors of
the handshake, each with its holder, its call and its end: `fork` copies those of
the shell, a death closes all of the process, and an end of file or SIGPIPE is that
nobody holds the other end.  A process that died stays in its group, as the shell
reaps no process of a job that it is launching.  The terminal stops a child that
takes it from the background with SIGTTOU restored (`suspended`, which the order of
the code prevents), and ^C ends the children of the foreground group that have
restored their signals.  Builtins of a pipeline fork nothing and are left to `Shell`;
so are stops from outside, which would only delay the launch until they are lifted.

`Parser`.  A line is a sequence of tokens: words that open or do not, the symbols,
the flag `&`, the separator.  The functions of `command.c` are operators of the same
names from a parse state to the next; the state has the calls built so far, the order
in which they enter `command_calls`, the pipes, the two static variables, the
descriptors open and the number of the last one opened (every descriptor is new, which tells more apart than
the kernel would).  A call refers to others by number, a call of
a line that is gone is `DANGLING`.  Of the static variables only
`last_parsed_command_call_substitution` outlives a line, so it is a variable of the
specification and the other one is not: `parse_command` resets it.  Position in the line
stands for the text of a call (`at`), so the result can be compared with `Grammar`,
which says nothing of how a line is read: nesting is a count of parentheses, a pipeline
what lies between them at the same level, a stream a pair of calls.

`Plumbing`.  `pc` is again the place in the code:

| `pc` | in the code | actions |
|---|---|---|
| `prompt` | `prompt`, `parse_read_line` | `ReadLine` |
| `next` | loop over the commands, `execute_command` | `RunBuiltin`, `RunJob`, `EndLine` |
| `launch` | loop of `execute_as_job`, `:244-259` | `LaunchProgram`, `LaunchFails`, `LaunchBuiltin`, `LaunchDone` |
| `write` | a builtin of a pipeline prints | `BuiltinWrites`, `BuiltinReturns` |
| `launched`, `failed` | the loop that closes the pipes, `:287-293` | `ClosePipes` |
| `wait` | `blocking_wait_for_job` | `JobEnds`, `JobStops` |
| `finish` | `close_unused_file_descriptors` | `CloseFiles` |

`held` is what the shell holds, `fds[p]` what the child of call `p` holds: a copy of
`held` at the fork, less what the child closes before its `exec` (`ChildExecs`), which
may come long after the shell went on.  `load` counts what is in a pipe.  What a program
does with its pipes is external: it writes, reads, sees the end or ends.  An end of
file is that a pipe is empty and nobody holds the end to write into.  Call `n` of the
array is launched in turn, so a writer may be launched before or after its reader, as
the parser has ordered them.

`WorkingDir`.  A place is a physical path with what is there (`files`); a name, all a
user may write, leads to a place, as a link does.  `cwd` is the place of the working
directory and `gone` whether the directory itself was removed (another one made
at its path is not the same).  `cd` is a step for each of `stat`, `getcwd` and
`chdir`; `before` is a history variable.  The prompt is there because it calls
`getcwd` too.  `get_current_wd` turns a failure into a literal that its
callers free, which no allocator accepts: `FreesLiteral` ends the shell.

## Runs

| run | constants | shows |
|---|---|---|
| `jobtable` | 5 jobs, growth by 2 | types, numbers, pointers, and `JobNumbers` implemented, over two growths |
| `shell_jobs` | 2 jobs, 2 pids, all builtins but `kill`, pipelines of two programs, of builtins, with a builtin as chief, `p \| exit`, outside SIGCONT | `ShellTypeOK`, announcements up to date, no child lost, statuses catch up, terminal, removals announced, `exit`, the code of the chief becomes the last exit code |
| `shell_failures` | 2 jobs, 3 pids, jobs of one and of two programs, `fg`, launches fail | `NoStrayWait`, `GroupsAreDistinct` where children end up in no job and pids are given away again |
| `shell_live` | 1 job, 2 pids, `kill`, `fg`, children fork, outside SIGCONT, fairness | `VerdictIsTrue`, `ZombiesAreReaped`, `UpdateEnds`, `BlocksOnTheLiving` |
| `handshake` | 3 programs, failures, deaths, fairness | groups, terminal, descriptors, `Launch` implemented, nobody waits for ever |
| `working_dir` | 3 places, one too long for `PATH_MAX`, a link to one | `WdTypeOK`, `CdSwaps` |
| `parser` | all lines of up to five tokens, and 1 to 3 calls put together | the parser accepts the lines of `Grammar`, wires what they say, loses no descriptor, marks the background commands |
| `plumbing` | 17 lines, pipes of capacity 1, builtins that write up to 2, fairness | own ends only, nothing closed early or left open, `Streams` implemented, every input ends, builtins get their output through |
| `kill_reaches_shell` | violated | `kill -9 %1` for a job of builtins kills the shell |
| `refused_line_runs` | violated | a line whose last command has a redirection that fails still runs the commands before it |
| `stale_substitution` | violated | a refused substitution makes the parser refuse good lines later |
| `inherited_pipes` | violated | in `p & p \| p` the first program keeps the input of the last open |

Bounds.  Two pids and two jobs: the hazards need two processes in one job (one
read before the other changes) or one in each of two jobs (a pid or a group taken
for the other's), and a pid is reused as soon as it is reaped, so the number of
forks is not bounded.  `shell_failures` has a third pid: only with it is there a job of
two programs beside another job, or beside a killed process that a failed launch left in no
job, and only then can a pid or a group that is given away again be taken for one that is still named.
To fit in minutes it does without outside SIGCONT, and `StopsEarly` is off in every run: that a child
is stopped between its answer and its `exec` is covered by the theorems, which but for
`TerminalComesBack` hold for either value (below).  Children that fork are in `shell_live`, where one
job is enough: `VerdictIsTrue` speaks of the group of one job, and `GroupsAreDistinct` says that no
other has it.  `kill %job` is there too; in `shell_jobs` the same signals come from outside.
`EnoughPids` only lets a command start when the pids
suffice for it; `RunCommand` can only run when an address is left in `Jobs`.
The capacity of the table is 1 in the runs of `Shell`, so it grows when the
second job enters; the table on its own is checked with five.  Exit codes are 0
and 1, enough to tell whose code is kept.  Three programs in `handshake`: a leader, one
that joins after it died, and one with both before it.  In `working_dir` a place to
be in, one to come from, and one that getcwd cannot name.

In `parser` the words are one that opens and one that does not; any further word
would behave as the first, as only redirections look at words.  Five tokens are
enough for every symbol at the start, in the middle and at the end of a call, next to
every other; what takes more (pipelines of three calls, nested and repeated substitutions,
a redirection at every place of a pipeline, errors after several descriptors were opened) is in the
lines that are put together from eleven calls, linked by `|` or separated by `&`.

In `plumbing` the seventeen lines are the shapes that differ in who holds what: pipelines of two and
three, substitutions (also nested, also with a pipeline inside or after), builtins as
reader, writer, both, on their own, files of inputs, outputs and errors, a command before and after
another with pipes.  A capacity of 1 with 2 to write blocks a builtin that a real pipe of
64 KiB would block with more output.  Deadlock is not checked there: the
shell may really block for ever in the `write` of a builtin (below), or in the wait for
a program that neither ends nor writes.

Not all switches are on in one run of `Shell`:
each run has those its properties are about.  Processes and jobs are
interchangeable in the safety runs (symmetry); the liveness run uses none.

The mutants stand beside the definitions they change, named
`<definition>_<what is wrong>`; each makes the property it is paired with in
`PROJECT.json` fail.

Fairness.  `FairShellSpec` assumes that the shell goes on while it can
(`WF(ShellStep)`: it is one thread that only blocks in `readline` and `waitpid`),
that a line ends (`SF(EndLine)`: it holds finitely many commands, while the model
chooses them one at a time), that a line or the end of input arrives, and that
the `exit` it stands for is run.  Nothing is assumed of the children: they may
live, stop or continue for ever.  `FairSpec` of `ForkHandshake` assumes that the
shell and each child are scheduled while they can go on (`WF` of each); it assumes
neither that a call succeeds nor that anybody dies, and a child in `suspended` or a
read that nothing answers is not made to go on.  `FairPlumbingSpec` assumes that the
shell goes on while it can (reading a line is the user's, and a stop of the job nobody's
duty), that a child that has answered comes to its `exec` (so long as any is due, one does), and that a
program reads what was written for it.  No program has to write or to end.  A program
that is stopped reads nothing until it is continued: the fairness says that it is,
sooner or later.

## Findings

1. A job of builtins has group 0, and `kill %job` signals the shell's own group
   (`kill.c:65`, run `kill_reaches_shell`).  `project.md:153`: the processes of the job.
2. A line whose last command has a redirection that fails is executed without that
   command (`command.c:902-905`, `:929-939`, run `refused_line_runs`).  `project.md:281-282`: the
   line is not executed, and the exit code is 1.  `a & b < nosuch` runs `a` in the background,
   and its launch sets the exit code back to 0.
3. When a substitution is refused, `last_parsed_command_call_substitution` keeps
   pointing to a call that is gone (`command.c:517-532`, run `stale_substitution`).  The
   comment at `command.c:23-24` says that it is reset with every substitution.
   The test at `:798` looks at it outside of substitutions too: after `a <( b > c )` was refused,
   every pipeline of three calls is, until a substitution is parsed to its end.
4. A child closes the pipes of its own command only, but inherits those of all
   commands of the line (`internals.c:182`, run `inherited_pipes`).  `ARCHITECTURE.md:97-99`: all
   descriptors the command does not use are closed between `fork` and `execvp`.  In
   `sleep 100 & echo hi | cat` the shell waits for `cat`, and `cat` for the end of `sleep`.

Also met, without a run of their own; the models do what the code does:

* `exit` is not the end of a line, so `exit & sleep 100 &` ends the shell with a
  running job (`prompt.c:104`; `project.md:98-103`).
* `jobs -t` reads the pid of the NULL subjob that stands for a builtin (`jobs.c:501-502`;
  `project.md:128`).
* A `cd` that fails in `chdir` has already overwritten `lwd` (`cd.c:87-96`; `tests/test_cd.c:161`,
  `:187` expect it to be left alone).
* In a directory that was removed `pwd` frees a literal, its test for NULL being never
  true (`utils.c:10-17`, `pwd.c:13-21`; `project.md:78-79`), and so does the next prompt.
* A finished job of builtins only is announced as Detached, because `kill(0, 0)` always
  succeeds (`jobs.c:315`; this is why `VerdictIsTrue` speaks of Done and Killed).
* The pipes of a handshake stay open when `pipe`, `fork` or the handshake fails
  (`internals.c:145-229`), and after a foreground launch that fails halfway the shell does not
  take the terminal back (`internals.c:295`).
* A builtin of a pipeline that prints more than its pipe holds blocks the shell for
  ever when its reader is launched after it, which the order of the array allows:
  `jobs | jobs`, `p <( jobs ) | p` (`internals.c:131-134`).
* A line that is given up closes none of the files and pipes of the commands
  already parsed (`command.c:924`).
* A line that starts with `&` is ignored.
* `parse_command_substitution` reads the descriptors of a call it has just destroyed
  (`command.c:528`); the model takes the values they had.

## Proofs

For every set of jobs, pids, exit codes and commands, every capacity, and, unless a
theorem says otherwise, every setting of the switches, from the `ASSUME`s of the modules: the capacity is
positive, NULL is no job, no group and no subjob, SHELL is no pid, 0 and 1 are exit codes, NULL is none,
and commands are non-empty sequences of calls with `exit` among them; for every
length of a pipeline; for every set of words and every set of lines made of tokens (`TokensAssumption` and
`LinesAssumption` of `Parser`: no word is a symbol); for every set of lines whose commands are as the parser makes
them (`LinesAssumption` of `Plumbing`), every capacity of a pipe and amount of output; and for every set of names and places, with links, long paths
and HOME as they may be.

*Job table* (`JobTableProofs`).  The inductive invariant `TableInv` joins the type
invariant with `IdIsPosition`, `NoDanglingSlot`, `SizeIsCount` and `NeverShrinks`
(the capacity is at least the initial one).
It is needed as a whole: growth sets the slots from
`job_table_size` on to NULL, which is harmless only because the count is exact and
the table full (the slots of a full table are all occupied, by a counting
argument on finite sets), and removal trusts the number in the job.
`AddJobSucceeds`, `GrowthIsNeeded` and the refinement `TableImplementsNumbers`
follow from it.

*Shell* (`ShellProofs`).

* `ShellUsesTable`: each step of the shell is a step of `JobTable` or leaves the
  table alone, so `TableInv` holds of the shell.
* `ShellTypeCorrect`: `TypedInv` adds to the types what they rest on: which
  variables are set at which `pc` (`ControlInv`: the job being launched is
  allocated and not in the table; the target of a blocking wait is in the table when
  `fg` waits and is that job when a launch does).
* `AnnouncementsUpToDate`: `AnnouncedInv` is stronger than the property: not only
  at the prompt but at every moment the status printed last of a listed job is the
  one kept and is not a finished one, and a job being launched is Running.
* `RemovalsAreAnnounced`, `VerdictsAreTrue`: from the same invariants, by the
  actions that remove a job.
* `WaitsAreSound`: `NoStrayWait` is inductive relative to `TypedInv`.  The three
  conjuncts need each other: that a watched pid is not free rests on only one job
  watching it, which rests on `fork` returning a pid that is free, and the step
  that reaps a child marks it as finished in the one place it is watched.

*Children of the shell* (`ShellChildrenProofs`).  `JobSteps` sorts the steps by what they
do to the jobs: leave them alone, free one, create one, learn something of a process,
fork one.  Every invariant below goes through these cases, relative to `TypedInv` and
`NoStrayWait`.

* `StatusesCatchUp`: needs that a report that is due tells of the state a process is in
  (`ReportsFit`), and for the launch that the places not yet come to are empty (`LaunchInv`).
* `NoChildLost` and `ExitLeavesNoChildBehind` assume that no launch fails: a child that dies
  during the handshake is reaped by nobody, and jobs whose launch failed leave killed
  processes behind (`internals.c:212-231`).
* `GroupsNeverShared` holds in every setting.  `fork` does not return a pid that names a group with
  a member, so a group is only given away twice if a job still has it after all its
  processes were reaped.  `HandInv` says when a job may be in that state: only while
  `update_jobs` stands at it or the shell blocks for it, both of which end by freeing it before anything is forked.
* `ChiefGivesItsCode` follows the code of the chief through the places that hold it: `info` if it is a builtin, else
  the zombie in the kernel (`ZombieKept`), then `exit_status`, then the last exit code.  Needed is
  that the code looks at pids and no other process of the job has the chief's (`NoStrayWait`), that the
  launch of the other calls reaps nobody, and `ChiefInv`: the chief comes first in the loop of the wait, which therefore
  does not return before the chief has left its code.
* `TerminalComesBack` assumes that no launch fails and that no child is stopped before it runs.  `EagerInv`:
  a child that has yet to take the terminal has nothing to report, so the loop of the blocking wait
  cannot pass it; that no builtin stops it meanwhile (`p | kill -STOP %1`) rests on
  `GroupsAreDistinct`.

*Handshake* (`ForkHandshakeProofs`).  The inductive invariant has three parts beside
the types.  `GroupInv`: the group is that of the first process, and whoever was told
it, has joined it, has answered or was counted is right about it; that is why the
group is there even when the process that leads it is dead.  `TerminalInv`: a
child that is past `tcsetpgrp` has set the terminal, and nobody sets it otherwise.
`EndsInv`: which ends a process may hold at each point of its code, only those of the
current call for the shell, only its own for a child; a child forked later would
otherwise inherit what the shell forgot.  `HandshakeImplementsLaunch` follows with
`group` restricted to the calls already counted: the only steps `Launch` sees are
`Launched` and the ways to give up.

*Parser* (`ParserProofs`).  `parse_command_call` calls itself, so what is proved is proved of
all its loops at once: `LoopKeeps` says what a loop with `n` tokens left makes of any frame
it may be in, and `LoopsKeep` that this holds for every `n`, by induction.  A loop runs inside others, so
the statement is for every *context*: what the calls further out hold and must find again
when the loop is done (the descriptors of their builders, the pipe of a substitution that is
open, the number of calls and pipes there were).

* While a call is parsed, every descriptor that is open is an end of a pipe, belongs to exactly one
  call or builder, or is held further out (`Sound`, `BuilderApart`), and every call built is
  to be found, from `command_calls`, from the static variable `last_parsed_command_call`, or from
  the loop that is to add it (`Ordered`).  This is what makes the error
  path sound: once anything is refused, what is open is still within reach of those who
  close it on the way out (`Refused`).
* `LoopWires` is a second induction over the same loops, for what is linked to what.  A pipe may be due a
  writer, a reader or both: the pipe of a substitution that is open (`waiting`), the pipes that a builder
  writes and reads (`BuilderWired`), those read by builders further out (`outer`).  A loop leaves due what was
  due and links all it opens (`Linked`); a command owes nothing at its end, so `PipesLinkTwoCalls`.
* `CommandKeeps`: a command that is returned owns exactly what was opened for it, in a range of
  numbers of its own, and has one call more than pipes; one that is refused leaves nothing open.
* `ParserInvariant`: the variables hold what `parse_read_line` makes of the line, the ranges of
  its commands following one another.  `TypeCorrect` and `WhatIsOpenIsOwned` follow from it.
* `FlagsAreFollowed` needs that the pieces counted from left to right are those
  that lie between flags, by induction on the length of the line, with the pieces
  that begin before a position counted as a finite set.
* `CommandsAreExecutable`: the commands of any line satisfy what `Plumbing` assumes of its
  lines, which joins the two modules: its theorems hold of all that the parser returns.

Recursion is written as functions of the number of tokens that are left, whose equations the first
lemmas prove (`Induction`, `Recursion`, `LoopsExist`), with induction over sets of numbers: the theorems of
the library on both take an operator as a parameter, and the provers cannot instantiate it.

*What is read* (`GrammarProofs`).  `ReadsTheGrammar` compares two ways to say what a line is.  The parser goes
from left to right, calls itself at `<(` and at `|`, and refuses at the first thing that is wrong; `Grammar`
counts parentheses from both sides and looks at all the positions at once.  That they agree for every line is shown in
four parts.

* *Counting.*  The depth changes by at most one per token, so the first place where it falls below its value
  at a `<(` is the parenthesis that closes it, which is where the parser's search ends, and
  there is none exactly when the parser's search fails.
* *Shape.*  `LoopReads`: a loop that goes through has found tokens that are balanced, each symbol followed by a word
  (`Nested`); what it has `Scanned` so far is the invariant of its turns.
* *Redirections.*  `LoopDecides`: what a builder has `Seen` of its own call (its streams are redirected
  exactly if the tokens read so far say so) decides with the tokens to come whether all
  redirections are `Allowed`.  A `>` before a `|`, a `<` after one and a `>` of the last call of a
  substitution are refused at different places of the code; `CallDecided` and
  `Decided` say that the places together miss none and refuse nothing else.
  Both are inductions over the number of tokens left, for all contexts at once, like `LoopKeeps`.  Together
  they give `CommandDecides`.
* *Lines.*  The pieces of `split_string_keep_trace` are those that lie between flags (`PieceBounds`), in
  order, and `split_string` leaves of each what `Tokens` keeps.  A line is refused if `parse_command` refuses
  one of its pieces, and the static variable is NULL before each piece that is accepted.
  `GrammarIsRead` follows.

The hypothesis that the static variable is NULL cannot be dropped: that is what the run `stale_substitution` shows.

*What is linked* (`GrammarProofs`, second half).  `WiresWhatIsWritten` compares the calls and pipes of a command, which
the parser numbers in the order in which its recursion builds them, with the positions at which `Grammar` says that calls
start (`CallStarts`, `MainLast`) and between which something flows (`Streams`).  `WiresAreWritten` states it
for every line and for either value of the static variable.  The argument:

* *What a parse adds.*  `Adds(p, X, q, Y, places, streams)` says of two states of a parse that the calls and pipes of `p`
  are kept, that exactly one new call starts at each of `places`, and that each new pipe carries one of
  `streams` and each stream has a pipe.  `X` and `Y` are the calls of each state with the one that is still being read,
  which becomes a call only at its end (`BuildCallAdds`).  Parts that are apart compose (`AddsOn`), calls may gain
  what they read and write without losing anything (`Became`), and each of `BuildCall`, `parse_redirections`,
  `LinkNext` and `LinkSubstitution` adds what one token stands for.
* *What a loop adds.*  `LoopPlaces`: a loop that goes through adds the calls that start (`IsStart`)
  among the tokens it has left, its own excepted, and the streams of the `|` and `<(` among them, however its calls to itself
  divide them.  It ends with a last call to which the last token belongs (`EndsAt`).  This is the
  third induction over the number of tokens left (`LoopsPlace`), and it rests on the
  first two (`LoopKeeps`, `LoopWires`) and on `LoopReads`.
* *Commands.*  `ListedFacts` makes the list that `parse_command` returns a permutation of what was built, the last of the
  pipeline first.  Each pipe has one writer and one reader (`PipesLinked`), so what a pipe carries is what `StreamOf` reads off
  it, and no two pipes carry the same stream, because a call has one output.  Calls and pipes are therefore as
  many as `Grammar` counts: `CommandIsWired`.
* *Lines.*  The k-th piece that `split_string_keep_trace` leaves is the k-th of the line (`PieceIsNth`: no two pieces
  have as many before them, `NumbersApart`), and as long as no piece was refused the k-th command comes from it.

*Pipes* (`PlumbingProofs`).  The properties say what a program holds once it runs
and what the shell holds at two places, while what decides both lies between: a child is a
copy of the shell at a moment that may be long gone when it runs.  The inductive
invariant `PlumbingInv` therefore joins the types with four facts.  `HeldExactly`: what the
shell holds is, at every `pc`, the standard descriptors, what was opened for the commands to come, and what
is not yet closed of the current one.  `CallsInPlace`: the calls that were not launched are
waiting, those of earlier commands are not.  `ForkedHoldsAll`: a child that has not come to its `exec`
holds all of its command's pipes and files, however much the shell has closed since.
`HoldsItsOwnPipes` follows when it closes the rest.  `NothingIsClosedEarly` is read off `HeldExactly`, which
needs that no two commands of a line opened the same descriptor.
`PlumbingImplementsStreams`, with `writers` the calls that were not launched or have
not ended: the one step that matters is `SeesEnd`, where a writer that is waiting would
have its end held by the shell, and one that is there would hold it itself.

*Working directory* (`WorkingDirProofs`).  `CdInv` says that `lwd` is the
working directory between the second and the third system call, which makes
`CdExchanges` hold whatever others do in between, and that a shell that has moved
has an `lwd`.

Only model-checked: liveness (out of the prover's reach, like ENABLED).  Every invariant and every action
property of the passing runs is stated by a theorem.  The other way round, `SizeIsCount`, `AlwaysRoom`,
`GrowsOnlyWhenFull` and `UnsetMeansStart` are stated by theorems and by no run: TLC
checks the inductive facts next to them (`TableTypeOK`, `ImplementsJobNumbers`, `WdTypeOK`).

## Not modelled

* Failure of `malloc` in the shell; `exit(1)` when stderr is no terminal and
  `tcsetpgrp` fails; the destruction of the table when `main` returns.
* The branch of `wait_for_job` for a `waitpid` that fails is in `UpdateWait`; it
  is never taken (`NoStrayWait`), and `blocking_wait_for_job` has none in the model.
* In `Shell` the handshake of a launch is one step with its outcomes; what decides
  them is in `ForkHandshake`, where a pipeline has no builtins and nobody stops a
  process.
* In `WorkingDir`: failures of `strdup`, renames of the working directory or its
  ancestors, and HOME changing.  A line is a choice of commands, one at a time.
* In `Parser`: failures of `malloc` and `pipe`; characters (what makes a token is a matter of
  spaces, and quoting does not exist); the open modes of `>|`, `>>`, `2>|` and `2>>`, which
  are treated like `>` and `2>`, as only the flags given to `open` differ; the names that
  `/dev/fd` gives to substitutions.
* In `Plumbing`: `dup2`, which gives a child copies of its own ends and files under the standard
  numbers just before its `exec`; the descriptors of the handshake, which
  `ForkHandshake` has; the contents of files.
* In both, a descriptor that is closed twice: no number is ever used again, so a second `close`
  has no effect, while in the kernel it may hit a descriptor opened in between.
* `proc.c` reads `/proc` for `jobs -t` and changes nothing.  The layout of the prompt
  and of messages, colours, trimming and the parsing of numbers are functions of
  text: what they could get wrong is the text, which no property here is about.

## Plan

Done: the job table, job control, launch, parser, pipes and working directory, with
their runs and the proofs above.  What is left:

* `ProcChildren` and `Numbers`: `get_children` and `parse_intmax_t` against
   reference definitions over bounded inputs (the two hazards without a model).
