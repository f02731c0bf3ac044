------------------------------ MODULE Plumbing ------------------------------
(***************************************************************************)
(* Who holds which descriptor while the commands of a line are executed    *)
(* (internals.c, utils.c).  The pipes and files of all commands of a line  *)
(* are opened by the parser before the first command is started; a child   *)
(* inherits all that the shell holds and closes, of the pipes of its own   *)
(* command, those that are not its business; the shell closes the pipes of *)
(* a command once all its calls are launched.  A reader sees the end of a  *)
(* pipe when it is empty and nobody holds the end to write into it.        *)
(*                                                                         *)
(* A behaviour executes one line after the other.  The processes of a line *)
(* are gone when the next one is read: at the prompt the shell holds       *)
(* nothing but its standard descriptors (OpenAsLongAsNeeded), so what they *)
(* would still hold concerns no pipe of a later line.                      *)
(***************************************************************************)
EXTENDS Integers, Sequences

CONSTANTS
    Lines,           \* lines, each a sequence of commands as parse_read_line returns them
    Builtins,        \* names of the calls that run in the shell
    PipeCapacity,    \* what fits into a pipe
    BuiltinOutput    \* the most that a builtin writes

VARIABLES
    line,    \* the commands of the line that is executed
    cmd,     \* the command that is executed
    call,    \* the call of it that is launched next
    pc,      \* where the shell is
    held,    \* descriptors the shell holds
    state,   \* of each call of the line: "waiting", "forked", "running" or "gone"
    fds,     \* descriptors the child that runs a call holds
    load,    \* of each pipe, how much was written and not read
    todo,    \* what the builtin that is running has still to write
    seen     \* the pipes whose end their reader has seen

plumbingVars == <<line, cmd, call, pc, held, state, fds, load, todo, seen>>

Standard == 0 .. 2

\* The descriptors of a command's pipes, and those that a call was given.
PipeEnds(c) == {c.pipes[k][1] : k \in DOMAIN c.pipes} \cup {c.pipes[k][2] : k \in DOMAIN c.pipes}
CallFds(x) == {x.stdin, x.stdout, x.stderr}
OwnEnds(c, x) == {c.pipes[k][1] : k \in x.reads} \cup {c.pipes[k][2] : k \in x.writes}

\* What the parser opened for a command.
Opened(c) == (PipeEnds(c) \cup UNION {CallFds(c.calls[n]) : n \in DOMAIN c.calls}) \ Standard

(* A command as the parser makes them: a call uses pipes of its command, no*)
(* descriptor is there twice, and a call on its own has no pipe (WiresWhat-*)
(* IsWritten and OpenIsOwned of module Parser).                            *)
IsCommand(c) ==
    /\ Len(c.calls) \in Nat \ {0} /\ DOMAIN c.calls = 1 .. Len(c.calls)
    /\ Len(c.calls) = 1 => c.pipes = <<>>
    /\ \A n \in DOMAIN c.calls :
          /\ c.calls[n].reads \cup c.calls[n].writes \subseteq DOMAIN c.pipes
          /\ CallFds(c.calls[n]) \subseteq Nat
    /\ \A k \in DOMAIN c.pipes : c.pipes[k] \in (Nat \ Standard) \X (Nat \ Standard)
    /\ \A j, k \in DOMAIN c.pipes :
          /\ c.pipes[j][1] # c.pipes[k][2]
          /\ j # k => c.pipes[j][1] # c.pipes[k][1] /\ c.pipes[j][2] # c.pipes[k][2]
    /\ c.background \in BOOLEAN

ASSUME LinesAssumption ==
    \A l \in Lines :
        /\ Len(l) \in Nat /\ DOMAIN l = 1 .. Len(l)
        /\ \A c \in DOMAIN l : IsCommand(l[c])
        /\ \A c, d \in DOMAIN l : c # d => Opened(l[c]) \cap Opened(l[d]) = {}

ASSUME CapacityAssumption == PipeCapacity \in Nat \ {0} /\ BuiltinOutput \in Nat

\* Calls and pipes by their command and their number in it.
CallsOf(l) == UNION {{<<c, n>> : n \in DOMAIN l[c].calls} : c \in DOMAIN l}
PipesOf(l) == UNION {{<<c, k>> : k \in DOMAIN l[c].pipes} : c \in DOMAIN l}

Call(p) == line[p[1]].calls[p[2]]
IsBuiltin(p) == Call(p).name \in Builtins
ReadEnd(s) == line[s[1]].pipes[s[2]][1]
WriteEnd(s) == line[s[1]].pipes[s[2]][2]
Command == line[cmd]
Current == <<cmd, call>>
-----------------------------------------------------------------------------
(* A line was parsed and everything it needs is open.                      *)
ReadLine ==
    /\ pc = "prompt"
    /\ \A p \in CallsOf(line) : state[p] = "gone"
    /\ \E l \in Lines :
          /\ line' = l
          /\ held' = held \cup UNION {Opened(l[c]) : c \in DOMAIN l}
          /\ state' = [p \in CallsOf(l) |-> "waiting"]
          /\ fds' = [p \in CallsOf(l) |-> {}]
          /\ load' = [s \in PipesOf(l) |-> 0]
    /\ pc' = "next" /\ cmd' = 1 /\ call' = 1 /\ seen' = {}
    /\ UNCHANGED todo

(* execute_command.  A builtin on its own runs in the shell and has no pipe*)
(* to write into.                                                          *)
RunBuiltin ==
    /\ pc = "next" /\ cmd <= Len(line)
    /\ Len(Command.calls) = 1 /\ IsBuiltin(<<cmd, 1>>)
    /\ pc' = "finish"
    /\ call' = 2
    /\ state' = [state EXCEPT ![<<cmd, 1>>] = "gone"]
    /\ UNCHANGED <<line, cmd, held, fds, load, todo, seen>>

RunJob ==
    /\ pc = "next" /\ cmd <= Len(line)
    /\ ~(Len(Command.calls) = 1 /\ IsBuiltin(<<cmd, 1>>))
    /\ pc' = "launch"
    /\ call' = 1
    /\ UNCHANGED <<line, cmd, held, state, fds, load, todo, seen>>

EndLine ==
    /\ pc = "next" /\ cmd > Len(line)
    /\ pc' = "prompt"
    /\ UNCHANGED <<line, cmd, call, held, state, fds, load, todo, seen>>

(* execute_single_command until the child has answered (ForkHandshake): the*)
(* child has a copy of every descriptor of the shell.                      *)
LaunchProgram ==
    /\ pc = "launch" /\ call <= Len(Command.calls)
    /\ ~IsBuiltin(Current)
    /\ state' = [state EXCEPT ![Current] = "forked"]
    /\ fds' = [fds EXCEPT ![Current] = held]
    /\ call' = call + 1
    /\ UNCHANGED <<line, cmd, pc, held, load, todo, seen>>

(* pipe, fork or the handshake fails: the calls that are left are not      *)
(* launched, those that were are killed (:248-255).                        *)
LaunchFails ==
    /\ pc = "launch" /\ call <= Len(Command.calls)
    /\ ~IsBuiltin(Current)
    /\ state' = [p \in CallsOf(line) |-> IF p[1] = cmd THEN "gone" ELSE state[p]]
    /\ fds' = [p \in CallsOf(line) |-> IF p[1] = cmd THEN {} ELSE fds[p]]
    /\ pc' = "failed"
    /\ UNCHANGED <<line, cmd, call, held, load, todo, seen>>

(* A builtin of a pipeline runs in the shell, here and now (:131-134).     *)
LaunchBuiltin ==
    /\ pc = "launch" /\ call <= Len(Command.calls)
    /\ IsBuiltin(Current)
    /\ state' = [state EXCEPT ![Current] = "running"]
    /\ todo' \in IF Call(Current).writes = {} THEN {0} ELSE 0 .. BuiltinOutput
    /\ pc' = "write"
    /\ UNCHANGED <<line, cmd, call, held, fds, load, seen>>

\* Its output goes into its pipe, bit by bit; the shell blocks while that is full.
BuiltinWrites ==
    /\ pc = "write" /\ todo > 0
    /\ \E k \in Call(Current).writes :
          /\ load[<<cmd, k>>] < PipeCapacity
          /\ load' = [load EXCEPT ![<<cmd, k>>] = @ + 1]
    /\ todo' = todo - 1
    /\ UNCHANGED <<line, cmd, call, pc, held, state, fds, seen>>

BuiltinReturns ==
    /\ pc = "write" /\ todo = 0
    /\ state' = [state EXCEPT ![Current] = "gone"]
    /\ call' = call + 1
    /\ pc' = "launch"
    /\ UNCHANGED <<line, cmd, held, fds, load, todo, seen>>

LaunchDone ==
    /\ pc = "launch" /\ call > Len(Command.calls)
    /\ pc' = "launched"
    /\ UNCHANGED <<line, cmd, call, held, state, fds, load, todo, seen>>

(* The loop :287-293, whether the launch went well or not; then a job in   *)
(* the foreground is waited for.                                           *)
ClosePipes ==
    /\ pc \in {"launched", "failed"}
    /\ held' = held \ PipeEnds(Command)
    /\ pc' = IF pc = "launched" /\ ~Command.background THEN "wait" ELSE "finish"
    /\ UNCHANGED <<line, cmd, call, state, fds, load, todo, seen>>

\* blocking_wait_for_job, when all processes have ended.
JobEnds ==
    /\ pc = "wait"
    /\ \A n \in DOMAIN Command.calls : state[<<cmd, n>>] = "gone"
    /\ pc' = "finish"
    /\ UNCHANGED <<line, cmd, call, held, state, fds, load, todo, seen>>

(* blocking_wait_for_job, when the processes that have not ended stop.  One*)
(* that is stopped does nothing until it is continued.                     *)
JobStops ==
    /\ pc = "wait"
    /\ pc' = "finish"
    /\ UNCHANGED <<line, cmd, call, held, state, fds, load, todo, seen>>

\* All descriptors of the calls are closed, the standard ones too.
Files_AnyDescriptor(c) == (UNION {CallFds(c.calls[n]) : n \in DOMAIN c.calls}) \ PipeEnds(c)

\* What close_unused_file_descriptors closes: the files of the calls.
Files(c) == (UNION {{fd \in CallFds(c.calls[n]) : fd > 2} : n \in DOMAIN c.calls}) \ PipeEnds(c)

\* The counter of the calls is added to the counter of the commands.
NextCommand_ByCalls(i) == i + Len(line[i].calls)

NextCommand(i) == i + 1

\* The end of execute_command.
CloseFiles ==
    /\ pc = "finish"
    /\ held' = held \ Files(Command)
    /\ cmd' = NextCommand(cmd)
    /\ pc' = "next"
    /\ UNCHANGED <<line, call, state, fds, load, todo, seen>>

(* The steps the shell takes by itself.                                    *)
ShellStep ==
    \/ RunBuiltin \/ RunJob \/ EndLine
    \/ LaunchProgram \/ LaunchFails \/ LaunchBuiltin \/ BuiltinWrites \/ BuiltinReturns
    \/ LaunchDone \/ ClosePipes \/ JobEnds \/ CloseFiles
-----------------------------------------------------------------------------
\* The reader closes its own ends as well.
ReadingEndsClosed_All(c, x) == {c.pipes[k][1] : k \in DOMAIN c.pipes}

\* close_reading_pipes.
ReadingEndsClosed(c, x) == {c.pipes[k][1] : k \in DOMAIN c.pipes \ x.reads}

\* The writer closes its own ends as well.
WritingEndsClosed_All(c, x) == {c.pipes[k][2] : k \in DOMAIN c.pipes}

\* The numbers of the pipes a call reads taken for those it writes.
WritingEndsClosed_ByReads(c, x) == {c.pipes[k][2] : k \in DOMAIN c.pipes \ x.reads}

\* Only the writers close the ends they do not use.
WritingEndsClosed_ByWriters(c, x) == IF x.writes = {} THEN {} ELSE {c.pipes[k][2] : k \in DOMAIN c.pipes \ x.writes}

\* close_writing_pipes.
WritingEndsClosed(c, x) == {c.pipes[k][2] : k \in DOMAIN c.pipes \ x.writes}

(* A child that has answered closes them and starts its program (:182-199).*)
ChildExecs(p) ==
    /\ state[p] = "forked"
    /\ state' = [state EXCEPT ![p] = "running"]
    /\ fds' = [fds EXCEPT ![p] =
                  fds[p] \ (ReadingEndsClosed(line[p[1]], Call(p)) \cup WritingEndsClosed(line[p[1]], Call(p)))]
    /\ UNCHANGED <<line, cmd, call, pc, held, load, todo, seen>>

\* A call of which a program runs, not a builtin.
Runs(p) == state[p] = "running" /\ ~IsBuiltin(p)

(* External: what a program does with its pipes.  One that writes where    *)
(* nobody reads is ended by that, as ProgramEnds may do at any time.       *)
ProgramWrites(p) ==
    /\ Runs(p)
    /\ \E k \in Call(p).writes :
          /\ WriteEnd(<<p[1], k>>) \in fds[p]
          /\ load[<<p[1], k>>] < PipeCapacity
          /\ load' = [load EXCEPT ![<<p[1], k>>] = @ + 1]
    /\ UNCHANGED <<line, cmd, call, pc, held, state, fds, todo, seen>>

ProgramReads(p, k) ==
    /\ Runs(p) /\ k \in Call(p).reads
    /\ ReadEnd(<<p[1], k>>) \in fds[p]
    /\ load[<<p[1], k>>] > 0
    /\ load' = [load EXCEPT ![<<p[1], k>>] = @ - 1]
    /\ UNCHANGED <<line, cmd, call, pc, held, state, fds, todo, seen>>

\* Somebody may still write into the pipe s.
HeldOpen(s) ==
    \/ WriteEnd(s) \in held
    \/ \E p \in CallsOf(line) : WriteEnd(s) \in fds[p]

\* External: read(2) returns 0.
SeesEnd(p) ==
    /\ Runs(p)
    /\ \E k \in Call(p).reads :
          /\ ReadEnd(<<p[1], k>>) \in fds[p]
          /\ load[<<p[1], k>>] = 0
          /\ ~HeldOpen(<<p[1], k>>)
          /\ seen' = seen \cup {<<p[1], k>>}
    /\ UNCHANGED <<line, cmd, call, pc, held, state, fds, load, todo>>

ProgramEnds(p) ==
    /\ state[p] \in {"forked", "running"} /\ ~IsBuiltin(p)
    /\ state' = [state EXCEPT ![p] = "gone"]
    /\ fds' = [fds EXCEPT ![p] = {}]
    /\ UNCHANGED <<line, cmd, call, pc, held, load, todo, seen>>

ChildStep(p) ==
    \/ ChildExecs(p) \/ ProgramWrites(p) \/ SeesEnd(p) \/ ProgramEnds(p)
    \/ \E k \in Call(p).reads : ProgramReads(p, k)
-----------------------------------------------------------------------------
PlumbingInit ==
    /\ line = <<>> /\ cmd = 1 /\ call = 1 /\ pc = "prompt"
    /\ held = Standard
    /\ state = [p \in CallsOf(<<>>) |-> "gone"]
    /\ fds = [p \in CallsOf(<<>>) |-> {}]
    /\ load = [s \in PipesOf(<<>>) |-> 0]
    /\ todo = 0 /\ seen = {}

PlumbingNext ==
    \/ ReadLine \/ ShellStep \/ JobStops
    \/ \E p \in CallsOf(line) : ChildStep(p)

PlumbingSpec == PlumbingInit /\ [][PlumbingNext]_plumbingVars

\* All pipes there may be.
Pipes == UNION {PipesOf(l) : l \in Lines}

(* The shell goes on while it can, a child gets to its program, and        *)
(* programs read what they are sent.  They need not end, nor write, and    *)
(* nobody has to type a line.                                              *)
FairPlumbingSpec ==
    /\ PlumbingSpec
    /\ WF_plumbingVars(ShellStep)
    /\ WF_plumbingVars(\E p \in CallsOf(line) : ChildExecs(p))
    /\ \A s \in Pipes : WF_plumbingVars(\E p \in CallsOf(line) : p[1] = s[1] /\ ProgramReads(p, s[2]))
-----------------------------------------------------------------------------
(* Types.  A command that is not there is never executed.                  *)
PlumbingTypeOK ==
    /\ line \in Lines \cup {<<>>}
    /\ cmd \in 1 .. Len(line) + 1
    /\ pc \in {"prompt", "next", "launch", "write", "launched", "failed", "wait", "finish"}
    /\ call \in Nat \ {0}
    /\ pc \notin {"prompt", "next"} => cmd <= Len(line)
    /\ pc \in {"launch", "write"} => call <= Len(Command.calls) + 1
    /\ pc = "write" => call <= Len(Command.calls) /\ IsBuiltin(Current)
    /\ pc = "prompt" => cmd > Len(line)
    /\ held \subseteq Int
    /\ state \in [CallsOf(line) -> {"waiting", "forked", "running", "gone"}]
    /\ fds \in [CallsOf(line) -> SUBSET Int]
    /\ load \in [PipesOf(line) -> 0 .. PipeCapacity]
    /\ todo \in 0 .. BuiltinOutput
    /\ seen \subseteq PipesOf(line)

(* A program that runs holds, of the pipes of its command, the ends it was *)
(* given and no others, and the files it was given: what it inherited and  *)
(* does not need is closed, what the shell closed before or after the fork *)
(* was not needed (:97-128, :182-183, :287-293, :378-383).                 *)
HoldsItsOwnPipes ==
    \A p \in CallsOf(line) : Runs(p) =>
        /\ fds[p] \cap PipeEnds(line[p[1]]) = OwnEnds(line[p[1]], Call(p))
        /\ Files(line[p[1]]) \cup Standard \subseteq fds[p]

(* The shell keeps what the calls it has still to launch will inherit, and *)
(* for a builtin that writes also the end its output is read from, so that *)
(* it never writes into a broken pipe; it keeps the standard descriptors   *)
(* for itself.  At the prompt it holds nothing else: what the parser opened*)
(* is closed in the end, whatever failed.                                  *)
OpenAsLongAsNeeded ==
    /\ Standard \subseteq held
    /\ pc \in {"launch", "write"} => PipeEnds(Command) \cup Files(Command) \subseteq held
    /\ \A c \in DOMAIN line : c > cmd => Opened(line[c]) \subseteq held
    /\ pc = "prompt" => held = Standard

\* The calls that may still write into a pipe of the line.
Writers(s) == {n \in DOMAIN line[s[1]].calls :
                  s[2] \in line[s[1]].calls[n].writes /\ state[<<s[1], n>>] # "gone"}

(* A reader sees the end of its input only when all who were to write into *)
(* it, the calls not yet launched among them, are gone: at any moment a    *)
(* writer or the shell in its place holds the end to write into            *)
(* (execute_as_job, and the loop that closes the pipes after it).          *)
Abstract == INSTANCE Streams WITH writers <- [s \in PipesOf(line) |-> Writers(s)]
ImplementsStreams == Abstract!StreamsSpec

\* The program that reads the output of the builtin that is running was launched.
ReaderRuns ==
    /\ pc = "write"
    /\ \E n \in DOMAIN Command.calls :
          /\ Command.calls[n].reads \cap Call(Current).writes # {}
          /\ state[<<cmd, n>>] \in {"forked", "running"} /\ ~IsBuiltin(<<cmd, n>>)

\* The builtin that is running has no room to write, and its reader does not run.
Stuck ==
    /\ pc = "write" /\ todo > 0
    /\ \A k \in Call(Current).writes : load[<<cmd, k>>] = PipeCapacity
    /\ ~ReaderRuns

WritersGone(s) == s \in PipesOf(line) /\ Writers(s) = {}
EarlierGone(s) == \A p \in CallsOf(line) : p[1] < s[1] => state[p] = "gone"

(* When the writers of a pipe are gone, and the processes of the earlier   *)
(* commands of the line, the reader gets to see the end, unless the shell  *)
(* is blocked writing the output of a builtin.  It is for the processes of *)
(* the same command to close the ends they inherited, also those of calls  *)
(* that are launched later (:182-183).                                     *)
EndReachesReaders ==
    \A s \in Pipes :
        WritersGone(s) /\ EarlierGone(s) ~> ~(s \in PipesOf(line) /\ HeldOpen(s)) \/ Stuck

(* The same without regard to the earlier commands of the line: "Avant     *)
(* l'exécution d'une commande, on ferme tous les descripteurs de fichiers  *)
(* qui ne sont pas utilisés par la commande", between fork and execvp      *)
(* (ARCHITECTURE.md:97-99, close_reading_pipes and close_writing_pipes).   *)
EndAlwaysReachesReaders ==
    \A s \in Pipes : WritersGone(s) ~> ~(s \in PipesOf(line) /\ HeldOpen(s)) \/ Stuck

(* A builtin of a pipeline gets its output through to a reader that was    *)
(* launched before it, however little the pipe takes at a time, unless the *)
(* reader ends: the shell runs it between two forks (:131-134) and blocks  *)
(* with it.                                                                *)
WritesGetThrough == ReaderRuns ~> ~ReaderRuns
=============================================================================
