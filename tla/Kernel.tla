------------------------------- MODULE Kernel -------------------------------
(***************************************************************************)
(* What jsh sees of the operating system: its child processes with the     *)
(* reports waitpid may return for them, the process groups, and the group  *)
(* in the foreground of the terminal.  Nothing here is code of the         *)
(* repository: it is modelled from the calls src/src makes (fork, setpgid, *)
(* waitpid, kill, tcsetpgrp) and shared by every module about processes.   *)
(*                                                                         *)
(* A child is described by a record: its state, the stop or continue       *)
(* report waitpid has not returned yet, its exit code, its group, and what *)
(* it still has to do before it runs the program it was forked for.        *)
(***************************************************************************)
EXTENDS Integers, FiniteSets

CONSTANTS
    Pids,              \* process identifiers of children (and of groups)
    SHELL,             \* the process group of the shell itself
    ExitCodes,         \* exit codes that processes and builtins return
    MaySpawn,          \* whether children fork processes of their own
    OutsideContinue,   \* whether others than the shell send SIGCONT
    StopsEarly         \* whether a child may be stopped before it runs

ASSUME ShellAssumption == SHELL \notin Pids
ASSUME ExitCodesAssumption == {0, 1} \subseteq ExitCodes

VARIABLES
    proc,   \* the record of every child
    kids,   \* groups with a live member that is not a child of the shell
    tty     \* group in the foreground of the terminal

kernelVars == <<proc, kids, tty>>

Zombies == {"exited", "killed"}

\* A child that has set its group answers the shell, then still has to take
\* the terminal ("fg") and to restore its signals before the exec ("bg").
Process == [st      : {"free", "live", "stopped"} \cup Zombies,
            report  : {"none", "stopped", "continued"},
            code    : ExitCodes,
            grp     : Pids \cup {SHELL},
            prelude : {"none", "fg", "bg"}]

FreeProcess == [st |-> "free", report |-> "none", code |-> 0, grp |-> SHELL, prelude |-> "none"]

NewProcess(g, prelude) ==
    [st |-> "live", report |-> "none", code |-> 0, grp |-> g, prelude |-> prelude]

-----------------------------------------------------------------------------
(* Signals.  SIGSTOP and SIGCONT overwrite the report of one another; any  *)
(* signal that ends a process leaves a zombie.  Signals other than these   *)
(* three may be caught or stay pending, so their effect is left to the     *)
(* steps of the processes.                                                 *)

Signals == {"KILL", "STOP", "CONT", "TERM"}

Dead(r, how, code) ==
    [r EXCEPT !.st = how, !.report = "none", !.code = code, !.prelude = "none"]

Signalled(r, sig) ==
    CASE sig = "KILL" /\ r.st \in {"live", "stopped"} -> Dead(r, "killed", 0)
      [] sig = "STOP" /\ r.st = "live"    -> [r EXCEPT !.st = "stopped", !.report = "stopped"]
      [] sig = "CONT" /\ r.st = "stopped" -> [r EXCEPT !.st = "live", !.report = "continued"]
      [] OTHER -> r

\* kill(-g, 0) succeeds as long as the group has a member, zombies included.
GroupExists(g) == g \in kids \/ \E p \in Pids : proc[p].st # "free" /\ proc[p].grp = g

\* kill(-g, sig)
SignalGroup(g, sig) ==
    /\ proc' = [p \in Pids |-> IF proc[p].grp = g THEN Signalled(proc[p], sig) ELSE proc[p]]
    /\ kids' = IF sig = "KILL" THEN kids \ {g} ELSE kids

\* fork does not return a pid that names a process or a group.
IsFreePid(p) == proc[p].st = "free" /\ ~GroupExists(p)

\* waitpid has something to return for the child: its end, a stop that was
\* not reported, and with WCONTINUED a continuation that was not.
IsReportable(r, wcontinued) ==
    \/ r.st \in Zombies
    \/ r.report = "stopped"
    \/ r.report = "continued" /\ wcontinued

AfterReport(r) == IF r.st \in Zombies THEN FreeProcess ELSE [r EXCEPT !.report = "none"]

-----------------------------------------------------------------------------
(* What happens without the shell.                                         *)

\* The child takes the terminal if its command is in the foreground,
\* restores its signals and runs its program.
ChildRuns(p) ==
    /\ proc[p].st = "live"
    /\ proc[p].prelude # "none"
    /\ tty' = IF proc[p].prelude = "fg" THEN proc[p].grp ELSE tty
    /\ proc' = [proc EXCEPT ![p].prelude = "none"]
    /\ UNCHANGED kids

ChildExits(p, code) ==
    /\ proc[p].st = "live"
    /\ proc[p].prelude = "none"
    /\ proc' = [proc EXCEPT ![p] = Dead(@, "exited", code)]
    /\ UNCHANGED <<kids, tty>>

\* A signal of the keyboard or of another process ends or stops the child.
ChildSignalled(p, sig) ==
    /\ Signalled(proc[p], sig) # proc[p]
    /\ sig = "CONT" => OutsideContinue
    /\ sig = "STOP" => StopsEarly \/ proc[p].prelude = "none"
    /\ proc' = [proc EXCEPT ![p] = Signalled(@, sig)]
    /\ UNCHANGED <<kids, tty>>

\* The child forks a process of its own, which stays in the group.
ChildSpawns(p) ==
    /\ MaySpawn
    /\ proc[p].st = "live"
    /\ proc[p].prelude = "none"
    /\ kids' = kids \cup {proc[p].grp}
    /\ UNCHANGED <<proc, tty>>

KidsEnd(g) ==
    /\ g \in kids
    /\ kids' = kids \ {g}
    /\ UNCHANGED <<proc, tty>>

KernelInit ==
    /\ proc = [p \in Pids |-> FreeProcess]
    /\ kids = {}
    /\ tty = SHELL

KernelNext ==
    \/ \E p \in Pids :
          \/ ChildRuns(p)
          \/ \E code \in ExitCodes : ChildExits(p, code)
          \/ \E sig \in Signals : ChildSignalled(p, sig)
          \/ ChildSpawns(p)
    \/ \E g \in kids : KidsEnd(g)

KernelTypeOK ==
    /\ proc \in [Pids -> Process]
    /\ kids \subseteq Pids \cup {SHELL}
    /\ tty \in Pids \cup {SHELL}
=============================================================================
