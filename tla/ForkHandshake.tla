--------------------------- MODULE ForkHandshake ---------------------------
(***************************************************************************)
(* How jsh forks the processes of a pipeline (execute_single_command and   *)
(* the loop of execute_as_job, src/src/internals.c).  A process must be in *)
(* the group of its job before the shell goes on, so both talk over two    *)
(* pipes: over the first the shell tells the child the group, over the     *)
(* second the child answers that it has joined it.  Every process may die  *)
(* between any two system calls.                                           *)
(*                                                                         *)
(* The calls are programs numbered from 1, a process has the number of its *)
(* call, the shell is process 0 and 0 is its group.  A process that died   *)
(* stays in its group: the shell reaps none of the job while launching it. *)
(***************************************************************************)
EXTENDS Integers

CONSTANTS
    N,         \* number of programs of the pipeline
    MayFail,   \* whether pipe and fork may fail
    MayDie     \* whether processes may be killed from outside

ASSUME NAssumption == N \in Nat \ {0}

Children == 1 .. N
SHELL == 0

VARIABLES
    shell,        \* where the control of the shell is
    call,         \* index of the loop of execute_as_job
    pgid,         \* field pgid of the job
    background,   \* flag of the command
    child,        \* where the control of each child is, "none" before the fork
    told,         \* local variable pgid of each child
    group,        \* process group of each child
    restored,     \* children that have restored their signals
    tty,          \* group in the foreground of the terminal
    open,         \* the ends of the pipes of each call, by the process that holds them
    sent,         \* what the first pipe of each call holds, 0 when empty
    answered      \* calls whose second pipe holds an answer

shellVars == <<shell, call, pgid, background>>
childVars == <<child, told, group, restored, tty>>
pipeVars == <<open, sent, answered>>
vars == <<shellVars, childVars, pipeVars>>

\* The ends of fd and of fd_2.
Ends == {"fd[0]", "fd[1]", "fd_2[0]", "fd_2[1]"}

Alive(i) == child[i] \notin {"none", "dead"}
Over == {"launched", "failed", "dead"}

\* Some process holds this end of a pipe of call i.
Held(i, end) == \E e \in open : e.of = i /\ e.end = end

EndsOf(P) == {e \in open : e.by \in P}
Closes(p, i, ends) == open' = {e \in open : e.by # p \/ e.of # i \/ e.end \notin ends}

\* The children of S die: their descriptors are closed.
Die(S) ==
    /\ child' = [i \in Children |-> IF i \in S /\ Alive(i) THEN "dead" ELSE child[i]]
    /\ open' = open \ EndsOf(S)

ShellDies ==
    /\ shell' = "dead"
    /\ open' = open \ EndsOf({SHELL})

Init ==
    /\ shell = "pipe"
    /\ call = 1
    /\ pgid = 0
    /\ background \in BOOLEAN
    /\ child = [i \in Children |-> "none"]
    /\ told = [i \in Children |-> 0]
    /\ group = [i \in Children |-> SHELL]
    /\ restored = {}
    /\ tty = SHELL
    /\ open = {}
    /\ sent = [i \in Children |-> 0]
    /\ answered = {}

-----------------------------------------------------------------------------
(* The shell.                                                              *)

Opens(ends) == open' = open \cup [by : {SHELL}, of : {call}, end : ends]

OpenPipes ==
    /\ shell = "pipe"
    /\ Opens(Ends)
    /\ shell' = "fork"
    /\ UNCHANGED <<call, pgid, background, childVars, sent, answered>>

\* The child has a copy of every descriptor of the shell.
Fork ==
    /\ shell = "fork"
    /\ child' = [child EXCEPT ![call] = "forked"]
    /\ open' = open \cup {[e EXCEPT !.by = call] : e \in EndsOf({SHELL})}
    /\ shell' = "close"
    /\ UNCHANGED <<call, pgid, background, told, group, restored, tty, sent, answered>>

\* pipe or fork fails; the pipes that are open stay open.
CallFails ==
    /\ MayFail
    /\ \/ shell = "pipe" /\ Opens({"fd[0]", "fd[1]"})
       \/ shell \in {"pipe", "fork"} /\ UNCHANGED open
    /\ shell' = "give up"
    /\ UNCHANGED <<call, pgid, background, childVars, sent, answered>>

\* Mutants: every process leads a group of its own; the shell keeps the end
\* the child answers on.
CloseChildEnds_OwnGroup ==
    /\ shell = "close"
    /\ pgid' = call
    /\ Closes(SHELL, call, {"fd[0]", "fd_2[1]"})
    /\ shell' = "tell"
    /\ UNCHANGED <<call, background, childVars, sent, answered>>
CloseChildEnds_KeepsAnswerEnd ==
    /\ shell = "close"
    /\ pgid' = IF pgid = 0 THEN call ELSE pgid
    /\ Closes(SHELL, call, {"fd[0]"})
    /\ shell' = "tell"
    /\ UNCHANGED <<call, background, childVars, sent, answered>>

\* The first process is the leader of the group, and the ends of the child
\* are closed.
CloseChildEnds ==
    /\ shell = "close"
    /\ pgid' = IF pgid = 0 THEN call ELSE pgid
    /\ Closes(SHELL, call, {"fd[0]", "fd_2[1]"})
    /\ shell' = "tell"
    /\ UNCHANGED <<call, background, childVars, sent, answered>>

\* The group is written and the pipe closed; when nobody can read it SIGPIPE
\* ends the shell.
TellGroup ==
    /\ shell = "tell"
    /\ \/ /\ Held(call, "fd[0]")
          /\ sent' = [sent EXCEPT ![call] = pgid]
          /\ Closes(SHELL, call, {"fd[1]"})
          /\ shell' = "listen"
       \/ /\ ~Held(call, "fd[0]")
          /\ ShellDies
          /\ UNCHANGED sent
    /\ UNCHANGED <<call, pgid, background, childVars, answered>>

\* Mutant: the shell does not wait for the answer.
Listen_NoWait ==
    /\ shell = "listen"
    /\ shell' = "heard"
    /\ UNCHANGED <<call, pgid, background, childVars, pipeVars>>

\* The shell waits for the answer.  When nobody is left to write it, the read
\* returns 0, the child is killed and the launch fails.
Listen ==
    /\ shell = "listen"
    /\ \/ /\ call \in answered
          /\ answered' = answered \ {call}
          /\ shell' = "heard"
          /\ UNCHANGED <<child, open>>
       \/ /\ call \notin answered /\ ~Held(call, "fd_2[1]")
          /\ Die({call})
          /\ shell' = "give up"
          /\ UNCHANGED answered
    /\ UNCHANGED <<call, pgid, background, told, group, restored, tty, sent>>

\* Mutants: the loop runs once too often; the end is not closed.
Launched_OnceMore ==
    /\ shell = "heard"
    /\ Closes(SHELL, call, {"fd_2[0]"})
    /\ call' = call + 1
    /\ shell' = IF call > N THEN "launched" ELSE "pipe"
    /\ UNCHANGED <<pgid, background, childVars, sent, answered>>
Launched_KeepsEnd ==
    /\ shell = "heard"
    /\ call' = call + 1
    /\ shell' = IF call = N THEN "launched" ELSE "pipe"
    /\ UNCHANGED <<pgid, background, childVars, pipeVars>>

\* The process is a subjob of the job; the loop goes on with the next call.
Launched ==
    /\ shell = "heard"
    /\ Closes(SHELL, call, {"fd_2[0]"})
    /\ call' = call + 1
    /\ shell' = IF call = N THEN "launched" ELSE "pipe"
    /\ UNCHANGED <<pgid, background, childVars, sent, answered>>

\* execute_as_job kills the group and the command fails.
KillGroup ==
    /\ shell = "give up"
    /\ Die({i \in Children : pgid # 0 /\ group[i] = pgid})
    /\ shell' = "failed"
    /\ UNCHANGED <<call, pgid, background, told, group, restored, tty, sent, answered>>

ShellStep ==
    \/ OpenPipes \/ Fork \/ CallFails \/ CloseChildEnds
    \/ TellGroup \/ Listen \/ Launched \/ KillGroup

-----------------------------------------------------------------------------
(* The child, between fork and exec.                                       *)

\* Mutant: the child keeps the end the shell writes to.
CloseShellEnds_KeepsWriteEnd(i) ==
    /\ child[i] = "forked"
    /\ Closes(i, i, {"fd_2[0]"})
    /\ child' = [child EXCEPT ![i] = "reading"]
    /\ UNCHANGED <<shellVars, told, group, restored, tty, sent, answered>>

CloseShellEnds(i) ==
    /\ child[i] = "forked"
    /\ Closes(i, i, {"fd[1]", "fd_2[0]"})
    /\ child' = [child EXCEPT ![i] = "reading"]
    /\ UNCHANGED <<shellVars, told, group, restored, tty, sent, answered>>

\* The child waits for its group; it exits when nobody is left to tell it.
ReadGroup(i) ==
    /\ child[i] = "reading"
    /\ \/ /\ sent[i] # 0
          /\ told' = [told EXCEPT ![i] = sent[i]]
          /\ sent' = [sent EXCEPT ![i] = 0]
          /\ child' = [child EXCEPT ![i] = "joining"]
          /\ UNCHANGED open
       \/ /\ sent[i] = 0 /\ ~Held(i, "fd[1]")
          /\ Die({i})
          /\ UNCHANGED <<told, sent>>
    /\ UNCHANGED <<shellVars, group, restored, tty, answered>>

\* A process can be the leader of a new group or join one that exists.
CanJoin(i) ==
    \/ told[i] = i
    \/ \E k \in Children : child[k] # "none" /\ group[k] = told[i]

\* close and setpgid; the child exits when it cannot join the group.
JoinGroup(i) ==
    /\ child[i] = "joining"
    /\ \/ /\ CanJoin(i)
          /\ group' = [group EXCEPT ![i] = told[i]]
          /\ child' = [child EXCEPT ![i] = "answering"]
          /\ Closes(i, i, {"fd[0]"})
       \/ /\ ~CanJoin(i)
          /\ Die({i})
          /\ UNCHANGED group
    /\ UNCHANGED <<shellVars, told, restored, tty, sent, answered>>

\* Mutant: every command takes the terminal.
Following_Foreground(step) ==
    CASE step = "answering" -> "terminal"
      [] step = "terminal"  -> "restoring"
      [] step = "restoring" -> "exec"

\* The order of what is left to do before the program runs.
Following(step) ==
    CASE step = "answering" /\ ~background -> "terminal"
      [] step = "answering" /\ background  -> "restoring"
      [] step = "terminal"                 -> "restoring"
      [] step = "restoring"                -> "exec"

\* The answer is written and the pipe closed; when the shell is gone, writing
\* ends the child.
Answer(i) ==
    /\ child[i] = "answering"
    /\ \/ /\ Held(i, "fd_2[0]")
          /\ answered' = answered \cup {i}
          /\ Closes(i, i, {"fd_2[1]"})
          /\ child' = [child EXCEPT ![i] = Following("answering")]
       \/ /\ ~Held(i, "fd_2[0]")
          /\ Die({i})
          /\ UNCHANGED answered
    /\ UNCHANGED <<shellVars, told, group, restored, tty, sent>>

\* tcsetpgrp by a process in the background raises SIGTTOU, which stops it
\* unless it is ignored.
TakeTerminal(i) ==
    /\ child[i] = "terminal"
    /\ \/ /\ i \notin restored \/ tty = group[i]
          /\ tty' = group[i]
          /\ child' = [child EXCEPT ![i] = Following("terminal")]
       \/ /\ i \in restored /\ tty # group[i]
          /\ child' = [child EXCEPT ![i] = "suspended"]
          /\ UNCHANGED tty
    /\ UNCHANGED <<shellVars, told, group, restored, pipeVars>>

RestoreSignals(i) ==
    /\ child[i] = "restoring"
    /\ restored' = restored \cup {i}
    /\ child' = [child EXCEPT ![i] = Following("restoring")]
    /\ UNCHANGED <<shellVars, told, group, tty, pipeVars>>

\* The program runs, or there is none of that name and the child exits.
Exec(i) ==
    /\ child[i] = "exec"
    /\ \/ child' = [child EXCEPT ![i] = "running"] /\ UNCHANGED open
       \/ Die({i})
    /\ UNCHANGED <<shellVars, told, group, restored, tty, sent, answered>>

ChildStep(i) ==
    \/ CloseShellEnds(i) \/ ReadGroup(i) \/ JoinGroup(i) \/ Answer(i)
    \/ TakeTerminal(i) \/ RestoreSignals(i) \/ Exec(i)
-----------------------------------------------------------------------------
(* What happens to them.                                                   *)

\* A child is killed, or its program ends.
ChildEnds(i) ==
    /\ Alive(i)
    /\ MayDie \/ child[i] = "running"
    /\ Die({i})
    /\ UNCHANGED <<shellVars, told, group, restored, tty, sent, answered>>

\* ^C ends the processes in the foreground that do not ignore it.
Interrupt ==
    /\ tty # SHELL
    /\ Die({i \in restored : group[i] = tty})
    /\ UNCHANGED <<shellVars, told, group, restored, tty, sent, answered>>

ShellKilled ==
    /\ MayDie
    /\ shell \notin Over
    /\ ShellDies
    /\ UNCHANGED <<call, pgid, background, childVars, sent, answered>>

Next ==
    \/ ShellStep
    \/ \E i \in Children : ChildStep(i) \/ ChildEnds(i)
    \/ Interrupt
    \/ ShellKilled

Spec == Init /\ [][Next]_vars

\* Processes that can go on are scheduled; nothing forces one to fail or die.
Fairness ==
    /\ WF_vars(ShellStep)
    /\ \A i \in Children : WF_vars(ChildStep(i))

FairSpec == Spec /\ Fairness

-----------------------------------------------------------------------------
(* Properties.                                                             *)

\* Every variable holds a value of its type.
TypeOK ==
    /\ shell \in {"pipe", "fork", "close", "tell", "listen", "heard", "give up"} \cup Over
    /\ call \in 1 .. N + 1
    /\ pgid \in 0 .. N
    /\ background \in BOOLEAN
    /\ child \in [Children -> {"none", "forked", "reading", "joining", "answering", "terminal",
                               "restoring", "exec", "suspended", "running", "dead"}]
    /\ told \in [Children -> 0 .. N]
    /\ group \in [Children -> 0 .. N]
    /\ restored \subseteq Children
    /\ tty \in 0 .. N
    /\ open \subseteq [by : 0 .. N, of : Children, end : Ends]
    /\ sent \in [Children -> 0 .. N]
    /\ answered \subseteq Children

\* setpgid never fails: when a child is about to join the group, it leads it
\* or somebody is in it already, though that process may be dead by then.
GroupIsThere == \A i \in Children : child[i] = "joining" => CanJoin(i)

\* A program runs in the group of its job, in the foreground exactly if its
\* command is, whatever its siblings do and even if the shell is gone.
RunsWhereItShould ==
    \A i \in Children :
       child[i] = "running" => group[i] = pgid /\ tty = IF background THEN SHELL ELSE pgid

\* The pipes of the handshake are gone with it: a program inherits none of
\* their ends, and the shell keeps none once the pipeline is launched.
NoEndKept ==
    /\ \A i \in Children : child[i] = "running" => EndsOf({i}) = {}
    /\ shell = "launched" => EndsOf({SHELL}) = {}

\* The handshake implements the launch of module Launch: the shell goes on
\* only when the process it forked is in the group of the job.
Abstract == INSTANCE Launch WITH
               group <- [i \in 1 .. call - 1 |-> group[i]],
               outcome <- IF shell \in Over THEN shell ELSE "launching"

ImplementsLaunch == Abstract!LaunchSpec

\* The launch ends: the shell does not wait for a child that is gone.
LaunchEnds == <>(shell \in Over)

\* A child does not wait for ever either: it runs its program or ends, also
\* when the shell dies in the middle of the handshake.
ChildrenDecide ==
    \A i \in Children : child[i] = "forked" ~> child[i] \in {"running", "dead"}
=============================================================================
