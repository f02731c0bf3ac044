------------------------------ MODULE MCShell ------------------------------
(* Instances of Shell for TLC.  The cfg files name one of these sets of     *)
(* commands; processes and jobs are interchangeable.                        *)
EXTENDS Shell, TLC

\* Pipelines of two programs, of builtins only, one whose chief is a builtin and
\* one that exit is a call of; one program or builtin on its own.
JobCommands ==
    {<<"program">>, <<"program", "program">>, <<"other", "program">>,
     <<"program", "exit">>, <<"other", "other">>,
     <<"jobs">>, <<"jobs -t">>, <<"exit">>, <<"bg">>, <<"fg">>}

\* Jobs that can be stopped, resumed and waited for.  With three pids and two
\* addresses, a job of two programs next to another one, and launches while a
\* process that no job names is still there.
StopCommands == {<<"program">>, <<"program", "program">>, <<"fg">>, <<"exit">>}

\* What the run about kill %job needs.
KillCommands == {<<"other", "other">>, <<"kill">>, <<"exit">>}

\* What can happen to the one job of the liveness run.
LiveCommands == StopCommands \cup {<<"kill">>}

Symmetry == Permutations(Pids) \cup Permutations(Jobs)
=============================================================================
