------------------------------- MODULE Launch -------------------------------
(***************************************************************************)
(* What the launch of a pipeline of N programs promises: its processes     *)
(* become part of the job one by one, in the order of the calls and in the *)
(* group of the first of them, until all are there or the launch is given  *)
(* up.  This is the grain at which module Shell launches a process.        *)
(***************************************************************************)
EXTENDS Integers

CONSTANT N

VARIABLES
    group,    \* the process group of each process of the job
    outcome   \* "launching", then what became of the launch

LaunchInit ==
    /\ group = [i \in {} |-> i]
    /\ outcome = "launching"

\* Process i joins the job: it is the leader of the group or follows it.
Join(i) ==
    /\ outcome = "launching"
    /\ DOMAIN group = 1 .. i - 1
    /\ group' = [k \in 1 .. i |-> IF k < i THEN group[k] ELSE IF i = 1 THEN i ELSE group[1]]
    /\ outcome' = IF i = N THEN "launched" ELSE "launching"

\* The launch is given up, or the shell dies.
GiveUp ==
    /\ outcome = "launching"
    /\ outcome' \in {"failed", "dead"}
    /\ UNCHANGED group

LaunchNext == GiveUp \/ \E i \in 1 .. N : Join(i)

LaunchSpec == LaunchInit /\ [][LaunchNext]_<<group, outcome>>
=============================================================================
