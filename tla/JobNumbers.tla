----------------------------- MODULE JobNumbers -----------------------------
(***************************************************************************)
(* What the job table of jsh promises, without arrays or capacities: the   *)
(* jobs under surveillance carry distinct positive numbers, a new job      *)
(* takes the smallest number that is free, and a job keeps its number for  *)
(* as long as it is listed.  JobTable implements this module.              *)
(***************************************************************************)
EXTENDS Integers

CONSTANT Jobs

VARIABLE numbered   \* the listed jobs, as a function from job numbers to jobs

Listed == {numbered[n] : n \in DOMAIN numbered}

NumbersInit == numbered = [n \in {} |-> n]

\* Job j is given the smallest positive number that no listed job carries.
Assign(j) ==
    /\ j \notin Listed
    /\ \E n \in {m + 1 : m \in {0} \cup DOMAIN numbered} \ DOMAIN numbered :
          /\ 1 .. n - 1 \subseteq DOMAIN numbered
          /\ numbered' = [m \in DOMAIN numbered \cup {n} |->
                             IF m = n THEN j ELSE numbered[m]]

\* The job that carries number n leaves the list; the others keep theirs.
Release(n) ==
    /\ n \in DOMAIN numbered
    /\ numbered' = [m \in DOMAIN numbered \ {n} |-> numbered[m]]

\* Every job leaves the list at once.
Clear == numbered' = [n \in {} |-> n]

NumbersNext ==
    \/ \E j \in Jobs : Assign(j)
    \/ \E n \in DOMAIN numbered : Release(n)
    \/ Clear

NumbersSpec == NumbersInit /\ [][NumbersNext]_numbered
=============================================================================
