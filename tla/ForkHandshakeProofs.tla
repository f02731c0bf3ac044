------------------------ MODULE ForkHandshakeProofs ------------------------
(***************************************************************************)
(* Proofs about the handshake, for pipelines of any length.                *)
(***************************************************************************)
EXTENDS ForkHandshake, TLAPS

-----------------------------------------------------------------------------
(* The inductive invariant: the types, who is in the group, and who holds  *)
(* which end of a pipe.                                                    *)

\* Children that have joined the group.
Joined == {"answering", "terminal", "restoring", "exec", "suspended", "running"}

\* The group is that of the first process; whoever was told it, has joined
\* it, has answered or was launched is right about it.
GroupInv ==
    /\ pgid \in {0, 1}
    /\ call > 1 \/ shell \in {"tell", "listen", "heard"} => pgid = 1
    /\ IF shell = "launched" THEN call = N + 1 ELSE call <= N
    /\ shell = "heard" => group[call] = 1 /\ child[call] # "none"
    /\ \A i \in Children :
          /\ group[i] \in {0, 1}
          /\ child[i] # "none" => i <= call
          /\ sent[i] # 0 => sent[i] = 1 /\ pgid = 1
          /\ child[i] = "joining" => told[i] = 1 /\ pgid = 1
          /\ child[i] \in Joined => group[i] = 1 /\ pgid = 1
          /\ i \in answered => group[i] = 1 /\ child[i] # "none"
          /\ i < call => group[i] = 1 /\ child[i] # "none"

\* The terminal is the shell's until a child of a foreground command takes it.
TerminalInv ==
    /\ tty \in {0, 1}
    /\ background => tty = 0
    /\ \A i \in Children :
          /\ child[i] = "terminal" => ~background
          /\ child[i] \in {"restoring", "exec", "running"} /\ ~background => tty = 1

\* The ends that each process may hold, by where its control is: those of
\* the call being launched for the shell, those of its own call for a child.
ShellMayHold(end) ==
    \/ shell \in {"fork", "close", "give up", "failed"}
    \/ shell = "tell" /\ end \in {"fd[1]", "fd_2[0]"}
    \/ shell \in {"listen", "heard"} /\ end = "fd_2[0]"

ChildMayHold(i, end) ==
    \/ child[i] = "forked"
    \/ child[i] \in {"reading", "joining"} /\ end \in {"fd[0]", "fd_2[1]"}
    \/ child[i] = "answering" /\ end = "fd_2[1]"

EndsInv ==
    \A e \in open :
       \/ e.by = SHELL /\ e.of = call /\ ShellMayHold(e.end)
       \/ e.by \in Children /\ e.of = e.by /\ ChildMayHold(e.by, e.end)

IInv == TypeOK /\ GroupInv /\ TerminalInv /\ EndsInv

-----------------------------------------------------------------------------
(* Lemmas about the operators on descriptors.                              *)

\* A death only removes ends, and changes the control of those who die.
LEMMA Deaths ==
    ASSUME TypeOK, NEW S, Die(S)
    PROVE  /\ open' = {e \in open : e.by \notin S}
           /\ \A i \in Children : child'[i] = child[i] \/ (i \in S /\ child'[i] = "dead")
           /\ \A i \in Children : child'[i] = "none" <=> child[i] = "none"
           /\ \A i \in S : i \in Children => child'[i] \in {"none", "dead"}
           /\ child' \in [Children -> {"none", "forked", "reading", "joining", "answering",
                                       "terminal", "restoring", "exec", "suspended", "running",
                                       "dead"}]
BY DEF Die, EndsOf, Alive, TypeOK

-----------------------------------------------------------------------------
(* The types.                                                              *)

\* The invariant holds before the first pipe is made.
LEMMA InitIInv == Init => IInv
<1> SUFFICES ASSUME Init PROVE IInv
  OBVIOUS
<1>1. TypeOK
  BY NAssumption DEF Init, TypeOK, Children, SHELL, Ends, Over
<1>2. GroupInv
  BY NAssumption DEF Init, GroupInv, Children, SHELL, Joined
<1>3. TerminalInv /\ EndsInv
  BY DEF Init, TerminalInv, EndsInv, SHELL
<1> QED
  BY <1>1, <1>2, <1>3 DEF IInv

\* Closing descriptors, or dying, leaves the others.
LEMMA FewerEnds ==
    ASSUME TypeOK
    PROVE  /\ \A p, i, ends : Closes(p, i, ends) => open' \subseteq open
           /\ ShellDies => open' \subseteq open
BY DEF Closes, ShellDies

\* Every step keeps the types.
LEMMA TypeStep == IInv /\ [Next]_vars => TypeOK'
<1> SUFFICES ASSUME IInv, [Next]_vars PROVE TypeOK'
  OBVIOUS
<1> USE NAssumption
<1>0. TypeOK /\ GroupInv
  BY DEF IInv
<1>a. shell # "launched" => call \in 1 .. N /\ call + 1 \in 1 .. N + 1
  <2>1. call \in 1 .. N + 1 /\ (shell # "launched" => call <= N)
    BY <1>0 DEF TypeOK, GroupInv
  <2> QED
    BY <2>1
<1>b. pgid \in 0 .. N /\ 0 \in 0 .. N /\ group \in [Children -> 0 .. N]
  <2>1. 0 \in 0 .. N
    OBVIOUS
  <2>2. pgid \in 0 .. N /\ group \in [Children -> 0 .. N]
    BY <1>0 DEF TypeOK
  <2> QED
    BY <2>1, <2>2
<1>1. CASE OpenPipes \/ Fork \/ CallFails \/ CloseChildEnds
  <2>1. ASSUME NEW ends \in SUBSET Ends, Opens(ends), shell # "launched"
        PROVE  open' \subseteq [by : 0 .. N, of : Children, end : Ends]
    <3>1. call \in Children /\ SHELL \in 0 .. N
      BY <1>a, <1>b, <2>1 DEF Children, SHELL
    <3>2. [by : {SHELL}, of : {call}, end : ends] \subseteq [by : 0 .. N, of : Children, end : Ends]
      BY <2>1, <3>1
    <3> QED
      BY <1>0, <2>1, <3>2 DEF Opens, TypeOK
  <2>2. CASE Fork
    <3>1. call \in Children /\ call \in 0 .. N
      BY <1>0, <2>2 DEF Fork, TypeOK, GroupInv, Children
    <3>2. ASSUME NEW e \in open
          PROVE  [e EXCEPT !.by = call] \in [by : 0 .. N, of : Children, end : Ends]
      BY <1>0, <3>1 DEF TypeOK
    <3>3. open' \subseteq [by : 0 .. N, of : Children, end : Ends]
      BY <1>0, <2>2, <3>2 DEF Fork, EndsOf, TypeOK
    <3> QED
      BY <1>0, <2>2, <3>3 DEF Fork, TypeOK
  <2>3. CASE CloseChildEnds
    <3>1. call \in 0 .. N
      BY <1>a, <2>3 DEF CloseChildEnds
    <3>2. pgid' \in 0 .. N
      BY <1>b, <2>3, <3>1 DEF CloseChildEnds
    <3> QED
      BY <1>0, <2>3, <3>2, FewerEnds DEF CloseChildEnds, childVars, TypeOK
  <2>4. CASE OpenPipes \/ CallFails
    <3>1. open' \subseteq [by : 0 .. N, of : Children, end : Ends]
      <4>1. Ends \in SUBSET Ends /\ {"fd[0]", "fd[1]"} \in SUBSET Ends
        BY DEF Ends
      <4>2. open \subseteq [by : 0 .. N, of : Children, end : Ends]
        BY <1>0 DEF TypeOK
      <4> QED
        BY <2>1, <2>4, <4>1, <4>2 DEF OpenPipes, CallFails
    <3> QED
      BY <1>0, <2>4, <3>1 DEF OpenPipes, CallFails, childVars, TypeOK
  <2> QED
    BY <1>1, <2>2, <2>3, <2>4
<1>2. CASE TellGroup \/ Listen \/ Launched \/ KillGroup
  <2>1. CASE TellGroup
    BY <1>0, <2>1, FewerEnds DEF TellGroup, ShellDies, childVars, TypeOK, GroupInv, Children, Over
  <2>2. CASE Launched
    <3>1. open' \subseteq open /\ call' \in 1 .. N + 1
      BY <1>0, <1>a, <2>2, FewerEnds DEF Launched
    <3> QED
      BY <1>0, <2>2, <3>1 DEF Launched, childVars, TypeOK, Over
  <2>3. CASE Listen
    <3>1. open' \subseteq open /\ child' \in [Children -> {"none", "forked", "reading", "joining",
                "answering", "terminal", "restoring", "exec", "suspended", "running", "dead"}]
      BY <1>0, <2>3, Deaths DEF Listen, TypeOK
    <3> QED
      BY <1>0, <2>3, <3>1 DEF Listen, TypeOK, Over
  <2>4. CASE KillGroup
    BY <1>0, <2>4, Deaths DEF KillGroup, TypeOK, Over
  <2> QED
    BY <1>2, <2>1, <2>2, <2>3, <2>4
<1>3. ASSUME NEW i \in Children, ChildStep(i) PROVE TypeOK'
  <2>1. CASE CloseShellEnds(i)
    BY <1>0, <2>1 DEF CloseShellEnds, Closes, shellVars, TypeOK, GroupInv
  <2>2. CASE ReadGroup(i)
    <3>1. CASE sent[i] # 0
      <4>1. told' \in [Children -> 0 .. N] /\ sent' \in [Children -> 0 .. N]
        BY <1>0, <1>b, <2>2, <3>1 DEF ReadGroup, TypeOK
      <4> QED
        BY <1>0, <2>2, <3>1, <4>1 DEF ReadGroup, shellVars, TypeOK
    <3>2. CASE sent[i] = 0
      BY <1>0, <2>2, <3>2, Deaths DEF ReadGroup, shellVars, TypeOK
    <3> QED
      BY <3>1, <3>2
  <2>3. CASE JoinGroup(i)
    <3>1. CASE CanJoin(i)
      BY <1>0, <2>3, <3>1, FewerEnds DEF JoinGroup, shellVars, TypeOK
    <3>2. CASE ~CanJoin(i)
      BY <1>0, <2>3, <3>2, Deaths DEF JoinGroup, shellVars, TypeOK
    <3> QED
      BY <3>1, <3>2
  <2>4. CASE Answer(i)
    <3>1. CASE Held(i, "fd_2[0]")
      BY <1>0, <2>4, <3>1, FewerEnds DEF Answer, Following, shellVars, TypeOK
    <3>2. CASE ~Held(i, "fd_2[0]")
      BY <1>0, <2>4, <3>2, Deaths DEF Answer, shellVars, TypeOK
    <3> QED
      BY <3>1, <3>2
  <2>6. CASE TakeTerminal(i) \/ RestoreSignals(i)
    <3>1. Following("terminal") = "restoring" /\ Following("restoring") = "exec"
      BY DEF Following
    <3>2. CASE TakeTerminal(i)
      <4>1. tty' \in 0 .. N
        <5>1. tty \in 0 .. N
          BY <1>0 DEF TypeOK
        <5> QED
          BY <1>b, <3>2, <5>1 DEF TakeTerminal
      <4> QED
        BY <1>0, <3>1, <3>2, <4>1 DEF TakeTerminal, shellVars, pipeVars, TypeOK
    <3>3. CASE RestoreSignals(i)
      BY <1>0, <3>1, <3>3 DEF RestoreSignals, shellVars, pipeVars, TypeOK
    <3> QED
      BY <2>6, <3>2, <3>3
  <2>7. CASE Exec(i)
    BY <1>0, <2>7, Deaths DEF Exec, shellVars, TypeOK
  <2> QED
    BY <1>3, <2>1, <2>2, <2>3, <2>4, <2>6, <2>7 DEF ChildStep
<1>4. CASE Interrupt \/ \E i \in Children : ChildEnds(i)
  BY <1>0, <1>4, Deaths DEF Interrupt, ChildEnds, shellVars, TypeOK
<1>5. CASE ShellKilled \/ UNCHANGED vars
  BY <1>0, <1>5 DEF ShellKilled, ShellDies, EndsOf, vars, shellVars, childVars, pipeVars, TypeOK,
                    Over
<1> QED
  BY <1>1, <1>2, <1>3, <1>4, <1>5 DEF Next, ShellStep

-----------------------------------------------------------------------------
(* The group.                                                              *)

\* What the proofs below need of the types.
Typed ==
    /\ call \in Nat \ {0}
    /\ DOMAIN child = Children /\ DOMAIN told = Children
    /\ DOMAIN group = Children /\ DOMAIN sent = Children
    /\ answered \subseteq Children

\* They follow from the type invariant.
LEMMA TypeOKTyped == TypeOK => Typed
<1> SUFFICES ASSUME TypeOK PROVE Typed
  OBVIOUS
<1>1. call \in Nat \ {0}
  <2>1. call \in 1 .. N + 1
    BY DEF TypeOK
  <2> QED
    BY <2>1, NAssumption
<1>2. /\ DOMAIN child = Children /\ DOMAIN told = Children
      /\ DOMAIN group = Children /\ DOMAIN sent = Children
      /\ answered \subseteq Children
  BY DEF TypeOK
<1> QED
  BY <1>1, <1>2 DEF Typed

\* The deaths of children do not disturb the group: the dead stay in it.
LEMMA DeathsKeepGroup ==
    ASSUME TypeOK, GroupInv, NEW S, Die(S),
           UNCHANGED <<shell, call, pgid, group, sent, told, answered>>
    PROVE  GroupInv'
<1>1. /\ \A k \in Children : child'[k] = child[k] \/ child'[k] = "dead"
      /\ \A k \in Children : child'[k] = "none" <=> child[k] = "none"
  BY Deaths
<1>2. shell = "heard" => group[call] = 1 /\ child'[call] # "none"
  <2>1. call \in 1 .. N + 1
    BY DEF TypeOK
  <2>2. shell = "heard" => call \in Children
    BY <2>1, NAssumption DEF GroupInv, Children
  <2> QED
    BY <1>1, <2>2 DEF GroupInv
<1>3. ASSUME NEW i \in Children
      PROVE  /\ child'[i] # "none" => i <= call
             /\ child'[i] = "joining" => told[i] = 1 /\ pgid = 1
             /\ child'[i] \in Joined => group[i] = 1 /\ pgid = 1
             /\ i \in answered => group[i] = 1 /\ child'[i] # "none"
             /\ i < call => group[i] = 1 /\ child'[i] # "none"
  BY <1>1 DEF GroupInv, Joined
<1> QED
  BY <1>2, <1>3 DEF GroupInv

\* Every step keeps what is known of the group.
LEMMA GroupStep == IInv /\ [Next]_vars => GroupInv'
<1> SUFFICES ASSUME IInv, [Next]_vars PROVE GroupInv'
  OBVIOUS
<1> USE NAssumption DEF Children, SHELL
<1>0. TypeOK /\ Typed /\ GroupInv
  BY TypeOKTyped DEF IInv
<1>1. CASE OpenPipes \/ CallFails
  BY <1>0, <1>1 DEF OpenPipes, CallFails, childVars, GroupInv
<1>2. CASE Fork
  BY <1>0, <1>2 DEF Fork, Typed, GroupInv, Joined
<1>3. CASE CloseChildEnds
  BY <1>0, <1>3 DEF CloseChildEnds, childVars, Typed, GroupInv
<1>4. CASE TellGroup
  <2>1. CASE shell' = "listen" /\ sent' = [sent EXCEPT ![call] = pgid]
    BY <1>0, <1>4, <2>1 DEF TellGroup, childVars, Typed, GroupInv
  <2>2. CASE shell' = "dead" /\ sent' = sent
    BY <1>0, <1>4, <2>2 DEF TellGroup, childVars, Typed, GroupInv
  <2> QED
    BY <1>4, <2>1, <2>2 DEF TellGroup, ShellDies
<1>5. CASE Listen
  <2>1. CASE call \in answered
    BY <1>0, <1>5, <2>1 DEF Listen, Typed, GroupInv
  <2>2. CASE Die({call}) /\ shell' = "give up" /\ answered' = answered
    <3>1. /\ \A i \in Children : child'[i] = child[i] \/ child'[i] = "dead"
          /\ \A i \in Children : child'[i] = "none" <=> child[i] = "none"
      BY <1>0, <2>2, Deaths
    <3> QED
      BY <1>0, <1>5, <2>2, <3>1 DEF Listen, GroupInv, Joined
  <2> QED
    BY <1>5, <2>1, <2>2 DEF Listen
<1>6. CASE Launched
  <2>1. call <= N /\ group[call] = 1 /\ pgid = 1
    BY <1>0, <1>6 DEF Launched, GroupInv
  <2>2. child[call] # "none"
    BY <1>0, <1>6 DEF Launched, GroupInv
  <2> QED
    BY <1>0, <1>6, <2>1, <2>2 DEF Launched, childVars, Typed, GroupInv
<1>7. CASE KillGroup
  <2>1. /\ \A i \in Children : child'[i] = child[i] \/ child'[i] = "dead"
        /\ \A i \in Children : child'[i] = "none" <=> child[i] = "none"
    BY <1>0, <1>7, Deaths DEF KillGroup
  <2> QED
    BY <1>0, <1>7, <2>1 DEF KillGroup, GroupInv, Joined
<1>8. ASSUME NEW i \in Children, ChildStep(i) PROVE GroupInv'
  <2>1. ASSUME NEW S, Die(S), UNCHANGED <<shell, call, pgid, group, sent, told, answered>>
        PROVE  GroupInv'
    BY <1>0, <2>1, DeathsKeepGroup
  <2>2. CASE CloseShellEnds(i)
    BY <1>0, <2>2 DEF CloseShellEnds, shellVars, Typed, GroupInv, Joined
  <2>3. CASE ReadGroup(i)
    <3>1. CASE sent[i] # 0
      BY <1>0, <2>3, <3>1 DEF ReadGroup, shellVars, Typed, GroupInv, Joined
    <3>2. CASE sent[i] = 0
      BY <2>1, <2>3, <3>2 DEF ReadGroup, shellVars
    <3> QED
      BY <3>1, <3>2
  <2>4. CASE JoinGroup(i)
    <3>1. CASE CanJoin(i)
      BY <1>0, <2>4, <3>1 DEF JoinGroup, shellVars, Typed, GroupInv, Joined
    <3>2. CASE ~CanJoin(i)
      BY <2>1, <2>4, <3>2 DEF JoinGroup, shellVars
    <3> QED
      BY <3>1, <3>2
  <2>5. CASE Answer(i)
    <3>1. CASE Held(i, "fd_2[0]")
      <4>1. Following("answering") \in {"terminal", "restoring"}
        BY <1>0 DEF Following, TypeOK
      <4> QED
        BY <1>0, <2>5, <3>1, <4>1 DEF Answer, shellVars, Typed, GroupInv, Joined
    <3>2. CASE ~Held(i, "fd_2[0]")
      BY <2>1, <2>5, <3>2 DEF Answer, shellVars
    <3> QED
      BY <3>1, <3>2
  <2>6. CASE RestoreSignals(i)
    <3>1. Following("restoring") = "exec"
      BY DEF Following
    <3> QED
      BY <1>0, <2>6, <3>1 DEF RestoreSignals, shellVars, pipeVars, Typed, GroupInv, Joined
  <2>7. CASE TakeTerminal(i)
    <3>1. Following("terminal") = "restoring"
      BY DEF Following
    <3> QED
      BY <1>0, <2>7, <3>1 DEF TakeTerminal, shellVars, pipeVars, Typed, GroupInv, Joined
  <2>8. CASE Exec(i)
    <3>1. CASE Die({i})
      BY <2>1, <2>8, <3>1 DEF Exec, shellVars
    <3>2. CASE child' = [child EXCEPT ![i] = "running"]
      BY <1>0, <2>8, <3>2 DEF Exec, shellVars, Typed, GroupInv, Joined
    <3> QED
      BY <2>8, <3>1, <3>2 DEF Exec
  <2> QED
    BY <1>8, <2>2, <2>3, <2>4, <2>5, <2>6, <2>7, <2>8 DEF ChildStep
<1>9. CASE Interrupt \/ \E i \in Children : ChildEnds(i)
  BY <1>0, <1>9, DeathsKeepGroup DEF Interrupt, ChildEnds, shellVars
<1>10. CASE ShellKilled \/ UNCHANGED vars
  BY <1>0, <1>10 DEF ShellKilled, ShellDies, vars, shellVars, childVars, pipeVars, GroupInv, Over
<1> QED
  BY <1>1, <1>2, <1>3, <1>4, <1>5, <1>6, <1>7, <1>8, <1>9, <1>10 DEF Next, ShellStep

-----------------------------------------------------------------------------
(* The terminal.                                                           *)

\* Every step keeps what is known of the terminal.
LEMMA TerminalStep == IInv /\ [Next]_vars => TerminalInv'
<1> SUFFICES ASSUME IInv, [Next]_vars PROVE TerminalInv'
  OBVIOUS
<1>0. TypeOK /\ Typed /\ GroupInv /\ TerminalInv
  BY TypeOKTyped DEF IInv
<1>1. ASSUME UNCHANGED <<background, tty, child>> PROVE TerminalInv'
  BY <1>0, <1>1 DEF TerminalInv
<1>2. ASSUME NEW S, Die(S), UNCHANGED <<background, tty>> PROVE TerminalInv'
  <2>1. \A k \in Children : child'[k] = child[k] \/ child'[k] = "dead"
    BY <1>0, <1>2, Deaths
  <2> QED
    BY <1>0, <1>2, <2>1 DEF TerminalInv
<1>3. CASE ShellStep
  <2>1. CASE Fork
    BY <1>0, <2>1 DEF Fork, Typed, TerminalInv
  <2>2. CASE ~Fork
    BY <1>1, <1>2, <1>3, <2>2
       DEF ShellStep, OpenPipes, CallFails, CloseChildEnds, TellGroup, Listen, Launched, KillGroup,
           childVars
  <2> QED
    BY <2>1, <2>2
<1>4. ASSUME NEW i \in Children, ChildStep(i) PROVE TerminalInv'
  <2>1. CASE CloseShellEnds(i)
    BY <1>0, <2>1 DEF CloseShellEnds, shellVars, Typed, TerminalInv
  <2>2. CASE ReadGroup(i) \/ JoinGroup(i)
    <3>1. CASE Die({i})
      BY <1>2, <2>2, <3>1 DEF ReadGroup, JoinGroup, shellVars
    <3>2. CASE \E step \in {"joining", "answering"} : child' = [child EXCEPT ![i] = step]
      BY <1>0, <2>2, <3>2 DEF ReadGroup, JoinGroup, shellVars, Typed, TerminalInv
    <3> QED
      BY <2>2, <3>1, <3>2 DEF ReadGroup, JoinGroup
  <2>3. CASE Answer(i)
    <3>1. Following("answering") = IF background THEN "restoring" ELSE "terminal"
      BY <1>0 DEF Following, TypeOK
    <3>2. CASE Die({i})
      BY <1>2, <2>3, <3>2 DEF Answer, shellVars
    <3>3. CASE child' = [child EXCEPT ![i] = Following("answering")]
      BY <1>0, <2>3, <3>1, <3>3 DEF Answer, shellVars, Typed, TerminalInv
    <3> QED
      BY <2>3, <3>2, <3>3 DEF Answer
  <2>4. CASE TakeTerminal(i)
    <3>1. Following("terminal") = "restoring"
      BY DEF Following
    <3>2. group[i] = 1 /\ ~background
      BY <1>0, <2>4 DEF TakeTerminal, GroupInv, TerminalInv, Joined
    <3> QED
      BY <1>0, <2>4, <3>1, <3>2 DEF TakeTerminal, shellVars, Typed, TerminalInv
  <2>5. CASE RestoreSignals(i)
    <3>1. Following("restoring") = "exec"
      BY DEF Following
    <3> QED
      BY <1>0, <2>5, <3>1 DEF RestoreSignals, shellVars, Typed, TerminalInv
  <2>6. CASE Exec(i)
    <3>1. CASE Die({i})
      BY <1>2, <2>6, <3>1 DEF Exec, shellVars
    <3>2. CASE child' = [child EXCEPT ![i] = "running"]
      BY <1>0, <2>6, <3>2 DEF Exec, shellVars, Typed, TerminalInv
    <3> QED
      BY <2>6, <3>1, <3>2 DEF Exec
  <2> QED
    BY <1>4, <2>1, <2>2, <2>3, <2>4, <2>5, <2>6 DEF ChildStep
<1>5. CASE Interrupt \/ \E i \in Children : ChildEnds(i)
  BY <1>2, <1>5 DEF Interrupt, ChildEnds, shellVars
<1>6. CASE ShellKilled \/ UNCHANGED vars
  BY <1>1, <1>6 DEF ShellKilled, vars, shellVars, childVars
<1> QED
  BY <1>3, <1>4, <1>5, <1>6 DEF Next

-----------------------------------------------------------------------------
(* The ends of the pipes.                                                  *)

\* Nobody gains an end and no control changes, except towards death.
LEMMA DeathsKeepEnds ==
    ASSUME TypeOK, EndsInv, NEW S, Die(S), S \subseteq Children, call' = call,
           \A end : ShellMayHold(end) => ShellMayHold(end)'
    PROVE  EndsInv'
<1>1. open' = {e \in open : e.by \notin S}
  BY Deaths
<1>2. \A i \in Children : child'[i] = child[i] \/ i \in S
  BY Deaths
<1> QED
  BY <1>1, <1>2 DEF EndsInv, ChildMayHold

\* A child goes on and closes some of its ends.
LEMMA ChildKeepsEnds ==
    ASSUME Typed, EndsInv, NEW i \in Children, NEW step,
           child' = [child EXCEPT ![i] = step], UNCHANGED <<shell, call>>, open' \subseteq open,
           \A e \in open' : e.by = i => ChildMayHold(i, e.end)'
    PROVE  EndsInv'
<1> SUFFICES ASSUME NEW e \in open'
             PROVE  \/ e.by = SHELL /\ e.of = call /\ ShellMayHold(e.end)'
                    \/ e.by \in Children /\ e.of = e.by /\ ChildMayHold(e.by, e.end)'
  BY DEF EndsInv
<1>1. \/ e.by = SHELL /\ e.of = call /\ ShellMayHold(e.end)
      \/ e.by \in Children /\ e.of = e.by /\ ChildMayHold(e.by, e.end)
  BY DEF EndsInv
<1>2. ShellMayHold(e.end) <=> ShellMayHold(e.end)'
  BY DEF ShellMayHold
<1>3. e.by \in Children /\ e.by # i => (ChildMayHold(e.by, e.end) <=> ChildMayHold(e.by, e.end)')
  BY DEF ChildMayHold, Typed
<1> QED
  BY <1>1, <1>2, <1>3

\* Every step keeps what is known of the descriptors.
LEMMA EndsStep == IInv /\ [Next]_vars => EndsInv'
<1> SUFFICES ASSUME IInv, [Next]_vars PROVE EndsInv'
  OBVIOUS
<1>0. TypeOK /\ Typed /\ GroupInv /\ EndsInv
  BY TypeOKTyped DEF IInv
<1>h. SHELL \notin Children
  BY NAssumption DEF SHELL, Children
<1>1. CASE OpenPipes \/ CallFails
  <2>0. ASSUME NEW ends, Opens(ends)
        PROVE  \A e \in open' : e \in open \/ (e.by = SHELL /\ e.of = call)
    BY <2>0 DEF Opens
  <2>1. \A e \in open' : e \in open \/ (e.by = SHELL /\ e.of = call)
    BY <1>1, <2>0 DEF OpenPipes, CallFails
  <2> QED
    BY <1>0, <1>1, <2>1 DEF OpenPipes, CallFails, childVars, EndsInv, ShellMayHold, ChildMayHold
<1>2. CASE Fork
  <2>1. call \in Children
    BY <1>0, <1>2 DEF Fork, Typed, GroupInv, Children
  <2>2. ASSUME NEW e \in open'
        PROVE  e \in open \/ (e.by = call /\ e.of = call)
    <3>1. CASE \E f \in EndsOf({SHELL}) : e = [f EXCEPT !.by = call]
      <4>1. PICK f \in open : f.by = SHELL /\ e = [f EXCEPT !.by = call]
        BY <3>1 DEF EndsOf
      <4>2. f \in [by : 0 .. N, of : Children, end : Ends]
        BY <1>0 DEF TypeOK
      <4> QED
        BY <1>0, <1>h, <4>1, <4>2 DEF EndsInv
    <3> QED
      BY <1>2, <3>1 DEF Fork
  <2> QED
    BY <1>0, <1>2, <2>1, <2>2 DEF Fork, Typed, EndsInv, ShellMayHold, ChildMayHold
<1>3. CASE CloseChildEnds \/ Launched
  <2>1. /\ \A e \in open : e.end \in Ends
        /\ UNCHANGED child
    BY <1>0, <1>3 DEF TypeOK, CloseChildEnds, Launched, childVars
  <2>2. CASE CloseChildEnds
    BY <1>0, <2>1, <2>2 DEF CloseChildEnds, Closes, Ends, EndsInv, ShellMayHold, ChildMayHold
  <2>3. CASE Launched
    BY <1>0, <2>1, <2>3 DEF Launched, Closes, EndsInv, ShellMayHold, ChildMayHold
  <2> QED
    BY <1>3, <2>2, <2>3
<1>4. CASE TellGroup \/ ShellKilled
  <2>1. CASE ShellDies
    BY <1>0, <1>4, <2>1 DEF TellGroup, ShellKilled, ShellDies, EndsOf, childVars, EndsInv,
                            ChildMayHold
  <2>2. CASE TellGroup /\ shell' = "listen" /\ Closes(SHELL, call, {"fd[1]"})
    BY <1>0, <2>2 DEF TellGroup, Closes, childVars, EndsInv, ShellMayHold, ChildMayHold
  <2> QED
    BY <1>4, <2>1, <2>2 DEF TellGroup, ShellKilled
<1>5. CASE Listen
  <2>1. CASE shell' = "heard" /\ UNCHANGED <<child, open>>
    BY <1>0, <1>5, <2>1 DEF Listen, EndsInv, ShellMayHold, ChildMayHold
  <2>2. CASE Die({call}) /\ shell' = "give up"
    <3>1. call \in Children
      <4>1. call <= N /\ call \in Nat \ {0}
        BY <1>0, <1>5 DEF Listen, Typed, GroupInv
      <4> QED
        BY <4>1, NAssumption DEF Children
    <3> QED
      BY <1>0, <1>5, <2>2, <3>1, DeathsKeepEnds DEF Listen, ShellMayHold
  <2> QED
    BY <1>5, <2>1, <2>2 DEF Listen
<1>6. CASE KillGroup
  BY <1>0, <1>6, DeathsKeepEnds DEF KillGroup, ShellMayHold
<1>7. ASSUME NEW i \in Children, ChildStep(i) PROVE EndsInv'
  <2>1. CASE Die({i})
    BY <1>0, <1>7, <2>1, DeathsKeepEnds
       DEF ChildStep, CloseShellEnds, ReadGroup, JoinGroup, Answer, TakeTerminal, RestoreSignals,
           Exec, shellVars, ShellMayHold
  <2>e. /\ \A e \in open : e.end \in Ends /\ (e.by = i => e.of = i /\ ChildMayHold(i, e.end))
        /\ DOMAIN child = Children
    BY <1>0, <1>h DEF TypeOK, Typed, EndsInv
  <2>2. CASE CloseShellEnds(i)
    <3>1. \A e \in open' : e.by = i => ChildMayHold(i, e.end)'
      BY <2>2, <2>e DEF CloseShellEnds, Closes, ChildMayHold, Ends
    <3> QED
      BY <1>0, <2>2, <3>1, ChildKeepsEnds DEF CloseShellEnds, Closes, shellVars
  <2>3. CASE ReadGroup(i) /\ UNCHANGED open
    <3>1. ~Die({i}) => \A e \in open' : e.by = i => ChildMayHold(i, e.end)'
      BY <2>3, <2>e DEF ReadGroup, ChildMayHold
    <3> QED
      BY <1>0, <2>1, <2>3, <3>1, ChildKeepsEnds DEF ReadGroup, shellVars
  <2>4. CASE JoinGroup(i) /\ Closes(i, i, {"fd[0]"})
    <3>1. ~Die({i}) => \A e \in open' : e.by = i => ChildMayHold(i, e.end)'
      BY <2>4, <2>e DEF JoinGroup, Closes, ChildMayHold
    <3> QED
      BY <1>0, <2>1, <2>4, <3>1, ChildKeepsEnds DEF JoinGroup, Closes, shellVars
  <2>5. CASE Answer(i) /\ Closes(i, i, {"fd_2[1]"})
    <3>1. ~Die({i}) => \A e \in open' : e.by = i => ChildMayHold(i, e.end)'
      BY <2>5, <2>e DEF Answer, Closes, ChildMayHold
    <3> QED
      BY <1>0, <2>1, <2>5, <3>1, ChildKeepsEnds DEF Answer, Closes, shellVars
  <2>6. CASE TakeTerminal(i) \/ RestoreSignals(i) \/ Exec(i)
    BY <1>0, <2>1, <2>6 DEF TakeTerminal, RestoreSignals, Exec, shellVars, pipeVars, Typed, EndsInv,
                            ShellMayHold, ChildMayHold
  <2> QED
    BY <1>7, <2>1, <2>2, <2>3, <2>4, <2>5, <2>6 DEF ChildStep, ReadGroup, JoinGroup, Answer
<1>8. CASE Interrupt \/ \E i \in Children : ChildEnds(i)
  BY <1>0, <1>8, DeathsKeepEnds DEF Interrupt, ChildEnds, shellVars, ShellMayHold, TypeOK
<1>9. CASE UNCHANGED vars
  BY <1>0, <1>9 DEF vars, shellVars, childVars, pipeVars, EndsInv, ShellMayHold, ChildMayHold
<1> QED
  BY <1>1, <1>2, <1>3, <1>4, <1>5, <1>6, <1>7, <1>8, <1>9 DEF Next, ShellStep

-----------------------------------------------------------------------------
(* The theorems.                                                           *)

\* The invariant the theorems follow from.
THEOREM Invariant == Spec => []IInv
<1>1. IInv /\ [Next]_vars => IInv'
  BY TypeStep, GroupStep, TerminalStep, EndsStep DEF IInv
<1> QED
  BY <1>1, InitIInv, PTL DEF Spec

\* Every variable keeps its type, the index of the loop and the descriptors
\* of execute_single_command among them.
THEOREM TypeCorrect == Spec => []TypeOK
<1>1. IInv => TypeOK
  BY DEF IInv
<1> QED
  BY <1>1, Invariant, PTL

\* setpgid succeeds in every child that the shell told its group, even when
\* the first process of the pipeline is dead.
THEOREM GroupExists == Spec => []GroupIsThere
<1>1. IInv => GroupIsThere
  <2> SUFFICES ASSUME IInv, NEW i \in Children, child[i] = "joining" PROVE CanJoin(i)
    BY DEF GroupIsThere
  <2>1. GroupInv /\ call \in Nat \ {0}
    BY TypeOKTyped DEF IInv, Typed
  <2>2. told[i] = 1 /\ i <= call
    BY <2>1 DEF GroupInv
  <2>3. CASE i = 1
    BY <2>2, <2>3 DEF CanJoin
  <2>4. CASE i # 1
    <3>1. 1 \in Children /\ 1 < call
      BY <2>1, <2>2, <2>4, NAssumption DEF Children
    <3>2. child[1] # "none" /\ group[1] = 1
      BY <2>1, <3>1 DEF GroupInv
    <3> QED
      BY <2>2, <3>1, <3>2 DEF CanJoin
  <2> QED
    BY <2>3, <2>4
<1> QED
  BY <1>1, Invariant, PTL

\* Whatever dies around it, a program that runs is in the group of its job,
\* and has the terminal if and only if its command is in the foreground.
THEOREM ProgramRunsWhereItShould == Spec => []RunsWhereItShould
<1>1. IInv => RunsWhereItShould
  <2> SUFFICES ASSUME IInv, NEW i \in Children, child[i] = "running"
               PROVE  group[i] = pgid /\ tty = IF background THEN SHELL ELSE pgid
    BY DEF RunsWhereItShould
  <2>1. group[i] = 1 /\ pgid = 1
    BY DEF IInv, GroupInv, Joined
  <2>2. tty = IF background THEN 0 ELSE 1
    BY DEF IInv, TerminalInv
  <2> QED
    BY <2>1, <2>2 DEF SHELL
<1> QED
  BY <1>1, Invariant, PTL

\* No program inherits an end of the pipes of a handshake, its own or that of
\* a sibling, and none is left in the shell after a launch.
THEOREM PipesAreClosed == Spec => []NoEndKept
<1>1. IInv => NoEndKept
  <2> SUFFICES ASSUME IInv PROVE NoEndKept
    OBVIOUS
  <2>1. EndsInv /\ SHELL \notin Children
    BY NAssumption DEF IInv, SHELL, Children
  <2>2. ASSUME NEW i \in Children, child[i] = "running" PROVE EndsOf({i}) = {}
    BY <2>1, <2>2 DEF EndsInv, EndsOf, ChildMayHold
  <2>3. shell = "launched" => EndsOf({SHELL}) = {}
    BY <2>1 DEF EndsInv, EndsOf, ShellMayHold
  <2> QED
    BY <2>2, <2>3 DEF NoEndKept
<1> QED
  BY <1>1, Invariant, PTL

-----------------------------------------------------------------------------
(* The refinement of module Launch.                                        *)

JobGroup == [i \in 1 .. call - 1 |-> group[i]]
Outcome == IF shell \in Over THEN shell ELSE "launching"

\* Every process that is in the job is in the group of the first.
LEMMA OneGroup == IInv => JobGroup = [i \in 1 .. call - 1 |-> 1] /\ call \in Nat \ {0}
<1> SUFFICES ASSUME IInv PROVE JobGroup = [i \in 1 .. call - 1 |-> 1] /\ call \in Nat \ {0}
  OBVIOUS
<1>1. call \in 1 .. N + 1 /\ GroupInv
  BY DEF IInv, TypeOK
<1>2. ASSUME NEW i \in 1 .. call - 1 PROVE group[i] = 1
  <2>1. i \in Children /\ i < call
    BY <1>1, NAssumption DEF Children
  <2> QED
    BY <1>1, <2>1 DEF GroupInv
<1> QED
  BY <1>1, <1>2, NAssumption DEF JobGroup

\* No process is in the job before the first fork.
LEMMA LaunchInit == Init => Abstract!LaunchInit
BY DEF Init, Over, Abstract!LaunchInit

\* Every step is a step of the launch, or leaves the job as it is.
LEMMA LaunchStep ==
    IInv /\ IInv' /\ [Next]_vars => [Abstract!LaunchNext]_<<JobGroup, Outcome>>
<1> SUFFICES ASSUME IInv, IInv', [Next]_vars
             PROVE  [Abstract!LaunchNext]_<<JobGroup, Outcome>>
  OBVIOUS
<1>0. /\ JobGroup = [i \in 1 .. call - 1 |-> 1] /\ call \in Nat \ {0}
      /\ JobGroup' = [i \in 1 .. call' - 1 |-> 1] /\ call' \in Nat \ {0}
  <2>1. (JobGroup = [i \in 1 .. call - 1 |-> 1] /\ call \in Nat \ {0})'
    BY OneGroup, PTL
  <2> QED
    BY OneGroup, <2>1
<1>1. ASSUME UNCHANGED call, shell' = shell \/ (shell \notin Over /\ shell' \notin Over)
      PROVE  UNCHANGED <<JobGroup, Outcome>>
  BY <1>0, <1>1 DEF Outcome
<1>2. ASSUME UNCHANGED call, shell \notin Over, shell' \in {"failed", "dead"}
      PROVE  Abstract!GiveUp
  <2>1. Outcome = "launching" /\ Outcome' = shell' /\ JobGroup' = JobGroup
    BY <1>0, <1>2 DEF Outcome, Over
  <2> QED
    BY <1>2, <2>1 DEF Abstract!GiveUp, Outcome, JobGroup
<1>3. CASE Launched
  <2>1. call \in 1 .. N /\ call' = call + 1
    <3>1. call <= N /\ call' = call + 1
      BY <1>3 DEF Launched, IInv, GroupInv
    <3> QED
      BY <1>0, <3>1, NAssumption
  <2>2. Outcome = "launching" /\ Outcome' = IF call = N THEN "launched" ELSE "launching"
    BY <1>3 DEF Launched, Outcome, Over
  <2>3. JobGroup' = [k \in 1 .. call |-> IF k < call THEN JobGroup[k]
                                         ELSE IF call = 1 THEN call ELSE JobGroup[1]]
    BY <1>0, <2>1, NAssumption
  <2>4. DOMAIN JobGroup = 1 .. call - 1
    BY DEF JobGroup
  <2>5. PICK i \in 1 .. N : i = call
    BY <2>1
  <2>6. Abstract!Join(i)
    BY <2>2, <2>3, <2>4, <2>5 DEF Abstract!Join, Outcome, JobGroup
  <2> QED
    BY <2>6 DEF Abstract!LaunchNext
<1>4. CASE ShellStep /\ ~Launched
  <2>1. CASE ShellDies /\ UNCHANGED call
    BY <1>2, <1>4, <2>1
       DEF ShellStep, ShellDies, OpenPipes, Fork, CallFails, CloseChildEnds, TellGroup,
           Listen, KillGroup, Over, Abstract!LaunchNext
  <2>2. CASE KillGroup
    BY <1>2, <2>2 DEF KillGroup, Over, Abstract!LaunchNext
  <2>3. CASE ~ShellDies /\ ~KillGroup
    BY <1>1, <1>4, <2>3
       DEF ShellStep, OpenPipes, Fork, CallFails, CloseChildEnds, TellGroup,
           Listen, Over
  <2> QED
    BY <1>4, <2>1, <2>2, <2>3 DEF ShellStep, OpenPipes, Fork, CallFails, CloseChildEnds,
                                  TellGroup, Listen
<1>5. CASE (\E i \in Children : ChildStep(i) \/ ChildEnds(i)) \/ Interrupt \/ UNCHANGED vars
  BY <1>1, <1>5 DEF ChildStep, ChildEnds, Interrupt, CloseShellEnds, ReadGroup, JoinGroup, Answer,
                    TakeTerminal, RestoreSignals, Exec, vars, shellVars
<1>6. CASE ShellKilled
  BY <1>2, <1>6 DEF ShellKilled, ShellDies, Abstract!LaunchNext
<1> QED
  BY <1>3, <1>4, <1>5, <1>6 DEF Next

\* The shell goes on to the next process of a pipeline only when the one it
\* forked is in the group of the job.
THEOREM HandshakeImplementsLaunch == Spec => ImplementsLaunch
<1>1. IInv /\ IInv' /\ [Next]_vars => [Abstract!LaunchNext]_<<JobGroup, Outcome>>
  BY LaunchStep
<1> QED
  BY <1>1, LaunchInit, Invariant, PTL
     DEF Spec, ImplementsLaunch, Abstract!LaunchSpec, JobGroup, Outcome
=============================================================================
