-------------------------- MODULE WorkingDirProofs --------------------------
(***************************************************************************)
(* Proofs about cd, for any names, places and environment.                 *)
(***************************************************************************)
EXTENDS WorkingDir, TLAPS

\* What each step of cd has established for the next: before it moves, lwd is
\* the place the shell is in, and a shell that has moved has an lwd.
CdInv ==
    /\ pc = "noted" => lwd = cwd
    /\ lwd = NoPath => cwd = Start

IInv == WdTypeOK /\ CdInv

\* The invariant holds when the shell starts.
LEMMA InitIInv == Init => IInv
BY WorkingDirAssumption DEF Init, IInv, WdTypeOK, CdInv, Kinds

\* Every step of the shell and of the others keeps the types.
LEMMA TypeStep == WdTypeOK /\ [Next]_vars => WdTypeOK'
<1> SUFFICES ASSUME WdTypeOK, [Next]_vars PROVE WdTypeOK'
  OBVIOUS
<1> USE WorkingDirAssumption DEF WdTypeOK
<1>1. CASE FreesLiteral \/ ShowPrompt \/ EndOfLine \/ Misused \/ CallPwd \/ PwdPrints
  BY <1>1 DEF FreesLiteral, ShowPrompt, EndOfLine, Misused, CallPwd, PwdPrints
<1>2. CASE CallCd
  <2>1. PICK p \in Destinations :
           IF p # NoPath /\ IsDirectory(Target[p])
           THEN path' = p /\ pc' = "checked" /\ UNCHANGED code
           ELSE code' = 1 /\ UNCHANGED <<pc, path>>
    BY <1>2 DEF CallCd
  <2>2. p \in Names \cup {NoPath}
    BY DEF Destinations
  <2> QED
    BY <1>2, <2>1, <2>2 DEF CallCd
<1>3. CASE NoteLwd
  BY <1>3 DEF NoteLwd, GetcwdFails
<1>4. CASE ChangeDirectory
  <2>1. Target[path] \in Places
    BY <1>4 DEF ChangeDirectory
  <2> QED
    BY <1>4, <2>1 DEF ChangeDirectory
<1>5. ASSUME NEW p \in Places, Change(p) PROVE WdTypeOK'
  BY <1>5 DEF Change, shellVars
<1>6. CASE UNCHANGED vars
  BY <1>6 DEF vars, shellVars
<1> QED
  BY <1>1, <1>2, <1>3, <1>4, <1>5, <1>6 DEF Next

\* And what cd relies on.
LEMMA CdStep == IInv /\ [Next]_vars => CdInv'
<1> SUFFICES ASSUME IInv, [Next]_vars PROVE CdInv'
  OBVIOUS
<1>0. CdInv /\ cwd \in Places
  BY DEF IInv, WdTypeOK
<1>1. CASE FreesLiteral \/ ShowPrompt \/ EndOfLine \/ Misused \/ CallPwd \/ PwdPrints \/ CallCd
  BY <1>0, <1>1 DEF FreesLiteral, ShowPrompt, EndOfLine, Misused, CallPwd, PwdPrints, CallCd, CdInv
<1>2. CASE NoteLwd
  BY <1>0, <1>2, WorkingDirAssumption DEF NoteLwd, CdInv
<1>3. CASE ChangeDirectory
  BY <1>0, <1>3, WorkingDirAssumption DEF ChangeDirectory, CdInv
<1>4. CASE (\E p \in Places : Change(p)) \/ UNCHANGED vars
  BY <1>0, <1>4 DEF Change, vars, shellVars, CdInv
<1> QED
  BY <1>1, <1>2, <1>3, <1>4 DEF Next

\* The invariant the theorems follow from.
THEOREM Invariant == Spec => []IInv
<1>1. IInv /\ [Next]_vars => IInv'
  BY TypeStep, CdStep DEF IInv
<1> QED
  BY <1>1, InitIInv, PTL DEF Spec

\* lwd never holds a link, or a path that does not fit in its PATH_MAX
\* characters, whatever is written after cd.
THEOREM WdTypeCorrect == Spec => []WdTypeOK
BY Invariant, PTL DEF IInv

\* cd - goes somewhere else than the working directory only after a cd that
\* has left it.
THEOREM UnsetLwdMeansStart == Spec => []UnsetMeansStart
<1>1. IInv => UnsetMeansStart
  BY DEF IInv, CdInv, UnsetMeansStart
<1> QED
  BY <1>1, Invariant, PTL

\* cd and cd - exchange the working directory and lwd, although other
\* processes may change the file system in the middle of them.
THEOREM CdExchanges == Spec => CdSwaps
<1> DEFINE Swap == pc = "noted" /\ code' = 0 /\ pc' = "line" =>
                      lwd' = cwd /\ (path = before => cwd' = before)
<1>1. IInv /\ [Next]_vars => [Swap]_vars
  <2> SUFFICES ASSUME IInv, [Next]_vars, pc = "noted", code' = 0, pc' = "line"
               PROVE  lwd' = cwd /\ (path = before => cwd' = before)
    OBVIOUS
  <2>1. ChangeDirectory
    BY DEF Next, FreesLiteral, ShowPrompt, EndOfLine, Misused, CallPwd, PwdPrints, CallCd, NoteLwd,
           Change, vars, shellVars
  <2>2. lwd' = cwd
    BY <2>1 DEF ChangeDirectory, IInv, CdInv
  <2>3. ASSUME path = before PROVE cwd' = before
    <3>1. before \in Places
      BY <2>3 DEF IInv, WdTypeOK
    <3>2. cwd' = Target[path]
      BY <2>1 DEF ChangeDirectory
    <3> QED
      BY <2>3, <3>1, <3>2, WorkingDirAssumption
  <2> QED
    BY <2>2, <2>3
<1> QED
  BY <1>1, Invariant, PTL DEF Spec, CdSwaps
=============================================================================
