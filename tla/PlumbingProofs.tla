--------------------------- MODULE PlumbingProofs ---------------------------
(***************************************************************************)
(* Proofs about Plumbing.  The inductive invariant says what the shell     *)
(* holds, which calls have still to be launched, and what the children     *)
(* hold; that no reader sees the end of its input too early follows from   *)
(* the three together: a call that has still to be launched is one whose   *)
(* pipes the shell holds.                                                  *)
(***************************************************************************)
EXTENDS Plumbing, TLAPS

-----------------------------------------------------------------------------
(* Where the shell is before and after a command has its pipes closed.     *)
BeforePipesClose == {"next", "launch", "write", "launched", "failed"}

(* The shell holds what belongs to the commands to come, and of the one it *)
(* executes what it has not closed.                                        *)
HeldExactly ==
    \A fd : fd \in held <=>
        \/ fd \in Standard
        \/ \E c \in DOMAIN line : c > cmd /\ fd \in Opened(line[c])
        \/ pc \in BeforePipesClose /\ cmd \in DOMAIN line /\ fd \in Opened(Command)
        \/ pc \in {"wait", "finish"} /\ fd \in Files(Command)

\* The calls that the shell has not come to.
ToCome(c, n) ==
    \/ c > cmd
    \/ c = cmd /\ pc = "next"
    \/ c = cmd /\ pc = "launch" /\ n >= call
    \/ c = cmd /\ pc = "write" /\ n > call

(* Exactly these wait, and a builtin runs while the shell is busy with it. *)
InItsPlace(c, n) ==
    /\ state[<<c, n>>] = "waiting" <=> ToCome(c, n)
    /\ IsBuiltin(<<c, n>>) => state[<<c, n>>] # "forked"
    /\ IsBuiltin(<<c, n>>) /\ state[<<c, n>>] = "running" => pc = "write" /\ c = cmd /\ n = call

CallsInPlace == \A c \in DOMAIN line : \A n \in DOMAIN line[c].calls : InItsPlace(c, n)

(* A child holds everything of its command until it closes what it does    *)
(* not need.                                                               *)
ForkedHoldsAll ==
    \A p \in CallsOf(line) : state[p] = "forked" => Opened(line[p[1]]) \cup Standard \subseteq fds[p]

PlumbingInv ==
    /\ PlumbingTypeOK
    /\ HeldExactly
    /\ CallsInPlace
    /\ ForkedHoldsAll
    /\ HoldsItsOwnPipes
-----------------------------------------------------------------------------
(* Lines and commands are what the assumption says.                        *)
LEMMA LineFacts ==
    ASSUME NEW l \in Lines \cup {<<>>}
    PROVE  /\ Len(l) \in Nat /\ DOMAIN l = 1 .. Len(l)
           /\ \A c \in DOMAIN l : IsCommand(l[c])
           /\ \A c, d \in DOMAIN l : c # d => Opened(l[c]) \cap Opened(l[d]) = {}
<1>1. CASE l = <<>>
  BY <1>1
<1>2. CASE l \in Lines
  BY <1>2, LinesAssumption
<1> QED
  BY <1>1, <1>2

(* The pipes and the files of a command are apart and make up all it has.  *)
LEMMA CommandFacts ==
    ASSUME NEW c, IsCommand(c)
    PROVE  /\ Opened(c) = PipeEnds(c) \cup Files(c)
           /\ PipeEnds(c) \cap Files(c) = {}
           /\ Opened(c) \cap Standard = {}
           /\ Opened(c) \subseteq Int
<1>1. PipeEnds(c) \subseteq Nat \ Standard
  BY DEF IsCommand, PipeEnds
<1>2. \A n \in DOMAIN c.calls : CallFds(c.calls[n]) \subseteq Nat
  BY DEF IsCommand
<1>3. \A fd \in Nat : fd > 2 <=> fd \notin Standard
  BY DEF Standard
<1> DEFINE Own(n) == {fd \in CallFds(c.calls[n]) : fd > 2}
<1>4. \A n \in DOMAIN c.calls : Own(n) = CallFds(c.calls[n]) \ Standard
  BY <1>2, <1>3
<1>5. UNION {Own(n) : n \in DOMAIN c.calls} = (UNION {CallFds(c.calls[n]) : n \in DOMAIN c.calls}) \ Standard
  BY <1>4
<1>6. Files(c) = ((UNION {CallFds(c.calls[n]) : n \in DOMAIN c.calls}) \ Standard) \ PipeEnds(c)
  BY <1>5 DEF Files
<1>7. UNION {CallFds(c.calls[n]) : n \in DOMAIN c.calls} \subseteq Nat
  BY <1>2
<1> QED
  BY <1>1, <1>6, <1>7 DEF Opened

(* A call that uses no end of a pipe closes it, and no other.              *)
LEMMA EndsClosed ==
    ASSUME NEW c, IsCommand(c), NEW n \in DOMAIN c.calls
    PROVE  LET closed == ReadingEndsClosed(c, c.calls[n]) \cup WritingEndsClosed(c, c.calls[n]) IN
           /\ closed \subseteq PipeEnds(c)
           /\ PipeEnds(c) \ closed = OwnEnds(c, c.calls[n])
<1> DEFINE x == c.calls[n]
<1>1. x.reads \subseteq DOMAIN c.pipes /\ x.writes \subseteq DOMAIN c.pipes
  BY DEF IsCommand
<1>2. \A j, k \in DOMAIN c.pipes :
         /\ c.pipes[j][1] # c.pipes[k][2]
         /\ c.pipes[j][1] = c.pipes[k][1] => j = k
         /\ c.pipes[j][2] = c.pipes[k][2] => j = k
  BY DEF IsCommand
<1> QED
  BY <1>1, <1>2 DEF PipeEnds, OwnEnds, ReadingEndsClosed, WritingEndsClosed

LEMMA CallsOfPairs ==
    ASSUME NEW l
    PROVE  /\ \A c \in DOMAIN l : \A n \in DOMAIN l[c].calls : <<c, n>> \in CallsOf(l)
           /\ \A p \in CallsOf(l) : /\ p = <<p[1], p[2]>>
                                    /\ p[1] \in DOMAIN l /\ p[2] \in DOMAIN l[p[1]].calls
BY DEF CallsOf

LEMMA PipesOfPairs ==
    ASSUME NEW l
    PROVE  /\ \A c \in DOMAIN l : \A k \in DOMAIN l[c].pipes : <<c, k>> \in PipesOf(l)
           /\ \A s \in PipesOf(l) : /\ s = <<s[1], s[2]>>
                                    /\ s[1] \in DOMAIN l /\ s[2] \in DOMAIN l[s[1]].pipes
BY DEF PipesOf

(* The command that is executed is one.                                    *)
LEMMA CurrentCommand ==
    ASSUME PlumbingTypeOK, cmd <= Len(line)
    PROVE  /\ cmd \in DOMAIN line /\ IsCommand(Command)
           /\ cmd \in Nat \ {0} /\ Len(line) \in Nat
           /\ Len(Command.calls) \in Nat \ {0} /\ DOMAIN Command.calls = 1 .. Len(Command.calls)
           /\ \A n \in DOMAIN Command.calls : <<cmd, n>> \in CallsOf(line)
<1>1. line \in Lines \cup {<<>>} /\ cmd \in 1 .. Len(line) + 1
  BY DEF PlumbingTypeOK
<1>2. Len(line) \in Nat /\ DOMAIN line = 1 .. Len(line) /\ \A c \in DOMAIN line : IsCommand(line[c])
  BY <1>1, LineFacts
<1>3. cmd \in DOMAIN line /\ IsCommand(Command) /\ cmd \in Nat \ {0}
  BY <1>1, <1>2 DEF Command
<1>4. Len(Command.calls) \in Nat \ {0} /\ DOMAIN Command.calls = 1 .. Len(Command.calls)
  BY <1>3 DEF IsCommand
<1> QED
  BY <1>2, <1>3, <1>4, CallsOfPairs DEF Command
-----------------------------------------------------------------------------
(* Before the first line there is no call and no pipe.                     *)
LEMMA TypeInit == PlumbingInit => PlumbingTypeOK
<1> SUFFICES ASSUME PlumbingInit PROVE PlumbingTypeOK
  OBVIOUS
<1>1. CallsOf(<<>>) = {} /\ PipesOf(<<>>) = {}
  BY DEF CallsOf, PipesOf
<1> QED
  BY <1>1, CapacityAssumption DEF PlumbingInit, PlumbingTypeOK, Standard

LEMMA TypeStep ==
    ASSUME PlumbingTypeOK, [PlumbingNext]_plumbingVars
    PROVE  PlumbingTypeOK'
<1> USE DEF PlumbingTypeOK
<1>1. CASE ReadLine
  <2> PICK l \in Lines :
        /\ line' = l
        /\ held' = held \cup UNION {Opened(l[c]) : c \in DOMAIN l}
        /\ state' = [p \in CallsOf(l) |-> "waiting"]
        /\ fds' = [p \in CallsOf(l) |-> {}]
        /\ load' = [s \in PipesOf(l) |-> 0]
    BY <1>1 DEF ReadLine
  <2>1. Len(l) \in Nat /\ DOMAIN l = 1 .. Len(l) /\ \A c \in DOMAIN l : Opened(l[c]) \subseteq Int
    BY LineFacts, CommandFacts
  <2>2. pc' = "next" /\ cmd' = 1 /\ call' = 1 /\ seen' = {} /\ todo' = todo
    BY <1>1 DEF ReadLine
  <2>3. held' \subseteq Int
    BY <2>1
  <2>4. load' \in [PipesOf(l) -> 0 .. PipeCapacity]
    BY CapacityAssumption
  <2> QED
    BY <2>1, <2>2, <2>3, <2>4
<1>2. CASE RunBuiltin
  <2> USE <1>2 DEF RunBuiltin
  <2>1. <<cmd, 1>> \in CallsOf(line)
    BY CurrentCommand
  <2> QED
    BY <2>1, CurrentCommand DEF Command
<1>3. CASE RunJob
  BY <1>3, CurrentCommand DEF RunJob, Command
<1>4. CASE EndLine
  BY <1>4 DEF EndLine
<1>5. CASE LaunchProgram
  <2> USE <1>5 DEF LaunchProgram
  <2>1. Current \in CallsOf(line) /\ call + 1 \in Nat \ {0} /\ call + 1 <= Len(Command.calls) + 1 /\ cmd <= Len(line)
    BY CurrentCommand DEF Current
  <2> QED
    BY <2>1 DEF Command
<1>6. CASE LaunchFails
  BY <1>6 DEF LaunchFails
<1>7. CASE LaunchBuiltin
  <2> USE <1>7 DEF LaunchBuiltin
  <2>1. Current \in CallsOf(line) /\ cmd <= Len(line)
    BY CurrentCommand DEF Current
  <2>2. todo' \in 0 .. BuiltinOutput
    BY CapacityAssumption
  <2>3. IsBuiltin(Current)' /\ Current' = Current /\ Command' = Command
    BY DEF IsBuiltin, Current, Command, Call
  <2> QED
    BY <2>1, <2>2, <2>3 DEF Command
<1>8. CASE BuiltinWrites
  <2> USE <1>8 DEF BuiltinWrites
  <2>1. todo' \in 0 .. BuiltinOutput
    BY CapacityAssumption
  <2>2. load' \in [PipesOf(line) -> 0 .. PipeCapacity]
    <3> PICK k \in Call(Current).writes : load[<<cmd, k>>] < PipeCapacity /\ load' = [load EXCEPT ![<<cmd, k>>] = @ + 1]
      OBVIOUS
    <3>1. load \in [PipesOf(line) -> 0 .. PipeCapacity]
      OBVIOUS
    <3>2. <<cmd, k>> \in PipesOf(line) => load[<<cmd, k>>] + 1 \in 0 .. PipeCapacity
      BY <3>1, CapacityAssumption
    <3> QED
      BY <3>1, <3>2
  <2>3. IsBuiltin(Current)' = IsBuiltin(Current) /\ Command' = Command
    BY DEF IsBuiltin, Current, Command, Call
  <2> QED
    BY <2>1, <2>2, <2>3
<1>9. CASE BuiltinReturns
  <2> USE <1>9 DEF BuiltinReturns
  <2>1. Current \in CallsOf(line) /\ call + 1 \in Nat \ {0} /\ call + 1 <= Len(Command.calls) + 1 /\ cmd <= Len(line)
    BY CurrentCommand DEF Current
  <2> QED
    BY <2>1 DEF Command
<1>10. CASE LaunchDone
  BY <1>10 DEF LaunchDone
<1>11. CASE ClosePipes
  BY <1>11 DEF ClosePipes
<1>12. CASE JobEnds
  BY <1>12 DEF JobEnds
<1>13. CASE CloseFiles
  <2> USE <1>13 DEF CloseFiles, NextCommand
  <2>1. cmd + 1 \in 1 .. Len(line) + 1
    BY CurrentCommand
  <2> QED
    BY <2>1
<1>14. CASE JobStops
  BY <1>14 DEF JobStops
<1>15. ASSUME NEW p \in CallsOf(line), ChildStep(p)
       PROVE  PlumbingTypeOK'
  <2>1. /\ UNCHANGED <<line, cmd, call, pc, held, todo>>
        /\ state' \in [CallsOf(line) -> {"waiting", "forked", "running", "gone"}]
    BY <1>15 DEF ChildStep, ChildExecs, ProgramWrites, ProgramReads, SeesEnd, ProgramEnds
  <2>2. fds' \in [CallsOf(line) -> SUBSET Int]
    BY <1>15 DEF ChildStep, ChildExecs, ProgramWrites, ProgramReads, SeesEnd, ProgramEnds
  <2>3. load' \in [PipesOf(line) -> 0 .. PipeCapacity]
    <3>1. load \in [PipesOf(line) -> 0 .. PipeCapacity]
      OBVIOUS
    <3>2. CASE ProgramWrites(p)
      <4> PICK k : load[<<p[1], k>>] < PipeCapacity /\ load' = [load EXCEPT ![<<p[1], k>>] = @ + 1]
        BY <3>2 DEF ProgramWrites
      <4>1. <<p[1], k>> \in PipesOf(line) => load[<<p[1], k>>] + 1 \in 0 .. PipeCapacity
        BY <3>1, CapacityAssumption
      <4> QED
        BY <3>1, <4>1
    <3>3. ASSUME NEW k, ProgramReads(p, k)
          PROVE  load' \in [PipesOf(line) -> 0 .. PipeCapacity]
      <4>1. load[<<p[1], k>>] > 0 /\ load' = [load EXCEPT ![<<p[1], k>>] = @ - 1]
        BY <3>3 DEF ProgramReads
      <4>2. <<p[1], k>> \in PipesOf(line) => load[<<p[1], k>>] - 1 \in 0 .. PipeCapacity
        BY <3>1, <4>1, CapacityAssumption
      <4> QED
        BY <3>1, <4>1, <4>2
    <3>4. CASE ChildExecs(p) \/ SeesEnd(p) \/ ProgramEnds(p)
      BY <3>4 DEF ChildExecs, SeesEnd, ProgramEnds
    <3> QED
      BY <1>15, <3>2, <3>3, <3>4 DEF ChildStep
  <2>4. seen' \subseteq PipesOf(line)
    <3>1. CASE SeesEnd(p)
      <4>1. p[1] \in DOMAIN line /\ p[2] \in DOMAIN line[p[1]].calls /\ IsCommand(line[p[1]])
        BY CallsOfPairs, LineFacts
      <4>2. Call(p).reads \subseteq DOMAIN line[p[1]].pipes
        BY <4>1 DEF Call, IsCommand
      <4>3. \A k \in Call(p).reads : <<p[1], k>> \in PipesOf(line)
        BY <4>1, <4>2, PipesOfPairs
      <4> QED
        BY <3>1, <4>3 DEF SeesEnd
    <3>2. CASE ~SeesEnd(p)
      BY <1>15, <3>2 DEF ChildStep, ChildExecs, ProgramWrites, ProgramReads, ProgramEnds
    <3> QED
      BY <3>1, <3>2
  <2>5. IsBuiltin(Current)' = IsBuiltin(Current) /\ Command' = Command
    BY <2>1 DEF IsBuiltin, Current, Command, Call
  <2> QED
    BY <2>1, <2>2, <2>3, <2>4, <2>5
<1>16. CASE UNCHANGED plumbingVars
  <2>1. IsBuiltin(Current)' = IsBuiltin(Current) /\ Command' = Command
    BY <1>16 DEF IsBuiltin, Current, Command, Call, plumbingVars
  <2> QED
    BY <1>16, <2>1 DEF plumbingVars
<1> QED
  BY <1>1, <1>2, <1>3, <1>4, <1>5, <1>6, <1>7, <1>8, <1>9, <1>10, <1>11, <1>12, <1>13, <1>14, <1>15, <1>16
     DEF PlumbingNext, ShellStep

(* Theorem: the variables of Plumbing keep their types, whatever lines are *)
(* read and whatever fails.                                                *)
THEOREM PlumbingTypeCorrect == PlumbingSpec => []PlumbingTypeOK
<1>1. PlumbingInit => PlumbingTypeOK
  BY TypeInit
<1>2. PlumbingTypeOK /\ [PlumbingNext]_plumbingVars => PlumbingTypeOK'
  BY TypeStep
<1> QED
  BY <1>1, <1>2, PTL DEF PlumbingSpec
-----------------------------------------------------------------------------
(* What the shell holds.                                                   *)
LEMMA HeldStep ==
    ASSUME PlumbingTypeOK, HeldExactly, [PlumbingNext]_plumbingVars
    PROVE  HeldExactly'
<1>1. /\ Len(line) \in Nat /\ DOMAIN line = 1 .. Len(line) /\ cmd \in 1 .. Len(line) + 1
      /\ \A c \in DOMAIN line : IsCommand(line[c])
      /\ \A c, d \in DOMAIN line : c # d => Opened(line[c]) \cap Opened(line[d]) = {}
  BY LineFacts DEF PlumbingTypeOK
<1>2. pc \notin {"prompt", "next"} => cmd \in DOMAIN line
  BY <1>1 DEF PlumbingTypeOK
<1>3. CASE ReadLine
  <2> PICK l \in Lines : line' = l /\ held' = held \cup UNION {Opened(l[c]) : c \in DOMAIN l}
    BY <1>3 DEF ReadLine
  <2>1. pc = "prompt" /\ pc' = "next" /\ cmd' = 1
    BY <1>3 DEF ReadLine
  <2>2. Len(l) \in Nat /\ DOMAIN l = 1 .. Len(l)
    BY LineFacts
  <2>3. held = Standard
    <3>1. cmd > Len(line)
      BY <2>1 DEF PlumbingTypeOK
    <3>2. \A c \in DOMAIN line : ~(c > cmd)
      BY <1>1, <3>1
    <3> QED
      BY <2>1, <3>2 DEF HeldExactly, BeforePipesClose
  <2>4. \A fd : fd \in held' <=> fd \in Standard \/ \E c \in DOMAIN l : fd \in Opened(l[c])
    BY <2>3
  <2>5. \A c \in DOMAIN l : c > 1 \/ (c = 1 /\ 1 \in DOMAIN l)
    BY <2>2
  <2> QED
    BY <2>1, <2>4, <2>5 DEF HeldExactly, Command, BeforePipesClose
<1>4. CASE RunBuiltin
  <2>1. IsCommand(Command) /\ cmd \in DOMAIN line
    BY <1>4, CurrentCommand DEF RunBuiltin
  <2>2. PipeEnds(Command) = {}
    BY <1>4, <2>1 DEF RunBuiltin, IsCommand, PipeEnds
  <2>3. Opened(Command) = Files(Command)
    BY <2>1, <2>2, CommandFacts
  <2> QED
    BY <1>4, <2>1, <2>3 DEF RunBuiltin, HeldExactly, Command, BeforePipesClose
<1>5. CASE EndLine
  BY <1>1, <1>5 DEF EndLine, HeldExactly, Command, BeforePipesClose
<1>6. CASE ClosePipes
  <2>1. IsCommand(Command) /\ cmd \in DOMAIN line
    BY <1>1, <1>2, <1>6 DEF ClosePipes, Command
  <2>2. /\ Opened(Command) = PipeEnds(Command) \cup Files(Command)
        /\ PipeEnds(Command) \cap Files(Command) = {}
        /\ Opened(Command) \cap Standard = {}
    BY <2>1, CommandFacts
  <2>3. \A c \in DOMAIN line : c > cmd => Opened(line[c]) \cap PipeEnds(Command) = {}
    BY <1>1, <2>1, <2>2 DEF Command
  <2> QED
    BY <1>6, <2>1, <2>2, <2>3 DEF ClosePipes, HeldExactly, Command, BeforePipesClose
<1>7. CASE CloseFiles
  <2>1. IsCommand(Command) /\ cmd \in DOMAIN line
    BY <1>1, <1>2, <1>7 DEF CloseFiles, Command
  <2>2. Files(Command) \subseteq Opened(Command) /\ Opened(Command) \cap Standard = {}
    BY <2>1, CommandFacts
  <2>3. \A c \in DOMAIN line : c > cmd => Opened(line[c]) \cap Files(Command) = {}
    BY <1>1, <2>1, <2>2 DEF Command
  <2>4. \A c \in DOMAIN line : c > cmd <=> c > cmd + 1 \/ c = cmd + 1
    BY <1>1
  <2>5. \A fd : fd \in held' <=> fd \in Standard \/ \E c \in DOMAIN line : c > cmd /\ fd \in Opened(line[c])
    BY <1>7, <2>2, <2>3 DEF CloseFiles, HeldExactly, BeforePipesClose
  <2> QED
    BY <1>7, <2>4, <2>5 DEF CloseFiles, NextCommand, HeldExactly, Command, BeforePipesClose
<1>8. CASE RunJob \/ LaunchProgram \/ LaunchFails \/ LaunchBuiltin \/ BuiltinWrites \/ BuiltinReturns \/ LaunchDone
  <2>1. UNCHANGED <<line, cmd, held>> /\ pc \in BeforePipesClose /\ pc' \in BeforePipesClose
    BY <1>8 DEF RunJob, LaunchProgram, LaunchFails, LaunchBuiltin, BuiltinWrites, BuiltinReturns, LaunchDone, BeforePipesClose
  <2> QED
    BY <2>1 DEF HeldExactly, Command, BeforePipesClose
<1>9. CASE JobEnds \/ JobStops
  BY <1>9 DEF JobEnds, JobStops, HeldExactly, Command, BeforePipesClose
<1>10. ASSUME NEW p \in CallsOf(line), ChildStep(p)
       PROVE  HeldExactly'
  <2>1. UNCHANGED <<line, cmd, pc, held>>
    BY <1>10 DEF ChildStep, ChildExecs, ProgramWrites, ProgramReads, SeesEnd, ProgramEnds
  <2> QED
    BY <2>1 DEF HeldExactly, Command
<1>11. CASE UNCHANGED plumbingVars
  BY <1>11 DEF plumbingVars, HeldExactly, Command
<1> QED
  BY <1>3, <1>4, <1>5, <1>6, <1>7, <1>8, <1>9, <1>10, <1>11 DEF PlumbingNext, ShellStep

(* Which calls wait.                                                       *)
LEMMA WaitingStep ==
    ASSUME PlumbingTypeOK, CallsInPlace, [PlumbingNext]_plumbingVars
    PROVE  CallsInPlace'
<1>1. /\ Len(line) \in Nat /\ DOMAIN line = 1 .. Len(line) /\ cmd \in 1 .. Len(line) + 1 /\ call \in Nat
      /\ \A c \in DOMAIN line : DOMAIN line[c].calls = 1 .. Len(line[c].calls) /\ Len(line[c].calls) \in Nat
      /\ state \in [CallsOf(line) -> {"waiting", "forked", "running", "gone"}]
  BY LineFacts DEF PlumbingTypeOK, IsCommand
<1>2. \A c \in DOMAIN line : \A n \in DOMAIN line[c].calls : <<c, n>> \in CallsOf(line) /\ InItsPlace(c, n)
  BY CallsOfPairs DEF CallsInPlace
<1>3. line' = line => \A p : IsBuiltin(p)' <=> IsBuiltin(p)
  BY DEF IsBuiltin, Call
<1>4. ASSUME line' = line, \A c \in DOMAIN line : \A n \in DOMAIN line[c].calls : InItsPlace(c, n)'
      PROVE  CallsInPlace'
  BY <1>4 DEF CallsInPlace
<1>5. CASE ReadLine
  <2> PICK l \in Lines : line' = l /\ state' = [p \in CallsOf(l) |-> "waiting"]
    BY <1>5 DEF ReadLine
  <2>1. pc' = "next" /\ cmd' = 1
    BY <1>5 DEF ReadLine
  <2>2. DOMAIN l = 1 .. Len(l) /\ Len(l) \in Nat
    BY LineFacts
  <2>3. \A c \in DOMAIN l : \A n \in DOMAIN l[c].calls : <<c, n>> \in CallsOf(l)
    BY CallsOfPairs
  <2>4. \A c \in DOMAIN l : c > 1 \/ c = 1
    BY <2>2
  <2> QED
    BY <2>1, <2>3, <2>4 DEF CallsInPlace, InItsPlace, ToCome
<1>6. CASE RunBuiltin
  <2> SUFFICES ASSUME NEW c \in DOMAIN line, NEW n \in DOMAIN line[c].calls PROVE InItsPlace(c, n)'
    BY <1>4, <1>6 DEF RunBuiltin
  <2>1. InItsPlace(c, n) /\ <<c, n>> \in CallsOf(line) /\ c \in Nat /\ n \in Nat /\ cmd \in Nat /\ call \in Nat
    BY <1>1, <1>2
  <2>2. c = cmd => n = 1
    BY <1>1, <1>6 DEF RunBuiltin, Command
  <2> QED
    BY <1>1, <1>3, <1>6, <2>1, <2>2 DEF RunBuiltin, InItsPlace, ToCome
<1>7. CASE RunJob
  <2> SUFFICES ASSUME NEW c \in DOMAIN line, NEW n \in DOMAIN line[c].calls PROVE InItsPlace(c, n)'
    BY <1>4, <1>7 DEF RunJob
  <2>1. InItsPlace(c, n) /\ <<c, n>> \in CallsOf(line) /\ c \in Nat /\ n \in Nat /\ cmd \in Nat /\ call \in Nat
    BY <1>1, <1>2
  <2> QED
    BY <1>1, <1>3, <1>7, <2>1 DEF RunJob, InItsPlace, ToCome
<1>8. CASE EndLine
  <2> SUFFICES ASSUME NEW c \in DOMAIN line, NEW n \in DOMAIN line[c].calls PROVE InItsPlace(c, n)'
    BY <1>4, <1>8 DEF EndLine
  <2>1. InItsPlace(c, n) /\ <<c, n>> \in CallsOf(line) /\ c \in Nat /\ n \in Nat /\ cmd \in Nat /\ call \in Nat
    BY <1>1, <1>2
  <2> QED
    BY <1>1, <1>3, <1>8, <2>1 DEF EndLine, InItsPlace, ToCome
<1>9. CASE LaunchProgram
  <2> SUFFICES ASSUME NEW c \in DOMAIN line, NEW n \in DOMAIN line[c].calls PROVE InItsPlace(c, n)'
    BY <1>4, <1>9 DEF LaunchProgram
  <2>1. InItsPlace(c, n) /\ <<c, n>> \in CallsOf(line) /\ c \in Nat /\ n \in Nat /\ cmd \in Nat /\ call \in Nat
    BY <1>1, <1>2
  <2> QED
    BY <1>1, <1>3, <1>9, <2>1 DEF LaunchProgram, InItsPlace, ToCome, Current
<1>10. CASE LaunchFails
  <2> SUFFICES ASSUME NEW c \in DOMAIN line, NEW n \in DOMAIN line[c].calls PROVE InItsPlace(c, n)'
    BY <1>4, <1>10 DEF LaunchFails
  <2>1. InItsPlace(c, n) /\ <<c, n>> \in CallsOf(line) /\ c \in Nat /\ n \in Nat /\ cmd \in Nat /\ call \in Nat
    BY <1>1, <1>2
  <2> QED
    BY <1>1, <1>3, <1>10, <2>1 DEF LaunchFails, InItsPlace, ToCome
<1>11. CASE LaunchBuiltin
  <2> SUFFICES ASSUME NEW c \in DOMAIN line, NEW n \in DOMAIN line[c].calls PROVE InItsPlace(c, n)'
    BY <1>4, <1>11 DEF LaunchBuiltin
  <2>1. InItsPlace(c, n) /\ <<c, n>> \in CallsOf(line) /\ c \in Nat /\ n \in Nat /\ cmd \in Nat /\ call \in Nat
    BY <1>1, <1>2
  <2> QED
    BY <1>1, <1>3, <1>11, <2>1 DEF LaunchBuiltin, InItsPlace, ToCome, Current
<1>12. CASE BuiltinWrites
  <2> SUFFICES ASSUME NEW c \in DOMAIN line, NEW n \in DOMAIN line[c].calls PROVE InItsPlace(c, n)'
    BY <1>4, <1>12 DEF BuiltinWrites
  <2>1. InItsPlace(c, n) /\ <<c, n>> \in CallsOf(line) /\ c \in Nat /\ n \in Nat /\ cmd \in Nat /\ call \in Nat
    BY <1>1, <1>2
  <2> QED
    BY <1>1, <1>3, <1>12, <2>1 DEF BuiltinWrites, InItsPlace, ToCome
<1>13. CASE BuiltinReturns
  <2> SUFFICES ASSUME NEW c \in DOMAIN line, NEW n \in DOMAIN line[c].calls PROVE InItsPlace(c, n)'
    BY <1>4, <1>13 DEF BuiltinReturns
  <2>1. InItsPlace(c, n) /\ <<c, n>> \in CallsOf(line) /\ c \in Nat /\ n \in Nat /\ cmd \in Nat /\ call \in Nat
    BY <1>1, <1>2
  <2> QED
    BY <1>1, <1>3, <1>13, <2>1 DEF BuiltinReturns, InItsPlace, ToCome, Current
<1>14. CASE LaunchDone
  <2> SUFFICES ASSUME NEW c \in DOMAIN line, NEW n \in DOMAIN line[c].calls PROVE InItsPlace(c, n)'
    BY <1>4, <1>14 DEF LaunchDone
  <2>1. InItsPlace(c, n) /\ <<c, n>> \in CallsOf(line) /\ c \in Nat /\ n \in Nat /\ cmd \in Nat /\ call \in Nat
    BY <1>1, <1>2
  <2>2. c = cmd => n < call
    BY <1>1, <1>14 DEF LaunchDone, Command
  <2> QED
    BY <1>1, <1>3, <1>14, <2>1, <2>2 DEF LaunchDone, InItsPlace, ToCome
<1>15. CASE ClosePipes
  <2> SUFFICES ASSUME NEW c \in DOMAIN line, NEW n \in DOMAIN line[c].calls PROVE InItsPlace(c, n)'
    BY <1>4, <1>15 DEF ClosePipes
  <2>1. InItsPlace(c, n) /\ <<c, n>> \in CallsOf(line) /\ c \in Nat /\ n \in Nat /\ cmd \in Nat /\ call \in Nat
    BY <1>1, <1>2
  <2> QED
    BY <1>1, <1>3, <1>15, <2>1 DEF ClosePipes, InItsPlace, ToCome
<1>16. CASE JobEnds
  <2> SUFFICES ASSUME NEW c \in DOMAIN line, NEW n \in DOMAIN line[c].calls PROVE InItsPlace(c, n)'
    BY <1>4, <1>16 DEF JobEnds
  <2>1. InItsPlace(c, n) /\ <<c, n>> \in CallsOf(line) /\ c \in Nat /\ n \in Nat /\ cmd \in Nat /\ call \in Nat
    BY <1>1, <1>2
  <2> QED
    BY <1>1, <1>3, <1>16, <2>1 DEF JobEnds, InItsPlace, ToCome
<1>17. CASE JobStops
  <2> SUFFICES ASSUME NEW c \in DOMAIN line, NEW n \in DOMAIN line[c].calls PROVE InItsPlace(c, n)'
    BY <1>4, <1>17 DEF JobStops
  <2>1. InItsPlace(c, n) /\ <<c, n>> \in CallsOf(line) /\ c \in Nat /\ n \in Nat /\ cmd \in Nat /\ call \in Nat
    BY <1>1, <1>2
  <2> QED
    BY <1>1, <1>3, <1>17, <2>1 DEF JobStops, InItsPlace, ToCome
<1>18. CASE CloseFiles
  <2> SUFFICES ASSUME NEW c \in DOMAIN line, NEW n \in DOMAIN line[c].calls PROVE InItsPlace(c, n)'
    BY <1>4, <1>18 DEF CloseFiles
  <2>1. InItsPlace(c, n) /\ <<c, n>> \in CallsOf(line) /\ c \in Nat /\ n \in Nat /\ cmd \in Nat /\ call \in Nat
    BY <1>1, <1>2
  <2> QED
    BY <1>1, <1>3, <1>18, <2>1 DEF CloseFiles, InItsPlace, ToCome, NextCommand
<1>19. ASSUME NEW p \in CallsOf(line), ChildStep(p)
       PROVE  CallsInPlace'
  <2>1. UNCHANGED <<line, cmd, call, pc>>
    BY <1>19 DEF ChildStep, ChildExecs, ProgramWrites, ProgramReads, SeesEnd, ProgramEnds
  <2>2. p = <<p[1], p[2]>> /\ InItsPlace(p[1], p[2])
    BY <1>2, CallsOfPairs
  <2>3. \/ state' = state
        \/ state[p] \in {"forked", "running"} /\ ~IsBuiltin(p) /\ state' = [state EXCEPT ![p] = "running"]
        \/ state[p] \in {"forked", "running"} /\ ~IsBuiltin(p) /\ state' = [state EXCEPT ![p] = "gone"]
    BY <1>19, <2>2 DEF ChildStep, ChildExecs, ProgramWrites, ProgramReads, SeesEnd, ProgramEnds, InItsPlace
  <2> SUFFICES ASSUME NEW c \in DOMAIN line, NEW n \in DOMAIN line[c].calls PROVE InItsPlace(c, n)'
    BY <1>4, <2>1
  <2>4. ToCome(c, n)' <=> ToCome(c, n)
    BY <2>1 DEF ToCome
  <2>5. InItsPlace(c, n) /\ <<c, n>> \in CallsOf(line)
    BY <1>2
  <2>6. CASE p = <<c, n>>
    BY <1>1, <1>3, <2>1, <2>3, <2>4, <2>5, <2>6 DEF InItsPlace
  <2>7. CASE p # <<c, n>>
    <3>1. state'[<<c, n>>] = state[<<c, n>>]
      BY <1>1, <2>3, <2>5, <2>7
    <3> QED
      BY <1>3, <2>1, <2>4, <2>5, <3>1 DEF InItsPlace
  <2> QED
    BY <2>6, <2>7
<1>20. CASE UNCHANGED plumbingVars
  BY <1>3, <1>20 DEF plumbingVars, CallsInPlace, InItsPlace, ToCome
<1> QED
  BY <1>5, <1>6, <1>7, <1>8, <1>9, <1>10, <1>11, <1>12, <1>13, <1>14, <1>15, <1>16, <1>17, <1>18, <1>19, <1>20
     DEF PlumbingNext, ShellStep

(* What the children hold.                                                 *)
LEMMA ChildrenStep ==
    ASSUME PlumbingTypeOK, HeldExactly, CallsInPlace, ForkedHoldsAll, HoldsItsOwnPipes,
           [PlumbingNext]_plumbingVars
    PROVE  ForkedHoldsAll' /\ HoldsItsOwnPipes'
<1>1. /\ state \in [CallsOf(line) -> {"waiting", "forked", "running", "gone"}]
      /\ fds \in [CallsOf(line) -> SUBSET Int]
  BY DEF PlumbingTypeOK
<1>2. line' = line => /\ \A p : IsBuiltin(p)' <=> IsBuiltin(p)
                      /\ \A p : Call(p)' = Call(p)
  BY DEF IsBuiltin, Call
<1> DEFINE Good(p) ==
      /\ state[p] = "forked" => Opened(line[p[1]]) \cup Standard \subseteq fds[p]
      /\ Runs(p) => /\ fds[p] \cap PipeEnds(line[p[1]]) = OwnEnds(line[p[1]], Call(p))
                    /\ Files(line[p[1]]) \cup Standard \subseteq fds[p]
<1>3. \A p \in CallsOf(line) : Good(p)
  BY DEF ForkedHoldsAll, HoldsItsOwnPipes
<1>4. ASSUME line' = line, \A p \in CallsOf(line) : Good(p)'
      PROVE  ForkedHoldsAll' /\ HoldsItsOwnPipes'
  BY <1>4 DEF ForkedHoldsAll, HoldsItsOwnPipes
<1>5. ASSUME line' = line, NEW p \in CallsOf(line), state'[p] = state[p], fds'[p] = fds[p]
      PROVE  Good(p)'
  BY <1>2, <1>3, <1>5 DEF Runs
<1>6. ASSUME line' = line, NEW p \in CallsOf(line), state'[p] = "gone"
      PROVE  Good(p)'
  BY <1>6 DEF Runs
<1>7. CASE ReadLine
  <2> PICK l \in Lines : line' = l /\ state' = [p \in CallsOf(l) |-> "waiting"]
    BY <1>7 DEF ReadLine
  <2> QED
    BY DEF ForkedHoldsAll, HoldsItsOwnPipes, Runs
<1>8. CASE LaunchProgram
  <2> USE <1>8 DEF LaunchProgram
  <2>1. IsCommand(Command) /\ cmd \in DOMAIN line /\ Current \in CallsOf(line)
    BY CurrentCommand DEF PlumbingTypeOK, Current
  <2>2. Opened(Command) \cup Standard \subseteq held
    BY <2>1 DEF HeldExactly, BeforePipesClose
  <2> SUFFICES ASSUME NEW p \in CallsOf(line) PROVE Good(p)'
    BY <1>4
  <2>3. CASE p = Current
    <3>1. state'[p] = "forked" /\ fds'[p] = held /\ line[p[1]] = Command
      BY <1>1, <2>1, <2>3 DEF Current, Command
    <3> QED
      BY <2>2, <3>1 DEF Runs
  <2>4. CASE p # Current
    BY <1>1, <1>5, <2>4
  <2> QED
    BY <2>3, <2>4
<1>9. CASE LaunchFails
  <2> SUFFICES ASSUME NEW p \in CallsOf(line) PROVE Good(p)'
    BY <1>4, <1>9 DEF LaunchFails
  <2>1. state'[p] = "gone" \/ (state'[p] = state[p] /\ fds'[p] = fds[p])
    BY <1>9 DEF LaunchFails
  <2> QED
    BY <1>5, <1>6, <1>9, <2>1 DEF LaunchFails
<1>10. CASE LaunchBuiltin
  <2> USE <1>10 DEF LaunchBuiltin
  <2> SUFFICES ASSUME NEW p \in CallsOf(line) PROVE Good(p)'
    BY <1>4
  <2>1. CASE p = Current
    BY <1>1, <1>2, <2>1 DEF Runs
  <2>2. CASE p # Current
    BY <1>1, <1>5, <2>2
  <2> QED
    BY <2>1, <2>2
<1>11. CASE RunBuiltin \/ BuiltinReturns
  <2>1. line' = line /\ fds' = fds /\ \E p : state' = [state EXCEPT ![p] = "gone"]
    BY <1>11 DEF RunBuiltin, BuiltinReturns
  <2> SUFFICES ASSUME NEW p \in CallsOf(line) PROVE Good(p)'
    BY <1>4, <2>1
  <2>2. state'[p] = "gone" \/ state'[p] = state[p]
    BY <1>1, <2>1
  <2> QED
    BY <1>5, <1>6, <2>1, <2>2
<1>12. CASE UNCHANGED <<line, state, fds>>
  BY <1>4, <1>5, <1>12
<1>13. CASE RunJob \/ EndLine \/ BuiltinWrites \/ LaunchDone \/ ClosePipes \/ JobEnds \/ JobStops \/ CloseFiles
            \/ UNCHANGED plumbingVars
  BY <1>12, <1>13 DEF RunJob, EndLine, BuiltinWrites, LaunchDone, ClosePipes, JobEnds, JobStops, CloseFiles, plumbingVars
<1>14. ASSUME NEW q \in CallsOf(line), ChildStep(q)
       PROVE  ForkedHoldsAll' /\ HoldsItsOwnPipes'
  <2>1. CASE ChildExecs(q)
    <3> USE <2>1 DEF ChildExecs
    <3> DEFINE c == line[q[1]]
               x == Call(q)
               closed == ReadingEndsClosed(c, x) \cup WritingEndsClosed(c, x)
    <3>1. IsCommand(c) /\ q[2] \in DOMAIN c.calls /\ x = c.calls[q[2]]
      BY CallsOfPairs, LineFacts DEF PlumbingTypeOK, Call
    <3>2. closed \subseteq PipeEnds(c) /\ PipeEnds(c) \ closed = OwnEnds(c, x)
      BY <3>1, EndsClosed
    <3>3. /\ Opened(c) = PipeEnds(c) \cup Files(c)
          /\ PipeEnds(c) \cap Files(c) = {}
          /\ Opened(c) \cap Standard = {}
      BY <3>1, CommandFacts
    <3>4. Opened(c) \cup Standard \subseteq fds[q]
      BY <1>3
    <3> SUFFICES ASSUME NEW p \in CallsOf(line) PROVE Good(p)'
      BY <1>4
    <3>5. CASE p = q
      <4>1. state'[p] = "running" /\ fds'[p] = fds[q] \ closed
        BY <1>1, <3>5
      <4>2. fds'[p] \cap PipeEnds(c) = OwnEnds(c, x) /\ Files(c) \cup Standard \subseteq fds'[p]
        BY <3>2, <3>3, <3>4, <4>1
      <4>3. Call(p)' = x /\ line'[p[1]] = c
        BY <1>2, <3>5
      <4> QED
        BY <4>1, <4>2, <4>3
    <3>6. CASE p # q
      BY <1>1, <1>5, <3>6
    <3> QED
      BY <3>5, <3>6
  <2>2. CASE ProgramEnds(q)
    <3> SUFFICES ASSUME NEW p \in CallsOf(line) PROVE Good(p)'
      BY <1>4, <2>2 DEF ProgramEnds
    <3>1. CASE p = q
      BY <1>1, <1>6, <2>2, <3>1 DEF ProgramEnds
    <3>2. CASE p # q
      BY <1>1, <1>5, <2>2, <3>2 DEF ProgramEnds
    <3> QED
      BY <3>1, <3>2
  <2>3. CASE ProgramWrites(q) \/ SeesEnd(q) \/ \E k \in Call(q).reads : ProgramReads(q, k)
    BY <1>12, <2>3 DEF ProgramWrites, SeesEnd, ProgramReads
  <2> QED
    BY <1>14, <2>1, <2>2, <2>3 DEF ChildStep
<1> QED
  BY <1>7, <1>8, <1>9, <1>10, <1>11, <1>13, <1>14 DEF PlumbingNext, ShellStep

(* The invariant is inductive.                                             *)
LEMMA InvInit == PlumbingInit => PlumbingInv
<1> SUFFICES ASSUME PlumbingInit PROVE PlumbingInv
  OBVIOUS
<1>1. CallsOf(<<>>) = {}
  BY DEF CallsOf
<1> QED
  BY <1>1, TypeInit
     DEF PlumbingInit, PlumbingInv, HeldExactly, CallsInPlace, ForkedHoldsAll, HoldsItsOwnPipes, BeforePipesClose

LEMMA InvStep == PlumbingInv /\ [PlumbingNext]_plumbingVars => PlumbingInv'
BY TypeStep, HeldStep, WaitingStep, ChildrenStep DEF PlumbingInv

LEMMA Invariant == PlumbingSpec => []PlumbingInv
BY InvInit, InvStep, PTL DEF PlumbingSpec

(* Theorem: a program that runs holds, of the pipes of its command, exactly*)
(* the ends it was given (close_reading_pipes, close_writing_pipes).       *)
THEOREM ProgramsHoldTheirOwn == PlumbingSpec => []HoldsItsOwnPipes
<1>1. PlumbingInv => HoldsItsOwnPipes
  BY DEF PlumbingInv
<1> QED
  BY <1>1, Invariant, PTL

LEMMA NothingEarly == PlumbingInv => OpenAsLongAsNeeded
<1> SUFFICES ASSUME PlumbingInv PROVE OpenAsLongAsNeeded
  OBVIOUS
<1>1. /\ Len(line) \in Nat /\ DOMAIN line = 1 .. Len(line) /\ cmd \in 1 .. Len(line) + 1
      /\ \A c \in DOMAIN line : IsCommand(line[c])
      /\ pc \notin {"prompt", "next"} => cmd <= Len(line)
      /\ pc = "prompt" => cmd > Len(line)
  BY LineFacts DEF PlumbingInv, PlumbingTypeOK
<1>2. HeldExactly
  BY DEF PlumbingInv
<1>3. Standard \subseteq held
  BY <1>2 DEF HeldExactly
<1>4. ASSUME pc \in {"launch", "write"} PROVE PipeEnds(Command) \cup Files(Command) \subseteq held
  <2>1. cmd \in DOMAIN line /\ IsCommand(Command)
    BY <1>1, <1>4 DEF Command
  <2> QED
    BY <1>2, <1>4, <2>1, CommandFacts DEF HeldExactly, BeforePipesClose
<1>5. \A c \in DOMAIN line : c > cmd => Opened(line[c]) \subseteq held
  BY <1>2 DEF HeldExactly
<1>6. ASSUME pc = "prompt" PROVE held = Standard
  <2>1. \A c \in DOMAIN line : ~(c > cmd)
    BY <1>1, <1>6
  <2> QED
    BY <1>2, <1>6, <2>1 DEF HeldExactly, BeforePipesClose
<1> QED
  BY <1>3, <1>4, <1>5, <1>6 DEF OpenAsLongAsNeeded

(* Theorem: the shell closes nothing that a later call or command needs,   *)
(* and at the prompt holds nothing but its standard descriptors.           *)
THEOREM NothingIsClosedEarly == PlumbingSpec => []OpenAsLongAsNeeded
BY Invariant, NothingEarly, PTL
-----------------------------------------------------------------------------
(* While a writer is there, or to come, somebody holds the end to write.   *)
LEMMA WritersHold ==
    ASSUME PlumbingInv, NEW s \in PipesOf(line), Writers(s) # {}
    PROVE  HeldOpen(s)
<1> DEFINE c == line[s[1]]
<1>1. s[1] \in DOMAIN line /\ s[2] \in DOMAIN c.pipes /\ IsCommand(c)
  BY PipesOfPairs, LineFacts DEF PlumbingInv, PlumbingTypeOK
<1>2. WriteEnd(s) \in PipeEnds(c) /\ PipeEnds(c) \subseteq Opened(c)
  BY <1>1, CommandFacts DEF WriteEnd, PipeEnds
<1> PICK n \in DOMAIN c.calls : s[2] \in c.calls[n].writes /\ state[<<s[1], n>>] # "gone"
  BY DEF Writers
<1> DEFINE p == <<s[1], n>>
<1>3. p \in CallsOf(line) /\ InItsPlace(s[1], n)
  BY <1>1, CallsOfPairs DEF PlumbingInv, CallsInPlace
<1>4. state[p] \in {"waiting", "forked", "running"}
  BY <1>3 DEF PlumbingInv, PlumbingTypeOK
<1>5. HeldExactly /\ ForkedHoldsAll /\ HoldsItsOwnPipes
  BY DEF PlumbingInv
<1>6. ASSUME s[1] > cmd \/ (s[1] = cmd /\ pc \in BeforePipesClose)
      PROVE  HeldOpen(s)
  BY <1>1, <1>2, <1>5, <1>6 DEF HeldExactly, Command, HeldOpen
<1>7. CASE state[p] = "waiting"
  BY <1>3, <1>6, <1>7 DEF InItsPlace, ToCome, BeforePipesClose
<1>8. CASE state[p] = "running" /\ IsBuiltin(p)
  BY <1>3, <1>6, <1>8 DEF InItsPlace, BeforePipesClose
<1>9. CASE state[p] = "forked"
  BY <1>2, <1>3, <1>5, <1>9 DEF ForkedHoldsAll, HeldOpen
<1>10. CASE state[p] = "running" /\ ~IsBuiltin(p)
  <2>1. Call(p) = c.calls[n] /\ line[p[1]] = c
    BY DEF Call
  <2>2. WriteEnd(s) \in OwnEnds(c, c.calls[n])
    BY DEF WriteEnd, OwnEnds
  <2> QED
    BY <1>3, <1>5, <1>10, <2>1, <2>2 DEF HoldsItsOwnPipes, Runs, HeldOpen
<1> QED
  BY <1>4, <1>7, <1>8, <1>9, <1>10

(* A call that is gone does not come back while its line is executed.      *)
LEMMA WritersOnlyGo ==
    ASSUME PlumbingInv, [PlumbingNext]_plumbingVars, ~ReadLine
    PROVE  line' = line /\ \A s \in PipesOf(line) : Writers(s)' \subseteq Writers(s)
<1>1. line' = line
  BY DEF PlumbingNext, ShellStep, ChildStep, RunBuiltin, RunJob, EndLine, LaunchProgram, LaunchFails, LaunchBuiltin,
         BuiltinWrites, BuiltinReturns, LaunchDone, ClosePipes, JobEnds, JobStops, CloseFiles,
         ChildExecs, ProgramWrites, ProgramReads, SeesEnd, ProgramEnds, plumbingVars
<1>2. state \in [CallsOf(line) -> {"waiting", "forked", "running", "gone"}]
  BY DEF PlumbingInv, PlumbingTypeOK
<1>3. ASSUME NEW p \in CallsOf(line), state[p] = "gone" PROVE state'[p] = "gone"
  <2>1. CASE LaunchProgram \/ LaunchBuiltin
    <3>1. pc = "launch" /\ call <= Len(Command.calls) /\ call \in Nat \ {0} /\ cmd <= Len(line)
      BY <2>1 DEF LaunchProgram, LaunchBuiltin, PlumbingInv, PlumbingTypeOK
    <3>2. cmd \in DOMAIN line /\ call \in DOMAIN Command.calls
      BY <3>1, CurrentCommand DEF PlumbingInv
    <3>3. InItsPlace(cmd, call)
      BY <3>2 DEF PlumbingInv, CallsInPlace, Command
    <3>4. state[Current] = "waiting"
      BY <3>1, <3>3 DEF InItsPlace, ToCome, Current
    <3> QED
      BY <1>2, <1>3, <2>1, <3>4 DEF LaunchProgram, LaunchBuiltin
  <2>2. CASE RunBuiltin \/ BuiltinReturns \/ LaunchFails
    BY <1>2, <1>3, <2>2 DEF RunBuiltin, BuiltinReturns, LaunchFails
  <2>3. CASE state' = state
    BY <1>3, <2>3
  <2>4. CASE RunJob \/ EndLine \/ BuiltinWrites \/ LaunchDone \/ ClosePipes \/ JobEnds \/ JobStops \/ CloseFiles
             \/ UNCHANGED plumbingVars
    BY <2>3, <2>4 DEF RunJob, EndLine, BuiltinWrites, LaunchDone, ClosePipes, JobEnds, JobStops, CloseFiles, plumbingVars
  <2>5. ASSUME NEW q \in CallsOf(line), ChildStep(q) PROVE state'[p] = "gone"
    BY <1>2, <1>3, <2>3, <2>5 DEF ChildStep, ChildExecs, ProgramWrites, ProgramReads, SeesEnd, ProgramEnds
  <2> QED
    BY <2>1, <2>2, <2>4, <2>5 DEF PlumbingNext, ShellStep
<1>4. \A s \in PipesOf(line) : \A n \in DOMAIN line[s[1]].calls : <<s[1], n>> \in CallsOf(line)
  BY PipesOfPairs, CallsOfPairs
<1> QED
  BY <1>1, <1>3, <1>4 DEF Writers

LEMMA AbstractStep ==
    ASSUME PlumbingInv, [PlumbingNext]_plumbingVars
    PROVE  [Abstract!StreamsNext]_<<[s \in PipesOf(line) |-> Writers(s)], seen>>
<1> DEFINE writers == [s \in PipesOf(line) |-> Writers(s)]
<1>1. CASE ReadLine
  <2>1. seen' = {} /\ \A p \in CallsOf(line) : state[p] = "gone"
    BY <1>1 DEF ReadLine
  <2>2. \A s \in PipesOf(line) : Writers(s) = {}
    BY <2>1, PipesOfPairs, CallsOfPairs DEF Writers
  <2> QED
    BY <2>1, <2>2 DEF Abstract!StreamsNext, Abstract!NewStreams
<1>2. ASSUME NEW p \in CallsOf(line), SeesEnd(p)
      PROVE  Abstract!StreamsNext
  <2>1. p[1] \in DOMAIN line /\ p[2] \in DOMAIN line[p[1]].calls /\ IsCommand(line[p[1]])
    BY CallsOfPairs, LineFacts DEF PlumbingInv, PlumbingTypeOK
  <2> PICK k \in Call(p).reads : ~HeldOpen(<<p[1], k>>) /\ seen' = seen \cup {<<p[1], k>>}
    BY <1>2 DEF SeesEnd
  <2>2. <<p[1], k>> \in PipesOf(line)
    BY <2>1, PipesOfPairs DEF Call, IsCommand
  <2>3. writers[<<p[1], k>>] = {}
    BY <2>2, WritersHold
  <2>4. writers' = writers
    BY <1>2 DEF SeesEnd, Writers
  <2>5. Abstract!EndIsRead(<<p[1], k>>)
    BY <2>2, <2>3, <2>4 DEF Abstract!EndIsRead
  <2> QED
    BY <2>2, <2>5 DEF Abstract!StreamsNext
<1>3. ASSUME ~ReadLine, \A p \in CallsOf(line) : ~SeesEnd(p)
      PROVE  Abstract!StreamsNext
  <2>1. line' = line /\ \A s \in PipesOf(line) : Writers(s)' \subseteq Writers(s)
    BY <1>3, WritersOnlyGo
  <2>2. seen' = seen
    BY <1>3 DEF PlumbingNext, ShellStep, ChildStep, RunBuiltin, RunJob, EndLine, LaunchProgram, LaunchFails, LaunchBuiltin,
         BuiltinWrites, BuiltinReturns, LaunchDone, ClosePipes, JobEnds, JobStops, CloseFiles,
         ChildExecs, ProgramWrites, ProgramReads, ProgramEnds, plumbingVars
  <2>3. DOMAIN writers' = DOMAIN writers /\ \A s \in DOMAIN writers : writers'[s] \subseteq writers[s]
    BY <2>1
  <2> QED
    BY <2>2, <2>3 DEF Abstract!StreamsNext, Abstract!WritersGo
<1> QED
  BY <1>1, <1>2, <1>3

(* Theorem: Plumbing implements Streams: no reader sees the end of its     *)
(* input while one of its writers is there or has still to be launched.    *)
THEOREM PlumbingImplementsStreams == PlumbingSpec => ImplementsStreams
<1>1. PlumbingInit => Abstract!StreamsInit
  BY DEF PlumbingInit, Abstract!StreamsInit
<1>2. PlumbingInv /\ [PlumbingNext]_plumbingVars
         => [Abstract!StreamsNext]_<<[s \in PipesOf(line) |-> Writers(s)], seen>>
  BY AbstractStep
<1> QED
  BY <1>1, <1>2, Invariant, PTL DEF PlumbingSpec, ImplementsStreams, Abstract!StreamsSpec
=============================================================================
