---------------------------- MODULE ParserProofs ----------------------------
(***************************************************************************)
(* Proofs about Parser.  The loops of parse_command_call nest, so what is  *)
(* shown is shown of all of them at once: LoopKeeps says what a loop with  *)
(* n tokens left makes of any frame it may be in, and LoopsKeep that it    *)
(* holds for every n.  What parse_read_line returns follows from there,    *)
(* piece by piece, and the invariant of the module is that the variables   *)
(* hold what it returned.                                                  *)
(***************************************************************************)
EXTENDS Parser, TLAPS, WellFoundedInduction, SequenceTheorems, FiniteSetTheorems

-----------------------------------------------------------------------------
(* Induction over the natural numbers, and the existence of functions that *)
(* are defined by recursion over them, stated of sets and functions.  The  *)
(* library states the same of operators, which the provers cannot          *)
(* instantiate.                                                            *)

(* A set of natural numbers has a least element: the order is well-founded.*)
LEMMA LeastElement ==
    ASSUME NEW T, T \subseteq Nat, T # {}
    PROVE  \E x \in T : \A y \in T : x <= y
<1> DEFINE Less == {ss \in Nat \X Nat : ss[1] < ss[2]}
<1>1. IsWellFoundedOn(Less, Nat)
  BY NatLessThanWellFounded, Zenon DEF OpToRel
<1> HIDE DEF Less
<1>2. PICK x \in T : \A y \in T : ~(<<y, x>> \in Less)
  BY <1>1, WFMin
<1>3. \A y \in T : ~(y < x)
  BY <1>2 DEF Less
<1> QED
  BY <1>3

(* A set that has 0, and the successor of each of its numbers, has them    *)
(* all.                                                                    *)
LEMMA Induction ==
    ASSUME NEW S, 0 \in S, \A n \in Nat : n \in S => n + 1 \in S
    PROVE  Nat \subseteq S
<1>1. SUFFICES ASSUME Nat \ S # {} PROVE FALSE
  OBVIOUS
<1>2. PICK x \in Nat \ S : \A y \in Nat \ S : x <= y
  BY <1>1, LeastElement
<1>3. x # 0 /\ x - 1 \in Nat
  OBVIOUS
<1>4. x - 1 \in S
  BY <1>2, <1>3
<1> QED
  BY <1>3, <1>4

(* A value and a way to the next one define a sequence of values.          *)
GoesOn(f, first, step) == f[0] = first /\ \A n \in Nat : f[n + 1] = step[<<f[n], n + 1>>]

\* There is such a function, whatever it starts with and steps by.
LEMMA Recursion ==
    ASSUME NEW S, NEW first \in S, NEW step \in [S \X Nat -> S]
    PROVE  \E f \in [Nat -> S] : GoesOn(f, first, step)
<1> DEFINE Follows(f, n) == f[0] = first /\ \A k \in 0 .. n - 1 : f[k + 1] = step[<<f[k], k + 1>>]
           Has == {n \in Nat : \E f \in [0 .. n -> S] : Follows(f, n)}
           Same == {n \in Nat : \A m \in Nat : \A f \in [0 .. n -> S], g \in [0 .. m -> S] :
                                   n <= m /\ Follows(f, n) /\ Follows(g, m) => f[n] = g[n]}
<1>1. Nat \subseteq Has
  <2>1. 0 \in Has
    <3>1. Follows([k \in 0 .. 0 |-> first], 0) /\ [k \in 0 .. 0 |-> first] \in [0 .. 0 -> S]
      OBVIOUS
    <3> QED
      BY <3>1
  <2>2. ASSUME NEW n \in Nat, n \in Has PROVE n + 1 \in Has
    <3>1. PICK f \in [0 .. n -> S] : Follows(f, n)
      BY <2>2
    <3> DEFINE g == [k \in 0 .. n + 1 |-> IF k = n + 1 THEN step[<<f[n], n + 1>>] ELSE f[k]]
    <3>2. f[n] \in S /\ step[<<f[n], n + 1>>] \in S
      OBVIOUS
    <3>3. g \in [0 .. n + 1 -> S]
      BY <3>2
    <3>4. g[0] = first
      BY <3>1
    <3>5. ASSUME NEW k \in 0 .. n PROVE g[k + 1] = step[<<g[k], k + 1>>]
      <4>1. CASE k = n
        <5>1. g[n + 1] = step[<<f[n], n + 1>>] /\ g[n] = f[n]
          OBVIOUS
        <5> QED
          BY <4>1, <5>1
      <4>2. CASE k \in 0 .. n - 1
        BY <3>1, <4>2
      <4> QED
        BY <4>1, <4>2
    <3> HIDE DEF g
    <3>6. \A k \in 0 .. (n + 1) - 1 : k \in 0 .. n
      OBVIOUS
    <3>7. Follows(g, n + 1)
      BY <3>4, <3>5, <3>6
    <3> QED
      BY <3>3, <3>7
  <2> HIDE DEF Has
  <2> QED
    BY <2>1, <2>2, Induction
<1>2. Nat \subseteq Same
  <2>1. 0 \in Same
    OBVIOUS
  <2>2. ASSUME NEW n \in Nat, n \in Same PROVE n + 1 \in Same
    <3> SUFFICES ASSUME NEW m \in Nat, NEW f \in [0 .. n + 1 -> S], NEW g \in [0 .. m -> S],
                        n + 1 <= m, Follows(f, n + 1), Follows(g, m)
                 PROVE  f[n + 1] = g[n + 1]
      OBVIOUS
    <3> DEFINE e == [k \in 0 .. n |-> f[k]]
    <3>1. e \in [0 .. n -> S]
      OBVIOUS
    <3>2. Follows(e, n)
      OBVIOUS
    <3>3. e[n] = f[n]
      OBVIOUS
    <3> HIDE DEF e
    <3>4. \A a \in [0 .. n -> S], b \in [0 .. m -> S] :
             n <= m /\ Follows(a, n) /\ Follows(b, m) => a[n] = b[n]
      BY <2>2
    <3>5. n <= m
      OBVIOUS
    <3> HIDE DEF Follows
    <3>6. e[n] = g[n]
      BY <3>1, <3>2, <3>4, <3>5
    <3> USE DEF Follows
    <3>7. f[n + 1] = step[<<f[n], n + 1>>]
      OBVIOUS
    <3>8. g[n + 1] = step[<<g[n], n + 1>>]
      <4>1. n \in 0 .. m - 1
        OBVIOUS
      <4> QED
        BY <4>1
    <3> QED
      BY <3>3, <3>6, <3>7, <3>8
  <2> HIDE DEF Same
  <2> QED
    BY <2>1, <2>2, Induction
<1> DEFINE F == [n \in Nat |-> CHOOSE f \in [0 .. n -> S] : Follows(f, n)]
           whole == [n \in Nat |-> F[n][n]]
<1>3. \A n \in Nat : F[n] \in [0 .. n -> S] /\ Follows(F[n], n)
  BY <1>1
<1> HIDE DEF F
<1>4. \A n \in Nat : whole[n] \in S
  BY <1>3
<1>5. whole[0] = first
  BY <1>3
<1>6. ASSUME NEW n \in Nat PROVE whole[n + 1] = step[<<whole[n], n + 1>>]
  <2>1. F[n] \in [0 .. n -> S] /\ Follows(F[n], n)
    BY <1>3
  <2>2. n + 1 \in Nat
    OBVIOUS
  <2>3. F[n + 1] \in [0 .. n + 1 -> S] /\ Follows(F[n + 1], n + 1)
    BY <1>3, <2>2
  <2>4. \A a \in [0 .. n -> S], b \in [0 .. n + 1 -> S] :
           n <= n + 1 /\ Follows(a, n) /\ Follows(b, n + 1) => a[n] = b[n]
    BY <1>2, <2>2
  <2>5. n <= n + 1 /\ n \in 0 .. (n + 1) - 1
    OBVIOUS
  <2>6. F[n + 1][n + 1] = step[<<F[n + 1][n], n + 1>>]
    BY <2>3, <2>5
  <2> HIDE DEF Follows
  <2>7. F[n][n] = F[n + 1][n]
    BY <2>1, <2>3, <2>4, <2>5
  <2> QED
    BY <2>2, <2>6, <2>7
<1>7. whole \in [Nat -> S]
  BY <1>4
<1> QED
  BY <1>5, <1>6, <1>7 DEF GoesOn

(* The same up to a bound, as the loops of a program run.                  *)
GoesUpTo(f, first, step, n) == f[0] = first /\ \A k \in 1 .. n : f[k] = step[<<f[k - 1], k>>]

\* The same up to n, as the loops over a sequence have it.
LEMMA BoundedRecursion ==
    ASSUME NEW S, NEW first \in S, NEW step \in [S \X Nat -> S], NEW n \in Nat
    PROVE  \E f \in [0 .. n -> S] : GoesUpTo(f, first, step, n)
<1>1. PICK f \in [Nat -> S] : GoesOn(f, first, step)
  BY Recursion
<1> DEFINE g == [k \in 0 .. n |-> f[k]]
<1>2. g \in [0 .. n -> S] /\ g[0] = first
  BY <1>1 DEF GoesOn
<1>3. ASSUME NEW k \in 1 .. n PROVE g[k] = step[<<g[k - 1], k>>]
  <2>1. k - 1 \in Nat /\ (k - 1) + 1 = k /\ k - 1 \in 0 .. n /\ k \in 0 .. n
    OBVIOUS
  <2>2. f[k] = step[<<f[k - 1], k>>]
    BY <1>1, <2>1 DEF GoesOn
  <2> QED
    BY <2>1, <2>2
<1> QED
  BY <1>2, <1>3 DEF GoesUpTo

-----------------------------------------------------------------------------
(* The loop with n tokens left is one turn of it and the loop with n - 1.  *)

\* What the frames come to with n tokens left, by what they come to with n - 1.
OneTurn(g) == [a \in Frame |-> ParseTokens(g, a)]
NoTurn == [a \in Frame |-> a.r]

(* No operator that follows is expanded here.                              *)
LEMMA LoopsExist ==
    \E f : f = [n \in Nat |-> [a \in Frame |-> IF n = 0 THEN a.r ELSE ParseTokens(f[n - 1], a)]]
<1> DEFINE Follows(f, n) == f[0] = NoTurn /\ \A k \in 0 .. n - 1 : f[k + 1] = OneTurn(f[k])
           Partial(f, n) == f = [k \in 0 .. n |-> f[k]] /\ Follows(f, n)
           Has == {n \in Nat : \E f : Partial(f, n)}
           Same == {n \in Nat : \A m \in Nat : \A f, g :
                                   n <= m /\ Follows(f, n) /\ Follows(g, m) => f[n] = g[n]}
<1>1. Nat \subseteq Has
  <2>1. 0 \in Has
    <3>1. Partial([k \in 0 .. 0 |-> NoTurn], 0)
      OBVIOUS
    <3> QED
      BY <3>1
  <2>2. ASSUME NEW n \in Nat, n \in Has PROVE n + 1 \in Has
    <3>1. PICK f : Partial(f, n)
      BY <2>2
    <3> DEFINE g == [k \in 0 .. n + 1 |-> IF k = n + 1 THEN OneTurn(f[n]) ELSE f[k]]
    <3>2. g = [k \in 0 .. n + 1 |-> g[k]]
      OBVIOUS
    <3>3. g[0] = NoTurn
      BY <3>1
    <3>4. ASSUME NEW k \in 0 .. n PROVE g[k + 1] = OneTurn(g[k])
      <4>1. CASE k = n
        BY <4>1
      <4>2. CASE k \in 0 .. n - 1
        <5>1. g[k + 1] = f[k + 1] /\ g[k] = f[k]
          BY <4>2
        <5>2. f[k + 1] = OneTurn(f[k])
          BY <3>1, <4>2
        <5> QED
          BY <5>1, <5>2
      <4> QED
        BY <4>1, <4>2
    <3> HIDE DEF g
    <3>5. \A k \in 0 .. (n + 1) - 1 : k \in 0 .. n
      OBVIOUS
    <3>6. Partial(g, n + 1)
      BY <3>2, <3>3, <3>4, <3>5
    <3> HIDE DEF Partial
    <3> QED
      BY <3>6
  <2> HIDE DEF Has
  <2> QED
    BY <2>1, <2>2, Induction
<1>2. Nat \subseteq Same
  <2>1. 0 \in Same
    OBVIOUS
  <2>2. ASSUME NEW n \in Nat, n \in Same PROVE n + 1 \in Same
    <3> SUFFICES ASSUME NEW m \in Nat, NEW f, NEW g,
                        n + 1 <= m, Follows(f, n + 1), Follows(g, m)
                 PROVE  f[n + 1] = g[n + 1]
      OBVIOUS
    <3>1. Follows(f, n) /\ n <= m
      OBVIOUS
    <3>2. n \in 0 .. (n + 1) - 1 /\ n \in 0 .. m - 1
      OBVIOUS
    <3>3. f[n] = g[n]
      BY <2>2, <3>1
    <3> QED
      BY <3>2, <3>3
  <2> HIDE DEF Same
  <2> QED
    BY <2>1, <2>2, Induction
<1> DEFINE F == [n \in Nat |-> CHOOSE f : Partial(f, n)]
           whole == [n \in Nat |-> F[n][n]]
<1>3. \A n \in Nat : Partial(F[n], n)
  BY <1>1
<1> HIDE DEF F
<1>4. whole[0] = NoTurn
  BY <1>3
<1>5. ASSUME NEW n \in Nat PROVE whole[n + 1] = OneTurn(whole[n])
  <2>1. n + 1 \in Nat /\ n <= n + 1 /\ n \in 0 .. (n + 1) - 1
    OBVIOUS
  <2>2. Follows(F[n], n) /\ Follows(F[n + 1], n + 1)
    BY <1>3, <2>1
  <2>3. F[n][n] = F[n + 1][n]
    BY <1>2, <2>1, <2>2
  <2>4. F[n + 1][n + 1] = OneTurn(F[n + 1][n])
    BY <2>1, <2>2
  <2> QED
    BY <2>1, <2>3, <2>4
<1> DEFINE turn(n) == [a \in Frame |-> IF n = 0 THEN a.r ELSE ParseTokens(whole[n - 1], a)]
<1>6. ASSUME NEW n \in Nat PROVE whole[n] = turn(n)
  <2>1. CASE n = 0
    BY <1>4, <2>1 DEF NoTurn
  <2>2. CASE n # 0
    <3>1. n - 1 \in Nat /\ (n - 1) + 1 = n
      BY <2>2
    <3>2. whole[n] = OneTurn(whole[n - 1])
      BY <1>5, <3>1
    <3> HIDE DEF whole
    <3> QED
      BY <2>2, <3>2 DEF OneTurn
  <2> QED
    BY <2>1, <2>2
<1>7. whole = [n \in Nat |-> whole[n]]
  OBVIOUS
<1> HIDE DEF whole
<1>8. whole = [n \in Nat |-> turn(n)]
  BY <1>6, <1>7
<1> QED
  BY <1>8

\* The loop with no token left does nothing more; with one more, a turn.
LEMMA LoopsUnfold ==
    /\ Loops[0] = NoTurn
    /\ \A n \in Nat : Loops[n + 1] = OneTurn(Loops[n])
<1>1. Loops = [n \in Nat |-> [a \in Frame |-> IF n = 0 THEN a.r ELSE ParseTokens(Loops[n - 1], a)]]
  BY LoopsExist DEF Loops
<1>2. Loops[0] = NoTurn
  BY <1>1 DEF NoTurn
<1>3. ASSUME NEW n \in Nat PROVE Loops[n + 1] = OneTurn(Loops[n])
  <2>1. n + 1 \in Nat /\ n + 1 # 0 /\ (n + 1) - 1 = n
    OBVIOUS
  <2>2. Loops[n + 1] = [a \in Frame |-> IF n + 1 = 0 THEN a.r ELSE ParseTokens(Loops[(n + 1) - 1], a)]
    BY <1>1, <2>1
  <2> QED
    BY <2>1, <2>2 DEF OneTurn
<1> QED
  BY <1>2, <1>3

-----------------------------------------------------------------------------
(* What holds of a parse.  It is in a context: the descriptors that the    *)
(* calls further out hold, the last one opened before the command, how many*)
(* pipes there are at least, those of substitutions that are being parsed, *)
(* and by how many the pipes outnumber the calls.                          *)
Context == [held : SUBSET Nat, from : Nat, pipes : Nat, waiting : SUBSET Nat, excess : Int]

IsEnd(p, fd) == \E k \in DOMAIN p.pipes : fd = p.pipes[k][1] \/ fd = p.pipes[k][2]
IsUsed(p, fd) == fd > 2 /\ \E n \in DOMAIN p.calls : fd \in CallFds(p.calls[n])

\* The calls that parse_command can find, and what they use.
IsLive(p, n) == n = p.last \/ \E k \in DOMAIN p.order : n = p.order[k]
IsOwned(p, fd) == fd > 2 /\ \E n \in DOMAIN p.calls : IsLive(p, n) /\ fd \in CallFds(p.calls[n])

PipesApart(p, from) ==
    /\ \A k \in DOMAIN p.pipes :
          p.pipes[k][1] \in from + 1 .. p.fd /\ p.pipes[k][2] \in from + 1 .. p.fd
    /\ \A j, k \in DOMAIN p.pipes :
          /\ p.pipes[j][1] # p.pipes[k][2]
          /\ j # k => p.pipes[j][1] # p.pipes[k][1] /\ p.pipes[j][2] # p.pipes[k][2]

CallsApart(p, from) ==
    /\ \A n \in DOMAIN p.calls :
          /\ \A fd \in CallFds(p.calls[n]) : fd \in 0 .. 2 \/ fd \in from + 1 .. p.fd
          /\ p.calls[n].reads \cup p.calls[n].writes \subseteq DOMAIN p.pipes
    /\ \A m, n \in DOMAIN p.calls :
          m # n => \A fd \in CallFds(p.calls[m]) \cap CallFds(p.calls[n]) : fd <= 2

HeldApart(p, held, from) ==
    \A fd \in held : fd \in from + 1 .. p.fd /\ ~IsEnd(p, fd) /\ ~IsUsed(p, fd)

OpenIsKnown(p, held) ==
    \A fd : fd \in p.open <=> fd \in held \/ IsEnd(p, fd) \/ IsUsed(p, fd)

\* The pipes of those substitutions have no call at their ends yet.
IsKept(p, h, fd) == \E k \in h.waiting : fd = p.pipes[k][1] \/ fd = p.pipes[k][2]

Waits(p, h) ==
    /\ h.waiting \subseteq DOMAIN p.pipes
    /\ \A fd : IsKept(p, h, fd) => ~IsUsed(p, fd)

(* No descriptor is there twice, and those open are known.                 *)
Sound(p, held, from) ==
    /\ p \in Parse
    /\ from \in 2 .. p.fd
    /\ PipesApart(p, from)
    /\ CallsApart(p, from)
    /\ HeldApart(p, held, from)
    /\ OpenIsKnown(p, held)

\* The static variables and the calls in the order have addresses.
Addressed(p) ==
    /\ p.last \in 0 .. Len(p.calls)
    /\ p.sub \in -1 .. Len(p.calls)
    /\ \A k \in DOMAIN p.order : p.order[k] \in DOMAIN p.calls

(* Every call is found once, but the one that is pending.                  *)
Ordered(p, pending) ==
    /\ Addressed(p)
    /\ \A n \in DOMAIN p.calls : IsLive(p, n) \/ n \in pending
    /\ \A k \in DOMAIN p.order : p.order[k] # p.last /\ p.order[k] \notin pending
    /\ \A j, k \in DOMAIN p.order : j # k => p.order[j] # p.order[k]

Excess(p) == Len(p.pipes) - Len(p.calls)

\* What is open can be found, or is held further out.
Refused(p, held, from) ==
    /\ p \in Parse
    /\ Addressed(p)
    /\ from \in 2 .. p.fd
    /\ \A fd \in p.open : fd > 2 /\ (fd \in held \/ IsEnd(p, fd) \/ IsOwned(p, fd))

\* The static variable of the substitutions, in them and outside.
SubInPlace(p, inside) == IF inside THEN p.sub >= 0 ELSE p.sub <= 0

\* The files of a builder.
Own(b, p) == {fd \in {b.fds[1], b.fds[2], b.fds[3]} : fd > 2 /\ ~IsEnd(p, fd)}

BuilderApart(b, p, h) ==
    /\ b \in Builder
    /\ Len(b.fds) = 3
    /\ \A k \in 1 .. 3 :
          \/ b.fds[k] = UNINITIALIZED_FD
          \/ b.fds[k] \in h.from + 1 .. p.fd /\ b.fds[k] \notin h.held /\ ~IsUsed(p, b.fds[k])
    /\ \A k \in 1 .. 3 : ~IsKept(p, h, b.fds[k])
    /\ \A j, k \in 1 .. 3 : j # k => b.fds[j] # b.fds[k] \/ b.fds[j] = UNINITIALIZED_FD
    /\ b.reads \cup b.writes \subseteq DOMAIN p.pipes

(* The loop of a call is going on, or was left to build it.                *)
Going(r, h) ==
    /\ Sound(r.p, h.held \cup Own(r.b, r.p), h.from)
    /\ Ordered(r.p, {})
    /\ Excess(r.p) = h.excess
    /\ h.pipes <= Len(r.p.pipes)
    /\ Waits(r.p, h)
    /\ BuilderApart(r.b, r.p, h)

\* No pipe was linked to the builder yet.
FilesOnly(r) == \A k \in 1 .. 3 : ~IsEnd(r.p, r.b.fds[k])

Result == [p : Parse, b : Builder, ok : BOOLEAN]

Ready(a, h) ==
    IF a.r.ok
    THEN /\ Going(a.r, h)
         /\ SubInPlace(a.r.p, a.inside_substitution)
         /\ FilesOnly(a.r)
         /\ 1 <= a.lo /\ a.lo <= a.i /\ a.lo <= a.hi /\ a.i <= a.hi + 1 /\ a.hi <= Len(a.t)
    ELSE Refused(a.r.p, h.held, h.from)

Done(a, h, r) ==
    /\ r \in Result
    /\ IF r.ok
       THEN /\ Going(r, h)
            /\ SubInPlace(r.p, a.inside_substitution)
            /\ a.i = a.lo => a.t[a.lo] \notin redirection_caret_symbols
       ELSE Refused(r.p, h.held, h.from)

(* A call was parsed, and it is the caller's to add it.                    *)
CallParsed(c, h, inside, pipeline) ==
    /\ c.p \in Parse
    /\ c.call \in Nat
    /\ IF c.call = NULL THEN Refused(c.p, h.held, h.from)
       ELSE /\ c.call \in DOMAIN c.p.calls
            /\ Sound(c.p, h.held, h.from)
            /\ Ordered(c.p, {c.call})
            /\ Excess(c.p) = h.excess - 1
            /\ h.pipes <= Len(c.p.pipes)
            /\ Waits(c.p, h)
            /\ SubInPlace(c.p, inside)
            /\ inside => c.p.sub # NULL /\ c.p.last # c.call
            /\ ~inside => c.p.last # NULL
            /\ pipeline => c.p.calls[c.call].stdin = 0

SubstitutionParsed(c, h) == CallParsed(c, h, TRUE, FALSE)
NextParsed(c, h, inside) == CallParsed(c, h, inside, TRUE)

(* What the loop with n tokens left does with frames that have no more.    *)
LoopKeeps(g, n) ==
    \A a \in Frame, h \in Context :
        Ready(a, h) /\ (a.r.ok => a.hi + 1 - a.i <= n) => Done(a, h, g[a])
-----------------------------------------------------------------------------
(* The operators of the parser, one after the other.                       *)

\* What the type of a parse says of its sequences.
LEMMA ParseFacts ==
    ASSUME NEW p \in Parse
    PROVE  /\ Len(p.calls) \in Nat /\ DOMAIN p.calls = 1 .. Len(p.calls)
           /\ Len(p.order) \in Nat /\ DOMAIN p.order = 1 .. Len(p.order)
           /\ Len(p.pipes) \in Nat /\ DOMAIN p.pipes = 1 .. Len(p.pipes)
           /\ \A n \in DOMAIN p.calls : p.calls[n] \in CallType
           /\ \A k \in DOMAIN p.order : p.order[k] \in Nat
           /\ \A k \in DOMAIN p.pipes : p.pipes[k] \in Nat \X Nat
           /\ p.last \in Nat /\ p.sub \in Int /\ p.fd \in Nat /\ p.open \subseteq Nat
<1>1. /\ p.calls \in Seq(CallType) /\ p.order \in Seq(Nat) /\ p.pipes \in Seq(Nat \X Nat)
      /\ p.last \in Nat /\ p.sub \in Int /\ p.fd \in Nat /\ p.open \subseteq Nat
  BY DEF Parse
<1> QED
  BY <1>1, LenProperties, ElementOfSeq

\* A pipe is added, with the two descriptors that come next.
LEMMA OpenPipeFacts ==
    ASSUME NEW p \in Parse, NEW q, q = OpenPipe(p)
    PROVE  /\ q \in Parse
           /\ q.calls = p.calls /\ q.order = p.order /\ q.last = p.last /\ q.sub = p.sub
           /\ q.fd = p.fd + 2
           /\ q.open = p.open \cup {p.fd + 1, p.fd + 2}
           /\ Len(q.pipes) = Len(p.pipes) + 1
           /\ DOMAIN q.pipes = 1 .. Len(p.pipes) + 1
           /\ \A k \in DOMAIN p.pipes : q.pipes[k] = p.pipes[k]
           /\ q.pipes[Len(p.pipes) + 1] = <<p.fd + 1, p.fd + 2>>
<1> DEFINE ends == <<p.fd + 1, p.fd + 2>>
<1>1. q = [p EXCEPT !.pipes = Append(p.pipes, ends), !.open = p.open \cup {p.fd + 1, p.fd + 2}, !.fd = p.fd + 2]
  BY DEF OpenPipe
<1>2. p.pipes \in Seq(Nat \X Nat) /\ p.fd \in Nat /\ ends \in Nat \X Nat
  BY DEF Parse
<1> HIDE DEF ends
<1>3. /\ Append(p.pipes, ends) \in Seq(Nat \X Nat)
      /\ Len(Append(p.pipes, ends)) = Len(p.pipes) + 1
      /\ \A k \in 1 .. Len(p.pipes) : Append(p.pipes, ends)[k] = p.pipes[k]
      /\ Append(p.pipes, ends)[Len(p.pipes) + 1] = ends
      /\ DOMAIN p.pipes = 1 .. Len(p.pipes)
  BY <1>2, AppendProperties, LenProperties
<1>4. DOMAIN Append(p.pipes, ends) = 1 .. Len(p.pipes) + 1
  BY <1>3, LenProperties
<1>5. /\ q.calls = p.calls /\ q.order = p.order /\ q.last = p.last /\ q.sub = p.sub
      /\ q.fd = p.fd + 2 /\ q.open = p.open \cup {p.fd + 1, p.fd + 2} /\ q.pipes = Append(p.pipes, ends)
  BY <1>1 DEF Parse
<1>6. p.fd + 2 \in Nat /\ p.open \cup {p.fd + 1, p.fd + 2} \in SUBSET Nat
  BY DEF Parse
<1>7. q \in Parse
  BY <1>1, <1>3, <1>6 DEF Parse
<1> QED
  BY <1>3, <1>4, <1>5, <1>7 DEF ends

\* The ends of the new pipe are not in use.
LEMMA OpenPipeSound ==
    ASSUME NEW p, NEW held, NEW from, Sound(p, held, from), NEW q, q = OpenPipe(p)
    PROVE  /\ Sound(q, held, from)
           /\ \A fd : IsEnd(q, fd) <=> IsEnd(p, fd) \/ fd \in {p.fd + 1, p.fd + 2}
           /\ \A fd : IsUsed(q, fd) <=> IsUsed(p, fd)
           /\ ~IsUsed(p, p.fd + 1) /\ ~IsUsed(p, p.fd + 2)
<1>1. p \in Parse /\ from \in 2 .. p.fd
  BY DEF Sound
<1>2. /\ q \in Parse
      /\ q.calls = p.calls /\ q.order = p.order /\ q.last = p.last /\ q.sub = p.sub
      /\ q.fd = p.fd + 2
      /\ q.open = p.open \cup {p.fd + 1, p.fd + 2}
      /\ Len(q.pipes) = Len(p.pipes) + 1
      /\ DOMAIN q.pipes = 1 .. Len(p.pipes) + 1
      /\ \A k \in DOMAIN p.pipes : q.pipes[k] = p.pipes[k]
      /\ q.pipes[Len(p.pipes) + 1] = <<p.fd + 1, p.fd + 2>>
  BY <1>1, OpenPipeFacts
<1>3. /\ Len(p.pipes) \in Nat /\ DOMAIN p.pipes = 1 .. Len(p.pipes) /\ p.fd \in Nat
      /\ \A k \in DOMAIN p.pipes : p.pipes[k] \in Nat \X Nat
  BY <1>1, ParseFacts
<1> DEFINE last == Len(p.pipes) + 1
<1>4. /\ last \in DOMAIN q.pipes /\ last \notin DOMAIN p.pipes
      /\ \A k \in DOMAIN q.pipes : k = last \/ k \in DOMAIN p.pipes
      /\ \A k \in DOMAIN p.pipes : k \in DOMAIN q.pipes
      /\ q.pipes[last][1] = p.fd + 1 /\ q.pipes[last][2] = p.fd + 2
  BY <1>2, <1>3
<1> HIDE DEF last
<1>5. \A fd : IsEnd(q, fd) <=> IsEnd(p, fd) \/ fd \in {p.fd + 1, p.fd + 2}
  BY <1>2, <1>4 DEF IsEnd
<1>6. \A fd : IsUsed(q, fd) <=> IsUsed(p, fd)
  BY <1>2 DEF IsUsed
<1>7. PipesApart(p, from) /\ CallsApart(p, from) /\ HeldApart(p, held, from) /\ OpenIsKnown(p, held)
  BY DEF Sound
<1>8. PipesApart(q, from)
  <2>1. \A k \in DOMAIN q.pipes : q.pipes[k][1] \in from + 1 .. q.fd /\ q.pipes[k][2] \in from + 1 .. q.fd
    <3>1. \A fd : fd \in from + 1 .. p.fd => fd \in from + 1 .. q.fd
      BY <1>1, <1>2, <1>3
    <3>2. p.fd + 1 \in from + 1 .. q.fd /\ p.fd + 2 \in from + 1 .. q.fd
      BY <1>1, <1>2, <1>3
    <3> QED
      BY <1>2, <1>4, <1>7, <3>1, <3>2 DEF PipesApart
  <2>2. \A k \in DOMAIN p.pipes : q.pipes[k][1] <= p.fd /\ q.pipes[k][2] <= p.fd
    <3>1. \A fd : fd \in from + 1 .. p.fd => fd <= p.fd
      BY <1>1, <1>3
    <3> QED
      BY <1>2, <1>7, <3>1 DEF PipesApart
  <2>3. ASSUME NEW j \in DOMAIN q.pipes, NEW k \in DOMAIN q.pipes
        PROVE  /\ q.pipes[j][1] # q.pipes[k][2]
               /\ j # k => q.pipes[j][1] # q.pipes[k][1] /\ q.pipes[j][2] # q.pipes[k][2]
    <3>1. CASE j \in DOMAIN p.pipes /\ k \in DOMAIN p.pipes
      BY <1>2, <1>7, <3>1 DEF PipesApart
    <3>2. CASE j = last \/ k = last
      BY <1>3, <1>4, <2>2, <3>2
    <3> QED
      BY <1>4, <3>1, <3>2
  <2> QED
    BY <2>1, <2>3 DEF PipesApart
<1>9. CallsApart(q, from)
  <2>1. \A fd : fd \in from + 1 .. p.fd => fd \in from + 1 .. q.fd
    BY <1>1, <1>2, <1>3
  <2>2. DOMAIN p.pipes \subseteq DOMAIN q.pipes
    BY <1>4
  <2> QED
    BY <1>2, <1>7, <2>1, <2>2 DEF CallsApart
<1>10. \A fd : IsUsed(p, fd) => fd \in 3 .. p.fd
  BY <1>1, <1>3, <1>7 DEF CallsApart, IsUsed
<1>11. ~IsUsed(p, p.fd + 1) /\ ~IsUsed(p, p.fd + 2)
  BY <1>3, <1>10
<1>12. HeldApart(q, held, from)
  BY <1>1, <1>2, <1>3, <1>5, <1>6, <1>7 DEF HeldApart
<1>13. OpenIsKnown(q, held)
  BY <1>2, <1>5, <1>6, <1>7 DEF OpenIsKnown
<1> QED
  BY <1>1, <1>2, <1>3, <1>5, <1>6, <1>8, <1>9, <1>11, <1>12, <1>13 DEF Sound

\* Closing changes nothing but what is open.
LEMMA CloseFacts ==
    ASSUME NEW p \in Parse, NEW fds, NEW q, q = Close(p, fds)
    PROVE  /\ q \in Parse
           /\ q.calls = p.calls /\ q.order = p.order /\ q.pipes = p.pipes
           /\ q.last = p.last /\ q.sub = p.sub /\ q.fd = p.fd
           /\ q.open = p.open \ {fd \in fds : fd > 2}
BY DEF Close, Parse

\* The static variable of the substitutions says nothing of what is open.
LEMMA ResetFacts ==
    ASSUME NEW p \in Parse, NEW q, q = [p EXCEPT !.sub = NULL]
    PROVE  /\ q \in Parse
           /\ q.calls = p.calls /\ q.order = p.order /\ q.pipes = p.pipes
           /\ q.last = p.last /\ q.sub = NULL /\ q.open = p.open /\ q.fd = p.fd
BY DEF Parse, NULL

\* The static variable of the substitutions does not matter to soundness.
LEMMA ResetKeeps ==
    ASSUME NEW p \in Parse, NEW q, q = [p EXCEPT !.sub = NULL]
    PROVE  /\ \A fd : (IsEnd(q, fd) <=> IsEnd(p, fd)) /\ (IsUsed(q, fd) <=> IsUsed(p, fd))
           /\ \A held, from : Sound(p, held, from) => Sound(q, held, from)
           /\ \A pending : Ordered(p, pending) => Ordered(q, pending)
<1>1. /\ q \in Parse
      /\ q.calls = p.calls /\ q.order = p.order /\ q.pipes = p.pipes
      /\ q.last = p.last /\ q.sub = NULL /\ q.open = p.open /\ q.fd = p.fd
  BY ResetFacts
<1>2. \A fd : (IsEnd(q, fd) <=> IsEnd(p, fd)) /\ (IsUsed(q, fd) <=> IsUsed(p, fd))
  BY <1>1 DEF IsEnd, IsUsed
<1>3. ASSUME NEW held, NEW from, Sound(p, held, from) PROVE Sound(q, held, from)
  BY <1>1, <1>2, <1>3 DEF Sound, PipesApart, CallsApart, HeldApart, OpenIsKnown
<1>4. ASSUME NEW pending, Ordered(p, pending) PROVE Ordered(q, pending)
  <2>1. \A m : IsLive(q, m) <=> IsLive(p, m)
    BY <1>1 DEF IsLive
  <2>2. Addressed(q)
    BY <1>1, <1>4, ParseFacts DEF Ordered, Addressed, NULL
  <2> QED
    BY <1>1, <1>4, <2>1, <2>2 DEF Ordered
<1> QED
  BY <1>2, <1>3, <1>4

\* What is closed need not be found or held any more.
LEMMA CloseRefused ==
    ASSUME NEW p, NEW fds, NEW held, NEW from,
           NEW more, more \subseteq held \cup fds, Refused(p, more, from),
           NEW q, q = Close(p, fds)
    PROVE  Refused(q, held, from)
<1>1. p \in Parse
  BY DEF Refused
<1>2. /\ q \in Parse
      /\ q.calls = p.calls /\ q.order = p.order /\ q.pipes = p.pipes
      /\ q.last = p.last /\ q.sub = p.sub /\ q.fd = p.fd
      /\ q.open = p.open \ {fd \in fds : fd > 2}
  BY <1>1, CloseFacts
<1>3. Addressed(q)
  BY <1>2 DEF Addressed, Refused
<1>4. ASSUME NEW fd \in q.open PROVE fd > 2 /\ (fd \in held \/ IsEnd(q, fd) \/ IsOwned(q, fd))
  <2>1. fd > 2 /\ fd \notin fds /\ (fd \in held \cup fds \/ IsEnd(p, fd) \/ IsOwned(p, fd))
    BY <1>2, <1>4 DEF Refused
  <2> QED
    BY <1>2, <2>1 DEF IsEnd, IsOwned, IsLive
<1> QED
  BY <1>2, <1>3, <1>4 DEF Refused

\* A descriptor that comes next is not there yet.
LEMMA FreshFacts ==
    ASSUME NEW p, NEW held, NEW from, Sound(p, held, from), NEW fd \in Nat, fd > p.fd
    PROVE  ~IsEnd(p, fd) /\ ~IsUsed(p, fd) /\ fd \notin held
<1>1. p.fd \in Nat /\ from \in 2 .. p.fd
  BY ParseFacts DEF Sound
<1>2. ~IsEnd(p, fd)
  BY <1>1 DEF Sound, PipesApart, IsEnd
<1>3. ~IsUsed(p, fd)
  BY <1>1 DEF Sound, CallsApart, IsUsed
<1>4. fd \notin held
  BY <1>1 DEF Sound, HeldApart
<1> QED
  BY <1>2, <1>3, <1>4

\* An end that is kept is an end, and an end of the pipes there are.
LEMMA KeptFacts ==
    ASSUME NEW p, NEW h, Waits(p, h), NEW q, DOMAIN p.pipes \subseteq DOMAIN q.pipes,
           \A k \in DOMAIN p.pipes : q.pipes[k] = p.pipes[k],
           \A fd : IsUsed(q, fd) => IsUsed(p, fd) \/ ~IsKept(p, h, fd)
    PROVE  /\ Waits(q, h)
           /\ \A fd : IsKept(q, h, fd) <=> IsKept(p, h, fd)
           /\ \A fd : IsKept(p, h, fd) => IsEnd(p, fd)
<1>1. h.waiting \subseteq DOMAIN p.pipes /\ \A fd : IsKept(p, h, fd) => ~IsUsed(p, fd)
  BY DEF Waits
<1>2. \A k \in h.waiting : q.pipes[k] = p.pipes[k] /\ k \in DOMAIN q.pipes /\ k \in DOMAIN p.pipes
  BY <1>1
<1>3. \A fd : IsKept(q, h, fd) <=> IsKept(p, h, fd)
  BY <1>2 DEF IsKept
<1>4. \A fd : IsKept(p, h, fd) => IsEnd(p, fd)
  BY <1>2 DEF IsKept, IsEnd
<1>5. Waits(q, h)
  BY <1>1, <1>2, <1>3 DEF Waits
<1> QED
  BY <1>3, <1>4, <1>5

\* As long as every call can be found, so can all that is open.
LEMMA SoundRefused ==
    ASSUME NEW p, NEW held, NEW from, Sound(p, held, from), Ordered(p, {})
    PROVE  Refused(p, held, from)
<1>1. p \in Parse /\ from \in 2 .. p.fd /\ Addressed(p)
  BY DEF Sound, Ordered
<1>2. p.fd \in Nat
  BY <1>1, ParseFacts
<1>3. ASSUME NEW fd \in p.open PROVE fd > 2 /\ (fd \in held \/ IsEnd(p, fd) \/ IsOwned(p, fd))
  <2>1. CASE fd \in held
    BY <1>1, <1>2, <2>1 DEF Sound, HeldApart
  <2>2. CASE IsEnd(p, fd)
    BY <1>1, <1>2, <2>2 DEF Sound, PipesApart, IsEnd
  <2>3. CASE IsUsed(p, fd)
    BY <2>3 DEF Ordered, IsUsed, IsOwned
  <2> QED
    BY <2>1, <2>2, <2>3 DEF Sound, OpenIsKnown
<1> QED
  BY <1>1, <1>3 DEF Refused

\* An error closes what the builder owns, which is all that was not known.
LEMMA ErrorRefused ==
    ASSUME NEW p, NEW b, b \in Builder, Len(b.fds) = 3, NEW held, NEW from,
           NEW more, more \subseteq held \cup {b.fds[1], b.fds[2], b.fds[3]}, Refused(p, more, from),
           NEW r, r = Error(p, b)
    PROVE  /\ r \in Result /\ r.b = b /\ ~r.ok
           /\ Refused(r.p, held, from)
<1>1. Range(b.fds) = {b.fds[1], b.fds[2], b.fds[3]}
  <2>1. b.fds \in Seq(Int)
    BY DEF Builder
  <2>2. DOMAIN b.fds = 1 .. 3
    BY <2>1, LenProperties
  <2> QED
    BY <2>2 DEF Range
<1>2. r.p = Close(p, {b.fds[1], b.fds[2], b.fds[3]}) /\ r.b = b /\ r.ok = FALSE
  BY <1>1 DEF Error
<1>3. Refused(r.p, held, from)
  BY <1>2, CloseRefused
<1>4. r \in Result
  <2>1. r = [p |-> Close(p, {b.fds[1], b.fds[2], b.fds[3]}), b |-> b, ok |-> FALSE]
    BY <1>1 DEF Error
  <2>2. Close(p, {b.fds[1], b.fds[2], b.fds[3]}) \in Parse
    BY <1>2, <1>3 DEF Refused
  <2> QED
    BY <2>1, <2>2 DEF Result
<1> QED
  BY <1>2, <1>3, <1>4

\* The loop gives up: what its builder has is closed.
LEMMA ErrorGoing ==
    ASSUME NEW s, NEW h \in Context, Going(s, h), NEW r, r = Error(s.p, s.b)
    PROVE  /\ r \in Result /\ ~r.ok
           /\ Refused(r.p, h.held, h.from)
<1>1. Refused(s.p, h.held \cup Own(s.b, s.p), h.from)
  BY SoundRefused DEF Going
<1>2. Own(s.b, s.p) \subseteq {s.b.fds[1], s.b.fds[2], s.b.fds[3]}
  BY DEF Own
<1>3. s.b \in Builder /\ Len(s.b.fds) = 3
  BY DEF Going, BuilderApart
<1>4. h.held \cup Own(s.b, s.p) \subseteq h.held \cup {s.b.fds[1], s.b.fds[2], s.b.fds[3]}
  BY <1>2
<1> QED
  BY <1>1, <1>3, <1>4, ErrorRefused

\* A file takes the place of the one the builder had, which is closed.
LEMMA RedirectionKeeps ==
    ASSUME NEW s, NEW h \in Context, Going(s, h), FilesOnly(s),
           NEW symbol, NEW filename, NEW r, r = parse_redirections(s.p, s.b, symbol, filename)
    PROVE  /\ r \in Result
           /\ IF r.ok THEN Going(r, h) /\ FilesOnly(r) /\ r.p.sub = s.p.sub
              ELSE Refused(r.p, h.held, h.from)
<1> DEFINE i == RedirectedFd(symbol)
<1>1. CASE i = 0 \/ filename \in Unopenable
  <2>1. r = Error(s.p, s.b)
    BY <1>1 DEF parse_redirections
  <2> QED
    BY <2>1, ErrorGoing
<1>2. CASE i # 0 /\ filename \notin Unopenable
  <2>1. i \in 1 .. 3
    BY <1>2 DEF RedirectedFd
  <2> DEFINE p == s.p
             b == s.b
             f == p.fd + 1
             c == Close(p, {b.fds[i]})
  <2> HIDE DEF i
  <2>2. r = Success([c EXCEPT !.open = c.open \cup {f}, !.fd = c.fd + 1], [b EXCEPT !.fds[i] = f])
    BY <1>2, <2>1, CloseFacts DEF parse_redirections, i, Going, Sound
  <2>3. p \in Parse /\ h.from \in 2 .. p.fd /\ p.fd \in Nat /\ b \in Builder /\ Len(b.fds) = 3 /\ b.fds \in Seq(Int)
    BY ParseFacts DEF Going, Sound, BuilderApart, Builder
  <2>4. /\ c \in Parse /\ c.open = p.open \ {fd \in {b.fds[i]} : fd > 2} /\ c.fd = p.fd
        /\ c.calls = p.calls /\ c.order = p.order /\ c.pipes = p.pipes /\ c.last = p.last /\ c.sub = p.sub
    BY <2>3, CloseFacts
  <2> HIDE DEF c
  <2>5. f \in Nat /\ c.open \cup {f} \in SUBSET Nat /\ c.fd + 1 \in Nat
    BY <2>3, <2>4, ParseFacts
  <2> HIDE DEF f
  <2>6. r.p = [c EXCEPT !.open = c.open \cup {f}, !.fd = c.fd + 1] /\ r.b = [b EXCEPT !.fds[i] = f] /\ r.ok = TRUE
    BY <2>2 DEF Success
  <2>7. r.p \in Parse
    BY <2>4, <2>5, <2>6 DEF Parse
  <2>8. /\ r.p.calls = p.calls /\ r.p.order = p.order /\ r.p.pipes = p.pipes /\ r.p.last = p.last
        /\ r.p.sub = p.sub /\ r.p.fd = p.fd + 1 /\ r.p.open = c.open \cup {f}
    BY <2>4, <2>6 DEF Parse
  <2>9. /\ r.b \in Builder /\ Len(r.b.fds) = 3
        /\ r.b.reads = b.reads /\ r.b.writes = b.writes
        /\ \A k \in 1 .. 3 : r.b.fds[k] = IF k = i THEN f ELSE b.fds[k]
    <3>1. r.b = [b EXCEPT !.fds = [b.fds EXCEPT ![i] = f]]
      BY <2>6
    <3>2. /\ [b.fds EXCEPT ![i] = f] \in Seq(Int)
          /\ Len([b.fds EXCEPT ![i] = f]) = 3
          /\ \A k \in 1 .. 3 : [b.fds EXCEPT ![i] = f][k] = IF k = i THEN f ELSE b.fds[k]
      <4>1. i \in 1 .. Len(b.fds) /\ f \in Int
        BY <2>1, <2>3, <2>5
      <4> HIDE DEF b
      <4> QED
        BY <2>3, <4>1, ExceptSeq
    <3> QED
      BY <2>3, <3>1, <3>2 DEF Builder
  <2>10. r \in Result
    BY <2>2, <2>6, <2>7, <2>9 DEF Result, Success
  <2>11. \A fd : (IsEnd(r.p, fd) <=> IsEnd(p, fd)) /\ (IsUsed(r.p, fd) <=> IsUsed(p, fd))
    BY <2>8 DEF IsEnd, IsUsed
  <2>12. ~IsEnd(p, f) /\ ~IsUsed(p, f) /\ f \notin h.held
    <3>1. f > p.fd
      BY <2>3 DEF f
    <3>2. Sound(p, h.held \cup Own(b, p), h.from)
      BY DEF Going
    <3>3. ~IsEnd(p, f) /\ ~IsUsed(p, f) /\ f \notin h.held \cup Own(b, p)
      BY <2>5, <3>1, <3>2, FreshFacts
    <3> QED
      BY <3>3
  <2>13. FilesOnly(r)
    BY <2>9, <2>11, <2>12 DEF FilesOnly
  <2>14. /\ \A k \in 1 .. 3 : \/ b.fds[k] = UNINITIALIZED_FD
                              \/ b.fds[k] \in h.from + 1 .. p.fd /\ b.fds[k] \notin h.held /\ ~IsUsed(p, b.fds[k])
         /\ \A j, k \in 1 .. 3 : j # k => b.fds[j] # b.fds[k] \/ b.fds[j] = UNINITIALIZED_FD
         /\ b.reads \cup b.writes \subseteq DOMAIN p.pipes
    BY DEF Going, BuilderApart
  <2>15. Waits(r.p, h) /\ (\A fd : IsKept(r.p, h, fd) <=> IsKept(p, h, fd)) /\ ~IsKept(p, h, f)
    <3>1. Waits(p, h)
      BY DEF Going
    <3>2. \A fd : IsUsed(r.p, fd) => IsUsed(p, fd)
      BY <2>11
    <3> HIDE DEF p, f
    <3> QED
      BY <2>8, <2>12, <3>1, <3>2, KeptFacts
  <2>16. f \in h.from + 1 .. r.p.fd /\ \A fd \in h.from + 1 .. p.fd : fd \in h.from + 1 .. r.p.fd /\ fd # f
    BY <2>3, <2>8 DEF f
  <2>17. BuilderApart(r.b, r.p, h)
    <3>1. \A k \in 1 .. 3 : \/ r.b.fds[k] = UNINITIALIZED_FD
                            \/ /\ r.b.fds[k] \in h.from + 1 .. r.p.fd
                               /\ r.b.fds[k] \notin h.held /\ ~IsUsed(r.p, r.b.fds[k])
      BY <2>9, <2>11, <2>12, <2>14, <2>16
    <3>2. \A j, k \in 1 .. 3 : j # k => r.b.fds[j] # r.b.fds[k] \/ r.b.fds[j] = UNINITIALIZED_FD
      <4> SUFFICES ASSUME NEW j \in 1 .. 3, NEW k \in 1 .. 3, j # k
                   PROVE  r.b.fds[j] # r.b.fds[k] \/ r.b.fds[j] = UNINITIALIZED_FD
        OBVIOUS
      <4>1. \A n \in 1 .. 3 : b.fds[n] # f
        BY <2>5, <2>14, <2>16 DEF UNINITIALIZED_FD
      <4>2. CASE j = i \/ k = i
        BY <2>9, <4>1, <4>2
      <4>3. CASE j # i /\ k # i
        BY <2>9, <2>14, <4>3
      <4> QED
        BY <4>2, <4>3
    <3>3. \A k \in 1 .. 3 : ~IsKept(p, h, b.fds[k])
      BY DEF Going, BuilderApart
    <3>4. \A k \in 1 .. 3 : ~IsKept(r.p, h, r.b.fds[k])
      BY <2>9, <2>15, <3>3
    <3> QED
      BY <2>8, <2>9, <2>14, <3>1, <3>2, <3>4 DEF BuilderApart
  <2>18. \A fd : fd \in Own(r.b, r.p) <=> fd = f \/ (fd \in Own(b, p) /\ fd # b.fds[i])
    <3>1. \A fd : fd \in Own(r.b, r.p) <=> fd > 2 /\ \E k \in 1 .. 3 : fd = r.b.fds[k]
      BY <2>13 DEF Own, FilesOnly
    <3>2. \A fd : fd \in Own(b, p) <=> fd > 2 /\ \E k \in 1 .. 3 : fd = b.fds[k]
      BY DEF Own, FilesOnly
    <3>3. f > 2
      BY <2>3 DEF f
    <3>4. ASSUME NEW k \in 1 .. 3, k # i, b.fds[k] > 2 PROVE b.fds[k] # b.fds[i]
      BY <2>1, <2>14, <3>4 DEF UNINITIALIZED_FD
    <3> QED
      BY <2>1, <2>9, <3>1, <3>2, <3>3, <3>4
  <2>19. Sound(r.p, h.held \cup Own(r.b, r.p), h.from)
    <3>1. Sound(p, h.held \cup Own(b, p), h.from)
      BY DEF Going
    <3>2. PipesApart(r.p, h.from) /\ CallsApart(r.p, h.from)
      BY <2>8, <2>16, <3>1 DEF Sound, PipesApart, CallsApart
    <3>3. HeldApart(r.p, h.held \cup Own(r.b, r.p), h.from)
      BY <2>11, <2>12, <2>16, <2>18, <3>1 DEF Sound, HeldApart
    <3>4. b.fds[i] > 2 => b.fds[i] \notin h.held /\ ~IsEnd(p, b.fds[i]) /\ ~IsUsed(p, b.fds[i])
      BY <2>1, <2>14 DEF FilesOnly, UNINITIALIZED_FD
    <3>5. \A fd \in Own(b, p) : fd > 2
      BY DEF Own
    <3>6. \A fd : fd \in p.open <=> fd \in h.held \/ fd \in Own(b, p) \/ IsEnd(p, fd) \/ IsUsed(p, fd)
      BY <3>1 DEF Sound, OpenIsKnown
    <3>7. \A fd : fd \in r.p.open <=> fd = f \/ (fd \in p.open /\ ~(fd = b.fds[i] /\ fd > 2))
      BY <2>4, <2>8
    <3>8. OpenIsKnown(r.p, h.held \cup Own(r.b, r.p))
      BY <2>11, <2>18, <3>4, <3>5, <3>6, <3>7 DEF OpenIsKnown
    <3>9. h.from \in 2 .. r.p.fd
      BY <2>3, <2>8
    <3> QED
      BY <2>7, <3>2, <3>3, <3>8, <3>9 DEF Sound
  <2>20. Ordered(r.p, {}) /\ Excess(r.p) = h.excess /\ h.pipes <= Len(r.p.pipes)
    <3>1. Ordered(p, {}) /\ Excess(p) = h.excess /\ h.pipes <= Len(p.pipes)
      BY DEF Going
    <3>2. \A n : IsLive(r.p, n) <=> IsLive(p, n)
      BY <2>8 DEF IsLive
    <3>3. Addressed(r.p)
      BY <2>8, <3>1 DEF Ordered, Addressed
    <3>4. Ordered(r.p, {})
      BY <2>8, <3>1, <3>2, <3>3 DEF Ordered
    <3> QED
      BY <2>8, <3>1, <3>4 DEF Excess
  <2> QED
    BY <2>6, <2>15, <2>8, <2>10, <2>13, <2>17, <2>19, <2>20 DEF Going
<1> QED
  BY <1>1, <1>2

\* r differs from q in one call, which has taken f.
Relinked(q, r, held, from, f) ==
    /\ Sound(r, held, from)
    /\ r.order = q.order /\ r.pipes = q.pipes /\ r.last = q.last /\ r.sub = q.sub /\ r.fd = q.fd
    /\ Len(r.calls) = Len(q.calls) /\ DOMAIN r.calls = DOMAIN q.calls
    /\ \A fd : IsUsed(r, fd) <=> IsUsed(q, fd) \/ fd = f
    /\ \A fd : IsEnd(r, fd) <=> IsEnd(q, fd)
    /\ \A pending : Ordered(q, pending) => Ordered(r, pending)

\* A call is linked to the end f of a pipe, in the place of a standard descriptor.
LEMMA CallLinked ==
    ASSUME NEW q, NEW held, NEW from, Sound(q, held, from),
           NEW n \in DOMAIN q.calls, NEW new \in CallType,
           NEW f \in from + 1 .. q.fd, IsEnd(q, f), ~IsUsed(q, f),
           f \in CallFds(new), \A fd \in CallFds(new) : fd = f \/ fd \in CallFds(q.calls[n]),
           \A fd \in CallFds(q.calls[n]) : fd > 2 => fd \in CallFds(new),
           new.reads \cup new.writes \subseteq DOMAIN q.pipes,
           NEW r, r = [q EXCEPT !.calls = [q.calls EXCEPT ![n] = new]]
    PROVE  Relinked(q, r, held, from, f)
<1>1. q \in Parse /\ from \in 2 .. q.fd /\ q.fd \in Nat /\ q.calls \in Seq(CallType)
  BY ParseFacts DEF Sound, Parse
<1>2. /\ [q.calls EXCEPT ![n] = new] \in Seq(CallType)
      /\ Len([q.calls EXCEPT ![n] = new]) = Len(q.calls)
      /\ \A m \in 1 .. Len(q.calls) : [q.calls EXCEPT ![n] = new][m] = IF m = n THEN new ELSE q.calls[m]
      /\ DOMAIN q.calls = 1 .. Len(q.calls)
  BY <1>1, LenProperties, ExceptSeq
<1>3. /\ r \in Parse /\ r.calls = [q.calls EXCEPT ![n] = new]
      /\ r.order = q.order /\ r.pipes = q.pipes /\ r.last = q.last /\ r.sub = q.sub
      /\ r.fd = q.fd /\ r.open = q.open
  BY <1>1, <1>2 DEF Parse
<1>4. /\ Len(r.calls) = Len(q.calls) /\ DOMAIN r.calls = DOMAIN q.calls
      /\ r.calls[n] = new /\ \A m \in DOMAIN q.calls : m # n => r.calls[m] = q.calls[m]
  BY <1>2, <1>3, LenProperties
<1>5. f > 2
  BY <1>1
<1>6. \A fd : IsUsed(r, fd) <=> IsUsed(q, fd) \/ fd = f
  <2>1. ASSUME NEW fd, IsUsed(r, fd) PROVE IsUsed(q, fd) \/ fd = f
    BY <1>4, <2>1 DEF IsUsed
  <2>2. ASSUME NEW fd, IsUsed(q, fd) PROVE IsUsed(r, fd)
    <3>1. PICK m \in DOMAIN q.calls : fd > 2 /\ fd \in CallFds(q.calls[m])
      BY <2>2 DEF IsUsed
    <3>2. fd \in CallFds(r.calls[m])
      BY <1>4, <3>1
    <3> QED
      BY <1>4, <3>1, <3>2 DEF IsUsed
  <2>3. IsUsed(r, f)
    BY <1>4, <1>5 DEF IsUsed
  <2> QED
    BY <2>1, <2>2, <2>3
<1>7. \A fd : IsEnd(r, fd) <=> IsEnd(q, fd)
  BY <1>3 DEF IsEnd
<1>8. PipesApart(q, from) /\ CallsApart(q, from) /\ HeldApart(q, held, from) /\ OpenIsKnown(q, held)
  BY DEF Sound
<1>9. CallsApart(r, from)
  <2>1. ASSUME NEW m \in DOMAIN r.calls
        PROVE  /\ \A fd \in CallFds(r.calls[m]) : fd \in 0 .. 2 \/ fd \in from + 1 .. r.fd
               /\ r.calls[m].reads \cup r.calls[m].writes \subseteq DOMAIN r.pipes
    BY <1>3, <1>4, <1>8 DEF CallsApart
  <2>2. ASSUME NEW m \in DOMAIN r.calls, m # n,
               NEW fd \in CallFds(r.calls[m]), fd \in CallFds(new)
        PROVE  fd <= 2
    <3>1. fd \in CallFds(q.calls[m])
      BY <1>4, <2>2
    <3>2. CASE fd = f
      <4>1. ~(f > 2)
        BY <1>4, <2>2, <3>1, <3>2 DEF IsUsed
      <4> QED
        BY <1>5, <4>1
    <3>3. CASE fd \in CallFds(q.calls[n])
      BY <1>4, <1>8, <2>2, <3>1, <3>3 DEF CallsApart
    <3> QED
      BY <2>2, <3>2, <3>3
  <2>3. ASSUME NEW l \in DOMAIN r.calls, NEW m \in DOMAIN r.calls, l # m,
               NEW fd \in CallFds(r.calls[l]) \cap CallFds(r.calls[m])
        PROVE  fd <= 2
    <3>1. CASE l = n \/ m = n
      BY <1>4, <2>2, <2>3, <3>1
    <3>2. CASE l # n /\ m # n
      BY <1>4, <1>8, <2>3, <3>2 DEF CallsApart
    <3> QED
      BY <3>1, <3>2
  <2> QED
    BY <2>1, <2>3 DEF CallsApart
<1>10. PipesApart(r, from)
  BY <1>3, <1>8 DEF PipesApart
<1>11. HeldApart(r, held, from)
  BY <1>3, <1>6, <1>7, <1>8 DEF HeldApart
<1>12. OpenIsKnown(r, held)
  BY <1>3, <1>6, <1>7, <1>8 DEF OpenIsKnown
<1>13. ASSUME NEW pending, Ordered(q, pending) PROVE Ordered(r, pending)
  <2>1. \A m : IsLive(r, m) <=> IsLive(q, m)
    BY <1>3 DEF IsLive
  <2>2. Addressed(r)
    BY <1>3, <1>4, <1>13 DEF Ordered, Addressed
  <2> QED
    BY <1>3, <1>4, <1>13, <2>1, <2>2 DEF Ordered
<1>14. Sound(r, held, from)
  BY <1>1, <1>3, <1>9, <1>10, <1>11, <1>12 DEF Sound
<1> QED
  BY <1>3, <1>4, <1>6, <1>7, <1>13, <1>14 DEF Relinked

\* The call that is pending is added.
LEMMA CallAdded ==
    ASSUME NEW p, NEW held, NEW from, Sound(p, held, from),
           NEW n \in DOMAIN p.calls, Ordered(p, {n}), n # p.last,
           NEW r, r = AddCallAtTheEnd(p, n)
    PROVE  /\ Sound(r, held, from)
           /\ Ordered(r, {})
           /\ r.calls = p.calls /\ r.pipes = p.pipes /\ r.last = p.last /\ r.sub = p.sub /\ r.fd = p.fd
           /\ \A fd : IsUsed(r, fd) <=> IsUsed(p, fd)
           /\ \A fd : IsEnd(r, fd) <=> IsEnd(p, fd)
<1>1. p \in Parse /\ p.order \in Seq(Nat) /\ n \in Nat
  BY ParseFacts DEF Sound, Parse
<1>2. /\ Append(p.order, n) \in Seq(Nat)
      /\ Len(Append(p.order, n)) = Len(p.order) + 1
      /\ \A k \in 1 .. Len(p.order) : Append(p.order, n)[k] = p.order[k]
      /\ Append(p.order, n)[Len(p.order) + 1] = n
      /\ DOMAIN p.order = 1 .. Len(p.order) /\ Len(p.order) \in Nat
  BY <1>1, AppendProperties, LenProperties
<1>3. DOMAIN Append(p.order, n) = 1 .. Len(p.order) + 1
  BY <1>2, LenProperties
<1>4. r = [p EXCEPT !.order = Append(p.order, n)]
  BY DEF AddCallAtTheEnd
<1>5. /\ r \in Parse /\ r.order = Append(p.order, n)
      /\ r.calls = p.calls /\ r.pipes = p.pipes /\ r.last = p.last /\ r.sub = p.sub
      /\ r.fd = p.fd /\ r.open = p.open
  BY <1>1, <1>2, <1>4 DEF Parse
<1>6. /\ \A fd : IsUsed(r, fd) <=> IsUsed(p, fd)
      /\ \A fd : IsEnd(r, fd) <=> IsEnd(p, fd)
  BY <1>5 DEF IsUsed, IsEnd
<1>7. Sound(r, held, from)
  BY <1>5, <1>6 DEF Sound, PipesApart, CallsApart, HeldApart, OpenIsKnown
<1> DEFINE added == Len(p.order) + 1
<1>8. /\ added \in DOMAIN r.order /\ added \notin DOMAIN p.order /\ r.order[added] = n
      /\ \A k \in DOMAIN r.order : k = added \/ k \in DOMAIN p.order
      /\ \A k \in DOMAIN p.order : k \in DOMAIN r.order /\ r.order[k] = p.order[k]
  BY <1>2, <1>3, <1>5
<1> HIDE DEF added
<1>9. \A m : IsLive(r, m) <=> IsLive(p, m) \/ m = n
  <2>1. ASSUME NEW m, IsLive(r, m) PROVE IsLive(p, m) \/ m = n
    BY <1>5, <1>8, <2>1 DEF IsLive
  <2>2. ASSUME NEW m, IsLive(p, m) PROVE IsLive(r, m)
    BY <1>5, <1>8, <2>2 DEF IsLive
  <2>3. IsLive(r, n)
    BY <1>8 DEF IsLive
  <2> QED
    BY <2>1, <2>2, <2>3
<1>10. Addressed(r)
  BY <1>5, <1>8 DEF Ordered, Addressed
<1>11. Ordered(r, {})
  BY <1>5, <1>8, <1>9, <1>10 DEF Ordered
<1> QED
  BY <1>5, <1>6, <1>7, <1>11

\* The call is built and takes over what its builder has.
LEMMA BuildCallKeeps ==
    ASSUME NEW s, NEW h \in Context, NEW inside \in BOOLEAN, NEW pipeline \in BOOLEAN,
           Going(s, h), SubInPlace(s.p, inside), NEW at \in Nat, NEW name \in Words,
           pipeline => s.b.fds[1] = UNINITIALIZED_FD,
           NEW c, c = BuildCall(s.p, s.b, at, name, inside)
    PROVE  CallParsed(c, h, inside, pipeline)
<1> DEFINE call == Len(s.p.calls) + 1
           built == [at |-> at, name |-> name, stdin |-> OrStandard(s.b, 1), stdout |-> OrStandard(s.b, 2),
                     stderr |-> OrStandard(s.b, 3), reads |-> s.b.reads, writes |-> s.b.writes,
                     files |-> s.b.files]
           last == IF s.p.last = NULL /\ ~inside THEN call ELSE s.p.last
           sub == IF s.p.sub = NULL /\ inside THEN call ELSE s.p.sub
<1>1. /\ s.p \in Parse /\ h.from \in 2 .. s.p.fd /\ Sound(s.p, h.held \cup Own(s.b, s.p), h.from)
      /\ BuilderApart(s.b, s.p, h) /\ Ordered(s.p, {}) /\ Excess(s.p) = h.excess /\ h.pipes <= Len(s.p.pipes)
  BY DEF Going, Sound
<1>2. /\ Len(s.p.calls) \in Nat /\ DOMAIN s.p.calls = 1 .. Len(s.p.calls) /\ s.p.calls \in Seq(CallType)
      /\ s.p.last \in Nat /\ s.p.sub \in Int /\ s.p.fd \in Nat
  BY <1>1, ParseFacts DEF Parse
<1>3. /\ c.call = call
      /\ c.p = [s.p EXCEPT !.calls = Append(s.p.calls, built), !.last = last, !.sub = sub]
  BY DEF BuildCall
<1>4. /\ s.b \in Builder
      /\ \A k \in 1 .. 3 : s.b.fds[k] = UNINITIALIZED_FD
                           \/ (/\ s.b.fds[k] \in h.from + 1 .. s.p.fd
                               /\ s.b.fds[k] \notin h.held /\ ~IsUsed(s.p, s.b.fds[k]))
      /\ s.b.reads \cup s.b.writes \subseteq DOMAIN s.p.pipes
  BY <1>1 DEF BuilderApart
<1>5. \A k \in 1 .. 3 : IF s.b.fds[k] = UNINITIALIZED_FD
                        THEN OrStandard(s.b, k) = k - 1
                        ELSE OrStandard(s.b, k) = s.b.fds[k] /\ s.b.fds[k] > 2
  BY <1>1, <1>2, <1>4 DEF OrStandard
<1>6. \A k \in 1 .. 3 : OrStandard(s.b, k) \in Nat
  BY <1>1, <1>2, <1>4, <1>5
<1>7. built \in CallType
  <2>1. s.b.reads \in SUBSET Nat /\ s.b.writes \in SUBSET Nat /\ s.b.files \in SUBSET Nat
    BY <1>4 DEF Builder
  <2> QED
    BY <1>6, <2>1 DEF CallType
<1>8. \A fd : fd \in CallFds(built) <=> \E k \in 1 .. 3 : fd = OrStandard(s.b, k)
  BY DEF CallFds
<1>9. built.stdin = OrStandard(s.b, 1) /\ built.reads = s.b.reads /\ built.writes = s.b.writes
  OBVIOUS
<1> HIDE DEF built
<1>10. /\ Append(s.p.calls, built) \in Seq(CallType)
       /\ Len(Append(s.p.calls, built)) = call
       /\ DOMAIN Append(s.p.calls, built) = 1 .. call
       /\ \A n \in 1 .. Len(s.p.calls) : Append(s.p.calls, built)[n] = s.p.calls[n]
       /\ Append(s.p.calls, built)[call] = built
  BY <1>2, <1>7, AppendProperties, LenProperties
<1>11. last \in Nat /\ sub \in Int
  BY <1>2
<1> HIDE DEF last, sub
<1>12. /\ c.p \in Parse /\ c.p.calls = Append(s.p.calls, built) /\ c.p.last = last /\ c.p.sub = sub
       /\ c.p.order = s.p.order /\ c.p.pipes = s.p.pipes /\ c.p.fd = s.p.fd /\ c.p.open = s.p.open
  BY <1>1, <1>3, <1>10, <1>11 DEF Parse
<1>13. /\ call \in DOMAIN c.p.calls /\ call \notin DOMAIN s.p.calls /\ c.p.calls[call] = built
       /\ \A n \in DOMAIN c.p.calls : n = call \/ n \in DOMAIN s.p.calls
       /\ \A n \in DOMAIN s.p.calls : n \in DOMAIN c.p.calls /\ c.p.calls[n] = s.p.calls[n]
       /\ Len(c.p.calls) = Len(s.p.calls) + 1
  BY <1>2, <1>10, <1>12
<1> HIDE DEF call
<1>14. \A fd : IsEnd(c.p, fd) <=> IsEnd(s.p, fd)
  BY <1>12 DEF IsEnd
<1>15. \A fd \in CallFds(built) : fd > 2 => \E k \in 1 .. 3 : fd = s.b.fds[k]
  BY <1>5, <1>8
<1>16. \A fd : IsUsed(c.p, fd) <=> IsUsed(s.p, fd) \/ (fd > 2 /\ \E k \in 1 .. 3 : fd = s.b.fds[k])
  <2>1. ASSUME NEW fd, IsUsed(c.p, fd), ~IsUsed(s.p, fd) PROVE fd > 2 /\ \E k \in 1 .. 3 : fd = s.b.fds[k]
    BY <1>13, <1>15, <2>1 DEF IsUsed
  <2>2. ASSUME NEW fd, IsUsed(s.p, fd) PROVE IsUsed(c.p, fd)
    BY <1>13, <2>2 DEF IsUsed
  <2>3. ASSUME NEW fd, fd > 2, NEW k \in 1 .. 3, fd = s.b.fds[k] PROVE IsUsed(c.p, fd)
    <3>1. fd \in CallFds(built)
      BY <1>5, <1>8, <2>3 DEF UNINITIALIZED_FD
    <3> QED
      BY <1>13, <2>3, <3>1 DEF IsUsed
  <2> QED
    BY <2>1, <2>2, <2>3
<1>17. /\ PipesApart(s.p, h.from) /\ CallsApart(s.p, h.from)
       /\ HeldApart(s.p, h.held \cup Own(s.b, s.p), h.from)
       /\ OpenIsKnown(s.p, h.held \cup Own(s.b, s.p))
  BY <1>1 DEF Sound
<1>18. CallsApart(c.p, h.from)
  <2>1. \A fd \in CallFds(built) : fd \in 0 .. 2 \/ fd \in h.from + 1 .. s.p.fd
    BY <1>4, <1>5, <1>8
  <2>2. ASSUME NEW n \in DOMAIN s.p.calls, NEW fd \in CallFds(s.p.calls[n]), fd \in CallFds(built), ~(fd <= 2)
        PROVE  FALSE
    <3>1. fd > 2
      BY <1>1, <1>2, <2>1, <2>2
    <3>2. IsUsed(s.p, fd)
      BY <2>2, <3>1 DEF IsUsed
    <3>3. PICK k \in 1 .. 3 : fd = s.b.fds[k]
      BY <1>15, <2>2, <3>1
    <3> QED
      BY <1>4, <3>1, <3>2, <3>3 DEF UNINITIALIZED_FD
  <2>3. \A m, n \in DOMAIN c.p.calls :
           m # n => \A fd \in CallFds(c.p.calls[m]) \cap CallFds(c.p.calls[n]) : fd <= 2
    <3>1. \A m, n \in DOMAIN s.p.calls :
             m # n => \A fd \in CallFds(c.p.calls[m]) \cap CallFds(c.p.calls[n]) : fd <= 2
      BY <1>13, <1>17 DEF CallsApart
    <3>2. \A m \in DOMAIN s.p.calls : \A fd \in CallFds(c.p.calls[m]) \cap CallFds(c.p.calls[call]) : fd <= 2
      BY <1>13, <2>2
    <3> QED
      BY <1>13, <3>1, <3>2
  <2>4. \A n \in DOMAIN c.p.calls :
           /\ \A fd \in CallFds(c.p.calls[n]) : fd \in 0 .. 2 \/ fd \in h.from + 1 .. c.p.fd
           /\ c.p.calls[n].reads \cup c.p.calls[n].writes \subseteq DOMAIN c.p.pipes
    BY <1>4, <1>9, <1>12, <1>13, <1>17, <2>1 DEF CallsApart
  <2> QED
    BY <2>3, <2>4 DEF CallsApart
<1>19. HeldApart(c.p, h.held, h.from)
  BY <1>4, <1>12, <1>14, <1>16, <1>17 DEF HeldApart, UNINITIALIZED_FD
<1>20. OpenIsKnown(c.p, h.held)
  <2>1. \A fd : fd \in Own(s.b, s.p) <=> fd > 2 /\ (\E k \in 1 .. 3 : fd = s.b.fds[k]) /\ ~IsEnd(s.p, fd)
    BY DEF Own
  <2> QED
    BY <1>12, <1>14, <1>16, <1>17, <2>1 DEF OpenIsKnown
<1>21. Sound(c.p, h.held, h.from)
  <2>1. PipesApart(c.p, h.from)
    BY <1>12, <1>17 DEF PipesApart
  <2>2. c.p \in Parse /\ h.from \in 2 .. c.p.fd
    BY <1>1, <1>12
  <2> QED
    BY <1>18, <1>19, <1>20, <2>1, <2>2 DEF Sound
<1>22. Addressed(c.p)
  <2>1. s.p.last \in 0 .. Len(s.p.calls) /\ s.p.sub \in -1 .. Len(s.p.calls)
    BY <1>1 DEF Ordered, Addressed
  <2>2. (last = s.p.last \/ last = call) /\ (sub = s.p.sub \/ sub = call)
    BY DEF last, sub
  <2>3. call = Len(c.p.calls) /\ Len(c.p.calls) = Len(s.p.calls) + 1
    BY <1>13 DEF call
  <2> HIDE DEF last, sub
  <2>4. last \in 0 .. Len(c.p.calls) /\ sub \in -1 .. Len(c.p.calls)
    BY <1>2, <2>1, <2>2, <2>3
  <2> QED
    BY <1>1, <1>12, <1>13, <2>4 DEF Ordered, Addressed
<1>23. Ordered(c.p, {call})
  <2>1. \A k \in DOMAIN c.p.order : c.p.order[k] # c.p.last /\ c.p.order[k] # call
    BY <1>1, <1>12, <1>13 DEF Ordered, Addressed, last
  <2>2. \A n \in DOMAIN c.p.calls : IsLive(c.p, n) \/ n \in {call}
    BY <1>1, <1>2, <1>12, <1>13 DEF Ordered, IsLive, last, NULL
  <2> QED
    BY <1>1, <1>12, <1>22, <2>1, <2>2 DEF Ordered
<1>24. Excess(c.p) = h.excess - 1 /\ h.pipes <= Len(c.p.pipes)
  <2>1. Len(s.p.pipes) \in Nat
    BY <1>1, ParseFacts
  <2>2. Len(s.p.pipes) - Len(s.p.calls) = h.excess /\ Len(c.p.pipes) = Len(s.p.pipes)
    BY <1>1, <1>12 DEF Excess
  <2>3. Len(s.p.calls) \in Nat /\ Len(c.p.calls) = Len(s.p.calls) + 1
    BY <1>2, <1>13
  <2>4. Len(c.p.pipes) - Len(c.p.calls) = h.excess - 1
    <3>1. h.excess \in Int
      BY DEF Context
    <3> DEFINE x == Len(s.p.pipes)
               y == Len(s.p.calls)
               z == Len(c.p.calls)
               e == h.excess
    <3>2. x \in Nat /\ y \in Nat /\ e \in Int /\ x - y = e /\ z = y + 1
      BY <2>1, <2>2, <2>3, <3>1, Zenon
    <3>3. Len(c.p.pipes) = x
      BY <2>2, Zenon
    <3> HIDE DEF x, y, z, e
    <3>4. x - z = e - 1
      BY <3>2
    <3> QED
      BY <3>3, <3>4, Zenon DEF z, e
  <2> QED
    BY <1>1, <2>2, <2>4 DEF Excess
<1>25. Waits(c.p, h)
  <2>1. Waits(s.p, h) /\ \A k \in 1 .. 3 : ~IsKept(s.p, h, s.b.fds[k])
    BY DEF Going, BuilderApart
  <2>2. \A fd : IsUsed(c.p, fd) => IsUsed(s.p, fd) \/ ~IsKept(s.p, h, fd)
    BY <1>16, <2>1
  <2> QED
    BY <1>12, <2>1, <2>2, KeptFacts
<1>26. SubInPlace(c.p, inside) /\ (inside => c.p.sub # NULL) /\ (~inside => c.p.last # NULL)
  BY <1>2, <1>12 DEF SubInPlace, last, sub, call, NULL
<1>27. inside => c.p.last # c.call
  BY <1>1, <1>2, <1>3, <1>12 DEF Ordered, Addressed, last, call
<1>28. pipeline => c.p.calls[c.call].stdin = 0
  BY <1>3, <1>5, <1>9, <1>13
<1>29. c.call \in Nat /\ c.call # NULL
  BY <1>2, <1>3 DEF call, NULL
<1> QED
  BY <1>3, <1>12, <1>13, <1>21, <1>23, <1>24, <1>26, <1>27, <1>28, <1>29, <1>25 DEF CallParsed

\* The context of the call that is parsed while a builder holds its files.
Within(s, h) == [h EXCEPT !.held = h.held \cup Own(s.b, s.p), !.pipes = Len(s.p.pipes)]

\* A call inside another one is in a context too.
LEMMA WithinFacts ==
    ASSUME NEW s, NEW h \in Context, Going(s, h)
    PROVE  /\ Within(s, h) \in Context
           /\ Within(s, h).held = h.held \cup Own(s.b, s.p) /\ Within(s, h).from = h.from
           /\ Within(s, h).pipes = Len(s.p.pipes) /\ Within(s, h).waiting = h.waiting
           /\ Within(s, h).excess = h.excess
<1>1. Len(s.p.pipes) \in Nat
  BY ParseFacts DEF Going, Sound
<1>2. Own(s.b, s.p) \subseteq Nat
  <2>1. s.p.fd \in Nat /\ h.from \in 2 .. s.p.fd
    BY ParseFacts DEF Going, Sound
  <2> QED
    BY <2>1 DEF Going, BuilderApart, Own, UNINITIALIZED_FD
<1> QED
  BY <1>1, <1>2 DEF Within, Context

\* What a builder has is still there after the parse of another call.
LEMMA BuilderWaits ==
    ASSUME NEW s, NEW h \in Context, Going(s, h), FilesOnly(s),
           NEW p, Sound(p, h.held \cup Own(s.b, s.p), h.from), Len(s.p.pipes) <= Len(p.pipes), Waits(p, h)
    PROVE  /\ BuilderApart(s.b, p, h)
           /\ \A k \in 1 .. 3 : ~IsEnd(p, s.b.fds[k])
           /\ Own(s.b, p) = Own(s.b, s.p)
<1>1. /\ s.p.fd \in Nat /\ h.from \in 2 .. s.p.fd /\ p.fd \in Nat /\ h.from \in 2 .. p.fd
      /\ DOMAIN s.p.pipes = 1 .. Len(s.p.pipes) /\ DOMAIN p.pipes = 1 .. Len(p.pipes)
      /\ Len(s.p.pipes) \in Nat /\ Len(p.pipes) \in Nat
  BY ParseFacts DEF Going, Sound
<1>2. BuilderApart(s.b, s.p, h)
  BY DEF Going
<1>3. \A k \in 1 .. 3 : s.b.fds[k] = UNINITIALIZED_FD \/ s.b.fds[k] \in Own(s.b, s.p)
  BY <1>1, <1>2 DEF BuilderApart, Own, FilesOnly
<1>4. HeldApart(p, h.held \cup Own(s.b, s.p), h.from)
  BY DEF Sound
<1>5. ~IsEnd(p, UNINITIALIZED_FD)
  BY <1>1 DEF Sound, PipesApart, IsEnd, UNINITIALIZED_FD
<1>6. \A k \in 1 .. 3 : ~IsEnd(p, s.b.fds[k])
  BY <1>3, <1>4, <1>5 DEF HeldApart
<1>7. Own(s.b, p) = Own(s.b, s.p)
  BY <1>6 DEF Own, FilesOnly
<1>8. DOMAIN s.p.pipes \subseteq DOMAIN p.pipes
  BY <1>1
<1>9. \A k \in 1 .. 3 : ~IsKept(p, h, s.b.fds[k])
  BY <1>6, KeptFacts
<1>10. BuilderApart(s.b, p, h)
  BY <1>2, <1>3, <1>4, <1>8, <1>9 DEF BuilderApart, HeldApart
<1> QED
  BY <1>6, <1>7, <1>10

\* The call after a "|" is linked to the builder of the one before it.
LEMMA LinkNextKeeps ==
    ASSUME NEW s, NEW h \in Context, NEW inside \in BOOLEAN,
           Going(s, h), FilesOnly(s), s.b.fds[2] = UNINITIALIZED_FD,
           NEW c, NextParsed(c, Within(s, h), inside),
           NEW r, r = LinkNext(c, s.b, inside)
    PROVE  /\ r \in Result
           /\ IF r.ok THEN Going(r, h) /\ SubInPlace(r.p, inside) ELSE Refused(r.p, h.held, h.from)
<1>1. /\ Within(s, h).held = h.held \cup Own(s.b, s.p) /\ Within(s, h).from = h.from
      /\ Within(s, h).pipes = Len(s.p.pipes) /\ Within(s, h).waiting = h.waiting
      /\ Within(s, h).excess = h.excess
  BY WithinFacts
<1>2. s.b \in Builder /\ Len(s.b.fds) = 3
  BY DEF Going, BuilderApart
<1>3. CASE c.call = NULL
  <2>1. Refused(c.p, h.held \cup Own(s.b, s.p), h.from)
    BY <1>1, <1>3 DEF NextParsed, CallParsed
  <2>2. h.held \cup Own(s.b, s.p) \subseteq h.held \cup {s.b.fds[1], s.b.fds[2], s.b.fds[3]}
    BY DEF Own
  <2>3. r = Error(c.p, s.b)
    BY <1>3 DEF LinkNext
  <2> QED
    BY <1>2, <2>1, <2>2, <2>3, ErrorRefused
<1>4. CASE c.call # NULL
  <2> DEFINE p == c.p
             n == c.call
             q == OpenPipe(p)
             pipe == Len(p.pipes) + 1
             old == p.calls[n]
             new == [old EXCEPT !.reads = old.reads \cup {pipe}, !.stdin = p.fd + 1]
             linked == [q EXCEPT !.calls = [q.calls EXCEPT ![n] = new]]
             b == [s.b EXCEPT !.writes = s.b.writes \cup {pipe}, !.fds = [s.b.fds EXCEPT ![2] = p.fd + 2]]
             held == h.held \cup Own(s.b, s.p)
  <2>1. /\ n \in DOMAIN p.calls /\ Sound(p, held, h.from) /\ Ordered(p, {n})
        /\ Excess(p) = h.excess - 1 /\ Len(s.p.pipes) <= Len(p.pipes)
        /\ SubInPlace(p, inside) /\ (inside => p.last # n) /\ old.stdin = 0 /\ Waits(p, h)
    BY <1>1, <1>4 DEF NextParsed, CallParsed, Waits, IsKept
  <2>2. /\ p \in Parse /\ p.fd \in Nat /\ Len(p.pipes) \in Nat /\ DOMAIN p.pipes = 1 .. Len(p.pipes)
        /\ Len(p.calls) \in Nat /\ old \in CallType /\ h.from \in 2 .. p.fd
    BY <2>1, ParseFacts DEF Sound
  <2>3. /\ q \in Parse /\ q.calls = p.calls /\ q.order = p.order /\ q.last = p.last /\ q.sub = p.sub
        /\ q.fd = p.fd + 2
        /\ Len(q.pipes) = pipe /\ DOMAIN q.pipes = 1 .. pipe
        /\ q.pipes[pipe] = <<p.fd + 1, p.fd + 2>>
        /\ \A k \in DOMAIN p.pipes : q.pipes[k] = p.pipes[k]
    BY <2>2, OpenPipeFacts
  <2>4. /\ Sound(q, held, h.from)
        /\ \A fd : IsEnd(q, fd) <=> IsEnd(p, fd) \/ fd \in {p.fd + 1, p.fd + 2}
        /\ \A fd : IsUsed(q, fd) <=> IsUsed(p, fd)
        /\ ~IsUsed(p, p.fd + 1) /\ ~IsUsed(p, p.fd + 2)
    BY <2>1, OpenPipeSound
  <2>5. link_pipelines(p, s.b, n) = [p |-> linked, b |-> b]
    <3>1. q.pipes[pipe][1] = p.fd + 1 /\ q.pipes[pipe][2] = p.fd + 2 /\ q.calls[n] = old
      BY <2>3
    <3>2. new = ReadsFrom(q.calls[n], pipe, q.pipes[pipe][1])
      BY <3>1 DEF ReadsFrom
    <3>3. [s.b EXCEPT !.writes = @ \cup {pipe}, !.fds[2] = q.pipes[pipe][2]] = b
      BY <3>1
    <3> HIDE DEF b, new
    <3> QED
      BY <3>2, <3>3 DEF link_pipelines
  <2>6. new \in CallType
    <3>1. pipe \in Nat /\ p.fd + 1 \in Int
      BY <2>2
    <3>2. old.reads \in SUBSET Nat
      <4> HIDE DEF old
      <4> QED
        BY <2>2 DEF CallType
    <3>3. old.reads \cup {pipe} \in SUBSET Nat
      BY <3>1, <3>2
    <3> HIDE DEF pipe, p, old
    <3> QED
      BY <2>2, <3>1, <3>3 DEF CallType
  <2>7. new.stdin = p.fd + 1 /\ new.stdout = old.stdout /\ new.stderr = old.stderr
        /\ new.reads = old.reads \cup {pipe} /\ new.writes = old.writes
    BY <2>2 DEF CallType
  <2>8. /\ Sound(linked, held, h.from)
        /\ linked.order = q.order /\ linked.pipes = q.pipes /\ linked.last = q.last
        /\ linked.sub = q.sub /\ linked.fd = q.fd
        /\ Len(linked.calls) = Len(q.calls) /\ DOMAIN linked.calls = DOMAIN q.calls
        /\ \A fd : IsUsed(linked, fd) <=> IsUsed(q, fd) \/ fd = p.fd + 1
        /\ \A fd : IsEnd(linked, fd) <=> IsEnd(q, fd)
        /\ \A pending : Ordered(q, pending) => Ordered(linked, pending)
    <3>1. p.fd + 1 \in h.from + 1 .. q.fd
      BY <2>2, <2>3
    <3>2. \A fd \in CallFds(new) : fd = p.fd + 1 \/ fd \in CallFds(old)
      BY <2>7 DEF CallFds
    <3>3. \A fd \in CallFds(old) : fd > 2 => fd \in CallFds(new)
      BY <2>1, <2>7 DEF CallFds
    <3>4. p.fd + 1 \in CallFds(new)
      BY <2>7 DEF CallFds
    <3>5. new.reads \cup new.writes \subseteq DOMAIN q.pipes
      <4>1. old.reads \cup old.writes \subseteq DOMAIN p.pipes
        BY <2>1 DEF Sound, CallsApart
      <4>2. DOMAIN p.pipes \subseteq DOMAIN q.pipes /\ pipe \in DOMAIN q.pipes
        BY <2>2, <2>3
      <4>3. new.reads \cup new.writes = old.reads \cup old.writes \cup {pipe}
        BY <2>7
      <4> HIDE DEF new, old, q, p, pipe
      <4> QED
        BY <4>1, <4>2, <4>3
    <3> HIDE DEF new, linked, old, q, held
    <3>6. q.calls[n] = old /\ n \in DOMAIN q.calls
      BY <2>1, <2>3 DEF old
    <3>7. linked = [q EXCEPT !.calls = [q.calls EXCEPT ![n] = new]]
      BY DEF linked
    <3> DEFINE f == p.fd + 1
    <3>8. /\ Sound(q, held, h.from) /\ IsEnd(q, f) /\ ~IsUsed(q, f) /\ f \in h.from + 1 .. q.fd
          /\ f \in CallFds(new) /\ \A fd \in CallFds(new) : fd = f \/ fd \in CallFds(q.calls[n])
          /\ \A fd \in CallFds(q.calls[n]) : fd > 2 => fd \in CallFds(new)
      BY <2>4, <3>1, <3>2, <3>3, <3>4, <3>6
    <3> HIDE DEF f, p
    <3> HIDE DEF n
    <3>9. Relinked(q, linked, held, h.from, f)
      BY <2>6, <3>5, <3>6, <3>7, <3>8, CallLinked
    <3> QED
      BY <3>9 DEF f, Relinked
  <2> HIDE DEF new, linked, old, q
  <2>9. BuilderApart(s.b, p, h) /\ (\A k \in 1 .. 3 : ~IsEnd(p, s.b.fds[k])) /\ Own(s.b, p) = Own(s.b, s.p)
    BY <2>1, BuilderWaits
  <2>10. /\ b \in Builder /\ Len(b.fds) = 3 /\ b.reads = s.b.reads /\ b.writes = s.b.writes \cup {pipe}
         /\ b.fds[1] = s.b.fds[1] /\ b.fds[2] = p.fd + 2 /\ b.fds[3] = s.b.fds[3]
    <3>1. s.b.fds \in Seq(Int) /\ p.fd + 2 \in Int /\ 2 \in 1 .. Len(s.b.fds)
      BY <1>2, <2>2 DEF Builder
    <3>2. /\ [s.b.fds EXCEPT ![2] = p.fd + 2] \in Seq(Int)
          /\ Len([s.b.fds EXCEPT ![2] = p.fd + 2]) = 3
          /\ \A k \in 1 .. Len(s.b.fds) :
                [s.b.fds EXCEPT ![2] = p.fd + 2][k] = IF k = 2 THEN p.fd + 2 ELSE s.b.fds[k]
      BY <1>2, <3>1, ExceptSeq
    <3>3. s.b.writes \cup {pipe} \in SUBSET Nat
      BY <1>2, <2>2 DEF Builder
    <3> DEFINE fds == [s.b.fds EXCEPT ![2] = p.fd + 2]
               writes == s.b.writes \cup {pipe}
    <3>4. fds \in Seq(Int) /\ Len(fds) = 3 /\ fds[1] = s.b.fds[1] /\ fds[2] = p.fd + 2 /\ fds[3] = s.b.fds[3]
      BY <1>2, <3>2
    <3> HIDE DEF fds, writes
    <3>5. b = [s.b EXCEPT !.writes = writes, !.fds = fds]
      BY DEF b, fds, writes
    <3>6. b \in Builder /\ b.reads = s.b.reads /\ b.writes = writes /\ b.fds = fds
      <4>1. writes \in SUBSET Nat
        BY <3>3 DEF writes
      <4> HIDE DEF b
      <4> QED
        BY <1>2, <3>4, <3>5, <4>1 DEF Builder
    <3> QED
      BY <3>4, <3>6 DEF writes
  <2> HIDE DEF b
  <2>11. r.ok = TRUE /\ r.b = b /\ r.p = IF linked.last # n \/ inside THEN AddCallAtTheEnd(linked, n) ELSE linked
    BY <1>4, <2>5 DEF LinkNext, Success
  <2>12. /\ Sound(r.p, held, h.from) /\ Ordered(r.p, {})
         /\ Len(r.p.calls) = Len(p.calls) /\ r.p.pipes = q.pipes /\ r.p.last = p.last /\ r.p.sub = p.sub
         /\ r.p.fd = p.fd + 2
         /\ \A fd : IsUsed(r.p, fd) <=> IsUsed(p, fd) \/ fd = p.fd + 1
         /\ \A fd : IsEnd(r.p, fd) <=> IsEnd(p, fd) \/ fd \in {p.fd + 1, p.fd + 2}
    <3>1. n \in DOMAIN linked.calls /\ Ordered(linked, {n})
      <4>1. \A k : IsLive(q, k) <=> IsLive(p, k)
        BY <2>3 DEF IsLive
      <4>2. Ordered(q, {n})
        BY <2>1, <2>3, <4>1 DEF Ordered, Addressed
      <4> QED
        BY <2>1, <2>3, <2>8, <4>2
    <3>2. CASE linked.last # n \/ inside
      <4>1. n # linked.last
        BY <2>1, <2>3, <2>8, <3>2
      <4>2. r.p = AddCallAtTheEnd(linked, n)
        BY <2>11, <3>2
      <4>3. /\ Sound(r.p, held, h.from) /\ Ordered(r.p, {})
            /\ r.p.calls = linked.calls /\ r.p.pipes = linked.pipes /\ r.p.last = linked.last
            /\ r.p.sub = linked.sub /\ r.p.fd = linked.fd
            /\ \A fd : IsUsed(r.p, fd) <=> IsUsed(linked, fd)
            /\ \A fd : IsEnd(r.p, fd) <=> IsEnd(linked, fd)
        BY <2>8, <3>1, <4>1, <4>2, CallAdded
      <4> QED
        BY <2>3, <2>4, <2>8, <4>3
    <3>3. CASE linked.last = n /\ ~inside
      <4>1. r.p = linked
        BY <2>11, <3>3
      <4>2. Ordered(linked, {})
        <5>1. \A k \in DOMAIN linked.calls : IsLive(linked, k)
          BY <3>1, <3>3 DEF Ordered, IsLive
        <5> QED
          BY <3>1, <5>1 DEF Ordered
      <4> QED
        BY <2>3, <2>4, <2>8, <4>1, <4>2
    <3> QED
      BY <3>2, <3>3
  <2>13. Own(b, r.p) = Own(s.b, s.p)
    <3>1. \A fd : fd \in Own(b, r.p) <=> fd \in Own(s.b, p)
      <4>1. \A k \in 1 .. 3 : s.b.fds[k] \notin {p.fd + 1, p.fd + 2}
        <5>1. \A k \in 1 .. 3 : s.b.fds[k] = UNINITIALIZED_FD \/ s.b.fds[k] \in h.from + 1 .. p.fd
          BY <2>9 DEF BuilderApart
        <5>2. p.fd \in Nat
          BY <2>2
        <5> HIDE DEF p
        <5> QED
          BY <5>1, <5>2 DEF UNINITIALIZED_FD
      <4>2. \A fd : fd \in Own(b, r.p) <=>
                       fd \in {s.b.fds[1], p.fd + 2, s.b.fds[3]} /\ fd > 2
                       /\ ~IsEnd(p, fd) /\ fd \notin {p.fd + 1, p.fd + 2}
        BY <2>10, <2>12 DEF Own
      <4>3. \A fd : fd \in Own(s.b, p) <=> fd \in {s.b.fds[1], s.b.fds[3]} /\ fd > 2 /\ ~IsEnd(p, fd)
        BY DEF Own, UNINITIALIZED_FD
      <4> QED
        BY <4>1, <4>2, <4>3
    <3> QED
      BY <2>9, <3>1
  <2>14. Waits(r.p, h) /\ (\A fd : IsKept(r.p, h, fd) <=> IsKept(p, h, fd))
        /\ ~IsKept(p, h, p.fd + 2)
    <3>1. p.fd + 1 \in Nat /\ p.fd + 1 > p.fd /\ p.fd + 2 \in Nat /\ p.fd + 2 > p.fd
      BY <2>2
    <3>2. ~IsEnd(p, p.fd + 1) /\ ~IsEnd(p, p.fd + 2)
      BY <2>1, <3>1, FreshFacts
    <3>3. ~IsKept(p, h, p.fd + 1) /\ ~IsKept(p, h, p.fd + 2)
      BY <2>1, <3>2, KeptFacts
    <3>4. \A fd : IsUsed(r.p, fd) => IsUsed(p, fd) \/ ~IsKept(p, h, fd)
      BY <2>12, <3>3
    <3>5. DOMAIN p.pipes \subseteq DOMAIN r.p.pipes /\ \A k \in DOMAIN p.pipes : r.p.pipes[k] = p.pipes[k]
      BY <2>2, <2>3, <2>12
    <3> HIDE DEF p
    <3> QED
      BY <2>1, <3>3, <3>4, <3>5, KeptFacts
  <2>15. BuilderApart(b, r.p, h)
    <3>1. p.fd + 2 \in h.from + 1 .. r.p.fd /\ \A fd \in h.from + 1 .. p.fd : fd \in h.from + 1 .. r.p.fd
      BY <2>2, <2>12
    <3>2. p.fd + 2 \notin h.held
      <4>1. p.fd + 2 \in Nat /\ p.fd + 2 > p.fd
        BY <2>2
      <4>2. p.fd + 2 \notin held
        BY <2>1, <4>1, FreshFacts
      <4> QED
        BY <4>2
    <3>3. ~IsUsed(r.p, p.fd + 2)
      BY <2>2, <2>4, <2>12
    <3>4. /\ \A k \in 1 .. 3 :
               s.b.fds[k] = UNINITIALIZED_FD
               \/ (s.b.fds[k] \in h.from + 1 .. p.fd /\ s.b.fds[k] \notin h.held /\ ~IsUsed(p, s.b.fds[k]))
          /\ \A j, k \in 1 .. 3 : j # k => s.b.fds[j] # s.b.fds[k] \/ s.b.fds[j] = UNINITIALIZED_FD
          /\ s.b.reads \cup s.b.writes \subseteq DOMAIN p.pipes
      BY <2>9 DEF BuilderApart
    <3>5. \A fd \in h.from + 1 .. p.fd : fd # p.fd + 1 /\ fd # p.fd + 2
      BY <2>2
    <3>6. \A k \in {1, 3} :
             b.fds[k] = UNINITIALIZED_FD
             \/ (b.fds[k] \in h.from + 1 .. r.p.fd /\ b.fds[k] \notin h.held /\ ~IsUsed(r.p, b.fds[k]))
      BY <2>10, <2>12, <3>1, <3>4, <3>5
    <3>7. \A k \in 1 .. 3 :
             \/ b.fds[k] = UNINITIALIZED_FD
             \/ b.fds[k] \in h.from + 1 .. r.p.fd /\ b.fds[k] \notin h.held /\ ~IsUsed(r.p, b.fds[k])
      BY <2>10, <3>1, <3>2, <3>3, <3>6
    <3>8. b.fds[1] # p.fd + 2 /\ b.fds[3] # p.fd + 2
      BY <2>2, <2>10, <3>4, <3>5 DEF UNINITIALIZED_FD
    <3>9. b.fds[1] # b.fds[3] \/ b.fds[1] = UNINITIALIZED_FD
      BY <2>10, <3>4
    <3>10. \A j, k \in 1 .. 3 : j # k => b.fds[j] # b.fds[k] \/ b.fds[j] = UNINITIALIZED_FD
      BY <2>10, <3>8, <3>9
    <3>11. b.reads \cup b.writes \subseteq DOMAIN r.p.pipes
      <4>1. pipe \in DOMAIN r.p.pipes /\ DOMAIN p.pipes \subseteq DOMAIN r.p.pipes
        BY <2>2, <2>3, <2>12
      <4> HIDE DEF pipe, p
      <4> QED
        BY <2>10, <3>4, <4>1
    <3>12. \A k \in 1 .. 3 : ~IsKept(p, h, s.b.fds[k])
      BY <2>9 DEF BuilderApart
    <3>13. \A k \in 1 .. 3 : ~IsKept(r.p, h, b.fds[k])
      BY <2>14, <2>10, <3>12
    <3> QED
      BY <2>10, <3>7, <3>10, <3>11, <3>13 DEF BuilderApart
  <2>16. Excess(r.p) = h.excess /\ h.pipes <= Len(r.p.pipes)
    <3>1. Len(p.pipes) - Len(p.calls) = h.excess - 1
      BY <2>1 DEF Excess
    <3>2. Len(r.p.pipes) = Len(p.pipes) + 1 /\ Len(r.p.calls) = Len(p.calls)
      BY <2>3, <2>12
    <3>3. h.pipes <= Len(s.p.pipes) /\ h.pipes \in Nat /\ Len(s.p.pipes) \in Nat /\ h.excess \in Int
      BY ParseFacts DEF Going, Sound, Context
    <3>4. Len(r.p.pipes) - Len(r.p.calls) = h.excess
      <4> DEFINE x == Len(p.pipes)
                 y == Len(p.calls)
                 z == Len(r.p.pipes)
                 e == h.excess
      <4>1. /\ x \in Nat /\ y \in Nat /\ e \in Int
            /\ x - y = e - 1 /\ z = x + 1
        BY <2>2, <3>1, <3>2, <3>3, Zenon
      <4>2. Len(r.p.calls) = y
        BY <3>2
      <4> HIDE DEF x, y, z, e
      <4>3. z - y = e
        BY <4>1
      <4> QED
        BY <4>2, <4>3 DEF z, e
    <3>5. h.pipes <= Len(r.p.pipes)
      <4>1. Len(s.p.pipes) <= Len(p.pipes) /\ Len(p.pipes) \in Nat
        BY <2>1, <2>2
      <4> HIDE DEF p
      <4> QED
        BY <3>2, <3>3, <4>1
    <3> QED
      BY <3>4, <3>5 DEF Excess
  <2>17. r \in Result
    <3>1. r = [p |-> r.p, b |-> r.b, ok |-> r.ok]
      BY <1>4, <2>11 DEF LinkNext, Success
    <3>2. r.p \in Parse
      BY <2>12 DEF Sound
    <3> QED
      BY <2>10, <2>11, <3>1, <3>2 DEF Result
  <2>18. SubInPlace(r.p, inside)
    BY <2>1, <2>12 DEF SubInPlace
  <2> QED
    BY <2>14, <2>11, <2>12, <2>13, <2>15, <2>16, <2>17, <2>18 DEF Going
<1> QED
  BY <1>3, <1>4

\* If a call is pending, its descriptors are to be closed.
LEMMA PendingRefused ==
    ASSUME NEW p, NEW held, NEW from, Sound(p, held, from), NEW n \in DOMAIN p.calls, Ordered(p, {n}),
           NEW q, q = Close(p, CallFds(p.calls[n]))
    PROVE  Refused(q, held, from)
<1> DEFINE fds == CallFds(p.calls[n])
           more == held \cup fds
<1>1. p \in Parse /\ from \in 2 .. p.fd /\ Addressed(p)
  BY DEF Sound, Ordered
<1>2. p.fd \in Nat
  BY <1>1, ParseFacts
<1>3. ASSUME NEW fd \in p.open PROVE fd > 2 /\ (fd \in more \/ IsEnd(p, fd) \/ IsOwned(p, fd))
  <2>1. CASE fd \in held
    BY <1>1, <1>2, <2>1 DEF Sound, HeldApart
  <2>2. CASE IsEnd(p, fd)
    BY <1>1, <1>2, <2>2 DEF Sound, PipesApart, IsEnd
  <2>3. CASE IsUsed(p, fd)
    BY <2>3 DEF Ordered, IsUsed, IsOwned
  <2> QED
    BY <2>1, <2>2, <2>3 DEF Sound, OpenIsKnown
<1>4. Refused(p, more, from)
  BY <1>1, <1>3 DEF Refused
<1> HIDE DEF fds
<1>5. more \subseteq held \cup fds
  OBVIOUS
<1>6. q = Close(p, fds)
  BY DEF fds
<1> HIDE DEF more
<1> QED
  BY <1>4, <1>5, <1>6, CloseRefused

\* The context of the calls of a substitution, whose pipe was opened.
Inner(s, h) ==
    [held |-> h.held \cup Own(s.b, s.p), from |-> h.from, pipes |-> Len(s.p.pipes) + 1,
     waiting |-> h.waiting \cup {Len(s.p.pipes) + 1}, excess |-> h.excess + 1]

\* So is a call of a substitution, whose pipe waits for it.
LEMMA InnerFacts ==
    ASSUME NEW s, NEW h \in Context, Going(s, h)
    PROVE  Inner(s, h) \in Context
<1>1. Len(s.p.pipes) \in Nat
  BY ParseFacts DEF Going, Sound
<1>2. h.held \cup Own(s.b, s.p) \in SUBSET Nat
  <2>1. Within(s, h) \in Context /\ Within(s, h).held = h.held \cup Own(s.b, s.p)
    BY WithinFacts
  <2>2. Within(s, h).held \in SUBSET Nat
    BY <2>1 DEF Context
  <2> QED
    BY <2>1, <2>2
<1>3. Len(s.p.pipes) + 1 \in Nat /\ h.waiting \in SUBSET Nat /\ h.excess + 1 \in Int /\ h.from \in Nat
  BY <1>1 DEF Context
<1>4. h.waiting \cup {Len(s.p.pipes) + 1} \in SUBSET Nat
  BY <1>3
<1> QED
  BY <1>2, <1>3, <1>4 DEF Inner, Context

SubstitutionLinked(c, s) == LinkSubstitution(c, s.b, Len(s.p.pipes) + 1)

\* The last call of a substitution is linked to the builder that reads it.
LEMMA LinkSubstitutionKeeps ==
    ASSUME NEW s, NEW h \in Context, NEW inside \in BOOLEAN,
           Going(s, h), FilesOnly(s),
           NEW c, SubstitutionParsed(c, Inner(s, h)),
           NEW r, r = SubstitutionLinked(c, s)
    PROVE  /\ r \in Result
           /\ IF r.ok THEN Going(r, h) /\ SubInPlace(r.p, inside) /\ FilesOnly(r)
              ELSE Refused(r.p, h.held, h.from)
<1> DEFINE held == h.held \cup Own(s.b, s.p)
           pipe == Len(s.p.pipes) + 1
           q == c.p
           n == c.call
<1>1. /\ Inner(s, h).held = held /\ Inner(s, h).from = h.from /\ Inner(s, h).pipes = pipe
      /\ Inner(s, h).waiting = h.waiting \cup {pipe} /\ Inner(s, h).excess = h.excess + 1
  BY DEF Inner
<1>2. s.b \in Builder /\ Len(s.b.fds) = 3
  BY DEF Going, BuilderApart
<1>3. CASE n = NULL
  <2>1. Refused(q, held, h.from)
    BY <1>1, <1>3 DEF SubstitutionParsed, CallParsed
  <2>2. r = Error(q, s.b)
    BY <1>3 DEF SubstitutionLinked, LinkSubstitution
  <2>3. h.held \cup Own(s.b, s.p) \subseteq h.held \cup {s.b.fds[1], s.b.fds[2], s.b.fds[3]}
    BY DEF Own
  <2> QED
    BY <1>2, <2>1, <2>2, <2>3, ErrorRefused
<1>4. CASE n # NULL
  <2>1. /\ n \in DOMAIN q.calls /\ Sound(q, held, h.from) /\ Ordered(q, {n})
        /\ Excess(q) = (h.excess + 1) - 1 /\ pipe <= Len(q.pipes)
        /\ Waits(q, Inner(s, h)) /\ q.sub >= 0 /\ q.sub # NULL /\ q.last # n
    BY <1>1, <1>4 DEF SubstitutionParsed, CallParsed, SubInPlace
  <2>2. CASE q.calls[q.sub].stdout # 1
    <3> DEFINE first == q.calls[n]
               closed == Close(q, {first.stdin, first.stdout, first.stderr})
    <3>1. r = Error(closed, s.b)
      BY <1>4, <2>2 DEF SubstitutionLinked, LinkSubstitution
    <3>2. closed = Close(q, CallFds(q.calls[n]))
      BY DEF CallFds
    <3> HIDE DEF closed, held, q, n
    <3>3. Refused(closed, held, h.from)
      BY <2>1, <3>2, PendingRefused
    <3>4. r \in Result /\ ~r.ok /\ Refused(r.p, h.held, h.from)
      <4>1. h.held \cup Own(s.b, s.p) \subseteq h.held \cup {s.b.fds[1], s.b.fds[2], s.b.fds[3]}
        BY DEF Own
      <4>2. Refused(closed, h.held \cup Own(s.b, s.p), h.from)
        BY <3>3 DEF held
      <4> QED
        BY <1>2, <3>1, <4>1, <4>2, ErrorRefused
    <3> QED
      BY <3>4
  <2>3. CASE q.calls[q.sub].stdout = 1
    <3> DEFINE sub == q.sub
               old == q.calls[sub]
               f == q.pipes[pipe][2]
               new == WritesInto(old, pipe, f)
               linked == [q EXCEPT !.calls = [q.calls EXCEPT ![sub] = new]]
               reset == [linked EXCEPT !.sub = NULL]
               b == [s.b EXCEPT !.reads = s.b.reads \cup {pipe}, !.files = s.b.files \cup {q.pipes[pipe][1]}]
    <3>1. r = Success(AddCallAtTheEnd([q EXCEPT !.calls[sub] = new, !.sub = NULL], n), b)
      BY <1>4, <2>3 DEF SubstitutionLinked, LinkSubstitution
    <3>2. /\ q \in Parse /\ q.fd \in Nat /\ h.from \in 2 .. q.fd
          /\ Len(q.pipes) \in Nat /\ DOMAIN q.pipes = 1 .. Len(q.pipes)
          /\ Len(q.calls) \in Nat /\ DOMAIN q.calls = 1 .. Len(q.calls)
          /\ \A m \in DOMAIN q.calls : q.calls[m] \in CallType
          /\ q.last \in Nat /\ q.sub \in Int
      BY <2>1, ParseFacts DEF Sound
    <3>3. sub \in DOMAIN q.calls
      BY <2>1, <3>2 DEF Ordered, Addressed, NULL
    <3>4. old \in CallType
      BY <3>2, <3>3
    <3>5. pipe \in DOMAIN q.pipes /\ pipe \in Nat
      <4>1. Len(s.p.pipes) \in Nat
        BY ParseFacts DEF Going, Sound
      <4>2. pipe <= Len(q.pipes) /\ Len(q.pipes) \in Nat /\ DOMAIN q.pipes = 1 .. Len(q.pipes)
        BY <2>1, <3>2
      <4> HIDE DEF q
      <4> QED
        BY <4>1, <4>2
    <3>6. f \in h.from + 1 .. q.fd /\ q.pipes[pipe][1] \in h.from + 1 .. q.fd
      BY <2>1, <3>5 DEF Sound, PipesApart
    <3>7. f \in Nat /\ q.pipes[pipe][1] \in Nat
      <4>1. \A x \in h.from + 1 .. q.fd : x \in Nat
        BY <3>2
      <4> HIDE DEF f
      <4> QED
        BY <3>6, <4>1
    <3>8. IsEnd(q, f) /\ ~IsUsed(q, f)
      <4>1. IsEnd(q, f)
        BY <3>5 DEF IsEnd
      <4>2. IsKept(q, Inner(s, h), f)
        <5>1. pipe \in Inner(s, h).waiting
          BY <1>1
        <5> QED
          BY <5>1 DEF IsKept
      <4> QED
        BY <2>1, <4>1, <4>2 DEF Waits
    <3> HIDE DEF f, sub, pipe
    <3>9. /\ new \in CallType /\ new.stdout = f /\ new.stdin = old.stdin /\ new.stderr = old.stderr
          /\ new.reads = old.reads /\ new.writes = old.writes \cup {pipe}
      <4> HIDE DEF old
      <4>1. old.writes \in SUBSET Nat /\ f \in Int
        BY <3>4, <3>7 DEF CallType
      <4>2. old.writes \cup {pipe} \in SUBSET Nat
        BY <3>5, <4>1
      <4> QED
        BY <3>4, <4>1, <4>2 DEF CallType, WritesInto
    <3>10. /\ f \in CallFds(new)
           /\ \A fd \in CallFds(new) : fd = f \/ fd \in CallFds(old)
           /\ \A fd \in CallFds(old) : fd > 2 => fd \in CallFds(new)
           /\ new.reads \cup new.writes \subseteq DOMAIN q.pipes
      <4>1. old.stdout = 1
        BY <2>3 DEF sub
      <4>2. old.reads \cup old.writes \subseteq DOMAIN q.pipes
        BY <2>1, <3>3 DEF Sound, CallsApart
      <4> HIDE DEF new, old
      <4> QED
        BY <3>5, <3>9, <4>1, <4>2 DEF CallFds
    <3> HIDE DEF new, linked
    <3>11. /\ Sound(linked, held, h.from)
           /\ linked.order = q.order /\ linked.pipes = q.pipes /\ linked.last = q.last
           /\ linked.sub = q.sub /\ linked.fd = q.fd
           /\ Len(linked.calls) = Len(q.calls) /\ DOMAIN linked.calls = DOMAIN q.calls
           /\ \A fd : IsUsed(linked, fd) <=> IsUsed(q, fd) \/ fd = f
           /\ \A fd : IsEnd(linked, fd) <=> IsEnd(q, fd)
           /\ \A pending : Ordered(q, pending) => Ordered(linked, pending)
      <4>1. linked = [q EXCEPT !.calls = [q.calls EXCEPT ![sub] = new]]
        BY DEF linked
      <4>2. /\ \A fd \in CallFds(new) : fd = f \/ fd \in CallFds(q.calls[sub])
            /\ \A fd \in CallFds(q.calls[sub]) : fd > 2 => fd \in CallFds(new)
        BY <3>10
      <4> HIDE DEF old, q, held, n
      <4>3. /\ Sound(q, held, h.from) /\ sub \in DOMAIN q.calls /\ new \in CallType
            /\ f \in h.from + 1 .. q.fd /\ IsEnd(q, f) /\ ~IsUsed(q, f) /\ f \in CallFds(new)
            /\ new.reads \cup new.writes \subseteq DOMAIN q.pipes
        BY <2>1, <3>3, <3>6, <3>8, <3>9, <3>10
      <4>4. Relinked(q, linked, held, h.from, f)
        BY <4>1, <4>2, <4>3, CallLinked
      <4> QED
        BY <4>4 DEF Relinked
    <3> HIDE DEF b, reset
    <3>12. Ordered(linked, {n}) /\ n # linked.last /\ n \in DOMAIN linked.calls
      BY <2>1, <3>11
    <3>13. /\ reset \in Parse /\ reset.calls = linked.calls /\ reset.order = linked.order
           /\ reset.pipes = linked.pipes /\ reset.last = linked.last /\ reset.sub = NULL
           /\ reset.open = linked.open /\ reset.fd = linked.fd
           /\ Sound(reset, held, h.from) /\ Ordered(reset, {n}) /\ n # reset.last /\ n \in DOMAIN reset.calls
           /\ \A fd : (IsEnd(reset, fd) <=> IsEnd(linked, fd)) /\ (IsUsed(reset, fd) <=> IsUsed(linked, fd))
      <4>1. linked \in Parse
        BY <3>11 DEF Sound
      <4>2. reset = [linked EXCEPT !.sub = NULL]
        BY DEF reset
      <4> HIDE DEF held, q, n
      <4>3. /\ reset \in Parse /\ reset.calls = linked.calls /\ reset.order = linked.order
            /\ reset.pipes = linked.pipes /\ reset.last = linked.last /\ reset.sub = NULL
            /\ reset.open = linked.open /\ reset.fd = linked.fd
        BY <4>1, <4>2, ResetFacts
      <4>4. Sound(reset, held, h.from) /\ Ordered(reset, {n})
        BY <3>11, <3>12, <4>1, <4>2, ResetKeeps
      <4>5. \A fd : (IsEnd(reset, fd) <=> IsEnd(linked, fd)) /\ (IsUsed(reset, fd) <=> IsUsed(linked, fd))
        BY <4>1, <4>2, ResetKeeps
      <4> QED
        BY <3>12, <4>3, <4>4, <4>5
    <3> DEFINE added == AddCallAtTheEnd(reset, n)
    <3>14. /\ Sound(added, held, h.from) /\ Ordered(added, {})
           /\ added.calls = reset.calls /\ added.pipes = reset.pipes /\ added.last = reset.last
           /\ added.sub = reset.sub /\ added.fd = reset.fd
           /\ \A fd : (IsUsed(added, fd) <=> IsUsed(reset, fd)) /\ (IsEnd(added, fd) <=> IsEnd(reset, fd))
      <4> HIDE DEF held, q, n
      <4> QED
        BY <3>13, CallAdded
    <3>15. r.ok = TRUE /\ r.b = b /\ r.p = added /\ r = [p |-> r.p, b |-> r.b, ok |-> TRUE]
      <4>1. [q EXCEPT !.calls[sub] = new, !.sub = NULL] = reset
        BY DEF reset, linked
      <4> HIDE DEF added, q, n
      <4> QED
        BY <3>1, <4>1 DEF Success, added
    <3> HIDE DEF added
    <3>16. /\ \A fd : IsUsed(added, fd) <=> IsUsed(q, fd) \/ fd = f
           /\ \A fd : IsEnd(added, fd) <=> IsEnd(q, fd)
           /\ added.pipes = q.pipes /\ added.calls = linked.calls /\ added.fd = q.fd /\ added.sub = NULL
      BY <3>11, <3>13, <3>14
    <3>17. h.waiting \subseteq DOMAIN s.p.pipes /\ Len(s.p.pipes) \in Nat /\ DOMAIN s.p.pipes = 1 .. Len(s.p.pipes)
      BY ParseFacts DEF Going, Sound, Waits
    <3>18. h.waiting \subseteq DOMAIN q.pipes /\ pipe \notin h.waiting
      BY <2>1, <3>2, <3>17 DEF pipe
    <3>19. Waits(q, h)
      <4>1. \A fd : IsKept(q, h, fd) => IsKept(q, Inner(s, h), fd)
        BY <1>1 DEF IsKept
      <4> QED
        BY <2>1, <3>18, <4>1 DEF Waits
    <3>20. ~IsKept(q, h, f)
      <4>1. PipesApart(q, h.from)
        BY <2>1 DEF Sound
      <4> HIDE DEF q
      <4> QED
        BY <3>5, <3>18, <4>1 DEF IsKept, PipesApart, f
    <3>21. Waits(added, h)
      <4> HIDE DEF q
      <4>1. \A fd : IsUsed(added, fd) => IsUsed(q, fd) \/ ~IsKept(q, h, fd)
        BY <3>16, <3>20
      <4> QED
        BY <3>16, <3>19, <4>1, KeptFacts
    <3>22. /\ BuilderApart(s.b, q, h)
           /\ \A k \in 1 .. 3 : ~IsEnd(q, s.b.fds[k])
           /\ Own(s.b, q) = Own(s.b, s.p)
      <4>1. Len(s.p.pipes) <= Len(q.pipes)
        BY <2>1, <3>2, <3>17 DEF pipe
      <4>2. Sound(q, h.held \cup Own(s.b, s.p), h.from)
        BY <2>1 DEF held
      <4> HIDE DEF q
      <4> QED
        BY <3>19, <4>1, <4>2, BuilderWaits
    <3>23. /\ b \in Builder /\ b.fds = s.b.fds
           /\ b.reads = s.b.reads \cup {pipe} /\ b.writes = s.b.writes
      <4>1. s.b.reads \in SUBSET Nat /\ s.b.files \in SUBSET Nat
        BY <1>2 DEF Builder
      <4> DEFINE reads == s.b.reads \cup {pipe}
                 files == s.b.files \cup {q.pipes[pipe][1]}
      <4>2. reads \in SUBSET Nat /\ files \in SUBSET Nat
        BY <3>5, <3>7, <4>1
      <4>3. b = [s.b EXCEPT !.reads = reads, !.files = files]
        BY DEF b
      <4> HIDE DEF reads, files
      <4>4. b \in Builder /\ b.fds = s.b.fds /\ b.reads = reads /\ b.writes = s.b.writes
        BY <1>2, <4>2, <4>3 DEF Builder
      <4> QED
        BY <4>4 DEF reads
    <3>24. BuilderApart(b, added, h)
      <4>1. \A k \in 1 .. 3 : s.b.fds[k] # f
        BY <3>8, <3>22
      <4>2. \A fd : IsKept(added, h, fd) <=> IsKept(q, h, fd)
        BY <3>16 DEF IsKept
      <4> HIDE DEF q
      <4> QED
        BY <1>2, <3>5, <3>16, <3>22, <3>23, <4>1, <4>2 DEF BuilderApart
    <3>25. Own(b, added) = Own(s.b, s.p)
      BY <3>16, <3>22, <3>23 DEF Own
    <3>26. FilesOnly(r)
      BY <3>15, <3>16, <3>22, <3>23 DEF FilesOnly
    <3>27. Excess(added) = h.excess /\ h.pipes <= Len(added.pipes)
      <4> DEFINE x == Len(q.pipes)
                 y == Len(q.calls)
                 e == h.excess
      <4>1. x \in Nat /\ y \in Nat
        BY <3>2
      <4>2. x - y = (e + 1) - 1
        BY <2>1 DEF Excess
      <4>3. e \in Int /\ h.pipes \in Nat
        BY DEF Context
      <4>4. h.pipes <= Len(s.p.pipes)
        BY DEF Going
      <4>5. Len(added.pipes) = x /\ Len(added.calls) = y
        BY <3>11, <3>16
      <4>6. h.pipes <= x
        BY <2>1, <3>2, <3>17, <4>3, <4>4 DEF pipe
      <4> HIDE DEF x, y, e
      <4>7. x - y = e
        BY <4>1, <4>2, <4>3
      <4> QED
        BY <4>5, <4>6, <4>7 DEF Excess, e
    <3>28. SubInPlace(r.p, inside)
      BY <3>15, <3>16 DEF SubInPlace, NULL
    <3>29. r \in Result
      <4>1. r.p \in Parse
        BY <3>14, <3>15 DEF Sound
      <4> QED
        BY <3>15, <3>23, <4>1 DEF Result
    <3>30. Going(r, h)
      <4>1. Sound(added, h.held \cup Own(b, added), h.from)
        BY <3>14, <3>25 DEF held
      <4> QED
        BY <3>14, <3>15, <3>21, <3>24, <3>27, <4>1 DEF Going
    <3> QED
      BY <3>15, <3>26, <3>28, <3>29, <3>30
  <2> QED
    BY <2>2, <2>3
<1> QED
  BY <1>3, <1>4

-----------------------------------------------------------------------------
(* The loop of parse_command_call keeps what holds of a parse.             *)

Symbols == redirection_caret_symbols
TokenSeq == Seq(Words \cup Symbols)

\* What has to hold where the parse of a call starts.
StartsAt(p, h, inside) ==
    /\ Sound(p, h.held, h.from)
    /\ Ordered(p, {})
    /\ Excess(p) = h.excess
    /\ h.pipes <= Len(p.pipes)
    /\ Waits(p, h)
    /\ SubInPlace(p, inside)

\* The tokens from lo to hi are there, and are not more than n.
Fits(t, lo, hi, n) == 1 <= lo /\ hi <= Len(t) /\ hi + 1 - lo <= n

\* There is no such token, or those before it fit.
EndFits(t, i, end, n) == end = 0 \/ Fits(t, i, end - 1, n)

\* A builder that has nothing yet.
LEMMA NewBuilderFacts ==
    /\ NewBuilder \in Builder /\ Len(NewBuilder.fds) = 3
    /\ \A k \in 1 .. 3 : NewBuilder.fds[k] = UNINITIALIZED_FD
    /\ NewBuilder.reads = {} /\ NewBuilder.writes = {}
BY DEF NewBuilder, Builder, UNINITIALIZED_FD

\* parse_command_call brings the loop to a frame that it can go on from.
LEMMA StartIsReady ==
    ASSUME NEW p, NEW h \in Context, NEW inside, StartsAt(p, h, inside),
           NEW r, r = Success(p, NewBuilder)
    PROVE  /\ r \in Result /\ r.ok /\ r.p = p
           /\ Going(r, h) /\ FilesOnly(r)
<1>1. r.ok = TRUE /\ r.b = NewBuilder /\ r.p = p /\ r = [p |-> p, b |-> NewBuilder, ok |-> TRUE]
  BY DEF Success
<1>2. /\ Sound(p, h.held, h.from) /\ Ordered(p, {}) /\ Excess(p) = h.excess
      /\ h.pipes <= Len(p.pipes) /\ Waits(p, h)
  BY DEF StartsAt
<1>3. p \in Parse /\ h.from \in 2 .. p.fd /\ p.fd \in Nat
  BY <1>2, ParseFacts DEF Sound
<1>4. r \in Result
  BY <1>1, <1>3, NewBuilderFacts DEF Result
<1>5. ~IsEnd(p, UNINITIALIZED_FD)
  BY <1>2, <1>3 DEF Sound, PipesApart, IsEnd, UNINITIALIZED_FD
<1>6. ~IsKept(p, h, UNINITIALIZED_FD)
  BY <1>2, <1>5, KeptFacts
<1>7. Own(NewBuilder, p) = {}
  BY NewBuilderFacts DEF Own, UNINITIALIZED_FD
<1>8. BuilderApart(NewBuilder, p, h)
  BY <1>6, NewBuilderFacts DEF BuilderApart
<1>9. FilesOnly(r)
  BY <1>1, <1>5, NewBuilderFacts DEF FilesOnly
<1>10. h.held \cup Own(NewBuilder, p) = h.held
  BY <1>7
<1> QED
  BY <1>1, <1>2, <1>4, <1>8, <1>9, <1>10 DEF Going

\* The end of parse_command_call, if its loop did what it should.
LEMMA EndOfCallKeeps ==
    ASSUME NEW h \in Context, NEW inside \in BOOLEAN, NEW pipeline \in BOOLEAN, NEW r \in Result,
           IF r.ok THEN Going(r, h) /\ SubInPlace(r.p, inside) ELSE Refused(r.p, h.held, h.from),
           NEW at \in Nat, NEW name, r.ok => name \in Words,
           NEW c, c = EndOfCall(r, at, name, inside, pipeline)
    PROVE  CallParsed(c, h, inside, pipeline)
<1>1. CASE r.ok /\ ~Misplaced(r.p, r.b, pipeline)
  <2>1. c = BuildCall(r.p, r.b, at, name, inside)
    BY <1>1 DEF EndOfCall
  <2>2. pipeline => r.b.fds[1] = UNINITIALIZED_FD
    BY <1>1 DEF Misplaced
  <2>3. Going(r, h) /\ SubInPlace(r.p, inside) /\ name \in Words
    BY <1>1
  <2> QED
    BY <2>1, <2>2, <2>3, BuildCallKeeps
<1>2. CASE ~(r.ok /\ ~Misplaced(r.p, r.b, pipeline))
  <2> DEFINE e == Error(r.p, r.b)
  <2>1. c = [p |-> e.p, call |-> NULL]
    BY <1>2 DEF EndOfCall
  <2>2. Refused(e.p, h.held, h.from)
    <3>1. CASE r.ok
      BY <3>1, ErrorGoing
    <3>2. CASE ~r.ok
      <4>1. e.p = Close(r.p, Range(r.b.fds))
        BY DEF Error
      <4>2. Refused(r.p, h.held, h.from) /\ h.held \subseteq h.held \cup Range(r.b.fds)
        BY <3>2
      <4> HIDE DEF e
      <4> QED
        BY <4>1, <4>2, CloseRefused
    <3> QED
      BY <3>1, <3>2
  <2>3. c.p = e.p /\ c.call = NULL
    BY <2>1
  <2> HIDE DEF e
  <2> QED
    BY <2>2, <2>3 DEF CallParsed, Refused, NULL
<1> QED
  BY <1>1, <1>2

\* parse_command_call, if its loop does what it should.
LEMMA CommandCallKeeps ==
    ASSUME NEW g, NEW n \in Nat, LoopKeeps(g, n),
           NEW t \in TokenSeq, NEW p, NEW h \in Context, NEW inside \in BOOLEAN, NEW pipeline \in BOOLEAN,
           StartsAt(p, h, inside),
           NEW lo \in Nat, NEW hi \in Nat, Fits(t, lo, hi, n),
           NEW c, c = parse_command_call(g, t, p, lo, hi, inside, pipeline)
    PROVE  CallParsed(c, h, inside, pipeline)
<1>1. CASE hi < lo
  <2>1. c = [p |-> p, call |-> NULL]
    BY <1>1 DEF parse_command_call
  <2>2. Refused(p, h.held, h.from)
    BY SoundRefused DEF StartsAt
  <2> QED
    BY <2>1, <2>2 DEF CallParsed, Refused, NULL
<1>2. CASE ~(hi < lo)
  <2> DEFINE first == Success(p, NewBuilder)
             a == [t |-> t, r |-> first, lo |-> lo, i |-> lo, hi |-> hi, inside_substitution |-> inside]
             r == g[a]
  <2>1. first \in Result /\ first.ok /\ first.p = p /\ Going(first, h) /\ FilesOnly(first)
    BY StartIsReady
  <2> HIDE DEF first
  <2>2. a \in Frame
    BY <2>1 DEF Frame, Result, TokenSeq, Symbols
  <2>3. Ready(a, h) /\ (a.r.ok => a.hi + 1 - a.i <= n)
    BY <1>2, <2>1 DEF Ready, StartsAt, Fits
  <2>4. Done(a, h, r)
    BY <2>2, <2>3 DEF LoopKeeps
  <2>5. /\ r \in Result
        /\ IF r.ok THEN Going(r, h) /\ SubInPlace(r.p, inside) ELSE Refused(r.p, h.held, h.from)
        /\ r.ok => t[lo] \in Words
    <3>1. t[lo] \in Words \cup Symbols
      BY <1>2, ElementOfSeq DEF TokenSeq, Fits
    <3> HIDE DEF r
    <3> QED
      BY <2>4, <3>1 DEF Done, Symbols
  <2>6. c = EndOfCall(r, lo, t[lo], inside, pipeline)
    BY <1>2 DEF parse_command_call, first
  <2> HIDE DEF r
  <2> QED
    BY <2>5, <2>6, EndOfCallKeeps
<1> QED
  BY <1>1, <1>2

\* The ")" is among the tokens that were looked at, if there is one.
LEMMA ClosingPositionFacts ==
    ASSUME NEW t, NEW i \in Nat, NEW hi \in Nat
    PROVE  ClosingPosition(t, i, hi) = 0 \/ ClosingPosition(t, i, hi) \in i .. hi
<1> DEFINE Starts(k) == Cardinality({j \in i .. k : t[j] = "<("})
           Ends(k) == Cardinality({j \in i .. k : t[j] = ")"})
           found == {k \in i .. hi : t[k] = ")" /\ Ends(k) = Starts(k) + 1}
<1>1. ClosingPosition(t, i, hi) = IF found = {} THEN 0 ELSE CHOOSE k \in found : \A j \in found : k <= j
  BY DEF ClosingPosition
<1>2. CASE found # {}
  <2>1. found \subseteq Nat /\ found \subseteq i .. hi
    OBVIOUS
  <2> HIDE DEF found
  <2>2. \E k \in found : \A j \in found : k <= j
    BY <1>2, <2>1, LeastElement
  <2>3. (CHOOSE k \in found : \A j \in found : k <= j) \in found
    BY <2>2
  <2> QED
    BY <1>1, <1>2, <2>1, <2>3
<1>3. CASE found = {}
  BY <1>1, <1>3
<1> QED
  BY <1>2, <1>3

\* The parse of a substitution starts once its pipe is open.
LEMMA SubstitutionStarts ==
    ASSUME NEW s, NEW h \in Context, Going(s, h), FilesOnly(s),
           NEW p, p = [OpenPipe(s.p) EXCEPT !.sub = NULL]
    PROVE  StartsAt(p, Inner(s, h), TRUE)
<1> DEFINE held == h.held \cup Own(s.b, s.p)
           q == OpenPipe(s.p)
           pipe == Len(s.p.pipes) + 1
<1>1. /\ Inner(s, h).held = held /\ Inner(s, h).from = h.from /\ Inner(s, h).pipes = pipe
      /\ Inner(s, h).waiting = h.waiting \cup {pipe} /\ Inner(s, h).excess = h.excess + 1
  BY DEF Inner
<1>2. /\ Sound(s.p, held, h.from) /\ Ordered(s.p, {}) /\ Excess(s.p) = h.excess /\ Waits(s.p, h)
  BY DEF Going
<1>3. /\ s.p \in Parse /\ s.p.fd \in Nat /\ Len(s.p.pipes) \in Nat /\ DOMAIN s.p.pipes = 1 .. Len(s.p.pipes)
      /\ Len(s.p.calls) \in Nat
  BY <1>2, ParseFacts DEF Sound
<1>4. /\ q \in Parse
      /\ q.calls = s.p.calls /\ q.order = s.p.order /\ q.last = s.p.last /\ q.sub = s.p.sub
      /\ q.fd = s.p.fd + 2
      /\ Len(q.pipes) = Len(s.p.pipes) + 1
      /\ DOMAIN q.pipes = 1 .. Len(s.p.pipes) + 1
      /\ \A k \in DOMAIN s.p.pipes : q.pipes[k] = s.p.pipes[k]
      /\ q.pipes[Len(s.p.pipes) + 1] = <<s.p.fd + 1, s.p.fd + 2>>
  BY <1>3, OpenPipeFacts
<1>5. /\ Sound(q, held, h.from)
      /\ \A fd : IsUsed(q, fd) <=> IsUsed(s.p, fd)
      /\ ~IsUsed(s.p, s.p.fd + 1) /\ ~IsUsed(s.p, s.p.fd + 2)
  BY <1>2, OpenPipeSound
<1>6. Ordered(q, {})
  <2>1. \A m : IsLive(q, m) <=> IsLive(s.p, m)
    BY <1>4 DEF IsLive
  <2> QED
    BY <1>2, <1>4, <2>1 DEF Ordered, Addressed
<1>7. Waits(q, Inner(s, h))
  <2>1. h.waiting \cup {pipe} \subseteq DOMAIN q.pipes
    BY <1>2, <1>3, <1>4 DEF Waits
  <2>2. \A k \in h.waiting : q.pipes[k] = s.p.pipes[k]
    BY <1>2, <1>4 DEF Waits
  <2>3. q.pipes[pipe][1] = s.p.fd + 1 /\ q.pipes[pipe][2] = s.p.fd + 2
    BY <1>4
  <2> HIDE DEF q, pipe
  <2>4. ASSUME NEW fd, IsKept(q, Inner(s, h), fd) PROVE ~IsUsed(q, fd)
    <3>1. PICK k \in h.waiting \cup {pipe} : fd = q.pipes[k][1] \/ fd = q.pipes[k][2]
      BY <1>1, <2>4 DEF IsKept
    <3>2. CASE k = pipe
      BY <1>5, <2>3, <3>1, <3>2
    <3>3. CASE k \in h.waiting
      BY <1>2, <1>5, <2>2, <3>1, <3>3 DEF Waits, IsKept
    <3> QED
      BY <3>1, <3>2, <3>3
  <2> QED
    BY <1>1, <2>1, <2>4 DEF Waits
<1> HIDE DEF held, q
<1>8. /\ p \in Parse /\ p.calls = q.calls /\ p.pipes = q.pipes /\ p.sub = NULL
  BY <1>4, ResetFacts DEF q
<1>9. /\ Sound(p, held, h.from) /\ Ordered(p, {})
      /\ \A fd : IsUsed(p, fd) <=> IsUsed(q, fd)
  BY <1>4, <1>5, <1>6, ResetKeeps DEF q
<1>10. Waits(p, Inner(s, h))
  <2>1. \A fd : IsKept(p, Inner(s, h), fd) <=> IsKept(q, Inner(s, h), fd)
    BY <1>8 DEF IsKept
  <2> QED
    BY <1>7, <1>8, <1>9, <2>1 DEF Waits
<1>11. Excess(p) = h.excess + 1
  <2> DEFINE x == Len(s.p.pipes)
             y == Len(s.p.calls)
             z == Len(p.pipes)
             e == h.excess
  <2>1. x \in Nat /\ y \in Nat /\ z = x + 1 /\ Len(p.calls) = y
    BY <1>3, <1>4, <1>8
  <2>2. x - y = e
    BY <1>2 DEF Excess
  <2>3. e \in Int
    BY DEF Context
  <2> HIDE DEF x, y, z, e
  <2>4. z - y = e + 1
    BY <2>1, <2>2, <2>3
  <2> QED
    BY <2>1, <2>4 DEF Excess, z, e
<1>12. pipe <= Len(p.pipes)
  BY <1>3, <1>4, <1>8
<1> HIDE DEF pipe
<1> QED
  BY <1>1, <1>8, <1>9, <1>10, <1>11, <1>12 DEF StartsAt, SubInPlace, NULL

\* parse_command_substitution, if the loop it calls does what it should.
LEMMA CommandSubstitutionKeeps ==
    ASSUME NEW g, NEW n \in Nat, LoopKeeps(g, n),
           NEW t \in TokenSeq, NEW s, NEW h \in Context, NEW inside \in BOOLEAN,
           Going(s, h), FilesOnly(s),
           NEW i \in Nat, NEW end \in Nat, EndFits(t, i, end, n),
           NEW r, r = parse_command_substitution(g, t, s.p, s.b, i, end)
    PROVE  /\ r \in Result
           /\ IF r.ok THEN Going(r, h) /\ SubInPlace(r.p, inside) /\ FilesOnly(r)
              ELSE Refused(r.p, h.held, h.from)
<1>1. CASE end = 0
  <2> DEFINE p == [s.p EXCEPT !.sub = NULL]
             held == h.held \cup Own(s.b, s.p)
  <2>1. r = Error(p, s.b)
    BY <1>1 DEF parse_command_substitution
  <2>2. s.p \in Parse /\ Sound(s.p, held, h.from) /\ Ordered(s.p, {}) /\ s.b \in Builder /\ Len(s.b.fds) = 3
    BY DEF Going, Sound, BuilderApart
  <2>3. h.held \cup Own(s.b, s.p) \subseteq h.held \cup {s.b.fds[1], s.b.fds[2], s.b.fds[3]}
    BY DEF Own
  <2>4. Refused(p, h.held \cup Own(s.b, s.p), h.from)
    <3>1. p = [s.p EXCEPT !.sub = NULL]
      OBVIOUS
    <3> HIDE DEF p, held
    <3>2. Sound(p, held, h.from) /\ Ordered(p, {})
      BY <2>2, <3>1, ResetKeeps
    <3>3. Refused(p, held, h.from)
      BY <3>2, SoundRefused
    <3> QED
      BY <3>3 DEF held
  <2> HIDE DEF p
  <2>5. r \in Result /\ ~r.ok /\ Refused(r.p, h.held, h.from)
    BY <2>1, <2>2, <2>3, <2>4, ErrorRefused
  <2> QED
    BY <2>5
<1>2. CASE end # 0
  <2> DEFINE p == [OpenPipe(s.p) EXCEPT !.sub = NULL]
             c == parse_command_call(g, t, p, i, end - 1, TRUE, FALSE)
  <2>1. r = SubstitutionLinked(c, s)
    BY <1>2 DEF parse_command_substitution, SubstitutionLinked
  <2>2. StartsAt(p, Inner(s, h), TRUE)
    BY SubstitutionStarts
  <2>3. end - 1 \in Nat /\ Inner(s, h) \in Context /\ Fits(t, i, end - 1, n)
    BY <1>2, InnerFacts DEF EndFits
  <2> HIDE DEF p
  <2>4. \A yes, no \in BOOLEAN : StartsAt(p, Inner(s, h), yes) =>
           CallParsed(parse_command_call(g, t, p, i, end - 1, yes, no), Inner(s, h), yes, no)
    BY <2>3, CommandCallKeeps
  <2>5. CallParsed(c, Inner(s, h), TRUE, FALSE)
    BY <2>2, <2>4
  <2>6. SubstitutionParsed(c, Inner(s, h))
    BY <2>5 DEF SubstitutionParsed
  <2> HIDE DEF c
  <2> QED
    BY <2>1, <2>6, LinkSubstitutionKeeps
<1> QED
  BY <1>1, <1>2

\* The call after a "|" starts where the one before it has come to.
LEMMA WithinStarts ==
    ASSUME NEW s, NEW h \in Context, NEW inside, Going(s, h), SubInPlace(s.p, inside)
    PROVE  StartsAt(s.p, Within(s, h), inside) /\ Within(s, h) \in Context
<1>1. /\ Within(s, h) \in Context
      /\ Within(s, h).held = h.held \cup Own(s.b, s.p) /\ Within(s, h).from = h.from
      /\ Within(s, h).pipes = Len(s.p.pipes) /\ Within(s, h).waiting = h.waiting
      /\ Within(s, h).excess = h.excess
  BY WithinFacts
<1>2. Waits(s.p, Within(s, h))
  BY <1>1 DEF Going, Waits, IsKept
<1>3. Len(s.p.pipes) \in Nat
  BY ParseFacts DEF Going, Sound
<1> QED
  BY <1>1, <1>2, <1>3 DEF Going, StartsAt

\* A turn of the loop brings it nearer to its end.
LEMMA TurnKeeps ==
    ASSUME NEW g, NEW n \in Nat, LoopKeeps(g, n),
           NEW a \in Frame, NEW h \in Context, Ready(a, h), a.r.ok => a.hi + 1 - a.i <= n + 1,
           NEW r, r = ParseTokens(g, a)
    PROVE  Done(a, h, r)
<1>1. /\ a.r \in Result /\ a.t \in TokenSeq /\ a.lo \in Nat /\ a.i \in Nat /\ a.hi \in Nat
      /\ a.inside_substitution \in BOOLEAN
  BY DEF Frame, Result, TokenSeq, Symbols
<1>2. CASE ~a.r.ok
  <2>1. r = a.r
    BY <1>2 DEF ParseTokens
  <2> QED
    BY <1>1, <1>2, <2>1 DEF Ready, Done
<1>3. CASE a.r.ok
  <2>1. /\ Going(a.r, h) /\ SubInPlace(a.r.p, a.inside_substitution) /\ FilesOnly(a.r)
        /\ 1 <= a.lo /\ a.lo <= a.i /\ a.lo <= a.hi /\ a.i <= a.hi + 1 /\ a.hi <= Len(a.t)
    BY <1>3 DEF Ready
  <2> DEFINE symbol == a.t[a.i]
             next == a.t[a.i + 1]
             Continue(s, i) == [a EXCEPT !.r = s, !.i = i]
  (* What is left to do once the loop goes on with s at token i. *)
  <2>2. ASSUME NEW s \in Result, NEW i \in Nat,
               IF s.ok THEN Going(s, h) /\ SubInPlace(s.p, a.inside_substitution) /\ FilesOnly(s)
               ELSE Refused(s.p, h.held, h.from),
               s.ok => a.i < i /\ i <= a.hi + 1,
               a.i = a.lo => symbol \notin Symbols,
               r = g[Continue(s, i)]
        PROVE  Done(a, h, r)
    <3> DEFINE f == Continue(s, i)
    <3>1. /\ f.r = s /\ f.i = i /\ f.t = a.t /\ f.lo = a.lo /\ f.hi = a.hi
          /\ f.inside_substitution = a.inside_substitution
      BY DEF Frame
    <3>2. f \in Frame
      BY <2>2 DEF Frame, Result
    <3> HIDE DEF f
    <3>3. Ready(f, h) /\ (f.r.ok => f.hi + 1 - f.i <= n)
      BY <1>1, <1>3, <2>1, <2>2, <3>1 DEF Ready
    <3>4. Done(f, h, g[f])
      BY <3>2, <3>3 DEF LoopKeeps
    <3>5. Done(f, h, r)
      BY <2>2, <3>4 DEF f
    <3> HIDE <2>2
    <3> QED
      BY <2>1, <2>2, <3>1, <3>5 DEF Done, Symbols
  <2>3. CASE a.i > a.hi
    <3>1. r = a.r
      BY <1>3, <2>3 DEF ParseTokens
    <3>2. a.i # a.lo
      BY <1>1, <2>1, <2>3
    <3> QED
      BY <1>1, <1>3, <2>1, <3>1, <3>2 DEF Done
  <2>4. CASE a.i <= a.hi /\ symbol \notin Symbols
    <3>1. r = g[Continue(a.r, a.i + 1)]
      BY <1>1, <1>3, <2>4 DEF ParseTokens, Symbols
    <3>2. a.i + 1 \in Nat /\ a.i < a.i + 1 /\ a.i + 1 <= a.hi + 1
      BY <1>1, <2>4
    <3> QED
      BY <1>1, <1>3, <2>1, <2>2, <2>4, <3>1, <3>2
  <2>5. CASE /\ a.i <= a.hi /\ symbol \in Symbols
             /\ a.i = a.lo \/ a.i = a.hi \/ next \in Symbols
    <3>1. r = Error(a.r.p, a.r.b)
      <4>1. ~(a.i > a.hi)
        BY <1>1, <2>5
      <4> QED
        BY <1>3, <2>5, <4>1 DEF ParseTokens, Symbols
    <3>2. r \in Result /\ ~r.ok /\ Refused(r.p, h.held, h.from)
      BY <2>1, <3>1, ErrorGoing
    <3> QED
      BY <3>2 DEF Done
  <2>6. CASE /\ a.i <= a.hi /\ symbol \in Symbols
             /\ ~(a.i = a.lo \/ a.i = a.hi \/ next \in Symbols)
    <3>1. a.i + 1 \in Nat /\ a.i + 1 <= a.hi /\ a.i # a.lo
      BY <1>1, <2>6
    <3>2. CASE symbol = "<("
      <4> DEFINE end == ClosingPosition(a.t, a.i + 1, a.hi)
                 s == parse_command_substitution(g, a.t, a.r.p, a.r.b, a.i + 1, end)
      <4>1. r = g[Continue(s, end + 1)]
        BY <1>1, <1>3, <2>6, <3>2 DEF ParseTokens, Symbols
      <4>2. end = 0 \/ end \in a.i + 1 .. a.hi
        BY <1>1, <3>1, ClosingPositionFacts
      <4> HIDE DEF end
      <4>3. end \in Nat
        BY <1>1, <4>2
      <4>4. EndFits(a.t, a.i + 1, end, n)
        <5>1. CASE end = 0
          BY <5>1 DEF EndFits
        <5>2. CASE end \in a.i + 1 .. a.hi
          <6> DEFINE lo == a.lo
                     hi == a.hi
                     j == a.i
                     x == Len(a.t)
          <6>1. /\ lo \in Nat /\ hi \in Nat /\ j \in Nat /\ 1 <= lo /\ lo <= j /\ hi <= x
                /\ hi + 1 - j <= n + 1 /\ end \in j + 1 .. hi
            BY <1>1, <1>3, <2>1, <5>2
          <6>2. x \in Nat
            BY <1>1, LenProperties DEF TokenSeq
          <6> HIDE DEF lo, hi, j, x
          <6>3. 1 <= j + 1 /\ end - 1 <= x /\ (end - 1) + 1 - (j + 1) <= n
            BY <6>1, <6>2
          <6> QED
            BY <6>3 DEF EndFits, Fits, j, x
        <5> QED
          BY <4>2, <5>1, <5>2
      <4> DEFINE i == a.i + 1
      <4>5. i \in Nat /\ s = parse_command_substitution(g, a.t, a.r.p, a.r.b, i, end) /\ EndFits(a.t, i, end, n)
        BY <3>1, <4>4
      <4> HIDE DEF i, s
      <4>6. /\ s \in Result
            /\ IF s.ok THEN Going(s, h) /\ SubInPlace(s.p, a.inside_substitution) /\ FilesOnly(s)
               ELSE Refused(s.p, h.held, h.from)
        BY <1>1, <2>1, <4>3, <4>5, CommandSubstitutionKeeps
      <4>7. CASE end = 0
        <5>1. ~s.ok
          BY <4>7 DEF s, parse_command_substitution, Error
        <5>2. end + 1 \in Nat
          BY <4>3
        <5> QED
          BY <2>2, <3>1, <4>1, <4>6, <5>1, <5>2
      <4>8. CASE end # 0
        <5>1. end + 1 \in Nat /\ a.i < end + 1 /\ end + 1 <= a.hi + 1
          BY <1>1, <4>2, <4>8
        <5> QED
          BY <2>2, <3>1, <4>1, <4>6, <5>1
      <4> QED
        BY <4>7, <4>8
    <3>3. CASE symbol = "|"
      <4> DEFINE inside == a.inside_substitution
                 i == a.i + 1
                 hi == a.hi
                 c == parse_command_call(g, a.t, a.r.p, i, hi, inside, TRUE)
      <4>1. ~(a.i > a.hi)
        BY <1>1, <2>6
      <4>2. r = IF a.r.b.fds[2] # UNINITIALIZED_FD THEN Error(a.r.p, a.r.b) ELSE LinkNext(c, a.r.b, inside)
        BY <1>3, <2>6, <3>3, <4>1 DEF ParseTokens, Symbols
      <4>3. CASE a.r.b.fds[2] # UNINITIALIZED_FD
        <5>1. r \in Result /\ ~r.ok /\ Refused(r.p, h.held, h.from)
          BY <2>1, <4>2, <4>3, ErrorGoing
        <5> QED
          BY <5>1 DEF Done
      <4>4. CASE a.r.b.fds[2] = UNINITIALIZED_FD
        <5>1. r = LinkNext(c, a.r.b, inside)
          BY <4>2, <4>4
        <5>2. StartsAt(a.r.p, Within(a.r, h), inside) /\ Within(a.r, h) \in Context
          BY <2>1, WithinStarts
        <5>3. i \in Nat /\ hi \in Nat /\ Fits(a.t, i, hi, n) /\ inside \in BOOLEAN
          <6> DEFINE j == a.i
          <6>1. /\ j \in Nat /\ hi \in Nat /\ hi <= Len(a.t) /\ hi + 1 - j <= n + 1 /\ i = j + 1
                /\ inside \in BOOLEAN
            BY <1>1, <1>3, <2>1
          <6> HIDE DEF i, j, hi, inside
          <6>2. i \in Nat /\ 1 <= i /\ hi + 1 - i <= n
            BY <6>1
          <6> QED
            BY <6>1, <6>2 DEF Fits
        <5> HIDE DEF i, inside, hi
        <5>4. \A pipeline \in BOOLEAN :
                 CallParsed(parse_command_call(g, a.t, a.r.p, i, hi, inside, pipeline), Within(a.r, h), inside, pipeline)
          BY <1>1, <5>2, <5>3, CommandCallKeeps
        <5>5. CallParsed(c, Within(a.r, h), inside, TRUE)
          BY <5>4
        <5> HIDE DEF c
        <5>6. NextParsed(c, Within(a.r, h), inside)
          BY <5>5 DEF NextParsed
        <5>7. /\ r \in Result
              /\ IF r.ok THEN Going(r, h) /\ SubInPlace(r.p, inside) ELSE Refused(r.p, h.held, h.from)
          BY <2>1, <4>4, <5>1, <5>3, <5>6, LinkNextKeeps
        <5> QED
          BY <3>1, <5>7 DEF Done, inside
      <4> QED
        BY <4>3, <4>4
    <3>4. CASE symbol # "<(" /\ symbol # "|"
      <4> DEFINE s == parse_redirections(a.r.p, a.r.b, symbol, next)
      <4>1. ~(a.i > a.hi)
        BY <1>1, <2>6
      <4>2. r = g[Continue(s, a.i + 2)]
        BY <1>3, <2>6, <3>4, <4>1 DEF ParseTokens, Symbols
      <4> HIDE DEF symbol, next
      <4>3. /\ s \in Result
            /\ IF s.ok THEN Going(s, h) /\ FilesOnly(s) /\ s.p.sub = a.r.p.sub
               ELSE Refused(s.p, h.held, h.from)
        BY <2>1, RedirectionKeeps
      <4> HIDE DEF s
      <4>4. s.ok => SubInPlace(s.p, a.inside_substitution)
        BY <2>1, <4>3 DEF SubInPlace
      <4>5. a.i + 2 \in Nat /\ a.i < a.i + 2 /\ a.i + 2 <= a.hi + 1
        BY <1>1, <3>1
      <4> QED
        BY <2>2, <3>1, <4>2, <4>3, <4>4, <4>5
    <3> QED
      BY <3>2, <3>3, <3>4
  <2> QED
    BY <1>1, <2>3, <2>4, <2>5, <2>6
<1> QED
  BY <1>1, <1>2, <1>3

\* So the loop does what it should, however many tokens there are.
LEMMA LoopsKeep ==
    \A n \in Nat : LoopKeeps(Loops[n], n)
<1> DEFINE Keeping == {n \in Nat : LoopKeeps(Loops[n], n)}
<1>1. 0 \in Keeping
  <2> SUFFICES ASSUME NEW a \in Frame, NEW h \in Context,
                      Ready(a, h), a.r.ok => a.hi + 1 - a.i <= 0
               PROVE  Done(a, h, a.r)
    BY LoopsUnfold DEF LoopKeeps, NoTurn
  <2>1. a.r \in Result /\ a.lo \in Nat /\ a.i \in Nat /\ a.hi \in Nat
    BY DEF Frame, Result
  <2>2. CASE a.r.ok
    <3>1. a.i # a.lo
      BY <2>1, <2>2 DEF Ready
    <3> QED
      BY <2>1, <2>2, <3>1 DEF Ready, Done
  <2>3. CASE ~a.r.ok
    BY <2>1, <2>3 DEF Ready, Done
  <2> QED
    BY <2>2, <2>3
<1>2. ASSUME NEW n \in Nat, n \in Keeping PROVE n + 1 \in Keeping
  <2>1. LoopKeeps(Loops[n], n)
    BY <1>2
  <2>2. ASSUME NEW a \in Frame, NEW h \in Context,
               Ready(a, h), a.r.ok => a.hi + 1 - a.i <= n + 1
        PROVE  Done(a, h, Loops[n + 1][a])
    <3>1. Loops[n + 1][a] = ParseTokens(Loops[n], a)
      BY LoopsUnfold DEF OneTurn
    <3> QED
      BY <2>1, <2>2, <3>1, TurnKeeps
  <2>3. LoopKeeps(Loops[n + 1], n + 1)
    BY <2>2 DEF LoopKeeps
  <2> QED
    BY <2>3
<1>3. Nat \subseteq Keeping
  <2> HIDE DEF Keeping
  <2> QED
    BY <1>1, <1>2, Induction
<1> QED
  BY <1>3

-----------------------------------------------------------------------------
(* Which calls are linked by which pipe.  While a command is parsed a pipe *)
(* may still be due a writer, a reader or both: the pipe of a substitution *)
(* that is open (it is waiting) and those of the builders further out.     *)
IsOne(S) == \E n \in S : S = {n}

\* Nothing that was opened is lost, and pipes stay as they are.
Grows(p, q) ==
    /\ p.fd <= q.fd
    /\ \A k \in DOMAIN p.pipes : k \in DOMAIN q.pipes /\ q.pipes[k] = p.pipes[k]

CallWired(call, p) ==
    /\ \A k \in call.writes : call.stdout = p.pipes[k][2]
    /\ \A k \in call.reads : (call.stdin = p.pipes[k][1]) <=> (p.pipes[k][1] \notin call.files)
    /\ \A fd \in call.files : fd <= p.fd

(* All pipes have a writer but those in unwritten, and a reader but those  *)
(* in unread.                                                              *)
Wired(p, unwritten, unread) ==
    /\ \A k \in DOMAIN p.pipes :
          /\ IF k \in unwritten THEN Writers(p, k) = {} ELSE IsOne(Writers(p, k))
          /\ IF k \in unread THEN Readers(p, k) = {} ELSE IsOne(Readers(p, k))
    /\ \A n \in DOMAIN p.calls : CallWired(p.calls[n], p)

BuilderWired(b, p) ==
    /\ ~IsEnd(p, b.fds[1])
    /\ \A k \in b.writes : b.fds[2] = p.pipes[k][2]
    /\ \A k \in b.reads : p.pipes[k][1] \in b.files
    /\ \A fd \in b.files : fd <= p.fd

(* A builder and the parse it has come to, the pipes outer being those that*)
(* builders further out read.                                              *)
Linked(r, h, outer) ==
    /\ Wired(r.p, h.waiting \cup r.b.writes, h.waiting \cup outer \cup r.b.reads)
    /\ r.b.reads \cap (h.waiting \cup outer) = {}
    /\ r.b.writes \cap h.waiting = {}
    /\ outer \subseteq DOMAIN r.p.pipes
    /\ BuilderWired(r.b, r.p)

\* Wires are a matter of the calls and the pipes.
LEMMA WiredSame ==
    ASSUME NEW p, NEW q, q.calls = p.calls, q.pipes = p.pipes, q.fd = p.fd,
           NEW unwritten, NEW unread, Wired(p, unwritten, unread)
    PROVE  Wired(q, unwritten, unread)
<1>1. \A k : Writers(q, k) = Writers(p, k) /\ Readers(q, k) = Readers(p, k)
  BY DEF Writers, Readers
<1> QED
  BY <1>1 DEF Wired, CallWired

\* A call stays wired when descriptors are opened.
LEMMA WiredGrows ==
    ASSUME NEW p \in Parse, NEW q \in Parse, Grows(p, q),
           NEW call \in CallType, call.reads \cup call.writes \subseteq DOMAIN p.pipes, CallWired(call, p)
    PROVE  CallWired(call, q)
<1>1. /\ p.fd \in Nat /\ q.fd \in Nat /\ p.fd <= q.fd
      /\ \A k \in call.reads \cup call.writes : q.pipes[k] = p.pipes[k]
  BY ParseFacts DEF Grows
<1>2. \A fd \in call.files : fd \in Nat /\ fd <= p.fd
  BY DEF CallType, CallWired
<1>3. \A fd \in call.files : fd <= q.fd
  BY <1>1, <1>2
<1> QED
  BY <1>1, <1>3 DEF CallWired

\* A new pipe is due a writer and a reader.
LEMMA PipeOpened ==
    ASSUME NEW p, NEW held, NEW from, Sound(p, held, from),
           NEW unwritten, NEW unread, Wired(p, unwritten, unread),
           NEW q, q = OpenPipe(p), NEW pipe, pipe = Len(p.pipes) + 1
    PROVE  Wired(q, unwritten \cup {pipe}, unread \cup {pipe}) /\ Grows(p, q)
<1>1. p \in Parse /\ CallsApart(p, from)
  BY DEF Sound
<1>2. /\ q \in Parse /\ q.calls = p.calls /\ q.fd = p.fd + 2
      /\ DOMAIN q.pipes = 1 .. pipe
      /\ \A k \in DOMAIN p.pipes : q.pipes[k] = p.pipes[k]
      /\ Len(p.pipes) \in Nat /\ DOMAIN p.pipes = 1 .. Len(p.pipes) /\ p.fd \in Nat
      /\ \A n \in DOMAIN p.calls : p.calls[n] \in CallType
  BY <1>1, OpenPipeFacts, ParseFacts
<1>3. /\ pipe \notin DOMAIN p.pipes
      /\ \A k \in DOMAIN q.pipes : k = pipe \/ k \in DOMAIN p.pipes
      /\ \A k \in DOMAIN p.pipes : k \in DOMAIN q.pipes
      /\ p.fd <= q.fd
  BY <1>2
<1>4. Grows(p, q)
  BY <1>2, <1>3 DEF Grows
<1>5. \A n \in DOMAIN p.calls : p.calls[n].reads \cup p.calls[n].writes \subseteq DOMAIN p.pipes
  BY <1>1 DEF CallsApart
<1>6. ASSUME NEW n \in DOMAIN q.calls PROVE CallWired(q.calls[n], q)
  <2>1. /\ q.calls[n] \in CallType /\ CallWired(q.calls[n], p)
        /\ q.calls[n].reads \cup q.calls[n].writes \subseteq DOMAIN p.pipes
    BY <1>2, <1>5 DEF Wired
  <2> QED
    BY <1>1, <1>2, <1>4, <2>1, WiredGrows
<1>7. \A k : Writers(q, k) = Writers(p, k) /\ Readers(q, k) = Readers(p, k)
  BY <1>2 DEF Writers, Readers
<1>8. Writers(p, pipe) = {} /\ Readers(p, pipe) = {}
  BY <1>3, <1>5 DEF Writers, Readers
<1>9. \A k \in DOMAIN p.pipes : (k \in unwritten \cup {pipe} <=> k \in unwritten)
                                /\ (k \in unread \cup {pipe} <=> k \in unread)
  BY <1>3
<1> QED
  BY <1>3, <1>4, <1>6, <1>7, <1>8, <1>9 DEF Wired

\* Which calls write and read when one of them is changed.
CallChanged(q, r, n, new) ==
    /\ r.pipes = q.pipes /\ r.fd = q.fd
    /\ DOMAIN r.calls = DOMAIN q.calls /\ n \in DOMAIN q.calls
    /\ \A m \in DOMAIN q.calls : r.calls[m] = IF m = n THEN new ELSE q.calls[m]

\* A call that had the standard input reads from the pipe.
LEMMA ReaderLinked ==
    ASSUME NEW q, NEW held, NEW from, Sound(q, held, from),
           NEW unwritten, NEW unread, Wired(q, unwritten, unread),
           NEW pipe \in DOMAIN q.pipes, pipe \in unread,
           NEW n \in DOMAIN q.calls, q.calls[n].stdin = 0, q.pipes[pipe][1] \notin q.calls[n].files,
           NEW new, new = ReadsFrom(q.calls[n], pipe, q.pipes[pipe][1]),
           NEW r, CallChanged(q, r, n, new)
    PROVE  Wired(r, unwritten, unread \ {pipe})
<1> DEFINE old == q.calls[n]
           f == q.pipes[pipe][1]
<1>1. q \in Parse /\ PipesApart(q, from) /\ CallsApart(q, from) /\ q.fd \in Nat /\ from \in 2 .. q.fd
  BY ParseFacts DEF Sound
<1>2. old \in CallType /\ old.reads \subseteq DOMAIN q.pipes
  BY <1>1, ParseFacts DEF CallsApart
<1>3. /\ new.stdin = f /\ new.stdout = old.stdout /\ new.files = old.files
      /\ new.reads = old.reads \cup {pipe} /\ new.writes = old.writes
  <2> HIDE DEF old, f
  <2>1. new = ReadsFrom(old, pipe, f)
    BY DEF old, f
  <2> QED
    BY <1>2, <2>1 DEF ReadsFrom, CallType
<1>4. /\ \A k : Writers(r, k) = Writers(q, k)
      /\ \A k : k # pipe => Readers(r, k) = Readers(q, k)
      /\ Readers(r, pipe) = {n}
  <2>1. Readers(q, pipe) = {}
    BY DEF Wired
  <2>2. \A m \in DOMAIN q.calls : pipe \notin q.calls[m].reads
    BY <2>1 DEF Readers
  <2> HIDE DEF old, f
  <2>3. \A k : Writers(r, k) = Writers(q, k)
    BY <1>3 DEF CallChanged, Writers, old
  <2>4. ASSUME NEW k, k # pipe PROVE Readers(r, k) = Readers(q, k)
    BY <1>3, <2>4 DEF CallChanged, Readers, old
  <2>5. Readers(r, pipe) = {n}
    BY <1>3, <2>2 DEF CallChanged, Readers
  <2> QED
    BY <2>3, <2>4, <2>5
<1>5. CallWired(new, q)
  <2>1. CallWired(old, q)
    BY DEF Wired
  <2>2. pipe \notin old.reads
    <3>1. Readers(q, pipe) = {}
      BY DEF Wired
    <3> QED
      BY <3>1 DEF Readers
  <2>3. \A k \in old.reads : q.pipes[k][1] # 0 /\ q.pipes[k][1] # f
    BY <1>1, <1>2, <2>2 DEF PipesApart
  <2>4. \A k \in old.reads : q.pipes[k][1] \in old.files
    BY <2>1, <2>3 DEF CallWired
  <2> HIDE DEF old, f
  <2>5. f \notin old.files /\ f = q.pipes[pipe][1]
    BY DEF old, f
  <2> QED
    BY <1>3, <2>1, <2>3, <2>4, <2>5 DEF CallWired
<1>6. \A m \in DOMAIN r.calls : CallWired(r.calls[m], r)
  BY <1>5 DEF CallChanged, Wired, CallWired
<1>7. \A k \in DOMAIN r.pipes : k \in DOMAIN q.pipes
  BY DEF CallChanged
<1>8. IsOne(Readers(r, pipe))
  BY <1>4 DEF IsOne
<1> QED
  BY <1>4, <1>6, <1>7, <1>8 DEF Wired

\* A call that had the standard output writes into the pipe.
LEMMA WriterLinked ==
    ASSUME NEW q, NEW held, NEW from, Sound(q, held, from),
           NEW unwritten, NEW unread, Wired(q, unwritten, unread),
           NEW pipe \in DOMAIN q.pipes, pipe \in unwritten,
           NEW n \in DOMAIN q.calls, q.calls[n].stdout = 1,
           NEW new, new = WritesInto(q.calls[n], pipe, q.pipes[pipe][2]),
           NEW r, CallChanged(q, r, n, new)
    PROVE  Wired(r, unwritten \ {pipe}, unread)
<1> DEFINE old == q.calls[n]
           f == q.pipes[pipe][2]
<1>1. q \in Parse /\ PipesApart(q, from) /\ CallsApart(q, from) /\ q.fd \in Nat /\ from \in 2 .. q.fd
  BY ParseFacts DEF Sound
<1>2. old \in CallType /\ old.writes \subseteq DOMAIN q.pipes
  BY <1>1, ParseFacts DEF CallsApart
<1>3. /\ new.stdin = old.stdin /\ new.stdout = f /\ new.files = old.files
      /\ new.reads = old.reads /\ new.writes = old.writes \cup {pipe}
  <2> HIDE DEF old, f
  <2>1. new = WritesInto(old, pipe, f)
    BY DEF old, f
  <2> QED
    BY <1>2, <2>1 DEF WritesInto, CallType
<1>4. /\ \A k : Readers(r, k) = Readers(q, k)
      /\ \A k : k # pipe => Writers(r, k) = Writers(q, k)
      /\ Writers(r, pipe) = {n}
  <2>1. Writers(q, pipe) = {}
    BY DEF Wired
  <2>2. \A m \in DOMAIN q.calls : pipe \notin q.calls[m].writes
    BY <2>1 DEF Writers
  <2> HIDE DEF old, f
  <2>3. \A k : Readers(r, k) = Readers(q, k)
    BY <1>3 DEF CallChanged, Readers, old
  <2>4. ASSUME NEW k, k # pipe PROVE Writers(r, k) = Writers(q, k)
    BY <1>3, <2>4 DEF CallChanged, Writers, old
  <2>5. Writers(r, pipe) = {n}
    BY <1>3, <2>2 DEF CallChanged, Writers
  <2> QED
    BY <2>3, <2>4, <2>5
<1>5. CallWired(new, q)
  <2>1. CallWired(old, q)
    BY DEF Wired
  <2>2. \A k \in old.writes : q.pipes[k][2] # 1
    BY <1>1, <1>2 DEF PipesApart
  <2>3. old.writes = {}
    BY <2>1, <2>2 DEF CallWired
  <2> HIDE DEF old, f
  <2>4. f = q.pipes[pipe][2]
    BY DEF f
  <2> QED
    BY <1>3, <2>1, <2>3, <2>4 DEF CallWired
<1>6. \A m \in DOMAIN r.calls : CallWired(r.calls[m], r)
  BY <1>5 DEF CallChanged, Wired, CallWired
<1>7. \A k \in DOMAIN r.pipes : k \in DOMAIN q.pipes
  BY DEF CallChanged
<1>8. IsOne(Writers(r, pipe))
  BY <1>4 DEF IsOne
<1> QED
  BY <1>4, <1>6, <1>7, <1>8 DEF Wired

\* What is linked to a builder is linked to the call that it becomes.
LEMMA BuildCallWires ==
    ASSUME NEW s, NEW h \in Context, NEW outer, Going(s, h), Linked(s, h, outer), NEW inside,
           NEW at, NEW name, NEW c, c = BuildCall(s.p, s.b, at, name, inside)
    PROVE  Wired(c.p, h.waiting, h.waiting \cup outer) /\ Grows(s.p, c.p)
<1> DEFINE call == Len(s.p.calls) + 1
           built == [at |-> at, name |-> name, stdin |-> OrStandard(s.b, 1), stdout |-> OrStandard(s.b, 2),
                     stderr |-> OrStandard(s.b, 3), reads |-> s.b.reads, writes |-> s.b.writes,
                     files |-> s.b.files]
           last == IF s.p.last = NULL /\ ~inside THEN call ELSE s.p.last
           sub == IF s.p.sub = NULL /\ inside THEN call ELSE s.p.sub
<1>1. /\ s.p \in Parse /\ s.p.calls \in Seq(CallType) /\ Len(s.p.calls) \in Nat
      /\ DOMAIN s.p.calls = 1 .. Len(s.p.calls)
      /\ s.p.fd \in Nat /\ h.from \in 2 .. s.p.fd /\ PipesApart(s.p, h.from) /\ CallsApart(s.p, h.from)
      /\ BuilderApart(s.b, s.p, h)
  BY ParseFacts DEF Going, Sound, Parse
<1>2. /\ built.stdin = OrStandard(s.b, 1) /\ built.stdout = OrStandard(s.b, 2)
      /\ built.reads = s.b.reads /\ built.writes = s.b.writes /\ built.files = s.b.files
  OBVIOUS
<1>3. c.p = [s.p EXCEPT !.calls = Append(s.p.calls, built), !.last = last, !.sub = sub]
  BY DEF BuildCall
<1> HIDE DEF built, last, sub
<1>4. c.p.calls = Append(s.p.calls, built) /\ c.p.pipes = s.p.pipes /\ c.p.fd = s.p.fd
  BY <1>1, <1>3 DEF Parse
<1>5. DOMAIN c.p.calls = 1 .. call /\ c.p.calls[call] = built
      /\ \A m \in DOMAIN s.p.calls : c.p.calls[m] = s.p.calls[m]
  <2>1. \A m \in 1 .. Len(s.p.calls) : Append(s.p.calls, built)[m] = s.p.calls[m]
    BY <1>1
  <2> QED
    BY <1>1, <1>4, <2>1
<1>6. /\ call \in DOMAIN c.p.calls /\ call \notin DOMAIN s.p.calls
      /\ \A m \in DOMAIN c.p.calls : m = call \/ m \in DOMAIN s.p.calls
      /\ \A m \in DOMAIN s.p.calls : m \in DOMAIN c.p.calls
  BY <1>1, <1>5
<1> HIDE DEF call
<1>7. /\ \A k : Writers(c.p, k) = IF k \in s.b.writes THEN Writers(s.p, k) \cup {call} ELSE Writers(s.p, k)
      /\ \A k : Readers(c.p, k) = IF k \in s.b.reads THEN Readers(s.p, k) \cup {call} ELSE Readers(s.p, k)
  BY <1>2, <1>5, <1>6 DEF Writers, Readers
<1>8. CallWired(built, s.p)
  <2>1. BuilderWired(s.b, s.p)
    BY DEF Linked
  <2>2. \A k \in s.b.writes : s.p.pipes[k][2] > 2 /\ s.b.fds[2] = s.p.pipes[k][2]
    BY <1>1, <2>1 DEF BuilderWired, BuilderApart, PipesApart
  <2>3. \A k \in s.b.writes : built.stdout = s.p.pipes[k][2]
    BY <1>2, <2>2 DEF OrStandard, UNINITIALIZED_FD
  <2>4. \A k \in s.b.reads : s.p.pipes[k][1] > 2 /\ s.b.fds[1] # s.p.pipes[k][1]
    BY <1>1, <2>1 DEF BuilderWired, BuilderApart, PipesApart, IsEnd
  <2>5. \A k \in s.b.reads : built.stdin # s.p.pipes[k][1]
    BY <1>2, <2>4 DEF OrStandard
  <2> QED
    BY <1>2, <2>1, <2>3, <2>5 DEF BuilderWired, CallWired
<1>9. \A m \in DOMAIN c.p.calls : CallWired(c.p.calls[m], c.p)
  <2>1. \A m \in DOMAIN s.p.calls : CallWired(s.p.calls[m], s.p)
    BY DEF Linked, Wired
  <2> QED
    BY <1>4, <1>5, <1>6, <1>8, <2>1 DEF CallWired
<1>10. ASSUME NEW k \in DOMAIN c.p.pipes
       PROVE  /\ IF k \in h.waiting THEN Writers(c.p, k) = {} ELSE IsOne(Writers(c.p, k))
              /\ IF k \in h.waiting \cup outer THEN Readers(c.p, k) = {} ELSE IsOne(Readers(c.p, k))
  <2>1. /\ IF k \in h.waiting \cup s.b.writes THEN Writers(s.p, k) = {} ELSE IsOne(Writers(s.p, k))
        /\ IF k \in h.waiting \cup outer \cup s.b.reads THEN Readers(s.p, k) = {} ELSE IsOne(Readers(s.p, k))
        /\ k \in s.b.reads => k \notin h.waiting \cup outer
        /\ k \in s.b.writes => k \notin h.waiting
    BY <1>4 DEF Linked, Wired
  <2> QED
    BY <1>7, <2>1 DEF IsOne
<1>11. Wired(c.p, h.waiting, h.waiting \cup outer)
  BY <1>9, <1>10 DEF Wired
<1>12. Grows(s.p, c.p)
  BY <1>1, <1>4 DEF Grows
<1> QED
  BY <1>11, <1>12

\* A file is linked to nothing.
LEMMA RedirectionWires ==
    ASSUME NEW s, NEW h \in Context, NEW outer, Going(s, h), Linked(s, h, outer), s.b.writes = {},
           NEW symbol, NEW filename, NEW r, r = parse_redirections(s.p, s.b, symbol, filename), r.ok
    PROVE  Linked(r, h, outer) /\ r.b.writes = {} /\ Grows(s.p, r.p)
<1> DEFINE i == RedirectedFd(symbol)
           p == s.p
           b == s.b
           f == p.fd + 1
           q == Close(p, {b.fds[i]})
<1>1. i # 0 /\ filename \notin Unopenable
  BY DEF parse_redirections, Error
<1>2. i \in 1 .. 3
  BY <1>1 DEF RedirectedFd
<1> HIDE DEF i
<1>3. r = Success([q EXCEPT !.open = q.open \cup {f}, !.fd = q.fd + 1], [b EXCEPT !.fds[i] = f])
  BY <1>1, CloseFacts DEF parse_redirections, i, Going, Sound
<1>4. /\ p \in Parse /\ p.fd \in Nat /\ h.from \in 2 .. p.fd /\ PipesApart(p, h.from) /\ CallsApart(p, h.from)
      /\ b \in Builder /\ Len(b.fds) = 3 /\ b.fds \in Seq(Int)
  BY ParseFacts DEF Going, Sound, BuilderApart, Builder
<1>5. /\ q \in Parse /\ q.fd = p.fd /\ q.calls = p.calls /\ q.pipes = p.pipes
  BY <1>4, CloseFacts
<1> HIDE DEF q
<1>6. r.p \in Parse /\ r.p.calls = p.calls /\ r.p.pipes = p.pipes /\ r.p.fd = p.fd + 1
  <2>1. q.open \cup {f} \in SUBSET Nat /\ q.fd + 1 \in Nat
    BY <1>4, <1>5, ParseFacts
  <2>2. r.p = [q EXCEPT !.open = q.open \cup {f}, !.fd = q.fd + 1]
    BY <1>3 DEF Success
  <2> HIDE DEF f, p
  <2>3. r.p \in Parse /\ r.p.calls = q.calls /\ r.p.pipes = q.pipes /\ r.p.fd = q.fd + 1
    BY <1>5, <2>1, <2>2 DEF Parse
  <2> QED
    BY <1>5, <2>3
<1>7. r.b.reads = b.reads /\ r.b.writes = b.writes /\ r.b.files = b.files
      /\ r.b.fds[1] = IF i = 1 THEN f ELSE b.fds[1]
  <2>1. r.b = [b EXCEPT !.fds = [b.fds EXCEPT ![i] = f]]
    BY <1>3 DEF Success
  <2>2. [b.fds EXCEPT ![i] = f][1] = IF i = 1 THEN f ELSE b.fds[1]
    BY <1>2, <1>4
  <2> HIDE DEF b, f
  <2> QED
    BY <1>4, <2>1, <2>2 DEF Builder
<1>8. \A k : Writers(r.p, k) = Writers(p, k) /\ Readers(r.p, k) = Readers(p, k)
  BY <1>6 DEF Writers, Readers
<1>9. Grows(p, r.p)
  BY <1>4, <1>6 DEF Grows
<1>10. BuilderWired(r.b, r.p)
  <2>1. BuilderWired(b, p)
    BY DEF Linked
  <2>2. ~IsEnd(p, f)
    BY <1>4 DEF PipesApart, IsEnd
  <2>3. ~IsEnd(r.p, r.b.fds[1])
    BY <1>6, <1>7, <2>1, <2>2 DEF BuilderWired, IsEnd
  <2>4. \A fd \in b.files : fd \in Nat /\ fd <= p.fd
    BY <1>4, <2>1 DEF Builder, BuilderWired
  <2>5. \A fd \in b.files : fd <= p.fd + 1
    BY <1>4, <2>4
  <2> QED
    BY <1>6, <1>7, <2>1, <2>3, <2>5 DEF BuilderWired
<1>11. \A n \in DOMAIN r.p.calls : CallWired(r.p.calls[n], r.p)
  <2> HIDE DEF p
  <2>1. ASSUME NEW n \in DOMAIN p.calls PROVE CallWired(p.calls[n], r.p)
    <3>1. p.calls[n] \in CallType /\ CallWired(p.calls[n], p)
          /\ p.calls[n].reads \cup p.calls[n].writes \subseteq DOMAIN p.pipes
      BY <1>4, ParseFacts DEF Linked, Wired, CallsApart, p
    <3> QED
      BY <1>4, <1>6, <1>9, <3>1, WiredGrows
  <2> QED
    BY <1>6, <2>1
<1>12. Linked(r, h, outer)
  BY <1>6, <1>7, <1>8, <1>10, <1>11 DEF Linked, Wired
<1> QED
  BY <1>7, <1>9, <1>12

\* What a builder reads stays as it is while another call is parsed.
LEMMA BuilderGrows ==
    ASSUME NEW p \in Parse, NEW q \in Parse, Grows(p, q), NEW b \in Builder, BuilderWired(b, p),
           b.reads \subseteq DOMAIN p.pipes
    PROVE  /\ \A k \in b.reads : q.pipes[k][1] \in b.files
           /\ \A fd \in b.files : fd <= q.fd
<1>1. p.fd \in Nat /\ q.fd \in Nat /\ p.fd <= q.fd
  BY ParseFacts DEF Grows
<1>2. \A fd \in b.files : fd \in Nat /\ fd <= p.fd
  BY DEF Builder, BuilderWired
<1>3. \A fd \in b.files : fd <= q.fd
  BY <1>1, <1>2
<1> QED
  BY <1>3 DEF Grows, BuilderWired

\* The call after a "|" and the builder before it are linked by a new pipe.
LEMMA LinkNextWires ==
    ASSUME NEW s, NEW h \in Context, NEW outer, NEW inside \in BOOLEAN,
           Going(s, h), FilesOnly(s), Linked(s, h, outer), s.b.writes = {},
           NEW c, NextParsed(c, Within(s, h), inside),
           c.call # NULL => Wired(c.p, h.waiting, h.waiting \cup (outer \cup s.b.reads)) /\ Grows(s.p, c.p),
           NEW r, r = LinkNext(c, s.b, inside), r.ok
    PROVE  Linked(r, h, outer) /\ Grows(s.p, r.p)
<1> DEFINE p == c.p
           n == c.call
           q == OpenPipe(p)
           pipe == Len(p.pipes) + 1
           old == p.calls[n]
           new == ReadsFrom(q.calls[n], pipe, q.pipes[pipe][1])
           linked == [q EXCEPT !.calls = [q.calls EXCEPT ![n] = new]]
           b == [s.b EXCEPT !.writes = s.b.writes \cup {pipe}, !.fds = [s.b.fds EXCEPT ![2] = q.pipes[pipe][2]]]
           W == h.waiting
           R == h.waiting \cup (outer \cup s.b.reads)
<1>1. n # NULL
  BY DEF LinkNext, Error
<1>2. /\ Within(s, h).held = h.held \cup Own(s.b, s.p) /\ Within(s, h).from = h.from
      /\ Within(s, h).waiting = h.waiting
  BY WithinFacts
<1>3. /\ n \in DOMAIN p.calls /\ Sound(p, h.held \cup Own(s.b, s.p), h.from)
      /\ p.calls[n].stdin = 0 /\ Waits(p, h) /\ Wired(p, W, R) /\ Grows(s.p, p)
  BY <1>1, <1>2 DEF NextParsed, CallParsed, Waits, IsKept
<1>4. /\ p \in Parse /\ p.fd \in Nat /\ Len(p.pipes) \in Nat /\ DOMAIN p.pipes = 1 .. Len(p.pipes)
      /\ h.from \in 2 .. p.fd /\ PipesApart(p, h.from) /\ CallsApart(p, h.from)
  BY <1>3, ParseFacts DEF Sound
<1>5. /\ s.p \in Parse /\ s.b \in Builder /\ Len(s.b.fds) = 3 /\ s.b.fds \in Seq(Int)
      /\ s.b.reads \subseteq DOMAIN s.p.pipes /\ BuilderWired(s.b, s.p)
      /\ s.b.reads \cap (h.waiting \cup outer) = {} /\ outer \subseteq DOMAIN s.p.pipes
  BY DEF Going, Sound, BuilderApart, Linked, Builder
<1>6. /\ q \in Parse /\ q.calls = p.calls /\ q.fd = p.fd + 2
      /\ DOMAIN q.pipes = 1 .. pipe
      /\ q.pipes[pipe] = <<p.fd + 1, p.fd + 2>>
      /\ \A k \in DOMAIN p.pipes : q.pipes[k] = p.pipes[k]
  BY <1>4, OpenPipeFacts
<1>7. pipe \in DOMAIN q.pipes /\ pipe \notin DOMAIN p.pipes
      /\ q.pipes[pipe][1] = p.fd + 1 /\ q.pipes[pipe][2] = p.fd + 2
  BY <1>4, <1>6
<1>8. /\ Sound(q, h.held \cup Own(s.b, s.p), h.from)
      /\ \A fd : IsEnd(q, fd) <=> IsEnd(p, fd) \/ fd \in {p.fd + 1, p.fd + 2}
  BY <1>3, OpenPipeSound
<1>9. Wired(q, W \cup {pipe}, R \cup {pipe}) /\ Grows(p, q)
  <2>1. q = OpenPipe(p) /\ pipe = Len(p.pipes) + 1
    OBVIOUS
  <2> HIDE DEF p, q, pipe, W, R
  <2> QED
    BY <1>3, <2>1, PipeOpened
<1>10. q.calls[n].stdin = 0 /\ q.pipes[pipe][1] \notin q.calls[n].files /\ n \in DOMAIN q.calls
  <2>1. CallWired(p.calls[n], p)
    BY <1>3 DEF Wired
  <2>2. \A fd \in p.calls[n].files : fd <= p.fd
    BY <2>1 DEF CallWired
  <2>3. ~(p.fd + 1 <= p.fd)
    BY <1>4
  <2> QED
    BY <1>3, <1>6, <1>7, <2>2, <2>3
<1>11. /\ linked.pipes = q.pipes /\ linked.fd = q.fd /\ linked.calls = [q.calls EXCEPT ![n] = new]
  <2> HIDE DEF q, new
  <2> QED
    BY <1>6 DEF Parse
<1> HIDE DEF linked, new, q, pipe
<1>12. CallChanged(q, linked, n, new)
  BY <1>10, <1>11 DEF CallChanged
<1>13. Wired(linked, W \cup {pipe}, (R \cup {pipe}) \ {pipe})
  <2>1. pipe \in R \cup {pipe} /\ new = ReadsFrom(q.calls[n], pipe, q.pipes[pipe][1])
    BY DEF new
  <2> HIDE DEF R, W
  <2> QED
    BY <1>7, <1>8, <1>9, <1>10, <1>12, <2>1, ReaderLinked
<1>14. pipe \notin W /\ pipe \notin R
  BY <1>3, <1>5, <1>7 DEF Waits, Grows
<1>15. Wired(linked, W \cup {pipe}, R)
  <2>1. (R \cup {pipe}) \ {pipe} = R
    BY <1>14
  <2> QED
    BY <1>13, <2>1
<1>16. r.b = b /\ r.p = IF linked.last # n \/ inside THEN AddCallAtTheEnd(linked, n) ELSE linked
  <2>1. link_pipelines(p, s.b, n) = [p |-> linked, b |-> b]
    BY DEF link_pipelines, linked, new, q, pipe
  <2> HIDE DEF b
  <2> QED
    BY <1>1, <2>1 DEF LinkNext, Success
<1>17. r.p.calls = linked.calls /\ r.p.pipes = q.pipes /\ r.p.fd = q.fd
  <2>1. linked \in Parse
    <3>1. new \in CallType
      <4>1. q.calls[n] \in CallType
        BY <1>6, <1>10, ParseFacts
      <4>2. pipe \in Nat /\ q.pipes[pipe][1] \in Int
        BY <1>4, <1>7 DEF pipe
      <4> DEFINE o == q.calls[n]
                 f == q.pipes[pipe][1]
      <4>3. o.reads \cup {pipe} \in SUBSET Nat
        BY <4>1, <4>2 DEF CallType
      <4> HIDE DEF o, f
      <4>4. new = ReadsFrom(o, pipe, f) /\ f \in Int /\ o \in CallType
        BY <4>1, <4>2 DEF new, o, f
      <4> QED
        BY <4>3, <4>4 DEF ReadsFrom, CallType
    <3>2. q.calls \in Seq(CallType)
      BY <1>6 DEF Parse
    <3>3. [q.calls EXCEPT ![n] = new] \in Seq(CallType)
      BY <1>10, <3>1, <3>2, LenProperties, ExceptSeq
    <3> QED
      BY <1>6, <3>3 DEF linked, Parse
  <2>2. AddCallAtTheEnd(linked, n).calls = linked.calls /\ AddCallAtTheEnd(linked, n).pipes = linked.pipes
        /\ AddCallAtTheEnd(linked, n).fd = linked.fd
    BY <2>1 DEF AddCallAtTheEnd, Parse
  <2> QED
    BY <1>11, <1>16, <2>2
<1>18. r.b.reads = s.b.reads /\ r.b.writes = {pipe} /\ r.b.files = s.b.files
       /\ r.b.fds[1] = s.b.fds[1] /\ r.b.fds[2] = q.pipes[pipe][2]
  <2> DEFINE fds == [s.b.fds EXCEPT ![2] = q.pipes[pipe][2]]
  <2>1. fds[1] = s.b.fds[1] /\ fds[2] = q.pipes[pipe][2]
    BY <1>5
  <2> HIDE DEF fds
  <2>2. b = [s.b EXCEPT !.writes = s.b.writes \cup {pipe}, !.fds = fds]
    BY DEF fds
  <2> HIDE DEF b
  <2>3. b.reads = s.b.reads /\ b.writes = s.b.writes \cup {pipe} /\ b.files = s.b.files /\ b.fds = fds
    BY <1>5, <2>2 DEF Builder
  <2> QED
    BY <1>16, <2>1, <2>3
<1> HIDE DEF b
<1>19. Grows(s.p, q)
  <2>1. s.p.fd \in Nat /\ p.fd \in Nat /\ q.fd \in Nat
    BY <1>4, <1>5, <1>6, ParseFacts
  <2> QED
    BY <1>3, <1>9, <2>1 DEF Grows
<1>20. BuilderWired(r.b, r.p)
  <2>1. /\ \A k \in s.b.reads : q.pipes[k][1] \in s.b.files
        /\ \A fd \in s.b.files : fd <= q.fd
    BY <1>5, <1>6, <1>19, BuilderGrows
  <2>2. ~IsEnd(r.p, r.b.fds[1])
    <3>1. /\ BuilderApart(s.b, p, h) /\ \A k \in 1 .. 3 : ~IsEnd(p, s.b.fds[k])
      <4>1. Len(s.p.pipes) <= Len(p.pipes)
        BY <1>1, WithinFacts DEF NextParsed, CallParsed
      <4> QED
        BY <1>3, <4>1, BuilderWaits
    <3>2. s.b.fds[1] = UNINITIALIZED_FD \/ s.b.fds[1] \in h.from + 1 .. p.fd
      BY <3>1 DEF BuilderApart
    <3>3. s.b.fds[1] # p.fd + 1 /\ s.b.fds[1] # p.fd + 2
      BY <1>4, <3>2 DEF UNINITIALIZED_FD
    <3>4. ~IsEnd(q, s.b.fds[1])
      BY <1>8, <3>1, <3>3
    <3> QED
      BY <1>17, <1>18, <3>4 DEF IsEnd
  <2> QED
    BY <1>17, <1>18, <2>1, <2>2 DEF BuilderWired
<1>21. Wired(r.p, h.waiting \cup r.b.writes, h.waiting \cup outer \cup r.b.reads)
  <2>1. r.p.calls = linked.calls /\ r.p.pipes = linked.pipes /\ r.p.fd = linked.fd
    BY <1>11, <1>17
  <2>2. W \cup {pipe} = h.waiting \cup r.b.writes /\ R = h.waiting \cup outer \cup r.b.reads
    BY <1>18
  <2> HIDE DEF R, W
  <2>3. Wired(r.p, W \cup {pipe}, R)
    BY <1>15, <2>1, WiredSame
  <2> QED
    BY <2>2, <2>3
<1>22. outer \subseteq DOMAIN r.p.pipes /\ r.b.writes \cap h.waiting = {}
  BY <1>5, <1>14, <1>17, <1>18, <1>19 DEF Grows
<1>23. Grows(s.p, r.p)
  BY <1>17, <1>19 DEF Grows
<1> QED
  BY <1>5, <1>18, <1>20, <1>21, <1>22, <1>23 DEF Linked

\* The pipes of a call that was built.
BuiltWired(c, p, unwritten, unread) == c.call # NULL => Wired(c.p, unwritten, unread) /\ Grows(p, c.p)

\* The last call of a substitution and the builder are linked by its pipe.
LEMMA LinkSubstitutionWires ==
    ASSUME NEW s, NEW h \in Context, NEW outer,
           Going(s, h), FilesOnly(s), Linked(s, h, outer), s.b.writes = {},
           NEW c, SubstitutionParsed(c, Inner(s, h)),
           NEW pipe, pipe = Len(s.p.pipes) + 1,
           BuiltWired(c, s.p, h.waiting \cup {pipe}, h.waiting \cup {pipe} \cup (outer \cup s.b.reads)),
           NEW r, r = SubstitutionLinked(c, s), r.ok
    PROVE  Linked(r, h, outer) /\ r.b.writes = {} /\ Grows(s.p, r.p)
<1> DEFINE q == c.p
           n == c.call
           sub == q.sub
           old == q.calls[sub]
           new == WritesInto(old, pipe, q.pipes[pipe][2])
           linked == [q EXCEPT !.calls = [q.calls EXCEPT ![sub] = new]]
           reset == [linked EXCEPT !.sub = NULL]
           b == [s.b EXCEPT !.reads = s.b.reads \cup {pipe}, !.files = s.b.files \cup {q.pipes[pipe][1]}]
           W == h.waiting
           R == h.waiting \cup {pipe} \cup (outer \cup s.b.reads)
<1>1. n # NULL /\ old.stdout = 1
  BY DEF SubstitutionLinked, LinkSubstitution, Error
<1>2. r = Success(AddCallAtTheEnd([q EXCEPT !.calls[sub] = new, !.sub = NULL], n), b)
  BY <1>1 DEF SubstitutionLinked, LinkSubstitution
<1>3. /\ Inner(s, h).held = h.held \cup Own(s.b, s.p) /\ Inner(s, h).from = h.from
      /\ Inner(s, h).pipes = pipe /\ Inner(s, h).waiting = h.waiting \cup {pipe}
  BY DEF Inner
<1>4. /\ n \in DOMAIN q.calls /\ Sound(q, h.held \cup Own(s.b, s.p), h.from) /\ Ordered(q, {n})
      /\ Waits(q, Inner(s, h)) /\ pipe <= Len(q.pipes) /\ q.sub >= 0 /\ q.sub # NULL
  BY <1>1, <1>3 DEF SubstitutionParsed, CallParsed, SubInPlace
<1>5. Wired(q, W \cup {pipe}, R) /\ Grows(s.p, q)
  BY <1>1 DEF BuiltWired
<1>6. /\ q \in Parse /\ q.fd \in Nat /\ Len(q.pipes) \in Nat /\ DOMAIN q.pipes = 1 .. Len(q.pipes)
      /\ DOMAIN q.calls = 1 .. Len(q.calls) /\ h.from \in 2 .. q.fd /\ PipesApart(q, h.from)
      /\ Len(q.calls) \in Nat /\ q.calls \in Seq(CallType)
      /\ \A k \in DOMAIN q.calls : q.calls[k] \in CallType
      /\ \A k \in DOMAIN q.pipes : q.pipes[k] \in Nat \X Nat
  BY <1>4, ParseFacts DEF Sound, Parse
<1>7. sub \in DOMAIN q.calls
  BY <1>4, <1>6 DEF Ordered, Addressed, NULL
<1>8. /\ s.p \in Parse /\ s.b \in Builder /\ Len(s.p.pipes) \in Nat /\ DOMAIN s.p.pipes = 1 .. Len(s.p.pipes)
      /\ s.b.reads \subseteq DOMAIN s.p.pipes /\ BuilderWired(s.b, s.p) /\ h.waiting \subseteq DOMAIN s.p.pipes
      /\ s.b.reads \cap (h.waiting \cup outer) = {} /\ outer \subseteq DOMAIN s.p.pipes
  BY ParseFacts DEF Going, Sound, BuilderApart, Linked, Waits
<1>9. pipe \in DOMAIN q.pipes /\ pipe \notin DOMAIN s.p.pipes /\ pipe \in Nat
  BY <1>4, <1>6, <1>8
<1>10. /\ new \in CallType
       /\ linked \in Parse /\ linked.calls = [q.calls EXCEPT ![sub] = new]
       /\ linked.pipes = q.pipes /\ linked.fd = q.fd
  <2> DEFINE f == q.pipes[pipe][2]
  <2>1. old \in CallType /\ f \in Int
    <3>1. old \in CallType
      BY <1>6, <1>7
    <3>2. q.pipes[pipe] \in Nat \X Nat
      BY <1>6, <1>9
    <3> HIDE DEF q, old
    <3> QED
      BY <3>1, <3>2
  <2>2. old.writes \cup {pipe} \in SUBSET Nat
    BY <1>9, <2>1 DEF CallType
  <2> HIDE DEF f, old
  <2>3. new \in CallType
    BY <2>1, <2>2 DEF WritesInto, CallType, f
  <2> HIDE DEF new, q
  <2>4. [q.calls EXCEPT ![sub] = new] \in Seq(CallType)
    BY <1>6, <1>7, <2>3, ExceptSeq
  <2> QED
    BY <1>6, <2>3, <2>4 DEF Parse
<1>11. r.p.calls = linked.calls /\ r.p.pipes = q.pipes /\ r.p.fd = q.fd /\ r.b = b
  <2> HIDE DEF b
  <2>1. [q EXCEPT !.calls[sub] = new, !.sub = NULL] = reset
    BY DEF reset, linked
  <2> HIDE DEF q, linked
  <2>2. reset \in Parse /\ reset.calls = linked.calls /\ reset.pipes = linked.pipes /\ reset.fd = linked.fd
    BY <1>10, ResetFacts
  <2> HIDE DEF reset
  <2>3. AddCallAtTheEnd(reset, n).calls = reset.calls /\ AddCallAtTheEnd(reset, n).pipes = reset.pipes
        /\ AddCallAtTheEnd(reset, n).fd = reset.fd
    BY <2>2 DEF AddCallAtTheEnd, Parse
  <2>4. r = Success(AddCallAtTheEnd(reset, n), b)
    BY <1>2, <2>1
  <2>5. linked.pipes = q.pipes /\ linked.fd = q.fd
    BY <1>10
  <2> QED
    BY <2>2, <2>3, <2>4, <2>5 DEF Success
<1> HIDE DEF linked, new
<1>12. CallChanged(q, linked, sub, new)
  BY <1>6, <1>7, <1>10 DEF CallChanged
<1>13. Wired(linked, (W \cup {pipe}) \ {pipe}, R)
  <2>1. pipe \in W \cup {pipe} /\ new = WritesInto(q.calls[sub], pipe, q.pipes[pipe][2])
    BY DEF new
  <2>2. q.calls[sub].stdout = 1
    BY <1>1
  <2> HIDE DEF R, W, q, sub
  <2> QED
    BY <1>4, <1>5, <1>7, <1>9, <1>12, <2>1, <2>2, WriterLinked
<1>14. pipe \notin W /\ pipe \notin outer
  BY <1>8, <1>9
<1>15. r.b.reads = s.b.reads \cup {pipe} /\ r.b.writes = {} /\ r.b.files = s.b.files \cup {q.pipes[pipe][1]}
       /\ r.b.fds = s.b.fds
  <2> DEFINE reads == s.b.reads \cup {pipe}
             files == s.b.files \cup {q.pipes[pipe][1]}
  <2>1. b = [s.b EXCEPT !.reads = reads, !.files = files]
    OBVIOUS
  <2> HIDE DEF reads, files
  <2>2. b.reads = reads /\ b.writes = s.b.writes /\ b.files = files /\ b.fds = s.b.fds
    BY <1>8, <2>1 DEF Builder
  <2> HIDE DEF b
  <2> QED
    BY <1>11, <2>2 DEF reads, files
<1> HIDE DEF b
<1>16. BuilderWired(r.b, r.p)
  <2>1. /\ \A k \in s.b.reads : q.pipes[k][1] \in s.b.files
        /\ \A fd \in s.b.files : fd <= q.fd
    BY <1>5, <1>6, <1>8, BuilderGrows
  <2>2. \A k \in r.b.reads : r.p.pipes[k][1] \in r.b.files
    BY <1>11, <1>15, <2>1
  <2>3. \A fd \in r.b.files : fd <= r.p.fd
    <3>1. q.pipes[pipe][1] <= q.fd
      BY <1>6, <1>9 DEF PipesApart
    <3> QED
      BY <1>11, <1>15, <2>1, <3>1
  <2>4. ~IsEnd(r.p, r.b.fds[1])
    <3>1. Waits(q, h)
      <4>1. \A fd : IsKept(q, h, fd) => IsKept(q, Inner(s, h), fd)
        BY <1>3 DEF IsKept
      <4>2. h.waiting \subseteq DOMAIN q.pipes
        BY <1>5, <1>8 DEF Grows
      <4> QED
        BY <1>4, <4>1, <4>2 DEF Waits
    <3>2. Len(s.p.pipes) <= Len(q.pipes)
      BY <1>4, <1>6, <1>8
    <3>3. \A k \in 1 .. 3 : ~IsEnd(q, s.b.fds[k])
      <4> HIDE DEF q
      <4> QED
        BY <1>4, <3>1, <3>2, BuilderWaits
    <3> QED
      BY <1>11, <1>15, <3>3 DEF IsEnd
  <2> QED
    BY <1>15, <2>2, <2>3, <2>4 DEF BuilderWired
<1>17. Wired(r.p, h.waiting \cup r.b.writes, h.waiting \cup outer \cup r.b.reads)
  <2>1. (W \cup {pipe}) \ {pipe} = h.waiting \cup r.b.writes /\ R = h.waiting \cup outer \cup r.b.reads
    BY <1>14, <1>15
  <2>2. r.p.calls = linked.calls /\ r.p.pipes = linked.pipes /\ r.p.fd = linked.fd
    BY <1>10, <1>11
  <2> HIDE DEF R, W
  <2>3. Wired(r.p, (W \cup {pipe}) \ {pipe}, R)
    BY <1>13, <2>2, WiredSame
  <2> QED
    BY <2>1, <2>3
<1>18. Grows(s.p, r.p)
  BY <1>5, <1>11 DEF Grows
<1>19. outer \subseteq DOMAIN r.p.pipes
  BY <1>8, <1>18 DEF Grows
<1> QED
  BY <1>8, <1>14, <1>15, <1>16, <1>17, <1>18, <1>19 DEF Linked

\* What was not lost on the way is not lost.
LEMMA GrowsOn ==
    ASSUME NEW p \in Parse, NEW q \in Parse, NEW r \in Parse, Grows(p, q), Grows(q, r)
    PROVE  Grows(p, r)
<1>1. p.fd \in Nat /\ q.fd \in Nat /\ r.fd \in Nat
  BY ParseFacts
<1> QED
  BY <1>1 DEF Grows

\* A new builder is linked to nothing.
LEMMA StartWires ==
    ASSUME NEW p, NEW h \in Context, NEW inside, StartsAt(p, h, inside),
           NEW outer, outer \subseteq DOMAIN p.pipes, Wired(p, h.waiting, h.waiting \cup outer),
           NEW r, r = Success(p, NewBuilder)
    PROVE  Linked(r, h, outer) /\ r.b.writes = {}
<1>1. r.b = NewBuilder /\ r.p = p
  BY DEF Success
<1>2. r.b.reads = {} /\ r.b.writes = {} /\ r.b.files = {} /\ r.b.fds[1] = UNINITIALIZED_FD
  <2>1. /\ NewBuilder.reads = {} /\ NewBuilder.writes = {} /\ NewBuilder.files = {}
        /\ NewBuilder.fds[1] = UNINITIALIZED_FD
    BY DEF NewBuilder
  <2> QED
    BY <1>1, <2>1
<1>3. ~IsEnd(p, UNINITIALIZED_FD)
  <2>1. PipesApart(p, h.from) /\ h.from \in 2 .. p.fd /\ p.fd \in Nat
    BY ParseFacts DEF StartsAt, Sound
  <2> QED
    BY <2>1 DEF PipesApart, IsEnd, UNINITIALIZED_FD
<1>4. BuilderWired(r.b, r.p)
  BY <1>1, <1>2, <1>3 DEF BuilderWired
<1>5. h.waiting \cup r.b.writes = h.waiting /\ h.waiting \cup outer \cup r.b.reads = h.waiting \cup outer
  BY <1>2
<1> QED
  BY <1>1, <1>2, <1>4, <1>5 DEF Linked

(* What the loop with n tokens left links in frames that have no more.     *)
LoopWires(g, n) ==
    /\ \A a \in Frame : g[a].ok => a.r.ok
    /\ \A a \in Frame, h \in Context, outer \in SUBSET Nat :
          /\ Ready(a, h) /\ a.hi + 1 - a.i <= n
          /\ Linked(a.r, h, outer) /\ a.r.b.writes = {}
          /\ g[a].ok
          => Linked(g[a], h, outer) /\ Grows(a.r.p, g[a].p)

\* parse_command_call, if its loop links what it should.
LEMMA CommandCallWires ==
    ASSUME NEW g, NEW n \in Nat, LoopKeeps(g, n), LoopWires(g, n),
           NEW t \in TokenSeq, NEW p, NEW h \in Context, NEW inside \in BOOLEAN, NEW pipeline \in BOOLEAN,
           StartsAt(p, h, inside),
           NEW outer \in SUBSET Nat, outer \subseteq DOMAIN p.pipes, Wired(p, h.waiting, h.waiting \cup outer),
           NEW lo \in Nat, NEW hi \in Nat, Fits(t, lo, hi, n),
           NEW c, c = parse_command_call(g, t, p, lo, hi, inside, pipeline), c.call # NULL
    PROVE  Wired(c.p, h.waiting, h.waiting \cup outer) /\ Grows(p, c.p)
<1>1. ~(hi < lo)
  BY DEF parse_command_call
<1> DEFINE first == Success(p, NewBuilder)
           a == [t |-> t, r |-> first, lo |-> lo, i |-> lo, hi |-> hi, inside_substitution |-> inside]
           r == g[a]
<1>2. first \in Result /\ first.ok /\ first.p = p /\ Going(first, h) /\ FilesOnly(first)
  BY StartIsReady
<1>3. Linked(first, h, outer) /\ first.b.writes = {}
  BY StartWires
<1>4. c = EndOfCall(r, lo, t[lo], inside, pipeline)
  BY <1>1 DEF parse_command_call
<1> HIDE DEF first
<1>5. a \in Frame
  BY <1>2 DEF Frame, Result, TokenSeq, Symbols
<1>6. Ready(a, h) /\ a.r.ok /\ a.hi + 1 - a.i <= n /\ a.r = first
  BY <1>1, <1>2 DEF Ready, StartsAt, Fits
<1>7. Done(a, h, r)
  BY <1>5, <1>6 DEF LoopKeeps
<1>8. r.ok => Linked(r, h, outer) /\ Grows(p, r.p)
  <2> HIDE DEF a
  <2> QED
    BY <1>2, <1>3, <1>5, <1>6 DEF LoopWires
<1> HIDE DEF a, r
<1>9. r.ok /\ c = BuildCall(r.p, r.b, lo, t[lo], inside)
  BY <1>4 DEF EndOfCall
<1>10. Going(r, h)
  BY <1>7, <1>9 DEF Done
<1>11. Wired(c.p, h.waiting, h.waiting \cup outer) /\ Grows(r.p, c.p)
  BY <1>8, <1>9, <1>10, BuildCallWires
<1>12. Grows(p, c.p)
  <2>1. CallParsed(c, h, inside, pipeline)
    BY CommandCallKeeps
  <2> QED
    BY <1>8, <1>9, <1>10, <1>11, <2>1, GrowsOn DEF StartsAt, Sound, Going, CallParsed
<1> QED
  BY <1>11, <1>12

\* parse_command_substitution, if the loop it calls links what it should.
LEMMA CommandSubstitutionWires ==
    ASSUME NEW g, NEW n \in Nat, LoopKeeps(g, n), LoopWires(g, n),
           NEW t \in TokenSeq, NEW s, NEW h \in Context, NEW outer \in SUBSET Nat,
           Going(s, h), FilesOnly(s), Linked(s, h, outer), s.b.writes = {},
           NEW i \in Nat, NEW end \in Nat, EndFits(t, i, end, n),
           NEW r, r = parse_command_substitution(g, t, s.p, s.b, i, end), r.ok
    PROVE  Linked(r, h, outer) /\ r.b.writes = {} /\ Grows(s.p, r.p)
<1> DEFINE q == OpenPipe(s.p)
           p == [q EXCEPT !.sub = NULL]
           pipe == Len(s.p.pipes) + 1
           around == outer \cup s.b.reads
           c == parse_command_call(g, t, p, i, end - 1, TRUE, FALSE)
<1>1. end # 0
  BY DEF parse_command_substitution, Error
<1>2. r = SubstitutionLinked(c, s)
  BY <1>1 DEF parse_command_substitution, SubstitutionLinked
<1>3. StartsAt(p, Inner(s, h), TRUE)
  BY SubstitutionStarts
<1>4. end - 1 \in Nat /\ Inner(s, h) \in Context /\ Fits(t, i, end - 1, n)
  BY <1>1, InnerFacts DEF EndFits
<1>5. Inner(s, h).waiting = h.waiting \cup {pipe}
  BY DEF Inner
<1>6. /\ s.p \in Parse /\ Sound(s.p, h.held \cup Own(s.b, s.p), h.from) /\ s.b.reads \subseteq DOMAIN s.p.pipes
      /\ outer \subseteq DOMAIN s.p.pipes /\ Wired(s.p, h.waiting, h.waiting \cup around)
  <2>1. h.waiting \cup s.b.writes = h.waiting /\ h.waiting \cup outer \cup s.b.reads = h.waiting \cup around
    OBVIOUS
  <2> QED
    BY <2>1 DEF Going, Sound, BuilderApart, Linked
<1>7. /\ q \in Parse /\ p \in Parse /\ p.calls = q.calls /\ p.pipes = q.pipes /\ p.fd = q.fd
  <2>1. q \in Parse
    BY <1>6, OpenPipeFacts
  <2> HIDE DEF q
  <2> QED
    BY <2>1, ResetFacts
<1>8. Wired(q, h.waiting \cup {pipe}, (h.waiting \cup around) \cup {pipe}) /\ Grows(s.p, q)
  <2>1. q = OpenPipe(s.p) /\ pipe = Len(s.p.pipes) + 1
    OBVIOUS
  <2> HIDE DEF q, pipe, around
  <2> QED
    BY <1>6, <2>1, PipeOpened
<1> HIDE DEF p, q
<1>9. Wired(p, h.waiting \cup {pipe}, (h.waiting \cup {pipe}) \cup around) /\ Grows(s.p, p)
  <2>1. (h.waiting \cup around) \cup {pipe} = (h.waiting \cup {pipe}) \cup around
    OBVIOUS
  <2>2. Wired(q, h.waiting \cup {pipe}, (h.waiting \cup {pipe}) \cup around)
    BY <1>8, <2>1
  <2>3. Wired(p, h.waiting \cup {pipe}, (h.waiting \cup {pipe}) \cup around)
    BY <1>7, <2>2, WiredSame
  <2> QED
    BY <1>7, <1>8, <2>3 DEF Grows
<1>10. around \in SUBSET Nat /\ around \subseteq DOMAIN p.pipes
  <2>1. DOMAIN s.p.pipes \subseteq Nat
    BY <1>6, ParseFacts
  <2> QED
    BY <1>6, <1>9, <2>1 DEF Grows
<1> HIDE DEF around, pipe
<1> DEFINE last == end - 1
           inner == Inner(s, h)
           Call(yes, no) == parse_command_call(g, t, p, i, last, yes, no)
<1>11. /\ last \in Nat /\ inner \in Context /\ Fits(t, i, last, n)
       /\ Wired(p, inner.waiting, inner.waiting \cup around)
  BY <1>4, <1>5, <1>9
<1> HIDE DEF last, inner
<1>12. ASSUME NEW yes \in BOOLEAN, NEW no \in BOOLEAN, StartsAt(p, inner, yes)
       PROVE  /\ CallParsed(Call(yes, no), inner, yes, no)
              /\ Call(yes, no).call # NULL => /\ Wired(Call(yes, no).p, inner.waiting, inner.waiting \cup around)
                                              /\ Grows(p, Call(yes, no).p)
  <2> DEFINE d == Call(yes, no)
  <2>1. d = parse_command_call(g, t, p, i, last, yes, no)
    OBVIOUS
  <2> HIDE DEF d, Call
  <2>2. CallParsed(d, inner, yes, no)
    BY <1>11, <1>12, <2>1, CommandCallKeeps
  <2>3. ASSUME d.call # NULL
        PROVE  Wired(d.p, inner.waiting, inner.waiting \cup around) /\ Grows(p, d.p)
    BY <1>10, <1>11, <1>12, <2>1, <2>3, CommandCallWires
  <2> QED
    BY <2>2, <2>3 DEF d
<1>13. /\ CallParsed(c, Inner(s, h), TRUE, FALSE)
       /\ c.call # NULL => /\ Wired(c.p, h.waiting \cup {pipe}, (h.waiting \cup {pipe}) \cup around)
                           /\ Grows(p, c.p)
  <2>1. StartsAt(p, inner, TRUE) /\ c = Call(TRUE, FALSE) /\ inner.waiting = h.waiting \cup {pipe}
    BY <1>3, <1>5 DEF last, inner
  <2> HIDE DEF c, Call
  <2>2. /\ CallParsed(c, inner, TRUE, FALSE)
        /\ c.call # NULL => Wired(c.p, inner.waiting, inner.waiting \cup around) /\ Grows(p, c.p)
    BY <1>12, <2>1
  <2> QED
    BY <2>1, <2>2 DEF inner
<1> HIDE DEF c
<1>14. c.call # NULL => Grows(s.p, c.p)
  BY <1>6, <1>7, <1>9, <1>13, GrowsOn DEF CallParsed
<1>15. SubstitutionParsed(c, Inner(s, h))
  BY <1>13 DEF SubstitutionParsed
<1>16. BuiltWired(c, s.p, h.waiting \cup {pipe}, h.waiting \cup {pipe} \cup (outer \cup s.b.reads))
  BY <1>13, <1>14 DEF around, BuiltWired
<1>17. pipe = Len(s.p.pipes) + 1
  BY DEF pipe
<1> HIDE DEF pipe
<1> QED
  BY <1>2, <1>15, <1>16, <1>17, LinkSubstitutionWires

\* The call after a "|", if the loop it calls links what it should.
LEMMA NextCallWires ==
    ASSUME NEW g, NEW n \in Nat, LoopKeeps(g, n), LoopWires(g, n),
           NEW t \in TokenSeq, NEW s, NEW h \in Context, NEW outer \in SUBSET Nat,
           NEW inside \in BOOLEAN, NEW i \in Nat, NEW hi \in Nat,
           Going(s, h), FilesOnly(s), SubInPlace(s.p, inside), Linked(s, h, outer), s.b.writes = {},
           Fits(t, i, hi, n),
           NEW c, c = parse_command_call(g, t, s.p, i, hi, inside, TRUE)
    PROVE  /\ NextParsed(c, Within(s, h), inside)
           /\ c.call # NULL => Wired(c.p, h.waiting, h.waiting \cup (outer \cup s.b.reads)) /\ Grows(s.p, c.p)
<1> DEFINE k == Within(s, h)
           around == outer \cup s.b.reads
           p == s.p
           Call(pipeline) == parse_command_call(g, t, p, i, hi, inside, pipeline)
<1>1. StartsAt(p, k, inside) /\ k \in Context /\ k.waiting = h.waiting
  BY WithinStarts, WithinFacts
<1>2. /\ around \in SUBSET Nat /\ around \subseteq DOMAIN p.pipes
      /\ Wired(p, k.waiting, k.waiting \cup around)
  <2>1. h.waiting \cup s.b.writes = h.waiting /\ h.waiting \cup outer \cup s.b.reads = h.waiting \cup around
    OBVIOUS
  <2>2. s.b.reads \subseteq DOMAIN p.pipes /\ DOMAIN p.pipes \subseteq Nat /\ outer \subseteq DOMAIN p.pipes
    BY ParseFacts DEF Going, Sound, BuilderApart, Linked
  <2> QED
    BY <1>1, <2>1, <2>2 DEF Linked
<1> HIDE DEF k, around, p
<1>3. ASSUME NEW pipeline \in BOOLEAN
      PROVE  /\ CallParsed(Call(pipeline), k, inside, pipeline)
             /\ Call(pipeline).call # NULL =>
                   Wired(Call(pipeline).p, k.waiting, k.waiting \cup around) /\ Grows(p, Call(pipeline).p)
  <2> DEFINE d == Call(pipeline)
  <2>1. d = parse_command_call(g, t, p, i, hi, inside, pipeline)
    OBVIOUS
  <2> HIDE DEF d, Call
  <2>2. CallParsed(d, k, inside, pipeline)
    BY <1>1, <2>1, CommandCallKeeps
  <2>3. ASSUME d.call # NULL
        PROVE  Wired(d.p, k.waiting, k.waiting \cup around) /\ Grows(p, d.p)
    BY <1>1, <1>2, <2>1, <2>3, CommandCallWires
  <2> QED
    BY <2>2, <2>3 DEF d
<1>4. c = Call(TRUE)
  BY DEF p
<1> HIDE DEF Call
<1>5. /\ CallParsed(c, k, inside, TRUE)
      /\ c.call # NULL => Wired(c.p, k.waiting, k.waiting \cup around) /\ Grows(p, c.p)
  BY <1>3, <1>4
<1> QED
  BY <1>1, <1>5 DEF NextParsed, k, p, around

\* A turn of the loop links what it should.
LEMMA TurnWires ==
    ASSUME NEW g, NEW n \in Nat, LoopKeeps(g, n), LoopWires(g, n),
           NEW a \in Frame, NEW h \in Context, NEW outer \in SUBSET Nat,
           Ready(a, h), a.r.ok, a.hi + 1 - a.i <= n + 1, Linked(a.r, h, outer), a.r.b.writes = {},
           NEW r, r = ParseTokens(g, a), r.ok
    PROVE  Linked(r, h, outer) /\ Grows(a.r.p, r.p)
<1>1. /\ a.r \in Result /\ a.t \in TokenSeq /\ a.lo \in Nat /\ a.i \in Nat /\ a.hi \in Nat
      /\ a.inside_substitution \in BOOLEAN
  BY DEF Frame, Result, TokenSeq, Symbols
<1>2. /\ Going(a.r, h) /\ SubInPlace(a.r.p, a.inside_substitution) /\ FilesOnly(a.r)
      /\ 1 <= a.lo /\ a.lo <= a.i /\ a.lo <= a.hi /\ a.i <= a.hi + 1 /\ a.hi <= Len(a.t)
  BY DEF Ready
<1>3. Grows(a.r.p, a.r.p)
  <2>1. a.r.p.fd \in Nat
    BY <1>2, ParseFacts DEF Going, Sound
  <2> QED
    BY <2>1 DEF Grows
<1> DEFINE symbol == a.t[a.i]
           next == a.t[a.i + 1]
           Continue(s, i) == [a EXCEPT !.r = s, !.i = i]
(* What is left to do once the loop goes on with s at token i. *)
<1>4. ASSUME NEW s \in Result, NEW i \in Nat, r = g[Continue(s, i)],
             s.ok => /\ Going(s, h) /\ SubInPlace(s.p, a.inside_substitution) /\ FilesOnly(s)
                     /\ a.i < i /\ i <= a.hi + 1
                     /\ Linked(s, h, outer) /\ s.b.writes = {} /\ Grows(a.r.p, s.p)
      PROVE  Linked(r, h, outer) /\ Grows(a.r.p, r.p)
  <2> DEFINE f == Continue(s, i)
  <2>1. /\ f.r = s /\ f.i = i /\ f.t = a.t /\ f.lo = a.lo /\ f.hi = a.hi
        /\ f.inside_substitution = a.inside_substitution
    BY DEF Frame
  <2>2. f \in Frame
    BY <1>4 DEF Frame, Result
  <2>3. r = g[f]
    BY <1>4
  <2> HIDE DEF f
  <2>4. s.ok
    BY <2>1, <2>2, <2>3 DEF LoopWires
  <2>5. Ready(f, h) /\ f.hi + 1 - f.i <= n
    BY <1>1, <1>2, <1>4, <2>1, <2>4 DEF Ready
  <2>6. Linked(r, h, outer) /\ Grows(s.p, r.p)
    BY <1>4, <2>1, <2>2, <2>3, <2>4, <2>5 DEF LoopWires
  <2>7. r \in Result
    BY <2>2, <2>3, <2>5 DEF LoopKeeps, Done
  <2>8. a.r.p \in Parse /\ s.p \in Parse /\ r.p \in Parse
    BY <1>1, <1>4, <2>7 DEF Result
  <2> QED
    BY <1>4, <2>4, <2>6, <2>8, GrowsOn
<1>5. CASE a.i > a.hi
  <2>1. r = a.r
    BY <1>5 DEF ParseTokens
  <2> QED
    BY <1>3, <2>1
<1>6. CASE a.i <= a.hi /\ symbol \notin Symbols
  <2>1. r = g[Continue(a.r, a.i + 1)]
    BY <1>1, <1>6 DEF ParseTokens, Symbols
  <2>2. a.i + 1 \in Nat /\ a.i < a.i + 1 /\ a.i + 1 <= a.hi + 1
    BY <1>1, <1>6
  <2> QED
    BY <1>1, <1>2, <1>3, <1>4, <2>1, <2>2
<1>7. CASE a.i <= a.hi /\ symbol \in Symbols
  <2>1. ~(a.i > a.hi)
    BY <1>1, <1>7
  <2>2. a.i # a.lo /\ a.i # a.hi /\ next \notin Symbols
    BY <1>7, <2>1 DEF ParseTokens, Symbols, Error
  <2>3. a.i + 1 \in Nat /\ a.i + 1 <= a.hi
    BY <1>1, <1>7, <2>2
  <2>4. CASE symbol = "<("
    <3> DEFINE end == ClosingPosition(a.t, a.i + 1, a.hi)
               s == parse_command_substitution(g, a.t, a.r.p, a.r.b, a.i + 1, end)
    <3>1. r = g[Continue(s, end + 1)]
      BY <1>7, <2>1, <2>2, <2>4 DEF ParseTokens, Symbols
    <3>2. end = 0 \/ end \in a.i + 1 .. a.hi
      BY <1>1, <2>3, ClosingPositionFacts
    <3> HIDE DEF end
    <3>3. end \in Nat /\ end + 1 \in Nat
      BY <1>1, <3>2
    <3>4. EndFits(a.t, a.i + 1, end, n)
      <4>1. CASE end = 0
        BY <4>1 DEF EndFits
      <4>2. CASE end \in a.i + 1 .. a.hi
        <5> DEFINE lo == a.lo
                   hi == a.hi
                   j == a.i
                   x == Len(a.t)
        <5>1. /\ lo \in Nat /\ hi \in Nat /\ j \in Nat /\ 1 <= lo /\ lo <= j /\ hi <= x
              /\ hi + 1 - j <= n + 1 /\ end \in j + 1 .. hi
          BY <1>1, <1>2, <4>2
        <5>2. x \in Nat
          BY <1>1, LenProperties DEF TokenSeq
        <5> HIDE DEF lo, hi, j, x
        <5>3. 1 <= j + 1 /\ end - 1 <= x /\ (end - 1) + 1 - (j + 1) <= n
          BY <5>1, <5>2
        <5> QED
          BY <5>3 DEF EndFits, Fits, j, x
      <4> QED
        BY <3>2, <4>1, <4>2
    <3> DEFINE i == a.i + 1
    <3>5. i \in Nat /\ s = parse_command_substitution(g, a.t, a.r.p, a.r.b, i, end) /\ EndFits(a.t, i, end, n)
      BY <2>3, <3>4
    <3> HIDE DEF i, s
    <3>6. /\ s \in Result
          /\ s.ok => Going(s, h) /\ SubInPlace(s.p, a.inside_substitution) /\ FilesOnly(s)
      BY <1>1, <1>2, <3>3, <3>5, CommandSubstitutionKeeps
    <3>7. ASSUME s.ok PROVE Linked(s, h, outer) /\ s.b.writes = {} /\ Grows(a.r.p, s.p)
      <4> DEFINE t == a.t
                 from == a.r
      <4>1. /\ t \in TokenSeq /\ Going(from, h) /\ FilesOnly(from) /\ Linked(from, h, outer) /\ from.b.writes = {}
            /\ s = parse_command_substitution(g, t, from.p, from.b, i, end) /\ EndFits(t, i, end, n)
        BY <1>1, <1>2, <3>5
      <4> HIDE DEF t, from
      <4>2. Linked(s, h, outer) /\ s.b.writes = {} /\ Grows(from.p, s.p)
        BY <3>3, <3>5, <3>7, <4>1, CommandSubstitutionWires
      <4> QED
        BY <4>2 DEF from
    <3>8. s.ok => end # 0
      BY <3>5 DEF parse_command_substitution, Error
    <3>9. end # 0 => a.i < end + 1 /\ end + 1 <= a.hi + 1
      BY <1>1, <3>2
    <3> QED
      BY <1>4, <3>1, <3>3, <3>6, <3>7, <3>8, <3>9
  <2>5. CASE symbol = "|"
    <3> DEFINE inside == a.inside_substitution
               t == a.t
               i == a.i + 1
               hi == a.hi
               s == a.r
               c == parse_command_call(g, t, s.p, i, hi, inside, TRUE)
    <3>1. r = LinkNext(c, s.b, inside) /\ s.b.fds[2] = UNINITIALIZED_FD
      BY <1>7, <2>1, <2>2, <2>5 DEF ParseTokens, Symbols, Error
    <3>2. /\ i \in Nat /\ hi \in Nat /\ Fits(t, i, hi, n) /\ inside \in BOOLEAN /\ t \in TokenSeq
          /\ Going(s, h) /\ FilesOnly(s) /\ SubInPlace(s.p, inside) /\ Linked(s, h, outer) /\ s.b.writes = {}
      BY <1>1, <1>2 DEF Fits
    <3> HIDE DEF i, hi, t, s, inside
    <3>3. /\ NextParsed(c, Within(s, h), inside)
          /\ c.call # NULL => Wired(c.p, h.waiting, h.waiting \cup (outer \cup s.b.reads)) /\ Grows(s.p, c.p)
      BY <3>2, NextCallWires
    <3> HIDE DEF c
    <3>4. Linked(r, h, outer) /\ Grows(s.p, r.p)
      BY <3>1, <3>2, <3>3, LinkNextWires
    <3> QED
      BY <3>4 DEF s
  <2>6. CASE symbol # "<(" /\ symbol # "|"
    <3> DEFINE s == parse_redirections(a.r.p, a.r.b, symbol, next)
    <3>1. r = g[Continue(s, a.i + 2)]
      BY <1>7, <2>1, <2>2, <2>6 DEF ParseTokens, Symbols
    <3> HIDE DEF symbol, next
    <3>2. s \in Result /\ (s.ok => Going(s, h) /\ FilesOnly(s) /\ s.p.sub = a.r.p.sub)
      BY <1>2, RedirectionKeeps
    <3>3. ASSUME s.ok PROVE Linked(s, h, outer) /\ s.b.writes = {} /\ Grows(a.r.p, s.p)
      <4> DEFINE from == a.r
      <4>1. /\ Going(from, h) /\ Linked(from, h, outer) /\ from.b.writes = {}
            /\ s = parse_redirections(from.p, from.b, symbol, next)
        BY <1>2
      <4> HIDE DEF from, s
      <4>2. Linked(s, h, outer) /\ s.b.writes = {} /\ Grows(from.p, s.p)
        BY <3>3, <4>1, RedirectionWires
      <4> QED
        BY <4>2 DEF from
    <3> HIDE DEF s
    <3>4. s.ok => SubInPlace(s.p, a.inside_substitution)
      BY <1>2, <3>2 DEF SubInPlace
    <3>5. a.i + 2 \in Nat /\ a.i < a.i + 2 /\ a.i + 2 <= a.hi + 1
      BY <1>1, <2>3
    <3> QED
      BY <1>4, <3>1, <3>2, <3>3, <3>4, <3>5
  <2> QED
    BY <2>4, <2>5, <2>6
<1> QED
  BY <1>1, <1>5, <1>6, <1>7

\* So the loop links what it should, however many tokens there are.
LEMMA LoopsWire ==
    \A n \in Nat : LoopWires(Loops[n], n)
<1> DEFINE Wiring == {n \in Nat : LoopWires(Loops[n], n)}
<1>1. 0 \in Wiring
  <2>1. \A a \in Frame : Loops[0][a] = a.r
    BY LoopsUnfold DEF NoTurn
  <2>2. ASSUME NEW a \in Frame, NEW h \in Context, NEW outer \in SUBSET Nat,
               Linked(a.r, h, outer), Ready(a, h), a.r.ok
        PROVE  Linked(a.r, h, outer) /\ Grows(a.r.p, a.r.p)
    <3>1. a.r.p.fd \in Nat
      BY <2>2, ParseFacts DEF Ready, Going, Sound
    <3> QED
      BY <2>2, <3>1 DEF Grows
  <2> QED
    BY <2>1, <2>2 DEF LoopWires
<1>2. ASSUME NEW n \in Nat, n \in Wiring PROVE n + 1 \in Wiring
  <2>1. LoopWires(Loops[n], n) /\ LoopKeeps(Loops[n], n)
    BY <1>2, LoopsKeep
  <2>2. ASSUME NEW a \in Frame PROVE Loops[n + 1][a] = ParseTokens(Loops[n], a)
    BY LoopsUnfold DEF OneTurn
  <2>3. ASSUME NEW a \in Frame, Loops[n + 1][a].ok PROVE a.r.ok
    <3>1. ASSUME ~a.r.ok PROVE ParseTokens(Loops[n], a) = a.r
      BY <3>1 DEF ParseTokens
    <3> QED
      BY <2>2, <2>3, <3>1
  <2>4. ASSUME NEW a \in Frame, NEW h \in Context, NEW outer \in SUBSET Nat,
               Ready(a, h), a.hi + 1 - a.i <= n + 1, Linked(a.r, h, outer), a.r.b.writes = {},
               Loops[n + 1][a].ok
        PROVE  Linked(Loops[n + 1][a], h, outer) /\ Grows(a.r.p, Loops[n + 1][a].p)
    BY <2>1, <2>2, <2>3, <2>4, TurnWires
  <2>5. LoopWires(Loops[n + 1], n + 1)
    BY <2>3, <2>4 DEF LoopWires
  <2> QED
    BY <2>5
<1>3. Nat \subseteq Wiring
  <2> HIDE DEF Wiring
  <2> QED
    BY <1>1, <1>2, Induction
<1> QED
  BY <1>3

-----------------------------------------------------------------------------
(* What parse_command makes of a piece of the line.                        *)

\* The context of a command: nothing is held, and there is one call more.
Outermost(from) == [held |-> {}, from |-> from, pipes |-> 0, waiting |-> {}, excess |-> 0]

\* parse_command starts with a parse that is sound, whatever went before.
LEMMA FreshStarts ==
    ASSUME NEW sub \in {NULL, DANGLING}, NEW from \in Nat, from > 1
    PROVE  /\ Outermost(from) \in Context
           /\ StartsAt(Fresh(sub, from), Outermost(from), FALSE)
<1> DEFINE p == Fresh(sub, from)
           h == Outermost(from)
<1>1. h \in Context
  BY DEF Outermost, Context
<1>2. h.held = {} /\ h.from = from /\ h.pipes = 0 /\ h.waiting = {} /\ h.excess = 0
  BY DEF Outermost
<1>3. /\ p.calls = <<>> /\ p.order = <<>> /\ p.pipes = <<>> /\ p.last = 0 /\ p.sub = sub
      /\ p.open = {} /\ p.fd = from
  BY DEF Fresh, NULL
<1>4. p \in Parse
  BY EmptySeq DEF Fresh, Parse, NULL, DANGLING
<1> HIDE DEF p, h
<1>5. Len(p.calls) = 0 /\ Len(p.pipes) = 0 /\ DOMAIN p.calls = {} /\ DOMAIN p.order = {} /\ DOMAIN p.pipes = {}
  BY <1>3
<1>6. Sound(p, h.held, h.from)
  BY <1>2, <1>3, <1>4, <1>5 DEF Sound, PipesApart, CallsApart, HeldApart, OpenIsKnown, IsEnd, IsUsed
<1>7. Ordered(p, {})
  BY <1>3, <1>5 DEF Ordered, Addressed, NULL, DANGLING
<1>8. Excess(p) = h.excess /\ h.pipes <= Len(p.pipes)
  BY <1>2, <1>5 DEF Excess
<1>9. Waits(p, h)
  BY <1>2 DEF Waits, IsKept
<1>10. SubInPlace(p, FALSE)
  BY <1>3 DEF SubInPlace, NULL, DANGLING
<1> QED
  BY <1>1, <1>6, <1>7, <1>8, <1>9, <1>10 DEF StartsAt, p, h

\* No pipe has been opened then, so none is due anything.
LEMMA FreshWires ==
    ASSUME NEW sub, NEW from, NEW none, none = {}
    PROVE  Wired(Fresh(sub, from), Outermost(from).waiting, Outermost(from).waiting \cup none)
<1> DEFINE p == Fresh(sub, from)
<1>1. p.calls = <<>> /\ p.pipes = <<>>
  BY DEF Fresh
<1> HIDE DEF p
<1>2. DOMAIN p.calls = {} /\ DOMAIN p.pipes = {}
  BY <1>1
<1>3. Wired(p, Outermost(from).waiting, Outermost(from).waiting \cup none)
  BY <1>2 DEF Wired
<1> QED
  BY <1>3 DEF p

\* A command that is refused leaves nothing open.
LEMMA RefusedCommand ==
    ASSUME NEW p, NEW from, Refused(p, {}, from),
           NEW q, q = IF p.last # NULL THEN AddCallAtTheEnd(p, p.last) ELSE p
    PROVE  CloseCommand(q).open = {} /\ q.fd = p.fd /\ q.sub = p.sub
<1>1. /\ p \in Parse /\ Addressed(p)
      /\ \A fd \in p.open : fd > 2 /\ (IsEnd(p, fd) \/ IsOwned(p, fd))
  BY DEF Refused
<1>2. p.order \in Seq(Nat) /\ p.last \in Nat /\ DOMAIN p.order = 1 .. Len(p.order) /\ Len(p.order) \in Nat
      /\ DOMAIN p.calls = 1 .. Len(p.calls)
  BY <1>1, ParseFacts DEF Parse
<1>3. /\ q.calls = p.calls /\ q.pipes = p.pipes /\ q.open = p.open /\ q.fd = p.fd /\ q.sub = p.sub
      /\ \A k \in DOMAIN p.order : k \in DOMAIN q.order /\ q.order[k] = p.order[k]
      /\ p.last # NULL => \E k \in DOMAIN q.order : q.order[k] = p.last
  <2>1. CASE p.last = NULL
    BY <2>1
  <2>2. CASE p.last # NULL
    <3>1. q = [p EXCEPT !.order = Append(p.order, p.last)]
      BY <2>2 DEF AddCallAtTheEnd
    <3>2. /\ Append(p.order, p.last) \in Seq(Nat)
          /\ Len(Append(p.order, p.last)) = Len(p.order) + 1
          /\ \A k \in 1 .. Len(p.order) : Append(p.order, p.last)[k] = p.order[k]
          /\ Append(p.order, p.last)[Len(p.order) + 1] = p.last
      BY <1>2, AppendProperties
    <3>3. /\ q.calls = p.calls /\ q.pipes = p.pipes /\ q.open = p.open /\ q.fd = p.fd /\ q.sub = p.sub
          /\ q.order = Append(p.order, p.last)
      BY <1>1, <3>1 DEF Parse
    <3>4. DOMAIN q.order = 1 .. Len(p.order) + 1
      BY <3>2, <3>3, LenProperties
    <3> QED
      BY <1>2, <3>2, <3>3, <3>4
  <2> QED
    BY <2>1, <2>2
<1> DEFINE used == UNION {CallFds(q.calls[q.order[k]]) : k \in DOMAIN q.order}
<1>4. ASSUME NEW fd \in q.open PROVE fd > 2 /\ fd \in PipeEnds(q.pipes) \cup used
  <2>1. fd > 2 /\ (IsEnd(p, fd) \/ IsOwned(p, fd))
    BY <1>1, <1>3, <1>4
  <2>2. CASE IsEnd(p, fd)
    BY <1>3, <2>1, <2>2 DEF IsEnd, PipeEnds
  <2>3. CASE IsOwned(p, fd)
    <3>1. PICK n \in DOMAIN p.calls : IsLive(p, n) /\ fd \in CallFds(p.calls[n])
      BY <2>3 DEF IsOwned
    <3>2. \E k \in DOMAIN q.order : q.order[k] = n
      BY <1>2, <1>3, <3>1 DEF IsLive, NULL
    <3> QED
      BY <1>3, <2>1, <3>1, <3>2
  <2> QED
    BY <2>1, <2>2, <2>3
<1>5. CloseCommand(q) = Close(q, PipeEnds(q.pipes) \cup used)
  BY DEF CloseCommand
<1> DEFINE all == PipeEnds(q.pipes) \cup used
<1> HIDE DEF used
<1>6. CloseCommand(q).open = q.open \ {fd \in all : fd > 2}
  <2>1. q \in Parse
    <3>1. CASE p.last = NULL
      BY <1>1, <3>1
    <3>2. CASE p.last # NULL
      <4>1. q = [p EXCEPT !.order = Append(p.order, p.last)]
        BY <3>2 DEF AddCallAtTheEnd
      <4>2. Append(p.order, p.last) \in Seq(Nat)
        BY <1>2, AppendProperties
      <4> QED
        BY <1>1, <4>1, <4>2 DEF Parse
    <3> QED
      BY <3>1, <3>2
  <2>2. CloseCommand(q) = Close(q, all)
    BY <1>5
  <2> HIDE DEF all
  <2> QED
    BY <2>1, <2>2, CloseFacts
<1> QED
  BY <1>3, <1>4, <1>6

\* No descriptor is an end of two pipes.
PipesOK(pipes, from, to) ==
    /\ \A k \in DOMAIN pipes : pipes[k][1] \in from + 1 .. to /\ pipes[k][2] \in from + 1 .. to
    /\ \A j, k \in DOMAIN pipes :
          /\ pipes[j][1] # pipes[k][2]
          /\ j # k => pipes[j][1] # pipes[k][1] /\ pipes[j][2] # pipes[k][2]

\* There is a pipe less than there are calls.
Spans(calls, pipes) == Len(calls) = Len(pipes) + 1

\* A command that is not refused: what is open is its own, and apart.
CommandOK(c, from, to) ==
    /\ c.calls \in Seq(CallType) /\ c.calls # <<>>
    /\ c.pipes \in Seq(Nat \X Nat)
    /\ PipesOK(c.pipes, from, to)
    /\ Spans(c.calls, c.pipes)
    /\ PipesLinked(c)
    /\ \A n \in DOMAIN c.calls :
          /\ \A fd \in CallFds(c.calls[n]) : fd \in 0 .. 2 \/ fd \in from + 1 .. to
          /\ c.calls[n].reads \cup c.calls[n].writes \subseteq DOMAIN c.pipes
    /\ \A m, n \in DOMAIN c.calls :
          m # n => \A fd \in CallFds(c.calls[m]) \cap CallFds(c.calls[n]) : fd <= 2

IsParsed(c, from) ==
    /\ c.ok \in BOOLEAN
    /\ c.sub \in {NULL, DANGLING}
    /\ from \in Nat /\ from > 1
    /\ c.fd \in Nat /\ from <= c.fd
    /\ IF c.ok THEN /\ CommandOK(c, from, c.fd)
                    /\ c.open = OwnedBy(c)
                    /\ \A fd \in c.open : fd \in from + 1 .. c.fd
       ELSE c.open = {}

Prepended(x, s) == <<x>> \o s

IsPrepended(whole, x, s) ==
    /\ 1 \in DOMAIN whole /\ whole[1] = x /\ DOMAIN whole = 1 .. Len(s) + 1
    /\ \A k \in DOMAIN whole : k # 1 => \E j \in DOMAIN s : k = j + 1 /\ whole[k] = s[j]
    /\ \A j \in DOMAIN s : \E k \in DOMAIN whole : whole[k] = s[j]

\* A sequence with one more element in front.
LEMMA PrependedFacts ==
    ASSUME NEW S, NEW x \in S, NEW s \in Seq(S), NEW whole, whole = Prepended(x, s)
    PROVE  IsPrepended(whole, x, s)
<1> DEFINE first == <<x>>
<1>1. first \in Seq(S) /\ Len(first) = 1 /\ first[1] = x
  OBVIOUS
<1>2. whole = first \o s
  BY DEF Prepended
<1> HIDE DEF first
<1>3. Len(s) \in Nat /\ DOMAIN s = 1 .. Len(s)
  BY LenProperties
<1>4. /\ whole \in Seq(S) /\ Len(whole) = Len(first) + Len(s)
      /\ \A i \in 1 .. Len(first) + Len(s) : whole[i] = IF i <= Len(first) THEN first[i] ELSE s[i - Len(first)]
  BY <1>1, <1>2, ConcatProperties
<1>5. DOMAIN whole = 1 .. Len(s) + 1
  BY <1>1, <1>3, <1>4, LenProperties
<1>6. \A i \in 1 .. Len(s) + 1 : whole[i] = IF i <= 1 THEN x ELSE s[i - 1]
  BY <1>1, <1>3, <1>4
<1>7. whole[1] = x
  BY <1>3, <1>6
<1>8. ASSUME NEW k \in DOMAIN whole, k # 1 PROVE \E j \in DOMAIN s : k = j + 1 /\ whole[k] = s[j]
  <2>1. k - 1 \in DOMAIN s /\ k = (k - 1) + 1 /\ whole[k] = s[k - 1]
    BY <1>3, <1>5, <1>6, <1>8
  <2> QED
    BY <2>1
<1>9. ASSUME NEW j \in DOMAIN s PROVE \E k \in DOMAIN whole : whole[k] = s[j]
  <2>1. j + 1 \in DOMAIN whole /\ (j + 1) - 1 = j /\ whole[j + 1] = s[(j + 1) - 1]
    BY <1>3, <1>5, <1>6
  <2> QED
    BY <2>1
<1> QED
  BY <1>3, <1>5, <1>7, <1>8, <1>9 DEF IsPrepended

\* The calls in their order, the last of the main pipeline first.
Listed(p, c, order) ==
    /\ order = Prepended(p.last, p.order)
    /\ c.calls = [k \in DOMAIN order |-> p.calls[order[k]]]

\* The calls of the parse and those of the command are the same ones.
LEMMA ListedFacts ==
    ASSUME NEW p, NEW from, Sound(p, {}, from), Ordered(p, {}), p.last # NULL,
           NEW c, NEW order, Listed(p, c, order)
    PROVE  /\ DOMAIN order = 1 .. Len(p.order) + 1 /\ 1 \in DOMAIN order
           /\ \A k \in DOMAIN order : order[k] \in DOMAIN p.calls
           /\ \A j, k \in DOMAIN order : j # k => order[j] # order[k]
           /\ \A n \in DOMAIN p.calls : \E k \in DOMAIN order : order[k] = n
           /\ DOMAIN c.calls = DOMAIN order
           /\ \A k \in DOMAIN order : c.calls[k] = p.calls[order[k]]
<1>1. /\ p \in Parse /\ Addressed(p) /\ from \in 2 .. p.fd
      /\ PipesApart(p, from) /\ CallsApart(p, from) /\ OpenIsKnown(p, {})
  BY DEF Sound, Ordered
<1>2. /\ p.order \in Seq(Nat) /\ p.last \in Nat /\ p.fd \in Nat
      /\ DOMAIN p.order = 1 .. Len(p.order) /\ Len(p.order) \in Nat
      /\ DOMAIN p.calls = 1 .. Len(p.calls) /\ Len(p.calls) \in Nat
      /\ \A n \in DOMAIN p.calls : p.calls[n] \in CallType
      /\ p.pipes \in Seq(Nat \X Nat)
  BY <1>1, ParseFacts DEF Parse
<1>3. /\ 1 \in DOMAIN order /\ order[1] = p.last /\ DOMAIN order = 1 .. Len(p.order) + 1
      /\ \A k \in DOMAIN order : k # 1 => \E j \in DOMAIN p.order : k = j + 1 /\ order[k] = p.order[j]
      /\ \A j \in DOMAIN p.order : \E k \in DOMAIN order : order[k] = p.order[j]
  <2>1. order = Prepended(p.last, p.order)
    BY DEF Listed
  <2>2. p.last \in Nat /\ p.order \in Seq(Nat)
    BY <1>2
  <2>3. IsPrepended(order, p.last, p.order)
    BY <2>1, <2>2, PrependedFacts
  <2> QED
    BY <2>3 DEF IsPrepended
<1>4. DOMAIN order = 1 .. Len(p.order) + 1
  BY <1>3
<1>5. \A k \in DOMAIN order : order[k] \in DOMAIN p.calls
  <2>1. p.last \in DOMAIN p.calls
    BY <1>1, <1>2 DEF Addressed, NULL
  <2>2. \A j \in DOMAIN p.order : p.order[j] \in DOMAIN p.calls
    BY <1>1 DEF Addressed
  <2> QED
    BY <1>3, <2>1, <2>2
<1>6. \A j, k \in DOMAIN order : j # k => order[j] # order[k]
  <2>1. \A k \in DOMAIN p.order : p.order[k] # p.last
    BY DEF Ordered
  <2>2. \A j, k \in DOMAIN p.order : j # k => p.order[j] # p.order[k]
    BY DEF Ordered
  <2> QED
    BY <1>3, <2>1, <2>2
<1>7. \A n \in DOMAIN p.calls : \E k \in DOMAIN order : order[k] = n
  BY <1>3 DEF Ordered, IsLive
<1>8. /\ DOMAIN c.calls = DOMAIN order
      /\ \A k \in DOMAIN order : c.calls[k] = p.calls[order[k]]
  BY DEF Listed
<1> QED
  BY <1>3, <1>5, <1>6, <1>7, <1>8

\* The wires of the parse are those of the command.
LEMMA CommandIsLinked ==
    ASSUME NEW p, NEW from, Sound(p, {}, from), Ordered(p, {}), p.last # NULL, Wired(p, {}, {}),
           NEW c, c.pipes = p.pipes, NEW order, Listed(p, c, order)
    PROVE  PipesLinked(c)
<1>1. /\ \A k \in DOMAIN order : order[k] \in DOMAIN p.calls
      /\ \A j, k \in DOMAIN order : j # k => order[j] # order[k]
      /\ \A n \in DOMAIN p.calls : \E k \in DOMAIN order : order[k] = n
      /\ DOMAIN c.calls = DOMAIN order
      /\ \A k \in DOMAIN order : c.calls[k] = p.calls[order[k]]
  BY ListedFacts
<1>2. ASSUME NEW S, IsOne(S), S \subseteq DOMAIN p.calls,
             NEW T, T = {k \in DOMAIN order : order[k] \in S}
      PROVE  Cardinality(T) = 1
  <2>1. PICK n : S = {n}
    BY <1>2 DEF IsOne
  <2>2. PICK k \in DOMAIN order : order[k] = n
    BY <1>1, <1>2, <2>1
  <2>3. T = {k}
    BY <1>1, <1>2, <2>1, <2>2
  <2> QED
    BY <2>3, FS_Singleton
<1>3. ASSUME NEW pipe \in DOMAIN c.pipes
      PROVE  /\ Cardinality(Writers(c, pipe)) = 1 /\ Cardinality(Readers(c, pipe)) = 1
             /\ \A n \in Writers(c, pipe) : c.calls[n].stdout = c.pipes[pipe][2]
             /\ \A n \in Readers(c, pipe) :
                   (c.calls[n].stdin = c.pipes[pipe][1]) # (c.pipes[pipe][1] \in c.calls[n].files)
  <2>1. /\ IsOne(Writers(p, pipe)) /\ IsOne(Readers(p, pipe))
        /\ \A n \in DOMAIN p.calls : CallWired(p.calls[n], p)
    BY DEF Wired
  <2>2. /\ Writers(c, pipe) = {k \in DOMAIN order : order[k] \in Writers(p, pipe)}
        /\ Readers(c, pipe) = {k \in DOMAIN order : order[k] \in Readers(p, pipe)}
        /\ Writers(p, pipe) \subseteq DOMAIN p.calls /\ Readers(p, pipe) \subseteq DOMAIN p.calls
    BY <1>1 DEF Writers, Readers
  <2>3. Cardinality(Writers(c, pipe)) = 1
    BY <1>2, <2>1, <2>2
  <2>4. Cardinality(Readers(c, pipe)) = 1
    BY <1>2, <2>1, <2>2
  <2>5. \A n \in Writers(c, pipe) : c.calls[n].stdout = c.pipes[pipe][2]
    BY <1>1, <2>1 DEF Writers, CallWired
  <2>6. ASSUME NEW n \in Readers(c, pipe)
        PROVE  (c.calls[n].stdin = c.pipes[pipe][1]) # (c.pipes[pipe][1] \in c.calls[n].files)
    <3>1. n \in DOMAIN order /\ pipe \in c.calls[n].reads /\ CallWired(c.calls[n], p)
      BY <1>1, <2>1 DEF Readers
    <3> QED
      BY <3>1 DEF CallWired
  <2> QED
    BY <2>3, <2>4, <2>5, <2>6
<1> QED
  BY <1>3 DEF PipesLinked

\* The same pipes, of the same calls.
LEMMA LinkedSame ==
    ASSUME NEW c, NEW d, d.calls = c.calls, d.pipes = c.pipes, PipesLinked(c)
    PROVE  PipesLinked(d)
<1>1. \A k : Writers(d, k) = Writers(c, k) /\ Readers(d, k) = Readers(c, k)
  BY DEF Writers, Readers
<1> QED
  BY <1>1 DEF PipesLinked

\* The command that parse_command returns when every call was found.
LEMMA CommandIsOK ==
    ASSUME NEW p, NEW from, Sound(p, {}, from), Ordered(p, {}), p.last # NULL,
           Spans(p.calls, p.pipes), Wired(p, {}, {}),
           NEW c, c.pipes = p.pipes, c.open = p.open, c.fd = p.fd,
           NEW order, Listed(p, c, order)
    PROVE  /\ CommandOK(c, from, c.fd)
           /\ c.open = OwnedBy(c)
           /\ \A fd \in c.open : fd \in from + 1 .. c.fd
<1>1. /\ p \in Parse /\ Addressed(p) /\ from \in 2 .. p.fd
      /\ PipesApart(p, from) /\ CallsApart(p, from) /\ OpenIsKnown(p, {})
  BY DEF Sound, Ordered
<1>2. /\ p.order \in Seq(Nat) /\ p.last \in Nat /\ p.fd \in Nat
      /\ DOMAIN p.order = 1 .. Len(p.order) /\ Len(p.order) \in Nat
      /\ DOMAIN p.calls = 1 .. Len(p.calls) /\ Len(p.calls) \in Nat
      /\ \A n \in DOMAIN p.calls : p.calls[n] \in CallType
      /\ p.pipes \in Seq(Nat \X Nat)
  BY <1>1, ParseFacts DEF Parse
<1>3. DOMAIN order = 1 .. Len(p.order) + 1 /\ 1 \in DOMAIN order
  BY ListedFacts
<1>4. \A k \in DOMAIN order : order[k] \in DOMAIN p.calls
  BY ListedFacts
<1>5. \A j, k \in DOMAIN order : j # k => order[j] # order[k]
  BY ListedFacts
<1>6. \A n \in DOMAIN p.calls : \E k \in DOMAIN order : order[k] = n
  BY ListedFacts
<1>7. /\ DOMAIN c.calls = DOMAIN order
      /\ \A k \in DOMAIN order : c.calls[k] = p.calls[order[k]]
  BY ListedFacts
<1>8. c.calls \in Seq(CallType) /\ c.calls # <<>>
  <2>1. Len(p.order) + 1 \in Nat /\ 1 \in DOMAIN order
    BY <1>2, <1>3
  <2>2. \A k \in 1 .. Len(p.order) + 1 : p.calls[order[k]] \in CallType
    BY <1>2, <1>3, <1>4
  <2>3. c.calls = [k \in 1 .. Len(p.order) + 1 |-> p.calls[order[k]]]
    BY <1>3 DEF Listed
  <2>4. c.calls \in Seq(CallType)
    <3> DEFINE m == Len(p.order) + 1
               e(k) == p.calls[order[k]]
    <3>1. m \in Nat /\ (\A k \in 1 .. m : e(k) \in CallType) /\ c.calls = [k \in 1 .. m |-> e(k)]
      BY <2>1, <2>2, <2>3
    <3>2. c.calls \in [1 .. m -> CallType]
      <4> HIDE DEF m, e
      <4> QED
        BY <3>1
    <3> HIDE DEF m
    <3> QED
      BY <3>1, <3>2, SeqDef
  <2>5. c.calls # <<>>
    <3>1. DOMAIN c.calls # {}
      BY <1>7, <2>1
    <3> QED
      BY <3>1
  <2> QED
    BY <2>4, <2>5
<1>9. /\ \A n \in DOMAIN c.calls :
            /\ \A fd \in CallFds(c.calls[n]) : fd \in 0 .. 2 \/ fd \in from + 1 .. c.fd
            /\ c.calls[n].reads \cup c.calls[n].writes \subseteq DOMAIN c.pipes
      /\ \A m, n \in DOMAIN c.calls :
            m # n => \A fd \in CallFds(c.calls[m]) \cap CallFds(c.calls[n]) : fd <= 2
  <2>1. ASSUME NEW n \in DOMAIN c.calls
        PROVE  /\ \A fd \in CallFds(c.calls[n]) : fd \in 0 .. 2 \/ fd \in from + 1 .. c.fd
               /\ c.calls[n].reads \cup c.calls[n].writes \subseteq DOMAIN c.pipes
    <3>1. order[n] \in DOMAIN p.calls /\ c.calls[n] = p.calls[order[n]]
      BY <1>4, <1>7
    <3> QED
      BY <1>1, <3>1 DEF CallsApart
  <2>2. ASSUME NEW m \in DOMAIN c.calls, NEW n \in DOMAIN c.calls, m # n,
               NEW fd \in CallFds(c.calls[m]) \cap CallFds(c.calls[n])
        PROVE  fd <= 2
    <3>1. /\ order[m] \in DOMAIN p.calls /\ order[n] \in DOMAIN p.calls /\ order[m] # order[n]
          /\ c.calls[m] = p.calls[order[m]] /\ c.calls[n] = p.calls[order[n]]
      BY <1>4, <1>5, <1>7, <2>2
    <3> QED
      BY <1>1, <2>2, <3>1 DEF CallsApart
  <2> QED
    BY <2>1, <2>2
<1>10. \A fd : fd \in OwnedBy(c) <=> IsEnd(p, fd) \/ IsUsed(p, fd)
  <2>1. ASSUME NEW fd, fd \in OwnedBy(c) PROVE IsEnd(p, fd) \/ IsUsed(p, fd)
    BY <1>4, <1>7, <2>1 DEF OwnedBy, PipeEnds, IsEnd, IsUsed
  <2>2. ASSUME NEW fd, IsEnd(p, fd) PROVE fd \in OwnedBy(c)
    BY <2>2 DEF OwnedBy, PipeEnds, IsEnd
  <2>3. ASSUME NEW fd, IsUsed(p, fd) PROVE fd \in OwnedBy(c)
    <3>1. PICK n \in DOMAIN p.calls : fd \in CallFds(p.calls[n]) /\ fd > 2
      BY <2>3 DEF IsUsed
    <3>2. PICK k \in DOMAIN order : order[k] = n
      BY <1>6
    <3>3. k \in DOMAIN c.calls /\ fd \in CallFds(c.calls[k])
      BY <1>7, <3>1, <3>2
    <3> QED
      BY <3>1, <3>3 DEF OwnedBy
  <2> QED
    BY <2>1, <2>2, <2>3
<1>11. c.open = OwnedBy(c)
  BY <1>1, <1>10 DEF OpenIsKnown
<1>12. \A fd \in c.open : fd \in from + 1 .. c.fd
  <2>1. ASSUME NEW fd \in c.open PROVE fd \in from + 1 .. c.fd
    <3>1. CASE IsEnd(p, fd)
      BY <1>1, <3>1 DEF PipesApart, IsEnd
    <3>2. CASE IsUsed(p, fd)
      BY <1>1, <3>2 DEF CallsApart, IsUsed
    <3> QED
      BY <1>10, <1>11, <3>1, <3>2
  <2> QED
    BY <2>1
<1>13. PipesOK(c.pipes, from, c.fd)
  BY <1>1 DEF PipesApart, PipesOK
<1>14. PipesLinked(c)
  BY CommandIsLinked
<1>15. Spans(c.calls, c.pipes)
  <2> DEFINE m == Len(p.order) + 1
             n == Len(p.calls)
             S == 1 .. m
             T == 1 .. n
             listing == [k \in S |-> order[k]]
  <2>1. m \in Nat /\ n \in Nat /\ DOMAIN order = S /\ DOMAIN p.calls = T
    BY <1>2, <1>3
  <2>2. IsFiniteSet(S) /\ Cardinality(S) = m /\ Cardinality(T) = n
    <3> HIDE DEF m, n
    <3>1. \A k \in Nat : IsFiniteSet(1 .. k) /\ Cardinality(1 .. k) = k
      BY FS_Interval
    <3> QED
      BY <2>1, <3>1
  <2> HIDE DEF m, n, S, T
  <2>3. listing \in [S -> T] /\ \A j, k \in S : j # k => listing[j] # listing[k]
    BY <1>4, <1>5, <2>1
  <2>4. \A t \in T : \E k \in S : listing[k] = t
    BY <1>6, <2>1
  <2> HIDE DEF listing
  <2>5. listing \in Bijection(S, T)
    BY <2>3, <2>4 DEF Bijection, Injection, Surjection, IsInjective
  <2>6. Cardinality(T) = Cardinality(S)
    BY <2>2, <2>5, FS_Bijection DEF ExistsBijection
  <2>7. m = n
    BY <2>2, <2>6
  <2>8. Len(c.calls) = m
    BY <1>7, <1>8, <2>1, LenProperties DEF S
  <2> QED
    BY <2>7, <2>8 DEF Spans, n
<1> QED
  BY <1>2, <1>8, <1>9, <1>11, <1>12, <1>13, <1>15, <1>14 DEF CommandOK

\* The end of parse_command, on either path.
LEMMA EndOfCommandKeeps ==
    ASSUME NEW from \in Nat, from > 1, NEW r, CallParsed(r, Outermost(from), FALSE, FALSE),
           r.call # NULL => Wired(r.p, {}, {}),
           NEW c, c = EndOfCommand(r)
    PROVE  IsParsed(c, from)
<1> DEFINE h == Outermost(from)
           p == IF r.p.last # NULL /\ (r.call = NULL \/ r.call # r.p.last)
                THEN AddCallAtTheEnd(r.p, IF r.call = NULL THEN r.p.last ELSE r.call)
                ELSE r.p
           order == <<p.last>> \o p.order
<1>1. h.held = {} /\ h.from = from
  BY DEF Outermost
<1>2. r.p \in Parse /\ r.p.fd \in Nat /\ r.p.sub \in Int /\ DOMAIN r.p.calls = 1 .. Len(r.p.calls)
  BY ParseFacts DEF CallParsed
<1>3. CASE r.call = NULL
  <2>1. c = [ok |-> FALSE, sub |-> Dangling(p.sub), open |-> CloseCommand(p).open, fd |-> p.fd]
    BY <1>3 DEF EndOfCommand
  <2>2. Refused(r.p, {}, from)
    BY <1>1, <1>3 DEF CallParsed
  <2>3. p = IF r.p.last # NULL THEN AddCallAtTheEnd(r.p, r.p.last) ELSE r.p
    BY <1>3
  <2> HIDE DEF p
  <2>4. CloseCommand(p).open = {} /\ p.fd = r.p.fd
    BY <2>2, <2>3, RefusedCommand
  <2>5. Dangling(p.sub) \in {NULL, DANGLING}
    BY DEF Dangling
  <2>6. from \in 2 .. r.p.fd
    BY <2>2 DEF Refused
  <2> QED
    BY <1>2, <2>1, <2>4, <2>5, <2>6 DEF IsParsed
<1>4. CASE r.call # NULL
  <2>1. c = [ok |-> TRUE, sub |-> p.sub, open |-> p.open, fd |-> p.fd,
             calls |-> [k \in DOMAIN order |-> p.calls[order[k]]], pipes |-> p.pipes]
    BY <1>4 DEF EndOfCommand
  <2>2. /\ r.call \in DOMAIN r.p.calls /\ Sound(r.p, {}, from) /\ Ordered(r.p, {r.call})
        /\ SubInPlace(r.p, FALSE) /\ r.p.last # NULL
    BY <1>1, <1>4 DEF CallParsed
  <2>3. Sound(p, {}, from) /\ Ordered(p, {}) /\ p.last = r.p.last /\ p.sub = r.p.sub
        /\ p.calls = r.p.calls /\ p.pipes = r.p.pipes /\ p.fd = r.p.fd
    <3>1. CASE r.call # r.p.last
      <4>1. p = AddCallAtTheEnd(r.p, r.call)
        BY <1>4, <2>2, <3>1
      <4> HIDE DEF p
      <4> QED
        BY <2>2, <3>1, <4>1, CallAdded
    <3>2. CASE r.call = r.p.last
      <4>1. p = r.p
        BY <1>4, <3>2
      <4> HIDE DEF p
      <4>2. Ordered(r.p, {})
        BY <2>2, <3>2 DEF Ordered, IsLive
      <4> QED
        BY <2>2, <4>1, <4>2
    <3> QED
      BY <3>1, <3>2
  <2> HIDE DEF p
  <2>4. c.pipes = p.pipes /\ c.open = p.open /\ c.fd = p.fd /\ c.sub = p.sub /\ c.ok = TRUE
        /\ c.calls = [k \in DOMAIN order |-> p.calls[order[k]]]
    BY <2>1
  <2>5. order = <<p.last>> \o p.order
    OBVIOUS
  <2> HIDE DEF order
  <2>6. /\ CommandOK(c, from, c.fd)
        /\ c.open = OwnedBy(c)
        /\ \A fd \in c.open : fd \in from + 1 .. c.fd
    <3>1. Wired(p, {}, {})
      BY <1>4, <2>3, WiredSame
    <3>2. Sound(p, {}, from) /\ Ordered(p, {}) /\ p.last # NULL /\ Spans(p.calls, p.pipes)
      <4>1. Len(r.p.pipes) - Len(r.p.calls) = 0 - 1
        BY <1>4 DEF CallParsed, Outermost, Excess
      <4>2. Len(r.p.pipes) \in Nat /\ Len(r.p.calls) \in Nat
        BY <1>2, ParseFacts
      <4> DEFINE m == Len(r.p.pipes)
                 n == Len(r.p.calls)
      <4> HIDE DEF m, n
      <4>3. m - n = 0 - 1 /\ m \in Nat /\ n \in Nat
        BY <4>1, <4>2 DEF m, n
      <4>4. n = m + 1
        BY <4>3
      <4>5. Spans(r.p.calls, r.p.pipes)
        BY <4>4 DEF Spans, m, n
      <4> QED
        BY <2>2, <2>3, <4>5
    <3>3. c.pipes = p.pipes /\ c.open = p.open /\ c.fd = p.fd
      BY <2>4
    <3>4. Listed(p, c, order)
      BY <2>4, <2>5 DEF Listed, Prepended
    <3> QED
      BY <3>2, <3>3, <3>4, <3>1, CommandIsOK
  <2>7. c.sub \in {NULL, DANGLING}
    BY <1>2, <2>2, <2>3, <2>4 DEF SubInPlace, Ordered, Addressed, NULL, DANGLING
  <2>8. from \in 2 .. p.fd /\ p.fd \in Nat
    BY <2>3, ParseFacts DEF Sound
  <2> QED
    <3>1. c.fd \in Nat /\ from <= c.fd /\ c.ok = TRUE
      BY <2>4, <2>8
    <3> QED
      BY <2>6, <2>7, <3>1 DEF IsParsed
<1> QED
  BY <1>3, <1>4

\* parse_command, whatever the piece of the line.
LEMMA CommandKeeps ==
    ASSUME NEW t \in TokenSeq, NEW sub \in {NULL, DANGLING}, NEW from \in Nat, from > 1,
           NEW c, c = parse_command(t, sub, from)
    PROVE  IsParsed(c, from)
<1>1. CASE t = <<>>
  BY <1>1 DEF parse_command, IsParsed
<1>2. CASE t # <<>>
  <2> DEFINE n == Len(t)
             g == Loops[n]
             p == Fresh(sub, from)
             r == parse_command_call(g, t, p, 1, n, FALSE, FALSE)
  <2>1. c = EndOfCommand(r)
    BY <1>2 DEF parse_command
  <2>2. Outermost(from) \in Context /\ StartsAt(p, Outermost(from), FALSE)
    BY FreshStarts
  <2>3. n \in Nat
    BY LenProperties DEF TokenSeq
  <2>4. LoopKeeps(g, n) /\ LoopWires(g, n)
    BY <2>3, LoopsKeep, LoopsWire
  <2>5. Fits(t, 1, n, n)
    BY <2>3 DEF Fits
  <2> DEFINE h == Outermost(from)
             none == {}
             first == 1
             Call(no, never) == parse_command_call(g, t, p, first, n, no, never)
  <2>6. /\ none \in SUBSET Nat /\ none \subseteq DOMAIN p.pipes /\ first \in Nat /\ Fits(t, first, n, n)
        /\ Wired(p, h.waiting, h.waiting \cup none)
    BY <2>5, FreshWires
  <2>7. h \in Context /\ StartsAt(p, h, FALSE) /\ h.waiting = none
    BY <2>2 DEF Outermost
  <2> HIDE DEF n, g, p, h, none, first
  <2>8. ASSUME NEW no \in BOOLEAN, NEW never \in BOOLEAN, StartsAt(p, h, no)
        PROVE  /\ CallParsed(Call(no, never), h, no, never)
               /\ Call(no, never).call # NULL => Wired(Call(no, never).p, h.waiting, h.waiting \cup none)
    <3> DEFINE d == Call(no, never)
    <3>1. d = parse_command_call(g, t, p, first, n, no, never)
      OBVIOUS
    <3> HIDE DEF d, Call
    <3>2. CallParsed(d, h, no, never)
      BY <2>3, <2>4, <2>8, <2>6, <2>7, <3>1, CommandCallKeeps
    <3>3. ASSUME d.call # NULL
          PROVE  Wired(d.p, h.waiting, h.waiting \cup none)
      BY <2>3, <2>4, <2>8, <2>6, <2>7, <3>1, <3>3, CommandCallWires
    <3> QED
      BY <3>2, <3>3 DEF d
  <2>9. r = Call(FALSE, FALSE)
    BY DEF first
  <2> HIDE DEF r, Call
  <2>10. /\ CallParsed(r, h, FALSE, FALSE)
         /\ r.call # NULL => Wired(r.p, h.waiting, h.waiting \cup none)
    BY <2>8, <2>9, <2>7
  <2>11. r.call # NULL => Wired(r.p, {}, {})
    <3>1. h.waiting = {} /\ h.waiting \cup none = {}
      BY <2>7 DEF none
    <3> QED
      BY <2>10, <3>1
  <2> QED
    BY <2>1, <2>10, <2>11, EndOfCommandKeeps DEF h
<1> QED
  BY <1>1, <1>2

-----------------------------------------------------------------------------
(* How a line is cut into the pieces that parse_command gets.              *)

PieceTokens == Words \cup Symbols \cup {COMMAND_SEPARATOR}
LineTokens == PieceTokens \cup {BACKGROUND_FLAG}

\* The loop of split_string: the words of the first k tokens of a piece.
WordsUpTo(piece, f) ==
    f = [k \in 0 .. Len(piece) |-> IF k = 0 THEN <<>> ELSE NextWord(f[k - 1], piece[k])]

\* It runs to the end of the piece, and what it has by then is returned.
WordsRun(piece, f) ==
    /\ f[0] = <<>> /\ \A k \in 1 .. Len(piece) : f[k] = NextWord(f[k - 1], piece[k])
    /\ \A k \in 0 .. Len(piece) : f[k] \in TokenSeq
    /\ split_string(piece) = f[Len(piece)]

\* There is such a run over every piece.
LEMMA SplitStringRuns ==
    ASSUME NEW piece \in Seq(PieceTokens)
    PROVE  \E f : WordsRun(piece, f)
<1> DEFINE upTo == CHOOSE f : WordsUpTo(piece, f)
           last == Len(piece)
           step == [x \in TokenSeq \X Nat |-> IF x[2] \in 1 .. last THEN NextWord(x[1], piece[x[2]]) ELSE x[1]]
<1>1. last \in Nat /\ DOMAIN piece = 1 .. last
  BY LenProperties
<1>2. ASSUME NEW s \in TokenSeq, NEW k \in 1 .. last PROVE NextWord(s, piece[k]) \in TokenSeq
  <2>1. piece[k] \in PieceTokens
    BY ElementOfSeq
  <2>2. CASE piece[k] = COMMAND_SEPARATOR
    BY <2>2 DEF NextWord
  <2>3. CASE piece[k] # COMMAND_SEPARATOR
    <3>1. piece[k] \in Words \cup Symbols
      BY <2>1, <2>3 DEF PieceTokens
    <3>2. Append(s, piece[k]) \in TokenSeq
      BY <3>1, AppendProperties DEF TokenSeq
    <3> QED
      BY <2>3, <3>2 DEF NextWord
  <2> QED
    BY <2>2, <2>3
<1>3. \E f : WordsUpTo(piece, f)
  <2>1. step \in [TokenSeq \X Nat -> TokenSeq]
    BY <1>2
  <2>2. <<>> \in TokenSeq
    BY EmptySeq DEF TokenSeq
  <2> HIDE DEF step, last
  <2>3. PICK f \in [0 .. last -> TokenSeq] : GoesUpTo(f, <<>>, step, last)
    BY <1>1, <2>1, <2>2, BoundedRecursion
  <2>4. ASSUME NEW k \in 1 .. last PROVE f[k] = NextWord(f[k - 1], piece[k])
    <3>1. k - 1 \in 0 .. last /\ k \in Nat
      BY <1>1
    <3>2. f[k - 1] \in TokenSeq
      BY <3>1
    <3> QED
      BY <2>3, <3>1, <3>2 DEF GoesUpTo, step
  <2>5. \A k \in 0 .. last : f[k] = IF k = 0 THEN <<>> ELSE NextWord(f[k - 1], piece[k])
    BY <1>1, <2>3, <2>4 DEF GoesUpTo
  <2>6. WordsUpTo(piece, f)
    BY <2>5 DEF WordsUpTo, last
  <2> QED
    BY <2>6
<1>4. WordsUpTo(piece, upTo)
  BY <1>3
<1>5. split_string(piece) = upTo[last]
  BY DEF split_string, WordsUpTo
<1> HIDE DEF upTo, step, last
<1> DEFINE Good == {k \in Nat : k <= last => upTo[k] \in TokenSeq}
<1>6. upTo[0] = <<>> /\ \A k \in 1 .. last : upTo[k] = NextWord(upTo[k - 1], piece[k])
  BY <1>1, <1>4 DEF WordsUpTo, last
<1>7. 0 \in Good
  BY <1>6, EmptySeq DEF TokenSeq
<1>8. ASSUME NEW k \in Nat, k \in Good PROVE k + 1 \in Good
  <2>1. CASE k + 1 <= last
    <3>1. k + 1 \in 1 .. last /\ (k + 1) - 1 = k /\ k <= last
      BY <1>1, <2>1
    <3>2. upTo[k + 1] = NextWord(upTo[k], piece[k + 1])
      BY <1>6, <3>1
    <3> QED
      BY <1>2, <1>8, <3>1, <3>2
  <2> QED
    BY <2>1
<1> HIDE DEF Good
<1>9. Nat \subseteq Good
  BY <1>7, <1>8, Induction
<1>10. \A k \in 0 .. last : upTo[k] \in TokenSeq
  BY <1>1, <1>9 DEF Good
<1>11. WordsRun(piece, upTo)
  BY <1>5, <1>6, <1>10 DEF WordsRun, last
<1> QED
  BY <1>11

\* split_string drops the separators and leaves the other tokens.
LEMMA SplitStringFacts ==
    ASSUME NEW piece \in Seq(PieceTokens)
    PROVE  split_string(piece) \in TokenSeq
<1>1. PICK f : WordsRun(piece, f)
  BY SplitStringRuns
<1>2. Len(piece) \in 0 .. Len(piece)
  <2>1. Len(piece) \in Nat
    BY LenProperties
  <2> QED
    BY <2>1
<1> QED
  BY <1>1, <1>2 DEF WordsRun

-----------------------------------------------------------------------------
(* What parse_read_line makes of the pieces, one after the other.          *)

CommandType == [calls : Seq(CallType), pipes : Seq(Nat \X Nat), background : BOOLEAN]
LineResult ==
    [commands : Seq(CommandType), refused : BOOLEAN, given_up : BOOLEAN, open : SUBSET Nat,
     sub : {NULL, DANGLING}, fd : Nat]

Apart(c, d) == OwnedBy(c) \cap OwnedBy(d) = {}

(* The commands so far are apart, and what they own is what is open unless *)
(* the line is given up.                                                   *)
LineKept(r) ==
    /\ r.fd > 1
    /\ r.given_up => r.refused
    /\ \A k \in DOMAIN r.commands : CommandOK(r.commands[k], 2, r.fd)
    /\ \A j, k \in DOMAIN r.commands : j # k => Apart(r.commands[j], r.commands[k])
    /\ \A fd \in r.open : fd \in 3 .. r.fd
    /\ ~r.given_up => r.open = UNION {OwnedBy(r.commands[k]) : k \in DOMAIN r.commands}

Lined == {r \in LineResult : LineKept(r)}

\* One command per piece, as long as none is refused.
Counted(r, split, k) ==
    /\ ~r.refused => Len(r.commands) = k
    /\ r.refused => r.commands = <<>> \/ Len(r.commands) = Len(split.pieces) - 1
    /\ \A j \in DOMAIN r.commands : r.commands[j].background = IsBackground(split, j)

Split == [pieces : Seq(Seq(PieceTokens)), flagged : Nat]

\* A command stays what it is when more is opened after it.
LEMMA CommandMoves ==
    ASSUME NEW c, NEW from \in Nat, NEW to \in Nat, from > 1, CommandOK(c, from, to), NEW next \in Nat, to <= next
    PROVE  CommandOK(c, 2, next)
<1>1. \A fd : fd \in from + 1 .. to => fd \in 3 .. next
  OBVIOUS
<1>2. \A fd : fd \in from + 1 .. to => fd \in 2 + 1 .. next
  BY <1>1
<1> QED
  BY <1>2 DEF CommandOK, PipesOK

\* One turn of the loop of parse_read_line.
LEMMA PieceKeeps ==
    ASSUME NEW split \in Split, NEW k \in 1 .. Len(split.pieces), NEW r \in Lined,
           NEW q, q = ParsePiece(r, split, k)
    PROVE  /\ q \in Lined
           /\ Counted(r, split, k - 1) => Counted(q, split, k)
<1>1. /\ r \in LineResult /\ LineKept(r) /\ r.fd \in Nat /\ r.sub \in {NULL, DANGLING}
      /\ r.commands \in Seq(CommandType) /\ r.open \in SUBSET Nat /\ r.refused \in BOOLEAN
      /\ r.given_up \in BOOLEAN
  BY DEF Lined, LineResult
<1>2. CASE r.refused
  BY <1>2 DEF ParsePiece, Counted
<1>3. CASE ~r.refused
  <2> DEFINE c == parse_command(split_string(split.pieces[k]), r.sub, r.fd)
             d == [calls |-> c.calls, pipes |-> c.pipes, background |-> IsBackground(split, k)]
  <2>1. q = AddCommand(r, c, split, k)
    BY <1>3 DEF ParsePiece
  <2>2. IsParsed(c, r.fd)
    <3>1. split.pieces[k] \in Seq(PieceTokens)
      BY ElementOfSeq DEF Split
    <3>2. split_string(split.pieces[k]) \in TokenSeq
      BY <3>1, SplitStringFacts
    <3>3. r.fd > 1
      BY <1>1 DEF LineKept
    <3> QED
      BY <1>1, <3>2, <3>3, CommandKeeps
  <2> HIDE DEF c
  <2>3. /\ c.fd \in Nat /\ r.fd <= c.fd /\ r.fd > 1 /\ c.fd > 1 /\ c.sub \in {NULL, DANGLING} /\ c.ok \in BOOLEAN
        /\ ~r.given_up /\ r.given_up = FALSE
    BY <1>1, <1>3, <2>2 DEF IsParsed, LineKept
  <2>4. /\ q = [commands |-> q.commands, refused |-> ~c.ok, given_up |-> q.given_up,
               open |-> r.open \cup c.open, sub |-> c.sub, fd |-> c.fd]
        /\ q.commands = (IF c.ok THEN Append(r.commands, d) ELSE IF k = Len(split.pieces) THEN r.commands ELSE <<>>)
        /\ q.refused = ~c.ok /\ q.given_up = (~c.ok /\ k < Len(split.pieces))
        /\ q.open = r.open \cup c.open /\ q.sub = c.sub /\ q.fd = c.fd
    BY <2>1 DEF AddCommand
  <2>5. /\ \A j \in DOMAIN r.commands : CommandOK(r.commands[j], 2, c.fd)
        /\ \A fd \in r.open : fd \in 3 .. c.fd
        /\ r.open = UNION {OwnedBy(r.commands[j]) : j \in DOMAIN r.commands}
        /\ \A i, j \in DOMAIN r.commands : i # j => Apart(r.commands[i], r.commands[j])
    <3>1. \A j \in DOMAIN r.commands : CommandOK(r.commands[j], 2, c.fd)
      BY <1>1, <2>3, CommandMoves DEF LineKept
    <3>2. \A fd \in 3 .. r.fd : fd \in 3 .. c.fd
      BY <1>1, <2>3
    <3> QED
      BY <1>1, <2>3, <3>1, <3>2 DEF LineKept
  <2>6. CASE c.ok
    <3>1. /\ CommandOK(c, r.fd, c.fd) /\ c.open = OwnedBy(c) /\ \A fd \in c.open : fd \in r.fd + 1 .. c.fd
      BY <2>2, <2>6 DEF IsParsed
    <3>2. /\ d.calls = c.calls /\ d.pipes = c.pipes /\ d.background = IsBackground(split, k)
          /\ OwnedBy(d) = OwnedBy(c)
      BY DEF OwnedBy
    <3>3. d \in CommandType
      <4>1. IsBackground(split, k) \in BOOLEAN
        BY DEF IsBackground
      <4> QED
        BY <3>1, <4>1 DEF CommandOK, CommandType
    <3> HIDE DEF d
    <3>4. CommandOK(d, 2, c.fd)
      <4>1. PipesLinked(d)
        BY <3>1, <3>2, LinkedSame DEF CommandOK
      <4>2. CommandOK(d, r.fd, c.fd)
        BY <3>1, <3>2, <4>1 DEF CommandOK
      <4>3. r.fd \in Nat /\ c.fd \in Nat /\ r.fd > 1 /\ c.fd <= c.fd
        BY <1>1, <2>3
      <4> QED
        BY <4>2, <4>3, CommandMoves
    <3> DEFINE last == Len(r.commands) + 1
               added == Append(r.commands, d)
    <3>5. /\ added \in Seq(CommandType) /\ Len(added) = last /\ DOMAIN added = 1 .. last
          /\ added[last] = d /\ last \in DOMAIN added /\ last \notin DOMAIN r.commands
          /\ \A j \in DOMAIN r.commands : j \in DOMAIN added /\ added[j] = r.commands[j]
          /\ \A j \in DOMAIN added : j = last \/ j \in DOMAIN r.commands
      <4>1. Len(r.commands) \in Nat /\ DOMAIN r.commands = 1 .. Len(r.commands)
        BY <1>1, LenProperties
      <4>2. /\ added \in Seq(CommandType) /\ Len(added) = last
            /\ \A j \in 1 .. Len(r.commands) : added[j] = r.commands[j]
            /\ added[last] = d
        BY <1>1, <3>3, AppendProperties
      <4>3. DOMAIN added = 1 .. last
        BY <4>2, LenProperties
      <4> HIDE DEF added
      <4> QED
        BY <4>1, <4>2, <4>3
    <3> HIDE DEF added
    <3>6. q.commands = added /\ ~q.refused /\ ~q.given_up /\ q.refused \in BOOLEAN /\ q.given_up \in BOOLEAN
      BY <2>4, <2>6 DEF added
    <3>7. \A j \in DOMAIN r.commands : Apart(r.commands[j], d) /\ Apart(d, r.commands[j])
      <4>1. \A j \in DOMAIN r.commands : \A fd \in OwnedBy(r.commands[j]) : fd \in r.open
        BY <2>5
      <4>2. \A fd \in r.open : fd \in 3 .. r.fd
        BY <1>1 DEF LineKept
      <4>3. \A fd \in OwnedBy(d) : fd \in r.fd + 1 .. c.fd
        BY <3>1, <3>2
      <4>4. \A fd : ~(fd \in 3 .. r.fd /\ fd \in r.fd + 1 .. c.fd)
        BY <1>1, <2>3
      <4> QED
        BY <4>1, <4>2, <4>3, <4>4 DEF Apart
    <3>8. LineKept(q)
      <4>1. \A j \in DOMAIN q.commands : CommandOK(q.commands[j], 2, q.fd)
        BY <2>4, <2>5, <3>4, <3>5, <3>6
      <4>2. \A i, j \in DOMAIN q.commands : i # j => Apart(q.commands[i], q.commands[j])
        BY <2>5, <3>5, <3>6, <3>7
      <4>3. \A fd \in q.open : fd \in 3 .. q.fd
        <5>1. \A fd \in r.fd + 1 .. c.fd : fd \in 3 .. c.fd
          BY <1>1, <2>3
        <5> QED
          BY <2>4, <2>5, <3>1, <5>1
      <4>4. q.open = UNION {OwnedBy(q.commands[j]) : j \in DOMAIN q.commands}
        <5>1. ASSUME NEW fd, fd \in q.open PROVE \E j \in DOMAIN q.commands : fd \in OwnedBy(q.commands[j])
          BY <2>4, <2>5, <3>1, <3>2, <3>5, <3>6, <5>1
        <5>2. ASSUME NEW j \in DOMAIN q.commands, NEW fd \in OwnedBy(q.commands[j]) PROVE fd \in q.open
          <6>1. CASE j = last
            BY <2>4, <3>1, <3>2, <3>5, <3>6, <5>2, <6>1
          <6>2. CASE j \in DOMAIN r.commands
            BY <2>4, <2>5, <3>5, <3>6, <5>2, <6>2
          <6> QED
            BY <3>5, <3>6, <5>2, <6>1, <6>2
        <5> QED
          BY <5>1, <5>2
      <4>5. q.fd > 1
        BY <2>3, <2>4
      <4> QED
        BY <2>3, <2>4, <3>6, <4>1, <4>2, <4>3, <4>4, <4>5 DEF LineKept
    <3>9. q \in LineResult
      <4>1. c.open \in SUBSET Nat
        <5>1. \A fd \in r.fd + 1 .. c.fd : fd \in Nat
          BY <1>1, <2>3
        <5> QED
          BY <3>1, <5>1
      <4>2. r.open \cup c.open \in SUBSET Nat
        BY <1>1, <4>1
      <4>3. q = [commands |-> added, refused |-> q.refused, given_up |-> q.given_up,
                 open |-> r.open \cup c.open, sub |-> c.sub, fd |-> c.fd]
        BY <2>4, <3>6
      <4> QED
        BY <2>3, <3>5, <3>6, <4>2, <4>3 DEF LineResult
    <3>10. Counted(r, split, k - 1) => Counted(q, split, k)
      <4> HAVE Counted(r, split, k - 1)
      <4>1. Len(r.commands) = k - 1
        BY <1>3 DEF Counted
      <4>2. last = k
        BY <4>1
      <4>3. \A j \in DOMAIN q.commands : q.commands[j].background = IsBackground(split, j)
        BY <3>2, <3>5, <3>6, <4>2 DEF Counted
      <4> QED
        BY <3>5, <3>6, <4>2, <4>3 DEF Counted
    <3> QED
      BY <3>8, <3>9, <3>10 DEF Lined
  <2>7. CASE ~c.ok
    <3>1. c.open = {}
      BY <2>2, <2>7 DEF IsParsed
    <3>2. q.fd = c.fd /\ q.fd > 1
      BY <2>3, <2>4
    <3>3. q.open = r.open /\ q.refused /\ q.refused \in BOOLEAN /\ q.given_up \in BOOLEAN
      BY <2>4, <2>7, <3>1
    <3>4. CASE k = Len(split.pieces)
      <4>1. q.commands = r.commands /\ ~q.given_up
        <5>1. ~(k < Len(split.pieces))
          BY <3>4
        <5> QED
          BY <2>4, <2>7, <3>4, <5>1
      <4>2. LineKept(q)
        BY <2>4, <2>5, <3>3, <3>2, <4>1 DEF LineKept
      <4>3. q \in LineResult
        BY <1>1, <2>3, <2>4, <3>3, <4>1 DEF LineResult
      <4>4. Counted(r, split, k - 1) => Counted(q, split, k)
        BY <1>3, <3>3, <3>4, <4>1 DEF Counted
      <4> QED
        BY <4>2, <4>3, <4>4 DEF Lined
    <3>5. CASE k # Len(split.pieces)
      <4>1. q.commands = <<>>
        BY <2>4, <2>7, <3>5
      <4>2. k < Len(split.pieces)
        BY <3>5
      <4>3. q.given_up
        BY <2>4, <2>7, <4>2
      <4>4. LineKept(q)
        <5>1. DOMAIN q.commands = {}
          BY <4>1
        <5> QED
          BY <2>4, <2>5, <3>3, <3>2, <4>3, <5>1 DEF LineKept
      <4>5. q \in LineResult
        BY <1>1, <2>3, <2>4, <3>3, <4>1, EmptySeq DEF LineResult
      <4>6. Counted(q, split, k)
        BY <3>3, <4>1 DEF Counted
      <4> QED
        BY <4>4, <4>5, <4>6 DEF Lined
    <3> QED
      BY <3>4, <3>5
  <2> QED
    BY <2>3, <2>6, <2>7
<1> QED
  BY <1>2, <1>3

-----------------------------------------------------------------------------
(* Where the pieces of a line are, and what split_string_keep_trace makes  *)
(* of them.                                                                *)

FlagAt(l, k) == l[k] = BACKGROUND_FLAG
EndedBefore(l, k) == {b \in PieceBounds(l) : b[2] < k}
StartedBefore(l, k) == {b \in PieceBounds(l) : b[1] < k}

\* The flags around a piece, and none in it.
LEMMA BoundsFacts ==
    ASSUME NEW l \in Seq(LineTokens), NEW b \in PieceBounds(l)
    PROVE  /\ b[1] \in Nat /\ b[2] \in Nat /\ 1 <= b[1] /\ b[1] <= b[2] /\ b[2] <= Len(l) /\ Len(l) \in Nat
           /\ \A k \in Nat : b[1] <= k /\ k <= b[2] => ~FlagAt(l, k)
           /\ b[1] = 1 \/ FlagAt(l, b[1] - 1)
           /\ b[2] = Len(l) \/ FlagAt(l, b[2] + 1)
           /\ b = <<b[1], b[2]>>
<1>1. Len(l) \in Nat /\ DOMAIN l = 1 .. Len(l)
  BY LenProperties
<1>2. b \in (DOMAIN l) \X (DOMAIN l)
  BY DEF PieceBounds
<1>3. b[1] \in DOMAIN l /\ b[2] \in DOMAIN l /\ b = <<b[1], b[2]>>
  BY <1>2
<1>4. b[1] <= b[2]
  BY DEF PieceBounds
<1>5. \A k \in Nat : b[1] <= k /\ k <= b[2] => ~FlagAt(l, k)
  BY <1>1, <1>3 DEF PieceBounds, FlagAt
<1>6. b[1] = 1 \/ FlagAt(l, b[1] - 1)
  BY DEF PieceBounds, FlagAt
<1>7. b[2] = Len(l) \/ FlagAt(l, b[2] + 1)
  BY DEF PieceBounds, FlagAt
<1> QED
  BY <1>1, <1>3, <1>4, <1>5, <1>6, <1>7

\* A line has finitely many pieces.
LEMMA BoundsFinite ==
    ASSUME NEW l \in Seq(LineTokens), NEW T, T \subseteq PieceBounds(l)
    PROVE  IsFiniteSet(T) /\ Cardinality(T) \in Nat
<1>1. Len(l) \in Nat /\ DOMAIN l = 1 .. Len(l)
  BY LenProperties
<1>2. IsFiniteSet(1 .. Len(l))
  BY <1>1, FS_Interval
<1>3. IsFiniteSet((DOMAIN l) \X (DOMAIN l))
  BY <1>1, <1>2, FS_Product
<1>4. PieceBounds(l) \subseteq (DOMAIN l) \X (DOMAIN l)
  BY DEF PieceBounds
<1>5. IsFiniteSet(T)
  BY <1>3, <1>4, FS_Subset
<1> QED
  BY <1>5, FS_CardinalityType

\* Two pieces that start, or that end, at the same place are the same, and
\* one that starts before another ends before it starts.
LEMMA BoundsApart ==
    ASSUME NEW l \in Seq(LineTokens), NEW b \in PieceBounds(l), NEW c \in PieceBounds(l)
    PROVE  /\ c[1] < b[1] => c[2] < b[1]
           /\ c[1] < b[1] => c[2] < b[2]
           /\ c[2] < b[2] => c[1] < b[1]
           /\ c[2] = b[2] => c = b
<1> DEFINE b1 == b[1]
           b2 == b[2]
           c1 == c[1]
           c2 == c[2]
           last == Len(l)
<1>1. /\ b1 \in Nat /\ b2 \in Nat /\ 1 <= b1 /\ b1 <= b2 /\ b2 <= last /\ last \in Nat
      /\ \A k \in Nat : b1 <= k /\ k <= b2 => ~FlagAt(l, k)
      /\ b1 = 1 \/ FlagAt(l, b1 - 1)
      /\ b2 = last \/ FlagAt(l, b2 + 1)
      /\ b = <<b1, b2>>
  BY BoundsFacts
<1>2. /\ c1 \in Nat /\ c2 \in Nat /\ 1 <= c1 /\ c1 <= c2 /\ c2 <= last
      /\ \A k \in Nat : c1 <= k /\ k <= c2 => ~FlagAt(l, k)
      /\ c1 = 1 \/ FlagAt(l, c1 - 1)
      /\ c2 = last \/ FlagAt(l, c2 + 1)
      /\ c = <<c1, c2>>
  BY BoundsFacts
<1> SUFFICES (c1 < b1 => c2 < b1) /\ (c1 < b1 => c2 < b2) /\ (c2 < b2 => c1 < b1) /\ (c2 = b2 => c = b)
  OBVIOUS
<1> HIDE DEF b1, b2, c1, c2, last
<1>3. c1 < b1 => c2 < b1
  <2>1. c1 < b1 /\ b1 <= c2 => b1 - 1 \in Nat /\ c1 <= b1 - 1 /\ b1 - 1 <= c2 /\ b1 # 1
    BY <1>1, <1>2
  <2>2. ~(c1 < b1 /\ b1 <= c2)
    BY <1>1, <1>2, <2>1
  <2> QED
    BY <1>1, <1>2, <2>2
<1>4. b1 < c1 => b2 < c1
  <2>1. b1 < c1 /\ c1 <= b2 => c1 - 1 \in Nat /\ b1 <= c1 - 1 /\ c1 - 1 <= b2 /\ c1 # 1
    BY <1>1, <1>2
  <2>2. ~(b1 < c1 /\ c1 <= b2)
    BY <1>1, <1>2, <2>1
  <2> QED
    BY <1>1, <1>2, <2>2
<1>5. c1 = b1 => c2 >= b2
  <2>1. c1 = b1 /\ c2 < b2 => c2 + 1 \in Nat /\ b1 <= c2 + 1 /\ c2 + 1 <= b2 /\ c2 # last
    BY <1>1, <1>2
  <2> QED
    BY <1>1, <1>2, <2>1
<1> QED
  BY <1>1, <1>2, <1>3, <1>4, <1>5

\* How the piece number of b compares with how many pieces a flag follows.
LEMMA FlagFollows ==
    ASSUME NEW l \in Seq(LineTokens), NEW b \in PieceBounds(l)
    PROVE  PiecesBefore(l, b[1]) + 1 <= Cardinality(EndedBefore(l, Len(l))) <=> b[2] < Len(l)
<1> DEFINE before == StartedBefore(l, b[1])
           ended == EndedBefore(l, Len(l))
           last == Len(l)
<1>1. PiecesBefore(l, b[1]) = Cardinality(before)
  BY DEF PiecesBefore, StartedBefore
<1>2. before \subseteq PieceBounds(l) /\ ended \subseteq PieceBounds(l)
  BY DEF StartedBefore, EndedBefore
<1>3. IsFiniteSet(before) /\ Cardinality(before) \in Nat /\ IsFiniteSet(ended) /\ Cardinality(ended) \in Nat
  BY <1>2, BoundsFinite
<1>4. b[2] \in Nat /\ b[2] <= last /\ last \in Nat /\ b[1] \in Nat
  BY BoundsFacts
<1>5. CASE b[2] < last
  <2>1. \A c \in before : c[2] < last
    <3>1. ASSUME NEW c \in before PROVE c[2] < b[2] /\ c[2] \in Nat
      BY BoundsApart, BoundsFacts DEF StartedBefore
    <3> QED
      BY <1>4, <1>5, <3>1
  <2>2. before \cup {b} \subseteq ended
    BY <1>2, <1>5, <2>1 DEF EndedBefore
  <2>3. b \notin before
    BY <1>4 DEF StartedBefore
  <2> HIDE DEF before, ended, last
  <2>4. Cardinality(before \cup {b}) = Cardinality(before) + 1
    BY <1>3, <2>3, FS_AddElement
  <2>5. Cardinality(before \cup {b}) <= Cardinality(ended)
    BY <1>3, <2>2, FS_Subset
  <2> QED
    BY <1>1, <1>5, <2>4, <2>5 DEF ended, last
<1>6. CASE ~(b[2] < last)
  <2>1. b[2] = last
    BY <1>4, <1>6
  <2>2. ended \subseteq before
    BY <1>2, <2>1, BoundsApart DEF EndedBefore, StartedBefore
  <2> HIDE DEF before, ended, last
  <2>3. Cardinality(ended) <= Cardinality(before)
    BY <1>3, <2>2, FS_Subset
  <2>4. ~(Cardinality(before) + 1 <= Cardinality(ended))
    BY <1>3, <2>3
  <2> QED
    BY <1>1, <1>6, <2>4 DEF ended, last
<1> QED
  BY <1>5, <1>6
\* The loop of split_string_keep_trace after the first k tokens of the line.
Trace == [pieces : Seq(Seq(PieceTokens)), piece : Seq(PieceTokens)]
NoTrace == [pieces |-> <<>>, piece |-> <<>>]
TraceUpTo(l, f) == f = [k \in 0 .. Len(l) |-> IF k = 0 THEN NoTrace ELSE NextToken(f[k - 1], l[k])]

\* What it has of the piece it is in goes back to the last flag, and the
\* pieces it has are those that ended.
Traced(l, k, s) ==
    /\ Len(s.piece) <= k
    /\ \A j \in Nat : k - Len(s.piece) < j /\ j <= k => ~FlagAt(l, j)
    /\ k = Len(s.piece) \/ FlagAt(l, k - Len(s.piece))
    /\ Len(s.pieces) = Cardinality(EndedBefore(l, k))

EndingAt(l, k) == {b \in PieceBounds(l) : b[2] = k}

\* Where the line ends, or a flag is, the piece ends that it is in.
LEMMA PieceEnds ==
    ASSUME NEW l \in Seq(LineTokens), NEW k \in 0 .. Len(l), NEW s \in Trace, Traced(l, k, s),
           k = Len(l) \/ FlagAt(l, k + 1)
    PROVE  EndingAt(l, k) = IF s.piece = <<>> THEN {} ELSE {<<k - Len(s.piece) + 1, k>>}
<1> DEFINE n == Len(s.piece)
           last == Len(l)
           new == <<k - n + 1, k>>
<1>1. last \in Nat /\ DOMAIN l = 1 .. last /\ n \in Nat /\ (s.piece = <<>> <=> n = 0)
  <2>1. s.piece \in Seq(PieceTokens)
    BY DEF Trace
  <2>2. s.piece = <<>> <=> n = 0
    BY <2>1, EmptySeq
  <2> QED
    BY <2>1, <2>2, LenProperties
<1>2. /\ n <= k /\ k \in Nat /\ k <= last
      /\ \A j \in Nat : k - n < j /\ j <= k => ~FlagAt(l, j)
      /\ k = n \/ FlagAt(l, k - n)
      /\ k = last \/ FlagAt(l, k + 1)
  <2>1. k \in 0 .. last
    OBVIOUS
  <2>2. /\ n <= k
        /\ \A j \in Nat : k - n < j /\ j <= k => ~FlagAt(l, j)
        /\ k = n \/ FlagAt(l, k - n)
    BY DEF Traced
  <2> HIDE DEF n, last
  <2>3. k \in Nat /\ k <= last
    BY <1>1, <2>1
  <2> QED
    BY <2>2, <2>3 DEF last
<1>3. ASSUME NEW b \in EndingAt(l, k) PROVE n # 0 /\ b = new
  <2> DEFINE b1 == b[1]
  <2>1. /\ b1 \in Nat /\ 1 <= b1 /\ b1 <= k
        /\ \A j \in Nat : b1 <= j /\ j <= k => ~FlagAt(l, j)
        /\ b1 = 1 \/ FlagAt(l, b1 - 1)
        /\ b = <<b1, k>>
    BY BoundsFacts DEF EndingAt
  <2> HIDE DEF b1, last, n
  <2>2. ~(b1 <= k - n)
    <3>1. b1 <= k - n => k - n \in Nat /\ k - n <= k /\ k # n
      BY <1>1, <1>2, <2>1
    <3> QED
      BY <1>2, <2>1, <3>1
  <2>3. ~(k - n + 1 < b1)
    <3>1. k - n + 1 < b1 => b1 - 1 \in Nat /\ k - n < b1 - 1 /\ b1 - 1 <= k /\ b1 # 1
      BY <1>1, <1>2, <2>1
    <3> QED
      BY <1>2, <2>1, <3>1
  <2>4. b1 = k - n + 1
    BY <1>1, <1>2, <2>1, <2>2, <2>3
  <2>5. n # 0
    BY <1>1, <1>2, <2>1, <2>4
  <2> QED
    BY <2>1, <2>4, <2>5
<1>4. n # 0 => new \in EndingAt(l, k)
  <2> SUFFICES ASSUME n # 0 PROVE new \in EndingAt(l, k)
    OBVIOUS
  <2> DEFINE b1 == k - n + 1
  <2> HIDE DEF last, n
  <2>1. b1 \in 1 .. last /\ k \in 1 .. last /\ b1 <= k /\ (b1 = 1 <=> k = n) /\ b1 - 1 = k - n
    BY <1>1, <1>2
  <2>2. new \in (DOMAIN l) \X (DOMAIN l)
    BY <1>1, <2>1
  <2>3. new[1] = b1 /\ new[2] = k
    OBVIOUS
  <2>4. \A j \in b1 .. k : l[j] # BACKGROUND_FLAG
    <3>1. \A j \in b1 .. k : j \in Nat /\ k - n < j /\ j <= k
      BY <1>1, <1>2, <2>1
    <3> QED
      BY <1>2, <3>1 DEF FlagAt
  <2> HIDE DEF b1, new
  <2>5. b1 = 1 \/ l[b1 - 1] = BACKGROUND_FLAG
    BY <1>2, <2>1 DEF FlagAt
  <2>6. k = Len(l) \/ l[k + 1] = BACKGROUND_FLAG
    BY <1>2 DEF FlagAt, last
  <2> QED
    BY <2>1, <2>2, <2>3, <2>4, <2>5, <2>6 DEF EndingAt, PieceBounds
<1> QED
  BY <1>1, <1>3, <1>4

\* From one token to the next, the pieces that have ended.
LEMMA EndedGrows ==
    ASSUME NEW l \in Seq(LineTokens), NEW k \in 0 .. Len(l)
    PROVE  /\ EndedBefore(l, k + 1) = EndedBefore(l, k) \cup EndingAt(l, k)
           /\ \A b \in EndingAt(l, k) : b \notin EndedBefore(l, k)
           /\ k < Len(l) /\ ~FlagAt(l, k + 1) => EndingAt(l, k) = {}
           /\ k = Len(l) => EndedBefore(l, k + 1) = PieceBounds(l)
           /\ EndedBefore(l, 0) = {}
<1> DEFINE last == Len(l)
<1>1. k \in Nat /\ k <= last /\ last \in Nat
  BY LenProperties
<1>2. \A b \in PieceBounds(l) : b[2] \in Nat /\ b[2] <= last /\ b[2] >= 1 /\ (b[2] = last \/ FlagAt(l, b[2] + 1))
  <2>1. ASSUME NEW b \in PieceBounds(l)
        PROVE  b[2] \in Nat /\ b[2] <= last /\ b[1] \in Nat /\ b[1] >= 1 /\ b[1] <= b[2] /\ (b[2] = last \/ FlagAt(l, b[2] + 1))
    BY BoundsFacts
  <2> QED
    BY <2>1
<1> HIDE DEF last
<1>3. EndedBefore(l, k + 1) = EndedBefore(l, k) \cup EndingAt(l, k)
  BY <1>1, <1>2 DEF EndedBefore, EndingAt
<1>4. \A b \in EndingAt(l, k) : b \notin EndedBefore(l, k)
  BY <1>1, <1>2 DEF EndedBefore, EndingAt
<1>5. k < last /\ ~FlagAt(l, k + 1) => EndingAt(l, k) = {}
  BY <1>1, <1>2 DEF EndingAt
<1>6. k = last => EndedBefore(l, k + 1) = PieceBounds(l)
  BY <1>1, <1>2 DEF EndedBefore
<1>7. EndedBefore(l, 0) = {}
  BY <1>1, <1>2 DEF EndedBefore
<1> QED
  BY <1>3, <1>4, <1>5, <1>6, <1>7 DEF last

\* How many pieces have ended once those at k have.
LEMMA EndedCount ==
    ASSUME NEW l \in Seq(LineTokens), NEW k \in 0 .. Len(l), NEW s \in Trace, Traced(l, k, s),
           k = Len(l) \/ FlagAt(l, k + 1)
    PROVE  Cardinality(EndedBefore(l, k + 1)) = Len(s.pieces) + IF s.piece = <<>> THEN 0 ELSE 1
<1> DEFINE ended == EndedBefore(l, k)
           new == <<k - Len(s.piece) + 1, k>>
<1>1. ended \subseteq PieceBounds(l)
  BY DEF EndedBefore
<1>2. IsFiniteSet(ended) /\ Cardinality(ended) \in Nat
  BY <1>1, BoundsFinite
<1>3. Cardinality(ended) = Len(s.pieces)
  BY DEF Traced
<1>4. EndedBefore(l, k + 1) = ended \cup EndingAt(l, k) /\ \A b \in EndingAt(l, k) : b \notin ended
  BY EndedGrows
<1>5. EndingAt(l, k) = IF s.piece = <<>> THEN {} ELSE {new}
  BY PieceEnds
<1> HIDE DEF ended, new
<1>6. CASE s.piece = <<>>
  <2>1. EndedBefore(l, k + 1) = ended
    BY <1>4, <1>5, <1>6
  <2> QED
    BY <1>2, <1>3, <1>6, <2>1
<1>7. CASE s.piece # <<>>
  <2>1. EndedBefore(l, k + 1) = ended \cup {new} /\ new \notin ended
    BY <1>4, <1>5, <1>7
  <2>2. Cardinality(ended \cup {new}) = Cardinality(ended) + 1
    BY <1>2, <2>1, FS_AddElement
  <2> QED
    BY <1>2, <1>3, <1>7, <2>1, <2>2
<1> QED
  BY <1>6, <1>7
\* One token further.
LEMMA TokenTraced ==
    ASSUME NEW l \in Seq(LineTokens), NEW k \in Nat, k + 1 \in 1 .. Len(l), NEW s \in Trace, Traced(l, k, s),
           NEW q, q = NextToken(s, l[k + 1])
    PROVE  q \in Trace /\ Traced(l, k + 1, q)
<1> DEFINE token == l[k + 1]
           last == Len(l)
<1>1. /\ k \in 0 .. last /\ last \in Nat /\ k < last /\ k # last
      /\ s.pieces \in Seq(Seq(PieceTokens)) /\ s.piece \in Seq(PieceTokens)
      /\ Len(s.piece) \in Nat /\ Len(s.pieces) \in Nat
  <2>1. s.pieces \in Seq(Seq(PieceTokens)) /\ s.piece \in Seq(PieceTokens)
    BY DEF Trace
  <2>2. last \in Nat /\ Len(s.piece) \in Nat /\ Len(s.pieces) \in Nat
    BY <2>1, LenProperties
  <2>3. k + 1 \in 1 .. last
    OBVIOUS
  <2> HIDE DEF last
  <2> QED
    BY <2>1, <2>2, <2>3
<1>2. token \in LineTokens
  BY ElementOfSeq
<1>3. /\ Len(s.piece) <= k
      /\ \A j \in Nat : k - Len(s.piece) < j /\ j <= k => ~FlagAt(l, j)
      /\ k = Len(s.piece) \/ FlagAt(l, k - Len(s.piece))
      /\ Len(s.pieces) = Cardinality(EndedBefore(l, k))
  BY DEF Traced
<1>4. /\ EndedBefore(l, k + 1) = EndedBefore(l, k) \cup EndingAt(l, k)
      /\ ~FlagAt(l, k + 1) => EndingAt(l, k) = {}
  BY <1>1, EndedGrows
<1>5. FlagAt(l, k + 1) => Cardinality(EndedBefore(l, k + 1)) = Len(s.pieces) + IF s.piece = <<>> THEN 0 ELSE 1
  BY <1>1, EndedCount
<1>6. token = BACKGROUND_FLAG <=> FlagAt(l, k + 1)
  BY DEF FlagAt
<1> HIDE DEF token
<1>7. CASE token # BACKGROUND_FLAG
  <2>1. token \in PieceTokens
    BY <1>2, <1>7 DEF LineTokens
  <2>2. q = [s EXCEPT !.piece = Append(@, token)]
    BY <1>7 DEF NextToken, token
  <2>3. q.pieces = s.pieces /\ q.piece = Append(s.piece, token)
    BY <2>2 DEF Trace
  <2>4. Append(s.piece, token) \in Seq(PieceTokens) /\ Len(Append(s.piece, token)) = Len(s.piece) + 1
    BY <1>1, <2>1, AppendProperties
  <2>5. q \in Trace
    BY <1>1, <2>2, <2>4 DEF Trace
  <2>6. Len(q.piece) = Len(s.piece) + 1
    BY <2>3, <2>4
  <2>7. Len(q.pieces) = Cardinality(EndedBefore(l, k + 1))
    BY <1>3, <1>4, <1>6, <1>7, <2>3
  <2> DEFINE n == Len(s.piece)
             m == Len(q.piece)
  <2>8. m = n + 1 /\ n \in Nat /\ n <= k
    BY <1>1, <1>3, <2>6
  <2>9. /\ \A j \in Nat : k - n < j /\ j <= k => ~FlagAt(l, j)
        /\ k = n \/ FlagAt(l, k - n)
        /\ ~FlagAt(l, k + 1)
    BY <1>3, <1>6, <1>7
  <2> HIDE DEF n, m
  <2>10. /\ m <= k + 1
         /\ k + 1 = m \/ FlagAt(l, (k + 1) - m)
    <3>1. (k + 1) - m = k - n
      BY <2>8
    <3> QED
      BY <2>8, <2>9, <3>1
  <2>11. \A j \in Nat : (k + 1) - m < j /\ j <= k + 1 => ~FlagAt(l, j)
    <3>1. \A j \in Nat : (k + 1) - m < j /\ j <= k + 1 => (k - n < j /\ j <= k) \/ j = k + 1
      BY <2>8
    <3> QED
      BY <2>9, <3>1
  <2>12. Traced(l, k + 1, q)
    BY <2>7, <2>10, <2>11, Zenon DEF Traced, m
  <2> QED
    BY <2>5, <2>12
<1>8. CASE token = BACKGROUND_FLAG
  <2>1. q.piece = <<>> /\ q \in Trace
        /\ Len(q.pieces) = Len(s.pieces) + IF s.piece = <<>> THEN 0 ELSE 1
    <3>1. CASE s.piece = <<>>
      <4>1. q = s
        BY <1>8, <3>1 DEF NextToken, token
      <4> QED
        BY <1>1, <3>1, <4>1
    <3>2. CASE s.piece # <<>>
      <4>1. q = [pieces |-> Append(s.pieces, s.piece), piece |-> <<>>]
        BY <1>8, <3>2 DEF NextToken, token
      <4>2. Append(s.pieces, s.piece) \in Seq(Seq(PieceTokens)) /\ Len(Append(s.pieces, s.piece)) = Len(s.pieces) + 1
        BY <1>1, AppendProperties
      <4>3. q \in Trace
        BY <4>1, <4>2, EmptySeq DEF Trace
      <4>4. q.piece = <<>> /\ q.pieces = Append(s.pieces, s.piece)
        BY <4>1
      <4> QED
        BY <3>2, <4>2, <4>3, <4>4
    <3> QED
      BY <3>1, <3>2
  <2>2. Len(q.piece) = 0
    BY <2>1, EmptySeq
  <2>3. Len(q.pieces) = Cardinality(EndedBefore(l, k + 1)) /\ FlagAt(l, k + 1)
    BY <1>5, <1>6, <1>8, <2>1
  <2> DEFINE m == Len(q.piece)
  <2>4. m = 0
    BY <2>2
  <2> HIDE DEF m
  <2>5. /\ m <= k + 1
        /\ \A j \in Nat : ~(k + 1 - m < j /\ j <= k + 1)
        /\ k + 1 - m = k + 1
    BY <2>4
  <2> QED
    BY <2>1, <2>3, <2>5 DEF Traced, m
<1> QED
  BY <1>7, <1>8

\* split_string_keep_trace goes over the whole line, and returns what it has by then.
Pieces(s) == [pieces |-> IF s.piece = <<>> THEN s.pieces ELSE Append(s.pieces, s.piece), flagged |-> Len(s.pieces)]
TraceRuns(l, f) ==
    /\ f[0] = NoTrace /\ \A k \in 1 .. Len(l) : f[k] = NextToken(f[k - 1], l[k])
    /\ \A k \in 0 .. Len(l) : f[k] \in Trace /\ Traced(l, k, f[k])
    /\ split_string_keep_trace(l) = Pieces(f[Len(l)])

\* There is such a run over every line.
LEMMA KeepTraceRuns ==
    ASSUME NEW l \in Seq(LineTokens)
    PROVE  \E f : TraceRuns(l, f)
<1> DEFINE upTo == CHOOSE f : TraceUpTo(l, f)
           last == Len(l)
           step == [x \in Trace \X Nat |-> IF x[2] \in 1 .. last THEN NextToken(x[1], l[x[2]]) ELSE x[1]]
<1>1. last \in Nat /\ DOMAIN l = 1 .. last
  BY LenProperties
<1>2. NoTrace \in Trace
  BY EmptySeq DEF NoTrace, Trace
<1>3. ASSUME NEW x \in Trace, NEW k \in 1 .. last PROVE NextToken(x, l[k]) \in Trace
  <2>1. l[k] \in LineTokens
    BY ElementOfSeq
  <2>2. x.pieces \in Seq(Seq(PieceTokens)) /\ x.piece \in Seq(PieceTokens)
    BY DEF Trace
  <2>3. Append(x.pieces, x.piece) \in Seq(Seq(PieceTokens))
    BY <2>2, AppendProperties
  <2>4. l[k] # BACKGROUND_FLAG => Append(x.piece, l[k]) \in Seq(PieceTokens)
    BY <2>1, <2>2, AppendProperties DEF LineTokens
  <2>5. CASE l[k] # BACKGROUND_FLAG
    <3>1. NextToken(x, l[k]) = [x EXCEPT !.piece = Append(@, l[k])]
      BY <2>5 DEF NextToken
    <3> QED
      BY <2>2, <2>4, <2>5, <3>1 DEF Trace
  <2>6. CASE l[k] = BACKGROUND_FLAG /\ x.piece = <<>>
    BY <2>6 DEF NextToken
  <2>7. CASE l[k] = BACKGROUND_FLAG /\ x.piece # <<>>
    <3>1. NextToken(x, l[k]) = [pieces |-> Append(x.pieces, x.piece), piece |-> <<>>]
      BY <2>7 DEF NextToken
    <3> QED
      BY <2>3, <3>1, EmptySeq DEF Trace
  <2> QED
    BY <2>5, <2>6, <2>7
<1>4. \E f : TraceUpTo(l, f)
  <2>1. step \in [Trace \X Nat -> Trace]
    BY <1>3
  <2> HIDE DEF step, last
  <2>2. PICK f \in [0 .. last -> Trace] : GoesUpTo(f, NoTrace, step, last)
    BY <1>1, <1>2, <2>1, BoundedRecursion
  <2>3. ASSUME NEW k \in 1 .. last PROVE f[k] = NextToken(f[k - 1], l[k])
    <3>1. k - 1 \in 0 .. last /\ k \in Nat
      BY <1>1
    <3>2. f[k - 1] \in Trace
      BY <3>1
    <3> QED
      BY <2>2, <3>1, <3>2 DEF GoesUpTo, step
  <2>4. \A k \in 0 .. last : f[k] = IF k = 0 THEN NoTrace ELSE NextToken(f[k - 1], l[k])
    BY <1>1, <2>2, <2>3 DEF GoesUpTo
  <2>5. TraceUpTo(l, f)
    BY <2>4 DEF TraceUpTo, last
  <2> QED
    BY <2>5
<1>5. TraceUpTo(l, upTo)
  BY <1>4
<1>6. split_string_keep_trace(l) = Pieces(upTo[last])
  BY DEF split_string_keep_trace, TraceUpTo, NoTrace, Pieces
<1> HIDE DEF upTo, step, last
<1>7. upTo[0] = NoTrace /\ \A k \in 1 .. last : upTo[k] = NextToken(upTo[k - 1], l[k])
  BY <1>1, <1>5 DEF TraceUpTo, last
<1> DEFINE Good == {k \in Nat : k <= last => upTo[k] \in Trace /\ Traced(l, k, upTo[k])}
<1>8. 0 \in Good
  <2>1. NoTrace.piece = <<>> /\ NoTrace.pieces = <<>> /\ Len(<<>>) = 0
    BY EmptySeq DEF NoTrace
  <2>2. EndedBefore(l, 0) = {}
    BY <1>1, EndedGrows DEF last
  <2>3. Len(NoTrace.piece) = 0 /\ Len(NoTrace.pieces) = Cardinality(EndedBefore(l, 0))
    BY <2>1, <2>2, FS_EmptySet
  <2>4. \A j \in Nat : ~(0 - 0 < j /\ j <= 0)
    OBVIOUS
  <2>5. Traced(l, 0, NoTrace)
    BY <2>3, <2>4 DEF Traced
  <2> QED
    BY <1>2, <1>7, <2>5
<1>9. ASSUME NEW k \in Nat, k \in Good PROVE k + 1 \in Good
  <2>1. CASE k + 1 <= last
    <3>1. k + 1 \in 1 .. last /\ (k + 1) - 1 = k /\ k <= last
      BY <1>1, <2>1
    <3>2. upTo[k + 1] = NextToken(upTo[k], l[k + 1])
      BY <1>7, <3>1
    <3>3. upTo[k] \in Trace /\ Traced(l, k, upTo[k])
      BY <1>9, <3>1
    <3>4. upTo[k + 1] \in Trace /\ Traced(l, k + 1, upTo[k + 1])
      BY <3>1, <3>2, <3>3, TokenTraced DEF last
    <3> QED
      BY <3>4
  <2> QED
    BY <2>1
<1> HIDE DEF Good
<1>10. Nat \subseteq Good
  BY <1>8, <1>9, Induction
<1>11. \A k \in 0 .. last : upTo[k] \in Trace /\ Traced(l, k, upTo[k])
  BY <1>1, <1>10 DEF Good
<1>12. TraceRuns(l, upTo)
  BY <1>6, <1>7, <1>11 DEF TraceRuns, last
<1> QED
  BY <1>12

\* split_string_keep_trace: how many pieces there are, and how many of them
\* a flag follows.
LEMMA KeepTraceFacts ==
    ASSUME NEW l \in Seq(LineTokens), NEW split, split = split_string_keep_trace(l)
    PROVE  /\ split \in Split
           /\ Len(split.pieces) = Cardinality(PieceBounds(l))
           /\ split.flagged = Cardinality(EndedBefore(l, Len(l)))
           /\ Len(split.pieces) <= split.flagged + 1
<1> DEFINE last == Len(l)
<1>1. last \in Nat /\ last \in 0 .. last
  <2>1. last \in Nat
    BY LenProperties
  <2> QED
    BY <2>1
<1>2. PICK f : TraceRuns(l, f)
  BY KeepTraceRuns
<1> DEFINE s == f[last]
<1>3. split = [pieces |-> IF s.piece = <<>> THEN s.pieces ELSE Append(s.pieces, s.piece), flagged |-> Len(s.pieces)]
  BY <1>2 DEF TraceRuns, Pieces
<1>4. s \in Trace /\ Traced(l, last, s) /\ s.pieces \in Seq(Seq(PieceTokens)) /\ s.piece \in Seq(PieceTokens)
  BY <1>1, <1>2 DEF TraceRuns, Trace
<1> HIDE DEF s, last
<1>5. /\ EndedBefore(l, last + 1) = PieceBounds(l)
      /\ Cardinality(EndedBefore(l, last + 1)) = Len(s.pieces) + IF s.piece = <<>> THEN 0 ELSE 1
      /\ Len(s.pieces) = Cardinality(EndedBefore(l, last))
  <2>1. last \in 0 .. last
    BY <1>1
  <2>2. EndedBefore(l, last + 1) = PieceBounds(l)
    BY <2>1, EndedGrows DEF last
  <2>3. Cardinality(EndedBefore(l, last + 1)) = Len(s.pieces) + IF s.piece = <<>> THEN 0 ELSE 1
    BY <1>4, <2>1, EndedCount DEF last
  <2> QED
    BY <1>4, <2>2, <2>3 DEF Traced
<1>6. Append(s.pieces, s.piece) \in Seq(Seq(PieceTokens)) /\ Len(Append(s.pieces, s.piece)) = Len(s.pieces) + 1
      /\ Len(s.pieces) \in Nat
  BY <1>4, AppendProperties, LenProperties
<1>7. split.pieces \in Seq(Seq(PieceTokens)) /\ split.flagged = Len(s.pieces)
      /\ Len(split.pieces) = Len(s.pieces) + IF s.piece = <<>> THEN 0 ELSE 1
  <2>1. CASE s.piece = <<>>
    <3>1. split.pieces = s.pieces /\ split.flagged = Len(s.pieces)
      BY <1>3, <2>1
    <3>2. Len(s.pieces) + 0 = Len(s.pieces)
      BY <1>6
    <3> QED
      BY <1>4, <2>1, <3>1, <3>2
  <2>2. CASE s.piece # <<>>
    <3>1. split.pieces = Append(s.pieces, s.piece) /\ split.flagged = Len(s.pieces)
      BY <1>3, <2>2
    <3> QED
      BY <1>6, <2>2, <3>1
  <2> QED
    BY <2>1, <2>2
<1>8. split \in Split
  BY <1>3, <1>4, <1>6 DEF Split
<1>9. Len(split.pieces) <= split.flagged + 1
  <2> DEFINE x == Len(split.pieces)
             y == Len(s.pieces)
  <2>1. y \in Nat /\ (x = y + 0 \/ x = y + 1) /\ split.flagged = y
    BY <1>6, <1>7
  <2> HIDE DEF x, y
  <2>2. x <= y + 1
    BY <2>1
  <2> QED
    BY <2>1, <2>2 DEF x
<1> QED
  BY <1>5, <1>7, <1>8, <1>9 DEF last
-----------------------------------------------------------------------------
(* What parse_read_line returns, whatever the line.                        *)

Nothing(sub) == [commands |-> <<>>, refused |-> FALSE, given_up |-> FALSE, open |-> {}, sub |-> sub, fd |-> 2]
LineUpTo(split, sub, f) ==
    f = [k \in 0 .. Len(split.pieces) |-> IF k = 0 THEN Nothing(sub) ELSE ParsePiece(f[k - 1], split, k)]
AllCounted(r, split) == Counted(r, split, Len(split.pieces))

\* What parse_read_line starts with.
LEMMA NothingFacts ==
    ASSUME NEW sub \in {NULL, DANGLING}, NEW split \in Split
    PROVE  Nothing(sub) \in Lined /\ Counted(Nothing(sub), split, 0)
<1> DEFINE r == Nothing(sub)
<1>1. r.commands = <<>> /\ r.refused = FALSE /\ r.given_up = FALSE /\ r.open = {} /\ r.fd = 2 /\ r.sub = sub
  BY DEF Nothing
<1>2. DOMAIN <<>> = {} /\ Len(<<>>) = 0 /\ <<>> \in Seq(CommandType)
  BY EmptySeq
<1>3. r \in LineResult
  BY <1>2 DEF Nothing, LineResult
<1> HIDE DEF r
<1>4. DOMAIN r.commands = {} /\ r.fd > 1
  BY <1>1, <1>2
<1>5. LineKept(r)
  BY <1>1, <1>4 DEF LineKept
<1>6. Counted(r, split, 0)
  BY <1>1, <1>2, <1>4 DEF Counted
<1> QED
  BY <1>3, <1>5, <1>6 DEF Lined, r

\* parse_read_line goes over all pieces, and returns what it has by then.
PiecesRun(split, sub, f) ==
    /\ f[0] = Nothing(sub) /\ \A k \in 1 .. Len(split.pieces) : f[k] = ParsePiece(f[k - 1], split, k)
    /\ \A k \in 0 .. Len(split.pieces) : f[k] \in Lined /\ Counted(f[k], split, k)
LineRuns(l, sub, split, f) ==
    /\ PiecesRun(split, sub, f)
    /\ parse_read_line(l, sub) = IF StartsWithFlag(l) THEN Nothing(sub) ELSE f[Len(split.pieces)]

\* There is such a run over the pieces of every line.
LEMMA ReadLineRuns ==
    ASSUME NEW l \in Seq(LineTokens), NEW sub \in {NULL, DANGLING}
    PROVE  \E f : LineRuns(l, sub, split_string_keep_trace(l), f)
<1> DEFINE split == split_string_keep_trace(l)
           last == Len(split.pieces)
           upTo == CHOOSE f : LineUpTo(split, sub, f)
           step == [x \in Lined \X Nat |-> IF x[2] \in 1 .. last THEN ParsePiece(x[1], split, x[2]) ELSE x[1]]
<1>1. split \in Split
  BY KeepTraceFacts
<1>2. parse_read_line(l, sub) = IF StartsWithFlag(l) THEN Nothing(sub) ELSE upTo[last]
  BY DEF parse_read_line, LineUpTo, Nothing, StartsWithFlag
<1> HIDE DEF split
<1>3. last \in Nat
  BY <1>1, LenProperties DEF Split
<1>4. Nothing(sub) \in Lined /\ Counted(Nothing(sub), split, 0)
  BY <1>1, NothingFacts
<1>5. ASSUME NEW x \in Lined, NEW k \in 1 .. last
      PROVE  /\ ParsePiece(x, split, k) \in Lined
             /\ Counted(x, split, k - 1) => Counted(ParsePiece(x, split, k), split, k)
  BY <1>1, PieceKeeps
<1>6. \E f : LineUpTo(split, sub, f)
  <2>1. step \in [Lined \X Nat -> Lined]
    BY <1>5
  <2> HIDE DEF step, last
  <2>2. PICK f \in [0 .. last -> Lined] : GoesUpTo(f, Nothing(sub), step, last)
    BY <1>3, <1>4, <2>1, BoundedRecursion
  <2>3. ASSUME NEW k \in 1 .. last PROVE f[k] = ParsePiece(f[k - 1], split, k)
    <3>1. k - 1 \in 0 .. last /\ k \in Nat
      BY <1>3
    <3>2. f[k - 1] \in Lined
      BY <3>1
    <3> QED
      BY <2>2, <3>1, <3>2 DEF GoesUpTo, step
  <2>4. \A k \in 0 .. last : f[k] = IF k = 0 THEN Nothing(sub) ELSE ParsePiece(f[k - 1], split, k)
    BY <1>3, <2>2, <2>3 DEF GoesUpTo
  <2>5. LineUpTo(split, sub, f)
    BY <2>4 DEF LineUpTo, last
  <2> QED
    BY <2>5
<1>7. LineUpTo(split, sub, upTo)
  BY <1>6
<1> HIDE DEF upTo, step, last
<1>8. upTo[0] = Nothing(sub) /\ \A k \in 1 .. last : upTo[k] = ParsePiece(upTo[k - 1], split, k)
  <2>1. upTo = [k \in 0 .. last |-> IF k = 0 THEN Nothing(sub) ELSE ParsePiece(upTo[k - 1], split, k)]
    BY <1>7 DEF LineUpTo, last
  <2>2. 0 \in 0 .. last /\ \A k \in 1 .. last : k \in 0 .. last /\ k # 0
    BY <1>3
  <2> QED
    BY <2>1, <2>2
<1> DEFINE Good == {k \in Nat : k <= last => upTo[k] \in Lined /\ Counted(upTo[k], split, k)}
<1>9. 0 \in Good
  BY <1>4, <1>8
<1>10. ASSUME NEW k \in Nat, k \in Good PROVE k + 1 \in Good
  <2>1. CASE k + 1 <= last
    <3>1. k + 1 \in 1 .. last /\ (k + 1) - 1 = k /\ k <= last
      BY <1>3, <2>1
    <3>2. upTo[k + 1] = ParsePiece(upTo[k], split, k + 1)
      BY <1>8, <3>1
    <3>3. upTo[k] \in Lined /\ Counted(upTo[k], split, k)
      BY <1>10, <3>1
    <3>4. upTo[k + 1] \in Lined /\ Counted(upTo[k + 1], split, k + 1)
      BY <1>5, <3>1, <3>2, <3>3
    <3> QED
      BY <3>4
  <2> QED
    BY <2>1
<1> HIDE DEF Good
<1>11. Nat \subseteq Good
  BY <1>9, <1>10, Induction
<1>12. \A k \in 0 .. last : upTo[k] \in Lined /\ Counted(upTo[k], split, k)
  BY <1>3, <1>11 DEF Good
<1>13. PiecesRun(split, sub, upTo)
  BY <1>8, <1>12 DEF PiecesRun, last
<1>14. LineRuns(l, sub, split, upTo)
  BY <1>2, <1>13 DEF LineRuns, last
<1> QED
  BY <1>14 DEF split

\* parse_read_line as a whole.
LEMMA LineIsKept ==
    ASSUME NEW l \in Seq(LineTokens), NEW sub \in {NULL, DANGLING}, NEW r, r = parse_read_line(l, sub)
    PROVE  r \in Lined /\ (r = Nothing(sub) \/ AllCounted(r, split_string_keep_trace(l)))
<1> DEFINE split == split_string_keep_trace(l)
           last == Len(split.pieces)
<1>1. split \in Split
  BY KeepTraceFacts
<1>2. PICK f : LineRuns(l, sub, split, f)
  BY ReadLineRuns
<1> HIDE DEF split
<1>3. last \in Nat /\ last \in 0 .. last
  <2>1. last \in Nat
    BY <1>1, LenProperties DEF Split
  <2> QED
    BY <2>1
<1>4. Nothing(sub) \in Lined
  BY <1>1, NothingFacts
<1>5. f[last] \in Lined /\ AllCounted(f[last], split)
  BY <1>2, <1>3 DEF LineRuns, PiecesRun, AllCounted, last
<1>6. r = Nothing(sub) \/ r = f[last]
  BY <1>2 DEF LineRuns, last
<1> QED
  BY <1>4, <1>5, <1>6 DEF split

-----------------------------------------------------------------------------
(* The parser between lines: what parse_read_line returned, of some line.  *)

Returned(r) ==
    /\ commands = r.commands
    /\ refused = r.refused
    /\ given_up = r.given_up
    /\ open = r.open
    /\ last_parsed_command_call_substitution = r.sub

ParserInv ==
    /\ phase \in {"prompt", "parsed"}
    /\ line \in Seq(LineTokens)
    /\ \E r \in Lined :
          /\ Returned(r)
          /\ (commands = <<>> /\ refused = FALSE) \/ AllCounted(r, split_string_keep_trace(line))

\* At a prompt nothing is returned.
LEMMA NothingReturned ==
    ASSUME commands = <<>>, refused = FALSE, given_up = FALSE, open = {}, line = <<>>,
           last_parsed_command_call_substitution \in {NULL, DANGLING}, phase = "prompt"
    PROVE  ParserInv
<1> DEFINE r == Nothing(last_parsed_command_call_substitution)
<1>1. line \in Seq(LineTokens)
  BY EmptySeq
<1>2. r \in Lined
  BY <1>1, NothingFacts, KeepTraceFacts
<1>3. Returned(r)
  BY DEF Returned, Nothing
<1> QED
  BY <1>1, <1>2, <1>3 DEF ParserInv

\* The invariant is inductive.
LEMMA ParserInvInductive ==
    ASSUME ParserInv, [ParserNext]_parserVars
    PROVE  ParserInv'
<1>1. last_parsed_command_call_substitution \in {NULL, DANGLING}
  BY DEF ParserInv, Returned, Lined, LineResult
<1>2. CASE ParseLine
  <2> DEFINE sub == last_parsed_command_call_substitution
  <2>1. PICK l \in Lines : ParsedAs(l, parse_read_line(l, sub))
    BY <1>2 DEF ParseLine
  <2>2. l \in Seq(LineTokens)
    BY LinesAssumption DEF LineTokens, PieceTokens, Symbols, Tokens
  <2>3. PICK r \in Lined : /\ r = parse_read_line(l, sub)
                           /\ r = Nothing(sub) \/ AllCounted(r, split_string_keep_trace(l))
    BY <1>1, <2>2, LineIsKept
  <2>4. Returned(r)' /\ line' = l /\ phase' = "parsed"
    BY <1>2, <2>1, <2>3 DEF ParsedAs, Returned, ParseLine
  <2>5. r = Nothing(sub) => commands' = <<>> /\ refused' = FALSE
    BY <2>4 DEF Returned, Nothing
  <2> QED
    BY <2>2, <2>3, <2>4, <2>5 DEF ParserInv
<1>3. CASE NextPrompt
  <2>1. /\ commands' = <<>> /\ refused' = FALSE /\ given_up' = FALSE /\ open' = {} /\ line' = <<>>
        /\ last_parsed_command_call_substitution' = last_parsed_command_call_substitution
        /\ phase' = "prompt"
    BY <1>3 DEF NextPrompt
  <2>2. <<>> \in Seq(LineTokens)
    BY EmptySeq
  <2>3. PICK r \in Lined : r = Nothing(last_parsed_command_call_substitution)
    BY <1>1, <2>2, NothingFacts, KeepTraceFacts
  <2>4. Returned(r)'
    BY <2>1, <2>3 DEF Returned, Nothing
  <2> QED
    BY <2>1, <2>2, <2>4 DEF ParserInv
<1>4. CASE UNCHANGED parserVars
  BY <1>4 DEF ParserInv, Returned, parserVars
<1> QED
  BY <1>2, <1>3, <1>4 DEF ParserNext

\* What the parser returns is what parse_read_line makes of the line: the
\* inductive invariant of the theorems below.
THEOREM ParserInvariant == ParserSpec => []ParserInv
<1>1. ParserInit => ParserInv
  BY NothingReturned DEF ParserInit
<1>2. ParserInv /\ [ParserNext]_parserVars => ParserInv'
  BY ParserInvInductive
<1> QED
  BY <1>1, <1>2, PTL DEF ParserSpec

\* What a command that was returned is made of, for all that is said of it.
LEMMA CommandsReturned ==
    ASSUME ParserInv
    PROVE  /\ \A k \in DOMAIN commands : \E from, to \in Nat : from > 1 /\ CommandOK(commands[k], from, to)
           /\ \A k \in DOMAIN commands : commands[k].background \in BOOLEAN
           /\ \A j, k \in DOMAIN commands : j # k => Apart(commands[j], commands[k])
           /\ commands \in Seq(CommandType)
           /\ \A fd \in open : fd > 2
           /\ ~given_up => open = UNION {OwnedBy(commands[k]) : k \in DOMAIN commands}
           /\ last_parsed_command_call_substitution \in {NULL, DANGLING}
           /\ refused \in BOOLEAN /\ given_up \in BOOLEAN
<1>1. PICK r \in Lined : Returned(r)
  BY DEF ParserInv
<1>2. /\ commands = r.commands /\ refused = r.refused /\ given_up = r.given_up /\ open = r.open
      /\ last_parsed_command_call_substitution = r.sub
  BY <1>1 DEF Returned
<1>3. /\ r.commands \in Seq(CommandType) /\ r.refused \in BOOLEAN /\ r.given_up \in BOOLEAN
      /\ r.sub \in {NULL, DANGLING} /\ r.fd \in Nat /\ LineKept(r)
  BY DEF Lined, LineResult
<1>4. \A k \in DOMAIN commands : \E from, to \in Nat : from > 1 /\ CommandOK(commands[k], from, to)
  <2>1. 2 \in Nat /\ 2 > 1
    OBVIOUS
  <2> QED
    BY <1>2, <1>3, <2>1 DEF LineKept
<1>5. \A k \in DOMAIN commands : commands[k].background \in BOOLEAN
  <2>1. ASSUME NEW k \in DOMAIN commands PROVE commands[k] \in CommandType
    BY <1>2, <1>3, LenProperties, ElementOfSeq
  <2> QED
    BY <2>1 DEF CommandType
<1>6. \A fd \in open : fd > 2
  <2>1. \A fd \in 3 .. r.fd : fd > 2
    BY <1>3
  <2> QED
    BY <1>2, <1>3, <2>1 DEF LineKept
<1> QED
  BY <1>2, <1>3, <1>4, <1>5, <1>6 DEF LineKept

(* Types: whatever the lines, what parse_read_line returns are commands    *)
(* with at least one call, whose descriptors and pipes are its own, and the*)
(* static variable is NULL or an address that is gone.                     *)
THEOREM TypeCorrect == ParserSpec => []ParserTypeOK
<1>1. ASSUME ParserInv PROVE ParserTypeOK
  <2>1. Range(line) \subseteq Words \cup redirection_caret_symbols \cup {BACKGROUND_FLAG, COMMAND_SEPARATOR}
    <3>1. line \in Seq(LineTokens)
      BY <1>1 DEF ParserInv
    <3>2. \A k \in DOMAIN line : line[k] \in LineTokens
      BY <3>1, LenProperties, ElementOfSeq
    <3> QED
      BY <3>2 DEF Range, LineTokens, PieceTokens, Symbols
  <2>2. ASSUME NEW k \in DOMAIN commands
        PROVE  /\ commands[k].calls # <<>>
               /\ \A n \in DOMAIN commands[k].calls :
                    LET call == commands[k].calls[n] IN
                    /\ call.name \in Words
                    /\ {call.stdin, call.stdout, call.stderr} \cup call.files \subseteq Nat
                    /\ call.reads \cup call.writes \subseteq DOMAIN commands[k].pipes
    <3> DEFINE c == commands[k]
    <3>1. PICK from, to \in Nat : from > 1 /\ CommandOK(c, from, to)
      BY <1>1, CommandsReturned
    <3> HIDE DEF c
    <3>2. c.calls # <<>> /\ c.calls \in Seq(CallType)
      BY <3>1 DEF CommandOK
    <3>3. ASSUME NEW n \in DOMAIN c.calls
          PROVE  LET call == c.calls[n] IN
                 /\ call.name \in Words
                 /\ {call.stdin, call.stdout, call.stderr} \cup call.files \subseteq Nat
                 /\ call.reads \cup call.writes \subseteq DOMAIN c.pipes
      <4> DEFINE call == c.calls[n]
      <4>1. call \in CallType
        BY <3>2, LenProperties, ElementOfSeq
      <4>2. /\ \A fd \in CallFds(call) : fd \in 0 .. 2 \/ fd \in from + 1 .. to
            /\ call.reads \cup call.writes \subseteq DOMAIN c.pipes
        BY <3>1 DEF CommandOK
      <4> HIDE DEF call
      <4>3. \A fd : fd \in 0 .. 2 \/ fd \in from + 1 .. to => fd \in Nat
        BY <3>1
      <4>4. CallFds(call) \subseteq Nat
        BY <4>2, <4>3
      <4> QED
        BY <4>1, <4>2, <4>4 DEF CallType, CallFds, call
    <3> QED
      BY <3>2, <3>3 DEF c
  <2> QED
    BY <1>1, <2>1, <2>2, CommandsReturned DEF ParserTypeOK, ParserInv
<1> QED
  BY <1>1, ParserInvariant, PTL

(* Whatever the line, every pipe of its commands has exactly one writer,   *)
(* whose output is its write end and which nothing else redirected, and    *)
(* exactly one reader, whose input is its read end or which is given it as *)
(* a file: no pipe dangles and none is shared, however substitutions and   *)
(* pipelines nest (link_pipelines :564-586, parse_command_substitution     *)
(* :469-561).                                                              *)
THEOREM PipesLinkTwoCalls == ParserSpec => [](\A k \in DOMAIN commands : PipesLinked(commands[k]))
<1>1. ASSUME ParserInv PROVE \A k \in DOMAIN commands : PipesLinked(commands[k])
  BY <1>1, CommandsReturned DEF CommandOK
<1> QED
  BY <1>1, ParserInvariant, PTL

(* Whatever the line, unless it is given up nothing that was opened for it *)
(* is lost and nothing that a command needs was closed; and no two calls   *)
(* of its commands share a descriptor that the execution of one closes     *)
(* (parse_command :636-648, parse_command_call :858-866, parse_redirections*)
(* :384-454).                                                              *)
THEOREM WhatIsOpenIsOwned == ParserSpec => []OpenIsOwned
<1>1. ASSUME ParserInv PROVE OpenIsOwned
  <2>1. ASSUME NEW j \in DOMAIN commands, NEW k \in DOMAIN commands,
               NEW m \in DOMAIN commands[j].calls, NEW n \in DOMAIN commands[k].calls,
               commands[j].calls[m] # commands[k].calls[n],
               NEW fd \in CallFds(commands[j].calls[m]) \cap CallFds(commands[k].calls[n])
        PROVE  fd <= 2
    <3>1. CASE j = k
      <4>1. m # n
        BY <2>1, <3>1
      <4>2. PICK from, to \in Nat : from > 1 /\ CommandOK(commands[j], from, to)
        BY <1>1, CommandsReturned
      <4> QED
        BY <2>1, <3>1, <4>1, <4>2 DEF CommandOK
    <3>2. CASE j # k
      <4>1. Apart(commands[j], commands[k])
        BY <1>1, <3>2, CommandsReturned
      <4>2. fd > 2 => fd \in OwnedBy(commands[j]) /\ fd \in OwnedBy(commands[k])
        BY <2>1 DEF OwnedBy
      <4>3. fd \in Nat
        <5>1. PICK from, to \in Nat : from > 1 /\ CommandOK(commands[j], from, to)
          BY <1>1, CommandsReturned
        <5>2. fd \in 0 .. 2 \/ fd \in from + 1 .. to
          BY <2>1, <5>1 DEF CommandOK
        <5> QED
          BY <5>1, <5>2
      <4> QED
        BY <4>1, <4>2, <4>3 DEF Apart
    <3> QED
      BY <3>1, <3>2
  <2> DEFINE all == UNION {{commands[k].calls[n] : n \in DOMAIN commands[k].calls} : k \in DOMAIN commands}
  <2>2. ASSUME NEW c \in all, NEW d \in all, c # d, NEW fd \in CallFds(c) \cap CallFds(d)
        PROVE  fd <= 2
    <3>1. PICK j \in DOMAIN commands : \E m \in DOMAIN commands[j].calls : c = commands[j].calls[m]
      OBVIOUS
    <3>2. PICK m \in DOMAIN commands[j].calls : c = commands[j].calls[m]
      BY <3>1
    <3>3. PICK k \in DOMAIN commands : \E n \in DOMAIN commands[k].calls : d = commands[k].calls[n]
      OBVIOUS
    <3>4. PICK n \in DOMAIN commands[k].calls : d = commands[k].calls[n]
      BY <3>3
    <3> QED
      BY <2>1, <2>2, <3>2, <3>4
  <2>3. \A c, d \in all : c # d => \A fd \in CallFds(c) \cap CallFds(d) : fd <= 2
    BY <2>2
  <2>4. ~given_up => open = UNION {OwnedBy(commands[k]) : k \in DOMAIN commands}
    BY <1>1, CommandsReturned
  <2> QED
    BY <2>3, <2>4 DEF OpenIsOwned
<1> QED
  BY <1>1, ParserInvariant, PTL

(* Whatever the line, a command that is executed is in the background if   *)
(* and only if a flag follows it in the line (split_string_keep_trace,     *)
(* string_utils.c:155; parse_read_line, command.c:910).                    *)
THEOREM FlagsAreFollowed == ParserSpec => []FlagsMarkTheirCommand
<1>1. ASSUME ParserInv PROVE FlagsMarkTheirCommand
  <2> DEFINE split == split_string_keep_trace(line)
  <2>1. line \in Seq(LineTokens)
    BY <1>1 DEF ParserInv
  <2>2. PICK r \in Lined : /\ Returned(r)
                           /\ (commands = <<>> /\ refused = FALSE) \/ AllCounted(r, split)
    BY <1>1 DEF ParserInv
  <2>3. CASE commands = <<>> /\ refused = FALSE
    BY <2>3 DEF FlagsMarkTheirCommand
  <2>4. CASE AllCounted(r, split)
    <3>1. split.flagged = Cardinality(EndedBefore(line, Len(line)))
      BY <2>1, KeepTraceFacts
    <3> HIDE DEF split
    <3>2. commands = r.commands
      BY <2>2 DEF Returned
    <3>3. \A j \in DOMAIN commands : commands[j].background = (j <= split.flagged)
      BY <2>4, <3>2 DEF AllCounted, Counted, IsBackground
    <3>4. ASSUME NEW b \in PieceBounds(line), PiecesBefore(line, b[1]) + 1 \in DOMAIN commands
          PROVE  commands[PiecesBefore(line, b[1]) + 1].background <=> b[2] < Len(line)
      <4>1. PiecesBefore(line, b[1]) + 1 <= Cardinality(EndedBefore(line, Len(line))) <=> b[2] < Len(line)
        BY <2>1, FlagFollows
      <4> DEFINE k == PiecesBefore(line, b[1]) + 1
      <4>2. k <= split.flagged <=> b[2] < Len(line)
        BY <3>1, <4>1
      <4>3. commands[k].background = (k <= split.flagged)
        BY <3>3, <3>4
      <4> HIDE DEF k
      <4>4. commands[k].background <=> b[2] < Len(line)
        BY <4>2, <4>3
      <4> QED
        BY <4>4 DEF k
    <3> QED
      BY <3>4 DEF FlagsMarkTheirCommand
  <2> QED
    BY <2>2, <2>3, <2>4
<1> QED
  BY <1>1, ParserInvariant, PTL

-----------------------------------------------------------------------------
(* The commands are executed by Plumbing, whose lines they are.            *)
Executed == INSTANCE Plumbing WITH
    Lines <- {}, Builtins <- {}, PipeCapacity <- 1, BuiltinOutput <- 0,
    line <- commands, cmd <- 0, call <- 0, pc <- "next", held <- {}, state <- <<>>, fds <- <<>>,
    load <- <<>>, todo <- 0, seen <- {}

\* What Plumbing assumes of each of its lines.
IsExecutable(l) ==
    /\ Len(l) \in Nat /\ DOMAIN l = 1 .. Len(l)
    /\ \A c \in DOMAIN l : Executed!IsCommand(l[c])
    /\ \A c, d \in DOMAIN l : c # d => Executed!Opened(l[c]) \cap Executed!Opened(l[d]) = {}

\* One command, as Plumbing has it.
LEMMA CommandIsExecutable ==
    ASSUME NEW c, NEW from \in Nat, NEW to \in Nat, from > 1, CommandOK(c, from, to), c.background \in BOOLEAN
    PROVE  Executed!IsCommand(c)
<1>1. /\ c.calls \in Seq(CallType) /\ c.calls # <<>> /\ c.pipes \in Seq(Nat \X Nat)
      /\ PipesOK(c.pipes, from, to) /\ Len(c.calls) = Len(c.pipes) + 1
  BY DEF CommandOK, Spans
<1>2. /\ Len(c.calls) \in Nat \ {0} /\ DOMAIN c.calls = 1 .. Len(c.calls)
      /\ Len(c.pipes) \in Nat
  BY <1>1, LenProperties
<1>3. Len(c.calls) = 1 => c.pipes = <<>>
  <2> DEFINE x == Len(c.calls)
             y == Len(c.pipes)
  <2>1. x = y + 1 /\ y \in Nat
    BY <1>1, <1>2
  <2> HIDE DEF x, y
  <2>2. x = 1 => y = 0
    BY <2>1
  <2>3. y = 0 => c.pipes = <<>>
    BY <1>1, EmptySeq DEF y
  <2> QED
    BY <2>2, <2>3 DEF x
<1>4. \A fd \in from + 1 .. to : fd \in Nat \ (0 .. 2)
  OBVIOUS
<1>5. ASSUME NEW n \in DOMAIN c.calls
      PROVE  /\ c.calls[n].reads \cup c.calls[n].writes \subseteq DOMAIN c.pipes
             /\ CallFds(c.calls[n]) \subseteq Nat
  <2>1. \A fd \in CallFds(c.calls[n]) : fd \in 0 .. 2 \/ fd \in from + 1 .. to
    BY DEF CommandOK
  <2>2. \A fd \in 0 .. 2 : fd \in Nat
    OBVIOUS
  <2> QED
    BY <1>4, <2>1, <2>2 DEF CommandOK
<1>6. ASSUME NEW k \in DOMAIN c.pipes PROVE c.pipes[k] \in (Nat \ (0 .. 2)) \X (Nat \ (0 .. 2))
  <2>1. c.pipes[k] \in Nat \X Nat
    BY <1>1, LenProperties, ElementOfSeq
  <2>2. c.pipes[k][1] \in Nat \ (0 .. 2) /\ c.pipes[k][2] \in Nat \ (0 .. 2)
    BY <1>1, <1>4 DEF PipesOK
  <2> QED
    BY <2>1, <2>2
<1>7. \A j, k \in DOMAIN c.pipes :
         /\ c.pipes[j][1] # c.pipes[k][2]
         /\ j # k => c.pipes[j][1] # c.pipes[k][1] /\ c.pipes[j][2] # c.pipes[k][2]
  BY <1>1 DEF PipesOK
<1> QED
  BY <1>2, <1>3, <1>5, <1>6, <1>7 DEF Executed!IsCommand, Executed!CallFds, Executed!Standard, CallFds

(* Whatever the line, the commands that are handed to execute_command are  *)
(* what module Plumbing assumes of them: as many pipes as calls but one,   *)
(* each with two descriptors of its own, used by calls of the same command;*)
(* and no descriptor belongs to two commands (link_pipelines :564-586,     *)
(* parse_command_substitution :469-561, parse_command :594-650).           *)
THEOREM CommandsAreExecutable == ParserSpec => []IsExecutable(commands)
<1>1. ASSUME ParserInv PROVE IsExecutable(commands)
  <2>1. Len(commands) \in Nat /\ DOMAIN commands = 1 .. Len(commands)
    BY <1>1, CommandsReturned, LenProperties
  <2>2. ASSUME NEW k \in DOMAIN commands PROVE Executed!IsCommand(commands[k])
    <3>1. PICK from, to \in Nat : from > 1 /\ CommandOK(commands[k], from, to)
      BY <1>1, CommandsReturned
    <3>2. commands[k].background \in BOOLEAN
      BY <1>1, CommandsReturned
    <3> QED
      BY <3>1, <3>2, CommandIsExecutable
  <2>3. ASSUME NEW j \in DOMAIN commands, NEW k \in DOMAIN commands, j # k
        PROVE  Executed!Opened(commands[j]) \cap Executed!Opened(commands[k]) = {}
    <3>1. Apart(commands[j], commands[k])
      BY <1>1, <2>3, CommandsReturned
    <3>2. ASSUME NEW n \in DOMAIN commands, NEW fd \in Executed!Opened(commands[n])
          PROVE  fd \in OwnedBy(commands[n])
      <4> DEFINE c == commands[n]
      <4>1. PICK from, to \in Nat : from > 1 /\ CommandOK(c, from, to)
        BY <1>1, CommandsReturned
      <4> HIDE DEF c
      <4>2. fd \in PipeEnds(c.pipes) \/ \E m \in DOMAIN c.calls : fd \in CallFds(c.calls[m])
        BY <3>2 DEF Executed!Opened, Executed!PipeEnds, Executed!CallFds, PipeEnds, CallFds, c
      <4>3. fd \notin 0 .. 2
        BY <3>2 DEF Executed!Opened, Executed!Standard
      <4>4. ASSUME NEW m \in DOMAIN c.calls, fd \in CallFds(c.calls[m]) PROVE fd > 2
        <5>1. fd \in from + 1 .. to
          BY <4>1, <4>3, <4>4 DEF CommandOK
        <5> QED
          BY <4>1, <5>1
      <4> QED
        BY <4>2, <4>4 DEF OwnedBy, c
    <3> QED
      BY <3>1, <3>2 DEF Apart
  <2> QED
    BY <2>1, <2>2, <2>3 DEF IsExecutable
<1> QED
  BY <1>1, ParserInvariant, PTL
=============================================================================
