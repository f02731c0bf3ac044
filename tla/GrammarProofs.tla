---------------------------- MODULE GrammarProofs ----------------------------
(***************************************************************************)
(* What the parser makes of a line is what the grammar of project.md says  *)
(* that it means (module Grammar), whatever the line: first which lines it *)
(* accepts, then which calls it links.  The parser reads from left to      *)
(* right and calls itself; Grammar counts parentheses.                     *)
(***************************************************************************)
EXTENDS ParserProofs

-----------------------------------------------------------------------------
(* How parentheses are counted.                                            *)

Places(t, x, k) == {j \in 1 .. k : t[j] = x}

\* How many substitutions are open after the first k tokens.
Depth(t, k) == Cardinality(Places(t, "<(", k)) - Cardinality(Places(t, ")", k))

\* Module Grammar counts as this one does.
LEMMA SameCardinality ==
    \A S : Reference!Cardinality(S) = Cardinality(S)
BY Zenon DEF Reference!Cardinality, Cardinality

\* A token more is counted if it is the one that is counted.
LEMMA PlacesStep ==
    ASSUME NEW t, NEW x, NEW k \in Nat
    PROVE  /\ IsFiniteSet(Places(t, x, k)) /\ Cardinality(Places(t, x, k)) \in Nat
           /\ Cardinality(Places(t, x, k + 1)) = Cardinality(Places(t, x, k)) + IF t[k + 1] = x THEN 1 ELSE 0
<1>1. IsFiniteSet(1 .. k) /\ Places(t, x, k) \in SUBSET (1 .. k)
  BY FS_Interval DEF Places
<1>2. IsFiniteSet(Places(t, x, k)) /\ Cardinality(Places(t, x, k)) \in Nat
  BY <1>1, FS_Subset, FS_CardinalityType
<1>3. CASE t[k + 1] = x
  <2>1. Places(t, x, k + 1) = Places(t, x, k) \cup {k + 1} /\ k + 1 \notin Places(t, x, k)
    BY <1>3 DEF Places
  <2>2. Cardinality(Places(t, x, k + 1)) = Cardinality(Places(t, x, k)) + 1
    BY <1>2, <2>1, FS_AddElement
  <2> QED
    BY <1>2, <1>3, <2>2
<1>4. CASE t[k + 1] # x
  <2>1. Places(t, x, k + 1) = Places(t, x, k)
    BY <1>4 DEF Places
  <2> QED
    BY <1>2, <1>4, <2>1
<1> QED
  BY <1>3, <1>4

\* The depth after one token more.
LEMMA DepthStep ==
    ASSUME NEW t, NEW k \in Nat
    PROVE  /\ Depth(t, k) \in Int
           /\ Depth(t, k + 1) = Depth(t, k) + CASE t[k + 1] = "<(" -> 1 [] t[k + 1] = ")" -> -1 [] OTHER -> 0
<1> DEFINE o == Cardinality(Places(t, "<(", k))
           c == Cardinality(Places(t, ")", k))
           o1 == Cardinality(Places(t, "<(", k + 1))
           c1 == Cardinality(Places(t, ")", k + 1))
<1>1. /\ o \in Nat /\ c \in Nat
      /\ o1 = o + IF t[k + 1] = "<(" THEN 1 ELSE 0
      /\ c1 = c + IF t[k + 1] = ")" THEN 1 ELSE 0
  BY PlacesStep
<1>2. Depth(t, k) = o - c /\ Depth(t, k + 1) = o1 - c1
  BY DEF Depth
<1> HIDE DEF o, c, o1, c1
<1>3. CASE t[k + 1] = "<("
  BY <1>1, <1>2, <1>3
<1>4. CASE t[k + 1] = ")"
  BY <1>1, <1>2, <1>4
<1>5. CASE t[k + 1] # "<(" /\ t[k + 1] # ")"
  BY <1>1, <1>2, <1>5
<1> QED
  BY <1>3, <1>4, <1>5

\* The level of a token, from the depth there.
LEMMA LevelIsDepth ==
    ASSUME NEW t, NEW k \in Nat, k > 0
    PROVE  Reference!Level(t, k) = IF t[k] = "<(" THEN Depth(t, k) - 1 ELSE Depth(t, k)
<1> DEFINE j == k - 1
           o == Cardinality(Places(t, "<(", j))
           o1 == Cardinality(Places(t, "<(", k))
           c1 == Cardinality(Places(t, ")", k))
<1>1. j \in Nat /\ j + 1 = k
  OBVIOUS
<1>2. Reference!Level(t, k) = o - c1 /\ Depth(t, k) = o1 - c1
  <2>1. o1 = Cardinality(Places(t, "<(", k)) /\ c1 = Cardinality(Places(t, ")", k))
    OBVIOUS
  <2>2. Reference!Level(t, k) = o - c1
    BY SameCardinality DEF Reference!Level, Places
  <2> QED
    BY <2>1, <2>2, Zenon DEF Depth
<1>3. o \in Nat /\ c1 \in Nat /\ o1 = o + IF t[k] = "<(" THEN 1 ELSE 0
  <2> HIDE DEF j
  <2>1. \A x : /\ Cardinality(Places(t, x, j)) \in Nat /\ Cardinality(Places(t, x, j + 1)) \in Nat
               /\ Cardinality(Places(t, x, j + 1)) = Cardinality(Places(t, x, j)) + IF t[j + 1] = x THEN 1 ELSE 0
    BY <1>1, PlacesStep
  <2> QED
    BY <1>1, <2>1
<1> HIDE DEF j, o, o1, c1
<1> QED
  BY <1>2, <1>3

\* Those among the tokens from i to k.
Between(t, x, i, k) == {j \in i .. k : t[j] = x}

\* They are what is counted up to k less what was counted before i.
LEMMA BetweenCount ==
    ASSUME NEW t, NEW x, NEW i \in Nat, NEW k \in Nat, i <= k
    PROVE  Cardinality(Between(t, x, i + 1, k)) = Cardinality(Places(t, x, k)) - Cardinality(Places(t, x, i))
<1> DEFINE A == Places(t, x, i)
           B == Between(t, x, i + 1, k)
           C == Places(t, x, k)
<1>1. A \cup B = C /\ A \cap B = {} /\ B \in SUBSET C
  BY DEF Places, Between
<1>2. IsFiniteSet(A) /\ IsFiniteSet(C) /\ Cardinality(A) \in Nat
  BY PlacesStep
<1> HIDE DEF A, B, C
<1>3. IsFiniteSet(B) /\ Cardinality(B) \in Nat
  BY <1>1, <1>2, FS_Subset, FS_CardinalityType
<1>4. Cardinality(C) = Cardinality(A) + Cardinality(B) - Cardinality(A \cap B)
  BY <1>1, <1>2, <1>3, FS_Union
<1>5. Cardinality(A \cap B) = 0
  BY <1>1, FS_EmptySet
<1>6. Cardinality(B) = Cardinality(C) - Cardinality(A)
  BY <1>2, <1>3, <1>4, <1>5
<1> QED
  BY <1>6 DEF A, B, C

\* How many more parentheses were closed than opened after token i.
Surplus(t, i, k) == Depth(t, i) - Depth(t, k)

\* What ClosingPosition looks for is the first token that closes one more.
LEMMA ClosingIsFirst ==
    ASSUME NEW t, NEW i \in Nat, NEW hi \in Nat, NEW end, end = ClosingPosition(t, i + 1, hi)
    PROVE  IF end = 0
           THEN \A k \in i + 1 .. hi : t[k] = ")" => Surplus(t, i, k) # 1
           ELSE /\ end \in i + 1 .. hi /\ t[end] = ")" /\ Surplus(t, i, end) = 1
                /\ \A k \in i + 1 .. end - 1 : t[k] = ")" => Surplus(t, i, k) # 1
<1> DEFINE Starts(k) == Cardinality({j \in i + 1 .. k : t[j] = "<("})
           Ends(k) == Cardinality({j \in i + 1 .. k : t[j] = ")"})
           found == {k \in i + 1 .. hi : t[k] = ")" /\ Ends(k) = Starts(k) + 1}
<1>1. end = IF found = {} THEN 0 ELSE CHOOSE k \in found : \A j \in found : k <= j
  BY DEF ClosingPosition
<1>2. ASSUME NEW k \in Nat, i <= k
      PROVE  (Ends(k) = Starts(k) + 1) <=> (Surplus(t, i, k) = 1)
  <2> DEFINE oi == Cardinality(Places(t, "<(", i))
             ci == Cardinality(Places(t, ")", i))
             ok == Cardinality(Places(t, "<(", k))
             ck == Cardinality(Places(t, ")", k))
             s == Starts(k)
             e == Ends(k)
  <2>1. s = ok - oi /\ e = ck - ci
    BY <1>2, BetweenCount DEF Between
  <2>2. oi \in Nat /\ ci \in Nat /\ ok \in Nat /\ ck \in Nat
    BY PlacesStep
  <2>3. Surplus(t, i, k) = (oi - ci) - (ok - ck)
    BY DEF Surplus, Depth
  <2> HIDE DEF oi, ci, ok, ck, s, e
  <2>4. (e = s + 1) <=> ((oi - ci) - (ok - ck) = 1)
    BY <2>1, <2>2
  <2> QED
    BY <2>3, <2>4 DEF s, e
<1> HIDE DEF Starts, Ends
<1>3. \A k \in found : k \in i + 1 .. hi /\ k \in Nat /\ i <= k /\ t[k] = ")" /\ Ends(k) = Starts(k) + 1
  OBVIOUS
<1>4. \A k \in i + 1 .. hi : k \in Nat /\ i <= k /\ (k \notin found => t[k] # ")" \/ Ends(k) # Starts(k) + 1)
  OBVIOUS
<1> HIDE DEF found
<1>5. CASE found = {}
  <2>1. end = 0 /\ \A k \in i + 1 .. hi : k \notin found
    BY <1>1, <1>5
  <2>2. \A k \in i + 1 .. hi : t[k] = ")" => Surplus(t, i, k) # 1
    BY <1>2, <1>4, <2>1
  <2> QED
    BY <2>1, <2>2
<1>6. CASE found # {}
  <2>1. found \subseteq Nat
    BY <1>3
  <2>2. \E k \in found : \A j \in found : k <= j
    BY <1>6, <2>1, LeastElement
  <2>3. end \in found /\ \A j \in found : end <= j
    BY <1>1, <1>6, <2>2
  <2>4. end \in i + 1 .. hi /\ t[end] = ")" /\ Surplus(t, i, end) = 1 /\ end # 0
    <3>1. end \in i + 1 .. hi /\ end \in Nat /\ i <= end /\ t[end] = ")" /\ Ends(end) = Starts(end) + 1
      BY <1>3, <2>3
    <3>2. Surplus(t, i, end) = 1
      BY <1>2, <3>1
    <3> QED
      BY <3>1, <3>2
  <2>5. ASSUME NEW k \in i + 1 .. end - 1, t[k] = ")" PROVE Surplus(t, i, k) # 1
    <3>1. k \in i + 1 .. hi /\ ~(end <= k)
      BY <2>4
    <3>2. k \notin found
      BY <2>3, <3>1
    <3> QED
      BY <1>2, <1>4, <2>5, <3>1, <3>2
  <2> QED
    BY <2>4, <2>5
<1> QED
  BY <1>5, <1>6

\* Until then no more are closed than opened.
LEMMA NoSurplus ==
    ASSUME NEW t, NEW i \in Nat, NEW end \in Nat, i < end,
           \A k \in i + 1 .. end - 1 : t[k] = ")" => Surplus(t, i, k) # 1
    PROVE  \A k \in i .. end - 1 : Surplus(t, i, k) <= 0
<1> DEFINE Good == {m \in Nat : i + m < end => Surplus(t, i, i + m) <= 0}
<1>1. 0 \in Good
  BY DepthStep DEF Surplus
<1>2. ASSUME NEW m \in Nat, m \in Good PROVE m + 1 \in Good
  <2> SUFFICES ASSUME i + (m + 1) < end PROVE Surplus(t, i, i + (m + 1)) <= 0
    OBVIOUS
  <2> DEFINE k == i + m
             d == Depth(t, i)
             e == Depth(t, k)
             e1 == Depth(t, k + 1)
  <2>1. k \in Nat /\ k < end /\ k + 1 = i + (m + 1) /\ k + 1 \in i + 1 .. end - 1
    OBVIOUS
  <2>2. /\ d \in Int /\ e \in Int
        /\ e1 = e + CASE t[k + 1] = "<(" -> 1 [] t[k + 1] = ")" -> -1 [] OTHER -> 0
    BY <2>1, DepthStep
  <2>3. d - e <= 0
    BY <1>2, <2>1 DEF Surplus
  <2>4. t[k + 1] = ")" => d - e1 # 1
    BY <2>1 DEF Surplus
  <2> HIDE DEF k, d, e, e1
  <2>5. d - e1 <= 0
    <3>1. CASE t[k + 1] = ")"
      BY <2>2, <2>3, <2>4, <3>1
    <3>2. CASE t[k + 1] = "<("
      BY <2>2, <2>3, <3>2
    <3>3. CASE t[k + 1] # ")" /\ t[k + 1] # "<("
      BY <2>2, <2>3, <3>3
    <3> QED
      BY <3>1, <3>2, <3>3
  <2> QED
    BY <2>1, <2>5 DEF Surplus, d, e1
<1>3. Nat \subseteq Good
  <2> HIDE DEF Good
  <2> QED
    BY <1>1, <1>2, Induction
<1>4. ASSUME NEW k \in i .. end - 1 PROVE Surplus(t, i, k) <= 0
  <2>1. k - i \in Nat /\ i + (k - i) = k /\ k < end
    OBVIOUS
  <2>2. k - i \in Good
    BY <1>3, <2>1
  <2> QED
    BY <2>1, <2>2
<1> QED
  BY <1>4

(* The parenthesis that the parser finds is the one that closes the        *)
(* substitution, and what is between is deeper.                            *)
LEMMA Enclosed ==
    ASSUME NEW t, NEW i \in Nat, i > 0, t[i] = "<(", NEW hi \in Nat, hi <= Len(t), Len(t) \in Nat,
           NEW end, end = ClosingPosition(t, i + 1, hi), end # 0
    PROVE  /\ end \in i + 1 .. hi /\ t[end] = ")"
           /\ Reference!Level(t, end) = Reference!Level(t, i)
           /\ \A k \in i + 1 .. end - 1 : Reference!Level(t, k) > Reference!Level(t, i)
           /\ Reference!Closing(t, i) = end
<1> DEFINE last == Len(t)
<1> HIDE DEF last
<1>1. /\ end \in i + 1 .. hi /\ t[end] = ")" /\ Surplus(t, i, end) = 1 /\ end \in Nat /\ i < end /\ i <= end
      /\ \A k \in i + 1 .. end - 1 : t[k] = ")" => Surplus(t, i, k) # 1
  BY ClosingIsFirst
<1>2. \A k \in i .. end - 1 : Surplus(t, i, k) <= 0
  BY <1>1, NoSurplus
<1> DEFINE Level(k) == Reference!Level(t, k)
           d == Depth(t, i)
<1>3. d \in Int /\ Level(i) = d - 1
  BY LevelIsDepth, DepthStep
<1>4. Level(end) = d - 1
  <2>1. Depth(t, end) \in Int /\ d - Depth(t, end) = 1
    BY <1>1, DepthStep DEF Surplus
  <2>2. Level(end) = Depth(t, end)
    BY <1>1, LevelIsDepth
  <2> QED
    BY <1>3, <2>1, <2>2
<1>5. ASSUME NEW k \in i + 1 .. end - 1 PROVE Level(k) > d - 1 /\ Level(k) \in Int
  <2> DEFINE j == k - 1
             e == Depth(t, j)
             e1 == Depth(t, k)
  <2>1. k \in Nat /\ k > 0 /\ j \in Nat /\ j + 1 = k /\ j \in i .. end - 1 /\ k \in i .. end - 1
    BY <1>1
  <2>2. e \in Int /\ e1 \in Int
        /\ e1 = e + CASE t[k] = "<(" -> 1 [] t[k] = ")" -> -1 [] OTHER -> 0
    BY <2>1, DepthStep
  <2>3. d - e <= 0 /\ d - e1 <= 0
    BY <1>2, <2>1 DEF Surplus
  <2>4. Level(k) = IF t[k] = "<(" THEN e1 - 1 ELSE e1
    BY <2>1, LevelIsDepth
  <2> HIDE DEF e, e1, d, Level
  <2>5. CASE t[k] = "<("
    BY <1>3, <2>2, <2>3, <2>4, <2>5
  <2>6. CASE t[k] # "<("
    BY <1>3, <2>2, <2>3, <2>4, <2>6
  <2> QED
    BY <2>5, <2>6
<1>6. Reference!Closing(t, i) = end
  <2> DEFINE Closes(k) == /\ t[k] = ")" /\ Level(k) = Level(i)
                          /\ \A j \in i + 1 .. k - 1 : Level(j) > Level(i)
  <2>1. Reference!Closing(t, i) = CHOOSE k \in i + 1 .. last : Closes(k)
    BY DEF Reference!Closing, last
  <2> HIDE DEF Level, d
  <2>2. end \in i + 1 .. last /\ Closes(end)
    BY <1>1, <1>3, <1>4, <1>5 DEF last
  <2>3. ASSUME NEW k \in i + 1 .. last, Closes(k) PROVE k = end
    <3>1. CASE k < end
      <4>1. k \in i + 1 .. end - 1
        BY <1>1, <3>1, <2>2
      <4> QED
        BY <1>3, <1>5, <2>3, <4>1
    <3>2. CASE k > end
      <4>1. end \in i + 1 .. k - 1
        BY <1>1, <3>2, <2>2
      <4> QED
        BY <1>3, <1>4, <2>3, <4>1
    <3> QED
      BY <1>1, <2>2, <3>1, <3>2 DEF last
  <2> HIDE DEF Closes
  <2> QED
    BY <2>1, <2>2, <2>3
<1> QED
  BY <1>1, <1>3, <1>4, <1>5, <1>6

-----------------------------------------------------------------------------
(* What is known of the tokens that a call was read from.                  *)

\* Symbols but ")" are followed by a word.
Followed(t, lo, hi) == \A k \in lo .. hi : t[k] \in Symbols \ {")"} => k < hi /\ t[k + 1] \notin Symbols

\* Nothing is less deep than where a call starts, to which the last token belongs.
Inside(t, lo, hi) ==
    /\ Reference!Level(t, hi) = Reference!Level(t, lo)
    /\ \A k \in lo .. hi : Reference!Level(t, k) >= Reference!Level(t, lo)

\* No other call starts there that is not deeper.
Alone(t, lo, hi) == \A k \in lo + 1 .. hi : Reference!IsStart(t, k) => Reference!Level(t, k) > Reference!Level(t, lo)

(* What the loop has read of a call when it comes to token i.              *)
Scanned(t, lo, i) ==
    lo < i => /\ t[lo] \notin Symbols
              /\ Inside(t, lo, i - 1) /\ Alone(t, lo, i - 1) /\ Followed(t, lo, i - 1)

\* What it has read when all calls of a pipeline were parsed.
Nested(t, lo, hi) == t[lo] \notin Symbols /\ Inside(t, lo, hi) /\ Followed(t, lo, hi)

\* Levels change at parentheses only.
LEMMA SameLevel ==
    ASSUME NEW t, NEW k \in Nat, k > 0, t[k] # "<(", t[k + 1] # ")"
    PROVE  Reference!Level(t, k + 1) = Reference!Level(t, k)
<1> DEFINE d == Depth(t, k)
           d1 == Depth(t, k + 1)
           next == k + 1
<1>1. /\ d \in Int
      /\ d1 = d + CASE t[next] = "<(" -> 1 [] t[next] = ")" -> -1 [] OTHER -> 0
  BY DepthStep
<1>2. /\ Reference!Level(t, k) = d
      /\ Reference!Level(t, next) = IF t[next] = "<(" THEN d1 - 1 ELSE d1
  <2>1. next \in Nat /\ next > 0 /\ d1 = Depth(t, next)
    OBVIOUS
  <2> HIDE DEF d1, next
  <2> QED
    BY <2>1, LevelIsDepth
<1>3. t[next] # ")"
  OBVIOUS
<1> HIDE DEF d, d1, next
<1>4. CASE t[next] = "<("
  BY <1>1, <1>2, <1>4 DEF next
<1>5. CASE t[next] # "<("
  BY <1>1, <1>2, <1>3, <1>5 DEF next
<1> QED
  BY <1>4, <1>5

\* A level is a number.
LEMMA LevelIsInt ==
    ASSUME NEW t, NEW k \in Nat, k > 0
    PROVE  Reference!Level(t, k) \in Int
BY LevelIsDepth, DepthStep

\* A token that is no ")" belongs to the call that is being read.
LEMMA NextIsInside ==
    ASSUME NEW t, NEW lo \in Nat, NEW i \in Nat, 0 < lo, lo < i, Scanned(t, lo, i), t[i] # ")"
    PROVE  Inside(t, lo, i) /\ Alone(t, lo, i) /\ ~Reference!IsStart(t, i)
<1> DEFINE j == i - 1
<1>1. j \in Nat /\ j > 0 /\ j + 1 = i /\ lo <= j /\ j \in lo .. j
  OBVIOUS
<1>2. Inside(t, lo, j) /\ Alone(t, lo, j) /\ Followed(t, lo, j)
  BY DEF Scanned
<1>3. t[j] \notin Symbols \ {")"}
  <2> HIDE DEF j
  <2> QED
    BY <1>1, <1>2 DEF Followed
<1>4. t[j] # "<(" /\ t[j] # "|"
  BY <1>3 DEF Symbols, redirection_caret_symbols
<1>5. ~Reference!IsStart(t, i)
  BY <1>1, <1>4 DEF Reference!IsStart, Reference!LinkSymbols
<1> HIDE DEF j
<1>6. Reference!Level(t, i) = Reference!Level(t, j)
  BY <1>1, <1>4, SameLevel
<1>7. \A k \in lo .. i : k = i \/ k \in lo .. j
  BY <1>1
<1>8. Reference!Level(t, lo) \in Int
  BY LevelIsInt
<1>9. Inside(t, lo, i)
  BY <1>2, <1>6, <1>7, <1>8 DEF Inside
<1>10. \A k \in lo + 1 .. i : k = i \/ k \in lo + 1 .. j
  BY <1>1
<1> QED
  BY <1>2, <1>5, <1>9, <1>10 DEF Alone

\* A word more.
LEMMA WordScanned ==
    ASSUME NEW t, NEW lo \in Nat, NEW i \in Nat, 0 < lo, lo <= i, Scanned(t, lo, i), t[i] \notin Symbols
    PROVE  Scanned(t, lo, i + 1)
<1>1. t[i] # ")" /\ (i + 1) - 1 = i /\ Reference!Level(t, lo) \in Int
  BY LevelIsInt DEF Symbols, redirection_caret_symbols
<1>2. CASE lo = i
  <2>1. Inside(t, lo, i) /\ Alone(t, lo, i) /\ Followed(t, lo, i)
    BY <1>1, <1>2 DEF Inside, Alone, Followed
  <2> QED
    BY <1>1, <1>2, <2>1 DEF Scanned
<1>3. CASE lo < i
  <2>1. Inside(t, lo, i) /\ Alone(t, lo, i)
    BY <1>1, <1>3, NextIsInside
  <2>2. t[lo] \notin Symbols /\ Followed(t, lo, i - 1)
    BY <1>3 DEF Scanned
  <2>3. ASSUME NEW k \in lo .. i, t[k] \in Symbols \ {")"} PROVE k < i /\ t[k + 1] \notin Symbols
    <3>1. k \in lo .. i - 1
      BY <2>3
    <3> QED
      BY <2>2, <2>3, <3>1 DEF Followed
  <2>4. Followed(t, lo, i)
    BY <2>3 DEF Followed
  <2> QED
    BY <1>1, <2>1, <2>2, <2>4 DEF Scanned
<1> QED
  BY <1>2, <1>3

\* A redirection more, with what it names.
LEMMA RedirectionScanned ==
    ASSUME NEW t, NEW lo \in Nat, NEW i \in Nat, 0 < lo, lo < i, Scanned(t, lo, i),
           t[i] \in {"<", ">", "2>"}, t[i + 1] \notin Symbols
    PROVE  Scanned(t, lo, i + 2)
<1> DEFINE j == i + 1
<1>1. /\ j \in Nat /\ i > 0 /\ (i + 2) - 1 = j /\ Reference!Level(t, lo) \in Int /\ lo < i + 2
      /\ t[i] # ")" /\ t[i] # "<(" /\ t[i] # "|" /\ t[j] # ")" /\ t[j] \notin Symbols
      /\ j - 1 = i /\ j # 1
  BY LevelIsInt DEF Symbols, redirection_caret_symbols
<1>2. Inside(t, lo, i) /\ Alone(t, lo, i) /\ t[lo] \notin Symbols /\ Followed(t, lo, i - 1)
  BY <1>1, NextIsInside DEF Scanned
<1>3. Reference!Level(t, j) = Reference!Level(t, i) /\ ~Reference!IsStart(t, j)
  <2>1. ~Reference!IsStart(t, j)
    <3> HIDE DEF j
    <3> QED
      BY <1>1 DEF Reference!IsStart, Reference!LinkSymbols
  <2> QED
    BY <1>1, <2>1, SameLevel
<1>4. /\ \A k \in lo .. j : k = j \/ k \in lo .. i
      /\ \A k \in lo + 1 .. j : k = j \/ k \in lo + 1 .. i
      /\ \A k \in lo .. j : k = j \/ k = i \/ k \in lo .. i - 1
      /\ \A k \in lo .. i - 1 : k < j
      /\ i < j /\ i + 1 = j
  OBVIOUS
<1> HIDE DEF j
<1>5. Inside(t, lo, j)
  BY <1>1, <1>2, <1>3, <1>4 DEF Inside
<1>6. Alone(t, lo, j)
  BY <1>2, <1>3, <1>4 DEF Alone
<1>7. Followed(t, lo, j)
  BY <1>1, <1>2, <1>4 DEF Followed
<1> QED
  BY <1>1, <1>2, <1>5, <1>6, <1>7 DEF Scanned

\* A substitution more, with what is between its parentheses.
LEMMA SubstitutionScanned ==
    ASSUME NEW t, NEW lo \in Nat, NEW i \in Nat, 0 < lo, lo < i, Scanned(t, lo, i),
           t[i] = "<(", t[i + 1] \notin Symbols, NEW hi \in Nat, hi <= Len(t), Len(t) \in Nat,
           NEW end, end = ClosingPosition(t, i + 1, hi), end # 0, Followed(t, i + 1, end - 1)
    PROVE  Scanned(t, lo, end + 1)
<1> DEFINE Level(k) == Reference!Level(t, k)
<1>1. /\ end \in i + 1 .. hi /\ t[end] = ")" /\ Level(end) = Level(i)
      /\ \A k \in i + 1 .. end - 1 : Level(k) > Level(i)
  BY Enclosed
<1>2. Inside(t, lo, i) /\ Alone(t, lo, i) /\ t[lo] \notin Symbols /\ Followed(t, lo, i - 1)
  <2>1. t[i] # ")"
    OBVIOUS
  <2> QED
    BY <2>1, NextIsInside DEF Scanned
<1>3. end \in Nat /\ (end + 1) - 1 = end /\ lo < end + 1 /\ i < end /\ end # 1
  BY <1>1
<1>4. Level(lo) \in Int /\ Level(i) = Level(lo) /\ \A k \in i + 1 .. end - 1 : Level(k) > Level(lo) /\ Level(k) \in Int
  <2>1. \A k \in i + 1 .. end - 1 : k \in Nat /\ k > 0
    BY <1>3
  <2> QED
    BY <1>1, <1>2, <2>1, LevelIsInt DEF Inside
<1>5. ~Reference!IsStart(t, end)
  <2> DEFINE j == end - 1
  <2>1. t[j] \notin Symbols \ {")"}
    <3>1. CASE end = i + 1
      <4>1. t[end] \notin Symbols
        BY <3>1
      <4> QED
        BY <1>1, <4>1 DEF Symbols, redirection_caret_symbols
    <3>2. CASE end # i + 1
      <4>1. j \in i + 1 .. j /\ ~(j < j)
        BY <1>1, <3>2
      <4>2. Followed(t, i + 1, j)
        OBVIOUS
      <4> HIDE DEF j
      <4> QED
        BY <4>1, <4>2 DEF Followed
    <3> QED
      BY <3>1, <3>2
  <2>2. t[j] # "<(" /\ t[j] # "|"
    BY <2>1 DEF Symbols, redirection_caret_symbols
  <2>3. end - 1 = j
    OBVIOUS
  <2> HIDE DEF j
  <2> QED
    BY <1>3, <2>2, <2>3 DEF Reference!IsStart, Reference!LinkSymbols
<1>6. /\ \A k \in lo .. end : k = end \/ k \in lo .. i \/ k \in i + 1 .. end - 1
      /\ \A k \in lo + 1 .. end : k = end \/ k \in lo + 1 .. i \/ k \in i + 1 .. end - 1
      /\ \A k \in lo .. end : k = end \/ k = i \/ k \in lo .. i - 1 \/ k \in i + 1 .. end - 1
      /\ \A k \in lo .. i - 1 : k < end
      /\ \A k \in i + 1 .. end - 1 : k < end
  BY <1>3
<1> HIDE DEF Level
<1>7. Inside(t, lo, end)
  <2>1. \A k \in lo .. i : Level(k) >= Level(lo)
    BY <1>2 DEF Inside, Level
  <2>2. \A k \in lo .. end : Level(k) >= Level(lo)
    BY <1>1, <1>4, <1>6, <2>1
  <2> QED
    BY <1>1, <1>4, <2>2 DEF Inside, Level
<1>8. Alone(t, lo, end)
  <2>1. \A k \in lo + 1 .. i : Reference!IsStart(t, k) => Level(k) > Level(lo)
    BY <1>2 DEF Alone, Level
  <2>2. \A k \in lo + 1 .. end : Reference!IsStart(t, k) => Level(k) > Level(lo)
    BY <1>4, <1>5, <1>6, <2>1
  <2> QED
    BY <2>2 DEF Alone, Level
<1>9. Followed(t, lo, end)
  <2>1. \A k \in lo .. i - 1 : t[k] \in Symbols \ {")"} => t[k + 1] \notin Symbols
    BY <1>2 DEF Followed
  <2>2. \A k \in i + 1 .. end - 1 : t[k] \in Symbols \ {")"} => t[k + 1] \notin Symbols
    BY DEF Followed
  <2>3. t[end] \notin Symbols \ {")"}
    BY <1>1
  <2>4. ASSUME NEW k \in lo .. end, t[k] \in Symbols \ {")"} PROVE k < end /\ t[k + 1] \notin Symbols
    BY <1>3, <1>6, <2>1, <2>2, <2>3, <2>4
  <2> QED
    BY <2>4 DEF Followed
<1> QED
  BY <1>2, <1>3, <1>7, <1>8, <1>9 DEF Scanned

\* A call that was read to its end.
LEMMA EndScanned ==
    ASSUME NEW t, NEW lo \in Nat, NEW hi \in Nat, lo <= hi, NEW i, i = hi + 1, Scanned(t, lo, i)
    PROVE  Nested(t, lo, hi)
<1>1. lo < i /\ i - 1 = hi
  OBVIOUS
<1> QED
  BY <1>1 DEF Scanned, Nested

\* A call, and those after the "|" that ends it.
LEMMA PipeScanned ==
    ASSUME NEW t, NEW lo \in Nat, NEW i \in Nat, NEW hi \in Nat, 0 < lo, lo < i, i < hi, Scanned(t, lo, i),
           t[i] = "|", t[i + 1] \notin Symbols, Nested(t, i + 1, hi)
    PROVE  Nested(t, lo, hi)
<1> DEFINE j == i + 1
           Level(k) == Reference!Level(t, k)
<1>1. t[i] # ")" /\ t[i] # "<(" /\ t[j] # ")"
  BY DEF Symbols, redirection_caret_symbols
<1>2. Inside(t, lo, i) /\ t[lo] \notin Symbols /\ Followed(t, lo, i - 1)
  BY <1>1, NextIsInside DEF Scanned
<1>3. Level(j) = Level(i)
  BY <1>1, SameLevel
<1>4. Inside(t, j, hi) /\ Followed(t, j, hi)
  BY DEF Nested
<1>5. /\ \A k \in lo .. hi : k \in lo .. i - 1 \/ k = i \/ k \in j .. hi
      /\ \A k \in lo .. hi : k \in lo .. i \/ k \in j .. hi
      /\ \A k \in lo .. i - 1 : k < hi
      /\ i + 1 = j
  OBVIOUS
<1> HIDE DEF j, Level
<1>6. Inside(t, lo, hi)
  BY <1>2, <1>3, <1>4, <1>5 DEF Inside, Level
<1>7. Followed(t, lo, hi)
  BY <1>2, <1>4, <1>5 DEF Followed, j
<1> QED
  BY <1>2, <1>6, <1>7 DEF Nested

(* What the loop with n tokens left has read when it is done.              *)
LoopReads(g, n) ==
    \A a \in Frame, h \in Context :
        /\ Ready(a, h) /\ a.hi + 1 - a.i <= n
        /\ Scanned(a.t, a.lo, a.i)
        /\ g[a].ok
        => Nested(a.t, a.lo, a.hi)

\* parse_command_call, if its loop reads what it should.
LEMMA CommandCallReads ==
    ASSUME NEW g, NEW n \in Nat, LoopWires(g, n), LoopReads(g, n),
           NEW t \in TokenSeq, NEW p, NEW h \in Context, NEW inside \in BOOLEAN, NEW pipeline \in BOOLEAN,
           StartsAt(p, h, inside),
           NEW lo \in Nat, NEW hi \in Nat, Fits(t, lo, hi, n),
           parse_command_call(g, t, p, lo, hi, inside, pipeline).call # NULL
    PROVE  lo <= hi /\ Nested(t, lo, hi)
<1>1. ~(hi < lo)
  BY DEF parse_command_call
<1> DEFINE first == Success(p, NewBuilder)
           a == [t |-> t, r |-> first, lo |-> lo, i |-> lo, hi |-> hi, inside_substitution |-> inside]
           r == g[a]
<1>2. first \in Result /\ first.ok /\ first.p = p /\ Going(first, h) /\ FilesOnly(first)
  BY StartIsReady
<1>3. parse_command_call(g, t, p, lo, hi, inside, pipeline) = EndOfCall(r, lo, t[lo], inside, pipeline)
  BY <1>1 DEF parse_command_call
<1> HIDE DEF first
<1>4. a \in Frame
  BY <1>2 DEF Frame, Result, TokenSeq, Symbols
<1>5. Ready(a, h) /\ a.r.ok /\ a.hi + 1 - a.i <= n /\ a.t = t /\ a.lo = lo /\ a.hi = hi /\ a.i = lo
  BY <1>1, <1>2 DEF Ready, StartsAt, Fits
<1>6. Scanned(a.t, a.lo, a.i)
  BY <1>5 DEF Scanned
<1> HIDE DEF a, r
<1>7. r.ok
  BY <1>3 DEF EndOfCall
<1>8. Nested(a.t, a.lo, a.hi)
  BY <1>4, <1>5, <1>6, <1>7 DEF LoopReads, r
<1> QED
  BY <1>1, <1>5, <1>8

\* parse_command_substitution, if the loop it calls reads what it should.
LEMMA CommandSubstitutionReads ==
    ASSUME NEW g, NEW n \in Nat, LoopWires(g, n), LoopReads(g, n),
           NEW t \in TokenSeq, NEW s, NEW h \in Context, Going(s, h), FilesOnly(s),
           NEW i \in Nat, NEW end \in Nat, EndFits(t, i, end, n),
           NEW r, r = parse_command_substitution(g, t, s.p, s.b, i, end), r.ok
    PROVE  end # 0 /\ Nested(t, i, end - 1)
<1> DEFINE p == [OpenPipe(s.p) EXCEPT !.sub = NULL]
           c == parse_command_call(g, t, p, i, end - 1, TRUE, FALSE)
<1>1. end # 0
  BY DEF parse_command_substitution, Error
<1>2. r = SubstitutionLinked(c, s)
  BY <1>1 DEF parse_command_substitution, SubstitutionLinked
<1>3. StartsAt(p, Inner(s, h), TRUE)
  BY SubstitutionStarts
<1> DEFINE last == end - 1
           inner == Inner(s, h)
           Call(yes, no) == parse_command_call(g, t, p, i, last, yes, no)
<1>4. last \in Nat /\ inner \in Context /\ Fits(t, i, last, n)
  BY <1>1, InnerFacts DEF EndFits
<1>5. c.call # NULL
  <2> HIDE DEF c
  <2> QED
    BY <1>2 DEF SubstitutionLinked, LinkSubstitution, Error
<1> HIDE DEF p, last, inner
<1>6. \A yes, no \in BOOLEAN : StartsAt(p, inner, yes) /\ Call(yes, no).call # NULL => Nested(t, i, last)
  BY <1>4, CommandCallReads
<1>7. StartsAt(p, inner, TRUE) /\ c = Call(TRUE, FALSE)
  BY <1>3 DEF last, inner
<1> HIDE DEF c, Call
<1>8. Nested(t, i, last)
  BY <1>5, <1>6, <1>7
<1> QED
  BY <1>1, <1>8 DEF last

\* The call after a "|", if the loop it calls reads what it should.
LEMMA NextCallReads ==
    ASSUME NEW g, NEW n \in Nat, LoopWires(g, n), LoopReads(g, n),
           NEW t \in TokenSeq, NEW s, NEW h \in Context, NEW inside \in BOOLEAN, NEW i \in Nat, NEW hi \in Nat,
           Going(s, h), SubInPlace(s.p, inside), Fits(t, i, hi, n),
           parse_command_call(g, t, s.p, i, hi, inside, TRUE).call # NULL
    PROVE  Nested(t, i, hi)
<1> DEFINE k == Within(s, h)
           p == s.p
           Call(pipeline) == parse_command_call(g, t, p, i, hi, inside, pipeline)
<1>1. StartsAt(p, k, inside) /\ k \in Context
  BY WithinStarts
<1> HIDE DEF k
<1>2. Call(TRUE).call # NULL
  BY DEF p
<1> HIDE DEF p
<1>3. \A pipeline \in BOOLEAN : Call(pipeline).call # NULL => Nested(t, i, hi)
  BY <1>1, CommandCallReads
<1> HIDE DEF Call
<1> QED
  BY <1>2, <1>3

\* A turn of the loop reads what it should.
LEMMA TurnReads ==
    ASSUME NEW g, NEW n \in Nat, LoopKeeps(g, n), LoopWires(g, n), LoopReads(g, n),
           NEW a \in Frame, NEW h \in Context, Ready(a, h), a.r.ok, a.hi + 1 - a.i <= n + 1,
           Scanned(a.t, a.lo, a.i), NEW r, r = ParseTokens(g, a), r.ok
    PROVE  Nested(a.t, a.lo, a.hi)
<1> DEFINE t == a.t
           lo == a.lo
           hi == a.hi
           j == a.i
           symbol == t[j]
           next == t[j + 1]
           Continue(s, i) == [a EXCEPT !.r = s, !.i = i]
<1>1. /\ a.r \in Result /\ t \in TokenSeq /\ lo \in Nat /\ j \in Nat /\ hi \in Nat
      /\ a.inside_substitution \in BOOLEAN
  BY DEF Frame, Result, TokenSeq, Symbols
<1>2. /\ Going(a.r, h) /\ SubInPlace(a.r.p, a.inside_substitution) /\ FilesOnly(a.r)
      /\ 1 <= lo /\ lo <= j /\ lo <= hi /\ j <= hi + 1 /\ hi <= Len(t)
  BY DEF Ready
<1>3. Scanned(t, lo, j) /\ hi + 1 - j <= n + 1 /\ 0 < lo /\ lo <= j /\ lo <= hi
  BY <1>1, <1>2
(* What is left to read once the loop goes on with s at token i. *)
<1>4. ASSUME NEW s \in Result, NEW i \in Nat, r = g[Continue(s, i)],
             s.ok => /\ Going(s, h) /\ SubInPlace(s.p, a.inside_substitution) /\ FilesOnly(s)
                     /\ j < i /\ i <= hi + 1 /\ Scanned(t, lo, i)
      PROVE  Nested(t, lo, hi)
  <2> DEFINE f == Continue(s, i)
  <2>1. /\ f.r = s /\ f.i = i /\ f.t = t /\ f.lo = lo /\ f.hi = hi
        /\ f.inside_substitution = a.inside_substitution
    BY DEF Frame
  <2>2. f \in Frame
    BY <1>4 DEF Frame, Result
  <2>3. r = g[f]
    BY <1>4
  <2> HIDE DEF f, t, lo, hi, j
  <2>4. s.ok
    BY <2>1, <2>2, <2>3 DEF LoopWires
  <2>5. Ready(f, h) /\ f.hi + 1 - f.i <= n
    BY <1>1, <1>2, <1>3, <1>4, <2>1, <2>4 DEF Ready
  <2> QED
    BY <1>4, <2>1, <2>2, <2>3, <2>4, <2>5 DEF LoopReads
<1>5. CASE j > hi
  <2>1. j = hi + 1
    BY <1>1, <1>2, <1>5
  <2>2. Nested(t, lo, hi)
    <3> HIDE DEF t, lo, hi, j
    <3> QED
      BY <1>1, <1>3, <2>1, EndScanned
  <2> QED
    BY <2>2
<1>6. CASE j <= hi /\ symbol \notin Symbols
  <2>1. r = g[Continue(a.r, j + 1)]
    BY <1>1, <1>6 DEF ParseTokens, Symbols
  <2>2. j + 1 \in Nat /\ j < j + 1 /\ j + 1 <= hi + 1
    BY <1>1, <1>6
  <2>3. Scanned(t, lo, j + 1)
    <3> HIDE DEF t, lo, hi, j
    <3> QED
      BY <1>1, <1>2, <1>3, <1>6, WordScanned
  <2> QED
    BY <1>1, <1>2, <1>4, <2>1, <2>2, <2>3
<1>7. CASE j <= hi /\ symbol \in Symbols
  <2>1. ~(j > hi)
    BY <1>1, <1>7
  <2>2. j # lo /\ j # hi /\ next \notin Symbols
    BY <1>7, <2>1 DEF ParseTokens, Symbols, Error
  <2>3. j + 1 \in Nat /\ j + 1 <= hi /\ lo < j /\ j < hi /\ Len(t) \in Nat
    <3>1. j <= hi /\ lo <= j /\ j # lo /\ j # hi /\ lo \in Nat /\ j \in Nat /\ hi \in Nat
      BY <1>1, <1>2, <1>7, <2>2
    <3>2. Len(t) \in Nat
      BY <1>1, LenProperties DEF TokenSeq
    <3> HIDE DEF t, lo, hi, j
    <3> QED
      BY <3>1, <3>2
  <2>4. CASE symbol = "<("
    <3> DEFINE end == ClosingPosition(t, j + 1, hi)
               s == parse_command_substitution(g, t, a.r.p, a.r.b, j + 1, end)
    <3>1. r = g[Continue(s, end + 1)]
      BY <1>7, <2>1, <2>2, <2>4 DEF ParseTokens, Symbols
    <3>2. end = 0 \/ end \in j + 1 .. hi
      BY <1>1, <2>3, ClosingPositionFacts
    <3>3. end = ClosingPosition(t, j + 1, hi)
      OBVIOUS
    <3> HIDE DEF end
    <3>4. end \in Nat /\ end + 1 \in Nat
      BY <1>1, <3>2
    <3>5. EndFits(t, j + 1, end, n)
      BY <1>1, <1>2, <1>3, <3>2 DEF EndFits, Fits
    <3> DEFINE i == j + 1
    <3>6. i \in Nat /\ s = parse_command_substitution(g, t, a.r.p, a.r.b, i, end) /\ EndFits(t, i, end, n)
      BY <2>3, <3>5
    <3> HIDE DEF i, s
    <3>7. /\ s \in Result
          /\ s.ok => Going(s, h) /\ SubInPlace(s.p, a.inside_substitution) /\ FilesOnly(s)
      BY <1>1, <1>2, <3>4, <3>6, CommandSubstitutionKeeps
    <3>8. ASSUME s.ok PROVE end # 0 /\ Nested(t, i, end - 1)
      <4> DEFINE from == a.r
      <4>1. Going(from, h) /\ FilesOnly(from) /\ s = parse_command_substitution(g, t, from.p, from.b, i, end)
        BY <1>2, <3>6
      <4> HIDE DEF from, t
      <4> QED
        BY <1>1, <3>4, <3>6, <3>8, <4>1, CommandSubstitutionReads
    <3>9. ASSUME s.ok PROVE j < end + 1 /\ end + 1 <= hi + 1 /\ Scanned(t, lo, end + 1)
      <4>1. Followed(t, j + 1, end - 1) /\ end # 0
        BY <3>8, <3>9 DEF Nested, i
      <4>2. j < end + 1 /\ end + 1 <= hi + 1
        BY <1>1, <3>2, <4>1
      <4> HIDE DEF t, lo, hi, j
      <4>3. Scanned(t, lo, end + 1)
        BY <1>1, <1>2, <1>3, <2>2, <2>3, <2>4, <3>3, <3>4, <4>1, SubstitutionScanned
      <4> QED
        BY <4>2, <4>3
    <3> QED
      BY <1>4, <3>1, <3>4, <3>7, <3>9
  <2>5. CASE symbol = "|"
    <3> DEFINE inside == a.inside_substitution
               i == j + 1
               s == a.r
               c == parse_command_call(g, t, s.p, i, hi, inside, TRUE)
    <3>1. r = LinkNext(c, s.b, inside)
      BY <1>7, <2>1, <2>2, <2>5 DEF ParseTokens, Symbols, Error
    <3>2. /\ i \in Nat /\ Fits(t, i, hi, n) /\ inside \in BOOLEAN
          /\ Going(s, h) /\ SubInPlace(s.p, inside)
      BY <1>1, <1>2, <1>3 DEF Fits
    <3> HIDE DEF s, inside, t, hi
    <3>3. c.call # NULL
      <4> HIDE DEF c
      <4> QED
        BY <3>1 DEF LinkNext, Error
    <3> HIDE DEF i
    <3>4. Nested(t, i, hi)
      BY <1>1, <3>2, <3>3, NextCallReads
    <3>5. Nested(t, j + 1, hi)
      BY <3>4 DEF i
    <3> HIDE DEF j, lo
    <3>6. Nested(t, lo, hi)
      BY <1>1, <1>3, <2>2, <2>3, <2>5, <3>5, PipeScanned
    <3> QED
      BY <3>6 DEF t, lo, hi
  <2>6. CASE symbol # "<(" /\ symbol # "|"
    <3> DEFINE s == parse_redirections(a.r.p, a.r.b, symbol, next)
    <3>1. r = g[Continue(s, j + 2)]
      BY <1>7, <2>1, <2>2, <2>6 DEF ParseTokens, Symbols
    <3>2. s.ok => symbol \in {"<", ">", "2>"}
      BY DEF parse_redirections, RedirectedFd, Error
    <3>3. s.ok => Scanned(t, lo, j + 2)
      <4> HIDE DEF t, lo, hi, j, s
      <4> QED
        BY <1>1, <1>2, <1>3, <2>2, <2>3, <3>2, RedirectionScanned
    <3> HIDE DEF symbol, next
    <3>4. s \in Result /\ (s.ok => Going(s, h) /\ FilesOnly(s) /\ s.p.sub = a.r.p.sub)
      BY <1>2, RedirectionKeeps
    <3> HIDE DEF s
    <3>5. s.ok => SubInPlace(s.p, a.inside_substitution)
      BY <1>2, <3>4 DEF SubInPlace
    <3>6. j + 2 \in Nat /\ j < j + 2 /\ j + 2 <= hi + 1
      BY <1>1, <2>3
    <3> QED
      BY <1>4, <3>1, <3>3, <3>4, <3>5, <3>6
  <2> QED
    BY <2>4, <2>5, <2>6
<1>8. Nested(t, lo, hi)
  BY <1>1, <1>5, <1>6, <1>7
<1> QED
  BY <1>8

\* So the loop reads what it should, however many tokens there are.
LEMMA LoopsRead ==
    \A n \in Nat : LoopReads(Loops[n], n)
<1> DEFINE Reading == {n \in Nat : LoopReads(Loops[n], n)}
<1>1. 0 \in Reading
  <2>1. \A a \in Frame : Loops[0][a] = a.r
    BY LoopsUnfold DEF NoTurn
  <2>2. ASSUME NEW a \in Frame, NEW h \in Context, Ready(a, h), a.r.ok, a.hi + 1 - a.i <= 0,
               Scanned(a.t, a.lo, a.i)
        PROVE  Nested(a.t, a.lo, a.hi)
    <3> DEFINE lo == a.lo
               hi == a.hi
               i == a.i
    <3>1. lo \in Nat /\ hi \in Nat /\ lo <= hi /\ i = hi + 1
      <4>1. lo \in Nat /\ hi \in Nat /\ i \in Nat
        BY DEF Frame
      <4>2. lo <= hi /\ i <= hi + 1 /\ hi + 1 - i <= 0
        BY <2>2 DEF Ready
      <4> HIDE DEF lo, hi, i
      <4> QED
        BY <4>1, <4>2
    <3>2. Scanned(a.t, lo, i)
      BY <2>2
    <3> HIDE DEF lo, hi, i
    <3>3. Nested(a.t, lo, hi)
      BY <3>1, <3>2, EndScanned
    <3> QED
      BY <3>3 DEF lo, hi
  <2> QED
    BY <2>1, <2>2 DEF LoopReads
<1>2. ASSUME NEW n \in Nat, n \in Reading PROVE n + 1 \in Reading
  <2>1. LoopReads(Loops[n], n) /\ LoopWires(Loops[n], n) /\ LoopKeeps(Loops[n], n)
    BY <1>2, LoopsKeep, LoopsWire
  <2>2. ASSUME NEW a \in Frame PROVE Loops[n + 1][a] = ParseTokens(Loops[n], a)
    BY LoopsUnfold DEF OneTurn
  <2>3. ASSUME NEW a \in Frame, NEW h \in Context, Ready(a, h), a.hi + 1 - a.i <= n + 1,
               Scanned(a.t, a.lo, a.i), Loops[n + 1][a].ok
        PROVE  Nested(a.t, a.lo, a.hi)
    <3>1. a.r.ok
      BY <2>3, LoopsWire DEF LoopWires
    <3> QED
      BY <2>1, <2>2, <2>3, <3>1, TurnReads
  <2>4. LoopReads(Loops[n + 1], n + 1)
    BY <2>3 DEF LoopReads
  <2> QED
    BY <2>4
<1>3. Nat \subseteq Reading
  <2> HIDE DEF Reading
  <2> QED
    BY <1>1, <1>2, Induction
<1> QED
  BY <1>3

-----------------------------------------------------------------------------
(* The call that a token belongs to.                                       *)

\* Sets of numbers that have a bound have a greatest element.
LEMMA GreatestElement ==
    ASSUME NEW n \in Nat, NEW T \in SUBSET (0 .. n), T # {}
    PROVE  \E x \in T : \A y \in T : y <= x
<1> DEFINE From == {n - y : y \in T}
<1>1. From \subseteq Nat /\ From # {}
  <2>1. \A y \in T : n - y \in Nat
    OBVIOUS
  <2> QED
    BY <2>1
<1>2. \A y \in T : n - y \in From
  OBVIOUS
<1>3. \A d \in From : n - d \in T /\ d = n - (n - d)
  OBVIOUS
<1> HIDE DEF From
<1>4. PICK d \in From : \A e \in From : d <= e
  BY <1>1, LeastElement
<1>5. n - d \in T /\ d \in Nat
  BY <1>1, <1>3
<1>6. ASSUME NEW y \in T PROVE y <= n - d
  <2>1. d <= n - y
    BY <1>2, <1>4
  <2> QED
    BY <1>5, <2>1
<1> QED
  BY <1>5, <1>6

\* The level of the next token.
LEMMA LevelStep ==
    ASSUME NEW t, NEW k \in Nat, k > 0
    PROVE  /\ t[k] # "<(" => Reference!Level(t, k + 1) <= Reference!Level(t, k)
           /\ Reference!Level(t, k + 1) <= Reference!Level(t, k) + 1
           /\ t[k] = "<(" /\ t[k + 1] # ")" => Reference!Level(t, k + 1) = Reference!Level(t, k) + 1
<1> DEFINE d == Depth(t, k)
           d1 == Depth(t, k + 1)
           next == k + 1
           l == Reference!Level(t, k)
           l1 == Reference!Level(t, next)
<1>1. /\ d \in Int
      /\ d1 = d + CASE t[next] = "<(" -> 1 [] t[next] = ")" -> -1 [] OTHER -> 0
  BY DepthStep
<1>2. /\ l = IF t[k] = "<(" THEN d - 1 ELSE d
      /\ l1 = IF t[next] = "<(" THEN d1 - 1 ELSE d1
  <2>1. next \in Nat /\ next > 0 /\ d1 = Depth(t, next)
    OBVIOUS
  <2> HIDE DEF d1, next
  <2> QED
    BY <2>1, LevelIsDepth
<1>3. next = k + 1
  OBVIOUS
<1> HIDE DEF d, d1, next, l, l1
<1>4. /\ t[k] # "<(" => l1 <= l
      /\ l1 <= l + 1
      /\ t[k] = "<(" /\ t[next] # ")" => l1 = l + 1
  <2>1. CASE t[next] = "<("
    BY <1>1, <1>2, <2>1
  <2>2. CASE t[next] = ")"
    BY <1>1, <1>2, <2>2
  <2>3. CASE t[next] # "<(" /\ t[next] # ")"
    BY <1>1, <1>2, <2>3
  <2> QED
    BY <2>1, <2>2, <2>3
<1> QED
  BY <1>3, <1>4 DEF l, l1

\* Token k belongs to the call that starts at m.
Belongs(t, m, k) == Reference!IsStart(t, m) /\ Inside(t, m, k) /\ Alone(t, m, k)

\* A token belongs to one call.
LEMMA StartIsOne ==
    ASSUME NEW t, NEW n, n = Len(t), DOMAIN t = 1 .. n, n \in Nat,
           NEW x \in 1 .. n, NEW m \in 1 .. x, Belongs(t, m, x)
    PROVE  Reference!StartOf(t, x) = m
<1> DEFINE Level(k) == Reference!Level(t, k)
           near == {j \in Reference!CallStarts(t) :
                      j <= x /\ Level(j) = Level(x) /\ \A k \in j .. x : Level(k) >= Level(x)}
<1>1. Reference!StartOf(t, x) = CHOOSE j \in near : \A k \in near : k <= j
  BY DEF Reference!StartOf
<1>2. m \in near
  <2>1. m \in Reference!CallStarts(t) /\ m <= x
    BY DEF Reference!CallStarts, Belongs
  <2>2. Level(x) = Level(m) /\ \A k \in m .. x : Level(k) >= Level(m)
    BY DEF Belongs, Inside
  <2> HIDE DEF Level
  <2> QED
    BY <2>1, <2>2
<1>3. ASSUME NEW k \in near PROVE k <= m /\ k \in Nat
  <2>1. k \in 1 .. n /\ k <= x /\ Reference!IsStart(t, k) /\ Level(k) = Level(x)
    BY DEF Reference!CallStarts
  <2>2. Level(x) = Level(m) /\ Level(m) \in Int
    BY LevelIsInt DEF Belongs, Inside
  <2>3. k \in m + 1 .. x => Level(k) > Level(m)
    BY <2>1 DEF Belongs, Alone
  <2> HIDE DEF Level
  <2>4. k \notin m + 1 .. x
    BY <2>1, <2>2, <2>3
  <2> QED
    BY <2>1, <2>4
<1> HIDE DEF near
<1>4. \A j \in near : (\A k \in near : k <= j) => j = m
  BY <1>2, <1>3
<1>5. \E j \in near : \A k \in near : k <= j
  BY <1>2, <1>3
<1> QED
  BY <1>1, <1>4, <1>5

\* A command, but for what it redirects.
WellFormed(t) ==
    /\ t # <<>> /\ Reference!Balanced(t)
    /\ t[1] \notin Symbols
    /\ \A i \in DOMAIN t : t[i] \in Symbols \ {")"} => i < Len(t) /\ t[i + 1] \notin Symbols

\* No token was read yet.
LEMMA DepthAtStart ==
    ASSUME NEW t
    PROVE  /\ Depth(t, 0) = 0
           /\ t[1] \notin Symbols => Depth(t, 1) = 0 /\ Reference!Level(t, 1) = 0
<1>1. Depth(t, 0) = 0
  <2>1. \A x : Places(t, x, 0) = {}
    BY DEF Places
  <2>2. \A x : Cardinality(Places(t, x, 0)) = 0
    BY <2>1, FS_EmptySet
  <2> QED
    BY <2>2 DEF Depth
<1>2. ASSUME t[1] \notin Symbols PROVE Depth(t, 1) = 0 /\ Reference!Level(t, 1) = 0
  <2>1. t[1] # "<(" /\ t[1] # ")"
    BY <1>2 DEF Symbols, redirection_caret_symbols
  <2> DEFINE zero == 0
             one == zero + 1
  <2>2. zero \in Nat /\ one = 1
    OBVIOUS
  <2> HIDE DEF zero
  <2>3. Depth(t, one) = Depth(t, zero) + CASE t[one] = "<(" -> 1 [] t[one] = ")" -> -1 [] OTHER -> 0
    BY <2>2, DepthStep
  <2>4. Depth(t, one) = Depth(t, zero) + 0
    BY <2>1, <2>2, <2>3
  <2>5. Depth(t, 1) = 0
    BY <1>1, <2>2, <2>4 DEF zero
  <2>6. Reference!Level(t, 1) = Depth(t, 1)
    BY <2>1, LevelIsDepth
  <2> QED
    BY <2>5, <2>6
<1> QED
  BY <1>1, <1>2

\* What is well-formed, as the parser reads it.
LEMMA WellFormedFacts ==
    ASSUME NEW t, NEW n \in Nat, n = Len(t), DOMAIN t = 1 .. n, n > 0
    PROVE  WellFormed(t) <=> /\ t[1] \notin Symbols
                             /\ Followed(t, 1, n)
                             /\ \A k \in 1 .. n : Reference!Level(t, k) >= 0
                             /\ Depth(t, n) = 0
<1>1. t # <<>>
  BY EmptySeq
<1>2. (\A i \in DOMAIN t : t[i] \in Symbols \ {")"} => i < n /\ t[i + 1] \notin Symbols) <=> Followed(t, 1, n)
  BY DEF Followed
<1> DEFINE o == Cardinality(Places(t, "<(", n))
           c == Cardinality(Places(t, ")", n))
<1>3. (o = c) <=> (Depth(t, n) = 0)
  <2>1. o \in Nat /\ c \in Nat /\ Depth(t, n) = o - c
    BY PlacesStep DEF Depth
  <2> HIDE DEF o, c
  <2> QED
    BY <2>1
<1>4. Reference!Balanced(t) <=> (\A i \in 1 .. n : Reference!Level(t, i) >= 0) /\ o = c
  <2>1. /\ Places(t, "<(", n) = {k \in DOMAIN t : t[k] = "<("}
        /\ Places(t, ")", n) = {k \in DOMAIN t : t[k] = ")"}
    BY Zenon DEF Places
  <2>2. /\ Reference!Cardinality({k \in DOMAIN t : t[k] = "<("}) = o
        /\ Reference!Cardinality({k \in DOMAIN t : t[k] = ")"}) = c
    BY <2>1, SameCardinality, Zenon
  <2> HIDE DEF o, c
  <2> QED
    BY <2>2, Zenon DEF Reference!Balanced
<1> HIDE DEF o, c
<1> QED
  BY <1>1, <1>2, <1>3, <1>4 DEF WellFormed

\* Every token of a well-formed command belongs to a call.
LEMMA StartIsFound ==
    ASSUME NEW t, NEW n \in Nat, n = Len(t), DOMAIN t = 1 .. n, WellFormed(t), NEW x \in 1 .. n
    PROVE  Reference!StartOf(t, x) \in 1 .. x /\ Belongs(t, Reference!StartOf(t, x), x)
<1> DEFINE Level(k) == Reference!Level(t, k)
           Start(j) == Reference!IsStart(t, j)
           near == {j \in 1 .. x : Start(j) /\ Level(j) = Level(x) /\ \A k \in j .. x : Level(k) >= Level(x)}
           lower == {j \in 1 .. x : Level(j) < Level(x)}
<1>1. /\ t[1] \notin Symbols /\ \A k \in 1 .. n : Level(k) >= 0
      /\ Level(1) = 0 /\ Start(1)
  <2>1. n > 0
    OBVIOUS
  <2>2. t[1] \notin Symbols /\ \A k \in 1 .. n : Level(k) >= 0
    BY <2>1, WellFormedFacts
  <2> QED
    BY <2>2, DepthAtStart DEF Reference!IsStart
<1>2. \A k \in 1 .. n : Level(k) \in Int
  BY LevelIsInt
<1>3. x \in Nat /\ 1 \in 1 .. x /\ x \in 1 .. x /\ \A j \in 1 .. x : \A k \in j .. x : k \in 1 .. n /\ k \in 1 .. x
  OBVIOUS
<1>4. near \in SUBSET (0 .. x) /\ lower \in SUBSET (0 .. x)
  OBVIOUS
<1>5. near # {}
  <2>1. CASE Level(x) = 0
    <3>1. 1 \in near
      BY <1>1, <1>3, <2>1
    <3> QED
      BY <3>1
  <2>2. CASE Level(x) # 0
    <3>1. Level(x) > 0 /\ 1 \in lower
      BY <1>1, <1>2, <1>3, <2>2
    <3>2. PICK k \in lower : \A y \in lower : y <= k
      BY <1>3, <1>4, <3>1, GreatestElement
    <3> DEFINE j == k + 1
    <3>3. k \in 1 .. x /\ k # x /\ Level(k) < Level(x)
      BY <1>2, <3>2
    <3>4. j \in 1 .. x /\ j \in 1 .. n /\ k \in 1 .. n /\ k \in Nat /\ k > 0 /\ j - 1 = k /\ j \in j .. x
      BY <3>3
    <3>5. ASSUME NEW y \in j .. x PROVE Level(y) >= Level(x)
      <4>1. y \in 1 .. x /\ y \in 1 .. n /\ ~(y <= k)
        BY <1>3, <3>4
      <4>2. y \notin lower
        BY <3>2, <4>1
      <4> QED
        BY <1>2, <4>1, <4>2
    <3>6. /\ t[k] # "<(" => Level(j) <= Level(k)
          /\ Level(j) <= Level(k) + 1
      BY <3>4, LevelStep
    <3>7. Level(j) >= Level(x)
      BY <3>4, <3>5
    <3>8. t[k] = "<(" /\ Level(j) = Level(x)
      <4>1. Level(j) \in Int /\ Level(k) \in Int /\ Level(x) \in Int
        BY <1>2, <3>4
      <4> HIDE DEF Level, j
      <4> QED
        BY <3>3, <3>6, <3>7, <4>1
    <3>9. Start(j)
      BY <3>4, <3>8 DEF Reference!IsStart, Reference!LinkSymbols
    <3>10. j \in near
      BY <3>4, <3>5, <3>8, <3>9
    <3> QED
      BY <3>10
  <2> QED
    BY <2>1, <2>2
<1>6. PICK m \in near : \A y \in near : y <= m
  BY <1>3, <1>4, <1>5, GreatestElement
<1>7. m \in 1 .. x /\ Start(m) /\ Level(m) = Level(x) /\ \A k \in m .. x : Level(k) >= Level(x)
  BY <1>6
<1>8. ASSUME NEW k \in m + 1 .. x, Start(k) PROVE Level(k) > Level(m)
  <2>1. k \in 1 .. x /\ ~(k <= m) /\ \A y \in k .. x : y \in m .. x
    BY <1>7
  <2>2. k \notin near
    BY <1>6, <2>1
  <2>3. Level(k) # Level(x) /\ Level(k) >= Level(x)
    <3>1. k \in m .. x /\ \A y \in k .. x : Level(y) >= Level(x)
      BY <1>7, <2>1
    <3> HIDE DEF Level
    <3> QED
      BY <1>7, <1>8, <2>1, <2>2, <3>1
  <2>4. Level(k) \in Int /\ Level(m) \in Int
    BY <1>2, <1>3, <1>7, <2>1
  <2> HIDE DEF Level
  <2> QED
    BY <1>7, <2>3, <2>4
<1>9. Belongs(t, m, x)
  BY <1>7, <1>8 DEF Belongs, Inside, Alone
<1>10. Reference!StartOf(t, x) = m
  BY <1>7, <1>9, StartIsOne
<1> QED
  BY <1>7, <1>9, <1>10

\* What was read from the first token to the last one is well-formed.
LEMMA NestedIsWellFormed ==
    ASSUME NEW t, NEW n \in Nat, n = Len(t), DOMAIN t = 1 .. n, n > 0, Nested(t, 1, n)
    PROVE  WellFormed(t)
<1>1. t[1] \notin Symbols /\ Inside(t, 1, n) /\ Followed(t, 1, n)
  BY DEF Nested
<1>2. Reference!Level(t, 1) = 0
  BY <1>1, DepthAtStart
<1>3. \A k \in 1 .. n : Reference!Level(t, k) >= 0
  BY <1>1, <1>2 DEF Inside
<1>4. t[n] # "<("
  <2>1. t[n] \notin Symbols \ {")"}
    <3>1. n \in 1 .. n /\ ~(n < n)
      OBVIOUS
    <3> QED
      BY <1>1, <3>1 DEF Followed
  <2> QED
    BY <2>1 DEF Symbols, redirection_caret_symbols
<1>5. Reference!Level(t, n) = 0
  BY <1>1, <1>2 DEF Inside
<1>6. Depth(t, n) = 0
  BY <1>4, <1>5, LevelIsDepth
<1> QED
  BY <1>1, <1>3, <1>6, WellFormedFacts

(* The tokens that a call, and those it is piped to, may be made of: they  *)
(* go to the end of the command, or of a substitution.                     *)
Room(t, len, lo, hi) ==
    /\ 1 <= lo /\ lo <= hi /\ hi <= len
    /\ Reference!IsStart(t, lo)
    /\ \A k \in lo .. hi : Reference!Level(t, k) >= Reference!Level(t, lo)
    /\ hi < len => t[hi + 1] = ")" /\ Reference!Level(t, hi + 1) < Reference!Level(t, lo)

\* There is as much of it after a "|".
LEMMA RoomAfterPipe ==
    ASSUME NEW t, NEW len \in Nat, NEW lo \in Nat, NEW hi \in Nat, Room(t, len, lo, hi),
           NEW i \in Nat, lo < i, i < hi, Inside(t, lo, i), t[i] = "|", t[i + 1] \notin Symbols
    PROVE  Room(t, len, i + 1, hi) /\ Reference!Level(t, i + 1) = Reference!Level(t, lo)
<1> DEFINE j == i + 1
           Level(k) == Reference!Level(t, k)
<1>1. i > 0 /\ t[i] # "<(" /\ t[j] # ")"
  BY DEF Symbols, redirection_caret_symbols
<1>2. Level(j) = Level(i)
  BY <1>1, SameLevel
<1>3. Level(j) = Level(lo)
  BY <1>2 DEF Inside
<1>4. j - 1 = i /\ 1 <= j /\ j <= hi /\ \A k \in j .. hi : k \in lo .. hi
  OBVIOUS
<1> HIDE DEF j
<1>5. Reference!IsStart(t, j)
  BY <1>4 DEF Reference!IsStart, Reference!LinkSymbols
<1> QED
  BY <1>3, <1>4, <1>5 DEF Room, j

\* And enough between parentheses, the second of which is found.
LEMMA RoomInside ==
    ASSUME NEW t, NEW len \in Nat, NEW lo \in Nat, NEW hi \in Nat, Room(t, len, lo, hi), Depth(t, len) = 0,
           len = Len(t),
           NEW i \in Nat, lo < i, i < hi, Inside(t, lo, i), t[i] = "<(", t[i + 1] \notin Symbols,
           Reference!Level(t, lo) >= 0,
           NEW end, end = ClosingPosition(t, i + 1, hi)
    PROVE  /\ end \in i + 2 .. hi
           /\ Room(t, len, i + 1, end - 1)
           /\ \A k \in i + 1 .. end - 1 : Reference!Level(t, k) > Reference!Level(t, lo)
<1> DEFINE Level(k) == Reference!Level(t, k)
<1>1. /\ i > 0 /\ 0 < lo /\ hi <= len /\ Level(i) = Level(lo) /\ Level(i) \in Int /\ Level(lo) \in Int
      /\ Level(i) = Depth(t, i) - 1 /\ Depth(t, i) \in Int
  BY LevelIsInt, LevelIsDepth, DepthStep DEF Room, Inside
<1>2. end # 0
  <2> SUFFICES ASSUME end = 0 PROVE FALSE
    OBVIOUS
  <2> DEFINE e == hi + 1
  <2>1. \A k \in i + 1 .. hi : t[k] = ")" => Surplus(t, i, k) # 1
    BY ClosingIsFirst
  <2>2. e \in Nat /\ i < e /\ e - 1 = hi /\ hi \in i .. e - 1
    OBVIOUS
  <2> HIDE DEF e
  <2>3. Surplus(t, i, hi) <= 0
    BY <2>1, <2>2, NoSurplus
  <2>4. Depth(t, hi) \in Int /\ Depth(t, hi) >= Depth(t, i)
    BY <1>1, <2>3, DepthStep DEF Surplus
  <2>5. CASE hi = len
    BY <1>1, <2>4, <2>5
  <2>6. CASE hi < len
    <3> DEFINE d == Depth(t, hi)
               d1 == Depth(t, hi + 1)
               next == hi + 1
    <3>1. t[next] = ")" /\ Level(next) < Level(lo)
      BY <2>6 DEF Room
    <3>2. d1 = d + CASE t[next] = "<(" -> 1 [] t[next] = ")" -> -1 [] OTHER -> 0
      BY DepthStep
    <3>3. next \in Nat /\ next > 0 /\ d1 = Depth(t, next)
      OBVIOUS
    <3> HIDE DEF next, d1, Level
    <3>4. Level(next) = d1
      BY <3>1, <3>3, LevelIsDepth DEF Level
    <3>5. d1 = d - 1
      BY <2>4, <3>1, <3>2
    <3> HIDE DEF d
    <3>6. d \in Int /\ d >= Depth(t, i)
      BY <2>4 DEF d
    <3> QED
      BY <1>1, <3>1, <3>4, <3>5, <3>6 DEF Level
  <2> QED
    BY <1>1, <2>5, <2>6
<1>3. /\ end \in i + 1 .. hi /\ t[end] = ")" /\ Level(end) = Level(i)
      /\ \A k \in i + 1 .. end - 1 : Level(k) > Level(i)
  BY <1>1, <1>2, Enclosed
<1>4. end # i + 1
  BY <1>3 DEF Symbols, redirection_caret_symbols
<1> DEFINE j == i + 1
           last == end - 1
<1>5. /\ j \in Nat /\ last \in Nat /\ 1 <= j /\ j <= last /\ last <= len /\ last + 1 = end /\ j - 1 = i
      /\ end \in i + 2 .. hi /\ j \in j .. last
  BY <1>1, <1>3, <1>4
<1>6. Level(j) = Level(i) + 1
  <2>1. t[j] # ")"
    BY DEF Symbols, redirection_caret_symbols
  <2> QED
    BY <1>1, <2>1, LevelStep
<1>7. \A k \in j .. last : k \in Nat /\ k > 0
  OBVIOUS
<1>8. \A k \in j .. last : Level(k) \in Int /\ Level(k) > Level(i)
  BY <1>3, <1>7, LevelIsInt
<1> HIDE DEF j, last
<1>9. Reference!IsStart(t, j)
  BY <1>5 DEF Reference!IsStart, Reference!LinkSymbols
<1>10. \A k \in j .. last : Level(k) >= Level(j)
  <2> HIDE DEF Level
  <2> QED
    BY <1>1, <1>6, <1>8
<1>11. Level(end) < Level(j)
  <2> HIDE DEF Level
  <2> QED
    BY <1>1, <1>3, <1>6
<1>12. Room(t, len, j, last)
  BY <1>3, <1>5, <1>9, <1>10, <1>11 DEF Room
<1> QED
  BY <1>1, <1>5, <1>8, <1>12 DEF j, last

-----------------------------------------------------------------------------
(* Which redirections a command may have.                                  *)

\* The text of a command, but for what it redirects, and its length.
Text(t, len) == t \in TokenSeq /\ len \in Nat /\ len = Len(t) /\ DOMAIN t = 1 .. len /\ WellFormed(t)

\* Token k belongs to the call that starts at lo.
IsOf(t, lo, k) == Reference!StartOf(t, k) = lo

\* Every token belongs to one call of the text, which starts no later.
LEMMA IsOfBelongs ==
    ASSUME NEW t, NEW len, Text(t, len), NEW x \in 1 .. len
    PROVE  /\ \E m \in 1 .. x : Belongs(t, m, x) /\ IsOf(t, m, x)
           /\ \A m \in 1 .. x : IsOf(t, m, x) => Belongs(t, m, x)
           /\ \A m \in 1 .. x : Belongs(t, m, x) => IsOf(t, m, x)
           /\ \A m : IsOf(t, m, x) => m \in 1 .. x
<1>1. t \in TokenSeq /\ len \in Nat /\ len = Len(t) /\ DOMAIN t = 1 .. len /\ WellFormed(t)
  BY DEF Text
<1>2. Reference!StartOf(t, x) \in 1 .. x /\ Belongs(t, Reference!StartOf(t, x), x)
  BY <1>1, StartIsFound
<1>3. \A m \in 1 .. x : Belongs(t, m, x) => IsOf(t, m, x)
  BY <1>1, StartIsOne DEF IsOf
<1> QED
  BY <1>2, <1>3 DEF IsOf

\* Of what was read of a call, those tokens are its own that are as deep as it starts.
LEMMA OwnIsLevel ==
    ASSUME NEW t, NEW len, Text(t, len), NEW lo \in Nat, 0 < lo, Reference!IsStart(t, lo),
           NEW i \in Nat, Scanned(t, lo, i), NEW k \in lo .. i - 1, k <= len
    PROVE  IsOf(t, lo, k) <=> Reference!Level(t, k) = Reference!Level(t, lo)
<1>1. lo < i /\ k \in 1 .. len /\ lo \in 1 .. k
  BY DEF Text
<1>2. Inside(t, lo, i - 1) /\ Alone(t, lo, i - 1)
  BY <1>1 DEF Scanned
<1>3. (\A j \in lo .. k : j \in lo .. i - 1) /\ \A j \in lo + 1 .. k : j \in lo + 1 .. i - 1
  OBVIOUS
<1>4. ASSUME Reference!Level(t, k) = Reference!Level(t, lo) PROVE Belongs(t, lo, k)
  BY <1>2, <1>3, <1>4 DEF Belongs, Inside, Alone
<1>5. ASSUME IsOf(t, lo, k) PROVE Reference!Level(t, k) = Reference!Level(t, lo)
  <2>1. Belongs(t, lo, k)
    BY <1>1, <1>5, IsOfBelongs
  <2> QED
    BY <2>1 DEF Belongs, Inside
<1> QED
  BY <1>1, <1>4, <1>5, IsOfBelongs

\* What follows the "|" of a call is not its own.
LEMMA NotOwnAfter ==
    ASSUME NEW t, NEW len, Text(t, len), NEW lo \in Nat, 0 < lo,
           NEW j \in Nat, lo < j, Reference!IsStart(t, j), Reference!Level(t, j) = Reference!Level(t, lo),
           NEW k \in j .. len
    PROVE  ~IsOf(t, lo, k)
<1> SUFFICES ASSUME IsOf(t, lo, k) PROVE FALSE
  OBVIOUS
<1>1. k \in 1 .. len /\ lo \in 1 .. k /\ j \in lo + 1 .. k
  BY DEF Text
<1>2. Belongs(t, lo, k)
  BY <1>1, IsOfBelongs
<1>3. Reference!Level(t, j) > Reference!Level(t, lo)
  BY <1>1, <1>2 DEF Belongs, Alone
<1>4. Reference!Level(t, lo) \in Int
  BY LevelIsInt
<1> QED
  BY <1>3, <1>4

\* A call that takes up its room is the last one of its pipeline.
LEMMA IsLastAtEnd ==
    ASSUME NEW t, NEW len, Text(t, len), NEW lo \in Nat, NEW hi \in Nat, Room(t, len, lo, hi),
           NEW i, i = hi + 1, Scanned(t, lo, i)
    PROVE  Reference!IsLast(t, lo)
<1>1. len \in Nat /\ DOMAIN t = 1 .. len
  BY DEF Text
<1>2. lo < i /\ i - 1 = hi /\ 1 <= lo /\ lo <= hi /\ hi <= len /\ 0 < lo
  BY DEF Room
<1>3. Inside(t, lo, hi) /\ Alone(t, lo, hi) /\ Followed(t, lo, hi) /\ Reference!Level(t, lo) \in Int
  BY <1>2, LevelIsInt DEF Scanned
<1>4. ASSUME NEW j \in 1 .. len, t[j] = "|", IsOf(t, lo, j) PROVE FALSE
  <2>1. lo \in 1 .. j
    BY <1>4, IsOfBelongs
  <2>2. Belongs(t, lo, j)
    BY <1>4, <2>1, IsOfBelongs
  <2>3. CASE j <= hi
    <3> DEFINE next == j + 1
    <3>1. j \in lo .. hi /\ j \in Nat /\ j > 0 /\ t[j] \in Symbols \ {")"} /\ t[j] # "<("
      BY <1>4, <2>1, <2>3 DEF Symbols, redirection_caret_symbols
    <3>2. j < hi /\ t[next] \notin Symbols
      BY <1>3, <3>1 DEF Followed
    <3>3. t[next] # ")"
      BY <3>2 DEF Symbols, redirection_caret_symbols
    <3>4. Reference!Level(t, next) = Reference!Level(t, j)
      BY <3>1, <3>3, SameLevel
    <3>5. next - 1 = j /\ next \in lo + 1 .. hi
      BY <1>2, <2>1, <3>1, <3>2
    <3> HIDE DEF next
    <3>6. Reference!IsStart(t, next)
      BY <1>4, <3>5 DEF Reference!IsStart, Reference!LinkSymbols
    <3> QED
      BY <1>3, <2>2, <3>4, <3>5, <3>6 DEF Alone, Belongs, Inside
  <2>4. CASE j > hi
    <3>1. hi < len /\ hi + 1 \in lo .. j
      BY <1>1, <1>2, <2>4
    <3>2. Reference!Level(t, hi + 1) < Reference!Level(t, lo) /\ Reference!Level(t, hi + 1) >= Reference!Level(t, lo)
      BY <2>2, <3>1 DEF Room, Belongs, Inside
    <3>3. Reference!Level(t, hi + 1) \in Int
      BY LevelIsInt
    <3> QED
      BY <1>3, <3>2, <3>3
  <2> QED
    BY <2>3, <2>4
<1> QED
  BY <1>1, <1>4 DEF Reference!IsLast, Reference!Has, IsOf

\* A call with a "|" is not.
LEMMA IsNotLast ==
    ASSUME NEW t, NEW len, Text(t, len), NEW lo \in Nat, NEW i \in 1 .. len, 0 < lo, lo <= i,
           t[i] = "|", Belongs(t, lo, i)
    PROVE  ~Reference!IsLast(t, lo)
<1>1. IsOf(t, lo, i)
  BY IsOfBelongs
<1> QED
  BY <1>1 DEF Text, Reference!IsLast, Reference!Has, IsOf

\* The file of a redirection opens.
Opens(t, k) == t[k] \in {"<", ">", "2>"} => t[k + 1] \notin Unopenable

\* A file is read by the first call of a pipeline.
InputAllowed(t, k) == t[k] = "<" => Reference!IsFirst(t, Reference!StartOf(t, k))

\* A file is written by the last one, if it is at this level.
OutputAllowed(t, k, level) ==
    t[k] = ">" => Reference!IsLast(t, Reference!StartOf(t, k)) /\ Reference!Level(t, k) = level

Allowed(t, k, level) == Opens(t, k) /\ InputAllowed(t, k) /\ OutputAllowed(t, k, level)

\* A well-formed command is one if its tokens are allowed.
LEMMA IsCommandIfAllowed ==
    ASSUME NEW t, NEW len, Text(t, len)
    PROVE  Reference!IsCommand(t) <=> \A k \in 1 .. len : Allowed(t, k, 0)
<1>1. len \in Nat /\ DOMAIN t = 1 .. len /\ WellFormed(t)
  BY DEF Text
<1>2. ASSUME NEW k \in 1 .. len
      PROVE  /\ Reference!StartOf(t, k) \in Reference!CallStarts(t)
             /\ Reference!Level(t, Reference!StartOf(t, k)) = Reference!Level(t, k)
  <2>1. PICK m \in 1 .. k : Belongs(t, m, k) /\ IsOf(t, m, k)
    BY IsOfBelongs
  <2>2. m \in 1 .. len
    BY <1>1
  <2> QED
    BY <1>1, <2>1, <2>2 DEF IsOf, Belongs, Inside, Reference!CallStarts
<1>3. ASSUME Reference!IsCommand(t), NEW k \in 1 .. len PROVE Allowed(t, k, 0)
  <2>1. Reference!RedirectionsAllowed(t)
    BY <1>3 DEF Reference!IsCommand
  <2> DEFINE call == Reference!StartOf(t, k)
  <2>2. call \in Reference!CallStarts(t) /\ Reference!Level(t, call) = Reference!Level(t, k)
    BY <1>2
  <2>3. \A x : t[k] = x => Reference!Has(t, call, {x})
    BY <1>1 DEF Reference!Has
  <2>4. Opens(t, k)
    BY <1>1, <2>1 DEF Opens, Reference!RedirectionsAllowed, Reference!RedirectionSymbols
  <2> HIDE DEF call
  <2>5. /\ Reference!Has(t, call, {"<"}) => Reference!IsFirst(t, call)
        /\ Reference!Has(t, call, {">"}) => Reference!IsLast(t, call) /\ Reference!Level(t, call) = 0
    BY <2>1, <2>2 DEF Reference!RedirectionsAllowed
  <2>6. InputAllowed(t, k) /\ OutputAllowed(t, k, 0)
    BY <2>2, <2>3, <2>5 DEF InputAllowed, OutputAllowed, call
  <2> QED
    BY <2>4, <2>6 DEF Allowed
<1>4. ASSUME \A k \in 1 .. len : Allowed(t, k, 0) PROVE Reference!IsCommand(t)
  <2>1. \A i \in DOMAIN t : t[i] \in Reference!RedirectionSymbols => t[i + 1] \notin Unopenable
    BY <1>1, <1>4 DEF Allowed, Opens, Reference!RedirectionSymbols
  <2>2. ASSUME NEW call \in Reference!CallStarts(t), Reference!Has(t, call, {"<"})
        PROVE  Reference!IsFirst(t, call)
    <3>1. PICK i \in DOMAIN t : t[i] \in {"<"} /\ Reference!StartOf(t, i) = call
      BY <2>2 DEF Reference!Has
    <3> QED
      BY <1>1, <1>4, <3>1 DEF Allowed, InputAllowed
  <2>3. ASSUME NEW call \in Reference!CallStarts(t), Reference!Has(t, call, {">"})
        PROVE  Reference!IsLast(t, call) /\ Reference!Level(t, call) = 0
    <3>1. PICK i \in DOMAIN t : t[i] \in {">"} /\ Reference!StartOf(t, i) = call
      BY <2>3 DEF Reference!Has
    <3> QED
      BY <1>1, <1>2, <1>4, <3>1 DEF Allowed, OutputAllowed
  <2>4. Reference!RedirectionsAllowed(t)
    BY <2>1, <2>2, <2>3 DEF Reference!RedirectionsAllowed
  <2>5. Reference!Symbols = Symbols /\ Reference!RedirectionSymbols \cup Reference!LinkSymbols = Symbols \ {")"}
    BY DEF Reference!Symbols, Symbols, redirection_caret_symbols, Reference!RedirectionSymbols, Reference!LinkSymbols
  <2> QED
    BY <1>1, <2>4, <2>5 DEF Reference!IsCommand, WellFormed
<1> QED
  BY <1>3, <1>4

\* Commands are well-formed.
LEMMA CommandIsWellFormed ==
    ASSUME NEW t, Reference!IsCommand(t)
    PROVE  WellFormed(t)
<1>1. Reference!Symbols = Symbols /\ Reference!RedirectionSymbols \cup Reference!LinkSymbols = Symbols \ {")"}
  BY DEF Reference!Symbols, Symbols, redirection_caret_symbols, Reference!RedirectionSymbols, Reference!LinkSymbols
<1> QED
  BY <1>1 DEF Reference!IsCommand, WellFormed

-----------------------------------------------------------------------------
(* The parser refuses the redirections that are not allowed, and no others.*)

\* No call of a pipeline, or of a substitution, was built yet.
Blank(p) == p.last = NULL /\ p.sub = NULL

\* The last one was built.
Called(p, inside) == IF inside THEN p.last = NULL /\ p.sub # NULL ELSE p.last # NULL /\ p.sub = NULL

\* Its output is not the standard one.
SubWrites(p) == p.calls[p.sub].stdout # 1

\* The call that starts at lo has this symbol.
HasOwn(t, x, lo, hi) == \E k \in lo .. hi : t[k] = x /\ IsOf(t, lo, k)

HasOutput(t, lo, hi) == \E k \in lo .. hi : t[k] = ">"

AllAllowed(t, lo, hi, level) == \A k \in lo .. hi : Allowed(t, k, level)

\* What a builder knows of the tokens from lo to hi.
Seen(t, lo, hi, b) ==
    /\ b.fds[1] # UNINITIALIZED_FD <=> HasOwn(t, "<", lo, hi)
    /\ b.fds[2] # UNINITIALIZED_FD <=> HasOwn(t, ">", lo, hi)
    /\ \A k \in lo .. hi : Opens(t, k) /\ (IsOf(t, lo, k) \/ Allowed(t, k, Reference!Level(t, lo)))

\* A token is allowed, but perhaps for what a call that is not the first one may read.
Fine(t, lo, k) ==
    /\ Opens(t, k)
    /\ IsOf(t, lo, k) \/ InputAllowed(t, k)
    /\ OutputAllowed(t, k, Reference!Level(t, lo))

\* What the loop comes to.
Decided(t, lo, hi, inside, r) ==
    /\ r.ok <=> \A k \in lo .. hi : Fine(t, lo, k)
    /\ r.ok => /\ r.b.fds[1] # UNINITIALIZED_FD <=> HasOwn(t, "<", lo, hi)
               /\ \/ Blank(r.p) /\ (r.b.fds[2] # UNINITIALIZED_FD <=> HasOutput(t, lo, hi))
                  \/ Called(r.p, inside) /\ (inside => (SubWrites(r.p) <=> HasOutput(t, lo, hi)))

\* What a call comes to.
CallDecided(t, lo, hi, inside, c) ==
    /\ c.call # NULL <=> AllAllowed(t, lo, hi, Reference!Level(t, lo))
    /\ c.call # NULL => Called(c.p, inside) /\ (inside => (SubWrites(c.p) <=> HasOutput(t, lo, hi)))

\* The call that is built becomes the last one if there is none yet.
LEMMA BuildCallDecides ==
    ASSUME NEW s, NEW h \in Context, Going(s, h), NEW inside \in BOOLEAN, SubInPlace(s.p, inside),
           NEW at, NEW name, NEW output \in BOOLEAN,
           \/ Blank(s.p) /\ (s.b.fds[2] # UNINITIALIZED_FD <=> output)
           \/ Called(s.p, inside) /\ (inside => (SubWrites(s.p) <=> output)),
           NEW c, c = BuildCall(s.p, s.b, at, name, inside)
    PROVE  c.call # NULL /\ Called(c.p, inside) /\ (inside => (SubWrites(c.p) <=> output))
<1> DEFINE call == Len(s.p.calls) + 1
           built == [at |-> at, name |-> name, stdin |-> OrStandard(s.b, 1), stdout |-> OrStandard(s.b, 2),
                     stderr |-> OrStandard(s.b, 3), reads |-> s.b.reads, writes |-> s.b.writes,
                     files |-> s.b.files]
           last == IF s.p.last = NULL /\ ~inside THEN call ELSE s.p.last
           sub == IF s.p.sub = NULL /\ inside THEN call ELSE s.p.sub
<1>1. /\ s.p \in Parse /\ s.p.calls \in Seq(CallType) /\ Len(s.p.calls) \in Nat
      /\ DOMAIN s.p.calls = 1 .. Len(s.p.calls)
      /\ s.p.fd \in Nat /\ h.from \in 2 .. s.p.fd /\ BuilderApart(s.b, s.p, h) /\ Ordered(s.p, {})
  BY ParseFacts DEF Going, Sound, Parse
<1>2. built.stdout = OrStandard(s.b, 2)
  OBVIOUS
<1>3. c.call = call /\ c.p = [s.p EXCEPT !.calls = Append(s.p.calls, built), !.last = last, !.sub = sub]
  BY DEF BuildCall
<1> HIDE DEF built, last, sub
<1>4. c.p.calls = Append(s.p.calls, built) /\ c.p.last = last /\ c.p.sub = sub
  BY <1>1, <1>3 DEF Parse
<1>5. /\ c.p.calls[call] = built /\ call # NULL
      /\ \A m \in DOMAIN s.p.calls : c.p.calls[m] = s.p.calls[m]
  <2>1. \A m \in 1 .. Len(s.p.calls) : Append(s.p.calls, built)[m] = s.p.calls[m]
    BY <1>1
  <2> QED
    BY <1>1, <1>4, <2>1 DEF NULL
<1>6. built.stdout # 1 <=> s.b.fds[2] # UNINITIALIZED_FD
  <2>1. s.b.fds[2] = UNINITIALIZED_FD \/ s.b.fds[2] > 2
    BY <1>1 DEF BuilderApart
  <2>2. s.b.fds[2] > 2 => s.b.fds[2] # 1 /\ s.b.fds[2] # UNINITIALIZED_FD
    BY DEF UNINITIALIZED_FD
  <2> QED
    BY <1>2, <2>1, <2>2 DEF OrStandard
<1>7. inside /\ s.p.sub # NULL => s.p.sub \in DOMAIN s.p.calls
  BY <1>1 DEF Ordered, Addressed, SubInPlace, NULL
<1> HIDE DEF call
<1>8. CASE Blank(s.p) /\ (s.b.fds[2] # UNINITIALIZED_FD <=> output)
  <2>1. CASE inside
    <3>1. c.p.last = NULL /\ c.p.sub = call
      BY <1>4, <1>8, <2>1 DEF Blank, last, sub
    <3> QED
      BY <1>3, <1>5, <1>6, <1>8, <2>1, <3>1 DEF Called, SubWrites
  <2>2. CASE ~inside
    <3>1. c.p.last = call /\ c.p.sub = NULL
      BY <1>4, <1>8, <2>2 DEF Blank, last, sub
    <3> QED
      BY <1>3, <1>5, <2>2, <3>1 DEF Called
  <2> QED
    BY <2>1, <2>2
<1>9. CASE Called(s.p, inside) /\ (inside => (SubWrites(s.p) <=> output))
  <2>1. CASE inside
    <3>1. c.p.last = NULL /\ c.p.sub = s.p.sub /\ s.p.sub # NULL
      BY <1>4, <1>9, <2>1 DEF Called, last, sub
    <3>2. s.p.sub \in DOMAIN s.p.calls
      BY <1>7, <2>1, <3>1
    <3>3. SubWrites(c.p) <=> SubWrites(s.p)
      BY <1>5, <3>1, <3>2 DEF SubWrites
    <3>4. Called(c.p, inside)
      BY <2>1, <3>1 DEF Called
    <3> QED
      BY <1>3, <1>5, <1>9, <2>1, <3>3, <3>4
  <2>2. CASE ~inside
    <3>1. c.p.last = s.p.last /\ c.p.sub = NULL /\ s.p.last # NULL
      BY <1>4, <1>9, <2>2 DEF Called, last, sub
    <3> QED
      BY <1>3, <1>5, <2>2, <3>1 DEF Called
  <2> QED
    BY <2>1, <2>2
<1> QED
  BY <1>8, <1>9

\* The end of parse_command_call refuses a call that is not the first one if it reads a file.
LEMMA EndOfCallDecides ==
    ASSUME NEW t, NEW len, Text(t, len), NEW lo \in Nat, NEW hi \in Nat, 0 < lo, hi <= len,
           NEW inside \in BOOLEAN, NEW pipeline \in BOOLEAN, pipeline <=> ~Reference!IsFirst(t, lo),
           NEW r, r.ok \in BOOLEAN, Decided(t, lo, hi, inside, r), NEW h \in Context,
           r.ok => Going(r, h) /\ SubInPlace(r.p, inside),
           NEW c, c = EndOfCall(r, lo, t[lo], inside, pipeline)
    PROVE  CallDecided(t, lo, hi, inside, c)
<1>1. (\A k \in lo .. hi : k \in 1 .. len) /\ len \in Nat
  BY DEF Text
<1>2. ASSUME NEW k \in lo .. hi
      PROVE  Allowed(t, k, Reference!Level(t, lo))
                <=> Fine(t, lo, k) /\ ~(pipeline /\ t[k] = "<" /\ IsOf(t, lo, k))
  <2>1. IsOf(t, lo, k) => (InputAllowed(t, k) <=> (t[k] = "<" => ~pipeline))
    BY DEF InputAllowed, IsOf
  <2> QED
    BY <2>1 DEF Allowed, Fine
<1>3. AllAllowed(t, lo, hi, Reference!Level(t, lo))
         <=> (\A k \in lo .. hi : Fine(t, lo, k)) /\ ~(pipeline /\ HasOwn(t, "<", lo, hi))
  BY <1>2 DEF AllAllowed, HasOwn
<1>4. CASE ~r.ok
  <2>1. c.call = NULL
    BY <1>4 DEF EndOfCall
  <2>2. ~\A k \in lo .. hi : Fine(t, lo, k)
    BY <1>4 DEF Decided
  <2> QED
    BY <1>3, <2>1, <2>2 DEF CallDecided
<1>5. CASE r.ok
  <2>1. /\ \A k \in lo .. hi : Fine(t, lo, k)
        /\ r.b.fds[1] # UNINITIALIZED_FD <=> HasOwn(t, "<", lo, hi)
        /\ \/ Blank(r.p) /\ (r.b.fds[2] # UNINITIALIZED_FD <=> HasOutput(t, lo, hi))
           \/ Called(r.p, inside) /\ (inside => (SubWrites(r.p) <=> HasOutput(t, lo, hi)))
    BY <1>5 DEF Decided
  <2>2. Misplaced(r.p, r.b, pipeline) <=> pipeline /\ HasOwn(t, "<", lo, hi)
    BY <2>1 DEF Misplaced, Blank, Called
  <2>3. CASE Misplaced(r.p, r.b, pipeline)
    <3>1. c.call = NULL
      BY <2>3 DEF EndOfCall
    <3> QED
      BY <1>3, <2>2, <2>3, <3>1 DEF CallDecided
  <2>4. CASE ~Misplaced(r.p, r.b, pipeline)
    <3> DEFINE name == t[lo]
               output == HasOutput(t, lo, hi)
    <3>1. c = BuildCall(r.p, r.b, lo, name, inside)
      BY <1>5, <2>4 DEF EndOfCall
    <3>2. output \in BOOLEAN
      BY DEF HasOutput
    <3> HIDE DEF name, output
    <3>3. \/ Blank(r.p) /\ (r.b.fds[2] # UNINITIALIZED_FD <=> output)
          \/ Called(r.p, inside) /\ (inside => (SubWrites(r.p) <=> output))
      BY <2>1 DEF output
    <3>4. c.call # NULL /\ Called(c.p, inside) /\ (inside => (SubWrites(c.p) <=> output))
      BY <1>5, <3>1, <3>2, <3>3, BuildCallDecides
    <3> QED
      BY <1>3, <2>1, <2>2, <2>4, <3>4 DEF CallDecided, output
  <2> QED
    BY <2>3, <2>4
<1> QED
  BY <1>4, <1>5

(* What the loop with n tokens left decides in frames that have no more.   *)
LoopDecides(g, n) ==
    \A a \in Frame, h \in Context, len \in Nat :
        /\ Text(a.t, len) /\ Room(a.t, len, a.lo, a.hi)
        /\ Ready(a, h) /\ a.r.ok /\ a.hi + 1 - a.i <= n
        /\ Scanned(a.t, a.lo, a.i) /\ Blank(a.r.p) /\ Seen(a.t, a.lo, a.i - 1, a.r.b)
        => Decided(a.t, a.lo, a.hi, a.inside_substitution, g[a])

\* A new builder knows nothing.
LEMMA StartSeen ==
    ASSUME NEW t, NEW lo \in Nat
    PROVE  Seen(t, lo, lo - 1, NewBuilder)
<1>1. \A k \in lo .. lo - 1 : FALSE
  OBVIOUS
<1>2. NewBuilder.fds[1] = UNINITIALIZED_FD /\ NewBuilder.fds[2] = UNINITIALIZED_FD
  BY DEF NewBuilder
<1> QED
  BY <1>1, <1>2 DEF Seen, HasOwn

\* parse_command_call, if its loop decides what it should.
LEMMA CommandCallDecides ==
    ASSUME NEW g, NEW n \in Nat, LoopKeeps(g, n), LoopDecides(g, n),
           NEW t \in TokenSeq, NEW p, NEW h \in Context, NEW inside \in BOOLEAN, NEW pipeline \in BOOLEAN,
           StartsAt(p, h, inside), Blank(p),
           NEW lo \in Nat, NEW hi \in Nat, Fits(t, lo, hi, n),
           NEW len, Text(t, len), Room(t, len, lo, hi), pipeline <=> ~Reference!IsFirst(t, lo),
           NEW c, c = parse_command_call(g, t, p, lo, hi, inside, pipeline)
    PROVE  CallDecided(t, lo, hi, inside, c)
<1>1. ~(hi < lo) /\ 0 < lo /\ hi <= len
  BY DEF Room
<1> DEFINE first == Success(p, NewBuilder)
           a == [t |-> t, r |-> first, lo |-> lo, i |-> lo, hi |-> hi, inside_substitution |-> inside]
           r == g[a]
<1>2. first \in Result /\ first.ok /\ first.p = p /\ first.b = NewBuilder /\ Going(first, h) /\ FilesOnly(first)
  BY StartIsReady DEF Success
<1>3. c = EndOfCall(r, lo, t[lo], inside, pipeline)
  BY <1>1 DEF parse_command_call
<1> HIDE DEF first
<1>4. a \in Frame
  BY <1>2 DEF Frame, Result, TokenSeq, Symbols
<1>5. Ready(a, h) /\ a.r.ok /\ a.hi + 1 - a.i <= n
  BY <1>1, <1>2 DEF Ready, StartsAt, Fits
<1>6. /\ a.t = t /\ a.lo = lo /\ a.hi = hi /\ a.i = lo /\ a.inside_substitution = inside
      /\ a.r.p = p /\ a.r.b = NewBuilder
  BY <1>2
<1>7. Done(a, h, r)
  BY <1>4, <1>5 DEF LoopKeeps
<1>8. /\ r.ok \in BOOLEAN
      /\ r.ok => Going(r, h) /\ SubInPlace(r.p, inside)
  BY <1>7, <1>6 DEF Done, Result
<1>9. Decided(t, lo, hi, inside, r)
  <2>1. Scanned(a.t, a.lo, a.i) /\ Seen(a.t, a.lo, a.i - 1, a.r.b)
    BY <1>6, StartSeen DEF Scanned
  <2>2. len \in Nat
    BY DEF Text
  <2> HIDE DEF a
  <2> QED
    BY <1>4, <1>5, <1>6, <2>1, <2>2 DEF LoopDecides
<1> HIDE DEF a, r
<1> QED
  BY <1>1, <1>3, <1>8, <1>9, EndOfCallDecides

\* Tokens that redirect nothing, or belong to other calls.
LEMMA SeenMore ==
    ASSUME NEW t, NEW lo \in Nat, NEW i \in Nat, NEW j \in Nat, lo <= i, i <= j, NEW b, Seen(t, lo, i - 1, b),
           \A k \in i .. j : \/ t[k] \notin {"<", ">", "2>"}
                             \/ ~IsOf(t, lo, k) /\ Allowed(t, k, Reference!Level(t, lo))
    PROVE  Seen(t, lo, j, b)
<1>1. /\ \A k \in lo .. j : k \in lo .. i - 1 \/ k \in i .. j
      /\ \A k \in lo .. i - 1 : k \in lo .. j
  OBVIOUS
<1>2. \A x \in {"<", ">"} : HasOwn(t, x, lo, j) <=> HasOwn(t, x, lo, i - 1)
  BY <1>1 DEF HasOwn
<1>3. ASSUME NEW k \in i .. j PROVE Opens(t, k) /\ (IsOf(t, lo, k) \/ Allowed(t, k, Reference!Level(t, lo)))
  BY DEF Opens, Allowed, InputAllowed, OutputAllowed
<1>4. \A k \in lo .. j : Opens(t, k) /\ (IsOf(t, lo, k) \/ Allowed(t, k, Reference!Level(t, lo)))
  BY <1>1, <1>3 DEF Seen
<1> QED
  BY <1>2, <1>4 DEF Seen

\* A file that opened.
LEMMA SeenFile ==
    ASSUME NEW t, NEW lo \in Nat, NEW i \in Nat, lo <= i, NEW b, Seen(t, lo, i - 1, b),
           IsOf(t, lo, i), t[i] \in {"<", ">", "2>"}, t[i + 1] \notin Symbols, t[i + 1] \notin Unopenable,
           NEW d,
           d.fds[1] # UNINITIALIZED_FD <=> b.fds[1] # UNINITIALIZED_FD \/ t[i] = "<",
           d.fds[2] # UNINITIALIZED_FD <=> b.fds[2] # UNINITIALIZED_FD \/ t[i] = ">"
    PROVE  Seen(t, lo, i + 1, d)
<1> DEFINE j == i + 1
<1>1. /\ \A k \in lo .. j : k \in lo .. i - 1 \/ k = i \/ k = j
      /\ \A k \in lo .. i - 1 : k \in lo .. j
      /\ i \in lo .. j
  OBVIOUS
<1>2. t[j] \notin {"<", ">", "2>"}
  BY DEF Symbols, redirection_caret_symbols
<1>3. t[j] \notin Unopenable
  OBVIOUS
<1>4. Opens(t, i)
  BY <1>3 DEF Opens
<1> HIDE DEF j
<1>5. \A x \in {"<", ">"} : HasOwn(t, x, lo, j) <=> HasOwn(t, x, lo, i - 1) \/ t[i] = x
  BY <1>1, <1>2 DEF HasOwn
<1>6. Opens(t, j) /\ Allowed(t, j, Reference!Level(t, lo))
  BY <1>2 DEF Opens, Allowed, InputAllowed, OutputAllowed
<1>7. \A k \in lo .. j : Opens(t, k) /\ (IsOf(t, lo, k) \/ Allowed(t, k, Reference!Level(t, lo)))
  BY <1>1, <1>4, <1>6 DEF Seen
<1>8. Seen(t, lo, j, d)
  BY <1>5, <1>7 DEF Seen
<1> QED
  BY <1>8 DEF j

\* What a redirection makes of the builder of s.
Redirected(s, symbol, filename, r) ==
    /\ r.ok <=> filename \notin Unopenable
    /\ r.ok => /\ r.p.last = s.p.last /\ r.p.sub = s.p.sub
               /\ r.b.fds[1] # UNINITIALIZED_FD <=> s.b.fds[1] # UNINITIALIZED_FD \/ symbol = "<"
               /\ r.b.fds[2] # UNINITIALIZED_FD <=> s.b.fds[2] # UNINITIALIZED_FD \/ symbol = ">"

\* parse_redirections refuses what does not open.
LEMMA RedirectionDecides ==
    ASSUME NEW s, NEW h \in Context, Going(s, h), NEW symbol \in {"<", ">", "2>"}, NEW filename,
           NEW r, r = parse_redirections(s.p, s.b, symbol, filename)
    PROVE  Redirected(s, symbol, filename, r)
<1> DEFINE i == RedirectedFd(symbol)
           p == s.p
           b == s.b
           f == p.fd + 1
           q == Close(p, {b.fds[i]})
<1>1. i \in 1 .. 3 /\ (i = 1 <=> symbol = "<") /\ (i = 2 <=> symbol = ">")
  BY DEF RedirectedFd
<1> HIDE DEF i
<1>2. /\ p \in Parse /\ p.fd \in Nat /\ p.open \in SUBSET Nat
      /\ b \in Builder /\ Len(b.fds) = 3 /\ b.fds \in Seq(Int)
  BY ParseFacts DEF Going, Sound, BuilderApart, Builder, Parse
<1>3. CASE filename \in Unopenable
  <2>1. ~r.ok
    BY <1>3 DEF parse_redirections, Error
  <2> QED
    BY <1>3, <2>1 DEF Redirected
<1>4. CASE filename \notin Unopenable
  <2>1. r = Success([q EXCEPT !.open = q.open \cup {f}, !.fd = q.fd + 1], [b EXCEPT !.fds[i] = f])
    BY <1>1, <1>2, <1>4, CloseFacts DEF parse_redirections, i
  <2>2. q \in Parse /\ q.last = p.last /\ q.sub = p.sub
    BY <1>2, CloseFacts
  <2> HIDE DEF q, f
  <2>3. r.ok /\ r.p.last = p.last /\ r.p.sub = p.sub
    <3>1. r.ok /\ r.p = [q EXCEPT !.open = q.open \cup {f}, !.fd = q.fd + 1]
      BY <2>1 DEF Success
    <3> HIDE DEF p
    <3>2. r.p.last = q.last /\ r.p.sub = q.sub
      BY <2>2, <3>1 DEF Parse
    <3> QED
      BY <2>2, <3>1, <3>2
  <2>4. r.b = [b EXCEPT !.fds = [b.fds EXCEPT ![i] = f]]
    BY <2>1 DEF Success
  <2> DEFINE fds == [b.fds EXCEPT ![i] = f]
  <2>5. fds[1] = (IF i = 1 THEN f ELSE b.fds[1]) /\ fds[2] = (IF i = 2 THEN f ELSE b.fds[2])
    BY <1>1, <1>2
  <2> HIDE DEF fds
  <2>6. r.b = [b EXCEPT !.fds = fds]
    BY <2>4 DEF fds
  <2> HIDE DEF b
  <2>7. r.b.fds = fds
    BY <1>2, <2>6 DEF Builder
  <2>8. f # UNINITIALIZED_FD
    BY <1>2 DEF f, UNINITIALIZED_FD
  <2> HIDE DEF p
  <2>9. /\ r.b.fds[1] # UNINITIALIZED_FD <=> b.fds[1] # UNINITIALIZED_FD \/ symbol = "<"
        /\ r.b.fds[2] # UNINITIALIZED_FD <=> b.fds[2] # UNINITIALIZED_FD \/ symbol = ">"
    BY <1>1, <2>5, <2>7, <2>8
  <2> QED
    BY <1>4, <2>3, <2>9 DEF b, p, Redirected
<1> QED
  BY <1>3, <1>4

\* A substitution is refused if its last call writes a file.
LEMMA LinkSubstitutionDecides ==
    ASSUME NEW s, NEW h \in Context, Going(s, h), NEW c, SubstitutionParsed(c, Inner(s, h)),
           c.call # NULL => Called(c.p, TRUE),
           NEW r, r = SubstitutionLinked(c, s)
    PROVE  /\ r.ok <=> c.call # NULL /\ ~SubWrites(c.p)
           /\ r.ok => Blank(r.p) /\ r.b.fds = s.b.fds
<1> DEFINE q == c.p
           n == c.call
           pipe == Len(s.p.pipes) + 1
           sub == q.sub
           new == WritesInto(q.calls[sub], pipe, q.pipes[pipe][2])
           linked == [q EXCEPT !.calls = [q.calls EXCEPT ![sub] = new]]
           reset == [linked EXCEPT !.sub = NULL]
           b == [s.b EXCEPT !.reads = s.b.reads \cup {pipe}, !.files = s.b.files \cup {q.pipes[pipe][1]}]
<1>1. r.ok <=> n # NULL /\ ~SubWrites(q)
  BY DEF SubstitutionLinked, LinkSubstitution, Error, Success, SubWrites
<1>2. ASSUME r.ok PROVE Blank(r.p) /\ r.b.fds = s.b.fds
  <2>1. n # NULL /\ q.calls[sub].stdout = 1 /\ q.last = NULL /\ q \in Parse
    BY <1>1, <1>2 DEF SubWrites, Called, SubstitutionParsed, CallParsed
  <2>2. r = Success(AddCallAtTheEnd([q EXCEPT !.calls[sub] = new, !.sub = NULL], n), b)
    BY <2>1 DEF SubstitutionLinked, LinkSubstitution
  <2>3. [q EXCEPT !.calls[sub] = new, !.sub = NULL] = reset
    BY DEF reset, linked
  <2>4. s.b \in Builder
    BY DEF Going, BuilderApart
  <2>5. r.b.fds = s.b.fds
    <3> DEFINE reads == s.b.reads \cup {pipe}
               files == s.b.files \cup {q.pipes[pipe][1]}
    <3>1. b = [s.b EXCEPT !.reads = reads, !.files = files]
      OBVIOUS
    <3> HIDE DEF reads, files
    <3>2. b.fds = s.b.fds
      BY <2>4, <3>1 DEF Builder
    <3> HIDE DEF b, q, new
    <3> QED
      BY <2>2, <3>2 DEF Success
  <2> HIDE DEF q, new, b
  <2>6. reset.last = q.last /\ reset.sub = NULL
    BY <2>1 DEF Parse
  <2>7. \E order : AddCallAtTheEnd(reset, n) = [reset EXCEPT !.order = order]
    BY DEF AddCallAtTheEnd
  <2>8. reset \in [DOMAIN q -> {reset[x] : x \in DOMAIN q}] /\ {"last", "sub", "order"} \subseteq DOMAIN q
    BY <2>1 DEF Parse
  <2> HIDE DEF reset
  <2>9. r.p = AddCallAtTheEnd(reset, n)
    BY <2>2, <2>3 DEF Success
  <2>10. r.p.last = reset.last /\ r.p.sub = reset.sub
    BY <2>7, <2>8, <2>9
  <2> QED
    BY <2>1, <2>5, <2>6, <2>10 DEF Blank
<1> QED
  BY <1>1, <1>2

\* parse_command_substitution, if the loop it calls decides what it should.
LEMMA CommandSubstitutionDecides ==
    ASSUME NEW g, NEW n \in Nat, LoopKeeps(g, n), LoopDecides(g, n),
           NEW t \in TokenSeq, NEW s, NEW h \in Context, Going(s, h), FilesOnly(s),
           NEW i \in Nat, NEW end \in Nat, EndFits(t, i, end, n), end # 0,
           NEW len, Text(t, len), Room(t, len, i, end - 1), Reference!IsFirst(t, i), Blank(s.p),
           NEW r, r = parse_command_substitution(g, t, s.p, s.b, i, end)
    PROVE  /\ r.ok <=> AllAllowed(t, i, end - 1, Reference!Level(t, i)) /\ ~HasOutput(t, i, end - 1)
           /\ r.ok => Blank(r.p) /\ r.b.fds = s.b.fds
<1> DEFINE q == OpenPipe(s.p)
           p == [q EXCEPT !.sub = NULL]
           c == parse_command_call(g, t, p, i, end - 1, TRUE, FALSE)
<1>1. r = SubstitutionLinked(c, s)
  BY DEF parse_command_substitution, SubstitutionLinked
<1>2. StartsAt(p, Inner(s, h), TRUE)
  BY SubstitutionStarts
<1>3. Blank(p)
  <2>1. s.p \in Parse
    BY DEF Going, Sound
  <2>2. q \in Parse /\ q.last = s.p.last
    BY <2>1, OpenPipeFacts
  <2> HIDE DEF q
  <2>3. p.last = q.last /\ p.sub = NULL
    BY <2>2, ResetFacts
  <2> QED
    BY <2>2, <2>3 DEF Blank
<1> DEFINE last == end - 1
           inner == Inner(s, h)
           Call(yes, no) == parse_command_call(g, t, p, i, last, yes, no)
<1>4. last \in Nat /\ inner \in Context /\ Fits(t, i, last, n) /\ Room(t, len, i, last)
  BY InnerFacts DEF EndFits
<1> HIDE DEF p, q, last, inner
<1>5. ASSUME NEW yes \in BOOLEAN, NEW no \in BOOLEAN, StartsAt(p, inner, yes), no <=> ~Reference!IsFirst(t, i)
      PROVE  /\ CallParsed(Call(yes, no), inner, yes, no)
             /\ CallDecided(t, i, last, yes, Call(yes, no))
  <2>1. CallParsed(Call(yes, no), inner, yes, no)
    BY <1>4, <1>5, CommandCallKeeps
  <2>2. CallDecided(t, i, last, yes, Call(yes, no))
    BY <1>3, <1>4, <1>5, CommandCallDecides
  <2> QED
    BY <2>1, <2>2
<1>6. StartsAt(p, inner, TRUE) /\ c = Call(TRUE, FALSE)
  BY <1>2 DEF last, inner
<1> HIDE DEF c, Call
<1>7. CallParsed(c, inner, TRUE, FALSE) /\ CallDecided(t, i, last, TRUE, c)
  BY <1>5, <1>6
<1>8. SubstitutionParsed(c, Inner(s, h))
  BY <1>7 DEF SubstitutionParsed, inner
<1>9. /\ c.call # NULL <=> AllAllowed(t, i, last, Reference!Level(t, i))
      /\ c.call # NULL => Called(c.p, TRUE) /\ (SubWrites(c.p) <=> HasOutput(t, i, last))
  BY <1>7 DEF CallDecided
<1>10. /\ r.ok <=> c.call # NULL /\ ~SubWrites(c.p)
       /\ r.ok => Blank(r.p) /\ r.b.fds = s.b.fds
  BY <1>1, <1>8, <1>9, LinkSubstitutionDecides
<1> QED
  BY <1>9, <1>10 DEF last

\* What the builder of s comes to, r, when c was parsed after its "|".
NextLinked(s, c, inside, r) ==
    /\ r.ok <=> c.call # NULL
    /\ r.ok => /\ Called(r.p, inside) /\ (inside => (SubWrites(r.p) <=> SubWrites(c.p)))
               /\ r.b.fds[1] = s.b.fds[1]

\* The call after a "|" is linked if it was not refused.
LEMMA LinkNextDecides ==
    ASSUME NEW s, NEW h \in Context, NEW inside \in BOOLEAN, Going(s, h),
           NEW c, NextParsed(c, Within(s, h), inside), c.call # NULL => Called(c.p, inside),
           NEW r, r = LinkNext(c, s.b, inside)
    PROVE  NextLinked(s, c, inside, r)
<1> DEFINE p == c.p
           n == c.call
           q == OpenPipe(p)
           pipe == Len(p.pipes) + 1
           new == ReadsFrom(q.calls[n], pipe, q.pipes[pipe][1])
           linked == [q EXCEPT !.calls = [q.calls EXCEPT ![n] = new]]
           fds == [s.b.fds EXCEPT ![2] = q.pipes[pipe][2]]
           b == [s.b EXCEPT !.writes = s.b.writes \cup {pipe}, !.fds = fds]
           L == link_pipelines(p, s.b, n)
<1>1. r = IF n = NULL THEN Error(p, s.b)
          ELSE IF L.p.last # n \/ inside
               THEN Success(AddCallAtTheEnd(L.p, n), L.b) ELSE Success(L.p, L.b)
  BY DEF LinkNext
<1>2. L = [p |-> linked, b |-> b]
  BY DEF link_pipelines
<1> HIDE DEF L, b, linked
<1>3. r.ok <=> n # NULL
  BY <1>1 DEF Error, Success
<1>4. ASSUME n # NULL
      PROVE  /\ Called(r.p, inside) /\ (inside => (SubWrites(r.p) <=> SubWrites(c.p)))
             /\ r.b.fds[1] = s.b.fds[1]
  <2>1. /\ p \in Parse /\ n \in DOMAIN p.calls /\ Ordered(p, {n}) /\ SubInPlace(p, inside) /\ Called(p, inside)
    BY <1>4 DEF NextParsed, CallParsed
  <2>2. q \in Parse /\ q.calls = p.calls /\ q.last = p.last /\ q.sub = p.sub
    BY <2>1, OpenPipeFacts
  <2>3. s.b \in Builder /\ s.b.fds \in Seq(Int) /\ Len(s.b.fds) = 3
    BY DEF Going, BuilderApart, Builder
  <2>4. r.b = b /\ (r.p = linked \/ r.p = AddCallAtTheEnd(linked, n))
    BY <1>1, <1>2, <1>4 DEF Success
  <2>5. fds[1] = s.b.fds[1]
    BY <2>3
  <2> HIDE DEF fds, q
  <2>6. b.fds = fds
    BY <2>3 DEF b, Builder
  <2>7. q.calls[n].stdout = new.stdout
    <3>1. q.calls[n] \in CallType
      BY <2>1, <2>2, ParseFacts
    <3> DEFINE o == q.calls[n]
               f == q.pipes[pipe][1]
    <3> HIDE DEF o, f, pipe
    <3>2. o \in CallType /\ new = ReadsFrom(o, pipe, f)
      BY <3>1 DEF o, f
    <3> HIDE DEF new
    <3>3. new.stdout = o.stdout
      BY <3>2 DEF ReadsFrom, CallType
    <3> QED
      BY <3>3 DEF o
  <2> HIDE DEF new
  <2>8. linked.last = q.last /\ linked.sub = q.sub /\ linked.calls = [q.calls EXCEPT ![n] = new]
    BY <2>2 DEF linked, Parse
  <2>9. /\ linked \in [DOMAIN q -> {linked[x] : x \in DOMAIN q}]
        /\ {"last", "sub", "order", "calls"} \subseteq DOMAIN q
    BY <2>2 DEF linked, Parse
  <2>10. \E order : AddCallAtTheEnd(linked, n) = [linked EXCEPT !.order = order]
    BY DEF AddCallAtTheEnd
  <2>11. r.p.last = linked.last /\ r.p.sub = linked.sub /\ r.p.calls = linked.calls
    <3>1. CASE r.p = linked
      BY <3>1
    <3>2. CASE r.p = AddCallAtTheEnd(linked, n)
      BY <2>9, <2>10, <3>2
    <3> QED
      BY <2>4, <3>1, <3>2
  <2>12. Called(r.p, inside)
    BY <2>1, <2>2, <2>8, <2>11 DEF Called
  <2>13. ASSUME inside PROVE SubWrites(r.p) <=> SubWrites(c.p)
    <3>1. p.sub \in DOMAIN p.calls
      <4>1. p.sub >= 0 /\ p.sub # NULL /\ p.sub \in -1 .. Len(p.calls) /\ DOMAIN p.calls = 1 .. Len(p.calls)
            /\ Len(p.calls) \in Nat
        BY <2>1, <2>13, ParseFacts DEF SubInPlace, Called, Ordered, Addressed
      <4> QED
        BY <4>1 DEF NULL
    <3>2. q.calls \in Seq(CallType) /\ n \in DOMAIN q.calls /\ p.sub \in DOMAIN q.calls
      BY <2>1, <2>2, <3>1 DEF Parse
    <3>3. r.p.calls[r.p.sub].stdout = p.calls[p.sub].stdout
      BY <2>2, <2>7, <2>8, <2>11, <3>1, <3>2
    <3> QED
      BY <3>3 DEF SubWrites
  <2> QED
    BY <2>4, <2>5, <2>6, <2>12, <2>13
<1> QED
  BY <1>3, <1>4 DEF NextLinked

\* What comes of the tokens after a "|", when b is the builder of the call before it.
NextDecided(t, lo, hi, inside, b, r) ==
    /\ r.ok <=> AllAllowed(t, lo, hi, Reference!Level(t, lo))
    /\ r.ok => /\ Called(r.p, inside) /\ (inside => (SubWrites(r.p) <=> HasOutput(t, lo, hi)))
               /\ r.b.fds[1] = b.fds[1]

\* The call after a "|", if the loop it calls decides what it should.
LEMMA NextCallDecides ==
    ASSUME NEW g, NEW n \in Nat, LoopKeeps(g, n), LoopDecides(g, n),
           NEW t \in TokenSeq, NEW s, NEW h \in Context, NEW inside \in BOOLEAN, NEW i \in Nat, NEW hi \in Nat,
           Going(s, h), SubInPlace(s.p, inside), Fits(t, i, hi, n),
           NEW len, Text(t, len), Room(t, len, i, hi), ~Reference!IsFirst(t, i), Blank(s.p),
           NEW c, c = parse_command_call(g, t, s.p, i, hi, inside, TRUE),
           NEW r, r = LinkNext(c, s.b, inside)
    PROVE  NextDecided(t, i, hi, inside, s.b, r)
<1> DEFINE k == Within(s, h)
           p == s.p
           Call(pipeline) == parse_command_call(g, t, p, i, hi, inside, pipeline)
<1>1. StartsAt(p, k, inside) /\ k \in Context
  BY WithinStarts
<1>2. Blank(p) /\ c = Call(TRUE)
  OBVIOUS
<1> HIDE DEF k, p
<1>3. ASSUME NEW pipeline \in BOOLEAN, pipeline <=> ~Reference!IsFirst(t, i)
      PROVE  CallParsed(Call(pipeline), k, inside, pipeline) /\ CallDecided(t, i, hi, inside, Call(pipeline))
  <2>1. CallParsed(Call(pipeline), k, inside, pipeline)
    BY <1>1, CommandCallKeeps
  <2>2. CallDecided(t, i, hi, inside, Call(pipeline))
    BY <1>1, <1>2, <1>3, CommandCallDecides
  <2> QED
    BY <2>1, <2>2
<1> HIDE DEF Call
<1>4. CallParsed(c, k, inside, TRUE) /\ CallDecided(t, i, hi, inside, c)
  BY <1>2, <1>3
<1>5. NextParsed(c, Within(s, h), inside)
  BY <1>4 DEF NextParsed, k
<1>6. /\ c.call # NULL <=> AllAllowed(t, i, hi, Reference!Level(t, i))
      /\ c.call # NULL => Called(c.p, inside) /\ (inside => (SubWrites(c.p) <=> HasOutput(t, i, hi)))
  BY <1>4 DEF CallDecided
<1>7. c.call # NULL => Called(c.p, inside)
  BY <1>6
<1> HIDE DEF k
<1>8. NextLinked(s, c, inside, r)
  BY <1>5, <1>7, LinkNextDecides
<1> QED
  BY <1>6, <1>8 DEF NextLinked, NextDecided

\* What is not fine is refused.
LEMMA RefusedIsDecided ==
    ASSUME NEW t, NEW lo, NEW hi, NEW inside, NEW r, r.ok \in BOOLEAN, ~r.ok,
           \E k \in lo .. hi : ~Fine(t, lo, k)
    PROVE  Decided(t, lo, hi, inside, r)
BY DEF Decided

\* A ">" of what was read is of the call itself, or is not fine.
LEMMA OutputIsOwn ==
    ASSUME NEW t, NEW len, Text(t, len), NEW lo \in Nat, 0 < lo, Reference!IsStart(t, lo),
           NEW i \in Nat, i <= len + 1, Scanned(t, lo, i), NEW b, Seen(t, lo, i - 1, b), NEW k \in lo .. i - 1,
           t[k] = ">"
    PROVE  IsOf(t, lo, k)
<1>1. k <= len
  BY DEF Text
<1>2. ASSUME Allowed(t, k, Reference!Level(t, lo)) PROVE IsOf(t, lo, k)
  <2>1. Reference!Level(t, k) = Reference!Level(t, lo)
    BY <1>2 DEF Allowed, OutputAllowed
  <2> QED
    BY <1>1, <2>1, OwnIsLevel
<1> QED
  BY <1>2 DEF Seen

\* The end of a call.
LEMMA EndDecides ==
    ASSUME NEW t, NEW len, Text(t, len), NEW lo \in Nat, NEW hi \in Nat, Room(t, len, lo, hi),
           NEW i, i = hi + 1, Scanned(t, lo, i), NEW inside, NEW r, r.ok, r.ok \in BOOLEAN,
           Blank(r.p), Seen(t, lo, i - 1, r.b)
    PROVE  Decided(t, lo, hi, inside, r)
<1>1. 0 < lo /\ hi <= len /\ Reference!IsStart(t, lo) /\ i \in Nat /\ i <= len + 1 /\ i - 1 = hi /\ len \in Nat
  BY DEF Room, Text
<1>2. Seen(t, lo, hi, r.b)
  BY <1>1
<1>3. Reference!IsLast(t, lo)
  BY IsLastAtEnd
<1>4. ASSUME NEW k \in lo .. hi PROVE Fine(t, lo, k)
  <2>1. Opens(t, k) /\ (IsOf(t, lo, k) \/ Allowed(t, k, Reference!Level(t, lo)))
    BY <1>2 DEF Seen
  <2>2. ASSUME IsOf(t, lo, k) PROVE OutputAllowed(t, k, Reference!Level(t, lo))
    <3>1. k \in lo .. i - 1 /\ k <= len
      BY <1>1
    <3>2. Reference!Level(t, k) = Reference!Level(t, lo)
      BY <1>1, <2>2, <3>1, OwnIsLevel
    <3> QED
      BY <1>3, <2>2, <3>2 DEF OutputAllowed, IsOf
  <2> QED
    BY <2>1, <2>2 DEF Fine, Allowed
<1>5. HasOwn(t, ">", lo, hi) <=> HasOutput(t, lo, hi)
  <2>1. ASSUME NEW k \in lo .. hi, t[k] = ">" PROVE IsOf(t, lo, k)
    <3>1. k \in lo .. i - 1
      BY <1>1
    <3> QED
      BY <1>1, <2>1, <3>1, OutputIsOwn
  <2> QED
    BY <2>1 DEF HasOwn, HasOutput
<1> QED
  BY <1>2, <1>4, <1>5 DEF Decided, Seen

\* In a well-formed command the loop meets no symbol out of place.
LEMMA SymbolsInPlace ==
    ASSUME NEW t, NEW len, Text(t, len), NEW lo \in Nat, NEW hi \in Nat, Room(t, len, lo, hi),
           NEW i \in Nat, lo <= i, i <= hi, Scanned(t, lo, i), t[i] \in Symbols
    PROVE  i # lo /\ i # hi /\ t[i] # ")" /\ t[i + 1] \notin Symbols
<1> DEFINE Level(k) == Reference!Level(t, k)
           before == i - 1
<1>1. /\ len \in Nat /\ DOMAIN t = 1 .. len /\ t[1] \notin Symbols
      /\ \A k \in 1 .. len : t[k] \in Symbols \ {")"} => k < len /\ t[k + 1] \notin Symbols
  BY DEF Text, WellFormed
<1>2. 1 <= lo /\ lo <= hi /\ hi <= len /\ Reference!IsStart(t, lo) /\ Level(i) >= Level(lo)
      /\ (hi < len => t[hi + 1] = ")")
  BY DEF Room
<1>3. i # lo
  <2> SUFFICES ASSUME i = lo PROVE FALSE
    OBVIOUS
  <2>1. lo # 1 /\ t[lo - 1] \in {"|", "<("}
    BY <1>1, <1>2 DEF Reference!IsStart, Reference!LinkSymbols
  <2>2. lo - 1 \in 1 .. len /\ (lo - 1) + 1 = lo
    <3>1. lo # 1
      BY <2>1
    <3> QED
      BY <1>1, <1>2, <3>1
  <2>3. t[lo - 1] \in Symbols \ {")"}
    BY <2>1 DEF Symbols, redirection_caret_symbols
  <2>4. t[lo] \notin Symbols
    BY <1>1, <2>2, <2>3
  <2> QED
    BY <2>4
<1>4. t[i] # ")"
  <2> SUFFICES ASSUME t[i] = ")" PROVE FALSE
    OBVIOUS
  <2>1. lo < i /\ before \in Nat /\ before > 0 /\ before + 1 = i /\ before \in lo .. before /\ ~(before < before)
    BY <1>2, <1>3
  <2>2. Inside(t, lo, before) /\ Followed(t, lo, before)
    BY <2>1 DEF Scanned
  <2> HIDE DEF before
  <2>3. t[before] # "<("
    BY <2>1, <2>2 DEF Followed, Symbols, redirection_caret_symbols
  <2>4. Level(i) = Level(before) - 1 /\ Level(before) = Level(lo) /\ Level(lo) \in Int
    <3>1. Level(before) = Level(lo)
      BY <2>2 DEF Inside
    <3>2. Depth(t, before) \in Int /\ Depth(t, before + 1) = Depth(t, before) - 1
      <4>1. t[before + 1] = ")"
        BY <2>1
      <4> QED
        BY <2>1, <4>1, DepthStep
    <3>3. Level(before) = Depth(t, before) /\ Level(i) = Depth(t, i)
      <4>1. t[i] # "<("
        OBVIOUS
      <4> QED
        BY <2>1, <2>3, <4>1, LevelIsDepth
    <3> HIDE DEF Level
    <3>4. Depth(t, before + 1) = Depth(t, i)
      BY <2>1
    <3> QED
      BY <3>1, <3>2, <3>3, <3>4
  <2> HIDE DEF Level
  <2> QED
    BY <1>2, <2>4
<1>5. i < len /\ t[i + 1] \notin Symbols
  BY <1>1, <1>2, <1>4
<1>6. i # hi
  BY <1>2, <1>5 DEF Symbols, redirection_caret_symbols
<1> QED
  BY <1>3, <1>4, <1>5, <1>6

\* After a "|" come the calls that follow it; before it nothing may be written to a file.
LEMMA PipeDecides ==
    ASSUME NEW t, NEW len, Text(t, len), NEW lo \in Nat, NEW hi \in Nat, Room(t, len, lo, hi),
           NEW i \in Nat, lo < i, i < hi, Scanned(t, lo, i), t[i] = "|", t[i + 1] \notin Symbols,
           NEW b, Seen(t, lo, i - 1, b), b.fds[2] = UNINITIALIZED_FD,
           NEW inside, NEW r, r.ok \in BOOLEAN, NextDecided(t, i + 1, hi, inside, b, r)
    PROVE  Decided(t, lo, hi, inside, r)
<1> DEFINE j == i + 1
           level == Reference!Level(t, lo)
           before == i - 1
<1>1. /\ 0 < lo /\ hi <= len /\ Reference!IsStart(t, lo) /\ len \in Nat /\ i <= len + 1 /\ j \in Nat /\ lo < j
      /\ t[i] # ")" /\ t[i] \notin {"<", ">", "2>"}
  BY DEF Room, Text, Symbols, redirection_caret_symbols
<1>2. Inside(t, lo, i)
  BY <1>1, NextIsInside
<1>3. Room(t, len, j, hi) /\ Reference!Level(t, j) = level
  <2>1. Room(t, len, i + 1, hi) /\ Reference!Level(t, i + 1) = Reference!Level(t, lo)
    <3>1. len \in Nat
      BY <1>1
    <3> QED
      BY <1>2, <3>1, RoomAfterPipe
  <2> QED
    BY <2>1
<1>4. Reference!IsStart(t, j)
  BY <1>3 DEF Room
<1>5. ASSUME NEW k \in j .. hi PROVE ~IsOf(t, lo, k)
  <2>1. k \in j .. len
    BY <1>1
  <2> QED
    BY <1>1, <1>3, <1>4, <2>1, NotOwnAfter
<1>6. ASSUME NEW k \in lo .. before, t[k] = ">" PROVE FALSE
  <2>1. IsOf(t, lo, k)
    BY <1>1, <1>6, OutputIsOwn
  <2>2. HasOwn(t, ">", lo, i - 1)
    BY <1>6, <2>1 DEF HasOwn
  <2> QED
    BY <2>2 DEF Seen
<1>7. /\ \A k \in lo .. hi : k \in lo .. before \/ k = i \/ k \in j .. hi
      /\ \A k \in lo .. before : k \in lo .. hi
      /\ \A k \in j .. hi : k \in lo .. hi
  OBVIOUS
<1>8. /\ b.fds[1] # UNINITIALIZED_FD <=> HasOwn(t, "<", lo, before)
      /\ \A k \in lo .. before : Opens(t, k) /\ (IsOf(t, lo, k) \/ Allowed(t, k, level))
  BY DEF Seen
<1>9. /\ r.ok <=> AllAllowed(t, j, hi, level)
      /\ r.ok => /\ Called(r.p, inside) /\ (inside => (SubWrites(r.p) <=> HasOutput(t, j, hi)))
                 /\ r.b.fds[1] = b.fds[1]
  BY <1>3 DEF NextDecided
<1> HIDE DEF before, j, level
<1>10. Fine(t, lo, i)
  BY <1>1 DEF Fine, Opens, InputAllowed, OutputAllowed
<1>11. ASSUME NEW k \in lo .. before PROVE Fine(t, lo, k)
  BY <1>6, <1>8 DEF Fine, Allowed, OutputAllowed, level
<1>12. ASSUME NEW k \in j .. hi PROVE Fine(t, lo, k) <=> Allowed(t, k, level)
  BY <1>5 DEF Fine, Allowed, level
<1>13. r.ok <=> \A k \in lo .. hi : Fine(t, lo, k)
  BY <1>7, <1>9, <1>10, <1>11, <1>12 DEF AllAllowed
<1>14. HasOutput(t, j, hi) <=> HasOutput(t, lo, hi)
  BY <1>1, <1>6, <1>7 DEF HasOutput
<1>15. HasOwn(t, "<", lo, before) <=> HasOwn(t, "<", lo, hi)
  BY <1>1, <1>5, <1>7 DEF HasOwn
<1> QED
  BY <1>8, <1>9, <1>13, <1>14, <1>15 DEF Decided

\* A call whose output goes to a pipe may have no output symbol before it.
LEMMA OutputBeforePipe ==
    ASSUME NEW t, NEW len, Text(t, len), NEW lo \in Nat, NEW hi \in Nat, Room(t, len, lo, hi),
           NEW i \in Nat, lo < i, i < hi, Scanned(t, lo, i), t[i] = "|",
           HasOwn(t, ">", lo, i - 1)
    PROVE  \E k \in lo .. hi : ~Fine(t, lo, k)
<1>1. 0 < lo /\ hi <= len /\ Reference!IsStart(t, lo) /\ len \in Nat /\ i \in 1 .. len /\ t[i] # ")"
  BY DEF Room, Text, Symbols, redirection_caret_symbols
<1>2. Belongs(t, lo, i)
  BY <1>1, NextIsInside DEF Belongs
<1>3. ~Reference!IsLast(t, lo)
  BY <1>1, <1>2, IsNotLast
<1>4. PICK k \in lo .. i - 1 : t[k] = ">" /\ IsOf(t, lo, k)
  BY DEF HasOwn
<1>5. ~Fine(t, lo, k) /\ k \in lo .. hi
  BY <1>3, <1>4 DEF Fine, OutputAllowed, IsOf
<1> QED
  BY <1>5

\* What is between the parentheses of a substitution may not write to a file at all.
LEMMA SubstitutionSeen ==
    ASSUME NEW t, NEW len, Text(t, len), NEW lo \in Nat, NEW hi \in Nat, Room(t, len, lo, hi),
           NEW i \in Nat, lo < i, NEW end \in i + 2 .. hi, t[i] = "<(", t[end] = ")",
           \A k \in i + 1 .. end - 1 : Reference!Level(t, k) > Reference!Level(t, lo),
           NEW b, Seen(t, lo, i - 1, b), NEW s, NEW level,
           s.ok <=> AllAllowed(t, i + 1, end - 1, level) /\ ~HasOutput(t, i + 1, end - 1),
           s.ok => s.b.fds = b.fds
    PROVE  /\ s.ok => Seen(t, lo, end, s.b)
           /\ ~s.ok => \E k \in lo .. hi : ~Fine(t, lo, k)
<1>1. Reference!Level(t, lo) \in Int /\ 0 < lo /\ hi <= len /\ len \in Nat
  BY LevelIsInt DEF Room, Text
<1>2. ASSUME NEW k \in i + 1 .. end - 1
      PROVE  /\ ~IsOf(t, lo, k) /\ k \in lo .. hi
             /\ Allowed(t, k, level) /\ t[k] # ">" <=> Allowed(t, k, Reference!Level(t, lo))
             /\ Fine(t, lo, k) <=> Allowed(t, k, Reference!Level(t, lo))
  <2>1. k \in lo .. hi /\ k \in 1 .. len /\ lo \in 1 .. k
    BY <1>1
  <2>2. Reference!Level(t, k) # Reference!Level(t, lo)
    BY <1>1
  <2>3. ~IsOf(t, lo, k)
    BY <2>1, <2>2, IsOfBelongs DEF Belongs, Inside
  <2> QED
    BY <2>1, <2>2, <2>3 DEF Allowed, Fine, OutputAllowed
<1>3. ASSUME s.ok PROVE Seen(t, lo, end, s.b)
  <2>1. ASSUME NEW k \in i .. end
        PROVE  \/ t[k] \notin {"<", ">", "2>"}
               \/ ~IsOf(t, lo, k) /\ Allowed(t, k, Reference!Level(t, lo))
    <3>1. k = i \/ k = end \/ k \in i + 1 .. end - 1
      OBVIOUS
    <3>2. ASSUME k \in i + 1 .. end - 1 PROVE ~IsOf(t, lo, k) /\ Allowed(t, k, Reference!Level(t, lo))
      BY <1>2, <1>3, <3>2 DEF AllAllowed, HasOutput
    <3>3. t[i] \notin {"<", ">", "2>"} /\ t[end] \notin {"<", ">", "2>"}
      OBVIOUS
    <3> QED
      BY <3>1, <3>2, <3>3
  <2>2. Seen(t, lo, i - 1, s.b)
    BY <1>3 DEF Seen
  <2>3. end \in Nat /\ i <= end /\ lo <= i
    OBVIOUS
  <2> QED
    BY <2>1, <2>2, <2>3, SeenMore
<1>4. ASSUME ~s.ok PROVE \E k \in lo .. hi : ~Fine(t, lo, k)
  BY <1>2, <1>4 DEF AllAllowed, HasOutput
<1> QED
  BY <1>3, <1>4

\* A turn of the loop decides what it should.
LEMMA TurnDecides ==
    ASSUME NEW g, NEW n \in Nat, LoopKeeps(g, n), LoopWires(g, n), LoopDecides(g, n),
           NEW a \in Frame, NEW h \in Context, NEW len \in Nat, Text(a.t, len), Room(a.t, len, a.lo, a.hi),
           Ready(a, h), a.r.ok, a.hi + 1 - a.i <= n + 1,
           Scanned(a.t, a.lo, a.i), Blank(a.r.p), Seen(a.t, a.lo, a.i - 1, a.r.b),
           NEW r, r = ParseTokens(g, a), r.ok \in BOOLEAN
    PROVE  Decided(a.t, a.lo, a.hi, a.inside_substitution, r)
<1> DEFINE t == a.t
           lo == a.lo
           hi == a.hi
           j == a.i
           inside == a.inside_substitution
           symbol == t[j]
           next == t[j + 1]
           Continue(s, i) == [a EXCEPT !.r = s, !.i = i]
<1>1. /\ a.r \in Result /\ t \in TokenSeq /\ lo \in Nat /\ j \in Nat /\ hi \in Nat
      /\ inside \in BOOLEAN
  BY DEF Frame, Result, TokenSeq, Symbols
<1>2. /\ Going(a.r, h) /\ SubInPlace(a.r.p, inside) /\ FilesOnly(a.r)
      /\ 1 <= lo /\ lo <= j /\ lo <= hi /\ j <= hi + 1 /\ hi <= Len(t)
  BY DEF Ready
<1>3. Scanned(t, lo, j) /\ hi + 1 - j <= n + 1 /\ 0 < lo /\ lo <= j /\ lo <= hi
  BY <1>1, <1>2
<1>4. Text(t, len) /\ Room(t, len, lo, hi) /\ Blank(a.r.p) /\ Seen(t, lo, j - 1, a.r.b)
  OBVIOUS
(* What is decided once the loop goes on with s at token i. *)
<1>5. ASSUME NEW s \in Result, NEW i \in Nat, r = g[Continue(s, i)],
             s.ok => /\ Going(s, h) /\ SubInPlace(s.p, inside) /\ FilesOnly(s)
                     /\ j < i /\ i <= hi + 1 /\ Scanned(t, lo, i) /\ Blank(s.p) /\ Seen(t, lo, i - 1, s.b),
             ~s.ok => \E k \in lo .. hi : ~Fine(t, lo, k)
      PROVE  Decided(t, lo, hi, inside, r)
  <2> DEFINE f == Continue(s, i)
  <2>1. /\ f.r = s /\ f.i = i /\ f.t = t /\ f.lo = lo /\ f.hi = hi
        /\ f.inside_substitution = inside
    BY DEF Frame
  <2>2. f \in Frame
    BY <1>5 DEF Frame, Result
  <2>3. r = g[f]
    BY <1>5
  <2> HIDE DEF f, t, lo, hi, j, inside
  <2>4. CASE s.ok
    <3>1. Ready(f, h) /\ f.hi + 1 - f.i <= n
      BY <1>1, <1>2, <1>3, <1>5, <2>1, <2>4 DEF Ready
    <3> QED
      BY <1>4, <1>5, <2>1, <2>2, <2>3, <2>4, <3>1 DEF LoopDecides
  <2>5. CASE ~s.ok
    <3>1. ~r.ok
      BY <2>1, <2>2, <2>3, <2>5 DEF LoopWires
    <3>2. \E k \in lo .. hi : ~Fine(t, lo, k)
      BY <1>5, <2>5
    <3> QED
      BY <3>1, <3>2, RefusedIsDecided
  <2> QED
    BY <2>4, <2>5
<1>6. CASE j > hi
  <2>1. j = hi + 1
    BY <1>1, <1>2, <1>6
  <2>2. r = a.r
    BY <1>6 DEF ParseTokens
  <2>3. Decided(t, lo, hi, inside, r)
    <3> HIDE DEF t, lo, hi, j, inside
    <3>1. Blank(r.p) /\ Seen(t, lo, j - 1, r.b) /\ r.ok
      BY <1>4, <2>2
    <3> QED
      BY <1>1, <1>3, <1>4, <2>1, <3>1, EndDecides
  <2> QED
    BY <2>3
<1>7. CASE j <= hi /\ symbol \notin Symbols
  <2>1. r = g[Continue(a.r, j + 1)]
    BY <1>1, <1>7 DEF ParseTokens, Symbols
  <2>2. j + 1 \in Nat /\ j < j + 1 /\ j + 1 <= hi + 1 /\ (j + 1) - 1 = j
    BY <1>1, <1>7
  <2>3. Scanned(t, lo, j + 1)
    <3> HIDE DEF t, lo, hi, j
    <3> QED
      BY <1>1, <1>2, <1>3, <1>7, WordScanned
  <2>4. Seen(t, lo, j, a.r.b)
    <3>1. \A k \in j .. j : t[k] \notin {"<", ">", "2>"}
      BY <1>7 DEF Symbols, redirection_caret_symbols
    <3> HIDE DEF t, lo, hi, j
    <3> QED
      BY <1>1, <1>3, <1>4, <3>1, SeenMore
  <2>5. Seen(t, lo, (j + 1) - 1, a.r.b)
    BY <2>2, <2>4
  <2> QED
    BY <1>1, <1>2, <1>4, <1>5, <2>1, <2>2, <2>3, <2>5
<1>8. CASE j <= hi /\ symbol \in Symbols
  <2>1. ~(j > hi) /\ len = Len(t)
    BY <1>1, <1>8 DEF Text
  <2>2. j # lo /\ j # hi /\ symbol # ")" /\ next \notin Symbols
    <3> HIDE DEF t, lo, hi, j
    <3> QED
      BY <1>1, <1>3, <1>4, <1>8, SymbolsInPlace
  <2>3. j + 1 \in Nat /\ j + 1 <= hi /\ lo < j /\ j < hi
    <3>1. j <= hi /\ lo <= j /\ j # lo /\ j # hi /\ lo \in Nat /\ j \in Nat /\ hi \in Nat
      BY <1>1, <1>2, <1>8, <2>2
    <3> HIDE DEF lo, hi, j
    <3> QED
      BY <3>1
  <2>4. symbol # ")" /\ Inside(t, lo, j) /\ Alone(t, lo, j)
    <3> HIDE DEF t, lo, hi, j
    <3> QED
      BY <1>1, <1>3, <2>2, <2>3, NextIsInside
  <2>5. CASE symbol = "<("
    <3> DEFINE end == ClosingPosition(t, j + 1, hi)
               s == parse_command_substitution(g, t, a.r.p, a.r.b, j + 1, end)
    <3>1. r = g[Continue(s, end + 1)]
      BY <1>8, <2>1, <2>2, <2>5 DEF ParseTokens, Symbols
    <3>2. end \in j + 2 .. hi /\ t[end] = ")" /\ Scanned(t, lo, end + 1)
          /\ Room(t, len, j + 1, end - 1)
          /\ \A k \in j + 1 .. end - 1 : Reference!Level(t, k) > Reference!Level(t, lo)
      <4> HIDE DEF t, lo, hi, j
      <4>1. len > 0 /\ hi <= len /\ lo \in 1 .. len /\ j + 1 \in Nat /\ Len(t) \in Nat
        BY <1>1, <1>2, <1>3, <1>4, <2>1, <2>3
      <4>2. Depth(t, len) = 0 /\ Followed(t, 1, len) /\ Reference!Level(t, lo) >= 0
        BY <1>1, <1>4, <2>1, <4>1, WellFormedFacts DEF Text
      <4>3. /\ end \in j + 2 .. hi
            /\ Room(t, len, j + 1, end - 1)
            /\ \A k \in j + 1 .. end - 1 : Reference!Level(t, k) > Reference!Level(t, lo)
        BY <1>1, <1>4, <2>1, <2>2, <2>3, <2>4, <2>5, <4>2, RoomInside
      <4>4. end \in Nat /\ end # 0 /\ end \in j + 1 .. hi /\ end - 1 < len /\ end - 1 \in j + 1 .. len
        BY <1>1, <4>1, <4>3
      <4>5. t[end] = ")"
        BY <1>1, <1>3, <2>3, <4>4, ClosingIsFirst
      <4>6. Followed(t, j + 1, end - 1)
        <5> HIDE DEF end
        <5>1. ASSUME NEW k \in j + 1 .. end - 1
              PROVE  k \in 1 .. len /\ k < end /\ (k = end - 1 \/ k < end - 1) /\ (k = end - 1 => k + 1 = end)
          BY <1>1, <4>1, <4>4
        <5>2. t[end] \in Symbols
          BY <4>5 DEF Symbols, redirection_caret_symbols
        <5> QED
          BY <4>2, <5>1, <5>2 DEF Followed
      <4>7. Scanned(t, lo, end + 1)
        BY <1>1, <1>2, <1>3, <2>1, <2>2, <2>3, <2>5, <4>1, <4>4, <4>6, SubstitutionScanned
      <4> QED
        BY <4>3, <4>5, <4>7
    <3>3. end \in Nat /\ end + 1 \in Nat /\ end # 0 /\ j < end + 1 /\ end + 1 <= hi + 1 /\ (end + 1) - 1 = end
      BY <1>1, <3>2
    <3>4. EndFits(t, j + 1, end, n)
      <4>1. hi <= Len(t) /\ end \in j + 2 .. hi /\ Len(t) \in Nat
        BY <1>1, <1>2, <3>2, LenProperties DEF TokenSeq
      <4> HIDE DEF t, lo, hi, j, end
      <4> QED
        BY <1>1, <1>2, <1>3, <4>1 DEF EndFits, Fits
    <3> DEFINE i == j + 1
               b == a.r.b
    <3>5. /\ i \in Nat /\ s = parse_command_substitution(g, t, a.r.p, b, i, end) /\ EndFits(t, i, end, n)
          /\ Room(t, len, i, end - 1)
      BY <2>3, <3>2, <3>4
    <3>6. Reference!IsFirst(t, i)
      BY <1>1, <2>5 DEF Reference!IsFirst
    <3> HIDE DEF i, s, end, b
    <3>7. /\ s \in Result
          /\ s.ok => Going(s, h) /\ SubInPlace(s.p, inside) /\ FilesOnly(s)
      <4> DEFINE from == a.r
      <4>1. Going(from, h) /\ FilesOnly(from) /\ s = parse_command_substitution(g, t, from.p, from.b, i, end)
        BY <1>2, <3>5 DEF b
      <4>2. t \in TokenSeq /\ i \in Nat /\ end \in Nat /\ EndFits(t, i, end, n) /\ inside \in BOOLEAN
        BY <1>1, <3>3, <3>5
      <4> HIDE DEF from, t, inside
      <4> QED
        BY <4>1, <4>2, CommandSubstitutionKeeps
    <3>8. /\ s.ok <=> AllAllowed(t, i, end - 1, Reference!Level(t, i)) /\ ~HasOutput(t, i, end - 1)
          /\ s.ok => Blank(s.p) /\ s.b.fds = b.fds
      <4> DEFINE from == a.r
      <4>1. Going(from, h) /\ FilesOnly(from) /\ s = parse_command_substitution(g, t, from.p, from.b, i, end)
            /\ Blank(from.p) /\ b = from.b
        BY <1>2, <1>4, <3>5 DEF b
      <4> HIDE DEF from, t
      <4> QED
        BY <1>1, <1>4, <3>3, <3>5, <3>6, <4>1, CommandSubstitutionDecides
    <3>9. /\ s.ok => Seen(t, lo, end, s.b)
          /\ ~s.ok => \E k \in lo .. hi : ~Fine(t, lo, k)
      <4>1. Seen(t, lo, j - 1, b)
        BY <1>4 DEF b
      <4> DEFINE level == Reference!Level(t, i)
      <4>2. /\ s.ok <=> AllAllowed(t, j + 1, end - 1, level) /\ ~HasOutput(t, j + 1, end - 1)
            /\ s.ok => s.b.fds = b.fds
        BY <3>8 DEF i
      <4> HIDE DEF t, lo, hi, j, level
      <4> QED
        BY <1>1, <1>4, <2>3, <2>5, <3>2, <4>1, <4>2, SubstitutionSeen
    <3>10. Seen(t, lo, (end + 1) - 1, s.b) <=> Seen(t, lo, end, s.b)
      BY <3>3
    <3> QED
      BY <1>5, <3>1, <3>2, <3>3, <3>7, <3>8, <3>9, <3>10
  <2>6. CASE symbol = "|"
    <3> DEFINE i == j + 1
               s == a.r
               b == s.b
               c == parse_command_call(g, t, s.p, i, hi, inside, TRUE)
               last == j - 1
    <3>1. Seen(t, lo, last, b)
      BY <1>4
    <3>2. CASE b.fds[2] # UNINITIALIZED_FD
      <4>1. ~r.ok
        BY <1>8, <2>1, <2>2, <2>6, <3>2 DEF ParseTokens, Symbols, Error
      <4>2. HasOwn(t, ">", lo, j - 1)
        BY <3>1, <3>2 DEF Seen
      <4> HIDE DEF t, lo, hi, j, inside
      <4>3. \E k \in lo .. hi : ~Fine(t, lo, k)
        BY <1>1, <1>3, <1>4, <2>3, <2>6, <4>2, OutputBeforePipe
      <4>4. Decided(t, lo, hi, inside, r)
        BY <4>1, <4>3, RefusedIsDecided
      <4> QED
        BY <4>4 DEF t, lo, hi, inside
    <3>3. CASE b.fds[2] = UNINITIALIZED_FD
      <4>1. r = LinkNext(c, s.b, inside)
        BY <1>8, <2>1, <2>2, <2>6, <3>3 DEF ParseTokens, Symbols
      <4>2. /\ i \in Nat /\ Fits(t, i, hi, n) /\ inside \in BOOLEAN
            /\ Going(s, h) /\ SubInPlace(s.p, inside) /\ Blank(s.p)
        <5>1. Fits(t, i, hi, n)
          <6>1. hi <= Len(t) /\ Len(t) \in Nat
            BY <1>1, <1>2, LenProperties DEF TokenSeq
          <6> HIDE DEF t, lo, hi, j
          <6> QED
            BY <1>1, <1>3, <2>3, <6>1 DEF Fits
        <5> QED
          BY <1>1, <1>2, <1>4, <2>3, <5>1
      <4>3. ~Reference!IsFirst(t, i)
        BY <1>1, <2>3, <2>6 DEF Reference!IsFirst
      <4>4. Room(t, len, i, hi)
        <5>1. Room(t, len, j + 1, hi)
          <6> HIDE DEF t, lo, hi, j
          <6> QED
            BY <1>1, <1>4, <2>2, <2>3, <2>4, <2>6, RoomAfterPipe
        <5> QED
          BY <5>1
      <4>5. c = parse_command_call(g, t, s.p, i, hi, inside, TRUE)
        OBVIOUS
      <4> HIDE DEF s, inside, t, hi, i, c
      <4>6. NextDecided(t, i, hi, inside, s.b, r)
        <5>1. t \in TokenSeq /\ hi \in Nat /\ Text(t, len)
          BY <1>1, <1>4
        <5> QED
          BY <4>1, <4>2, <4>3, <4>4, <4>5, <5>1, NextCallDecides
      <4>7. NextDecided(t, j + 1, hi, inside, b, r)
        BY <4>6 DEF i
      <4> HIDE DEF j, lo, b, last
      <4>8. Seen(t, lo, j - 1, b)
        BY <3>1 DEF last
      <4>9. Decided(t, lo, hi, inside, r)
        BY <1>1, <1>3, <1>4, <2>2, <2>3, <2>6, <3>3, <4>7, <4>8, PipeDecides
      <4> QED
        BY <4>9 DEF t, lo, hi, inside
    <3> QED
      BY <3>2, <3>3
  <2>7. CASE symbol # "<(" /\ symbol # "|"
    <3> DEFINE s == parse_redirections(a.r.p, a.r.b, symbol, next)
    <3>1. r = g[Continue(s, j + 2)]
      BY <1>8, <2>1, <2>2, <2>7 DEF ParseTokens, Symbols
    <3>2. symbol \in {"<", ">", "2>"}
      BY <1>8, <2>2, <2>7 DEF Symbols, redirection_caret_symbols
    <3>3. Scanned(t, lo, j + 2)
      <4> HIDE DEF t, lo, hi, j
      <4> QED
        BY <1>1, <1>2, <1>3, <2>2, <2>3, <3>2, RedirectionScanned
    <3>4. s \in Result /\ (s.ok => Going(s, h) /\ FilesOnly(s) /\ s.p.sub = a.r.p.sub)
      <4> HIDE DEF symbol, next
      <4> QED
        BY <1>2, RedirectionKeeps
    <3>5. Redirected(a.r, symbol, next, s)
      <4> HIDE DEF symbol, next
      <4>1. ASSUME NEW x \in {"<", ">", "2>"} PROVE Redirected(a.r, x, next, parse_redirections(a.r.p, a.r.b, x, next))
        BY <1>2, RedirectionDecides
      <4> QED
        BY <3>2, <4>1
    <3> HIDE DEF s
    <3>6. s.ok => SubInPlace(s.p, inside) /\ Blank(s.p)
      BY <1>2, <1>4, <3>4, <3>5 DEF SubInPlace, Blank, Redirected
    <3>7. j + 2 \in Nat /\ j < j + 2 /\ j + 2 <= hi + 1 /\ (j + 2) - 1 = j + 1
      BY <1>1, <2>3
    <3>8. IsOf(t, lo, j)
      <4> HIDE DEF t, lo, hi, j
      <4>1. lo \in 1 .. j /\ j \in 1 .. len
        BY <1>1, <1>3, <1>4, <2>3 DEF Room
      <4> QED
        BY <1>4, <2>4, <4>1, IsOfBelongs DEF Belongs, Room
    <3>9. s.ok => Seen(t, lo, j + 1, s.b)
      <4> DEFINE b == a.r.b
                 d == s.b
      <4>1. Seen(t, lo, j - 1, b)
        BY <1>4
      <4>2. ASSUME s.ok PROVE /\ next \notin Unopenable
                              /\ d.fds[1] # UNINITIALIZED_FD <=> b.fds[1] # UNINITIALIZED_FD \/ symbol = "<"
                              /\ d.fds[2] # UNINITIALIZED_FD <=> b.fds[2] # UNINITIALIZED_FD \/ symbol = ">"
        BY <3>5, <4>2 DEF Redirected
      <4> HIDE DEF b, d, t, lo, hi, j
      <4>3. s.ok => Seen(t, lo, j + 1, d)
        BY <1>1, <1>3, <2>2, <3>2, <3>8, <4>1, <4>2, SeenFile
      <4> QED
        BY <4>3 DEF d
    <3>10. s.ok => Seen(t, lo, (j + 2) - 1, s.b)
      BY <3>7, <3>9
    <3>11. ~s.ok => \E k \in lo .. hi : ~Fine(t, lo, k)
      <4>1. j \in lo .. hi
        BY <1>1, <1>3, <1>8
      <4> HIDE DEF t, lo, hi, j
      <4>2. ~s.ok => ~Fine(t, lo, j)
        BY <3>2, <3>5 DEF Fine, Opens, Redirected
      <4> QED
        BY <4>1, <4>2
    <3> QED
      BY <1>5, <3>1, <3>3, <3>4, <3>6, <3>7, <3>10, <3>11
  <2> QED
    BY <2>5, <2>6, <2>7
<1>9. Decided(t, lo, hi, inside, r)
  BY <1>1, <1>6, <1>7, <1>8
<1> QED
  BY <1>9

\* So the loop decides what it should, however many tokens there are.
LEMMA LoopsDecide ==
    \A n \in Nat : LoopDecides(Loops[n], n)
<1> DEFINE Deciding == {n \in Nat : LoopDecides(Loops[n], n)}
<1>1. 0 \in Deciding
  <2>1. \A a \in Frame : Loops[0][a] = a.r
    BY LoopsUnfold DEF NoTurn
  <2>2. ASSUME NEW a \in Frame, NEW h \in Context, NEW len \in Nat,
               Text(a.t, len), Room(a.t, len, a.lo, a.hi),
               Ready(a, h), a.r.ok, a.hi + 1 - a.i <= 0,
               Scanned(a.t, a.lo, a.i), Blank(a.r.p), Seen(a.t, a.lo, a.i - 1, a.r.b)
        PROVE  Decided(a.t, a.lo, a.hi, a.inside_substitution, a.r)
    <3> DEFINE lo == a.lo
               hi == a.hi
               i == a.i
               t == a.t
               inside == a.inside_substitution
               r == a.r
    <3>1. lo \in Nat /\ hi \in Nat /\ lo <= hi /\ i = hi + 1 /\ r.ok \in BOOLEAN
      <4>1. lo \in Nat /\ hi \in Nat /\ i \in Nat /\ r.ok \in BOOLEAN
        BY DEF Frame
      <4>2. lo <= hi /\ i <= hi + 1 /\ hi + 1 - i <= 0
        BY <2>2 DEF Ready
      <4> HIDE DEF lo, hi, i
      <4> QED
        BY <4>1, <4>2
    <3>2. Text(t, len) /\ Room(t, len, lo, hi) /\ Scanned(t, lo, i) /\ r.ok /\ Blank(r.p) /\ Seen(t, lo, i - 1, r.b)
      BY <2>2
    <3> HIDE DEF lo, hi, i, t, r, inside
    <3>3. Decided(t, lo, hi, inside, r)
      BY <3>1, <3>2, EndDecides
    <3> QED
      BY <3>3 DEF lo, hi, t, r, inside
  <2> QED
    BY <2>1, <2>2 DEF LoopDecides
<1>2. ASSUME NEW n \in Nat, n \in Deciding PROVE n + 1 \in Deciding
  <2>1. LoopDecides(Loops[n], n) /\ LoopWires(Loops[n], n) /\ LoopKeeps(Loops[n], n)
    BY <1>2, LoopsKeep, LoopsWire
  <2>2. ASSUME NEW a \in Frame PROVE Loops[n + 1][a] = ParseTokens(Loops[n], a)
    BY LoopsUnfold DEF OneTurn
  <2>3. ASSUME NEW a \in Frame, NEW h \in Context, NEW len \in Nat,
               Text(a.t, len), Room(a.t, len, a.lo, a.hi),
               Ready(a, h), a.r.ok, a.hi + 1 - a.i <= n + 1,
               Scanned(a.t, a.lo, a.i), Blank(a.r.p), Seen(a.t, a.lo, a.i - 1, a.r.b)
        PROVE  Decided(a.t, a.lo, a.hi, a.inside_substitution, Loops[n + 1][a])
    <3> DEFINE r == Loops[n + 1][a]
    <3>1. r.ok \in BOOLEAN
      <4>1. Done(a, h, r)
        BY <2>3, LoopsKeep DEF LoopKeeps
      <4> QED
        BY <4>1 DEF Done, Result
    <3>2. r = ParseTokens(Loops[n], a)
      BY <2>2
    <3> HIDE DEF r
    <3>3. Decided(a.t, a.lo, a.hi, a.inside_substitution, r)
      BY <2>1, <2>3, <3>1, <3>2, TurnDecides
    <3> QED
      BY <3>3 DEF r
  <2>4. LoopDecides(Loops[n + 1], n + 1)
    BY <2>3 DEF LoopDecides
  <2> QED
    BY <2>4
<1>3. Nat \subseteq Deciding
  <2> HIDE DEF Deciding
  <2> QED
    BY <1>1, <1>2, Induction
<1> QED
  BY <1>3

\* A command starts at the outermost level and has all the room there is.
LEMMA WholeText ==
    ASSUME NEW t \in TokenSeq, NEW n, n = Len(t), t # <<>>, WellFormed(t)
    PROVE  Text(t, n) /\ Room(t, n, 1, n) /\ Reference!Level(t, 1) = 0
<1>1. n \in Nat /\ DOMAIN t = 1 .. n
  BY LenProperties DEF TokenSeq
<1>2. n > 0
  BY <1>1, EmptySeq DEF TokenSeq
<1>3. t[1] \notin Symbols /\ \A k \in 1 .. n : Reference!Level(t, k) >= 0
  BY <1>1 DEF WellFormed, Reference!Balanced
<1>4. Reference!Level(t, 1) = 0
  BY <1>3, DepthAtStart
<1>5. Text(t, n)
  BY <1>1 DEF Text
<1>6. 1 <= 1 /\ 1 <= n /\ n <= n /\ ~(n < n) /\ Reference!IsStart(t, 1)
  BY <1>1, <1>2 DEF Reference!IsStart
<1> QED
  BY <1>3, <1>4, <1>5, <1>6 DEF Room

\* What parse_command returns.
LEMMA EndOfCommandDecides ==
    ASSUME NEW r, r.call # NULL => r.p \in Parse /\ r.p.sub = NULL, NEW c, c = EndOfCommand(r)
    PROVE  c.ok \in BOOLEAN /\ (c.ok <=> r.call # NULL) /\ (c.ok => c.sub = NULL)
<1>1. CASE r.call = NULL
  BY <1>1 DEF EndOfCommand
<1>2. CASE r.call # NULL
  <2> DEFINE p == IF r.p.last # NULL /\ (r.call = NULL \/ r.call # r.p.last)
                  THEN AddCallAtTheEnd(r.p, IF r.call = NULL THEN r.p.last ELSE r.call) ELSE r.p
  <2>1. c.ok = TRUE /\ c.sub = p.sub
    BY <1>2 DEF EndOfCommand
  <2>2. \A call : AddCallAtTheEnd(r.p, call).sub = r.p.sub
    BY <1>2 DEF AddCallAtTheEnd, Parse
  <2>3. p.sub = r.p.sub
    BY <2>2
  <2> QED
    BY <1>2, <2>1, <2>3
<1> QED
  BY <1>1, <1>2

(* parse_command (:594-651) takes the sequences of tokens that project.md  *)
(* calls commands and refuses all others, whatever their length and        *)
(* whatever numbers its calls are given; one it takes leaves the static    *)
(* variable of the last substitution NULL.                                 *)
THEOREM CommandDecides ==
    ASSUME NEW t \in TokenSeq, NEW from \in Nat, from > 1,
           NEW c, c = parse_command(t, NULL, from)
    PROVE  c.ok \in BOOLEAN /\ (c.ok <=> Reference!IsCommand(t)) /\ (c.ok => c.sub = NULL)
<1>1. CASE t = <<>>
  BY <1>1 DEF parse_command, Reference!IsCommand
<1>2. CASE t # <<>>
  <2> DEFINE n == Len(t)
             g == Loops[n]
             p == Fresh(NULL, from)
             r == parse_command_call(g, t, p, 1, n, FALSE, FALSE)
  <2>1. c = EndOfCommand(r)
    BY <1>2 DEF parse_command
  <2>2. Outermost(from) \in Context /\ StartsAt(p, Outermost(from), FALSE)
    BY FreshStarts
  <2>3. n \in Nat /\ DOMAIN t = 1 .. n
    BY LenProperties DEF TokenSeq
  <2>4. LoopKeeps(g, n) /\ LoopWires(g, n) /\ LoopReads(g, n) /\ LoopDecides(g, n)
    BY <2>3, LoopsKeep, LoopsWire, LoopsRead, LoopsDecide
  <2>5. Fits(t, 1, n, n)
    BY <2>3 DEF Fits
  <2>6. Blank(p)
    BY DEF Blank, Fresh
  <2>7. n > 0
    BY <1>2, <2>3, EmptySeq DEF TokenSeq
  <2> DEFINE h == Outermost(from)
             first == 1
             Call(no, never) == parse_command_call(g, t, p, first, n, no, never)
  <2>8. first \in Nat /\ Fits(t, first, n, n) /\ Reference!IsFirst(t, first) /\ h \in Context /\ StartsAt(p, h, FALSE)
    BY <2>2, <2>5 DEF Reference!IsFirst
  <2>9. r = Call(FALSE, FALSE) /\ n = Len(t)
    OBVIOUS
  <2> HIDE DEF n, g, p, h, first
  <2>10. ASSUME NEW no \in BOOLEAN, NEW never \in BOOLEAN, StartsAt(p, h, no), never <=> ~Reference!IsFirst(t, first)
         PROVE  /\ CallParsed(Call(no, never), h, no, never)
                /\ Call(no, never).call # NULL => Nested(t, first, n)
                /\ Text(t, n) /\ Room(t, n, first, n) => CallDecided(t, first, n, no, Call(no, never))
    <3>1. CallParsed(Call(no, never), h, no, never)
      BY <2>3, <2>4, <2>8, <2>10, CommandCallKeeps
    <3>2. Call(no, never).call # NULL => Nested(t, first, n)
      BY <2>3, <2>4, <2>8, <2>10, CommandCallReads
    <3>3. ASSUME Text(t, n), Room(t, n, first, n) PROVE CallDecided(t, first, n, no, Call(no, never))
      BY <2>3, <2>4, <2>6, <2>8, <2>10, <3>3, CommandCallDecides
    <3> QED
      BY <3>1, <3>2, <3>3
  <2> HIDE DEF r, Call
  <2>11. /\ CallParsed(r, h, FALSE, FALSE)
         /\ r.call # NULL => Nested(t, first, n)
         /\ Text(t, n) /\ Room(t, n, first, n) => CallDecided(t, first, n, FALSE, r)
    BY <2>8, <2>9, <2>10
  <2>12. ASSUME WellFormed(t)
         PROVE  /\ r.call # NULL <=> Reference!IsCommand(t)
                /\ r.call # NULL => r.p.sub = NULL
    <3>1. Text(t, n) /\ Room(t, n, 1, n) /\ Reference!Level(t, 1) = 0
      BY <1>2, <2>9, <2>12, WholeText
    <3>2. CallDecided(t, 1, n, FALSE, r)
      BY <2>11, <3>1 DEF first
    <3>3. r.call # NULL <=> \A k \in 1 .. n : Allowed(t, k, 0)
      BY <3>1, <3>2 DEF CallDecided, AllAllowed
    <3>4. r.call # NULL => r.p.sub = NULL
      BY <3>2 DEF CallDecided, Called
    <3> QED
      BY <3>1, <3>3, <3>4, IsCommandIfAllowed
  <2>13. ASSUME r.call # NULL PROVE WellFormed(t)
    <3>1. Nested(t, 1, n)
      BY <2>11, <2>13 DEF first
    <3> QED
      BY <2>3, <2>7, <2>9, <3>1, NestedIsWellFormed
  <2>14. r.call # NULL => r.p \in Parse
    BY <2>11 DEF CallParsed, Sound
  <2>15. /\ r.call # NULL <=> Reference!IsCommand(t)
         /\ r.call # NULL => r.p \in Parse /\ r.p.sub = NULL
    BY <2>12, <2>13, <2>14, CommandIsWellFormed
  <2> QED
    BY <2>1, <2>15, EndOfCommandDecides
<1> QED
  BY <1>1, <1>2

-----------------------------------------------------------------------------
(* A line: its pieces are those between the flags.                         *)

\* A piece is what is between two places of the line.
IsPiece(l, b, p) ==
    /\ p \in Seq(PieceTokens) /\ Len(p) = b[2] - b[1] + 1
    /\ \A i \in 1 .. Len(p) : p[i] = l[b[1] + i - 1]

\* It is the j-th of the line.
IsNth(l, b, j, p) == PiecesBefore(l, b[1]) = j - 1 /\ IsPiece(l, b, p)

\* The pieces that ended before k, in the order in which they are written.
Matches(l, k, pieces) ==
    /\ \A b \in EndedBefore(l, k) : \E j \in DOMAIN pieces : IsNth(l, b, j, pieces[j])
    /\ \A j \in DOMAIN pieces : \E b \in EndedBefore(l, k) : IsNth(l, b, j, pieces[j])

\* The loop of split_string_keep_trace after the first k tokens.
Cut(l, k, s) ==
    /\ \A i \in 1 .. Len(s.piece) : s.piece[i] = l[k - Len(s.piece) + i]
    /\ Matches(l, k, s.pieces)

\* The pieces before one are those that ended before its end.
LEMMA BeforeIsEnded ==
    ASSUME NEW l \in Seq(LineTokens), NEW b \in PieceBounds(l)
    PROVE  PiecesBefore(l, b[1]) = Cardinality(EndedBefore(l, b[2]))
<1>1. \A c \in PieceBounds(l) : c[1] < b[1] <=> c[2] < b[2]
  BY BoundsApart
<1>2. {c \in PieceBounds(l) : c[1] < b[1]} = EndedBefore(l, b[2])
  BY <1>1 DEF EndedBefore
<1> QED
  BY <1>2 DEF PiecesBefore

\* So no two pieces have the same number.
LEMMA NumbersApart ==
    ASSUME NEW l \in Seq(LineTokens), NEW b \in PieceBounds(l), NEW c \in PieceBounds(l),
           PiecesBefore(l, b[1]) = PiecesBefore(l, c[1])
    PROVE  b = c
<1>1. ASSUME NEW x \in PieceBounds(l), NEW y \in PieceBounds(l), x[2] < y[2]
      PROVE  PiecesBefore(l, x[1]) # PiecesBefore(l, y[1])
  <2> DEFINE X == EndedBefore(l, x[2])
             Y == EndedBefore(l, y[2])
  <2>1. PiecesBefore(l, x[1]) = Cardinality(X) /\ PiecesBefore(l, y[1]) = Cardinality(Y)
    BY BeforeIsEnded
  <2>2. IsFiniteSet(X) /\ Cardinality(X) \in Nat /\ IsFiniteSet(Y) /\ Cardinality(Y) \in Nat
    <3>1. X \subseteq PieceBounds(l) /\ Y \subseteq PieceBounds(l)
      BY DEF EndedBefore
    <3> HIDE DEF X, Y
    <3> QED
      BY <3>1, BoundsFinite
  <2>3. x[2] \in Nat /\ y[2] \in Nat /\ \A d \in PieceBounds(l) : d[2] \in Nat
    BY BoundsFacts
  <2>4. X \cup {x} \subseteq Y /\ x \notin X
    BY <1>1, <2>3 DEF EndedBefore
  <2> HIDE DEF X, Y
  <2>5. Cardinality(X \cup {x}) = Cardinality(X) + 1
    BY <2>2, <2>4, FS_AddElement
  <2>6. Cardinality(X \cup {x}) <= Cardinality(Y)
    BY <2>2, <2>4, FS_Subset
  <2> QED
    BY <2>1, <2>2, <2>5, <2>6
<1>2. ~(b[2] < c[2]) /\ ~(c[2] < b[2])
  BY <1>1
<1>3. b[2] \in Nat /\ c[2] \in Nat
  BY BoundsFacts
<1>4. b[2] = c[2]
  BY <1>2, <1>3
<1> QED
  BY <1>4, BoundsApart

\* A piece that ends.
LEMMA PieceCut ==
    ASSUME NEW l \in Seq(LineTokens), NEW k \in 0 .. Len(l), NEW s \in Trace, Traced(l, k, s), Cut(l, k, s),
           k = Len(l) \/ FlagAt(l, k + 1)
    PROVE  Matches(l, k + 1, Pieces(s).pieces)
<1> DEFINE n == Len(s.piece)
           new == <<k - n + 1, k>>
           pieces == s.pieces
           piece == s.piece
           added == Append(pieces, piece)
<1>1. pieces \in Seq(Seq(PieceTokens)) /\ piece \in Seq(PieceTokens) /\ n \in Nat
  <2>1. pieces \in Seq(Seq(PieceTokens)) /\ piece \in Seq(PieceTokens)
    BY DEF Trace
  <2> QED
    BY <2>1, LenProperties
<1>2. k \in Nat
  <2>1. Len(l) \in Nat
    BY LenProperties
  <2> QED
    BY <2>1
<1>3. EndedBefore(l, k + 1) = EndedBefore(l, k) \cup EndingAt(l, k)
  BY EndedGrows
<1>4. EndingAt(l, k) = IF piece = <<>> THEN {} ELSE {new}
  BY PieceEnds
<1>5. Matches(l, k, pieces)
  BY DEF Cut
<1>6. IsPiece(l, new, piece)
  <2>1. new[1] = k - n + 1 /\ new[2] = k
    OBVIOUS
  <2>2. ASSUME NEW i \in 1 .. n PROVE k - n + i = new[1] + i - 1
    BY <1>1, <1>2, <2>1
  <2>3. new[2] - new[1] + 1 = n
    BY <1>1, <1>2, <2>1
  <2>4. \A i \in 1 .. n : piece[i] = l[k - n + i]
    BY DEF Cut
  <2> HIDE DEF new
  <2>5. \A i \in 1 .. n : piece[i] = l[new[1] + i - 1]
    BY <2>2, <2>4
  <2> QED
    BY <1>1, <2>3, <2>5 DEF IsPiece
<1> HIDE DEF new
<1>7. CASE piece = <<>>
  <2>1. Pieces(s).pieces = pieces /\ EndedBefore(l, k + 1) = EndedBefore(l, k)
    BY <1>3, <1>4, <1>7 DEF Pieces
  <2> QED
    BY <1>5, <2>1 DEF Matches
<1>8. CASE piece # <<>>
  <2>1. Pieces(s).pieces = added /\ EndedBefore(l, k + 1) = EndedBefore(l, k) \cup {new}
    BY <1>3, <1>4, <1>8 DEF Pieces
  <2> DEFINE last == Len(pieces) + 1
  <2>2. new \in PieceBounds(l) /\ new[2] = k
    <3>1. new \in EndingAt(l, k)
      BY <1>4, <1>8
    <3> QED
      BY <3>1 DEF EndingAt
  <2>3. PiecesBefore(l, new[1]) = Len(pieces)
    BY <2>2, BeforeIsEnded DEF Traced
  <2>4. Len(pieces) \in Nat /\ Len(pieces) = last - 1
    BY <1>1, LenProperties
  <2>5. /\ last \in DOMAIN added /\ added[last] = piece
        /\ \A j \in DOMAIN pieces : j \in DOMAIN added /\ added[j] = pieces[j]
        /\ \A j \in DOMAIN added : j = last \/ j \in DOMAIN pieces
    <3>1. Len(pieces) \in Nat /\ DOMAIN pieces = 1 .. Len(pieces)
      BY <1>1, LenProperties
    <3>2. /\ added \in Seq(Seq(PieceTokens)) /\ Len(added) = last
          /\ \A j \in 1 .. Len(pieces) : added[j] = pieces[j]
          /\ added[last] = piece
      BY <1>1, AppendProperties
    <3>3. DOMAIN added = 1 .. last
      BY <3>2, LenProperties
    <3> HIDE DEF added
    <3> QED
      BY <3>1, <3>2, <3>3
  <2> HIDE DEF added, last, pieces, piece
  <2>6. IsNth(l, new, last, added[last])
    BY <1>6, <2>5, <2>3, <2>4 DEF IsNth
  <2>7. Matches(l, k + 1, added)
    BY <1>5, <2>1, <2>5, <2>6 DEF Matches
  <2> QED
    BY <2>1, <2>7
<1> QED
  BY <1>7, <1>8

\* One token further.
LEMMA TokenCut ==
    ASSUME NEW l \in Seq(LineTokens), NEW k \in Nat, k + 1 \in 1 .. Len(l), NEW s \in Trace, Traced(l, k, s),
           Cut(l, k, s), NEW q, q = NextToken(s, l[k + 1])
    PROVE  Cut(l, k + 1, q)
<1> DEFINE token == l[k + 1]
           last == Len(l)
           n == Len(s.piece)
<1>1. k \in 0 .. last /\ k < last /\ s.piece \in Seq(PieceTokens) /\ n \in Nat
  <2>1. s.piece \in Seq(PieceTokens)
    BY DEF Trace
  <2>2. last \in Nat /\ n \in Nat
    BY <2>1, LenProperties
  <2>3. k + 1 \in 1 .. last
    OBVIOUS
  <2> HIDE DEF last
  <2> QED
    BY <2>1, <2>2, <2>3
<1>2. token = BACKGROUND_FLAG <=> FlagAt(l, k + 1)
  BY DEF FlagAt
<1>3. /\ EndedBefore(l, k + 1) = EndedBefore(l, k) \cup EndingAt(l, k)
      /\ ~FlagAt(l, k + 1) => EndingAt(l, k) = {}
  BY <1>1, EndedGrows
<1>4. CASE token # BACKGROUND_FLAG
  <2>1. token \in PieceTokens
    <3>1. token \in LineTokens
      BY ElementOfSeq
    <3> QED
      BY <1>4, <3>1 DEF LineTokens
  <2>2. q = [s EXCEPT !.piece = Append(@, token)]
    BY <1>4 DEF NextToken
  <2>3. FlagAt(l, k + 1) <=> FALSE
    BY <1>2, <1>4
  <2> HIDE DEF token
  <2>4. q.pieces = s.pieces /\ q.piece = Append(s.piece, token)
    BY <2>2 DEF Trace
  <2>5. EndedBefore(l, k + 1) = EndedBefore(l, k)
    BY <1>3, <2>3
  <2>6. Matches(l, k + 1, q.pieces)
    BY <2>4, <2>5 DEF Matches, Cut
  <2> DEFINE m == Len(q.piece)
  <2>7. m = n + 1 /\ q.piece[n + 1] = token /\ \A i \in 1 .. n : q.piece[i] = s.piece[i]
    BY <1>1, <2>1, <2>4, AppendProperties
  <2>8. \A i \in 1 .. n : s.piece[i] = l[k - n + i]
    BY DEF Cut
  <2> HIDE DEF n, m
  <2>9. ASSUME NEW i \in 1 .. m PROVE q.piece[i] = l[(k + 1) - m + i]
    <3>1. i = n + 1 \/ i \in 1 .. n
      BY <1>1, <2>7
    <3>2. CASE i = n + 1
      <4>1. (k + 1) - m + i = k + 1
        BY <1>1, <2>7, <3>2
      <4> QED
        BY <2>7, <3>2, <4>1 DEF token
    <3>3. CASE i \in 1 .. n
      <4>1. (k + 1) - m + i = k - n + i
        BY <1>1, <2>7
      <4> QED
        BY <2>7, <2>8, <3>3, <4>1
    <3> QED
      BY <3>1, <3>2, <3>3
  <2> QED
    BY <2>6, <2>9 DEF Cut, m
<1>5. CASE token = BACKGROUND_FLAG
  <2>1. Matches(l, k + 1, Pieces(s).pieces)
    BY <1>1, <1>2, <1>5, PieceCut
  <2>2. q.pieces = Pieces(s).pieces /\ q.piece = <<>>
    <3>1. CASE s.piece = <<>>
      BY <1>5, <3>1 DEF NextToken, Pieces
    <3>2. CASE s.piece # <<>>
      BY <1>5, <3>2 DEF NextToken, Pieces
    <3> QED
      BY <3>1, <3>2
  <2>3. Matches(l, k + 1, q.pieces)
    BY <2>1, <2>2
  <2>4. \A i \in 1 .. Len(q.piece) : FALSE
    <3>1. Len(q.piece) = 0
      BY <2>2, EmptySeq
    <3> QED
      BY <3>1
  <2> QED
    BY <2>3, <2>4 DEF Cut
<1> QED
  BY <1>4, <1>5

\* What split_string_keep_trace returns.
LEMMA PiecesMatch ==
    ASSUME NEW l \in Seq(LineTokens), NEW split, split = split_string_keep_trace(l)
    PROVE  /\ \A b \in PieceBounds(l) : \E j \in DOMAIN split.pieces : IsNth(l, b, j, split.pieces[j])
           /\ \A j \in DOMAIN split.pieces : \E b \in PieceBounds(l) : IsNth(l, b, j, split.pieces[j])
<1> DEFINE last == Len(l)
<1>1. last \in Nat /\ last \in 0 .. last /\ 0 \in 0 .. last
  <2>1. last \in Nat
    BY LenProperties
  <2> QED
    BY <2>1
<1>2. PICK f : TraceRuns(l, f)
  BY KeepTraceRuns
<1>3. /\ f[0] = NoTrace /\ \A k \in 1 .. last : f[k] = NextToken(f[k - 1], l[k])
      /\ \A k \in 0 .. last : f[k] \in Trace /\ Traced(l, k, f[k])
      /\ split = Pieces(f[last])
  BY <1>2 DEF TraceRuns
<1>4. EndedBefore(l, 0) = {} /\ EndedBefore(l, last + 1) = PieceBounds(l)
  BY <1>1, EndedGrows
<1> DEFINE Good == {k \in Nat : k <= last => Cut(l, k, f[k])}
<1>5. 0 \in Good
  <2>1. NoTrace.piece = <<>> /\ NoTrace.pieces = <<>>
    BY DEF NoTrace
  <2>2. Matches(l, 0, NoTrace.pieces)
    <3>1. DOMAIN <<>> = {}
      OBVIOUS
    <3> QED
      BY <1>4, <2>1, <3>1 DEF Matches
  <2>3. \A i \in 1 .. Len(NoTrace.piece) : FALSE
    <3>1. Len(NoTrace.piece) = 0
      BY <2>1, EmptySeq
    <3> QED
      BY <3>1
  <2>4. Cut(l, 0, NoTrace)
    BY <2>2, <2>3 DEF Cut
  <2> QED
    BY <1>3, <2>4
<1>6. ASSUME NEW k \in Nat, k \in Good PROVE k + 1 \in Good
  <2>1. CASE k + 1 <= last
    <3>1. k + 1 \in 1 .. last /\ (k + 1) - 1 = k /\ k <= last /\ k \in 0 .. last
      BY <1>1, <2>1
    <3>2. f[k + 1] = NextToken(f[k], l[k + 1])
      BY <1>3, <3>1
    <3>3. f[k] \in Trace /\ Traced(l, k, f[k]) /\ Cut(l, k, f[k])
      BY <1>3, <1>6, <3>1
    <3>4. Cut(l, k + 1, f[k + 1])
      BY <3>1, <3>2, <3>3, TokenCut
    <3> QED
      BY <3>4
  <2> QED
    BY <2>1
<1> HIDE DEF Good
<1>7. last \in Good
  BY <1>1, <1>5, <1>6, Induction
<1>8. f[last] \in Trace /\ Traced(l, last, f[last]) /\ Cut(l, last, f[last])
  BY <1>1, <1>3, <1>7 DEF Good
<1>9. Matches(l, last + 1, split.pieces)
  BY <1>1, <1>3, <1>8, PieceCut
<1> QED
  BY <1>4, <1>9 DEF Matches

\* The places of the tokens in a part of the line, separators left out.
TokenPlaces(l, from, to) == {k \in from .. to : l[k] # COMMAND_SEPARATOR}
HowMany(l, from, to) == Cardinality(TokenPlaces(l, from, to))

\* A token more is counted unless it is a separator.
LEMMA HowManyStep ==
    ASSUME NEW l, NEW from \in Nat, NEW k \in Nat, from <= k + 1
    PROVE  /\ HowMany(l, from, k) \in Nat
           /\ l[k + 1] = COMMAND_SEPARATOR => TokenPlaces(l, from, k + 1) = TokenPlaces(l, from, k)
           /\ l[k + 1] # COMMAND_SEPARATOR =>
                 /\ TokenPlaces(l, from, k + 1) = TokenPlaces(l, from, k) \cup {k + 1}
                 /\ HowMany(l, from, k + 1) = HowMany(l, from, k) + 1
<1> DEFINE T == TokenPlaces(l, from, k)
           next == k + 1
<1>1. IsFiniteSet(T)
  <2>1. IsFiniteSet(from .. k) /\ T \subseteq from .. k
    BY FS_Interval DEF TokenPlaces
  <2> QED
    BY <2>1, FS_Subset
<1>2. /\ \A j \in from .. next : j \in from .. k \/ j = next
      /\ \A j \in from .. k : j \in from .. next
      /\ next \in from .. next /\ next \notin from .. k
  OBVIOUS
<1>3. HowMany(l, from, k) \in Nat /\ HowMany(l, from, k) = Cardinality(T)
  BY <1>1, FS_CardinalityType DEF HowMany
<1>4. next \notin T
  BY <1>2 DEF TokenPlaces
<1> HIDE DEF next
<1>5. l[next] = COMMAND_SEPARATOR => TokenPlaces(l, from, next) = T
  BY <1>2 DEF TokenPlaces
<1>6. l[next] # COMMAND_SEPARATOR => TokenPlaces(l, from, next) = T \cup {next}
  BY <1>2 DEF TokenPlaces
<1> HIDE DEF T
<1>7. Cardinality(T \cup {next}) = Cardinality(T) + 1
  BY <1>1, <1>4, FS_AddElement
<1>8. l[next] # COMMAND_SEPARATOR => HowMany(l, from, next) = HowMany(l, from, k) + 1
  BY <1>3, <1>6, <1>7 DEF HowMany
<1> QED
  BY <1>3, <1>5, <1>6, <1>8 DEF next, T

\* The loop of split_string when it has come to token k of the line.
WordsAre(l, from, k, words) ==
    /\ Len(words) = HowMany(l, from, k)
    /\ \A j \in TokenPlaces(l, from, k) : words[HowMany(l, from, j)] = l[j]
    /\ \A n \in 1 .. HowMany(l, from, k) : \E j \in TokenPlaces(l, from, k) : HowMany(l, from, j) = n

\* One token further.
LEMMA WordRead ==
    ASSUME NEW l, NEW from \in Nat, NEW k \in Nat, from <= k + 1, NEW words \in TokenSeq,
           NEW token, token = l[k + 1], NEW more, more = NextWord(words, token), more \in TokenSeq,
           WordsAre(l, from, k, words),
           \A j \in TokenPlaces(l, from, k) : HowMany(l, from, j) \in 1 .. HowMany(l, from, k)
    PROVE  /\ WordsAre(l, from, k + 1, more)
           /\ \A j \in TokenPlaces(l, from, k + 1) : HowMany(l, from, j) \in 1 .. HowMany(l, from, k + 1)
<1> DEFINE next == k + 1
           n == HowMany(l, from, k)
<1>1. /\ n \in Nat
      /\ token = COMMAND_SEPARATOR => TokenPlaces(l, from, next) = TokenPlaces(l, from, k)
      /\ token # COMMAND_SEPARATOR => /\ TokenPlaces(l, from, next) = TokenPlaces(l, from, k) \cup {next}
                                      /\ HowMany(l, from, next) = n + 1
  BY HowManyStep
<1>2. Len(words) = n
  BY DEF WordsAre
<1>3. CASE token = COMMAND_SEPARATOR
  <2>1. more = words /\ HowMany(l, from, next) = n
    BY <1>1, <1>3 DEF NextWord, HowMany
  <2> HIDE DEF next
  <2>2. WordsAre(l, from, next, more)
    BY <1>1, <1>3, <2>1 DEF WordsAre
  <2> QED
    BY <1>1, <1>3, <2>1, <2>2 DEF next
<1>4. CASE token # COMMAND_SEPARATOR
  <2>1. more = Append(words, token)
    BY <1>4 DEF NextWord
  <2>2. /\ TokenPlaces(l, from, next) = TokenPlaces(l, from, k) \cup {next}
        /\ HowMany(l, from, next) = n + 1
    BY <1>1, <1>4
  <2>3. Len(more) = n + 1 /\ more[n + 1] = token /\ \A i \in 1 .. n : more[i] = words[i]
    <3>1. Len(more) = Len(words) + 1
      BY <2>1, AppendProperties DEF TokenSeq
    <3>2. more[Len(words) + 1] = token /\ \A i \in 1 .. Len(words) : more[i] = words[i]
      BY <2>1, AppendProperties DEF TokenSeq
    <3> QED
      BY <1>2, <3>1, <3>2
  <2> HIDE DEF next, n
  <2>4. \A i : i \in 1 .. n + 1 <=> i \in 1 .. n \/ i = n + 1
    BY <1>1
  <2>5. \A j \in TokenPlaces(l, from, k) : HowMany(l, from, j) \in 1 .. n
    BY DEF n
  <2>6. /\ \A j \in TokenPlaces(l, from, k) : words[HowMany(l, from, j)] = l[j]
        /\ \A i \in 1 .. n : \E j \in TokenPlaces(l, from, k) : HowMany(l, from, j) = i
    BY DEF WordsAre, n
  <2>7. l[next] = token
    BY DEF next
  <2>8. \A j \in TokenPlaces(l, from, next) : more[HowMany(l, from, j)] = l[j]
    BY <2>2, <2>3, <2>5, <2>6, <2>7
  <2>9. \A i \in 1 .. n + 1 : \E j \in TokenPlaces(l, from, next) : HowMany(l, from, j) = i
    BY <2>2, <2>4, <2>6
  <2>10. WordsAre(l, from, next, more)
    BY <2>2, <2>3, <2>8, <2>9 DEF WordsAre
  <2>11. \A j \in TokenPlaces(l, from, next) : HowMany(l, from, j) \in 1 .. HowMany(l, from, next)
    BY <2>2, <2>4, <2>5
  <2> QED
    BY <2>10, <2>11 DEF next
<1> QED
  BY <1>3, <1>4

\* split_string reads the tokens of a piece.
LEMMA PieceIsRead ==
    ASSUME NEW l \in Seq(LineTokens), NEW b \in PieceBounds(l), NEW piece, IsPiece(l, b, piece)
    PROVE  split_string(piece) = Tokens(l, b)
<1> DEFINE from == b[1]
           to == b[2]
           len == Len(piece)
           At(k) == from + k - 1
<1>1. from \in Nat /\ to \in Nat /\ 1 <= from /\ from <= to
  BY BoundsFacts
<1>2. piece \in Seq(PieceTokens)
  BY DEF IsPiece
<1>3. len = to - from + 1 /\ \A i \in 1 .. len : piece[i] = l[At(i)]
  BY DEF IsPiece
<1>4. PICK f : WordsRun(piece, f)
  BY <1>2, SplitStringRuns
<1>5. /\ f[0] = <<>> /\ \A k \in 1 .. len : f[k] = NextWord(f[k - 1], piece[k])
      /\ \A k \in 0 .. len : f[k] \in TokenSeq
      /\ split_string(piece) = f[len]
  BY <1>4 DEF WordsRun
<1> HIDE DEF from, to, len
<1>6. len \in Nat /\ At(len) = to /\ At(0) = from - 1
  BY <1>1, <1>3
<1> DEFINE Ranked(k) == \A j \in TokenPlaces(l, from, At(k)) : HowMany(l, from, j) \in 1 .. HowMany(l, from, At(k))
           Good == {k \in Nat : k <= len => WordsAre(l, from, At(k), f[k]) /\ Ranked(k)}
<1>7. 0 \in Good
  <2>1. TokenPlaces(l, from, At(0)) = {}
    BY <1>1 DEF TokenPlaces
  <2>2. HowMany(l, from, At(0)) = 0
    BY <2>1, FS_EmptySet DEF HowMany
  <2>3. Len(f[0]) = 0
    BY <1>5, EmptySeq
  <2> HIDE DEF At
  <2>4. \A n \in 1 .. HowMany(l, from, At(0)) : FALSE
    BY <2>2
  <2>5. WordsAre(l, from, At(0), f[0])
    BY <2>1, <2>2, <2>3, <2>4 DEF WordsAre
  <2> QED
    BY <2>1, <2>5
<1>8. ASSUME NEW k \in Nat, k \in Good PROVE k + 1 \in Good
  <2>1. CASE k + 1 <= len
    <3> DEFINE at == At(k)
    <3>1. k + 1 \in 1 .. len /\ (k + 1) - 1 = k /\ k <= len /\ k \in 0 .. len /\ k + 1 \in 0 .. len
      BY <1>6, <2>1
    <3>2. at \in Nat /\ from <= at + 1 /\ At(k + 1) = at + 1
      BY <1>1
    <3>3. f[k + 1] = NextWord(f[k], piece[k + 1]) /\ piece[k + 1] = l[at + 1]
      BY <1>3, <1>5, <3>1, <3>2
    <3>4. WordsAre(l, from, at, f[k]) /\ Ranked(k)
      BY <1>8, <3>1
    <3>5. f[k] \in TokenSeq /\ f[k + 1] \in TokenSeq
      BY <1>5, <3>1
    <3> DEFINE words == f[k]
               more == f[k + 1]
               token == piece[k + 1]
    <3>6. /\ words \in TokenSeq /\ token = l[at + 1] /\ more = NextWord(words, token) /\ more \in TokenSeq
          /\ WordsAre(l, from, at, words)
          /\ \A j \in TokenPlaces(l, from, at) : HowMany(l, from, j) \in 1 .. HowMany(l, from, at)
      BY <3>3, <3>4, <3>5
    <3> HIDE DEF words, more, token, at, At
    <3>7. /\ WordsAre(l, from, at + 1, more)
          /\ \A j \in TokenPlaces(l, from, at + 1) : HowMany(l, from, j) \in 1 .. HowMany(l, from, at + 1)
      BY <1>1, <3>2, <3>6, WordRead
    <3> QED
      BY <3>2, <3>7 DEF more
  <2> QED
    BY <2>1
<1> HIDE DEF Good
<1>9. len \in Good
  BY <1>6, <1>7, <1>8, Induction
<1> DEFINE words == f[len]
           places == {k \in b[1] .. b[2] : l[k] # COMMAND_SEPARATOR}
           Before(k) == Cardinality({j \in places : j < k})
           size == Cardinality(places)
<1>10. WordsAre(l, from, to, words)
  BY <1>6, <1>9 DEF Good
<1>11. places = TokenPlaces(l, from, to) /\ size = HowMany(l, from, to)
  BY DEF TokenPlaces, HowMany, from, to
<1>12. ASSUME NEW k \in places PROVE HowMany(l, from, k) = Before(k) + 1 /\ Before(k) \in Nat
  <2> DEFINE before == k - 1
  <2>1. k \in from .. to /\ l[k] # COMMAND_SEPARATOR
    BY DEF from, to
  <2>2. before \in Nat /\ from <= before + 1 /\ before + 1 = k
    BY <1>1, <2>1
  <2>3. {j \in places : j < k} = TokenPlaces(l, from, before)
    <3>1. \A j : j \in from .. to /\ j < k <=> j \in from .. before
      BY <1>1, <2>1
    <3> QED
      BY <1>11, <3>1 DEF TokenPlaces
  <2> HIDE DEF before, places
  <2>4. HowMany(l, from, before) \in Nat /\ HowMany(l, from, k) = HowMany(l, from, before) + 1
    BY <1>1, <2>1, <2>2, HowManyStep
  <2> QED
    BY <2>3, <2>4 DEF HowMany
<1>13. Tokens(l, b) = [n \in 1 .. size |-> l[CHOOSE k \in places : Before(k) = n - 1]]
  BY DEF Tokens
<1>14. words \in TokenSeq
  BY <1>5, <1>6
<1>15. words = [n \in 1 .. Len(words) |-> words[n]]
  BY <1>14, LenProperties DEF TokenSeq
<1>16. Len(words) = size
  BY <1>10, <1>11 DEF WordsAre
<1> HIDE DEF places, size, Before, words
<1>17. ASSUME NEW n \in 1 .. size PROVE words[n] = l[CHOOSE k \in places : Before(k) = n - 1]
  <2>1. \E j \in places : HowMany(l, from, j) = n
    BY <1>10, <1>11 DEF WordsAre
  <2>2. \E j \in places : Before(j) = n - 1
    BY <1>12, <2>1
  <2> DEFINE k == CHOOSE j \in places : Before(j) = n - 1
  <2>3. k \in places /\ Before(k) = n - 1
    BY <2>2
  <2> HIDE DEF k
  <2>4. HowMany(l, from, k) = n
    BY <1>12, <2>3
  <2>5. words[n] = l[k]
    BY <1>10, <1>11, <2>3, <2>4 DEF WordsAre
  <2> QED
    BY <2>5 DEF k
<1>18. words = [n \in 1 .. size |-> words[n]]
  BY <1>15, <1>16
<1>19. words = Tokens(l, b)
  BY <1>13, <1>17, <1>18
<1> QED
  BY <1>5, <1>19 DEF words

-----------------------------------------------------------------------------
(* parse_read_line refuses a line if one of its pieces is no command.      *)

\* The k-th piece is a command.
Reads(split, k) == Reference!IsCommand(split_string(split.pieces[k]))

\* One turn of its loop, if no substitution was refused before.
LEMMA PieceDecides ==
    ASSUME NEW split \in Split, NEW k \in 1 .. Len(split.pieces), NEW r \in Lined, ~r.refused, r.sub = NULL,
           NEW q, q = ParsePiece(r, split, k)
    PROVE  IF Reads(split, k) THEN ~q.refused /\ q.sub = NULL ELSE q.refused
<1> DEFINE t == split_string(split.pieces[k])
           from == r.fd
           c == parse_command(t, NULL, from)
<1>1. t \in TokenSeq
  <2>1. split.pieces[k] \in Seq(PieceTokens)
    BY ElementOfSeq DEF Split
  <2> QED
    BY <2>1, SplitStringFacts
<1>2. from \in Nat /\ from > 1
  BY DEF Lined, LineResult, LineKept
<1>3. q = AddCommand(r, c, split, k)
  BY DEF ParsePiece
<1>4. q.refused = ~c.ok /\ q.sub = c.sub
  BY <1>3 DEF AddCommand
<1>5. Reads(split, k) <=> Reference!IsCommand(t)
  BY DEF Reads
<1> HIDE DEF t, from
<1>6. c = parse_command(t, NULL, from)
  OBVIOUS
<1> HIDE DEF c
<1>7. c.ok \in BOOLEAN /\ (c.ok <=> Reference!IsCommand(t)) /\ (c.ok => c.sub = NULL)
  BY <1>1, <1>2, <1>6, CommandDecides
<1> QED
  BY <1>4, <1>5, <1>7

\* The whole of it.
LEMMA LineDecides ==
    ASSUME NEW l \in Seq(LineTokens), ~StartsWithFlag(l), NEW r, r = parse_read_line(l, NULL)
    PROVE  r.refused <=> ~IsLine(l)
<1> DEFINE split == split_string_keep_trace(l)
           last == Len(split.pieces)
<1>1. split \in Split
  BY KeepTraceFacts
<1>2. /\ \A b \in PieceBounds(l) : \E j \in DOMAIN split.pieces : IsPiece(l, b, split.pieces[j])
      /\ \A j \in DOMAIN split.pieces : \E b \in PieceBounds(l) : IsPiece(l, b, split.pieces[j])
  BY PiecesMatch DEF IsNth
<1>3. PICK f : LineRuns(l, NULL, split, f)
  BY ReadLineRuns
<1> HIDE DEF split
<1>4. /\ f[0] = Nothing(NULL) /\ \A k \in 1 .. last : f[k] = ParsePiece(f[k - 1], split, k)
      /\ \A k \in 0 .. last : f[k] \in Lined
      /\ r = f[last]
  BY <1>3 DEF LineRuns, PiecesRun
<1>5. last \in Nat /\ DOMAIN split.pieces = 1 .. last
  BY <1>1, LenProperties DEF Split
<1> DEFINE Sure(k) == IF f[k].refused THEN \E j \in 1 .. k : ~Reads(split, j)
                      ELSE f[k].sub = NULL /\ \A j \in 1 .. k : Reads(split, j)
           Good == {k \in Nat : k <= last => Sure(k)}
<1>6. 0 \in Good
  <2>1. \A j \in 1 .. 0 : FALSE
    OBVIOUS
  <2>2. f[0].refused = FALSE /\ f[0].sub = NULL
    BY <1>4 DEF Nothing
  <2> QED
    BY <2>1, <2>2
<1>7. ASSUME NEW k \in Nat, k \in Good PROVE k + 1 \in Good
  <2> DEFINE next == k + 1
             before == f[k]
             after == f[next]
  <2>1. CASE next <= last
    <3>1. next \in 1 .. last /\ next - 1 = k /\ k <= last /\ k \in 0 .. last
      BY <1>5, <2>1
    <3>2. \A j : j \in 1 .. next <=> j \in 1 .. k \/ j = next
      OBVIOUS
    <3>3. after = ParsePiece(before, split, next) /\ before \in Lined /\ Sure(k)
      BY <1>4, <1>7, <3>1
    <3>4. next \in 1 .. Len(split.pieces)
      BY <3>1
    <3> HIDE DEF next, before, after, last
    <3>5. CASE before.refused
      <4>1. after = before
        BY <3>3, <3>5 DEF ParsePiece
      <4>2. after.refused /\ \E j \in 1 .. k : ~Reads(split, j)
        BY <3>3, <3>5, <4>1 DEF before
      <4> QED
        BY <3>2, <4>2 DEF after, next
    <3>6. CASE ~before.refused
      <4>1. before.sub = NULL /\ \A j \in 1 .. k : Reads(split, j)
        BY <3>3, <3>6 DEF before
      <4>2. IF Reads(split, next) THEN ~after.refused /\ after.sub = NULL ELSE after.refused
        BY <1>1, <3>3, <3>4, <3>6, <4>1, PieceDecides
      <4>3. IF after.refused THEN \E j \in 1 .. next : ~Reads(split, j)
            ELSE after.sub = NULL /\ \A j \in 1 .. next : Reads(split, j)
        BY <3>2, <4>1, <4>2
      <4> QED
        BY <4>3 DEF after, next
    <3> QED
      BY <3>5, <3>6
  <2> QED
    BY <2>1
<1> HIDE DEF Good, last
<1>8. last \in Good
  BY <1>5, <1>6, <1>7, Induction
<1>9. r.refused <=> \E j \in 1 .. last : ~Reads(split, j)
  BY <1>4, <1>5, <1>8 DEF Good
<1>10. ASSUME NEW b \in PieceBounds(l), NEW j \in DOMAIN split.pieces, IsPiece(l, b, split.pieces[j])
       PROVE  Reads(split, j) <=> Reference!IsCommand(Tokens(l, b))
  BY <1>10, PieceIsRead DEF Reads
<1>11. (\E j \in 1 .. last : ~Reads(split, j)) <=> ~IsLine(l)
  BY <1>2, <1>5, <1>10 DEF IsLine
<1> QED
  BY <1>9, <1>11

(* A parser that has refused no substitution before refuses the lines that *)
(* have a piece which is not a command of project.md, and no others,       *)
(* however long the line, however deep its substitutions (parse_read_line  *)
(* with everything it calls, :377-948).                                    *)
THEOREM GrammarIsRead == ParserSpec => ReadsTheGrammar
<1>1. ASSUME [ParserNext]_parserVars, phase = "prompt", phase' = "parsed",
             last_parsed_command_call_substitution = NULL, ~StartsWithFlag(line')
      PROVE  refused' <=> ~IsLine(line')
  <2>1. ParseLine
    BY <1>1 DEF ParserNext, NextPrompt, parserVars
  <2>2. PICK l \in Lines : ParsedAs(l, parse_read_line(l, NULL))
    BY <1>1, <2>1 DEF ParseLine
  <2>3. l \in Seq(LineTokens)
    BY LinesAssumption DEF LineTokens, PieceTokens, Symbols
  <2> DEFINE r == parse_read_line(l, NULL)
  <2>4. line' = l /\ refused' = r.refused /\ ~StartsWithFlag(l)
    BY <1>1, <2>2 DEF ParsedAs
  <2>5. r.refused <=> ~IsLine(l)
    BY <2>3, <2>4, LineDecides
  <2> QED
    BY <2>4, <2>5
<1> QED
  BY <1>1, PTL DEF ParserSpec, ReadsTheGrammar

-----------------------------------------------------------------------------
(* Which calls the pipes link.                                             *)

(* The calls of a parse, and one that is still being parsed and that starts*)
(* at lo: whose input is not known yet to be a pipe.                       *)
CallsOf(p) == {p.calls[n] : n \in DOMAIN p.calls}
AsCall(b, lo) == [at |-> lo, stdin |-> 0, reads |-> b.reads, writes |-> b.writes, files |-> b.files]
CallsAndOne(p, b, lo) == CallsOf(p) \cup {AsCall(b, lo)}

(* A call that became another one: it reads and writes no less, and from   *)
(* where it read.                                                          *)
Became(c, d) ==
    /\ d.at = c.at
    /\ c.reads \subseteq d.reads /\ c.writes \subseteq d.writes /\ c.files \subseteq d.files
    /\ c.stdin # 0 => d.stdin = c.stdin

AllBecame(X, Y) == \A c \in X : \E d \in Y : Became(c, d)

(* A pipe of which fd is the end to read from carries a stream of the text *)
(* if it links calls of X that start where those of the stream do.         *)
Writes(X, pipe, at) == \E c \in X : c.at = at /\ pipe \in c.writes
ReadsIt(X, pipe, at, fd, kind) ==
    \E c \in X : c.at = at /\ pipe \in c.reads /\ (IF kind = "file" THEN fd \in c.files ELSE c.stdin = fd)
Carries(X, pipe, fd, stream) ==
    fd # 0 /\ Writes(X, pipe, stream[1]) /\ ReadsIt(X, pipe, stream[2], fd, stream[3])

\* A stream of a pipeline, and one of a substitution.
PipeTo(writer, reader) == <<writer, reader, "pipe">>
FileTo(writer, reader) == <<writer, reader, "file">>

\* The calls, and the pipes, that q has and p has not.
NewCalls(p, q) == DOMAIN q.calls \ DOMAIN p.calls
NewPipes(p, q) == DOMAIN q.pipes \ DOMAIN p.pipes

CallsKept(p, q) == \A n \in DOMAIN p.calls : n \in DOMAIN q.calls /\ q.calls[n].at = p.calls[n].at
PipesKept(p, q) == \A k \in DOMAIN p.pipes : k \in DOMAIN q.pipes /\ q.pipes[k] = p.pipes[k]

(* One call starts at each of these places.                                *)
StartAt(p, q, places) ==
    /\ \A n \in NewCalls(p, q) : q.calls[n].at \in places
    /\ \A x \in places : \E n \in NewCalls(p, q) : q.calls[n].at = x
    /\ \A m, n \in NewCalls(p, q) : q.calls[m].at = q.calls[n].at => m = n

(* The new pipes carry these streams.                                      *)
CarriedBy(p, q, Y, streams) ==
    /\ \A k \in NewPipes(p, q) : \E s \in streams : Carries(Y, k, q.pipes[k][1], s)
    /\ \A s \in streams : \E k \in NewPipes(p, q) : Carries(Y, k, q.pipes[k][1], s)

(* From p, with the calls X, to q, with the calls Y, the parse adds calls  *)
(* that start at these places and pipes that carry these streams.          *)
Adds(p, X, q, Y, places, streams) ==
    /\ CallsKept(p, q) /\ PipesKept(p, q) /\ AllBecame(X, Y)
    /\ StartAt(p, q, places)
    /\ CarriedBy(p, q, Y, streams)

\* A call remains what it is, and becomes what it becomes in two steps.
LEMMA BecameOn ==
    ASSUME NEW X, NEW Y, NEW Z, AllBecame(X, Y), AllBecame(Y, Z)
    PROVE  AllBecame(X, Z)
<1>1. ASSUME NEW c, NEW d, NEW e, Became(c, d), Became(d, e) PROVE Became(c, e)
  <2>1. e.at = c.at
    BY <1>1 DEF Became
  <2>2. c.reads \subseteq e.reads /\ c.writes \subseteq e.writes /\ c.files \subseteq e.files
    BY <1>1 DEF Became
  <2>3. c.stdin # 0 => e.stdin = c.stdin
    BY <1>1 DEF Became
  <2> QED
    BY <2>1, <2>2, <2>3 DEF Became
<1> QED
  BY <1>1 DEF AllBecame

\* Calls become themselves, whatever else there is.
LEMMA BecameSame ==
    ASSUME NEW X, NEW Y, X \subseteq Y
    PROVE  AllBecame(X, Y)
<1>1. \A c \in X : Became(c, c)
  BY DEF Became
<1> QED
  BY <1>1 DEF AllBecame

\* Two sets of calls become what each becomes.
LEMMA BecameAside ==
    ASSUME NEW X, NEW Y, AllBecame(X, Y), NEW Z, NEW W, AllBecame(Z, W)
    PROVE  AllBecame(X \cup Z, Y \cup W)
BY DEF AllBecame

\* What a pipe carries it still carries when the calls are further on.
LEMMA CarriesOn ==
    ASSUME NEW X, NEW Y, AllBecame(X, Y), NEW pipe, NEW fd, NEW stream, Carries(X, pipe, fd, stream)
    PROVE  Carries(Y, pipe, fd, stream)
<1>1. Writes(Y, pipe, stream[1])
  <2>1. PICK c \in X : c.at = stream[1] /\ pipe \in c.writes
    BY DEF Carries, Writes
  <2>2. PICK d \in Y : Became(c, d)
    BY DEF AllBecame
  <2>3. d.at = stream[1] /\ pipe \in d.writes
    BY <2>1, <2>2 DEF Became
  <2> QED
    BY <2>3 DEF Writes
<1>2. ReadsIt(Y, pipe, stream[2], fd, stream[3])
  <2> DEFINE kind == stream[3]
  <2>1. PICK c \in X : c.at = stream[2] /\ pipe \in c.reads /\ (IF kind = "file" THEN fd \in c.files ELSE c.stdin = fd)
    BY DEF Carries, ReadsIt
  <2>2. PICK d \in Y : Became(c, d)
    BY DEF AllBecame
  <2> HIDE DEF kind
  <2>3. fd # 0
    BY DEF Carries
  <2>4. d.at = stream[2] /\ pipe \in d.reads
    BY <2>1, <2>2 DEF Became
  <2>5. IF kind = "file" THEN fd \in d.files ELSE d.stdin = fd
    BY <2>1, <2>2, <2>3 DEF Became
  <2> QED
    BY <2>4, <2>5 DEF ReadsIt, kind
<1> QED
  BY <1>1, <1>2 DEF Carries

\* Nothing is added.
LEMMA AddsNothing ==
    ASSUME NEW p, NEW q, q.calls = p.calls, q.pipes = p.pipes, NEW X, NEW Y, AllBecame(X, Y),
           NEW none, none = {}
    PROVE  Adds(p, X, q, Y, none, none)
<1>1. NewCalls(p, q) = {} /\ NewPipes(p, q) = {}
  BY DEF NewCalls, NewPipes
<1> QED
  BY <1>1 DEF Adds, CallsKept, PipesKept, StartAt, CarriedBy

\* What is added in two steps.
LEMMA AddsOn ==
    ASSUME NEW p, NEW q, NEW r, NEW X, NEW Y, NEW Z, NEW places, NEW more, places \cap more = {},
           NEW streams, NEW others, Adds(p, X, q, Y, places, streams), Adds(q, Y, r, Z, more, others)
    PROVE  Adds(p, X, r, Z, places \cup more, streams \cup others)
<1>1. CallsKept(p, r) /\ PipesKept(p, r) /\ AllBecame(X, Z)
  BY BecameOn DEF Adds, CallsKept, PipesKept
<1>2. /\ NewCalls(p, r) = NewCalls(p, q) \cup NewCalls(q, r)
      /\ NewPipes(p, r) = NewPipes(p, q) \cup NewPipes(q, r)
  BY DEF Adds, CallsKept, PipesKept, NewCalls, NewPipes
<1>3. \A n \in NewCalls(p, q) : r.calls[n].at = q.calls[n].at
  BY DEF Adds, CallsKept, NewCalls
<1>4. StartAt(p, r, places \cup more)
  <2>1. \A n \in NewCalls(p, r) : r.calls[n].at \in places \cup more
    BY <1>2, <1>3 DEF Adds, StartAt
  <2>2. \A x \in places \cup more : \E n \in NewCalls(p, r) : r.calls[n].at = x
    BY <1>2, <1>3 DEF Adds, StartAt
  <2>3. /\ \A n \in NewCalls(p, q) : r.calls[n].at \in places
        /\ \A n \in NewCalls(q, r) : r.calls[n].at \in more
    BY <1>3 DEF Adds, StartAt
  <2>4. /\ \A m, n \in NewCalls(p, q) : r.calls[m].at = r.calls[n].at => m = n
        /\ \A m, n \in NewCalls(q, r) : r.calls[m].at = r.calls[n].at => m = n
    BY <1>3 DEF Adds, StartAt
  <2>5. \A m, n \in NewCalls(p, r) : r.calls[m].at = r.calls[n].at => m = n
    BY <1>2, <2>3, <2>4
  <2> QED
    BY <2>1, <2>2, <2>5 DEF StartAt
<1>5. CarriedBy(p, r, Z, streams \cup others)
  <2>1. \A k \in NewPipes(p, q) : k \in DOMAIN q.pipes /\ r.pipes[k] = q.pipes[k]
    BY DEF Adds, PipesKept, NewPipes
  <2>2. AllBecame(Y, Z)
    BY DEF Adds
  <2>3. ASSUME NEW k \in NewPipes(p, q), NEW s, Carries(Y, k, q.pipes[k][1], s)
        PROVE  Carries(Z, k, r.pipes[k][1], s)
    <3>1. Carries(Z, k, q.pipes[k][1], s)
      BY <2>2, <2>3, CarriesOn
    <3> QED
      BY <2>1, <3>1
  <2>4. /\ \A k \in NewPipes(p, q) : \E s \in streams : Carries(Z, k, r.pipes[k][1], s)
        /\ \A s \in streams : \E k \in NewPipes(p, q) : Carries(Z, k, r.pipes[k][1], s)
    BY <2>3 DEF Adds, CarriedBy
  <2>5. /\ \A k \in NewPipes(q, r) : \E s \in others : Carries(Z, k, r.pipes[k][1], s)
        /\ \A s \in others : \E k \in NewPipes(q, r) : Carries(Z, k, r.pipes[k][1], s)
    BY DEF Adds, CarriedBy
  <2> QED
    BY <1>2, <2>4, <2>5 DEF CarriedBy
<1> QED
  BY <1>1, <1>4, <1>5 DEF Adds

\* A call may stand by meanwhile.
LEMMA AddsAside ==
    ASSUME NEW p, NEW q, NEW X, NEW Y, NEW places, NEW streams, Adds(p, X, q, Y, places, streams), NEW Z
    PROVE  Adds(p, X \cup Z, q, Y \cup Z, places, streams)
<1>1. AllBecame(X \cup Z, Y \cup Z) /\ AllBecame(Y, Y \cup Z)
  BY BecameSame, BecameAside DEF Adds
<1>2. CarriedBy(p, q, Y \cup Z, streams)
  BY <1>1, CarriesOn DEF Adds, CarriedBy
<1> QED
  BY <1>1, <1>2 DEF Adds

\* A pipe that was opened before, and what it carries in the end.
LEMMA AddsOpened ==
    ASSUME NEW p, NEW q, NEW r, NEW pipe, q.calls = p.calls, PipesKept(p, q), NewPipes(p, q) = {pipe},
           NEW X, NEW Y, NEW places, NEW streams, Adds(q, X, r, Y, places, streams),
           NEW s, Carries(Y, pipe, r.pipes[pipe][1], s)
    PROVE  Adds(p, X, r, Y, places, streams \cup {s})
<1>1. CallsKept(p, r) /\ PipesKept(p, r)
  BY DEF Adds, CallsKept, PipesKept
<1>2. NewCalls(p, r) = NewCalls(q, r) /\ NewPipes(p, r) = NewPipes(q, r) \cup {pipe}
  BY DEF Adds, CallsKept, PipesKept, NewCalls, NewPipes
<1>3. StartAt(p, r, places)
  BY <1>2 DEF Adds, StartAt
<1>4. CarriedBy(p, r, Y, streams \cup {s})
  BY <1>2 DEF Adds, CarriedBy
<1> QED
  BY <1>1, <1>3, <1>4 DEF Adds

\* One call that becomes another one adds nothing, nor does what b learns.
LEMMA AddsChanged ==
    ASSUME NEW q, NEW r, NEW n, NEW new, CallChanged(q, r, n, new), Became(q.calls[n], new),
           NEW X, NEW Y, AllBecame(X, Y), NEW none, none = {}
    PROVE  Adds(q, CallsOf(q) \cup X, r, CallsOf(r) \cup Y, none, none)
<1>1. NewCalls(q, r) = {} /\ NewPipes(q, r) = {} /\ PipesKept(q, r)
  BY DEF NewCalls, NewPipes, CallChanged, PipesKept
<1>2. \A m \in DOMAIN q.calls : m \in DOMAIN r.calls /\ Became(q.calls[m], r.calls[m])
  <2>1. \A c : Became(c, c)
    BY DEF Became
  <2> QED
    BY <2>1 DEF CallChanged
<1>3. CallsKept(q, r)
  BY <1>2 DEF CallsKept, Became
<1>4. AllBecame(CallsOf(q), CallsOf(r))
  BY <1>2 DEF AllBecame, CallsOf
<1>5. AllBecame(CallsOf(q) \cup X, CallsOf(r) \cup Y)
  BY <1>4, BecameAside
<1> QED
  BY <1>1, <1>3, <1>5 DEF Adds, StartAt, CarriedBy

(* What BuildCall comes to, from p and the builder b to c, for a call that  *)
(* starts at this place.                                                   *)
CallIsBuilt(p, b, at, inside, c) ==
    /\ Adds(p, CallsAndOne(p, b, at), c.p, CallsOf(c.p), {at}, {})
    /\ c.call # NULL /\ c.p.calls[c.call].at = at
    /\ \A m \in DOMAIN p.calls : c.p.calls[m] = p.calls[m]
    /\ c.p.last = IF p.last = NULL /\ ~inside THEN c.call ELSE p.last
    /\ c.p.sub = IF p.sub = NULL /\ inside THEN c.call ELSE p.sub

\* The call that is built is the one that was being parsed.
LEMMA BuildCallAdds ==
    ASSUME NEW s, NEW h \in Context, Going(s, h), NEW inside \in BOOLEAN, NEW at, NEW name,
           NEW c, c = BuildCall(s.p, s.b, at, name, inside)
    PROVE  CallIsBuilt(s.p, s.b, at, inside, c)
<1> DEFINE call == Len(s.p.calls) + 1
           built == [at |-> at, name |-> name, stdin |-> OrStandard(s.b, 1), stdout |-> OrStandard(s.b, 2),
                     stderr |-> OrStandard(s.b, 3), reads |-> s.b.reads, writes |-> s.b.writes,
                     files |-> s.b.files]
           last == IF s.p.last = NULL /\ ~inside THEN call ELSE s.p.last
           sub == IF s.p.sub = NULL /\ inside THEN call ELSE s.p.sub
<1>1. /\ s.p \in Parse /\ s.p.calls \in Seq(CallType) /\ Len(s.p.calls) \in Nat
      /\ DOMAIN s.p.calls = 1 .. Len(s.p.calls)
  BY ParseFacts DEF Going, Sound, Parse
<1>2. /\ built.at = at /\ built.reads = s.b.reads /\ built.writes = s.b.writes /\ built.files = s.b.files
  OBVIOUS
<1>3. c.call = call /\ c.p = [s.p EXCEPT !.calls = Append(s.p.calls, built), !.last = last, !.sub = sub]
  BY DEF BuildCall
<1> HIDE DEF built, last, sub
<1>4. c.p.calls = Append(s.p.calls, built) /\ c.p.pipes = s.p.pipes /\ c.p.last = last /\ c.p.sub = sub
  BY <1>1, <1>3 DEF Parse
<1>5. DOMAIN c.p.calls = 1 .. call /\ c.p.calls[call] = built
      /\ \A m \in DOMAIN s.p.calls : c.p.calls[m] = s.p.calls[m]
  <2>1. \A m \in 1 .. Len(s.p.calls) : Append(s.p.calls, built)[m] = s.p.calls[m]
    BY <1>1
  <2> QED
    BY <1>1, <1>4, <2>1
<1>6. /\ call \in DOMAIN c.p.calls /\ call \notin DOMAIN s.p.calls /\ call # NULL
      /\ \A m \in DOMAIN c.p.calls : m = call \/ m \in DOMAIN s.p.calls
      /\ \A m \in DOMAIN s.p.calls : m \in DOMAIN c.p.calls
  BY <1>1, <1>5 DEF NULL
<1>7. c.p.last = (IF s.p.last = NULL /\ ~inside THEN c.call ELSE s.p.last)
      /\ c.p.sub = (IF s.p.sub = NULL /\ inside THEN c.call ELSE s.p.sub)
  BY <1>3, <1>4 DEF last, sub
<1> HIDE DEF call
<1>8. NewCalls(s.p, c.p) = {call} /\ NewPipes(s.p, c.p) = {} /\ PipesKept(s.p, c.p) /\ CallsKept(s.p, c.p)
  BY <1>4, <1>5, <1>6 DEF NewCalls, NewPipes, PipesKept, CallsKept
<1>9. StartAt(s.p, c.p, {at}) /\ CarriedBy(s.p, c.p, CallsOf(c.p), {})
  BY <1>2, <1>5, <1>8 DEF StartAt, CarriedBy
<1>10. AllBecame(CallsAndOne(s.p, s.b, at), CallsOf(c.p))
  <2>1. Became(AsCall(s.b, at), built)
    BY <1>2 DEF Became, AsCall
  <2>2. \A d : Became(d, d)
    BY DEF Became
  <2> QED
    BY <1>5, <1>6, <2>1, <2>2 DEF AllBecame, CallsAndOne, CallsOf
<1> QED
  BY <1>2, <1>3, <1>5, <1>6, <1>7, <1>8, <1>9, <1>10 DEF Adds, CallIsBuilt

\* A redirection adds nothing.
LEMMA RedirectionAdds ==
    ASSUME NEW s, NEW h \in Context, Going(s, h), NEW symbol, NEW filename,
           NEW r, r = parse_redirections(s.p, s.b, symbol, filename), r.ok, NEW lo, NEW none, none = {}
    PROVE  /\ Adds(s.p, CallsAndOne(s.p, s.b, lo), r.p, CallsAndOne(r.p, r.b, lo), none, none)
           /\ r.p.last = s.p.last
<1> DEFINE i == RedirectedFd(symbol)
           p == s.p
           b == s.b
           f == p.fd + 1
           q == Close(p, {b.fds[i]})
           opened == q.open \cup {f}
           fd == q.fd + 1
           fds == [b.fds EXCEPT ![i] = f]
<1>1. i # 0 /\ filename \notin Unopenable
  BY DEF parse_redirections, Error
<1>2. p \in Parse /\ b \in Builder
  BY DEF Going, Sound, BuilderApart
<1> HIDE DEF i
<1>3. r = Success([q EXCEPT !.open = opened, !.fd = fd], [b EXCEPT !.fds = fds])
  BY <1>1, <1>2, CloseFacts DEF parse_redirections, i
<1>4. q \in Parse /\ q.calls = p.calls /\ q.pipes = p.pipes /\ q.last = p.last
  BY <1>2, CloseFacts
<1>5. r.p = [q EXCEPT !.open = opened, !.fd = fd] /\ r.b = [b EXCEPT !.fds = fds]
  BY <1>3 DEF Success
<1> HIDE DEF q, p, b, opened, fd, fds
<1>6. r.p.calls = p.calls /\ r.p.pipes = p.pipes /\ r.p.last = p.last
  BY <1>4, <1>5 DEF Parse
<1>7. r.b.reads = b.reads /\ r.b.writes = b.writes /\ r.b.files = b.files
  BY <1>2, <1>5 DEF Builder
<1>8. CallsAndOne(p, b, lo) = CallsAndOne(r.p, r.b, lo)
  BY <1>6, <1>7 DEF CallsAndOne, CallsOf, AsCall
<1>9. AllBecame(CallsAndOne(p, b, lo), CallsAndOne(r.p, r.b, lo))
  BY <1>8, BecameSame
<1>10. Adds(p, CallsAndOne(p, b, lo), r.p, CallsAndOne(r.p, r.b, lo), none, none)
  BY <1>6, <1>9, AddsNothing
<1> QED
  BY <1>6, <1>10 DEF p, b

(* What LinkNext makes of a call that was parsed after a "|" and of the    *)
(* builder b of the call before it.                                        *)
NextIsLinked(c, b, r, pipe, q, new) ==
    /\ PipesKept(c.p, q) /\ NewPipes(c.p, q) = {pipe} /\ q.calls = c.p.calls
    /\ new = ReadsFrom(q.calls[c.call], pipe, q.pipes[pipe][1])
    /\ CallChanged(q, r.p, c.call, new)
    /\ r.p.last = c.p.last /\ r.p.sub = c.p.sub
    /\ q.pipes[pipe][1] # 0
    /\ r.b.reads = b.reads /\ r.b.writes = b.writes \cup {pipe} /\ r.b.files = b.files

\* There is such a pipe when the call after a "|" was found.
LEMMA NextGetsLinked ==
    ASSUME NEW s, NEW h \in Context, NEW inside \in BOOLEAN, Going(s, h),
           NEW c, NextParsed(c, Within(s, h), inside), c.call # NULL,
           NEW r, r = LinkNext(c, s.b, inside)
    PROVE  \E pipe, q, new : NextIsLinked(c, s.b, r, pipe, q, new)
<1> DEFINE p == c.p
           n == c.call
           q == OpenPipe(p)
           pipe == Len(p.pipes) + 1
           new == ReadsFrom(q.calls[n], pipe, q.pipes[pipe][1])
           linked == [q EXCEPT !.calls = [q.calls EXCEPT ![n] = new]]
           fds == [s.b.fds EXCEPT ![2] = q.pipes[pipe][2]]
           b == [s.b EXCEPT !.writes = s.b.writes \cup {pipe}, !.fds = fds]
           L == link_pipelines(p, s.b, n)
<1>1. r = IF L.p.last # n \/ inside
          THEN Success(AddCallAtTheEnd(L.p, n), L.b) ELSE Success(L.p, L.b)
  BY DEF LinkNext
<1>2. L = [p |-> linked, b |-> b]
  BY DEF link_pipelines
<1> HIDE DEF L, b, linked
<1>3. p \in Parse /\ n \in DOMAIN p.calls /\ s.b \in Builder
  BY DEF NextParsed, CallParsed, Going, BuilderApart
<1>4. /\ q \in Parse /\ q.calls = p.calls /\ q.last = p.last /\ q.sub = p.sub
      /\ DOMAIN q.pipes = 1 .. pipe /\ q.pipes[pipe] = <<p.fd + 1, p.fd + 2>>
      /\ \A k \in DOMAIN p.pipes : q.pipes[k] = p.pipes[k]
  BY <1>3, OpenPipeFacts
<1>5. Len(p.pipes) \in Nat /\ DOMAIN p.pipes = 1 .. Len(p.pipes) /\ p.fd \in Nat
  BY <1>3, ParseFacts
<1>6. PipesKept(p, q) /\ NewPipes(p, q) = {pipe} /\ q.pipes[pipe][1] # 0
  BY <1>4, <1>5 DEF PipesKept, NewPipes
<1>7. r.b = b /\ (r.p = linked \/ r.p = AddCallAtTheEnd(linked, n))
  BY <1>1, <1>2 DEF Success
<1> HIDE DEF fds, q, pipe, p
<1>8. b.reads = s.b.reads /\ b.writes = s.b.writes \cup {pipe} /\ b.files = s.b.files
  BY <1>3 DEF b, Builder
<1> HIDE DEF new
<1>9. /\ linked.last = q.last /\ linked.sub = q.sub /\ linked.pipes = q.pipes /\ linked.fd = q.fd
      /\ linked.calls = [q.calls EXCEPT ![n] = new]
  BY <1>4 DEF linked, Parse
<1>10. /\ linked \in [DOMAIN q -> {linked[x] : x \in DOMAIN q}]
       /\ {"last", "sub", "order", "calls", "pipes", "fd"} \subseteq DOMAIN q
  BY <1>4 DEF linked, Parse
<1>11. \E order : AddCallAtTheEnd(linked, n) = [linked EXCEPT !.order = order]
  BY DEF AddCallAtTheEnd
<1>12. /\ r.p.last = linked.last /\ r.p.sub = linked.sub /\ r.p.calls = linked.calls
       /\ r.p.pipes = linked.pipes /\ r.p.fd = linked.fd
  <2>1. CASE r.p = linked
    BY <2>1
  <2>2. CASE r.p = AddCallAtTheEnd(linked, n)
    BY <1>10, <1>11, <2>2
  <2> QED
    BY <1>7, <2>1, <2>2
<1>13. CallChanged(q, r.p, n, new)
  BY <1>3, <1>4, <1>9, <1>12 DEF CallChanged
<1> DEFINE before == s.b
<1> HIDE DEF before
<1>14. r.b.reads = before.reads /\ r.b.writes = before.writes \cup {pipe} /\ r.b.files = before.files
  BY <1>7, <1>8 DEF before
<1>15. new = ReadsFrom(q.calls[n], pipe, q.pipes[pipe][1])
  BY DEF new
<1>16. NextIsLinked(c, before, r, pipe, q, new)
  BY <1>4, <1>6, <1>9, <1>12, <1>13, <1>14, <1>15 DEF NextIsLinked, p
<1> QED
  BY <1>16 DEF before

(* What LinkNext adds from c, parsed after the "|" of s, to r: a pipe to     *)
(* the call that starts at next.                                           *)
NextAdds(s, c, lo, next, r) ==
    /\ Adds(c.p, CallsAndOne(c.p, s.b, lo), r.p, CallsAndOne(r.p, r.b, lo), {}, {PipeTo(lo, next)})
    /\ r.p.last = c.p.last /\ r.p.sub = c.p.sub

\* A "|" adds a pipe, to the call after it from the one that is being parsed.
LEMMA LinkNextAdds ==
    ASSUME NEW s, NEW h \in Context, NEW inside \in BOOLEAN, Going(s, h),
           NEW c, NextParsed(c, Within(s, h), inside), c.call # NULL,
           NEW r, r = LinkNext(c, s.b, inside), NEW lo, NEW next, next = c.p.calls[c.call].at
    PROVE  NextAdds(s, c, lo, next, r)
<1> DEFINE p == c.p
           n == c.call
           b == s.b
           stream == PipeTo(lo, next)
<1>1. PICK pipe, q, new : NextIsLinked(c, b, r, pipe, q, new)
  BY NextGetsLinked
<1>2. p.calls[n] \in CallType /\ p.calls[n].stdin = 0 /\ n \in DOMAIN p.calls
  BY ParseFacts DEF NextParsed, CallParsed
<1> DEFINE fd == q.pipes[pipe][1]
           old == p.calls[n]
           X == {AsCall(b, lo)}
           Y == {AsCall(r.b, lo)}
           none == {}
<1>3. /\ PipesKept(p, q) /\ NewPipes(p, q) = {pipe} /\ q.calls = p.calls
      /\ new = ReadsFrom(old, pipe, fd) /\ CallChanged(q, r.p, n, new) /\ fd # 0
      /\ r.b.reads = b.reads /\ r.b.writes = b.writes \cup {pipe} /\ r.b.files = b.files
      /\ r.p.last = p.last /\ r.p.sub = p.sub
  BY <1>1 DEF NextIsLinked
<1>4. old \in CallType /\ old.stdin = 0 /\ old = q.calls[n] /\ old.at = next
  BY <1>2, <1>3
<1>5. r.p.pipes = q.pipes /\ n \in DOMAIN r.p.calls /\ r.p.calls[n] = new
  BY <1>3 DEF CallChanged
<1> HIDE DEF p, n, b, old, fd
<1>6. new.at = old.at /\ new.reads = old.reads \cup {pipe} /\ new.writes = old.writes /\ new.files = old.files
      /\ new.stdin = fd
  BY <1>3, <1>4 DEF ReadsFrom, CallType
<1>7. none = {}
  OBVIOUS
<1> HIDE DEF none
<1>8. Became(q.calls[n], new)
  BY <1>4, <1>6 DEF Became
<1>9. AllBecame(X, Y)
  BY <1>3 DEF AllBecame, Became, AsCall
<1>10. Adds(q, CallsOf(q) \cup X, r.p, CallsOf(r.p) \cup Y, none, none)
  <2> HIDE DEF X, Y
  <2> QED
    BY <1>3, <1>7, <1>8, <1>9, AddsChanged
<1>11. Carries(CallsOf(r.p) \cup Y, pipe, r.p.pipes[pipe][1], stream)
  <2>1. stream[1] = lo /\ stream[2] = next /\ stream[3] # "file"
    BY DEF PipeTo
  <2> HIDE DEF stream
  <2>2. Writes(CallsOf(r.p) \cup Y, pipe, stream[1])
    <3> DEFINE one == AsCall(r.b, lo)
    <3>1. one.at = lo /\ one.writes = r.b.writes /\ one \in Y
      BY DEF AsCall
    <3> HIDE DEF one, Y
    <3> QED
      BY <1>3, <2>1, <3>1 DEF Writes
  <2>3. new \in CallsOf(r.p)
    BY <1>5 DEF CallsOf
  <2>4. new.at = stream[2] /\ pipe \in new.reads /\ new.stdin = fd
    BY <1>4, <1>6, <2>1
  <2>5. ReadsIt(CallsOf(r.p) \cup Y, pipe, stream[2], fd, stream[3])
    BY <2>1, <2>3, <2>4 DEF ReadsIt
  <2>6. r.p.pipes[pipe][1] = fd
    BY <1>5 DEF fd
  <2> QED
    BY <1>3, <2>2, <2>5, <2>6 DEF Carries
<1> HIDE DEF stream, X, Y
<1>12. Adds(p, CallsOf(q) \cup X, r.p, CallsOf(r.p) \cup Y, none, none \cup {stream})
  BY <1>3, <1>10, <1>11, AddsOpened
<1>13. CallsOf(q) = CallsOf(p) /\ none \cup {stream} = {stream}
  BY <1>3, <1>7 DEF CallsOf
<1>14. Adds(p, CallsOf(p) \cup X, r.p, CallsOf(r.p) \cup Y, none, {stream})
  BY <1>12, <1>13
<1> QED
  BY <1>3, <1>7, <1>14 DEF NextAdds, CallsAndOne, X, Y, p, b, stream

(* What LinkSubstitution makes of the calls between two parentheses and of *)
(* the builder b of the call outside.                                      *)
SubstitutionIsLinked(c, b, r, pipe, new) ==
    /\ c.p.sub \in DOMAIN c.p.calls
    /\ new = WritesInto(c.p.calls[c.p.sub], pipe, c.p.pipes[pipe][2])
    /\ CallChanged(c.p, r.p, c.p.sub, new)
    /\ r.p.last = c.p.last /\ r.p.sub = NULL
    /\ r.b.reads = b.reads \cup {pipe} /\ r.b.writes = b.writes
    /\ r.b.files = b.files \cup {c.p.pipes[pipe][1]}

\* There is such a call when the substitution is accepted.
LEMMA SubstitutionGetsLinked ==
    ASSUME NEW s, NEW h \in Context, Going(s, h), NEW c, SubstitutionParsed(c, Inner(s, h)),
           NEW r, r = SubstitutionLinked(c, s), r.ok, NEW pipe, pipe = Len(s.p.pipes) + 1
    PROVE  c.call # NULL /\ \E new : SubstitutionIsLinked(c, s.b, r, pipe, new)
<1> DEFINE q == c.p
           n == c.call
           sub == q.sub
           new == WritesInto(q.calls[sub], pipe, q.pipes[pipe][2])
           linked == [q EXCEPT !.calls = [q.calls EXCEPT ![sub] = new]]
           reset == [linked EXCEPT !.sub = NULL]
           reads == s.b.reads \cup {pipe}
           files == s.b.files \cup {q.pipes[pipe][1]}
           b == [s.b EXCEPT !.reads = reads, !.files = files]
<1>1. n # NULL
  BY DEF SubstitutionLinked, LinkSubstitution, Error
<1>2. r = Success(AddCallAtTheEnd([q EXCEPT !.calls[sub] = new, !.sub = NULL], n), b)
  BY <1>1 DEF SubstitutionLinked, LinkSubstitution, Error
<1>3. q \in Parse /\ sub >= 0 /\ sub # NULL /\ Ordered(q, {n}) /\ s.b \in Builder
  BY <1>1 DEF SubstitutionParsed, CallParsed, SubInPlace, Going, BuilderApart
<1>4. sub \in DOMAIN q.calls
  BY <1>3, ParseFacts DEF Ordered, Addressed, NULL
<1>5. [q EXCEPT !.calls[sub] = new, !.sub = NULL] = reset
  OBVIOUS
<1> HIDE DEF q, sub, new, b
<1>6. /\ reset.last = q.last /\ reset.sub = NULL /\ reset.pipes = q.pipes /\ reset.fd = q.fd
      /\ reset.calls = [q.calls EXCEPT ![sub] = new]
  BY <1>3 DEF Parse
<1>7. /\ reset \in [DOMAIN q -> {reset[x] : x \in DOMAIN q}]
      /\ {"last", "sub", "order", "calls", "pipes", "fd"} \subseteq DOMAIN q
  BY <1>3 DEF Parse
<1>8. \E order : AddCallAtTheEnd(reset, n) = [reset EXCEPT !.order = order]
  BY DEF AddCallAtTheEnd
<1> HIDE DEF reset, linked
<1>9. r.p = AddCallAtTheEnd(reset, n) /\ r.b = b
  BY <1>2, <1>5 DEF Success
<1>10. /\ r.p.last = reset.last /\ r.p.sub = reset.sub /\ r.p.calls = reset.calls
       /\ r.p.pipes = reset.pipes /\ r.p.fd = reset.fd
  BY <1>7, <1>8, <1>9
<1>11. CallChanged(q, r.p, sub, new)
  BY <1>4, <1>6, <1>10 DEF CallChanged
<1> DEFINE before == s.b
<1> HIDE DEF before, reads, files
<1>12. b = [before EXCEPT !.reads = reads, !.files = files] /\ before \in Builder
  BY <1>3 DEF b, before
<1>13. r.b.reads = reads /\ r.b.writes = before.writes /\ r.b.files = files
  BY <1>9, <1>12 DEF Builder
<1>14. reads = before.reads \cup {pipe} /\ files = before.files \cup {q.pipes[pipe][1]}
  BY DEF reads, files, before
<1>15. SubstitutionIsLinked(c, before, r, pipe, new)
  BY <1>4, <1>6, <1>10, <1>11, <1>13, <1>14 DEF SubstitutionIsLinked, q, sub, new
<1> QED
  BY <1>1, <1>15 DEF before

\* Where the parse of a substitution starts.
Inward(p) == [OpenPipe(p) EXCEPT !.sub = NULL]

(* What is added from s, with what was added between the parentheses, to r.*)
SubstitutionAdds(s, last, lo, r, places, streams) ==
    /\ Adds(s.p, CallsAndOne(s.p, s.b, lo), r.p, CallsAndOne(r.p, r.b, lo), places, streams \cup {FileTo(last, lo)})
    /\ r.p.sub = NULL

(* A substitution adds what is between its parentheses and a pipe, from the*)
(* last call there to the one that is being parsed.                        *)
LEMMA LinkSubstitutionAdds ==
    ASSUME NEW s, NEW h \in Context, Going(s, h), NEW c, SubstitutionParsed(c, Inner(s, h)),
           NEW r, r = SubstitutionLinked(c, s), r.ok, NEW lo,
           NEW q, q = Inward(s.p), NEW places, NEW streams,
           Adds(q, CallsOf(q), c.p, CallsOf(c.p), places, streams),
           NEW last, last = c.p.calls[c.p.sub].at
    PROVE  SubstitutionAdds(s, last, lo, r, places, streams) /\ r.p.last = c.p.last
<1> DEFINE p == s.p
           b == s.b
           d == c.p
           pipe == Len(s.p.pipes) + 1
           sub == c.p.sub
           fd == c.p.pipes[pipe][1]
           stream == FileTo(last, lo)
           X == {AsCall(b, lo)}
           Y == {AsCall(r.b, lo)}
<1>1. PICK new : SubstitutionIsLinked(c, b, r, pipe, new)
  BY SubstitutionGetsLinked
<1>2. d \in Parse /\ p \in Parse /\ c.call # NULL
  BY SubstitutionGetsLinked DEF SubstitutionParsed, CallParsed, Going, Sound
<1>3. /\ q.calls = p.calls /\ PipesKept(p, q) /\ NewPipes(p, q) = {pipe} /\ q.pipes[pipe][1] # 0
  <2> DEFINE o == OpenPipe(p)
  <2>1. /\ o \in Parse /\ o.calls = p.calls /\ DOMAIN o.pipes = 1 .. pipe
        /\ o.pipes[pipe] = <<p.fd + 1, p.fd + 2>>
        /\ \A k \in DOMAIN p.pipes : o.pipes[k] = p.pipes[k]
    BY <1>2, OpenPipeFacts
  <2>2. Len(p.pipes) \in Nat /\ DOMAIN p.pipes = 1 .. Len(p.pipes) /\ p.fd \in Nat
    BY <1>2, ParseFacts
  <2> HIDE DEF o
  <2>3. q.calls = o.calls /\ q.pipes = o.pipes
    BY <2>1, ResetFacts DEF o, Inward
  <2> QED
    BY <2>1, <2>2, <2>3 DEF PipesKept, NewPipes
<1>4. /\ sub \in DOMAIN d.calls /\ new = WritesInto(d.calls[sub], pipe, d.pipes[pipe][2])
      /\ CallChanged(d, r.p, sub, new) /\ r.p.last = d.last /\ r.p.sub = NULL
      /\ r.b.reads = b.reads \cup {pipe} /\ r.b.writes = b.writes /\ r.b.files = b.files \cup {fd}
  BY <1>1 DEF SubstitutionIsLinked
<1>5. d.calls[sub] \in CallType /\ d.calls[sub].at = last
  BY <1>2, <1>4, ParseFacts
<1>6. r.p.pipes = d.pipes /\ sub \in DOMAIN r.p.calls /\ r.p.calls[sub] = new
  BY <1>4 DEF CallChanged
<1>7. pipe \in DOMAIN q.pipes /\ d.pipes[pipe] = q.pipes[pipe] /\ fd # 0
  BY <1>3 DEF Adds, PipesKept, NewPipes
<1> DEFINE old == d.calls[sub]
<1>8. Adds(q, CallsOf(q), d, CallsOf(d), places, streams) /\ r.p.pipes[pipe][1] = fd
  BY <1>6
<1>9. CallsOf(q) = CallsOf(p)
  BY <1>3 DEF CallsOf
<1> HIDE DEF p, b, d, pipe, sub, fd, old
<1>10. new.at = old.at /\ new.writes = old.writes \cup {pipe} /\ new.reads = old.reads /\ new.files = old.files
       /\ new.stdin = old.stdin
  BY <1>4, <1>5 DEF WritesInto, CallType, old
<1>11. Became(d.calls[sub], new)
  BY <1>10 DEF Became, old
<1>12. AllBecame(X, Y)
  BY <1>4 DEF AllBecame, Became, AsCall
<1> DEFINE none == {}
<1>13. Adds(d, CallsOf(d) \cup X, r.p, CallsOf(r.p) \cup Y, none, none)
  <2> HIDE DEF X, Y
  <2> QED
    BY <1>4, <1>11, <1>12, AddsChanged
<1>14. Adds(q, CallsOf(q) \cup X, d, CallsOf(d) \cup X, places, streams)
  BY <1>8, AddsAside
<1>15. Adds(q, CallsOf(q) \cup X, r.p, CallsOf(r.p) \cup Y, places, streams)
  <2>1. places \cap none = {} /\ places \cup none = places /\ streams \cup none = streams
    OBVIOUS
  <2> HIDE DEF none, X, Y
  <2>2. Adds(q, CallsOf(q) \cup X, r.p, CallsOf(r.p) \cup Y, places \cup none, streams \cup none)
    BY <1>13, <1>14, <2>1, AddsOn
  <2> QED
    BY <2>1, <2>2
<1>16. Carries(CallsOf(r.p) \cup Y, pipe, r.p.pipes[pipe][1], stream)
  <2>1. stream[1] = last /\ stream[2] = lo /\ stream[3] = "file"
    BY DEF FileTo
  <2> HIDE DEF stream
  <2>2. new \in CallsOf(r.p)
    BY <1>6 DEF CallsOf
  <2>3. Writes(CallsOf(r.p) \cup Y, pipe, stream[1])
    BY <1>5, <1>10, <2>1, <2>2 DEF Writes, old
  <2>4. ReadsIt(CallsOf(r.p) \cup Y, pipe, stream[2], fd, stream[3])
    <3> DEFINE one == AsCall(r.b, lo)
    <3>1. one.at = lo /\ one.reads = r.b.reads /\ one.files = r.b.files /\ one \in Y
      BY DEF AsCall
    <3> HIDE DEF one, Y
    <3> QED
      BY <1>4, <2>1, <3>1 DEF ReadsIt
  <2> QED
    BY <1>7, <1>8, <2>3, <2>4 DEF Carries
<1> HIDE DEF stream, X, Y
<1>17. Adds(p, CallsOf(q) \cup X, r.p, CallsOf(r.p) \cup Y, places, streams \cup {stream})
  BY <1>3, <1>15, <1>16, AddsOpened
<1> QED
  BY <1>4, <1>9, <1>17 DEF SubstitutionAdds, CallsAndOne, X, Y, p, b, d, stream

(* What the text says of the tokens from lo to hi: where calls start, and  *)
(* which streams their symbols stand for.                                  *)
Links == Reference!LinkSymbols
StartsIn(t, lo, hi) == {m \in lo .. hi : Reference!IsStart(t, m)}
OthersIn(t, lo, i, hi) == StartsIn(t, i, hi) \ {lo}
StreamAt(t, i) ==
    IF t[i] = "|" THEN PipeTo(Reference!StartOf(t, i), i + 1)
    ELSE FileTo(Reference!StartOf(t, Reference!Closing(t, i) - 1), Reference!StartOf(t, i))
StreamsIn(t, lo, hi) == {StreamAt(t, k) : k \in {j \in lo .. hi : t[j] \in Links}}

\* The end of the tokens.
LEMMA NothingIn ==
    ASSUME NEW t, NEW lo, NEW hi \in Nat, NEW i, i = hi + 1
    PROVE  OthersIn(t, lo, i, hi) = {} /\ StreamsIn(t, i, hi) = {}
<1>1. \A k \in i .. hi : FALSE
  OBVIOUS
<1> QED
  BY <1>1 DEF OthersIn, StartsIn, StreamsIn

\* A token that neither starts a call nor links two.
LEMMA PassedIn ==
    ASSUME NEW t, NEW lo \in Nat, NEW hi \in Nat, NEW i \in Nat, i <= hi, t[i] \notin Links,
           i = lo \/ ~Reference!IsStart(t, i)
    PROVE  OthersIn(t, lo, i, hi) = OthersIn(t, lo, i + 1, hi) /\ StreamsIn(t, i, hi) = StreamsIn(t, i + 1, hi)
<1> DEFINE next == i + 1
<1>1. \A k : k \in i .. hi <=> k = i \/ k \in next .. hi
  OBVIOUS
<1> HIDE DEF next
<1>2. OthersIn(t, lo, i, hi) = OthersIn(t, lo, next, hi)
  BY <1>1 DEF OthersIn, StartsIn
<1>3. StreamsIn(t, i, hi) = StreamsIn(t, next, hi)
  BY <1>1 DEF StreamsIn
<1> QED
  BY <1>2, <1>3 DEF next

\* What comes after a "|".
LEMMA AfterPipeIn ==
    ASSUME NEW t, NEW lo \in Nat, NEW hi \in Nat, NEW i \in Nat, lo < i, i <= hi, t[i] = "|",
           ~Reference!IsStart(t, i), NEW next, next = i + 1
    PROVE  /\ OthersIn(t, lo, i, hi) = StartsIn(t, next, hi)
           /\ StreamsIn(t, i, hi) = StreamsIn(t, next, hi) \cup {StreamAt(t, i)}
<1>1. \A k : k \in i .. hi <=> k = i \/ k \in next .. hi
  OBVIOUS
<1>2. \A k \in next .. hi : k # lo
  OBVIOUS
<1>3. t[i] \in Links
  BY DEF Links, Reference!LinkSymbols
<1>4. OthersIn(t, lo, i, hi) = StartsIn(t, next, hi)
  BY <1>1, <1>2 DEF OthersIn, StartsIn
<1>5. StreamsIn(t, i, hi) = StreamsIn(t, next, hi) \cup {StreamAt(t, i)}
  BY <1>1, <1>3 DEF StreamsIn
<1> QED
  BY <1>4, <1>5

\* What is between parentheses, and after them.
LEMMA SubstitutionIn ==
    ASSUME NEW t, NEW lo \in Nat, NEW hi \in Nat, NEW i \in Nat, lo < i, t[i] = "<(",
           ~Reference!IsStart(t, i), NEW first, first = i + 1,
           NEW end \in i + 2 .. hi, t[end] \notin Links, ~Reference!IsStart(t, end),
           NEW last, last = end - 1, NEW next, next = end + 1
    PROVE  /\ OthersIn(t, lo, i, hi) = StartsIn(t, first, last) \cup OthersIn(t, lo, next, hi)
           /\ StreamsIn(t, i, hi) = (StreamsIn(t, first, last) \cup {StreamAt(t, i)}) \cup StreamsIn(t, next, hi)
           /\ StartsIn(t, first, last) \cap OthersIn(t, lo, next, hi) = {}
<1>1. /\ \A k : k \in i .. hi <=> k = i \/ k \in first .. last \/ k = end \/ k \in next .. hi
      /\ \A k \in first .. last : k # lo /\ k \notin next .. hi
  OBVIOUS
<1>2. t[i] \in Links
  BY DEF Links, Reference!LinkSymbols
<1>3. OthersIn(t, lo, i, hi) = StartsIn(t, first, last) \cup OthersIn(t, lo, next, hi)
  BY <1>1 DEF OthersIn, StartsIn
<1>4. StreamsIn(t, i, hi) = (StreamsIn(t, first, last) \cup {StreamAt(t, i)}) \cup StreamsIn(t, next, hi)
  BY <1>1, <1>2 DEF StreamsIn
<1>5. StartsIn(t, first, last) \cap OthersIn(t, lo, next, hi) = {}
  BY <1>1 DEF OthersIn, StartsIn
<1> QED
  BY <1>3, <1>4, <1>5

(* The call that was built first, if any, which is the last one of its     *)
(* pipeline.                                                               *)
LastBuilt(p, inside) == IF inside THEN p.sub ELSE p.last

EndsAt(t, p, inside, lo, hi) ==
    LET last == LastBuilt(p, inside) IN
    IF last = NULL THEN IsOf(t, lo, hi) ELSE IsOf(t, p.calls[last].at, hi)

(* What parse_command_call adds, c being what it comes to, and what its    *)
(* loop adds that comes from s at token i to r.                            *)
CallPlaced(t, lo, hi, inside, p, c) ==
    /\ Adds(p, CallsOf(p), c.p, CallsOf(c.p), StartsIn(t, lo, hi), StreamsIn(t, lo, hi))
    /\ c.p.calls[c.call].at = lo
    /\ LastBuilt(c.p, inside) # NULL /\ EndsAt(t, c.p, inside, lo, hi)
    /\ inside => c.p.last = p.last

Placed(t, lo, i, hi, inside, s, r) ==
    /\ Adds(s.p, CallsAndOne(s.p, s.b, lo), r.p, CallsAndOne(r.p, r.b, lo), OthersIn(t, lo, i, hi), StreamsIn(t, i, hi))
    /\ EndsAt(t, r.p, inside, lo, hi)
    /\ inside => r.p.last = s.p.last

\* The last call is one of those that were built.
LEMMA LastIsBuilt ==
    ASSUME NEW p \in Parse, NEW inside \in BOOLEAN, SubInPlace(p, inside), NEW pending, Ordered(p, pending),
           LastBuilt(p, inside) # NULL
    PROVE  LastBuilt(p, inside) \in DOMAIN p.calls
BY ParseFacts DEF LastBuilt, SubInPlace, Ordered, Addressed, NULL

\* The end of parse_command_call, if its loop added what it should.
LEMMA EndOfCallPlaces ==
    ASSUME NEW t, NEW lo \in Nat, NEW hi \in Nat, lo <= hi, Reference!IsStart(t, lo),
           NEW inside \in BOOLEAN, NEW pipeline, NEW p, NEW s, s = Success(p, NewBuilder),
           NEW h \in Context, NEW r,
           r.ok => Going(r, h) /\ SubInPlace(r.p, inside) /\ Placed(t, lo, lo, hi, inside, s, r),
           NEW c, c = EndOfCall(r, lo, t[lo], inside, pipeline), c.call # NULL
    PROVE  CallPlaced(t, lo, hi, inside, p, c)
<1> DEFINE none == {}
           others == OthersIn(t, lo, lo, hi)
           streams == StreamsIn(t, lo, hi)
           name == t[lo]
<1>1. r.ok /\ c = BuildCall(r.p, r.b, lo, name, inside)
  BY DEF EndOfCall
<1>2. /\ Going(r, h) /\ SubInPlace(r.p, inside)
      /\ Adds(s.p, CallsAndOne(s.p, s.b, lo), r.p, CallsAndOne(r.p, r.b, lo), others, streams)
      /\ EndsAt(t, r.p, inside, lo, hi) /\ (inside => r.p.last = s.p.last) /\ s.p = p
  BY <1>1 DEF Placed, Success
<1>3. r.p \in Parse /\ Ordered(r.p, {})
  BY <1>2 DEF Going, Sound
<1> HIDE DEF name, none
<1>4. none = {}
  BY DEF none
<1>5. CallIsBuilt(r.p, r.b, lo, inside, c)
  BY <1>1, <1>2, BuildCallAdds
<1>6. /\ Adds(r.p, CallsAndOne(r.p, r.b, lo), c.p, CallsOf(c.p), {lo}, none)
      /\ c.call # NULL /\ c.p.calls[c.call].at = lo
      /\ \A m \in DOMAIN r.p.calls : c.p.calls[m] = r.p.calls[m]
      /\ c.p.last = IF r.p.last = NULL /\ ~inside THEN c.call ELSE r.p.last
      /\ c.p.sub = IF r.p.sub = NULL /\ inside THEN c.call ELSE r.p.sub
  BY <1>4, <1>5 DEF CallIsBuilt
<1>7. Adds(p, CallsOf(p), s.p, CallsAndOne(s.p, s.b, lo), none, none)
  <2>1. AllBecame(CallsOf(p), CallsAndOne(s.p, s.b, lo))
    BY <1>2, BecameSame DEF CallsAndOne
  <2> QED
    BY <1>2, <1>4, <2>1, AddsNothing
<1>8. lo \in lo .. hi /\ lo \notin others /\ others \cup {lo} = StartsIn(t, lo, hi)
  BY DEF OthersIn, StartsIn
<1>9. Adds(p, CallsOf(p), c.p, CallsOf(c.p), StartsIn(t, lo, hi), streams)
  <2>1. /\ none \cap others = {} /\ none \cup others = others /\ none \cup streams = streams
        /\ others \cap {lo} = {} /\ streams \cup none = streams
    BY <1>4, <1>8
  <2> HIDE DEF others, streams
  <2>2. Adds(p, CallsOf(p), r.p, CallsAndOne(r.p, r.b, lo), none \cup others, none \cup streams)
    BY <1>2, <1>7, <2>1, AddsOn
  <2>3. Adds(p, CallsOf(p), r.p, CallsAndOne(r.p, r.b, lo), others, streams)
    BY <2>1, <2>2
  <2>4. Adds(p, CallsOf(p), c.p, CallsOf(c.p), others \cup {lo}, streams \cup none)
    BY <1>6, <2>1, <2>3, AddsOn
  <2> QED
    BY <1>8, <2>1, <2>4 DEF others
<1>10. LastBuilt(c.p, inside) # NULL /\ EndsAt(t, c.p, inside, lo, hi)
  <2>1. CASE LastBuilt(r.p, inside) = NULL
    <3>1. LastBuilt(c.p, inside) = c.call
      BY <1>6, <2>1 DEF LastBuilt
    <3>2. IsOf(t, lo, hi)
      BY <1>2, <2>1 DEF EndsAt
    <3> QED
      BY <1>6, <3>1, <3>2 DEF EndsAt
  <2>2. CASE LastBuilt(r.p, inside) # NULL
    <3>1. LastBuilt(c.p, inside) = LastBuilt(r.p, inside)
      BY <1>6, <2>2 DEF LastBuilt
    <3>2. LastBuilt(r.p, inside) \in DOMAIN r.p.calls
      BY <1>2, <1>3, <2>2, LastIsBuilt
    <3> QED
      BY <1>2, <1>6, <2>2, <3>1, <3>2 DEF EndsAt
  <2> QED
    BY <2>1, <2>2
<1>11. inside => c.p.last = p.last
  BY <1>2, <1>6
<1> QED
  BY <1>6, <1>9, <1>10, <1>11 DEF CallPlaced

(* What the loop g adds when n tokens are left.                            *)
LoopPlaces(g, n) ==
    \A a \in Frame, h \in Context, len \in Nat :
        /\ Text(a.t, len) /\ Room(a.t, len, a.lo, a.hi)
        /\ Ready(a, h) /\ a.r.ok /\ a.hi + 1 - a.i <= n
        /\ Scanned(a.t, a.lo, a.i) /\ LastBuilt(a.r.p, a.inside_substitution) = NULL
        /\ g[a].ok
        => Placed(a.t, a.lo, a.i, a.hi, a.inside_substitution, a.r, g[a])

\* parse_command_call adds the calls and the pipes of its tokens.
LEMMA CommandCallPlaces ==
    ASSUME NEW g, NEW n \in Nat, LoopKeeps(g, n), LoopPlaces(g, n),
           NEW t \in TokenSeq, NEW p, NEW h \in Context, NEW inside \in BOOLEAN, NEW pipeline \in BOOLEAN,
           StartsAt(p, h, inside), LastBuilt(p, inside) = NULL,
           NEW lo \in Nat, NEW hi \in Nat, Fits(t, lo, hi, n),
           NEW len, Text(t, len), Room(t, len, lo, hi),
           NEW c, c = parse_command_call(g, t, p, lo, hi, inside, pipeline), c.call # NULL
    PROVE  CallPlaced(t, lo, hi, inside, p, c)
<1>1. ~(hi < lo) /\ 0 < lo /\ lo <= hi /\ Reference!IsStart(t, lo)
  BY DEF Room
<1> DEFINE first == Success(p, NewBuilder)
           a == [t |-> t, r |-> first, lo |-> lo, i |-> lo, hi |-> hi, inside_substitution |-> inside]
           r == g[a]
<1>2. first \in Result /\ first.ok /\ first.p = p /\ Going(first, h) /\ FilesOnly(first)
  BY StartIsReady
<1>3. c = EndOfCall(r, lo, t[lo], inside, pipeline)
  BY <1>1 DEF parse_command_call
<1>4. first = Success(p, NewBuilder)
  OBVIOUS
<1> HIDE DEF first
<1>5. a \in Frame
  BY <1>2 DEF Frame, Result, TokenSeq, Symbols
<1>6. Ready(a, h) /\ a.r.ok /\ a.hi + 1 - a.i <= n
  BY <1>1, <1>2 DEF Ready, StartsAt, Fits
<1>7. /\ a.t = t /\ a.lo = lo /\ a.hi = hi /\ a.i = lo /\ a.inside_substitution = inside
      /\ a.r = first
  BY <1>2
<1>8. r.ok => Going(r, h) /\ SubInPlace(r.p, inside)
  <2>1. Done(a, h, r)
    BY <1>5, <1>6 DEF LoopKeeps
  <2> QED
    BY <1>7, <2>1 DEF Done
<1>9. ASSUME r.ok PROVE Placed(t, lo, lo, hi, inside, first, r)
  <2>1. Scanned(a.t, a.lo, a.i) /\ LastBuilt(a.r.p, a.inside_substitution) = NULL
    BY <1>2, <1>7 DEF Scanned
  <2>2. len \in Nat /\ r = g[a]
    BY DEF Text
  <2> HIDE DEF a, r
  <2> QED
    BY <1>5, <1>6, <1>7, <1>9, <2>1, <2>2 DEF LoopPlaces
<1> HIDE DEF a, r
<1> QED
  BY <1>1, <1>3, <1>4, <1>8, <1>9, EndOfCallPlaces

(* What parse_command_substitution adds, from s to r, the tokens between   *)
(* its parentheses being those from i to last.                             *)
SubstitutionPlaced(t, i, last, lo, s, r) ==
    /\ Adds(s.p, CallsAndOne(s.p, s.b, lo), r.p, CallsAndOne(r.p, r.b, lo), StartsIn(t, i, last),
            StreamsIn(t, i, last) \cup {FileTo(Reference!StartOf(t, last), lo)})
    /\ r.p.last = s.p.last /\ r.p.sub = NULL

\* A substitution adds the calls between its parentheses.
LEMMA CommandSubstitutionPlaces ==
    ASSUME NEW g, NEW n \in Nat, LoopKeeps(g, n), LoopPlaces(g, n),
           NEW t \in TokenSeq, NEW s, NEW h \in Context, Going(s, h), FilesOnly(s),
           NEW i \in Nat, NEW end \in Nat, EndFits(t, i, end, n), end # 0,
           NEW len, Text(t, len), NEW last \in Nat, last = end - 1, Room(t, len, i, last), NEW lo,
           NEW r, r = parse_command_substitution(g, t, s.p, s.b, i, end), r.ok
    PROVE  SubstitutionPlaced(t, i, last, lo, s, r)
<1> DEFINE q == OpenPipe(s.p)
           p == [q EXCEPT !.sub = NULL]
           c == parse_command_call(g, t, p, i, end - 1, TRUE, FALSE)
           inner == Inner(s, h)
           Call(yes, no) == parse_command_call(g, t, p, i, last, yes, no)
<1>1. r = SubstitutionLinked(c, s)
  BY DEF parse_command_substitution, SubstitutionLinked
<1>2. StartsAt(p, inner, TRUE) /\ c = Call(TRUE, FALSE) /\ p = Inward(s.p)
  BY SubstitutionStarts DEF Inward
<1>3. p.last = s.p.last /\ p.sub = NULL
  <2>1. s.p \in Parse
    BY DEF Going, Sound
  <2>2. q \in Parse /\ q.last = s.p.last
    BY <2>1, OpenPipeFacts
  <2> HIDE DEF q
  <2> QED
    BY <2>2, ResetFacts
<1>4. inner \in Context /\ Fits(t, i, last, n)
  BY InnerFacts DEF EndFits
<1> HIDE DEF p, q, inner
<1>5. ASSUME NEW yes \in BOOLEAN, NEW no \in BOOLEAN, StartsAt(p, inner, yes), LastBuilt(p, yes) = NULL
      PROVE  /\ CallParsed(Call(yes, no), inner, yes, no)
             /\ Call(yes, no).call # NULL => CallPlaced(t, i, last, yes, p, Call(yes, no))
  <2>1. CallParsed(Call(yes, no), inner, yes, no)
    BY <1>4, <1>5, CommandCallKeeps
  <2>2. ASSUME Call(yes, no).call # NULL PROVE CallPlaced(t, i, last, yes, p, Call(yes, no))
    BY <1>4, <1>5, <2>2, CommandCallPlaces
  <2> QED
    BY <2>1, <2>2
<1>6. LastBuilt(p, TRUE) = NULL
  BY <1>3 DEF LastBuilt
<1> HIDE DEF c, Call
<1>7. CallParsed(c, inner, TRUE, FALSE) /\ (c.call # NULL => CallPlaced(t, i, last, TRUE, p, c))
  BY <1>2, <1>5, <1>6
<1>8. SubstitutionParsed(c, Inner(s, h))
  BY <1>7 DEF SubstitutionParsed, inner
<1>9. c.call # NULL
  BY <1>1, <1>8, SubstitutionGetsLinked
<1>10. /\ Adds(p, CallsOf(p), c.p, CallsOf(c.p), StartsIn(t, i, last), StreamsIn(t, i, last))
       /\ c.p.sub # NULL /\ IsOf(t, c.p.calls[c.p.sub].at, last) /\ c.p.last = p.last
  BY <1>7, <1>9 DEF CallPlaced, LastBuilt, EndsAt
<1> DEFINE start == Reference!StartOf(t, last)
           places == StartsIn(t, i, last)
           streams == StreamsIn(t, i, last)
<1>11. start = c.p.calls[c.p.sub].at /\ Adds(p, CallsOf(p), c.p, CallsOf(c.p), places, streams)
  BY <1>10 DEF IsOf
<1> HIDE DEF start, places, streams
<1>12. SubstitutionAdds(s, start, lo, r, places, streams) /\ r.p.last = c.p.last
  BY <1>1, <1>2, <1>8, <1>11, LinkSubstitutionAdds
<1> QED
  BY <1>3, <1>10, <1>12 DEF SubstitutionAdds, SubstitutionPlaced, start, places, streams

(* What a "|" before token i adds, from s to r.                            *)
NextPlaced(t, i, hi, inside, lo, s, r) ==
    /\ Adds(s.p, CallsAndOne(s.p, s.b, lo), r.p, CallsAndOne(r.p, r.b, lo), StartsIn(t, i, hi),
            StreamsIn(t, i, hi) \cup {PipeTo(lo, i)})
    /\ EndsAt(t, r.p, inside, lo, hi)
    /\ inside => r.p.last = s.p.last

\* A "|" adds the calls after it.
LEMMA NextCallPlaces ==
    ASSUME NEW g, NEW n \in Nat, LoopKeeps(g, n), LoopPlaces(g, n),
           NEW t \in TokenSeq, NEW s, NEW h \in Context, NEW inside \in BOOLEAN, NEW i \in Nat, NEW hi \in Nat,
           Going(s, h), SubInPlace(s.p, inside), LastBuilt(s.p, inside) = NULL, Fits(t, i, hi, n),
           NEW len, Text(t, len), Room(t, len, i, hi), NEW lo,
           NEW c, c = parse_command_call(g, t, s.p, i, hi, inside, TRUE),
           NEW r, r = LinkNext(c, s.b, inside), r.ok
    PROVE  NextPlaced(t, i, hi, inside, lo, s, r)
<1> DEFINE k == Within(s, h)
           p == s.p
           Call(pipeline) == parse_command_call(g, t, p, i, hi, inside, pipeline)
<1>1. StartsAt(p, k, inside) /\ k \in Context
  BY WithinStarts
<1>2. LastBuilt(p, inside) = NULL /\ c = Call(TRUE)
  OBVIOUS
<1>3. c.call # NULL
  BY DEF LinkNext, Error
<1> HIDE DEF k, p
<1>4. ASSUME NEW pipeline \in BOOLEAN
      PROVE  /\ CallParsed(Call(pipeline), k, inside, pipeline)
             /\ Call(pipeline).call # NULL => CallPlaced(t, i, hi, inside, p, Call(pipeline))
  <2>1. CallParsed(Call(pipeline), k, inside, pipeline)
    BY <1>1, CommandCallKeeps
  <2>2. ASSUME Call(pipeline).call # NULL PROVE CallPlaced(t, i, hi, inside, p, Call(pipeline))
    BY <1>1, <1>2, <2>2, CommandCallPlaces
  <2> QED
    BY <2>1, <2>2
<1> HIDE DEF Call
<1>5. CallParsed(c, k, inside, TRUE) /\ CallPlaced(t, i, hi, inside, p, c)
  BY <1>2, <1>3, <1>4
<1>6. NextParsed(c, Within(s, h), inside) /\ c.p \in Parse /\ Ordered(c.p, {c.call}) /\ SubInPlace(c.p, inside)
  BY <1>3, <1>5 DEF NextParsed, CallParsed, k
<1> DEFINE X == {AsCall(s.b, lo)}
           none == {}
           stream == PipeTo(lo, i)
           places == StartsIn(t, i, hi)
           streams == StreamsIn(t, i, hi)
<1>7. c.p.calls[c.call].at = i /\ stream = PipeTo(lo, i) /\ none = {}
  BY <1>5 DEF CallPlaced
<1> HIDE DEF none, stream
<1>8. /\ Adds(c.p, CallsAndOne(c.p, s.b, lo), r.p, CallsAndOne(r.p, r.b, lo), none, {stream})
      /\ r.p.last = c.p.last /\ r.p.sub = c.p.sub
  <2>1. NextAdds(s, c, lo, i, r)
    BY <1>3, <1>6, <1>7, LinkNextAdds
  <2> QED
    BY <1>7, <2>1 DEF NextAdds
<1>9. Adds(p, CallsOf(p), c.p, CallsOf(c.p), places, streams)
  BY <1>5 DEF CallPlaced
<1>10. Adds(p, CallsAndOne(p, s.b, lo), r.p, CallsAndOne(r.p, r.b, lo), places, streams \cup {stream})
  <2>1. CallsAndOne(c.p, s.b, lo) = CallsOf(c.p) \cup X /\ CallsAndOne(p, s.b, lo) = CallsOf(p) \cup X
    BY DEF CallsAndOne
  <2>2. places \cap none = {} /\ places \cup none = places
    BY <1>7
  <2> HIDE DEF X, places, streams
  <2>3. Adds(p, CallsOf(p) \cup X, c.p, CallsOf(c.p) \cup X, places, streams)
    BY <1>9, AddsAside
  <2>4. Adds(c.p, CallsOf(c.p) \cup X, r.p, CallsAndOne(r.p, r.b, lo), none, {stream})
    BY <1>8, <2>1
  <2>5. Adds(p, CallsOf(p) \cup X, r.p, CallsAndOne(r.p, r.b, lo), places \cup none, streams \cup {stream})
    BY <2>2, <2>3, <2>4, AddsOn
  <2> QED
    BY <2>1, <2>2, <2>5
<1>11. /\ LastBuilt(c.p, inside) # NULL /\ EndsAt(t, c.p, inside, i, hi)
       /\ inside => c.p.last = p.last
  BY <1>5 DEF CallPlaced
<1>12. LastBuilt(r.p, inside) = LastBuilt(c.p, inside)
  BY <1>8 DEF LastBuilt
<1>13. LastBuilt(c.p, inside) \in DOMAIN c.p.calls
  BY <1>6, <1>11, LastIsBuilt
<1>14. \A m \in DOMAIN c.p.calls : r.p.calls[m].at = c.p.calls[m].at
  BY <1>8 DEF Adds, CallsKept
<1>15. EndsAt(t, r.p, inside, lo, hi)
  BY <1>11, <1>12, <1>13, <1>14 DEF EndsAt
<1> QED
  BY <1>7, <1>8, <1>10, <1>11, <1>15 DEF NextPlaced, p, places, streams, stream

(* What the loop adds from s at token j to q at token i, its call still    *)
(* being the only one of its pipeline.                                     *)
GoneOn(t, lo, j, i, hi, inside, s, q) ==
    \E places, streams :
        /\ Adds(s.p, CallsAndOne(s.p, s.b, lo), q.p, CallsAndOne(q.p, q.b, lo), places, streams)
        /\ OthersIn(t, lo, j, hi) = places \cup OthersIn(t, lo, i, hi)
        /\ places \cap OthersIn(t, lo, i, hi) = {}
        /\ StreamsIn(t, j, hi) = streams \cup StreamsIn(t, i, hi)
        /\ LastBuilt(q.p, inside) = NULL
        /\ inside => q.p.last = s.p.last

\* What is placed after it is placed from the first token on.
LEMMA PlacedOn ==
    ASSUME NEW t, NEW lo, NEW j, NEW i, NEW hi, NEW inside, NEW s, NEW q, NEW r,
           GoneOn(t, lo, j, i, hi, inside, s, q), Placed(t, lo, i, hi, inside, q, r)
    PROVE  Placed(t, lo, j, hi, inside, s, r)
<1>1. PICK places, streams :
        /\ Adds(s.p, CallsAndOne(s.p, s.b, lo), q.p, CallsAndOne(q.p, q.b, lo), places, streams)
        /\ OthersIn(t, lo, j, hi) = places \cup OthersIn(t, lo, i, hi)
        /\ places \cap OthersIn(t, lo, i, hi) = {}
        /\ StreamsIn(t, j, hi) = streams \cup StreamsIn(t, i, hi)
        /\ inside => q.p.last = s.p.last
  BY DEF GoneOn
<1> DEFINE X == CallsAndOne(s.p, s.b, lo)
           Y == CallsAndOne(q.p, q.b, lo)
           Z == CallsAndOne(r.p, r.b, lo)
           others == OthersIn(t, lo, i, hi)
           more == StreamsIn(t, i, hi)
<1>2. /\ Adds(s.p, X, q.p, Y, places, streams) /\ Adds(q.p, Y, r.p, Z, others, more)
      /\ places \cap others = {}
  BY <1>1 DEF Placed
<1>3. EndsAt(t, r.p, inside, lo, hi) /\ (inside => r.p.last = s.p.last)
  BY <1>1 DEF Placed
<1> HIDE DEF X, Y, Z, others, more
<1>4. Adds(s.p, X, r.p, Z, places \cup others, streams \cup more)
  BY <1>2, AddsOn
<1> QED
  BY <1>1, <1>3, <1>4 DEF Placed, X, Z, others, more

\* Nothing was added.
LEMMA PassedOn ==
    ASSUME NEW t, NEW lo, NEW j, NEW i, NEW hi, NEW inside, NEW s, NEW q, NEW none, none = {},
           Adds(s.p, CallsAndOne(s.p, s.b, lo), q.p, CallsAndOne(q.p, q.b, lo), none, none),
           OthersIn(t, lo, j, hi) = OthersIn(t, lo, i, hi), StreamsIn(t, j, hi) = StreamsIn(t, i, hi),
           LastBuilt(q.p, inside) = NULL, q.p.last = s.p.last
    PROVE  GoneOn(t, lo, j, i, hi, inside, s, q)
<1> DEFINE others == OthersIn(t, lo, i, hi)
           streams == StreamsIn(t, i, hi)
<1>1. others = none \cup others /\ none \cap others = {} /\ streams = none \cup streams
  OBVIOUS
<1> QED
  BY <1>1 DEF GoneOn

\* At the end of the tokens.
LEMMA EndPlaces ==
    ASSUME NEW t, NEW len, Text(t, len), NEW lo \in Nat, NEW hi \in Nat, Room(t, len, lo, hi),
           NEW i, i = hi + 1, Scanned(t, lo, i), NEW inside, NEW r, LastBuilt(r.p, inside) = NULL
    PROVE  Placed(t, lo, i, hi, inside, r, r)
<1> DEFINE none == {}
           X == CallsAndOne(r.p, r.b, lo)
<1>1. /\ OthersIn(t, lo, i, hi) = none /\ StreamsIn(t, i, hi) = none
      /\ AllBecame(X, X) /\ none = {}
  BY NothingIn, BecameSame
<1> HIDE DEF none, X
<1>2. Adds(r.p, X, r.p, X, none, none)
  BY <1>1, AddsNothing
<1>3. lo < i /\ i - 1 = hi /\ hi \in 1 .. len /\ lo \in 1 .. hi /\ Reference!IsStart(t, lo)
  BY DEF Room, Text
<1>4. Belongs(t, lo, hi)
  BY <1>3 DEF Scanned, Belongs
<1>5. IsOf(t, lo, hi)
  BY <1>3, <1>4, IsOfBelongs
<1> QED
  BY <1>1, <1>2, <1>5 DEF Placed, EndsAt, X

\* A word.
LEMMA WordGoesOn ==
    ASSUME NEW t, NEW lo \in Nat, NEW hi \in Nat, 0 < lo, NEW j \in Nat, lo <= j, j <= hi, Scanned(t, lo, j),
           t[j] \notin Symbols, NEW i, i = j + 1, NEW inside, NEW s, LastBuilt(s.p, inside) = NULL
    PROVE  GoneOn(t, lo, j, i, hi, inside, s, s)
<1> DEFINE none == {}
           X == CallsAndOne(s.p, s.b, lo)
<1>1. t[j] \notin Links /\ t[j] # ")"
  BY DEF Links, Reference!LinkSymbols, Symbols, redirection_caret_symbols
<1>2. j = lo \/ ~Reference!IsStart(t, j)
  BY <1>1, NextIsInside
<1>3. OthersIn(t, lo, j, hi) = OthersIn(t, lo, i, hi) /\ StreamsIn(t, j, hi) = StreamsIn(t, i, hi)
  BY <1>1, <1>2, PassedIn
<1>4. none = {} /\ AllBecame(X, X)
  BY BecameSame
<1> HIDE DEF none, X
<1>5. Adds(s.p, X, s.p, X, none, none)
  BY <1>4, AddsNothing
<1> QED
  BY <1>3, <1>4, <1>5, PassedOn DEF X

\* The token at which the loop is belongs to the call that is being parsed.
LEMMA IsOfTheCall ==
    ASSUME NEW t, NEW len, Text(t, len), NEW lo \in Nat, NEW hi \in Nat, Room(t, len, lo, hi),
           NEW j \in Nat, lo < j, j <= hi, Scanned(t, lo, j), t[j] # ")"
    PROVE  IsOf(t, lo, j) /\ ~Reference!IsStart(t, j)
<1>1. lo \in 1 .. j /\ j \in 1 .. len /\ 0 < lo /\ Reference!IsStart(t, lo)
  BY DEF Room, Text
<1>2. Inside(t, lo, j) /\ Alone(t, lo, j) /\ ~Reference!IsStart(t, j)
  BY <1>1, NextIsInside
<1> QED
  BY <1>1, <1>2, IsOfBelongs DEF Belongs

\* A redirection and the file it names.
LEMMA RedirectionGoesOn ==
    ASSUME NEW t, NEW len, Text(t, len), NEW lo \in Nat, NEW hi \in Nat, Room(t, len, lo, hi),
           NEW j \in Nat, lo < j, j < hi, Scanned(t, lo, j), t[j] \in {"<", ">", "2>"}, t[j + 1] \notin Symbols,
           NEW i, i = j + 2, NEW inside, NEW s, NEW h \in Context, Going(s, h), LastBuilt(s.p, inside) = NULL,
           NEW symbol, NEW filename, NEW q, q = parse_redirections(s.p, s.b, symbol, filename), q.ok,
           q.p.sub = s.p.sub
    PROVE  GoneOn(t, lo, j, i, hi, inside, s, q)
<1> DEFINE none == {}
           next == j + 1
<1>1. t[j] # ")" /\ t[j] \notin Links /\ t[next] \notin Links
  BY DEF Links, Reference!LinkSymbols, Symbols, redirection_caret_symbols
<1>2. ~Reference!IsStart(t, j)
  BY <1>1, IsOfTheCall
<1>3. next \in Nat /\ next <= hi /\ next + 1 = i /\ next - 1 = j /\ next # 1 /\ none = {}
  OBVIOUS
<1> HIDE DEF next, none
<1>4. ~Reference!IsStart(t, next)
  BY <1>1, <1>3 DEF Reference!IsStart, Links
<1>5. /\ OthersIn(t, lo, j, hi) = OthersIn(t, lo, j + 1, hi) /\ StreamsIn(t, j, hi) = StreamsIn(t, j + 1, hi)
      /\ OthersIn(t, lo, next, hi) = OthersIn(t, lo, next + 1, hi)
      /\ StreamsIn(t, next, hi) = StreamsIn(t, next + 1, hi)
  BY <1>1, <1>2, <1>3, <1>4, PassedIn
<1>6. OthersIn(t, lo, j, hi) = OthersIn(t, lo, i, hi) /\ StreamsIn(t, j, hi) = StreamsIn(t, i, hi)
  BY <1>3, <1>5 DEF next
<1>7. Adds(s.p, CallsAndOne(s.p, s.b, lo), q.p, CallsAndOne(q.p, q.b, lo), none, none) /\ q.p.last = s.p.last
  BY <1>3, RedirectionAdds
<1>8. LastBuilt(q.p, inside) = NULL
  BY <1>7 DEF LastBuilt
<1> QED
  BY <1>3, <1>6, <1>7, <1>8, PassedOn

\* A substitution.
LEMMA SubstitutionGoesOn ==
    ASSUME NEW t, NEW len, Text(t, len), NEW lo \in Nat, NEW hi \in Nat, Room(t, len, lo, hi),
           NEW j \in Nat, lo < j, j < hi, Scanned(t, lo, j), t[j] = "<(",
           NEW first, first = j + 1, NEW end, end = ClosingPosition(t, j + 1, hi), end \in j + 2 .. hi,
           t[end] = ")", NEW last, last = end - 1, NEW i, i = end + 1,
           NEW inside \in BOOLEAN, NEW s, LastBuilt(s.p, inside) = NULL, NEW q,
           SubstitutionPlaced(t, first, last, lo, s, q)
    PROVE  GoneOn(t, lo, j, i, hi, inside, s, q)
<1>1. IsOf(t, lo, j) /\ ~Reference!IsStart(t, j)
  BY IsOfTheCall
<1>2. /\ hi <= len /\ len \in Nat /\ len = Len(t) /\ 0 < j /\ end \in Nat /\ end # 0 /\ end # 1
      /\ last \in 1 .. len /\ last < len /\ last + 1 = end
  BY DEF Room, Text
<1>3. Reference!Closing(t, j) = end
  BY <1>2, Enclosed
<1>4. t[end] \notin Links /\ t[end] \in Symbols
  BY DEF Links, Reference!LinkSymbols, Symbols, redirection_caret_symbols
<1>5. ~Reference!IsStart(t, end)
  <2>1. Followed(t, 1, len)
    BY <1>2, WellFormedFacts DEF Text
  <2>2. t[last] \notin Symbols \ {")"}
    BY <1>2, <1>4, <2>1 DEF Followed
  <2>3. t[last] \notin Reference!LinkSymbols
    BY <2>2 DEF Reference!LinkSymbols, Symbols, redirection_caret_symbols
  <2> QED
    BY <1>2, <2>3 DEF Reference!IsStart
<1> DEFINE start == Reference!StartOf(t, last)
<1>6. StreamAt(t, j) = FileTo(start, lo)
  BY <1>1, <1>3 DEF StreamAt, IsOf
<1>7. /\ OthersIn(t, lo, j, hi) = StartsIn(t, first, last) \cup OthersIn(t, lo, i, hi)
      /\ StreamsIn(t, j, hi) = (StreamsIn(t, first, last) \cup {StreamAt(t, j)}) \cup StreamsIn(t, i, hi)
      /\ StartsIn(t, first, last) \cap OthersIn(t, lo, i, hi) = {}
  BY <1>1, <1>4, <1>5, SubstitutionIn
<1>8. LastBuilt(q.p, inside) = NULL
  BY DEF LastBuilt, SubstitutionPlaced
<1> QED
  BY <1>6, <1>7, <1>8 DEF GoneOn, SubstitutionPlaced

\* A "|" and all that follows it.
LEMMA PipePlaces ==
    ASSUME NEW t, NEW len, Text(t, len), NEW lo \in Nat, NEW hi \in Nat, Room(t, len, lo, hi),
           NEW j \in Nat, lo < j, j < hi, Scanned(t, lo, j), t[j] = "|",
           NEW i, i = j + 1, NEW inside, NEW s, NEW r, NextPlaced(t, i, hi, inside, lo, s, r)
    PROVE  Placed(t, lo, j, hi, inside, s, r)
<1>1. IsOf(t, lo, j) /\ ~Reference!IsStart(t, j)
  BY IsOfTheCall
<1>2. StreamAt(t, j) = PipeTo(lo, i)
  BY <1>1 DEF StreamAt, IsOf
<1>3. /\ OthersIn(t, lo, j, hi) = StartsIn(t, i, hi)
      /\ StreamsIn(t, j, hi) = StreamsIn(t, i, hi) \cup {StreamAt(t, j)}
  BY <1>1, AfterPipeIn
<1> QED
  BY <1>2, <1>3 DEF NextPlaced, Placed

\* One turn of the loop.
LEMMA TurnPlaces ==
    ASSUME NEW g, NEW n \in Nat, LoopKeeps(g, n), LoopWires(g, n), LoopPlaces(g, n),
           NEW a \in Frame, NEW h \in Context, NEW len \in Nat, Text(a.t, len), Room(a.t, len, a.lo, a.hi),
           Ready(a, h), a.r.ok, a.hi + 1 - a.i <= n + 1,
           Scanned(a.t, a.lo, a.i), LastBuilt(a.r.p, a.inside_substitution) = NULL,
           NEW r, r = ParseTokens(g, a), r.ok
    PROVE  Placed(a.t, a.lo, a.i, a.hi, a.inside_substitution, a.r, r)
<1> DEFINE t == a.t
           lo == a.lo
           hi == a.hi
           j == a.i
           inside == a.inside_substitution
           now == a.r
           symbol == t[j]
           next == t[j + 1]
           Continue(s, i) == [a EXCEPT !.r = s, !.i = i]
<1>1. /\ now \in Result /\ t \in TokenSeq /\ lo \in Nat /\ j \in Nat /\ hi \in Nat
      /\ inside \in BOOLEAN
  BY DEF Frame, Result, TokenSeq, Symbols
<1>2. /\ Going(now, h) /\ SubInPlace(now.p, inside) /\ FilesOnly(now)
      /\ 1 <= lo /\ lo <= j /\ lo <= hi /\ j <= hi + 1 /\ hi <= Len(t)
  BY DEF Ready
<1>3. Scanned(t, lo, j) /\ hi + 1 - j <= n + 1 /\ 0 < lo /\ lo <= j /\ lo <= hi
  BY <1>1, <1>2
<1>4. Text(t, len) /\ Room(t, len, lo, hi) /\ LastBuilt(now.p, inside) = NULL /\ len = Len(t) /\ len \in Nat
  BY DEF Text
(* What is added once the loop goes on with s at token i. *)
<1>5. ASSUME NEW s \in Result, NEW i \in Nat, r = g[Continue(s, i)],
             s.ok => /\ Going(s, h) /\ SubInPlace(s.p, inside) /\ FilesOnly(s)
                     /\ j < i /\ i <= hi + 1 /\ Scanned(t, lo, i)
                     /\ LastBuilt(s.p, inside) = NULL /\ GoneOn(t, lo, j, i, hi, inside, now, s)
      PROVE  Placed(t, lo, j, hi, inside, now, r)
  <2> DEFINE f == Continue(s, i)
  <2>1. /\ f.r = s /\ f.i = i /\ f.t = t /\ f.lo = lo /\ f.hi = hi
        /\ f.inside_substitution = inside
    BY DEF Frame
  <2>2. f \in Frame
    BY <1>5 DEF Frame, Result
  <2>3. r = g[f]
    BY <1>5
  <2> HIDE DEF f, t, lo, hi, j, inside, now
  <2>4. s.ok
    BY <2>1, <2>2, <2>3 DEF LoopWires
  <2>5. Ready(f, h) /\ f.hi + 1 - f.i <= n
    BY <1>1, <1>2, <1>3, <1>5, <2>1, <2>4 DEF Ready
  <2>6. Placed(t, lo, i, hi, inside, s, r)
    BY <1>4, <1>5, <2>1, <2>2, <2>3, <2>4, <2>5 DEF LoopPlaces
  <2> QED
    BY <1>5, <2>4, <2>6, PlacedOn
<1>6. CASE j > hi
  <2>1. j = hi + 1
    BY <1>1, <1>2, <1>6
  <2>2. r = now
    BY <1>6 DEF ParseTokens
  <2>3. Placed(t, lo, j, hi, inside, now, r)
    <3> HIDE DEF t, lo, hi, j, inside, now
    <3>1. Placed(t, lo, j, hi, inside, now, now)
      BY <1>1, <1>3, <1>4, <2>1, EndPlaces
    <3> QED
      BY <2>2, <3>1
  <2> QED
    BY <2>3
<1>7. CASE j <= hi /\ symbol \notin Symbols
  <2> DEFINE i == j + 1
  <2>1. r = g[Continue(now, i)]
    BY <1>1, <1>7 DEF ParseTokens, Symbols
  <2>2. i \in Nat /\ j < i /\ i <= hi + 1 /\ i = j + 1
    BY <1>1, <1>7
  <2>3. Scanned(t, lo, j + 1)
    <3> HIDE DEF t, lo, hi, j
    <3> QED
      BY <1>1, <1>2, <1>3, <1>7, WordScanned
  <2>4. GoneOn(t, lo, j, i, hi, inside, now, now)
    <3> HIDE DEF t, lo, hi, j, i, inside, now
    <3> QED
      BY <1>1, <1>3, <1>4, <1>7, <2>2, WordGoesOn
  <2> QED
    BY <1>1, <1>2, <1>4, <1>5, <2>1, <2>2, <2>3, <2>4
<1>8. CASE j <= hi /\ symbol \in Symbols
  <2>1. ~(j > hi)
    BY <1>1, <1>8
  <2>2. j # lo /\ j # hi /\ symbol # ")" /\ next \notin Symbols
    <3> HIDE DEF t, lo, hi, j
    <3> QED
      BY <1>1, <1>3, <1>4, <1>8, SymbolsInPlace
  <2>3. j + 1 \in Nat /\ j + 1 <= hi /\ lo < j /\ j < hi
    <3>1. j <= hi /\ lo <= j /\ j # lo /\ j # hi /\ lo \in Nat /\ j \in Nat /\ hi \in Nat
      BY <1>1, <1>2, <1>8, <2>2
    <3> HIDE DEF lo, hi, j
    <3> QED
      BY <3>1
  <2>4. symbol # ")" /\ Inside(t, lo, j) /\ Alone(t, lo, j)
    <3> HIDE DEF t, lo, hi, j
    <3> QED
      BY <1>1, <1>3, <2>2, <2>3, NextIsInside
  <2>5. CASE symbol = "<("
    <3> DEFINE end == ClosingPosition(t, j + 1, hi)
               first == j + 1
               last == end - 1
               i == end + 1
               s == parse_command_substitution(g, t, now.p, now.b, first, end)
    <3>1. r = g[Continue(s, i)]
      BY <1>8, <2>1, <2>2, <2>5 DEF ParseTokens, Symbols
    <3>2. end \in j + 2 .. hi /\ t[end] = ")" /\ Scanned(t, lo, end + 1) /\ Room(t, len, j + 1, end - 1)
      <4> HIDE DEF t, lo, hi, j
      <4>1. len > 0 /\ hi <= len /\ lo \in 1 .. len /\ j + 1 \in Nat /\ Len(t) \in Nat
        BY <1>1, <1>2, <1>3, <1>4, <2>3
      <4>2. Depth(t, len) = 0 /\ Followed(t, 1, len) /\ Reference!Level(t, lo) >= 0
        BY <1>1, <1>4, <4>1, WellFormedFacts DEF Text
      <4>3. /\ end \in j + 2 .. hi
            /\ Room(t, len, j + 1, end - 1)
        BY <1>1, <1>4, <2>2, <2>3, <2>4, <2>5, <4>2, RoomInside
      <4>4. end \in Nat /\ end # 0 /\ end \in j + 1 .. hi /\ end - 1 < len /\ end - 1 \in j + 1 .. len
        BY <1>1, <4>1, <4>3
      <4>5. t[end] = ")"
        <5>1. end = ClosingPosition(t, j + 1, hi) /\ j \in Nat /\ j > 0 /\ hi \in Nat /\ end # 0 /\ t[j] = "<("
          BY <1>1, <1>3, <2>3, <2>5, <4>4
        <5>2. hi <= Len(t) /\ Len(t) \in Nat
          BY <4>1, <1>2
        <5> HIDE DEF end
        <5> QED
          BY <5>1, <5>2, Enclosed
      <4>6. Followed(t, j + 1, end - 1)
        <5> HIDE DEF end
        <5>1. ASSUME NEW k \in j + 1 .. end - 1
              PROVE  k \in 1 .. len /\ k < end /\ (k = end - 1 \/ k < end - 1) /\ (k = end - 1 => k + 1 = end)
          BY <1>1, <4>1, <4>4
        <5>2. t[end] \in Symbols
          BY <4>5 DEF Symbols, redirection_caret_symbols
        <5> QED
          BY <4>2, <5>1, <5>2 DEF Followed
      <4>7. Scanned(t, lo, end + 1)
        BY <1>1, <1>2, <1>3, <1>4, <2>2, <2>3, <2>5, <4>1, <4>4, <4>6, SubstitutionScanned
      <4> QED
        BY <4>3, <4>5, <4>7
    <3>3. end \in Nat /\ i \in Nat /\ end # 0 /\ j < i /\ i <= hi + 1 /\ last \in Nat
      BY <1>1, <3>2
    <3>4. EndFits(t, first, end, n)
      <4>1. hi <= Len(t) /\ end \in j + 2 .. hi /\ Len(t) \in Nat
        BY <1>1, <1>2, <3>2, LenProperties DEF TokenSeq
      <4> HIDE DEF t, lo, hi, j, end
      <4> QED
        BY <1>1, <1>2, <1>3, <4>1 DEF EndFits, Fits
    <3>5. /\ first \in Nat /\ s = parse_command_substitution(g, t, now.p, now.b, first, end)
          /\ Room(t, len, first, last) /\ last = end - 1 /\ first = j + 1 /\ i = end + 1
          /\ end = ClosingPosition(t, j + 1, hi) /\ Scanned(t, lo, i)
      BY <2>3, <3>2
    <3> HIDE DEF t, lo, hi, j, inside, now, first, s, end, last, i
    <3>6. /\ s \in Result
          /\ s.ok => Going(s, h) /\ SubInPlace(s.p, inside) /\ FilesOnly(s)
      BY <1>1, <1>2, <3>3, <3>4, <3>5, CommandSubstitutionKeeps
    <3>7. s.ok => SubstitutionPlaced(t, first, last, lo, now, s)
      BY <1>1, <1>2, <1>4, <3>3, <3>4, <3>5, CommandSubstitutionPlaces
    <3>8. s.ok => LastBuilt(s.p, inside) = NULL
      BY <1>4, <3>7 DEF SubstitutionPlaced, LastBuilt
    <3>9. ASSUME s.ok PROVE GoneOn(t, lo, j, i, hi, inside, now, s)
      <4>1. SubstitutionPlaced(t, first, last, lo, now, s)
        BY <3>7, <3>9
      <4>2. Scanned(t, lo, j) /\ t[j] = "<(" /\ t[end] = ")" /\ end \in j + 2 .. hi
        BY <1>3, <2>5, <3>2
      <4>3. /\ lo \in Nat /\ hi \in Nat /\ j \in Nat /\ lo < j /\ j < hi /\ inside \in BOOLEAN
            /\ first = j + 1 /\ last = end - 1 /\ i = end + 1 /\ end = ClosingPosition(t, j + 1, hi)
        BY <1>1, <2>3, <3>5
      <4>4. Text(t, len) /\ Room(t, len, lo, hi) /\ LastBuilt(now.p, inside) = NULL
        BY <1>4
      <4> QED
        BY <4>1, <4>2, <4>3, <4>4, SubstitutionGoesOn
    <3>10. Placed(t, lo, j, hi, inside, now, r)
      BY <1>5, <3>1, <3>3, <3>5, <3>6, <3>8, <3>9
    <3> QED
      BY <3>10 DEF t, lo, j, hi, inside, now
  <2>6. CASE symbol = "|"
    <3> DEFINE i == j + 1
               c == parse_command_call(g, t, now.p, i, hi, inside, TRUE)
    <3>1. r = LinkNext(c, now.b, inside)
      BY <1>8, <2>1, <2>2, <2>6 DEF ParseTokens, Symbols, Error
    <3>2. Fits(t, i, hi, n)
      <4>1. hi <= Len(t) /\ Len(t) \in Nat
        BY <1>1, <1>2, LenProperties DEF TokenSeq
      <4> HIDE DEF t, lo, hi, j
      <4> QED
        BY <1>1, <1>3, <2>3, <4>1 DEF Fits
    <3>3. Room(t, len, j + 1, hi)
      <4> HIDE DEF t, lo, hi, j
      <4> QED
        BY <1>1, <1>4, <2>2, <2>3, <2>4, <2>6, RoomAfterPipe
    <3>4. /\ c = parse_command_call(g, t, now.p, i, hi, inside, TRUE)
          /\ i \in Nat /\ i = j + 1 /\ Room(t, len, i, hi)
      BY <2>3, <3>3
    <3> HIDE DEF t, lo, hi, j, inside, now, i, c
    <3>5. NextPlaced(t, i, hi, inside, lo, now, r)
      BY <1>1, <1>2, <1>4, <3>1, <3>2, <3>4, NextCallPlaces
    <3>6. Placed(t, lo, j, hi, inside, now, r)
      BY <1>1, <1>3, <1>4, <2>3, <2>6, <3>4, <3>5, PipePlaces
    <3> QED
      BY <3>6 DEF t, lo, j, hi, inside, now
  <2>7. CASE symbol # "<(" /\ symbol # "|"
    <3> DEFINE s == parse_redirections(now.p, now.b, symbol, next)
               i == j + 2
    <3>1. r = g[Continue(s, i)]
      BY <1>8, <2>1, <2>2, <2>7 DEF ParseTokens, Symbols
    <3>2. symbol \in {"<", ">", "2>"}
      BY <1>8, <2>2, <2>7 DEF Symbols, redirection_caret_symbols
    <3>3. Scanned(t, lo, j + 2)
      <4> HIDE DEF t, lo, hi, j
      <4> QED
        BY <1>1, <1>2, <1>3, <2>2, <2>3, <3>2, RedirectionScanned
    <3>4. i \in Nat /\ j < i /\ i <= hi + 1 /\ i = j + 2 /\ Scanned(t, lo, i)
      BY <1>1, <2>3, <3>3
    <3> DEFINE caret == symbol
               filename == next
    <3>5. s = parse_redirections(now.p, now.b, caret, filename)
      OBVIOUS
    <3> HIDE DEF caret, filename, s
    <3>6. s \in Result /\ (s.ok => Going(s, h) /\ FilesOnly(s) /\ s.p.sub = now.p.sub)
      <4> HIDE DEF now
      <4> QED
        BY <1>2, <3>5, RedirectionKeeps
    <3>7. s.ok => GoneOn(t, lo, j, i, hi, inside, now, s)
      <4>1. t[j] \in {"<", ">", "2>"} /\ t[j + 1] \notin Symbols
        BY <2>2, <3>2
      <4> HIDE DEF t, lo, hi, j, inside, now, i
      <4> QED
        BY <1>1, <1>2, <1>4, <1>3, <2>3, <3>4, <3>5, <3>6, <4>1, RedirectionGoesOn
    <3>8. s.ok => LastBuilt(s.p, inside) = NULL
      BY <3>7 DEF GoneOn
    <3>9. s.ok => SubInPlace(s.p, inside)
      BY <1>2, <3>6 DEF SubInPlace
    <3> QED
      BY <1>5, <3>1, <3>4, <3>6, <3>7, <3>8, <3>9
  <2> QED
    BY <2>5, <2>6, <2>7
<1>9. Placed(t, lo, j, hi, inside, now, r)
  BY <1>1, <1>6, <1>7, <1>8
<1> QED
  BY <1>9

\* So the loop adds what it should, however many tokens there are.
LEMMA LoopsPlace ==
    \A n \in Nat : LoopPlaces(Loops[n], n)
<1> DEFINE Placing == {n \in Nat : LoopPlaces(Loops[n], n)}
<1>1. 0 \in Placing
  <2>1. \A a \in Frame : Loops[0][a] = a.r
    BY LoopsUnfold DEF NoTurn
  <2>2. ASSUME NEW a \in Frame, NEW h \in Context, NEW len \in Nat,
               Text(a.t, len), Room(a.t, len, a.lo, a.hi),
               Ready(a, h), a.r.ok, a.hi + 1 - a.i <= 0,
               Scanned(a.t, a.lo, a.i), LastBuilt(a.r.p, a.inside_substitution) = NULL
        PROVE  Placed(a.t, a.lo, a.i, a.hi, a.inside_substitution, a.r, a.r)
    <3> DEFINE lo == a.lo
               hi == a.hi
               i == a.i
               t == a.t
               inside == a.inside_substitution
               r == a.r
    <3>1. lo \in Nat /\ hi \in Nat /\ i = hi + 1
      <4>1. lo \in Nat /\ hi \in Nat /\ i \in Nat
        BY DEF Frame
      <4>2. lo <= hi /\ i <= hi + 1 /\ hi + 1 - i <= 0
        BY <2>2 DEF Ready
      <4> HIDE DEF lo, hi, i
      <4> QED
        BY <4>1, <4>2
    <3>2. Text(t, len) /\ Room(t, len, lo, hi) /\ Scanned(t, lo, i) /\ LastBuilt(r.p, inside) = NULL
      BY <2>2
    <3> HIDE DEF lo, hi, i, t, r, inside
    <3>3. Placed(t, lo, i, hi, inside, r, r)
      BY <3>1, <3>2, EndPlaces
    <3> QED
      BY <3>3 DEF lo, hi, i, t, r, inside
  <2> QED
    BY <2>1, <2>2 DEF LoopPlaces
<1>2. ASSUME NEW n \in Nat, n \in Placing PROVE n + 1 \in Placing
  <2>1. LoopPlaces(Loops[n], n) /\ LoopWires(Loops[n], n) /\ LoopKeeps(Loops[n], n)
    BY <1>2, LoopsKeep, LoopsWire
  <2>2. ASSUME NEW a \in Frame PROVE Loops[n + 1][a] = ParseTokens(Loops[n], a)
    BY LoopsUnfold DEF OneTurn
  <2>3. ASSUME NEW a \in Frame, NEW h \in Context, NEW len \in Nat,
               Text(a.t, len), Room(a.t, len, a.lo, a.hi),
               Ready(a, h), a.r.ok, a.hi + 1 - a.i <= n + 1,
               Scanned(a.t, a.lo, a.i), LastBuilt(a.r.p, a.inside_substitution) = NULL, Loops[n + 1][a].ok
        PROVE  Placed(a.t, a.lo, a.i, a.hi, a.inside_substitution, a.r, Loops[n + 1][a])
    <3> DEFINE r == Loops[n + 1][a]
    <3>1. r = ParseTokens(Loops[n], a) /\ r.ok
      BY <2>2, <2>3
    <3> HIDE DEF r
    <3>2. Placed(a.t, a.lo, a.i, a.hi, a.inside_substitution, a.r, r)
      BY <2>1, <2>3, <3>1, TurnPlaces
    <3> QED
      BY <3>2 DEF r
  <2>4. LoopPlaces(Loops[n + 1], n + 1)
    BY <2>3 DEF LoopPlaces
  <2> QED
    BY <2>4
<1>3. Nat \subseteq Placing
  <2> HIDE DEF Placing
  <2> QED
    BY <1>1, <1>2, Induction
<1> QED
  BY <1>3

-----------------------------------------------------------------------------
(* The command: its calls are those that were added, in another order.     *)

\* What WiresWhatIsWritten says of a command c and its tokens t.
WiresAre(c, t) ==
    /\ PipesLinked(c)
    /\ {StreamOf(c, pipe) : pipe \in DOMAIN c.pipes} = Reference!Streams(t)
    /\ Len(c.pipes) = Cardinality(Reference!Streams(t))
    /\ c.calls[1].at = Reference!MainLast(t)
    /\ {c.calls[n].at : n \in DOMAIN c.calls} = Reference!CallStarts(t)
    /\ Len(c.calls) = Cardinality(Reference!CallStarts(t))

(* The calls and the pipes of c are those of the tokens 1 to n.            *)
CommandPlaced(c, t, n) ==
    /\ \A m \in DOMAIN c.calls : c.calls[m].at \in StartsIn(t, 1, n)
    /\ \A x \in StartsIn(t, 1, n) : \E m \in DOMAIN c.calls : c.calls[m].at = x
    /\ \A j, k \in DOMAIN c.calls : c.calls[j].at = c.calls[k].at => j = k
    /\ \A k \in DOMAIN c.pipes : \E s \in StreamsIn(t, 1, n) : Carries(CallsOf(c), k, c.pipes[k][1], s)
    /\ \A s \in StreamsIn(t, 1, n) : \E k \in DOMAIN c.pipes : Carries(CallsOf(c), k, c.pipes[k][1], s)

\* As many as a function counts, each of them once.
LEMMA CountedOnce ==
    ASSUME NEW n \in Nat, NEW S, NEW f \in [1 .. n -> S], \A j, k \in 1 .. n : f[j] = f[k] => j = k,
           \A x \in S : \E k \in 1 .. n : f[k] = x
    PROVE  Cardinality(S) = n
<1>1. f \in Bijection(1 .. n, S)
  BY DEF Bijection, Injection, Surjection, IsInjective
<1>2. ExistsBijection(1 .. n, S)
  BY <1>1 DEF ExistsBijection
<1> QED
  BY <1>2, FS_CountingElements

\* A set with one element has no other one.
LEMMA OnlyElement ==
    ASSUME NEW S, Cardinality(S) = 1, IsFiniteSet(S), NEW x \in S
    PROVE  \A y \in S : y = x
<1>1. PICK z : S = {z}
  BY FS_Singleton
<1> QED
  BY <1>1

\* A pipe of a command carries a stream; it is the one read off, from its writer.
Bears(c, pipe, s) == Carries(CallsOf(c), pipe, c.pipes[pipe][1], s)
RunsAs(c, pipe, s) ==
    /\ StreamOf(c, pipe) = s
    /\ \E n \in DOMAIN c.calls : c.calls[n].at = s[1] /\ c.calls[n].stdout = c.pipes[pipe][2]

\* What a pipe carries is what the reader of the command takes it for.
LEMMA StreamIsCarried ==
    ASSUME NEW c, c.calls \in Seq(CallType), PipesLinked(c), NEW pipe \in DOMAIN c.pipes,
           NEW s, NEW writer, NEW reader, s = PipeTo(writer, reader) \/ s = FileTo(writer, reader),
           Bears(c, pipe, s)
    PROVE  RunsAs(c, pipe, s)
<1>1. s[1] = writer /\ s[2] = reader /\ (s[3] = "file" \/ s[3] = "pipe") /\ s = <<writer, reader, s[3]>>
  BY DEF PipeTo, FileTo
<1> DEFINE fd == c.pipes[pipe][1]
           kind == s[3]
<1>2. PICK w \in DOMAIN c.calls : c.calls[w].at = writer /\ pipe \in c.calls[w].writes
  BY <1>1 DEF Bears, Carries, Writes, CallsOf
<1>3. PICK r \in DOMAIN c.calls : /\ c.calls[r].at = reader /\ pipe \in c.calls[r].reads
                                  /\ IF kind = "file" THEN fd \in c.calls[r].files ELSE c.calls[r].stdin = fd
  BY <1>1 DEF Bears, Carries, ReadsIt, CallsOf
<1>4. DOMAIN c.calls = 1 .. Len(c.calls) /\ Len(c.calls) \in Nat
  BY LenProperties
<1>5. /\ Writers(c, pipe) \subseteq DOMAIN c.calls /\ w \in Writers(c, pipe)
      /\ Readers(c, pipe) \subseteq DOMAIN c.calls /\ r \in Readers(c, pipe)
  BY <1>2, <1>3 DEF Writers, Readers
<1>6. IsFiniteSet(Writers(c, pipe)) /\ IsFiniteSet(Readers(c, pipe))
  <2>1. IsFiniteSet(DOMAIN c.calls)
    BY <1>4, FS_Interval
  <2> QED
    BY <1>5, <2>1, FS_Subset
<1>7. /\ Cardinality(Writers(c, pipe)) = 1 /\ Cardinality(Readers(c, pipe)) = 1
      /\ \A n \in Writers(c, pipe) : c.calls[n].stdout = c.pipes[pipe][2]
      /\ \A n \in Readers(c, pipe) : (c.calls[n].stdin = fd) # (fd \in c.calls[n].files)
  BY DEF PipesLinked
<1>8. (CHOOSE n \in Writers(c, pipe) : TRUE) = w
  <2>1. \A n \in Writers(c, pipe) : n = w
    BY <1>5, <1>6, <1>7, OnlyElement
  <2> QED
    BY <1>5, <2>1
<1>9. (CHOOSE n \in Readers(c, pipe) : TRUE) = r
  <2>1. \A n \in Readers(c, pipe) : n = r
    BY <1>5, <1>6, <1>7, OnlyElement
  <2> QED
    BY <1>5, <2>1
<1>10. (IF fd \in c.calls[r].files THEN "file" ELSE "pipe") = kind
  <2>1. (c.calls[r].stdin = fd) # (fd \in c.calls[r].files)
    BY <1>5, <1>7
  <2>2. kind = "file" \/ kind = "pipe"
    BY <1>1
  <2> HIDE DEF kind, fd
  <2> QED
    BY <1>3, <2>1, <2>2
<1>11. StreamOf(c, pipe) = <<c.calls[w].at, c.calls[r].at, IF fd \in c.calls[r].files THEN "file" ELSE "pipe">>
  BY <1>8, <1>9 DEF StreamOf
<1>12. StreamOf(c, pipe) = <<writer, reader, kind>>
  BY <1>2, <1>3, <1>10, <1>11
<1> QED
  BY <1>1, <1>2, <1>5, <1>7, <1>12 DEF RunsAs

\* The streams, and the calls, of all the tokens are those of the text.
LEMMA WholeStreams ==
    ASSUME NEW t, NEW n \in Nat, DOMAIN t = 1 .. n
    PROVE  Reference!Streams(t) = StreamsIn(t, 1, n) /\ Reference!CallStarts(t) = StartsIn(t, 1, n)
<1> DEFINE bars == {k \in DOMAIN t : t[k] = "|"}
           parens == {k \in DOMAIN t : t[k] = "<("}
           links == {j \in 1 .. n : t[j] \in Links}
<1>1. /\ \A k : k \in links <=> k \in bars \/ k \in parens
      /\ \A k \in bars : t[k] = "|"
      /\ \A k \in parens : t[k] # "|"
  BY DEF Links, Reference!LinkSymbols
<1>2. Reference!Streams(t) =
         {<<Reference!StartOf(t, i), i + 1, "pipe">> : i \in bars} \cup
         {<<Reference!StartOf(t, Reference!Closing(t, i) - 1), Reference!StartOf(t, i), "file">> : i \in parens}
  BY DEF Reference!Streams
<1>3. StreamsIn(t, 1, n) = {StreamAt(t, k) : k \in links}
  BY DEF StreamsIn
<1> HIDE DEF bars, parens, links
<1>4. \A i \in bars : StreamAt(t, i) = <<Reference!StartOf(t, i), i + 1, "pipe">>
  BY <1>1 DEF StreamAt, PipeTo
<1>5. \A i \in parens : StreamAt(t, i) =
         <<Reference!StartOf(t, Reference!Closing(t, i) - 1), Reference!StartOf(t, i), "file">>
  BY <1>1 DEF StreamAt, FileTo
<1>6. Reference!Streams(t) = {StreamAt(t, i) : i \in bars} \cup {StreamAt(t, i) : i \in parens}
  BY <1>2, <1>4, <1>5
<1>7. Reference!Streams(t) = StreamsIn(t, 1, n)
  BY <1>1, <1>3, <1>6
<1>8. Reference!CallStarts(t) = StartsIn(t, 1, n)
  BY DEF Reference!CallStarts, StartsIn
<1> QED
  BY <1>7, <1>8

\* So a command whose calls and pipes are those of its tokens is wired.
LEMMA PlacedIsWired ==
    ASSUME NEW c, NEW from, NEW to, CommandOK(c, from, to), NEW t, NEW n \in Nat, DOMAIN t = 1 .. n,
           CommandPlaced(c, t, n), c.calls[1].at = Reference!MainLast(t)
    PROVE  WiresAre(c, t)
<1> DEFINE streams == StreamsIn(t, 1, n)
           starts == StartsIn(t, 1, n)
           m == Len(c.pipes)
           last == Len(c.calls)
<1>1. c.calls \in Seq(CallType) /\ PipesLinked(c) /\ PipesOK(c.pipes, from, to)
  BY DEF CommandOK
<1>2. /\ DOMAIN c.pipes = 1 .. m /\ m \in Nat
      /\ DOMAIN c.calls = 1 .. last /\ last \in Nat
  BY LenProperties DEF CommandOK
<1>3. Reference!Streams(t) = streams /\ Reference!CallStarts(t) = starts
  BY WholeStreams
<1>4. /\ \A k \in DOMAIN c.calls : c.calls[k].at \in starts
      /\ \A x \in starts : \E k \in DOMAIN c.calls : c.calls[k].at = x
      /\ \A j, k \in DOMAIN c.calls : c.calls[j].at = c.calls[k].at => j = k
      /\ \A k \in DOMAIN c.pipes : \E s \in streams : Carries(CallsOf(c), k, c.pipes[k][1], s)
      /\ \A s \in streams : \E k \in DOMAIN c.pipes : Carries(CallsOf(c), k, c.pipes[k][1], s)
  BY DEF CommandPlaced
<1>5. \A s \in streams : \E writer, reader : s = PipeTo(writer, reader) \/ s = FileTo(writer, reader)
  BY DEF StreamsIn, StreamAt
<1> HIDE DEF streams, starts, m, last
<1>6. ASSUME NEW k \in DOMAIN c.pipes, NEW s \in streams, Carries(CallsOf(c), k, c.pipes[k][1], s)
      PROVE  /\ StreamOf(c, k) = s
             /\ \E w \in DOMAIN c.calls : c.calls[w].at = s[1] /\ c.calls[w].stdout = c.pipes[k][2]
  <2>1. PICK writer, reader : s = PipeTo(writer, reader) \/ s = FileTo(writer, reader)
    BY <1>5
  <2>2. Bears(c, k, s)
    BY <1>6 DEF Bears
  <2>3. RunsAs(c, k, s)
    BY <1>1, <2>1, <2>2, StreamIsCarried
  <2> QED
    BY <2>3 DEF RunsAs
<1>7. \A k \in DOMAIN c.pipes :
         /\ StreamOf(c, k) \in streams
         /\ \E w \in DOMAIN c.calls : c.calls[w].at = StreamOf(c, k)[1] /\ c.calls[w].stdout = c.pipes[k][2]
  BY <1>4, <1>6
<1>8. \A s \in streams : \E k \in DOMAIN c.pipes : StreamOf(c, k) = s
  BY <1>4, <1>6
<1>9. {StreamOf(c, pipe) : pipe \in DOMAIN c.pipes} = streams
  BY <1>7, <1>8
<1>10. \A j, k \in DOMAIN c.pipes : StreamOf(c, j) = StreamOf(c, k) => j = k
  <2>1. SUFFICES ASSUME NEW j \in DOMAIN c.pipes, NEW k \in DOMAIN c.pipes, StreamOf(c, j) = StreamOf(c, k)
                 PROVE  j = k
    OBVIOUS
  <2>2. PICK v \in DOMAIN c.calls : c.calls[v].at = StreamOf(c, j)[1] /\ c.calls[v].stdout = c.pipes[j][2]
    BY <1>7
  <2>3. PICK w \in DOMAIN c.calls : c.calls[w].at = StreamOf(c, k)[1] /\ c.calls[w].stdout = c.pipes[k][2]
    BY <1>7
  <2>4. v = w
    BY <1>4, <2>1, <2>2, <2>3
  <2> QED
    BY <1>1, <2>2, <2>3, <2>4 DEF PipesOK
<1>11. Cardinality(streams) = m
  <2> DEFINE f == [k \in 1 .. m |-> StreamOf(c, k)]
  <2>1. /\ f \in [1 .. m -> streams] /\ \A j, k \in 1 .. m : f[j] = f[k] => j = k
        /\ \A s \in streams : \E k \in 1 .. m : f[k] = s
    BY <1>2, <1>7, <1>8, <1>10
  <2> HIDE DEF f
  <2> QED
    BY <1>2, <2>1, CountedOnce
<1>12. Cardinality(starts) = last
  <2> DEFINE f == [k \in 1 .. last |-> c.calls[k].at]
  <2>1. /\ f \in [1 .. last -> starts] /\ \A j, k \in 1 .. last : f[j] = f[k] => j = k
        /\ \A x \in starts : \E k \in 1 .. last : f[k] = x
    BY <1>2, <1>4
  <2> HIDE DEF f
  <2> QED
    BY <1>2, <2>1, CountedOnce
<1>13. {c.calls[k].at : k \in DOMAIN c.calls} = starts
  BY <1>4
<1> QED
  BY <1>1, <1>3, <1>9, <1>11, <1>12, <1>13 DEF WiresAre, m, last

\* The last call of the main pipeline is the one to which the last token belongs.
LEMMA MainLastIsLast ==
    ASSUME NEW t, NEW n, Text(t, n), Room(t, n, 1, n), Reference!Level(t, 1) = 0
    PROVE  Reference!MainLast(t) = Reference!StartOf(t, n)
<1> DEFINE Level(k) == Reference!Level(t, k)
           Start(k) == Reference!IsStart(t, k)
           m == Reference!StartOf(t, n)
<1>1. n \in Nat /\ n > 0 /\ n = Len(t) /\ DOMAIN t = 1 .. n /\ WellFormed(t) /\ n \in 1 .. n
  BY DEF Text, Room
<1>2. m \in 1 .. n /\ Belongs(t, m, n)
  BY <1>1, StartIsFound
<1>3. \A k \in 1 .. n : Level(k) \in Int /\ Level(k) >= 0
  BY <1>1, LevelIsInt, WellFormedFacts
<1>4. Depth(t, n) = 0 /\ Followed(t, 1, n)
  BY <1>1, WellFormedFacts
<1>5. Level(n) = 0 /\ Level(m) = 0
  <2>1. t[n] # "<("
    BY <1>1, <1>4 DEF Followed, Symbols, redirection_caret_symbols
  <2>2. Level(n) = 0
    BY <1>1, <1>4, <2>1, LevelIsDepth
  <2> QED
    BY <1>2, <2>2 DEF Belongs, Inside
<1>6. Start(m) /\ \A k \in m + 1 .. n : Start(k) => Level(k) > 0
  BY <1>2, <1>5 DEF Belongs, Alone
<1>7. Reference!IsLast(t, m)
  <2> DEFINE i == n + 1
  <2>1. Room(t, n, m, n)
    BY <1>1, <1>2, <1>3, <1>5, <1>6 DEF Room
  <2>2. i = n + 1 /\ i - 1 = n /\ m \in Nat
    BY <1>1, <1>2
  <2>3. Scanned(t, m, i)
    <3>1. t[m] \notin Symbols
      <4>1. CASE m = 1
        BY <1>1, <4>1 DEF WellFormed
      <4>2. CASE m # 1
        <5>1. t[m - 1] \in Reference!LinkSymbols
          BY <1>6, <4>2 DEF Reference!IsStart
        <5>2. m \in 1 .. n
          BY <1>2
        <5>3. t[m - 1] \in Reference!LinkSymbols /\ m - 1 \in 1 .. n /\ (m - 1) + 1 = m
          <6> HIDE DEF m
          <6> QED
            BY <1>1, <4>2, <5>1, <5>2
        <5>4. t[m - 1] \in Symbols \ {")"}
          BY <5>3 DEF Reference!LinkSymbols, Symbols, redirection_caret_symbols
        <5> QED
          BY <1>4, <5>3, <5>4 DEF Followed
      <4> QED
        BY <4>1, <4>2
    <3>2. Followed(t, m, n)
      BY <1>2, <1>4 DEF Followed
    <3> HIDE DEF i, m
    <3> QED
      BY <1>2, <2>2, <3>1, <3>2 DEF Scanned, Belongs
  <2> HIDE DEF i, m
  <2> QED
    BY <1>1, <2>1, <2>2, <2>3, IsLastAtEnd
<1>8. m \in Reference!CallStarts(t)
  BY <1>1, <1>2, <1>6 DEF Reference!CallStarts
<1>9. ASSUME NEW x \in 1 .. n, Start(x), Level(x) = 0, x # m PROVE ~Reference!IsLast(t, x)
  <2> DEFINE T == {k \in x + 1 .. n : Start(k) /\ Level(k) = 0}
  <2>1. x < m
    BY <1>2, <1>3, <1>6, <1>9
  <2>2. T \subseteq Nat /\ m \in T
    BY <1>1, <1>2, <1>5, <1>6, <2>1
  <2>3. PICK y \in T : \A z \in T : y <= z
    <3> HIDE DEF T
    <3> QED
      BY <2>2, LeastElement
  <2> DEFINE i == y - 1
  <2>4. /\ y \in x + 1 .. n /\ Start(y) /\ Level(y) = 0 /\ y \in 1 .. n /\ y # 1
        /\ i \in 1 .. n /\ x <= i /\ i + 1 = y /\ i \in Nat /\ i > 0
    BY <1>1, <2>3
  <2>5. t[i] \in Reference!LinkSymbols
    BY <2>4 DEF Reference!IsStart
  <2>6. t[y] # ")" /\ t[y] # "<("
    <3>1. t[i] \in Symbols \ {")"}
      BY <2>5 DEF Reference!LinkSymbols, Symbols, redirection_caret_symbols
    <3>2. t[y] \notin Symbols
      BY <1>4, <2>4, <3>1 DEF Followed
    <3> QED
      BY <3>2 DEF Symbols, redirection_caret_symbols
  <2>7. t[i] = "|"
    <3>1. CASE t[i] = "<("
      <4>1. Level(y) = Level(i) + 1
        BY <2>4, <2>6, <3>1, LevelStep
      <4>2. Level(i) \in Int /\ Level(i) >= 0
        BY <1>3, <2>4
      <4> HIDE DEF Level, i
      <4> QED
        BY <2>4, <4>1, <4>2
    <3> QED
      BY <2>5, <3>1 DEF Reference!LinkSymbols
  <2>8. Level(i) = 0
    <3>1. Level(y) = Level(i)
      BY <2>4, <2>6, <2>7, SameLevel
    <3> QED
      BY <2>4, <3>1
  <2>9. Belongs(t, x, i)
    <3>1. \A k \in x .. i : k \in 1 .. n
      <4>1. i \in 1 .. n /\ x \in 1 .. n
        BY <1>9, <2>4
      <4> HIDE DEF i
      <4> QED
        BY <1>1, <4>1
    <3>2. Inside(t, x, i)
      BY <1>3, <1>9, <2>8, <3>1 DEF Inside
    <3>3. ASSUME NEW k \in x + 1 .. i, Start(k) PROVE Level(k) > 0
      <4>1. k \in x + 1 .. n /\ k \in 1 .. n /\ ~(y <= k)
        BY <1>1, <2>4
      <4>2. k \notin T
        BY <2>3, <4>1
      <4>3. Level(k) # 0 /\ Level(k) \in Int /\ Level(k) >= 0
        BY <1>3, <3>3, <4>1, <4>2
      <4> HIDE DEF Level
      <4> QED
        BY <4>3
    <3> QED
      BY <1>9, <3>2, <3>3 DEF Belongs, Alone
  <2>10. x \in Nat /\ 0 < x
    BY <1>9
  <2> HIDE DEF i
  <2> QED
    BY <2>4, <2>7, <2>9, <2>10, IsNotLast
<1>10. \A x \in Reference!CallStarts(t) : Level(x) = 0 /\ Reference!IsLast(t, x) => x = m
  BY <1>1, <1>9 DEF Reference!CallStarts
<1> HIDE DEF m
<1>11. Reference!MainLast(t) = m
  BY <1>5, <1>7, <1>8, <1>10 DEF Reference!MainLast
<1> QED
  BY <1>11 DEF m

\* The calls of a command are those that were built, the last of the pipeline first.
LEMMA EndOfCommandPlaces ==
    ASSUME NEW from \in Nat, from > 1, NEW r, CallParsed(r, Outermost(from), FALSE, FALSE), r.call # NULL,
           NEW b, b.calls = <<>>, b.pipes = <<>>,
           NEW t, NEW n, NEW lo, lo = 1, NEW no, no = FALSE, CallPlaced(t, lo, n, no, b, r),
           NEW c, c = EndOfCommand(r)
    PROVE  CommandPlaced(c, t, n) /\ IsOf(t, c.calls[1].at, n)
<1> DEFINE p == IF r.p.last # NULL /\ (r.call = NULL \/ r.call # r.p.last)
                THEN AddCallAtTheEnd(r.p, IF r.call = NULL THEN r.p.last ELSE r.call)
                ELSE r.p
           order == <<p.last>> \o p.order
<1>1. Outermost(from).held = {} /\ Outermost(from).from = from
  BY DEF Outermost
<1>2. c.calls = [k \in DOMAIN order |-> p.calls[order[k]]] /\ c.pipes = p.pipes
  BY DEF EndOfCommand
<1>3. /\ r.call \in DOMAIN r.p.calls /\ Sound(r.p, {}, from) /\ Ordered(r.p, {r.call}) /\ r.p.last # NULL
  BY <1>1 DEF CallParsed
<1>4. /\ Sound(p, {}, from) /\ Ordered(p, {}) /\ p.last = r.p.last
      /\ p.calls = r.p.calls /\ p.pipes = r.p.pipes
  <2>1. CASE r.call # r.p.last
    <3>1. p = AddCallAtTheEnd(r.p, r.call)
      BY <1>3, <2>1
    <3> HIDE DEF p
    <3> QED
      BY <1>3, <2>1, <3>1, CallAdded
  <2>2. CASE r.call = r.p.last
    <3>1. p = r.p
      BY <2>2
    <3> HIDE DEF p
    <3>2. Ordered(r.p, {})
      BY <1>3, <2>2 DEF Ordered, IsLive
    <3> QED
      BY <1>3, <3>1, <3>2
  <2> QED
    BY <2>1, <2>2
<1>5. order = Prepended(p.last, p.order)
  BY DEF Prepended
<1> HIDE DEF p, order
<1>6. Listed(p, c, order) /\ p.last # NULL
  BY <1>2, <1>3, <1>4, <1>5 DEF Listed
<1>7. /\ 1 \in DOMAIN order
      /\ \A k \in DOMAIN order : order[k] \in DOMAIN p.calls
      /\ \A j, k \in DOMAIN order : j # k => order[j] # order[k]
      /\ \A m \in DOMAIN p.calls : \E k \in DOMAIN order : order[k] = m
      /\ DOMAIN c.calls = DOMAIN order
      /\ \A k \in DOMAIN order : c.calls[k] = p.calls[order[k]]
  BY <1>4, <1>6, ListedFacts
<1>8. CallsOf(c) = CallsOf(p)
  BY <1>7 DEF CallsOf
<1>9. CallsOf(r.p) = CallsOf(p)
  BY <1>4 DEF CallsOf
<1>10. DOMAIN b.calls = {} /\ DOMAIN b.pipes = {}
  OBVIOUS
<1>11. /\ StartAt(b, r.p, StartsIn(t, lo, n)) /\ CarriedBy(b, r.p, CallsOf(r.p), StreamsIn(t, lo, n))
       /\ EndsAt(t, r.p, no, lo, n)
  BY DEF CallPlaced, Adds
<1>12. NewCalls(b, r.p) = DOMAIN r.p.calls /\ NewPipes(b, r.p) = DOMAIN r.p.pipes
  BY <1>10 DEF NewCalls, NewPipes
<1> DEFINE starts == StartsIn(t, 1, n)
           streams == StreamsIn(t, 1, n)
<1>13. /\ \A m \in DOMAIN p.calls : p.calls[m].at \in starts
       /\ \A x \in starts : \E m \in DOMAIN p.calls : p.calls[m].at = x
       /\ \A j, m \in DOMAIN p.calls : p.calls[j].at = p.calls[m].at => j = m
  BY <1>4, <1>11, <1>12 DEF StartAt
<1>14. /\ \A k \in DOMAIN c.pipes : \E s \in streams : Carries(CallsOf(c), k, c.pipes[k][1], s)
       /\ \A s \in streams : \E k \in DOMAIN c.pipes : Carries(CallsOf(c), k, c.pipes[k][1], s)
  BY <1>2, <1>4, <1>8, <1>9, <1>11, <1>12 DEF CarriedBy
<1>15. IsOf(t, c.calls[1].at, n)
  <2>1. LastBuilt(r.p, no) = r.p.last
    BY DEF LastBuilt
  <2>2. IsOf(t, r.p.calls[r.p.last].at, n)
    BY <1>3, <1>11, <2>1 DEF EndsAt
  <2>3. order[1] = p.last
    <3>1. p.last \in Nat /\ p.order \in Seq(Nat)
      BY <1>4, ParseFacts DEF Sound, Parse
    <3>2. IsPrepended(order, p.last, p.order)
      BY <1>5, <3>1, PrependedFacts
    <3> QED
      BY <3>2 DEF IsPrepended
  <2> QED
    BY <1>4, <1>7, <2>2, <2>3
<1> HIDE DEF starts, streams
<1>16. /\ \A m \in DOMAIN c.calls : c.calls[m].at \in starts
       /\ \A x \in starts : \E m \in DOMAIN c.calls : c.calls[m].at = x
       /\ \A j, k \in DOMAIN c.calls : c.calls[j].at = c.calls[k].at => j = k
  BY <1>7, <1>13
<1>17. CommandPlaced(c, t, n)
  BY <1>14, <1>16 DEF CommandPlaced, starts, streams
<1> QED
  BY <1>15, <1>17

(* A command that parse_command (:594-651) accepts is wired as its tokens  *)
(* say: each pipe links the two calls that a "|" or a "<(...)" of the text *)
(* links, the first call is the last of the main pipeline, and each call   *)
(* of the text is there once.                                              *)
THEOREM CommandIsWired ==
    ASSUME NEW t \in TokenSeq, NEW sub \in {NULL, DANGLING}, NEW from \in Nat, from > 1,
           NEW c, c = parse_command(t, sub, from), c.ok
    PROVE  WiresAre(c, t)
<1>1. t # <<>>
  BY DEF parse_command
<1> DEFINE n == Len(t)
           g == Loops[n]
           p == Fresh(sub, from)
           r == parse_command_call(g, t, p, 1, n, FALSE, FALSE)
<1>2. c = EndOfCommand(r)
  BY <1>1 DEF parse_command
<1>3. Outermost(from) \in Context /\ StartsAt(p, Outermost(from), FALSE)
  BY FreshStarts
<1>4. n \in Nat /\ DOMAIN t = 1 .. n
  BY LenProperties DEF TokenSeq
<1>5. LoopKeeps(g, n) /\ LoopWires(g, n) /\ LoopReads(g, n) /\ LoopPlaces(g, n)
  BY <1>4, LoopsKeep, LoopsWire, LoopsRead, LoopsPlace
<1>6. Fits(t, 1, n, n)
  BY <1>4 DEF Fits
<1>7. p.calls = <<>> /\ p.pipes = <<>> /\ p.last = NULL
  BY DEF Fresh
<1>8. n > 0
  BY <1>1, <1>4, EmptySeq DEF TokenSeq
<1>9. IsParsed(c, from)
  BY CommandKeeps
<1> DEFINE h == Outermost(from)
           first == 1
           Call(no, never) == parse_command_call(g, t, p, first, n, no, never)
<1>10. first \in Nat /\ Fits(t, first, n, n) /\ h \in Context /\ StartsAt(p, h, FALSE)
  BY <1>3, <1>6
<1>11. r = Call(FALSE, FALSE) /\ n = Len(t)
  OBVIOUS
<1> HIDE DEF n, g, p, h, first
<1>12. ASSUME NEW no \in BOOLEAN, NEW never \in BOOLEAN, StartsAt(p, h, no), LastBuilt(p, no) = NULL
       PROVE  /\ CallParsed(Call(no, never), h, no, never)
              /\ Call(no, never).call # NULL => Nested(t, first, n)
              /\ Call(no, never).call # NULL /\ Text(t, n) /\ Room(t, n, first, n)
                    => CallPlaced(t, first, n, no, p, Call(no, never))
  <2>1. CallParsed(Call(no, never), h, no, never)
    BY <1>4, <1>5, <1>10, <1>12, CommandCallKeeps
  <2>2. Call(no, never).call # NULL => Nested(t, first, n)
    BY <1>4, <1>5, <1>10, <1>12, CommandCallReads
  <2>3. ASSUME Call(no, never).call # NULL, Text(t, n), Room(t, n, first, n)
        PROVE  CallPlaced(t, first, n, no, p, Call(no, never))
    BY <1>4, <1>5, <1>10, <1>12, <2>3, CommandCallPlaces
  <2> QED
    BY <2>1, <2>2, <2>3
<1> HIDE DEF r, Call
<1>13. LastBuilt(p, FALSE) = NULL
  BY <1>7 DEF LastBuilt
<1>14. /\ CallParsed(r, h, FALSE, FALSE)
       /\ r.call # NULL => Nested(t, first, n)
       /\ r.call # NULL /\ Text(t, n) /\ Room(t, n, first, n) => CallPlaced(t, first, n, FALSE, p, r)
  BY <1>10, <1>11, <1>12, <1>13
<1>15. r.call # NULL
  BY <1>2 DEF EndOfCommand
<1>16. WellFormed(t)
  <2>1. Nested(t, 1, n)
    BY <1>14, <1>15 DEF first
  <2> QED
    BY <1>4, <1>8, <1>11, <2>1, NestedIsWellFormed
<1>17. Text(t, n) /\ Room(t, n, 1, n) /\ Reference!Level(t, 1) = 0
  BY <1>1, <1>11, <1>16, WholeText
<1>18. CallPlaced(t, first, n, FALSE, p, r)
  BY <1>14, <1>15, <1>17 DEF first
<1>19. CommandPlaced(c, t, n) /\ IsOf(t, c.calls[1].at, n)
  <2>1. CallParsed(r, Outermost(from), FALSE, FALSE) /\ first = 1
    BY <1>14 DEF h, first
  <2> QED
    BY <1>2, <1>7, <1>15, <1>18, <2>1, EndOfCommandPlaces
<1>20. c.calls[1].at = Reference!MainLast(t)
  <2>1. Reference!MainLast(t) = Reference!StartOf(t, n)
    BY <1>17, MainLastIsLast
  <2> QED
    BY <1>19, <2>1 DEF IsOf
<1>21. CommandOK(c, from, c.fd)
  BY <1>9 DEF IsParsed
<1> QED
  BY <1>4, <1>19, <1>20, <1>21, PlacedIsWired

-----------------------------------------------------------------------------
(* The commands of a line: the k-th is wired as the k-th piece says.       *)

\* What a command is wired to is a matter of its calls and pipes.
LEMMA WiresSame ==
    ASSUME NEW c, NEW d, d.calls = c.calls, d.pipes = c.pipes, NEW t, WiresAre(c, t)
    PROVE  WiresAre(d, t)
<1>1. PipesLinked(d)
  BY LinkedSame DEF WiresAre
<1>2. \A k : Writers(d, k) = Writers(c, k) /\ Readers(d, k) = Readers(c, k)
  BY DEF Writers, Readers
<1>3. ASSUME NEW k PROVE StreamOf(d, k) = StreamOf(c, k)
  <2> DEFINE w == CHOOSE n \in Writers(c, k) : TRUE
             r == CHOOSE n \in Readers(c, k) : TRUE
  <2>1. (CHOOSE n \in Writers(d, k) : TRUE) = w /\ (CHOOSE n \in Readers(d, k) : TRUE) = r
    BY <1>2
  <2>2. StreamOf(c, k) = <<c.calls[w].at, c.calls[r].at, IF c.pipes[k][1] \in c.calls[r].files THEN "file" ELSE "pipe">>
    BY DEF StreamOf
  <2>3. StreamOf(d, k) = <<d.calls[w].at, d.calls[r].at, IF d.pipes[k][1] \in d.calls[r].files THEN "file" ELSE "pipe">>
    BY <2>1 DEF StreamOf
  <2> QED
    BY <2>2, <2>3
<1>4. {StreamOf(d, k) : k \in DOMAIN d.pipes} = {StreamOf(c, k) : k \in DOMAIN c.pipes}
  BY <1>3
<1> QED
  BY <1>1, <1>4 DEF WiresAre

\* The k-th piece that parse_read_line goes over is the k-th of the line.
LEMMA PieceIsNth ==
    ASSUME NEW l \in Seq(LineTokens), NEW split, split = split_string_keep_trace(l), NEW k \in DOMAIN split.pieces
    PROVE  split_string(split.pieces[k]) = Piece(l, k)
<1>1. PICK b \in PieceBounds(l) : IsNth(l, b, k, split.pieces[k])
  BY PiecesMatch
<1>2. PiecesBefore(l, b[1]) = k - 1 /\ IsPiece(l, b, split.pieces[k])
  BY <1>1 DEF IsNth
<1>3. \A c \in PieceBounds(l) : PiecesBefore(l, c[1]) = k - 1 => c = b
  BY <1>2, NumbersApart
<1>4. (CHOOSE c \in PieceBounds(l) : PiecesBefore(l, c[1]) = k - 1) = b
  BY <1>2, <1>3
<1> QED
  BY <1>2, <1>4, PieceIsRead DEF Piece

\* The commands so far are those of the pieces so far.
AllWired(r, split) == \A j \in DOMAIN r.commands : WiresAre(r.commands[j], split_string(split.pieces[j]))

\* One turn of the loop of parse_read_line.
LEMMA PieceIsWired ==
    ASSUME NEW split \in Split, NEW k \in 1 .. Len(split.pieces), NEW r \in Lined,
           NEW before, before = k - 1, Counted(r, split, before), AllWired(r, split),
           NEW q, q = ParsePiece(r, split, k)
    PROVE  AllWired(q, split)
<1>1. CASE r.refused
  BY <1>1 DEF ParsePiece
<1>2. CASE ~r.refused
  <2> DEFINE t == split_string(split.pieces[k])
             c == parse_command(t, r.sub, r.fd)
             d == [calls |-> c.calls, pipes |-> c.pipes, background |-> IsBackground(split, k)]
             added == Append(r.commands, d)
  <2>1. r.commands \in Seq(CommandType) /\ r.sub \in {NULL, DANGLING} /\ r.fd \in Nat /\ r.fd > 1
    BY DEF Lined, LineResult, LineKept
  <2>2. t \in TokenSeq
    <3>1. split.pieces[k] \in Seq(PieceTokens)
      BY ElementOfSeq DEF Split
    <3> QED
      BY <3>1, SplitStringFacts
  <2>3. q.commands = IF c.ok THEN added ELSE IF k = Len(split.pieces) THEN r.commands ELSE <<>>
    BY <1>2 DEF ParsePiece, AddCommand
  <2>4. Len(r.commands) = k - 1
    BY <1>2 DEF Counted
  <2>5. t = split_string(split.pieces[k]) /\ c = parse_command(t, r.sub, r.fd)
    OBVIOUS
  <2>6. d.calls = c.calls /\ d.pipes = c.pipes
    OBVIOUS
  <2>7. \A j \in DOMAIN added :
           \/ j \in DOMAIN r.commands /\ added[j] = r.commands[j]
           \/ j = k /\ added[j] = d
    <3>1. DOMAIN r.commands = 1 .. k - 1
      BY <2>1, <2>4, LenProperties
    <3> HIDE DEF d
    <3>2. DOMAIN added = 1 .. k /\ added[k] = d /\ \A j \in 1 .. k - 1 : added[j] = r.commands[j]
      BY <2>1, <2>4
    <3> HIDE DEF added
    <3> QED
      BY <3>1, <3>2
  <2> HIDE DEF t, c, d, added
  <2>8. c.ok => WiresAre(d, t)
    <3>1. ASSUME c.ok PROVE WiresAre(c, t)
      BY <2>1, <2>2, <2>5, <3>1, CommandIsWired
    <3> QED
      BY <2>6, <3>1, WiresSame
  <2>9. CASE c.ok
    <3>1. q.commands = added
      BY <2>3, <2>9
    <3> QED
      BY <2>5, <2>7, <2>8, <2>9, <3>1 DEF AllWired
  <2>10. CASE ~c.ok
    <3>1. q.commands = r.commands \/ q.commands = <<>>
      BY <2>3, <2>10
    <3>2. q.commands = <<>> => DOMAIN q.commands = {}
      OBVIOUS
    <3> QED
      BY <3>1, <3>2 DEF AllWired
  <2> QED
    BY <2>9, <2>10
<1> QED
  BY <1>1, <1>2

\* Every command of the line.
LineWired(l, r) == \A k \in DOMAIN r.commands : WiresAre(r.commands[k], Piece(l, k))

\* The whole of it.
LEMMA LineIsWired ==
    ASSUME NEW l \in Seq(LineTokens), NEW sub \in {NULL, DANGLING}, NEW r, r = parse_read_line(l, sub)
    PROVE  LineWired(l, r)
<1> DEFINE split == split_string_keep_trace(l)
           last == Len(split.pieces)
<1>1. split \in Split
  BY KeepTraceFacts
<1>2. \A k \in DOMAIN split.pieces : split_string(split.pieces[k]) = Piece(l, k)
  BY PieceIsNth
<1>3. PICK f : LineRuns(l, sub, split, f)
  BY ReadLineRuns
<1> HIDE DEF split
<1>4. /\ f[0] = Nothing(sub) /\ \A k \in 1 .. last : f[k] = ParsePiece(f[k - 1], split, k)
      /\ \A k \in 0 .. last : f[k] \in Lined /\ Counted(f[k], split, k)
      /\ r = Nothing(sub) \/ r = f[last]
  BY <1>3 DEF LineRuns, PiecesRun
<1>5. last \in Nat /\ DOMAIN split.pieces = 1 .. last
  BY <1>1, LenProperties DEF Split
<1>6. DOMAIN Nothing(sub).commands = {}
  BY DEF Nothing
<1> DEFINE Good == {k \in Nat : k <= last => AllWired(f[k], split)}
<1>7. 0 \in Good
  BY <1>4, <1>6 DEF AllWired
<1>8. ASSUME NEW k \in Nat, k \in Good PROVE k + 1 \in Good
  <2> DEFINE next == k + 1
  <2>1. CASE next <= last
    <3>1. next \in 1 .. last /\ k = next - 1 /\ k <= last /\ k \in 0 .. last
      BY <1>5, <2>1
    <3>2. f[next] = ParsePiece(f[k], split, next) /\ f[k] \in Lined /\ Counted(f[k], split, k)
      BY <1>4, <3>1
    <3>3. AllWired(f[k], split) /\ next \in 1 .. Len(split.pieces)
      BY <1>8, <3>1
    <3> HIDE DEF next
    <3>4. AllWired(f[next], split)
      BY <1>1, <3>1, <3>2, <3>3, PieceIsWired
    <3> QED
      BY <3>4 DEF next
  <2> QED
    BY <2>1
<1>9. last \in Good
  <2> HIDE DEF Good, last
  <2> QED
    BY <1>5, <1>7, <1>8, Induction
<1>10. AllWired(f[last], split)
  BY <1>5, <1>9
<1>11. CASE r = Nothing(sub)
  BY <1>6, <1>11 DEF LineWired
<1>12. CASE r = f[last]
  <2>1. DOMAIN r.commands \subseteq DOMAIN split.pieces
    <3>1. last \in 0 .. last
      BY <1>5
    <3>2. r \in Lined /\ Counted(r, split, last)
      BY <1>4, <1>12, <3>1
    <3>3. r.commands \in Seq(CommandType) /\ r.refused \in BOOLEAN
      BY <3>2 DEF Lined, LineResult
    <3>4. r.commands = <<>> \/ Len(r.commands) = last - 1 \/ Len(r.commands) = last
      BY <3>2 DEF Counted
    <3>5. DOMAIN r.commands = 1 .. Len(r.commands) /\ Len(r.commands) \in Nat
      BY <3>3, LenProperties
    <3> HIDE DEF last
    <3>6. r.commands = <<>> => DOMAIN r.commands = {}
      OBVIOUS
    <3> QED
      BY <1>5, <3>4, <3>5, <3>6
  <2> QED
    BY <1>2, <1>10, <1>12, <2>1 DEF AllWired, LineWired
<1> QED
  BY <1>4, <1>11, <1>12

(* Whatever the line and whatever was parsed before, each command that is  *)
(* to be executed is wired as the piece of the line it was parsed from: its*)
(* pipes carry the streams of the text and no others, its first call is the*)
(* last of the main pipeline, and each call is there once (link_pipelines  *)
(* :564-586, parse_command_substitution :469-561, parse_command :594-651,  *)
(* parse_read_line :890-948).                                              *)
THEOREM WiresAreWritten == ParserSpec => []WiresWhatIsWritten
<1> DEFINE Inv == ParserInv /\ \A k \in DOMAIN commands : WiresAre(commands[k], Piece(line, k))
<1>1. ParserInit => Inv
  <2>1. ParserInit => ParserInv
    BY NothingReturned DEF ParserInit
  <2>2. ParserInit => DOMAIN commands = {}
    BY DEF ParserInit
  <2> QED
    BY <2>1, <2>2
<1>2. ASSUME Inv, [ParserNext]_parserVars PROVE Inv'
  <2>1. ParserInv'
    BY <1>2, ParserInvInductive
  <2>2. CASE ParseLine
    <3> DEFINE sub == last_parsed_command_call_substitution
    <3>1. PICK l \in Lines : ParsedAs(l, parse_read_line(l, sub))
      BY <2>2 DEF ParseLine
    <3>2. l \in Seq(LineTokens)
      BY LinesAssumption DEF LineTokens, PieceTokens, Symbols
    <3>3. sub \in {NULL, DANGLING}
      BY <1>2 DEF ParserInv, Returned, Lined, LineResult
    <3> DEFINE r == parse_read_line(l, sub)
    <3>4. line' = l /\ commands' = r.commands
      BY <3>1 DEF ParsedAs
    <3>5. LineWired(l, r)
      BY <3>2, <3>3, LineIsWired
    <3> HIDE DEF r
    <3> QED
      BY <2>1, <3>4, <3>5 DEF LineWired
  <2>3. CASE NextPrompt
    <3>1. DOMAIN commands' = {}
      BY <2>3 DEF NextPrompt
    <3> QED
      BY <2>1, <3>1
  <2>4. CASE UNCHANGED parserVars
    <3>1. commands' = commands /\ line' = line
      BY <2>4 DEF parserVars
    <3> QED
      BY <1>2, <2>1, <3>1
  <2> QED
    BY <1>2, <2>2, <2>3, <2>4 DEF ParserNext
<1>3. Inv => WiresWhatIsWritten
  BY DEF WiresAre, WiresWhatIsWritten
<1> QED
  BY <1>1, <1>2, <1>3, PTL DEF ParserSpec

=============================================================================
