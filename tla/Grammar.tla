------------------------------ MODULE Grammar ------------------------------
(***************************************************************************)
(* The commands of jsh as project.md describes them (sections Redirections *)
(* and jobs), said of positions in a sequence of tokens and not of a way   *)
(* to read it: which sequences are commands, where the calls start, and    *)
(* which call reads what which other one writes.                           *)
(***************************************************************************)
EXTENDS Integers, Sequences, FiniteSets

CONSTANT Unopenable   \* words that no redirection can open

RedirectionSymbols == {"<", ">", "2>"}
LinkSymbols == {"|", "<("}
Symbols == RedirectionSymbols \cup LinkSymbols \cup {")"}

(* How deep in substitutions a token is; the parentheses themselves belong *)
(* to the call outside.                                                    *)
Level(t, i) ==
    Cardinality({k \in 1 .. i - 1 : t[k] = "<("}) - Cardinality({k \in 1 .. i : t[k] = ")"})

Balanced(t) ==
    /\ \A i \in DOMAIN t : Level(t, i) >= 0
    /\ Cardinality({k \in DOMAIN t : t[k] = "<("}) = Cardinality({k \in DOMAIN t : t[k] = ")"})

\* The position where a call starts.
IsStart(t, i) == i = 1 \/ t[i - 1] \in LinkSymbols
CallStarts(t) == {i \in DOMAIN t : IsStart(t, i)}

\* The start of the call that token i belongs to.
StartOf(t, i) ==
    LET near == {j \in CallStarts(t) :
                    /\ j <= i /\ Level(t, j) = Level(t, i)
                    /\ \A k \in j .. i : Level(t, k) >= Level(t, i)}
    IN  CHOOSE j \in near : \A k \in near : k <= j

\* Does a call have one of these symbols?
Has(t, call, symbols) == \E i \in DOMAIN t : t[i] \in symbols /\ StartOf(t, i) = call

IsFirst(t, call) == call = 1 \/ t[call - 1] = "<("
IsLast(t, call) == ~Has(t, call, {"|"})

(* Redirections are allowed for the input of the first call of a pipeline, *)
(* the output of its last one unless a substitution takes it, and the      *)
(* errors of all; and what is named must open.                             *)
RedirectionsAllowed(t) ==
    /\ \A i \in DOMAIN t : t[i] \in RedirectionSymbols => t[i + 1] \notin Unopenable
    /\ \A call \in CallStarts(t) :
          /\ Has(t, call, {"<"}) => IsFirst(t, call)
          /\ Has(t, call, {">"}) => IsLast(t, call) /\ Level(t, call) = 0

(* Calls start with a word, symbols but ")" are followed by one, and       *)
(* parentheses match.                                                      *)
IsCommand(t) ==
    /\ t # <<>>
    /\ Balanced(t)
    /\ t[1] \notin Symbols
    /\ \A i \in DOMAIN t :
          t[i] \in RedirectionSymbols \cup LinkSymbols => i < Len(t) /\ t[i + 1] \notin Symbols
    /\ RedirectionsAllowed(t)

\* The parenthesis that closes the one at i.
Closing(t, i) ==
    CHOOSE k \in i + 1 .. Len(t) :
        /\ t[k] = ")" /\ Level(t, k) = Level(t, i)
        /\ \A j \in i + 1 .. k - 1 : Level(t, j) > Level(t, i)

(* <<writer, reader, kind>>: a call of a pipeline and the next one; the    *)
(* last call of a substitution and the one it is an argument of.           *)
Streams(t) ==
    {<<StartOf(t, i), i + 1, "pipe">> : i \in {k \in DOMAIN t : t[k] = "|"}} \cup
    {<<StartOf(t, Closing(t, i) - 1), StartOf(t, i), "file">> : i \in {k \in DOMAIN t : t[k] = "<("}}

\* The last call of the pipeline that is not in a substitution.
MainLast(t) == CHOOSE call \in CallStarts(t) : Level(t, call) = 0 /\ IsLast(t, call)
=============================================================================
