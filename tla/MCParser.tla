------------------------------ MODULE MCParser ------------------------------
(* An instance of Parser for TLC: every short line over the tokens, and    *)
(* longer ones put together from calls that are likely to be accepted.     *)
EXTENDS Parser

MCTokens == {"a", "x", "<", ">", "2>", "<(", ")", "|", "&", " "}
ShortLines == UNION {[1 .. n -> MCTokens] : n \in 0 .. 5}

Calls ==
    {<<"a">>, <<"a", "<", "a">>, <<"a", ">", "a">>, <<"a", "2>", "a", "2>", "a">>,
     <<"a", "<(", "a", ")">>, <<"a", "<(", "a", ">", "a", ")">>,
     <<"a", "<(", "a", "|", "a", "|", "a", ")", "<(", "a", ")">>,
     <<"a", "<(", "a", "<", "a", "|", "a", ">", "a", ")">>,
     <<"a", "<(", "a", "|", "a", "<", "a", "|", "a", ")">>,
     <<"a", "<(", "a", "<(", "a", ")", "|", "a", ")">>,
     <<"a", ">", "a", "<", "x">>}

\* Two and three calls, linked or not.
Pairs == {c \o <<s>> \o d : c \in Calls, d \in Calls, s \in {"|", "&"}}
Triples == {p \o <<s>> \o c : p \in Pairs, c \in Calls, s \in {"|", "&"}}
FlaggedPairs == {p \o <<"&">> : p \in Pairs} \cup {p \o <<"&", "&", "a">> : p \in Pairs}

MCLines == ShortLines \cup Calls \cup Pairs \cup Triples \cup FlaggedPairs
=============================================================================
