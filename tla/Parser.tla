------------------------------- MODULE Parser -------------------------------
(***************************************************************************)
(* What jsh makes of a line it reads (command.c): the commands, the calls  *)
(* of each, the pipes that link them and the files they open.  A line is a *)
(* sequence of tokens; descriptors are numbered in the order in which they *)
(* are opened.  The parser opens pipes and files as it goes, so a refusal  *)
(* has to close what was opened, and one of its static variables outlives  *)
(* the line.                                                               *)
(***************************************************************************)
EXTENDS Integers, Sequences, FiniteSets, Functions

CONSTANTS
    Openable,     \* words that open(2) accepts as a name
    Unopenable,   \* words that it refuses
    Lines         \* the lines that may be read

VARIABLES
    last_parsed_command_call_substitution,  \* the static variable, between lines
    line,         \* the line that was read
    commands,     \* the commands parse_read_line returned
    refused,      \* did it refuse a command of the line?
    given_up,     \* did it give up the line because of that?
    open,         \* descriptors opened for the line that are still open
    phase         \* "prompt" or "parsed"

parserVars == <<last_parsed_command_call_substitution, line, commands, refused, given_up, open, phase>>

BACKGROUND_FLAG == "&"
COMMAND_SEPARATOR == " "
redirection_caret_symbols == {"<", ">", "2>", "<(", ")", "|"}
Words == Openable \cup Unopenable

ASSUME TokensAssumption ==
    /\ Openable \cap Unopenable = {}
    /\ Words \cap (redirection_caret_symbols \cup {BACKGROUND_FLAG, COMMAND_SEPARATOR}) = {}

(* A line is made of these tokens, whatever their order.                   *)
ASSUME LinesAssumption ==
    Lines \subseteq Seq(Words \cup redirection_caret_symbols \cup {BACKGROUND_FLAG, COMMAND_SEPARATOR})

UNINITIALIZED_FD == -1
NULL == 0        \* no call; calls are numbered from 1 as they are built
DANGLING == -1   \* the address of a call of a line that is gone
-----------------------------------------------------------------------------
(* The state of a parse: calls by address, command_calls, open_pipes, the  *)
(* two static variables, the descriptors open and the last one opened.     *)
Fresh(sub, fd) ==
    [calls |-> <<>>, order |-> <<>>, pipes |-> <<>>, last |-> NULL, sub |-> sub, open |-> {}, fd |-> fd]

\* What is known so far of the call that is being parsed.
NewBuilder ==
    [fds |-> <<UNINITIALIZED_FD, UNINITIALIZED_FD, UNINITIALIZED_FD>>, reads |-> {}, writes |-> {}, files |-> {}]

\* close_unused_file_descriptors_from_array: the standard ones are spared.
Close(p, fds) == [p EXCEPT !.open = @ \ {fd \in fds : fd > 2}]

OpenPipe(p) ==
    [p EXCEPT !.pipes = Append(@, <<p.fd + 1, p.fd + 2>>),
              !.open = @ \cup {p.fd + 1, p.fd + 2},
              !.fd = @ + 2]

AddCallAtTheEnd(p, call) == [p EXCEPT !.order = Append(@, call)]

\* The end of parse_command_call on an error, with the builder it had.
Error(p, b) == [p |-> Close(p, Range(b.fds)), b |-> b, ok |-> FALSE]
Success(p, b) == [p |-> p, b |-> b, ok |-> TRUE]

(* parse_redirections.  The three ways to open an output differ only in    *)
(* flags; a stray ")" gets here too and is refused.                        *)
RedirectedFd(symbol) == CASE symbol = "<" -> 1 [] symbol = ">" -> 2 [] symbol = "2>" -> 3 [] OTHER -> 0

parse_redirections(p, b, symbol, filename) ==
    LET k == RedirectedFd(symbol) IN
    IF k = 0 \/ filename \in Unopenable
    THEN Error(p, b)
    ELSE Success([Close(p, {b.fds[k]}) EXCEPT !.open = @ \cup {p.fd + 1}, !.fd = @ + 1],
                 [b EXCEPT !.fds[k] = p.fd + 1])

\* The number of the pipe taken before the pipe is added, and not after.
link_pipelines_NumberOfLast(p, b, call) ==
    LET q == OpenPipe(p)
        pipe == Len(p.pipes)
    IN  [p |-> [q EXCEPT !.calls[call].reads = @ \cup {pipe}, !.calls[call].stdin = p.fd + 1],
         b |-> [b EXCEPT !.writes = @ \cup {pipe}, !.fds[2] = p.fd + 2]]

\* A call whose input, or output, is an end of a pipe.
ReadsFrom(call, pipe, fd) == [call EXCEPT !.reads = @ \cup {pipe}, !.stdin = fd]
WritesInto(call, pipe, fd) == [call EXCEPT !.writes = @ \cup {pipe}, !.stdout = fd]

(* link_pipelines: the call that was parsed first reads what prev writes.  *)
link_pipelines(p, b, call) ==
    LET pipe == Len(p.pipes) + 1
        q == OpenPipe(p)
    IN  [p |-> [q EXCEPT !.calls[call] = ReadsFrom(q.calls[call], pipe, q.pipes[pipe][1])],
         b |-> [b EXCEPT !.writes = @ \cup {pipe}, !.fds[2] = q.pipes[pipe][2]]]

(* The ")" that ends the substitution whose first token is at position i,  *)
(* or 0.                                                                   *)
ClosingPosition(t, i, hi) ==
    LET Starts(k) == Cardinality({j \in i .. k : t[j] = "<("})
        Ends(k) == Cardinality({j \in i .. k : t[j] = ")"})
        found == {k \in i .. hi : t[k] = ")" /\ Ends(k) = Starts(k) + 1}
    IN  IF found = {} THEN 0 ELSE CHOOSE k \in found : \A j \in found : k <= j

\* The descriptor of the builder as it is.
OrStandard_Raw(b, k) == b.fds[k]

\* A descriptor given by the builder, or the standard one.
OrStandard(b, k) == IF b.fds[k] = UNINITIALIZED_FD THEN k - 1 ELSE b.fds[k]

\* The input of a call of a pipeline is not looked at.
Misplaced_OutputOnly(p, b, inside_pipeline) ==
    inside_pipeline /\ p.last # NULL /\ p.sub # NULL /\ b.fds[2] # UNINITIALIZED_FD

\* A misplaced redirection inside a pipeline (:790-804).
Misplaced(p, b, inside_pipeline) ==
    /\ inside_pipeline
    /\ \/ b.fds[1] # UNINITIALIZED_FD
       \/ p.last # NULL /\ p.sub # NULL /\ b.fds[2] # UNINITIALIZED_FD

(* The end of parse_command_call: the call is built and becomes the last   *)
(* one of the pipeline, or of the substitution, if there is none yet.      *)
BuildCall(p, b, at, name, inside_substitution) ==
    LET call == Len(p.calls) + 1
        built == [at |-> at, name |-> name, stdin |-> OrStandard(b, 1), stdout |-> OrStandard(b, 2),
                  stderr |-> OrStandard(b, 3), reads |-> b.reads, writes |-> b.writes, files |-> b.files]
    IN  [call |-> call,
         p |-> [p EXCEPT !.calls = Append(@, built),
                         !.last = IF @ = NULL /\ ~inside_substitution THEN call ELSE @,
                         !.sub = IF @ = NULL /\ inside_substitution THEN call ELSE @]]

(* The end of parse_command_substitution: the last call between the paren- *)
(* theses writes into the pipe that was opened for them.                   *)
LinkSubstitution(parsed, b, pipe) ==
    LET q == parsed.p
        first == q.calls[parsed.call]
        linked == [q EXCEPT !.calls[q.sub] = WritesInto(q.calls[q.sub], pipe, q.pipes[pipe][2]), !.sub = NULL]
    IN  IF parsed.call = NULL THEN Error(q, b)
        ELSE IF q.calls[q.sub].stdout # 1
        THEN Error(Close(q, {first.stdin, first.stdout, first.stderr}), b)
        ELSE Success(AddCallAtTheEnd(linked, parsed.call),
                     [b EXCEPT !.reads = @ \cup {pipe}, !.files = @ \cup {q.pipes[pipe][1]}])

\* A "|": the call after it, and what comes after that, was parsed.
LinkNext(parsed, b, inside_substitution) ==
    LET linked == link_pipelines(parsed.p, b, parsed.call) IN
    IF parsed.call = NULL THEN Error(parsed.p, b)
    ELSE IF linked.p.last # parsed.call \/ inside_substitution
    THEN Success(AddCallAtTheEnd(linked.p, parsed.call), linked.b)
    ELSE Success(linked.p, linked.b)

\* The end of parse_command_call, once its tokens are dealt with.
EndOfCall(r, at, name, inside_substitution, inside_pipeline) ==
    IF r.ok /\ ~Misplaced(r.p, r.b, inside_pipeline)
    THEN BuildCall(r.p, r.b, at, name, inside_substitution)
    ELSE [p |-> Error(r.p, r.b).p, call |-> NULL]

\* A call that was built, and what a parse and a builder are made of.
CallType ==
    [at : Nat, name : Words, stdin : Int, stdout : Int, stderr : Int,
     reads : SUBSET Nat, writes : SUBSET Nat, files : SUBSET Nat]

Parse ==
    [calls : Seq(CallType), order : Seq(Nat), pipes : Seq(Nat \X Nat), last : Nat, sub : Int,
     open : SUBSET Nat, fd : Nat]
Builder == [fds : Seq(Int), reads : SUBSET Nat, writes : SUBSET Nat, files : SUBSET Nat]

(* Where the loop of parse_command_call may be: at token i of those from lo*)
(* to hi, with what it parsed and whether it may go on.                    *)
Frame ==
    [t : Seq(Words \cup redirection_caret_symbols), r : [p : Parse, b : Builder, ok : BOOLEAN],
     lo : Nat, i : Nat, hi : Nat, inside_substitution : BOOLEAN]

(* parse_command_call on the tokens lo to hi: the call that starts there,  *)
(* NULL if it is refused.  Loop is what the loop comes to from a frame on. *)
parse_command_call(Loop, t, p, lo, hi, inside_substitution, inside_pipeline) ==
    IF hi < lo THEN [p |-> p, call |-> NULL]
    ELSE EndOfCall(Loop[[t |-> t, r |-> Success(p, NewBuilder), lo |-> lo, i |-> lo, hi |-> hi,
                         inside_substitution |-> inside_substitution]],
                   lo, t[lo], inside_substitution, inside_pipeline)

(* parse_command_substitution: the pipe is opened first, then the calls    *)
(* between the parentheses are parsed.                                     *)
parse_command_substitution(Loop, t, p, b, i, end) ==
    IF end = 0 THEN Error([p EXCEPT !.sub = NULL], b)
    ELSE LinkSubstitution(parse_command_call(Loop, t, [OpenPipe(p) EXCEPT !.sub = NULL], i, end - 1, TRUE, FALSE),
                          b, Len(p.pipes) + 1)

(* The loop of parse_command_call, which has come to frame a: what it does *)
(* with a token, and from the next one on.                                 *)
ParseTokens(Loop, a) ==
    LET symbol == a.t[a.i]
        next == a.t[a.i + 1]
        end == ClosingPosition(a.t, a.i + 1, a.hi)
        Continue(r, i) == Loop[[a EXCEPT !.r = r, !.i = i]]
    IN  IF ~a.r.ok \/ a.i > a.hi THEN a.r
        ELSE IF symbol \notin redirection_caret_symbols THEN Continue(a.r, a.i + 1)
        ELSE IF a.i = a.lo \/ a.i = a.hi \/ next \in redirection_caret_symbols THEN Error(a.r.p, a.r.b)
        ELSE IF symbol = "<("
        THEN Continue(parse_command_substitution(Loop, a.t, a.r.p, a.r.b, a.i + 1, end), end + 1)
        ELSE IF symbol = "|"
        THEN IF a.r.b.fds[2] # UNINITIALIZED_FD THEN Error(a.r.p, a.r.b)
             ELSE LinkNext(parse_command_call(Loop, a.t, a.r.p, a.i + 1, a.hi, a.inside_substitution, TRUE),
                           a.r.b, a.inside_substitution)
        ELSE Continue(parse_redirections(a.r.p, a.r.b, symbol, next), a.i + 2)

(* The calls of parse_command_call nest, and its loop goes on, for as long *)
(* as there are tokens: n of them are left.                                *)
Loops[n \in Nat] == [a \in Frame |-> IF n = 0 THEN a.r ELSE ParseTokens(Loops[n - 1], a)]
-----------------------------------------------------------------------------
\* The descriptors of the pipes of a command, and of a call.
PipeEnds(pipes) == UNION {{pipes[k][1], pipes[k][2]} : k \in DOMAIN pipes}
CallFds(call) == {call.stdin, call.stdout, call.stderr}

\* The pipes are left to whoever uses them.
CloseCommand_CallsOnly(p) ==
    Close(p, (UNION {CallFds(p.calls[p.order[k]]) : k \in DOMAIN p.order}) \ PipeEnds(p.pipes))

(* The error path of parse_command: close_unused_file_descriptors for the  *)
(* calls in command_calls, then both ends of every pipe.                   *)
CloseCommand(p) ==
    Close(p, PipeEnds(p.pipes) \cup UNION {CallFds(p.calls[p.order[k]]) : k \in DOMAIN p.order})

\* A call that is destroyed or forgotten leaves the static variable as it is.
Dangling(sub) == IF sub = NULL THEN NULL ELSE DANGLING

(* The end of parse_command, when the first call of the piece was parsed,  *)
(* or refused, with all that follows it.                                   *)
EndOfCommand(r) ==
    LET p == IF r.p.last # NULL /\ (r.call = NULL \/ r.call # r.p.last)
             THEN AddCallAtTheEnd(r.p, IF r.call = NULL THEN r.p.last ELSE r.call)
             ELSE r.p
        order == <<p.last>> \o p.order
    IN  IF r.call = NULL
        THEN [ok |-> FALSE, sub |-> Dangling(p.sub), open |-> CloseCommand(p).open, fd |-> p.fd]
        ELSE [ok |-> TRUE, sub |-> p.sub, open |-> p.open, fd |-> p.fd,
              calls |-> [k \in DOMAIN order |-> p.calls[order[k]]], pipes |-> p.pipes]

\* parse_command on the tokens of a piece of the line.
parse_command(t, sub, fd) ==
    IF t = <<>> THEN [ok |-> FALSE, sub |-> sub, open |-> {}, fd |-> fd]
    ELSE EndOfCommand(parse_command_call(Loops[Len(t)], t, Fresh(sub, fd), 1, Len(t), FALSE, FALSE))

\* The loop of split_string, one token further: runs of the separator count
\* for one, or for none.
NextWord(words, token) == IF token = COMMAND_SEPARATOR THEN words ELSE Append(words, token)

split_string(piece) ==
    LET upTo[k \in 0 .. Len(piece)] == IF k = 0 THEN <<>> ELSE NextWord(upTo[k - 1], piece[k])
    IN  upTo[Len(piece)]
-----------------------------------------------------------------------------
(* The loop of split_string_keep_trace, one token further: flags end the   *)
(* pieces, and empty ones are dropped.                                     *)
NextToken(s, token) ==
    IF token # BACKGROUND_FLAG THEN [s EXCEPT !.piece = Append(@, token)]
    ELSE IF s.piece = <<>> THEN s
    ELSE [pieces |-> Append(s.pieces, s.piece), piece |-> <<>>]

(* split_string_keep_trace: the pieces between flags, and how many of them *)
(* a flag follows.                                                         *)
split_string_keep_trace(l) ==
    LET upTo[k \in 0 .. Len(l)] ==
            IF k = 0 THEN [pieces |-> <<>>, piece |-> <<>>] ELSE NextToken(upTo[k - 1], l[k])
        s == upTo[Len(l)]
    IN  [pieces |-> IF s.piece = <<>> THEN s.pieces ELSE Append(s.pieces, s.piece), flagged |-> Len(s.pieces)]

\* One piece too few.
IsBackground_OneTooFew(split, k) == k < split.flagged

\* The first pieces are those that a flag follows.
IsBackground(split, k) == k <= split.flagged

(* The loop of parse_read_line: r is what it has when it comes to piece k  *)
(* and c what parse_command makes of that piece.  A refusal of the last    *)
(* piece drops it, any other gives the line up.                            *)
AddCommand(r, c, split, k) ==
    [commands |-> IF c.ok
                  THEN Append(r.commands, [calls |-> c.calls, pipes |-> c.pipes, background |-> IsBackground(split, k)])
                  ELSE IF k = Len(split.pieces) THEN r.commands ELSE <<>>,
     refused |-> ~c.ok,
     given_up |-> ~c.ok /\ k < Len(split.pieces),
     open |-> r.open \cup c.open, sub |-> c.sub, fd |-> c.fd]

\* One turn of that loop, over once a piece was refused.
ParsePiece(r, split, k) ==
    IF r.refused THEN r
    ELSE AddCommand(r, parse_command(split_string(split.pieces[k]), r.sub, r.fd), split, k)

(* parse_read_line.  A line that starts with the flag is dropped unread.   *)
parse_read_line(l, sub) ==
    LET nothing == [commands |-> <<>>, refused |-> FALSE, given_up |-> FALSE, open |-> {}, sub |-> sub, fd |-> 2]
        split == split_string_keep_trace(l)
        upTo[k \in 0 .. Len(split.pieces)] == IF k = 0 THEN nothing ELSE ParsePiece(upTo[k - 1], split, k)
    IN  IF l # <<>> /\ Head(l) = BACKGROUND_FLAG THEN nothing ELSE upTo[Len(split.pieces)]
-----------------------------------------------------------------------------
ParserInit ==
    /\ last_parsed_command_call_substitution = NULL
    /\ line = <<>>
    /\ commands = <<>>
    /\ refused = FALSE
    /\ given_up = FALSE
    /\ open = {}
    /\ phase = "prompt"

(* What the line comes to.                                                 *)
ParsedAs(l, r) ==
    /\ line' = l
    /\ commands' = r.commands
    /\ refused' = r.refused
    /\ given_up' = r.given_up
    /\ open' = r.open
    /\ last_parsed_command_call_substitution' = r.sub

(* prompt() reads a line and has it parsed.                                *)
ParseLine ==
    /\ phase = "prompt"
    /\ phase' = "parsed"
    /\ \E l \in Lines : ParsedAs(l, parse_read_line(l, last_parsed_command_call_substitution))

(* The commands were executed and destroyed, which closes what they own    *)
(* (module Plumbing); what a line that was given up left open is set aside *)
(* with it.                                                                *)
NextPrompt ==
    /\ phase = "parsed"
    /\ phase' = "prompt"
    /\ line' = <<>>
    /\ commands' = <<>>
    /\ refused' = FALSE
    /\ given_up' = FALSE
    /\ open' = {}
    /\ UNCHANGED last_parsed_command_call_substitution

ParserNext == ParseLine \/ NextPrompt

ParserSpec == ParserInit /\ [][ParserNext]_parserVars
-----------------------------------------------------------------------------
Reference == INSTANCE Grammar

(* Types: what parse_read_line returns are commands with at least one      *)
(* call, and the standard descriptors are never among those opened.        *)
ParserTypeOK ==
    /\ last_parsed_command_call_substitution \in {NULL, DANGLING}
    /\ Range(line) \subseteq Words \cup redirection_caret_symbols \cup {BACKGROUND_FLAG, COMMAND_SEPARATOR}
    /\ refused \in BOOLEAN /\ given_up \in BOOLEAN
    /\ phase \in {"prompt", "parsed"}
    /\ \A fd \in open : fd > 2
    /\ \A k \in DOMAIN commands :
          /\ commands[k].background \in BOOLEAN
          /\ commands[k].calls # <<>>
          /\ \A n \in DOMAIN commands[k].calls :
                LET call == commands[k].calls[n] IN
                /\ call.name \in Words
                /\ {call.stdin, call.stdout, call.stderr} \cup call.files \subseteq Nat
                /\ call.reads \cup call.writes \subseteq DOMAIN commands[k].pipes

(* The pieces of a line as a reader sees them: positions from one flag to  *)
(* the next, if there is something between them.                           *)
PieceBounds(l) ==
    {b \in (DOMAIN l) \X (DOMAIN l) :
        /\ b[1] <= b[2]
        /\ \A k \in b[1] .. b[2] : l[k] # BACKGROUND_FLAG
        /\ b[1] = 1 \/ l[b[1] - 1] = BACKGROUND_FLAG
        /\ b[2] = Len(l) \/ l[b[2] + 1] = BACKGROUND_FLAG}
PiecesBefore(l, i) == Cardinality({b \in PieceBounds(l) : b[1] < i})

\* What is in a piece but for the separators.
Tokens(l, b) ==
    LET places == {k \in b[1] .. b[2] : l[k] # COMMAND_SEPARATOR}
        Before(k) == Cardinality({j \in places : j < k})
    IN  [n \in 1 .. Cardinality(places) |-> l[CHOOSE k \in places : Before(k) = n - 1]]

\* The tokens of the k-th piece of the line.
Piece(l, k) == Tokens(l, CHOOSE b \in PieceBounds(l) : PiecesBefore(l, b[1]) = k - 1)

IsLine(l) == \A b \in PieceBounds(l) : Reference!IsCommand(Tokens(l, b))
StartsWithFlag(l) == l # <<>> /\ Head(l) = BACKGROUND_FLAG

(* A parser that has not refused a substitution before reads the lines of  *)
(* project.md and no others (parse_read_line with everything it calls,     *)
(* :377-948).                                                              *)
ReadsTheGrammar ==
    [][phase = "prompt" /\ phase' = "parsed" /\ last_parsed_command_call_substitution = NULL /\ ~StartsWithFlag(line')
            => (refused' <=> ~IsLine(line'))]_parserVars

(* The same of every parser, as the comment on the static variable promises*)
(* ("It gets reset every time we parse a new substitution", :23-24).       *)
AlwaysReadsTheGrammar ==
    [][phase = "prompt" /\ phase' = "parsed" /\ ~StartsWithFlag(line')
            => (refused' <=> ~IsLine(line'))]_parserVars

\* The calls of a command that write into, and read from, a pipe.
Writers(c, pipe) == {n \in DOMAIN c.calls : pipe \in c.calls[n].writes}
Readers(c, pipe) == {n \in DOMAIN c.calls : pipe \in c.calls[n].reads}

\* What flows through a pipe of a command, as Grammar!Streams says it.
StreamOf(c, pipe) ==
    LET w == c.calls[CHOOSE n \in Writers(c, pipe) : TRUE]
        r == c.calls[CHOOSE n \in Readers(c, pipe) : TRUE]
    IN  <<w.at, r.at, IF c.pipes[pipe][1] \in r.files THEN "file" ELSE "pipe">>

(* Every pipe of a command has one writer, whose output it is, and one     *)
(* reader, which has it as its input or in its arguments (link_pipelines,  *)
(* parse_command_substitution).                                            *)
PipesLinked(c) ==
    \A pipe \in DOMAIN c.pipes :
        /\ Cardinality(Writers(c, pipe)) = 1 /\ Cardinality(Readers(c, pipe)) = 1
        /\ \A n \in Writers(c, pipe) : c.calls[n].stdout = c.pipes[pipe][2]
        /\ \A n \in Readers(c, pipe) :
              (c.calls[n].stdin = c.pipes[pipe][1]) # (c.pipes[pipe][1] \in c.calls[n].files)

(* The two calls that a pipe links are those that the text of the command  *)
(* links.  Call 1, whose exit code counts, is the last of the main pipe-   *)
(* line, and every call is there once (link_pipelines,                     *)
(* parse_command_substitution, parse_command).                             *)
WiresWhatIsWritten ==
    \A k \in DOMAIN commands :
        LET c == commands[k]
            t == Piece(line, k)
        IN  /\ PipesLinked(c)
            /\ {StreamOf(c, pipe) : pipe \in DOMAIN c.pipes} = Reference!Streams(t)
            /\ Len(c.pipes) = Cardinality(Reference!Streams(t))
            /\ c.calls[1].at = Reference!MainLast(t)
            /\ {c.calls[n].at : n \in DOMAIN c.calls} = Reference!CallStarts(t)
            /\ Len(c.calls) = Cardinality(Reference!CallStarts(t))

\* The descriptors that the execution of a command closes.
OwnedBy(c) == PipeEnds(c.pipes) \cup {fd \in UNION {CallFds(c.calls[n]) : n \in DOMAIN c.calls} : fd > 2}

(* Unless a line is given up, the descriptors it opened that are still open*)
(* are those that a command to be executed will close: none was lost on an *)
(* error path (:636-648, :858-866) or when a file replaces another         *)
(* (:384-454), and none that is needed was closed.  And closing those of a *)
(* call (internals.c:357-396) takes none from another call.  What a line   *)
(* that is given up leaves open nobody owns.                               *)
OpenIsOwned ==
    /\ ~given_up => open = UNION {OwnedBy(commands[k]) : k \in DOMAIN commands}
    /\ \A c, d \in UNION {{commands[k].calls[n] : n \in DOMAIN commands[k].calls} : k \in DOMAIN commands} :
          c # d => \A fd \in CallFds(c) \cap CallFds(d) : fd <= 2

(* A command is in the background if and only if a flag follows it: what   *)
(* split_string_keep_trace counts agrees with where the flags are, with    *)
(* empty pieces, flags in a row and a last command that is dropped         *)
(* (string_utils.c:155, command.c:910).                                    *)
FlagsMarkTheirCommand ==
    \A b \in PieceBounds(line) :
        LET k == PiecesBefore(line, b[1]) + 1 IN
        k \in DOMAIN commands => (commands[k].background <=> b[2] < Len(line))

(* All that is wrong with a line is that a file of a redirection does not  *)
(* open.                                                                   *)
Openly == INSTANCE Grammar WITH Unopenable <- {}
RedirectionFails(l) == ~IsLine(l) /\ \A b \in PieceBounds(l) : Openly!IsCommand(Tokens(l, b))

(* What project.md:281 says of the failure of a redirection: the line is   *)
(* not executed.  Violated: when the redirection is in the last command of *)
(* the line, only that command is dropped (trim_last, command.c:904, :929- *)
(* 939), and those before it are executed in the background.               *)
FailedRedirectionStopsTheLine == RedirectionFails(line) => commands = <<>>

=============================================================================
