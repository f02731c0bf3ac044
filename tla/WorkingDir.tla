----------------------------- MODULE WorkingDir -----------------------------
(***************************************************************************)
(* cd, cd - and pwd (src/src/cd.c, src/src/pwd.c), the variable lwd and    *)
(* the prompt, which shows where the shell is.                             *)
(*                                                                         *)
(* A place is what getcwd calls a directory: its physical path.  A name is *)
(* what may be written after cd: a place, or a link to one.  Between any   *)
(* two system calls of cd other processes, the jobs in the background for  *)
(* instance, make and remove directories or change who may enter them;     *)
(* they do not rename the directory the shell is in.                       *)
(***************************************************************************)
EXTENDS Naturals

CONSTANTS
    Names,     \* the names a user may write
    Places,    \* the physical paths
    Long,      \* places whose path does not fit in PATH_MAX
    Target,    \* the place each name leads to
    Start,     \* the place in which the shell starts
    HOME,      \* the environment variable, or NoPath
    NoPath     \* no path: an lwd of zeros, a HOME that is not set

ASSUME WorkingDirAssumption ==
    /\ Places \subseteq Names
    /\ Target \in [Names -> Places]
    /\ \A p \in Places : Target[p] = p
    /\ Long \subseteq Places
    /\ Start \in Places
    /\ NoPath \notin Names
    /\ HOME \in Names \cup {NoPath}

VARIABLES
    pc,       \* where the shell is: at the prompt, before a command, or inside cd or pwd
    code,     \* what the last command returned
    path,     \* local variable of cd: where to go
    cwd,      \* the place of the working directory
    gone,     \* whether that directory has been removed since
    lwd,      \* the previous working directory
    before,   \* lwd when the last cd began (history variable)
    files     \* what is at each place

shellVars == <<pc, code, path, lwd, before>>
vars == <<shellVars, cwd, gone, files>>

Kinds == {"absent", "file", "open", "closed"}    \* a directory that may be entered, or not
IsDirectory(p) == files[p] \in {"open", "closed"}

\* getcwd(NULL, PATH_MAX) has no path to give.
GetcwdFails == gone \/ cwd \in Long

Init ==
    /\ pc = "prompt"
    /\ code = 0
    /\ path = NoPath
    /\ cwd = Start
    /\ gone = FALSE
    /\ lwd = NoPath
    /\ before = NoPath
    /\ files \in [Places -> Kinds]
    /\ files[Start] = "open"

-----------------------------------------------------------------------------
(* The prompt and the commands of a line.                                  *)

\* get_current_wd gives a literal when getcwd fails, and its callers free it,
\* which ends the shell.
FreesLiteral ==
    /\ pc \in {"prompt", "pwd"}
    /\ GetcwdFails
    /\ pc' = "aborted"
    /\ UNCHANGED <<code, path, lwd, before, cwd, gone, files>>

ShowPrompt ==
    /\ pc = "prompt"
    /\ ~GetcwdFails
    /\ pc' = "line"
    /\ UNCHANGED <<code, path, lwd, before, cwd, gone, files>>

EndOfLine ==
    /\ pc = "line"
    /\ pc' = "prompt"
    /\ UNCHANGED <<code, path, lwd, before, cwd, gone, files>>

\* pwd and cd with arguments they do not take.
Misused ==
    /\ pc = "line"
    /\ code' = 1
    /\ UNCHANGED <<pc, path, lwd, before, cwd, gone, files>>

\* pwd, before it calls getcwd.
CallPwd ==
    /\ pc = "line"
    /\ pc' = "pwd"
    /\ UNCHANGED <<code, path, lwd, before, cwd, gone, files>>

PwdPrints ==
    /\ pc = "pwd"
    /\ ~GetcwdFails
    /\ code' = 0
    /\ pc' = "line"
    /\ UNCHANGED <<path, lwd, before, cwd, gone, files>>

-----------------------------------------------------------------------------
(* cd: where to go, stat, getcwd, chdir.                                   *)

\* cd, cd - and cd ref; NoPath when there is no HOME or getcwd fails.
Destinations ==
    {HOME}
    \cup {IF lwd # NoPath THEN lwd ELSE IF GetcwdFails THEN NoPath ELSE cwd}
    \cup Names

\* The destination is determined and found to be a directory, or cd fails.
CallCd ==
    /\ pc = "line"
    /\ \E p \in Destinations :
          IF p # NoPath /\ IsDirectory(Target[p])
          THEN path' = p /\ pc' = "checked" /\ UNCHANGED code
          ELSE code' = 1 /\ UNCHANGED <<pc, path>>
    /\ before' = lwd
    /\ UNCHANGED <<lwd, cwd, gone, files>>

\* Mutant: lwd is set to what the user wrote.
NoteLwd_AsWritten ==
    /\ pc = "checked"
    /\ IF GetcwdFails
       THEN code' = 1 /\ pc' = "line" /\ UNCHANGED lwd
       ELSE lwd' = path /\ pc' = "noted" /\ UNCHANGED code
    /\ UNCHANGED <<path, before, cwd, gone, files>>

\* lwd is overwritten before the shell moves.
NoteLwd ==
    /\ pc = "checked"
    /\ IF GetcwdFails
       THEN code' = 1 /\ pc' = "line" /\ UNCHANGED lwd
       ELSE lwd' = cwd /\ pc' = "noted" /\ UNCHANGED code
    /\ UNCHANGED <<path, before, cwd, gone, files>>

\* Mutant: lwd is set after the shell has moved.
ChangeDirectory_ThenLwd ==
    /\ pc = "noted"
    /\ IF files[Target[path]] = "open"
       THEN code' = 0 /\ cwd' = Target[path] /\ gone' = FALSE /\ lwd' = Target[path]
       ELSE code' = 1 /\ UNCHANGED <<cwd, gone, lwd>>
    /\ pc' = "line"
    /\ UNCHANGED <<path, before, files>>

\* chdir looks the path up again, and wants a directory it may enter.
ChangeDirectory ==
    /\ pc = "noted"
    /\ IF files[Target[path]] = "open"
       THEN code' = 0 /\ cwd' = Target[path] /\ gone' = FALSE
       ELSE code' = 1 /\ UNCHANGED <<cwd, gone>>
    /\ pc' = "line"
    /\ UNCHANGED <<path, lwd, before, files>>

-----------------------------------------------------------------------------
(* The other processes.                                                    *)

\* A place changes; a directory that is made anew is not the one that the
\* shell is in.
Change(p) ==
    /\ files' \in [Places -> Kinds]
    /\ files'[p] # files[p]
    /\ \A q \in Places \ {p} : files'[q] = files[q]
    /\ gone' = (gone \/ (p = cwd /\ files'[p] \notin {"open", "closed"}))
    /\ UNCHANGED <<shellVars, cwd>>

Next ==
    \/ FreesLiteral \/ ShowPrompt \/ EndOfLine \/ Misused \/ CallPwd \/ PwdPrints
    \/ CallCd \/ NoteLwd \/ ChangeDirectory
    \/ \E p \in Places : Change(p)

Spec == Init /\ [][Next]_vars

-----------------------------------------------------------------------------
(* Properties.                                                             *)

\* Every variable holds a value of its type; lwd, an array of PATH_MAX
\* characters, only holds physical paths that fit in it.
WdTypeOK ==
    /\ pc \in {"prompt", "line", "pwd", "checked", "noted", "aborted"}
    /\ code \in {0, 1}
    /\ path \in Names \cup {NoPath}
    /\ pc \in {"checked", "noted"} => path # NoPath
    /\ cwd \in Places
    /\ gone \in BOOLEAN
    /\ {lwd, before} \subseteq (Places \ Long) \cup {NoPath}
    /\ files \in [Places -> Kinds]

\* A cd that succeeds leaves in lwd the place where the shell was, whatever
\* happened to it in the middle of cd, so that cd - leads back there; and cd -
\* leads to where lwd was when it was written.
CdSwaps ==
    [][pc = "noted" /\ code' = 0 /\ pc' = "line" =>
          /\ lwd' = cwd
          /\ path = before => cwd' = before]_vars

\* A zeroed lwd says that the shell never moved: cd -, which then takes the
\* working directory itself, stays where the shell started.
UnsetMeansStart == lwd = NoPath => cwd = Start
=============================================================================
