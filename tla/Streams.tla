------------------------------ MODULE Streams ------------------------------
(***************************************************************************)
(* What the pipes of a line promise to the programs that read them: the    *)
(* input of a call ends, and it does so only when every call that is to    *)
(* write into it is gone.                                                  *)
(***************************************************************************)
VARIABLES
    writers,   \* of each stream, the calls that may still write into it
    seen       \* the streams whose end was read

NewStreams ==
    /\ seen' = {}
    /\ \A s \in DOMAIN writers : writers[s] = {}

(* Writers go, never to come back; nobody sees the end of a stream by that.*)
WritersGo ==
    /\ DOMAIN writers' = DOMAIN writers
    /\ \A s \in DOMAIN writers : writers'[s] \subseteq writers[s]
    /\ seen' = seen

\* The end of a stream is read.
EndIsRead(s) ==
    /\ s \in DOMAIN writers
    /\ writers[s] = {}
    /\ seen' = seen \cup {s}
    /\ UNCHANGED writers

StreamsInit == seen = {}
StreamsNext == NewStreams \/ WritersGo \/ \E s \in DOMAIN writers : EndIsRead(s)
StreamsSpec == StreamsInit /\ [][StreamsNext]_<<writers, seen>>
=============================================================================
