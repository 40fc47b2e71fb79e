----------------------------- MODULE ByteStream -----------------------------
(***************************************************************************)
(* What a pipe promises: the bytes come out in the order they went in, at  *)
(* most PIPESIZE of them are under way, and a reader is told that the      *)
(* stream has ended only when all of them have been read and the last      *)
(* write end is closed.                                                    *)
(***************************************************************************)
EXTENDS Naturals, Sequences

CONSTANTS
    Procs,      \* the processes that use the pipe
    Bytes,      \* what is written to it
    PIPESIZE    \* the most bytes under way

VARIABLES
    bytes,      \* the bytes under way, the oldest first
    open,       \* whether a write end is open
    ended       \* the processes whose last call told them the end of the stream

streamvars == <<bytes, open, ended>>

Init == bytes = <<>> /\ open = TRUE /\ ended = {}

Put(b) ==
    /\ open /\ Len(bytes) < PIPESIZE
    /\ bytes' = Append(bytes, b)
    /\ UNCHANGED <<open, ended>>

Get ==
    /\ bytes # <<>>
    /\ bytes' = Tail(bytes)
    /\ UNCHANGED <<open, ended>>

CloseLast ==
    /\ open' = FALSE
    /\ UNCHANGED <<bytes, ended>>

End(p) ==
    /\ bytes = <<>> /\ ~open
    /\ ended' = ended \union {p}
    /\ UNCHANGED <<bytes, open>>

CallAgain(p) ==
    /\ ended' = ended \ {p}
    /\ UNCHANGED <<bytes, open>>

Next ==
    \/ \E b \in Bytes : Put(b)
    \/ Get
    \/ CloseLast
    \/ \E p \in Procs : End(p) \/ CallAgain(p)

Spec == Init /\ [][Next]_streamvars
=============================================================================
