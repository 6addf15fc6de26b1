------------------------------ MODULE LossyFifo ------------------------------
(***************************************************************************)
(* What the hand-off queue promises its users, free of deques, budgets and *)
(* locks: events come out in the order they went in, each at most once,    *)
(* and the only ones that may be lost on the way are audio buffers that a  *)
(* newer audio buffer has superseded, oldest first.                        *)
(*                                                                         *)
(* EventQueue implements this specification (EventQueueProofs).            *)
(***************************************************************************)
EXTENDS Integers

CONSTANT Events        \* every record an event can be; has .ticket and .kind

VARIABLES backlog, taken, out, lost, shut

fifoVars == <<backlog, taken, out, lost, shut>>

Audio(S) == {e \in S : e.kind = "audio"}

FifoInit ==
    /\ backlog = {}
    /\ taken = 0
    /\ out = {}
    /\ lost = {}
    /\ shut = FALSE

Take(e) ==
    /\ ~shut
    /\ e.ticket = taken + 1
    /\ taken' = taken + 1
    /\ backlog' = backlog \union {e}
    /\ UNCHANGED <<out, lost, shut>>

Lose(e) ==
    /\ e \in Audio(backlog)
    /\ \A f \in Audio(backlog) : e.ticket <= f.ticket
    /\ \E f \in Audio(backlog) : e.ticket < f.ticket
    /\ backlog' = backlog \ {e}
    /\ lost' = lost \union {e}
    /\ UNCHANGED <<taken, out, shut>>

Give(e) ==
    /\ e \in backlog
    /\ \A f \in backlog : e.ticket <= f.ticket
    /\ backlog' = backlog \ {e}
    /\ out' = out \union {e}
    /\ UNCHANGED <<taken, lost, shut>>

Shut ==
    /\ shut' = TRUE
    /\ UNCHANGED <<backlog, taken, out, lost>>

FifoNext == \E e \in Events : Take(e) \/ Lose(e) \/ Give(e)
FifoStep == FifoNext \/ Shut

FifoSpec == FifoInit /\ [][FifoStep]_fifoVars
=============================================================================
