---------------------------- MODULE FifoPermits ----------------------------
(***************************************************************************)
(* What application.hpp (lines 320-352) promises of admission: callers     *)
(* wait in one line, permits go to the head of the line, at most capacity  *)
(* callers are inside, and a caller that gives up leaves the line without  *)
(* disturbing anyone else's place in it.                                   *)
(***************************************************************************)
EXTENDS Naturals, Sequences, FiniteSets

CONSTANT Callers

VARIABLES
    capacity,   \* the limit, given once
    line, inside

fifoVars == <<capacity, line, inside>>

Queued(c) == \E i \in 1..Len(line) : line[i] = c

FifoInit == capacity \in Nat \ {0} /\ line = <<>> /\ inside = {}

Join(c) ==
    /\ c \notin inside /\ ~Queued(c)
    /\ line' = Append(line, c)
    /\ UNCHANGED <<capacity, inside>>

Enter ==
    /\ line # <<>>
    /\ Cardinality(inside) < capacity
    /\ line' = Tail(line)
    /\ inside' = inside \cup {Head(line)}
    /\ UNCHANGED capacity

Leave(c) ==
    /\ c \in inside
    /\ inside' = inside \ {c}
    /\ UNCHANGED <<capacity, line>>

GiveUp(c) ==
    /\ Queued(c)
    /\ line' = SelectSeq(line, LAMBDA d : d # c)
    /\ UNCHANGED <<capacity, inside>>

FifoNext == Enter \/ \E c \in Callers : Join(c) \/ Leave(c) \/ GiveUp(c)

\* A permit that is free while somebody waits is eventually handed out.
FifoSpec == FifoInit /\ [][FifoNext]_fifoVars /\ WF_fifoVars(Enter)
=============================================================================
