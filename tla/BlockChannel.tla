----------------------------- MODULE BlockChannel -----------------------------
(***************************************************************************)
(* What the ring buffer promises its two threads (ringbuffer.h:21-39),     *)
(* without slots: a bounded first-in first-out channel of blocks that the  *)
(* producer may close and either side may abort.  RingBuffer.tla is shown  *)
(* to implement it.                                                        *)
(***************************************************************************)
EXTENDS Integers, Sequences

CONSTANT Capacity   \* how many blocks may be under way at once

VARIABLES inTransit,  \* blocks committed and not yet read, oldest first
          delivered,  \* the block the consumer was last given (0: none)
          aborted     \* no more blocks are handed out

vars == <<inTransit, delivered, aborted>>

Init == inTransit = <<>> /\ delivered = 0 /\ aborted = FALSE

\* Blocks are numbered in the order they were sent.
NextNumber == IF inTransit = <<>> THEN delivered + 1
                                  ELSE inTransit[Len(inTransit)] + 1

Send == /\ Len(inTransit) < Capacity
        /\ inTransit' = Append(inTransit, NextNumber)
        /\ UNCHANGED <<delivered, aborted>>

Receive == /\ ~aborted
           /\ inTransit # <<>>
           /\ delivered' = Head(inTransit)
           /\ inTransit' = Tail(inTransit)
           /\ UNCHANGED aborted

Abort == aborted' = TRUE /\ UNCHANGED <<inTransit, delivered>>

Reuse == inTransit' = <<>> /\ delivered' = 0 /\ aborted' = FALSE

Next == Send \/ Receive \/ Abort \/ Reuse

Spec == Init /\ [][Next]_vars
===============================================================================
