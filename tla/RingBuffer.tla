------------------------------ MODULE RingBuffer ------------------------------
(***************************************************************************)
(* The slot ring shared by the download and extract threads (input ring)   *)
(* and used as a plain slot pool by the asynchronous write path            *)
(* (ringbuffer.h, ringbuffer.cpp).                                         *)
(*                                                                         *)
(* Every operation runs under _mutex, so each is one action.  The clients  *)
(* are the most general ones the callers amount to: any number of slots    *)
(* may be held at once, slots come back in any order, a slot acquired for  *)
(* writing may be released without ever being committed, and a slot may be *)
(* released again while it is still free.                                  *)
(***************************************************************************)
EXTENDS Integers, Sequences, FiniteSets

CONSTANTS NumSlots,    \* _numSlots
          StallTicks,  \* STALL_TIMEOUT_MS, counted in 100 ms waits
          TimedCalls,  \* TRUE: the callers pass a timeout (they pass 100 ms)
          MaxBlocks    \* bound on the blocks committed between two resets

ASSUME NumSlotsAssumption == NumSlots \in Nat \ {0}
ASSUME StallTicksAssumption == StallTicks \in Nat \ {0}
ASSUME TimedCallsAssumption == TimedCalls \in BOOLEAN
ASSUME MaxBlocksAssumption == MaxBlocks \in Nat

Slots == 1..NumSlots

VARIABLES
  freeSlots,       \* _freeSlots: a stack, its top at the end
  committedSlots,  \* _committedSlots: a queue, its front first
  committedCount,  \* _committedCount, read without the lock by isComplete()
  slotInUse,       \* _slotInUse
  content,         \* block number in each slot; 0 is size 0
  producerDone, cancelled, stallTimeoutExceeded,
  holder,          \* who has a pointer to the slot
  delivered,       \* the block acquireReadSlot() last returned
  waited,          \* ticks spent waiting in the current call, per side
  starved          \* ticks since the side last got a slot, over all its calls

slotVars == <<freeSlots, committedSlots, committedCount, slotInUse, content,
              holder, delivered>>
flagVars == <<producerDone, cancelled, stallTimeoutExceeded>>
waitVars == <<waited, starved>>
ringVars == <<slotVars, flagVars, waitVars>>

Sides == {"producer", "consumer"}
Holders == {"pool", "writer", "queue", "reader"}

Top(stack) == stack[Len(stack)]
Pop(stack) == SubSeq(stack, 1, Len(stack) - 1)

\* Mutant: the indices pushed are one too low.
AllFreeOffByOne == [i \in Slots |-> NumSlots - i]

\* Pushed in reverse, so that the first slots handed out are 1, 2, ...
AllFree == [i \in Slots |-> NumSlots + 1 - i]

Init == /\ freeSlots = AllFree
        /\ committedSlots = <<>>
        /\ committedCount = 0
        /\ slotInUse = [s \in Slots |-> FALSE]
        /\ content = [s \in Slots |-> 0]
        /\ producerDone = FALSE
        /\ cancelled = FALSE
        /\ stallTimeoutExceeded = FALSE
        /\ holder = [s \in Slots |-> "pool"]
        /\ delivered = 0
        /\ waited = [d \in Sides |-> 0]
        /\ starved = [d \in Sides |-> 0]

Stopped == cancelled \/ stallTimeoutExceeded

Served(side) == /\ waited' = [waited EXCEPT ![side] = 0]
                /\ starved' = [starved EXCEPT ![side] = 0]

-------------------------------------------------------------------------------
(***************************************************************************)
(* acquireWriteSlot(): the slot on top of the free stack, if there is one. *)
(***************************************************************************)
AcquireWriteSlot ==
  /\ ~Stopped
  /\ freeSlots # <<>>
  /\ slotInUse' = [slotInUse EXCEPT ![Top(freeSlots)] = TRUE]
  /\ holder' = [holder EXCEPT ![Top(freeSlots)] = "writer"]
  /\ freeSlots' = Pop(freeSlots)
  /\ Served("producer")
  /\ UNCHANGED <<committedSlots, committedCount, content, delivered, flagVars>>

(***************************************************************************)
(* One wait of acquireWriteSlot()/acquireReadSlot() that ran its 100 ms    *)
(* without the condition coming true.  A call with a timeout ends there    *)
(* and forgets the time it waited; one without goes on waiting.            *)
(***************************************************************************)
WaitExpires(side) ==
  /\ ~Stopped
  /\ LET cumulative == waited[side] + 1
         exceeded == cumulative >= StallTicks
     IN /\ stallTimeoutExceeded' = exceeded
        /\ waited' = [waited EXCEPT ![side] =
                        IF TimedCalls \/ exceeded THEN 0 ELSE cumulative]
  /\ starved' = [starved EXCEPT ![side] =
                   IF @ < StallTicks THEN @ + 1 ELSE @]
  /\ UNCHANGED <<slotVars, producerDone, cancelled>>

ProducerWaitExpires == freeSlots = <<>> /\ WaitExpires("producer")

ConsumerWaitExpires == /\ committedCount = 0
                       /\ ~producerDone
                       /\ WaitExpires("consumer")

\* commitWriteSlot(): the number stands for both the data and its size.
CommitWriteSlot(s, block) ==
  /\ holder[s] = "writer"
  /\ content' = [content EXCEPT ![s] = block]
  /\ committedSlots' = Append(committedSlots, s)
  /\ committedCount' = committedCount + 1
  /\ holder' = [holder EXCEPT ![s] = "queue"]
  /\ UNCHANGED <<freeSlots, slotInUse, delivered, flagVars, waitVars>>

\* Mutant: the committed slots are read in index order.
AcquireLowestReadSlot ==
  /\ ~Stopped
  /\ committedCount # 0
  /\ \E i \in 1..Len(committedSlots) :
       /\ \A j \in 1..Len(committedSlots) : committedSlots[i] <= committedSlots[j]
       /\ holder' = [holder EXCEPT ![committedSlots[i]] = "reader"]
       /\ delivered' = content[committedSlots[i]]
       /\ committedSlots' = [j \in 1..(Len(committedSlots) - 1) |->
                               committedSlots[IF j < i THEN j ELSE j + 1]]
  /\ committedCount' = committedCount - 1
  /\ Served("consumer")
  /\ UNCHANGED <<freeSlots, slotInUse, content, flagVars>>

\* acquireReadSlot() when it returns a slot.
AcquireReadSlot ==
  /\ ~Stopped
  /\ committedCount # 0
  /\ LET s == Head(committedSlots)
     IN /\ holder' = [holder EXCEPT ![s] = "reader"]
        /\ delivered' = content[s]
  /\ committedSlots' = Tail(committedSlots)
  /\ committedCount' = committedCount - 1
  /\ Served("consumer")
  /\ UNCHANGED <<freeSlots, slotInUse, content, flagVars>>

\* Mutant: a slot that is already free is pushed again.
ReleaseReadSlotUnchecked(s) ==
  /\ content' = [content EXCEPT ![s] = 0]
  /\ slotInUse' = [slotInUse EXCEPT ![s] = FALSE]
  /\ freeSlots' = Append(freeSlots, s)
  /\ holder' = [holder EXCEPT ![s] = "pool"]
  /\ UNCHANGED <<committedSlots, committedCount, delivered, flagVars, waitVars>>

\* What releaseReadSlot() does to the pool: nothing if the slot is free.
ReleaseReadSlot(s) ==
  /\ content' = [content EXCEPT ![s] = 0]
  /\ IF slotInUse[s]
     THEN /\ slotInUse' = [slotInUse EXCEPT ![s] = FALSE]
          /\ freeSlots' = Append(freeSlots, s)
          /\ holder' = [holder EXCEPT ![s] = "pool"]
     ELSE UNCHANGED <<slotInUse, freeSlots, holder>>
  /\ UNCHANGED <<committedSlots, committedCount, delivered, flagVars, waitVars>>

ProducerDone == /\ producerDone' = TRUE
                /\ UNCHANGED <<slotVars, cancelled, stallTimeoutExceeded, waitVars>>

\* cancel() also wakes both sides, so whatever they waited for is forgotten.
Cancel == /\ cancelled' = TRUE
          /\ waited' = [d \in Sides |-> 0]
          /\ UNCHANGED <<slotVars, producerDone, stallTimeoutExceeded, starved>>

\* Mutant: the in-use marks survive a reset.
ResetKeepingMarks ==
  /\ freeSlots' = AllFree
  /\ committedSlots' = <<>>
  /\ committedCount' = 0
  /\ slotInUse' = slotInUse
  /\ content' = [s \in Slots |-> 0]
  /\ holder' = [s \in Slots |-> "pool"]
  /\ delivered' = 0
  /\ producerDone' = FALSE
  /\ cancelled' = FALSE
  /\ stallTimeoutExceeded' = FALSE
  /\ waited' = [d \in Sides |-> 0]
  /\ starved' = [d \in Sides |-> 0]

\* reset(): every slot back in the pool, whoever still had a pointer to it.
Reset == /\ freeSlots' = AllFree
         /\ committedSlots' = <<>>
         /\ committedCount' = 0
         /\ slotInUse' = [s \in Slots |-> FALSE]
         /\ content' = [s \in Slots |-> 0]
         /\ holder' = [s \in Slots |-> "pool"]
         /\ delivered' = 0
         /\ producerDone' = FALSE
         /\ cancelled' = FALSE
         /\ stallTimeoutExceeded' = FALSE
         /\ waited' = [d \in Sides |-> 0]
         /\ starved' = [d \in Sides |-> 0]

-------------------------------------------------------------------------------
\* The producer numbers its blocks in the order it commits them.
NextBlock == delivered + Len(committedSlots) + 1

Commit(s) == /\ ~producerDone
             /\ NextBlock <= MaxBlocks
             /\ CommitWriteSlot(s, NextBlock)

Release(s) == holder[s] # "queue" /\ ReleaseReadSlot(s)

Next == \/ AcquireWriteSlot
        \/ ProducerWaitExpires
        \/ ConsumerWaitExpires
        \/ AcquireReadSlot
        \/ ProducerDone
        \/ Cancel
        \/ Reset
        \/ \E s \in Slots : Commit(s) \/ Release(s)

Spec == Init /\ [][Next]_ringVars

-------------------------------------------------------------------------------
(***************************************************************************)
(* Each field of the ring stays within its type.                           *)
(***************************************************************************)
TypeOK ==
  /\ freeSlots \in Seq(Slots)
  /\ committedSlots \in Seq(Slots)
  /\ committedCount \in Nat
  /\ slotInUse \in [Slots -> BOOLEAN]
  /\ content \in [Slots -> Nat]
  /\ producerDone \in BOOLEAN
  /\ cancelled \in BOOLEAN
  /\ stallTimeoutExceeded \in BOOLEAN
  /\ holder \in [Slots -> Holders]
  /\ delivered \in Nat
  /\ waited \in [Sides -> Nat]
  /\ starved \in [Sides -> Nat]

NoRepeats(q) == \A i, j \in 1..Len(q) : q[i] = q[j] => i = j
Occurs(s, q) == \E i \in 1..Len(q) : q[i] = s

(***************************************************************************)
(* Slots are tracked by identity (#1598): the free stack and the committed *)
(* queue hold each index at most once, and a slot is free, queued, or with *)
(* exactly one client.  Two free-stack entries for one slot would let two  *)
(* producers write the same buffer.                                        *)
(***************************************************************************)
SlotOwnership ==
  /\ NoRepeats(freeSlots)
  /\ NoRepeats(committedSlots)
  /\ committedCount = Len(committedSlots)
  /\ \A s \in Slots : Occurs(s, freeSlots) <=> holder[s] = "pool"
  /\ \A s \in Slots : Occurs(s, committedSlots) <=> holder[s] = "queue"
  /\ \A s \in Slots : slotInUse[s] <=> holder[s] # "pool"

(***************************************************************************)
(* A committed block stays intact until it is read: the queue holds the    *)
(* blocks after the last delivered one, in commit order, although slots    *)
(* are recycled out of order.                                              *)
(***************************************************************************)
CommitOrder ==
  \A i \in 1..Len(committedSlots) : content[committedSlots[i]] = delivered + i

(***************************************************************************)
(* ringbuffer.h:165-168: the stall flag is set when acquire operations     *)
(* exceed STALL_TIMEOUT_MS of cumulative wait time.                        *)
(***************************************************************************)
StallIsDetected ==
  \A d \in Sides : starved[d] >= StallTicks => stallTimeoutExceeded

\* The ring implements the bounded channel.
Channel == INSTANCE BlockChannel WITH
             Capacity <- NumSlots,
             inTransit <- [i \in 1..Len(committedSlots) |-> content[committedSlots[i]]],
             aborted <- Stopped
ChannelSpec == Channel!Spec
===============================================================================
