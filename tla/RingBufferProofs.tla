--------------------------- MODULE RingBufferProofs ---------------------------
(***************************************************************************)
(* What the ring buffer guarantees for every number of slots.  The         *)
(* inductive invariant is the conjunction of the three invariants TLC      *)
(* checks: the order of the committed blocks rests on slot ownership, and  *)
(* slot ownership on the types.                                            *)
(***************************************************************************)
EXTENDS RingBuffer, FiniteSetTheorems, SequenceTheorems, TLAPS

\* The inductive invariant: the three invariants the runs check are inductive
\* together; none of them is alone (what a slot holds depends on who owns it).
IInv == TypeOK /\ SlotOwnership /\ CommitOrder

-------------------------------------------------------------------------------
(* What the three ways to change a queue do to its elements.               *)

\* Popping a stack drops its top.
LEMMA PopProperties ==
  ASSUME NEW S, NEW q \in Seq(S), q # <<>>
  PROVE  /\ Top(q) \in S
         /\ Pop(q) \in Seq(S)
         /\ Len(Pop(q)) = Len(q) - 1
         /\ \A i \in 1..Len(Pop(q)) : Pop(q)[i] = q[i]
         /\ Len(q) \in Nat \ {0}
  <1>1. /\ Len(q) \in Nat \ {0}
        /\ \A i \in 1..Len(q) : q[i] \in S
    OBVIOUS
  <1>2. /\ SubSeq(q, 1, Len(q) - 1) \in Seq(S)
        /\ Len(SubSeq(q, 1, Len(q) - 1)) = Len(q) - 1
        /\ \A i \in 1..(Len(q) - 1) : SubSeq(q, 1, Len(q) - 1)[i] = q[i]
    <2> DEFINE n == Len(q) - 1
    <2>1. n \in Nat /\ \A i \in 1..n : q[i] \in S
      BY <1>1
    <2> HIDE DEF n
    <2>2. /\ SubSeq(q, 1, n) \in Seq(S)
          /\ Len(SubSeq(q, 1, n)) = n
          /\ \A i \in 1..n : SubSeq(q, 1, n)[i] = q[i]
      BY <2>1
    <2> QED
      BY <2>2 DEF n
  <1> QED
    BY <1>1, <1>2 DEF Pop, Top

\* Taking the head of a queue shifts the rest down by one.
LEMMA TailProperties ==
  ASSUME NEW S, NEW q \in Seq(S), q # <<>>
  PROVE  /\ Head(q) \in S
         /\ Head(q) = q[1]
         /\ Tail(q) \in Seq(S)
         /\ Len(Tail(q)) = Len(q) - 1
         /\ \A i \in 1..Len(Tail(q)) : Tail(q)[i] = q[i + 1]
         /\ Len(q) \in Nat \ {0}
  OBVIOUS

\* Appending adds one element at the end.
LEMMA AppendElements ==
  ASSUME NEW S, NEW q \in Seq(S), NEW e \in S
  PROVE  /\ Append(q, e) \in Seq(S)
         /\ Len(Append(q, e)) = Len(q) + 1
         /\ \A i \in 1..Len(q) : Append(q, e)[i] = q[i]
         /\ Append(q, e)[Len(q) + 1] = e
         /\ Len(q) \in Nat
  OBVIOUS

\* Popping a stack without repeats removes exactly its top element.
LEMMA PopRemovesTop ==
  ASSUME NEW S, NEW q \in Seq(S), q # <<>>, NoRepeats(q)
  PROVE  /\ NoRepeats(Pop(q))
         /\ \A s : Occurs(s, Pop(q)) <=> Occurs(s, q) /\ s # Top(q)
  <1>1. /\ Len(Pop(q)) = Len(q) - 1
        /\ Len(q) \in Nat \ {0}
        /\ \A i \in 1..Len(Pop(q)) : Pop(q)[i] = q[i]
    BY PopProperties
  <1>2. NoRepeats(Pop(q))
    BY <1>1 DEF NoRepeats
  <1>3. ASSUME NEW s, Occurs(s, Pop(q))
        PROVE  Occurs(s, q) /\ s # Top(q)
    BY <1>1, <1>3 DEF NoRepeats, Occurs, Top
  <1>4. ASSUME NEW s, Occurs(s, q), s # Top(q)
        PROVE  Occurs(s, Pop(q))
    <2>1. PICK i \in 1..Len(q) : q[i] = s
      BY <1>4 DEF Occurs
    <2>2. i \in 1..Len(Pop(q))
      BY <1>1, <1>4, <2>1 DEF Top
    <2> QED
      BY <1>1, <2>1, <2>2 DEF Occurs
  <1> QED
    BY <1>2, <1>3, <1>4

\* Taking the head of a queue without repeats removes exactly that element.
LEMMA TailRemovesHead ==
  ASSUME NEW S, NEW q \in Seq(S), q # <<>>, NoRepeats(q)
  PROVE  /\ NoRepeats(Tail(q))
         /\ \A s : Occurs(s, Tail(q)) <=> Occurs(s, q) /\ s # Head(q)
         /\ Occurs(Head(q), q)
  <1>1. /\ Len(Tail(q)) = Len(q) - 1
        /\ Len(q) \in Nat \ {0}
        /\ Head(q) = q[1]
        /\ \A i \in 1..Len(Tail(q)) : Tail(q)[i] = q[i + 1]
    BY TailProperties
  <1>2. NoRepeats(Tail(q))
    BY <1>1 DEF NoRepeats
  <1>3. ASSUME NEW s, Occurs(s, Tail(q))
        PROVE  Occurs(s, q) /\ s # Head(q)
    <2>1. PICK i \in 1..Len(Tail(q)) : q[i + 1] = s
      BY <1>1, <1>3 DEF Occurs
    <2>2. i + 1 \in 1..Len(q) /\ i + 1 # 1
      BY <1>1, <2>1
    <2> QED
      BY <1>1, <2>1, <2>2 DEF NoRepeats, Occurs
  <1>4. ASSUME NEW s, Occurs(s, q), s # Head(q)
        PROVE  Occurs(s, Tail(q))
    <2>1. PICK i \in 1..Len(q) : q[i] = s
      BY <1>4 DEF Occurs
    <2>2. i - 1 \in 1..Len(Tail(q)) /\ (i - 1) + 1 = i
      BY <1>1, <1>4, <2>1
    <2> QED
      BY <1>1, <2>1, <2>2 DEF Occurs
  <1> QED
    BY <1>1, <1>2, <1>3, <1>4 DEF Occurs

\* Appending an element the queue does not hold keeps it free of repeats.
LEMMA AppendAddsElement ==
  ASSUME NEW S, NEW q \in Seq(S), NEW e \in S, NoRepeats(q), ~Occurs(e, q)
  PROVE  /\ NoRepeats(Append(q, e))
         /\ \A s : Occurs(s, Append(q, e)) <=> Occurs(s, q) \/ s = e
  <1>1. /\ Len(Append(q, e)) = Len(q) + 1
        /\ \A i \in 1..Len(q) : Append(q, e)[i] = q[i]
        /\ Append(q, e)[Len(q) + 1] = e
        /\ Len(q) \in Nat
    BY AppendElements
  <1>2. NoRepeats(Append(q, e))
    BY <1>1 DEF NoRepeats, Occurs
  <1>3. \A s : Occurs(s, Append(q, e)) <=> Occurs(s, q) \/ s = e
    BY <1>1 DEF Occurs
  <1> QED
    BY <1>2, <1>3

\* The stack of a new ring holds every slot once.
LEMMA AllFreeHoldsEverySlot ==
  /\ AllFree \in Seq(Slots)
  /\ NoRepeats(AllFree)
  /\ \A s \in Slots : Occurs(s, AllFree)
  <1>1. NumSlots \in Nat
    BY NumSlotsAssumption
  <1>2. AllFree \in [1..NumSlots -> Slots]
    BY <1>1 DEF AllFree, Slots
  <1>3. AllFree \in Seq(Slots) /\ Len(AllFree) = NumSlots
    BY <1>1, <1>2
  <1>4. NoRepeats(AllFree)
    BY <1>1, <1>3 DEF AllFree, NoRepeats, Slots
  <1>5. ASSUME NEW s \in Slots
        PROVE  Occurs(s, AllFree)
    <2>1. NumSlots + 1 - s \in Slots
      BY <1>1 DEF Slots
    <2>2. AllFree[NumSlots + 1 - s] = s
      BY <1>1, <2>1 DEF AllFree, Slots
    <2> QED
      BY <1>3, <2>1, <2>2 DEF Occurs, Slots
  <1> QED
    BY <1>3, <1>4, <1>5

-------------------------------------------------------------------------------
\* A newly constructed ring: every slot is free, no client holds one.
THEOREM InitIInv == Init => IInv
  <1> SUFFICES ASSUME Init PROVE IInv
    OBVIOUS
  <1>1. NumSlots \in Nat \ {0} /\ StallTicks \in Nat \ {0}
    BY NumSlotsAssumption, StallTicksAssumption
  <1>2. TypeOK
    <2>1. freeSlots \in Seq(Slots) /\ committedSlots \in Seq(Slots)
      BY AllFreeHoldsEverySlot, EmptySeq DEF Init
    <2>2. /\ slotInUse \in [Slots -> BOOLEAN]
          /\ content \in [Slots -> Nat]
          /\ holder \in [Slots -> Holders]
          /\ waited \in [Sides -> Nat]
          /\ starved \in [Sides -> Nat]
      BY DEF Init, Holders
    <2> QED
      BY <2>1, <2>2 DEF Init, TypeOK
  <1>3. SlotOwnership
    BY AllFreeHoldsEverySlot DEF Init, SlotOwnership, NoRepeats, Occurs
  <1>4. CommitOrder
    BY DEF Init, CommitOrder
  <1> QED
    BY <1>2, <1>3, <1>4 DEF IInv

\* acquireWriteSlot() moves the top of the free stack to the producer.
LEMMA AcquireWriteSlotPreserves ==
  ASSUME IInv, AcquireWriteSlot
  PROVE  IInv'
  <1> USE DEF IInv
  <1>1. /\ Top(freeSlots) \in Slots
        /\ Pop(freeSlots) \in Seq(Slots)
    BY PopProperties DEF AcquireWriteSlot, TypeOK
  <1>2. /\ NoRepeats(Pop(freeSlots))
        /\ \A s : Occurs(s, Pop(freeSlots))
                    <=> Occurs(s, freeSlots) /\ s # Top(freeSlots)
    BY PopRemovesTop DEF AcquireWriteSlot, TypeOK, SlotOwnership
  <1>3. Occurs(Top(freeSlots), freeSlots)
    BY PopProperties DEF AcquireWriteSlot, TypeOK, Occurs, Top
  <1>4. TypeOK'
    BY <1>1 DEF AcquireWriteSlot, TypeOK, Served, Sides, Holders, flagVars
  <1>5. SlotOwnership'
    BY <1>1, <1>2, <1>3
       DEF AcquireWriteSlot, TypeOK, SlotOwnership, flagVars
  <1>6. CommitOrder'
    BY DEF AcquireWriteSlot, CommitOrder
  <1> QED
    BY <1>4, <1>5, <1>6

\* acquireReadSlot() moves the oldest committed slot to the consumer.
LEMMA AcquireReadSlotPreserves ==
  ASSUME IInv, AcquireReadSlot
  PROVE  IInv'
  <1> USE DEF IInv
  <1>1. committedSlots \in Seq(Slots) /\ committedSlots # <<>>
    BY DEF AcquireReadSlot, TypeOK, SlotOwnership
  <1>2. /\ Head(committedSlots) \in Slots
        /\ Head(committedSlots) = committedSlots[1]
        /\ Tail(committedSlots) \in Seq(Slots)
        /\ Len(Tail(committedSlots)) = Len(committedSlots) - 1
        /\ \A i \in 1..Len(Tail(committedSlots)) :
             Tail(committedSlots)[i] = committedSlots[i + 1]
        /\ Len(committedSlots) \in Nat \ {0}
    BY <1>1, TailProperties
  <1>3. /\ NoRepeats(Tail(committedSlots))
        /\ \A s : Occurs(s, Tail(committedSlots))
                    <=> Occurs(s, committedSlots) /\ s # Head(committedSlots)
        /\ Occurs(Head(committedSlots), committedSlots)
    BY <1>1, TailRemovesHead DEF SlotOwnership
  <1>4. committedCount' = Len(committedSlots') /\ committedCount' \in Nat
    BY <1>2 DEF AcquireReadSlot, SlotOwnership
  <1>5. TypeOK'
    BY <1>2, <1>4
       DEF AcquireReadSlot, TypeOK, Served, Sides, Holders, flagVars
  <1>6. SlotOwnership'
    BY <1>2, <1>3, <1>4 DEF AcquireReadSlot, TypeOK, SlotOwnership, flagVars
  <1>7. CommitOrder'
    <2> SUFFICES ASSUME NEW i \in 1..Len(committedSlots')
                 PROVE  content'[committedSlots'[i]] = delivered' + i
      BY DEF CommitOrder
    <2>1. /\ content' = content
          /\ committedSlots' = Tail(committedSlots)
          /\ delivered' = content[Head(committedSlots)]
      BY DEF AcquireReadSlot
    <2>2. delivered' = delivered + 1
      BY <1>2, <2>1 DEF CommitOrder
    <2>3. i + 1 \in 1..Len(committedSlots) /\ committedSlots'[i] = committedSlots[i + 1]
      BY <1>2, <2>1
    <2>4. content[committedSlots[i + 1]] = delivered + (i + 1)
      BY <2>3 DEF CommitOrder
    <2> QED
      BY <2>1, <2>2, <2>3, <2>4 DEF TypeOK
  <1> QED
    BY <1>5, <1>6, <1>7

\* commitWriteSlot() queues a slot the producer holds, and nothing else.
LEMMA CommitPreserves ==
  ASSUME IInv, NEW s \in Slots, Commit(s)
  PROVE  IInv'
  <1> USE DEF IInv
  <1>1. /\ committedSlots \in Seq(Slots)
        /\ holder[s] = "writer"
        /\ ~Occurs(s, committedSlots)
        /\ NoRepeats(committedSlots)
    BY DEF Commit, CommitWriteSlot, TypeOK, SlotOwnership
  <1>2. /\ committedSlots' \in Seq(Slots)
        /\ Len(committedSlots') = Len(committedSlots) + 1
        /\ \A i \in 1..Len(committedSlots) : committedSlots'[i] = committedSlots[i]
        /\ committedSlots'[Len(committedSlots) + 1] = s
        /\ Len(committedSlots) \in Nat
    BY <1>1, AppendElements DEF Commit, CommitWriteSlot
  <1>3. /\ NoRepeats(committedSlots')
        /\ \A t : Occurs(t, committedSlots') <=> Occurs(t, committedSlots) \/ t = s
    BY <1>1, AppendAddsElement DEF Commit, CommitWriteSlot
  <1>4. committedCount' = Len(committedSlots') /\ committedCount' \in Nat
    BY <1>2 DEF Commit, CommitWriteSlot, SlotOwnership
  <1>5. NextBlock \in Nat
    BY <1>2 DEF NextBlock, TypeOK
  <1>6. TypeOK'
    BY <1>2, <1>4, <1>5
       DEF Commit, CommitWriteSlot, TypeOK, Holders, flagVars, waitVars
  <1>7. SlotOwnership'
    BY <1>1, <1>2, <1>3, <1>4
       DEF Commit, CommitWriteSlot, TypeOK, SlotOwnership, flagVars
  <1>8. CommitOrder'
    <2> SUFFICES ASSUME NEW i \in 1..Len(committedSlots')
                 PROVE  content'[committedSlots'[i]] = delivered' + i
      BY DEF CommitOrder
    <2>1. /\ content' = [content EXCEPT ![s] = NextBlock]
          /\ delivered' = delivered
      BY DEF Commit, CommitWriteSlot
    <2>2. CASE i = Len(committedSlots) + 1
      BY <1>2, <2>1, <2>2 DEF NextBlock, TypeOK
    <2>3. CASE i \in 1..Len(committedSlots)
      <3>1. committedSlots[i] # s /\ committedSlots[i] \in Slots
        BY <1>1, <2>3 DEF Occurs
      <3> QED
        BY <1>2, <2>1, <2>3, <3>1 DEF CommitOrder, TypeOK
    <2> QED
      BY <1>2, <2>2, <2>3
  <1> QED
    BY <1>6, <1>7, <1>8

\* releaseReadSlot() frees a slot once, however often it is called for it.
LEMMA ReleasePreserves ==
  ASSUME IInv, NEW s \in Slots, Release(s)
  PROVE  IInv'
  <1> USE DEF IInv
  <1>1. ~Occurs(s, committedSlots)
    BY DEF Release, SlotOwnership
  <1>2. CommitOrder'
    <2> SUFFICES ASSUME NEW i \in 1..Len(committedSlots')
                 PROVE  content'[committedSlots'[i]] = delivered' + i
      BY DEF CommitOrder
    <2>1. /\ committedSlots' = committedSlots
          /\ delivered' = delivered
          /\ content' = [content EXCEPT ![s] = 0]
      BY DEF Release, ReleaseReadSlot
    <2>2. committedSlots[i] # s /\ committedSlots[i] \in Slots
      BY <1>1, <2>1 DEF Occurs, TypeOK
    <2> QED
      BY <2>1, <2>2 DEF CommitOrder, TypeOK
  <1>3. CASE slotInUse[s]
    <2>1. freeSlots \in Seq(Slots) /\ NoRepeats(freeSlots) /\ ~Occurs(s, freeSlots)
      BY <1>3 DEF TypeOK, SlotOwnership
    <2>2. /\ freeSlots' \in Seq(Slots)
          /\ NoRepeats(freeSlots')
          /\ \A t : Occurs(t, freeSlots') <=> Occurs(t, freeSlots) \/ t = s
      <3>1. freeSlots' = Append(freeSlots, s)
        BY <1>3 DEF Release, ReleaseReadSlot
      <3>2. freeSlots' \in Seq(Slots)
        BY <2>1, <3>1, AppendElements
      <3> QED
        BY <2>1, <3>1, <3>2, AppendAddsElement
    <2>3. TypeOK'
      BY <1>3, <2>2
         DEF Release, ReleaseReadSlot, TypeOK, Holders, flagVars, waitVars
    <2>4. SlotOwnership'
      BY <1>1, <1>3, <2>2
         DEF Release, ReleaseReadSlot, TypeOK, SlotOwnership, flagVars
    <2> QED
      BY <1>2, <2>3, <2>4
  <1>4. CASE ~slotInUse[s]
    <2>1. TypeOK'
      BY <1>4 DEF Release, ReleaseReadSlot, TypeOK, flagVars, waitVars
    <2>2. SlotOwnership'
      BY <1>4 DEF Release, ReleaseReadSlot, TypeOK, SlotOwnership, flagVars
    <2> QED
      BY <1>2, <2>1, <2>2
  <1> QED
    BY <1>3, <1>4

\* reset() rebuilds the state the constructor leaves.
LEMMA ResetPreserves ==
  ASSUME IInv, Reset
  PROVE  IInv'
  <1>1. TypeOK'
    <2>1. freeSlots' \in Seq(Slots) /\ committedSlots' \in Seq(Slots)
      BY AllFreeHoldsEverySlot, EmptySeq DEF Reset
    <2>2. /\ slotInUse' \in [Slots -> BOOLEAN]
          /\ content' \in [Slots -> Nat]
          /\ holder' \in [Slots -> Holders]
          /\ waited' \in [Sides -> Nat]
          /\ starved' \in [Sides -> Nat]
      BY DEF Reset, Holders
    <2> QED
      BY <2>1, <2>2 DEF Reset, TypeOK
  <1>2. SlotOwnership'
    BY AllFreeHoldsEverySlot DEF Reset, SlotOwnership, NoRepeats, Occurs
  <1>3. CommitOrder'
    BY DEF Reset, CommitOrder
  <1> QED
    BY <1>1, <1>2, <1>3 DEF IInv

\* A wait that expires gives up its slot request, and may cancel the ring.
LEMMA WaitExpiresPreserves ==
  ASSUME IInv, NEW side \in Sides, WaitExpires(side)
  PROVE  IInv'
  <1>1. StallTicks \in Nat
    BY StallTicksAssumption
  <1>2. TypeOK'
    BY SMTT(30), <1>1 DEF IInv, WaitExpires, TypeOK, slotVars, Sides
  <1>3. SlotOwnership'
    BY DEF IInv, WaitExpires, SlotOwnership, slotVars
  <1>4. CommitOrder'
    BY DEF IInv, WaitExpires, CommitOrder, slotVars
  <1> QED
    BY <1>2, <1>3, <1>4 DEF IInv

\* The flags and the waits play no part in who owns a slot.
LEMMA FlagsPreserve ==
  ASSUME IInv, ProducerDone \/ Cancel \/ UNCHANGED ringVars
  PROVE  IInv'
  <1>1. TypeOK'
    <2>1. CASE ProducerDone
      BY <2>1 DEF IInv, TypeOK, ProducerDone, slotVars, waitVars
    <2>2. CASE Cancel
      BY <2>2 DEF IInv, TypeOK, Cancel, slotVars
    <2>3. CASE UNCHANGED ringVars
      BY <2>3 DEF IInv, TypeOK, ringVars, slotVars, flagVars, waitVars
    <2> QED
      BY <2>1, <2>2, <2>3
  <1>2. UNCHANGED slotVars
    BY DEF ProducerDone, Cancel, ringVars
  <1>3. SlotOwnership' /\ CommitOrder'
    BY <1>2 DEF IInv, SlotOwnership, CommitOrder, slotVars
  <1> QED
    BY <1>1, <1>3 DEF IInv

\* Every step of either client, of the clock or of a canceller keeps the
\* invariant.
THEOREM NextIInv == IInv /\ [Next]_ringVars => IInv'
  <1> SUFFICES ASSUME IInv, [Next]_ringVars PROVE IInv'
    OBVIOUS
  <1>1. CASE AcquireWriteSlot
    BY <1>1, AcquireWriteSlotPreserves
  <1>2. CASE ProducerWaitExpires
    BY <1>2, WaitExpiresPreserves DEF ProducerWaitExpires, Sides
  <1>3. CASE ConsumerWaitExpires
    BY <1>3, WaitExpiresPreserves DEF ConsumerWaitExpires, Sides
  <1>4. CASE AcquireReadSlot
    BY <1>4, AcquireReadSlotPreserves
  <1>5. CASE ProducerDone \/ Cancel \/ UNCHANGED ringVars
    BY <1>5, FlagsPreserve
  <1>6. CASE Reset
    BY <1>6, ResetPreserves
  <1>7. ASSUME NEW s \in Slots, Commit(s) \/ Release(s)
        PROVE  IInv'
    BY <1>7, CommitPreserves, ReleasePreserves
  <1> QED
    BY <1>1, <1>2, <1>3, <1>4, <1>5, <1>6, <1>7 DEF Next

\* The invariant holds in every reachable state, for every number of slots.
THEOREM Invariance == Spec => []IInv
  <1> QED
    BY InitIInv, NextIInv, PTL DEF Spec

(***************************************************************************)
(* Every field keeps its type, for every number of slots.                  *)
(***************************************************************************)
THEOREM TypeCorrect == Spec => []TypeOK
  <1>1. IInv => TypeOK
    BY DEF IInv
  <1> QED
    BY <1>1, Invariance, PTL

(***************************************************************************)
(* No slot is ever free and in use, or with two clients, whatever order    *)
(* the slots come back in and however often one is released.               *)
(***************************************************************************)
THEOREM SlotOwnershipHolds == Spec => []SlotOwnership
  <1>1. IInv => SlotOwnership
    BY DEF IInv
  <1> QED
    BY <1>1, Invariance, PTL

(***************************************************************************)
(* The consumer is given the blocks in the order they were committed, each *)
(* with the content it was committed with.                                 *)
(***************************************************************************)
THEOREM CommitOrderHolds == Spec => []CommitOrder
  <1>1. IInv => CommitOrder
    BY DEF IInv
  <1> QED
    BY <1>1, Invariance, PTL

-------------------------------------------------------------------------------
(* The ring implements the bounded channel: each step maps to a step of    *)
(* BlockChannel or changes nothing in it.                                  *)

InTransit == [i \in 1..Len(committedSlots) |-> content[committedSlots[i]]]

\* The blocks under way are the ones after the last delivered one.
LEMMA InTransitIsConsecutive ==
  ASSUME IInv
  PROVE  /\ InTransit \in Seq(Nat)
         /\ Len(InTransit) = Len(committedSlots)
         /\ Len(InTransit) \in Nat
         /\ \A i \in 1..Len(InTransit) : InTransit[i] = delivered + i
         /\ delivered \in Nat
  <1>1. /\ Len(committedSlots) \in Nat
        /\ \A i \in 1..Len(committedSlots) : content[committedSlots[i]] \in Nat
        /\ delivered \in Nat
    BY DEF IInv, TypeOK
  <1>2. InTransit \in Seq(Nat) /\ Len(InTransit) = Len(committedSlots)
    BY <1>1 DEF InTransit
  <1>3. \A i \in 1..Len(committedSlots) : content[committedSlots[i]] = delivered + i
    BY DEF IInv, CommitOrder
  <1> QED
    BY <1>1, <1>2, <1>3 DEF InTransit

\* A slot that is not queued leaves room in the queue.
LEMMA QueueHasRoom ==
  ASSUME IInv, NEW s \in Slots, ~Occurs(s, committedSlots)
  PROVE  Len(committedSlots) < NumSlots
  <1> DEFINE n == Len(committedSlots)
             rest == Slots \ {s}
  <1>1. NumSlots \in Nat \ {0}
    BY NumSlotsAssumption
  <1>2. n \in Nat /\ committedSlots \in [1..n -> Slots]
    BY DEF IInv, TypeOK
  <1>3. IsFiniteSet(Slots) /\ Cardinality(Slots) = NumSlots
    BY <1>1, FS_Interval DEF Slots
  <1>4. IsFiniteSet(rest) /\ Cardinality(rest) = NumSlots - 1
    BY <1>3, FS_RemoveElement
  <1>5. IsFiniteSet(1..n) /\ Cardinality(1..n) = n
    BY SMTT(30), <1>2, FS_Interval
  <1>6. committedSlots \in [1..n -> rest]
    BY <1>2 DEF Occurs
  <1>7. \A i, j \in 1..n : i # j => committedSlots[i] # committedSlots[j]
    BY DEF IInv, SlotOwnership, NoRepeats
  <1> HIDE DEF n, rest
  <1>8. ~(Cardinality(rest) < Cardinality(1..n))
    BY <1>4, <1>5, <1>6, <1>7, FS_PigeonHole
  <1>9. n <= NumSlots - 1
    BY <1>1, <1>2, <1>4, <1>5, <1>8
  <1> QED
    BY <1>1, <1>2, <1>9 DEF n

\* commitWriteSlot() is the channel's Send.
LEMMA CommitSends ==
  ASSUME IInv, NEW s \in Slots, Commit(s)
  PROVE  Channel!Send
  <1>1. /\ InTransit \in Seq(Nat)
        /\ Len(InTransit) = Len(committedSlots)
        /\ Len(InTransit) \in Nat
        /\ \A i \in 1..Len(InTransit) : InTransit[i] = delivered + i
        /\ delivered \in Nat
    BY InTransitIsConsecutive
  <1>2. ~Occurs(s, committedSlots) /\ committedSlots \in Seq(Slots)
    BY DEF Commit, CommitWriteSlot, IInv, SlotOwnership, TypeOK
  <1>3. Len(InTransit) < NumSlots
    BY <1>1, <1>2, QueueHasRoom
  <1>4. /\ Len(committedSlots') = Len(committedSlots) + 1
        /\ \A i \in 1..Len(committedSlots) : committedSlots'[i] = committedSlots[i]
        /\ committedSlots'[Len(committedSlots) + 1] = s
    BY <1>2, AppendElements DEF Commit, CommitWriteSlot
  <1>5. /\ content' = [content EXCEPT ![s] = NextBlock]
        /\ content \in [Slots -> Nat]
        /\ NextBlock = delivered + Len(committedSlots) + 1
    BY DEF Commit, CommitWriteSlot, IInv, TypeOK, NextBlock
  <1>6. InTransit' = Append(InTransit, NextBlock)
    <2>1. InTransit' = [i \in 1..(Len(committedSlots) + 1) |-> content'[committedSlots'[i]]]
      BY <1>4 DEF InTransit
    <2>2. \A i \in 1..Len(committedSlots) : content'[committedSlots'[i]] = InTransit[i]
      BY <1>1, <1>2, <1>4, <1>5 DEF InTransit, Occurs
    <2>3. content'[committedSlots'[Len(committedSlots) + 1]] = NextBlock
      BY <1>4, <1>5
    <2>4. NextBlock \in Nat
      BY <1>1, <1>5
    <2>5. /\ Append(InTransit, NextBlock) \in Seq(Nat)
          /\ Len(Append(InTransit, NextBlock)) = Len(InTransit) + 1
          /\ \A i \in 1..Len(InTransit) : Append(InTransit, NextBlock)[i] = InTransit[i]
          /\ Append(InTransit, NextBlock)[Len(InTransit) + 1] = NextBlock
      BY <1>1, <2>4, AppendElements
    <2>6. /\ InTransit' \in Seq(Nat)
          /\ Len(InTransit') = Len(InTransit) + 1
          /\ \A i \in 1..Len(InTransit) : InTransit'[i] = InTransit[i]
          /\ InTransit'[Len(InTransit) + 1] = NextBlock
      <3>1. \A i \in 1..(Len(committedSlots) + 1) :
              content'[committedSlots'[i]] \in Nat
        BY <1>1, <2>2, <2>3, <2>4
      <3> QED
        BY <1>1, <2>1, <2>2, <2>3, <3>1
    <2> QED
      BY <1>1, <2>5, <2>6, SeqEqual
  <1>7. Channel!NextNumber = NextBlock
    <2>1. CASE InTransit = <<>>
      BY <1>1, <1>5, <2>1 DEF Channel!NextNumber, InTransit
    <2>2. CASE InTransit # <<>>
      <3>1. Len(InTransit) \in 1..Len(InTransit)
        BY <1>1, <2>2
      <3>2. InTransit[Len(InTransit)] + 1 = NextBlock
        BY <1>1, <1>5, <3>1
      <3> QED
        BY <2>2, <3>2 DEF Channel!NextNumber, InTransit
    <2> QED
      BY <2>1, <2>2
  <1>8. delivered' = delivered /\ Stopped' = Stopped
    BY DEF Commit, CommitWriteSlot, flagVars, Stopped
  <1> QED
    BY <1>3, <1>6, <1>7, <1>8 DEF Channel!Send, InTransit

\* acquireReadSlot() is the channel's Receive.
LEMMA AcquireReadSlotReceives ==
  ASSUME IInv, AcquireReadSlot
  PROVE  Channel!Receive
  <1>1. committedSlots \in Seq(Slots) /\ committedSlots # <<>>
    BY DEF AcquireReadSlot, IInv, TypeOK, SlotOwnership
  <1>2. /\ Head(committedSlots) = committedSlots[1]
        /\ Len(Tail(committedSlots)) = Len(committedSlots) - 1
        /\ \A i \in 1..Len(Tail(committedSlots)) :
             Tail(committedSlots)[i] = committedSlots[i + 1]
        /\ Len(committedSlots) \in Nat \ {0}
    BY <1>1, TailProperties
  <1>3. InTransit \in Seq(Nat) /\ Len(InTransit) = Len(committedSlots)
    BY InTransitIsConsecutive
  <1>4. InTransit # <<>> /\ delivered' = Head(InTransit)
    BY <1>2, <1>3 DEF AcquireReadSlot, InTransit
  <1>5. InTransit' = Tail(InTransit)
    <2>1. InTransit' = [i \in 1..(Len(committedSlots) - 1) |->
                          content[committedSlots[i + 1]]]
      BY <1>2 DEF AcquireReadSlot, InTransit
    <2>2. \A i \in 1..(Len(committedSlots) - 1) :
            /\ i + 1 \in 1..Len(committedSlots)
            /\ content[committedSlots[i + 1]] = InTransit[i + 1]
            /\ InTransit[i + 1] \in Nat
      BY <1>2, <1>3 DEF InTransit
    <2>3. /\ InTransit' \in Seq(Nat)
          /\ Len(InTransit') = Len(InTransit) - 1
          /\ \A i \in 1..(Len(InTransit) - 1) : InTransit'[i] = InTransit[i + 1]
      BY <1>2, <1>3, <2>1, <2>2
    <2>4. /\ Tail(InTransit) \in Seq(Nat)
          /\ Len(Tail(InTransit)) = Len(InTransit) - 1
          /\ \A i \in 1..(Len(InTransit) - 1) : Tail(InTransit)[i] = InTransit[i + 1]
      BY <1>3, <1>4, TailProperties
    <2> QED
      BY <2>3, <2>4, SeqEqual
  <1>6. Stopped' = Stopped /\ ~Stopped
    BY DEF AcquireReadSlot, flagVars, Stopped
  <1> QED
    BY <1>4, <1>5, <1>6 DEF Channel!Receive, InTransit

\* The channel does not see a slot being released.
LEMMA ReleaseIsInvisible ==
  ASSUME IInv, NEW s \in Slots, Release(s)
  PROVE  UNCHANGED Channel!vars
  <1>1. /\ committedSlots' = committedSlots
        /\ content' = [content EXCEPT ![s] = 0]
        /\ \A i \in 1..Len(committedSlots) : committedSlots[i] # s
        /\ \A i \in 1..Len(committedSlots) : committedSlots[i] \in Slots
        /\ content \in [Slots -> Nat]
    BY DEF Release, ReleaseReadSlot, IInv, TypeOK, SlotOwnership, Occurs
  <1>2. InTransit' = InTransit
    BY <1>1 DEF InTransit
  <1>3. delivered' = delivered /\ Stopped' = Stopped
    BY DEF Release, ReleaseReadSlot, flagVars, Stopped
  <1> QED
    BY <1>2, <1>3 DEF Channel!vars, InTransit

\* Steps that leave the slots alone abort the channel or are not seen by it.
LEMMA SlotsUntouchedIsAbortOrInvisible ==
  ASSUME IInv, UNCHANGED slotVars, Stopped => Stopped', 
         Stopped \in BOOLEAN, Stopped' \in BOOLEAN
  PROVE  Channel!Abort \/ UNCHANGED Channel!vars
  <1>1. InTransit' = InTransit /\ delivered' = delivered
    BY DEF slotVars, InTransit
  <1> QED
    BY <1>1 DEF Channel!Abort, Channel!vars, InTransit

\* Every step of the ring maps to a step of the channel or to a stutter.
THEOREM StepRefines ==
  IInv /\ [Next]_ringVars => [Channel!Next]_(Channel!vars)
  <1> SUFFICES ASSUME IInv, [Next]_ringVars
               PROVE  Channel!Next \/ UNCHANGED Channel!vars
    OBVIOUS
  <1> USE DEF Channel!Next
  <1>1. CASE AcquireWriteSlot
    <2>1. InTransit' = InTransit /\ delivered' = delivered /\ Stopped' = Stopped
      BY <1>1 DEF AcquireWriteSlot, InTransit, flagVars, Stopped
    <2> QED
      BY <2>1 DEF Channel!vars, InTransit
  <1>2. CASE ProducerWaitExpires \/ ConsumerWaitExpires \/ ProducerDone \/ Cancel
    <2>1. UNCHANGED slotVars /\ (Stopped => Stopped')
      BY <1>2 DEF ProducerWaitExpires, ConsumerWaitExpires, WaitExpires,
                  ProducerDone, Cancel, Stopped
    <2>2. Stopped \in BOOLEAN /\ Stopped' \in BOOLEAN
      BY DEF Stopped
    <2> QED
      BY <2>1, <2>2, SlotsUntouchedIsAbortOrInvisible
  <1>3. CASE AcquireReadSlot
    BY <1>3, AcquireReadSlotReceives
  <1>4. CASE Reset
    <2>1. InTransit' = <<>> /\ delivered' = 0 /\ Stopped' = FALSE
      BY <1>4 DEF Reset, InTransit, Stopped
    <2> QED
      BY <2>1 DEF Channel!Reuse, InTransit
  <1>5. ASSUME NEW s \in Slots, Commit(s) \/ Release(s)
        PROVE  Channel!Next \/ UNCHANGED Channel!vars
    BY <1>5, CommitSends, ReleaseIsInvisible
  <1>6. CASE UNCHANGED ringVars
    <2>1. UNCHANGED slotVars /\ Stopped' = Stopped
      BY <1>6 DEF ringVars, flagVars, Stopped
    <2>2. Stopped \in BOOLEAN /\ Stopped' \in BOOLEAN
      BY DEF Stopped
    <2> QED
      BY <2>1, <2>2, SlotsUntouchedIsAbortOrInvisible
  <1> QED
    BY <1>1, <1>2, <1>3, <1>4, <1>5, <1>6 DEF Next

(***************************************************************************)
(* For every number of slots the ring behaves as a bounded first-in        *)
(* first-out channel: no block is lost, duplicated, reordered or damaged   *)
(* between commitWriteSlot() and acquireReadSlot().                        *)
(***************************************************************************)
THEOREM RingImplementsChannel == Spec => ChannelSpec
  <1>1. Init => Channel!Init
    <2> SUFFICES ASSUME Init PROVE Channel!Init
      OBVIOUS
    <2>1. InTransit = <<>> /\ delivered = 0 /\ Stopped = FALSE
      BY DEF Init, InTransit, Stopped
    <2> QED
      BY <2>1 DEF Channel!Init, InTransit
  <1> QED
    BY <1>1, StepRefines, Invariance, PTL DEF Spec, ChannelSpec, Channel!Spec

===============================================================================
