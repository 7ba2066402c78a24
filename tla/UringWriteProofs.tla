--------------------------- MODULE UringWriteProofs ---------------------------
(***************************************************************************)
(* The write path through io_uring, for every ring, image, queue depth and *)
(* watchdog: slots are neither lost nor refilled while the kernel reads    *)
(* them, and what is announced as written is on the device.                *)
(*                                                                         *)
(* The two settings in which the code does not promise this are            *)
(* hypotheses: FlushNeverStalls and StallIsFirstFailure below.  TLC shows  *)
(* what happens without them (MCUringFlush.cfg, MCUringLostError.cfg).     *)
(***************************************************************************)
EXTENDS UringWrite, TLAPS

\* A five-minute stall is not met in the flush of a periodic sync.
FlushNeverStalls == ~(Emergency /\ PeriodicSyncs)

\* A device whose kernel stalls has not failed a write before.
StallIsFirstFailure == ~(Emergency /\ IOErrors)

Filling == pc \in {"write", "submit"}

\* The cursor and the write ids never run ahead of the blocks decompressed.
Bounds ==
  /\ held # NoSlot <=> Filling
  /\ cursor <= next /\ nextWriteId <= next
  /\ Filling => cursor < next /\ nextWriteId < next
  /\ \A w \in pending : w.offset < cursor

TypeInv == TypeOK /\ Bounds

\* TypeOK in two parts: the provers that know of sets and numbers are at a loss
\* with Boolean variables.
FlagsOK == {firstError, fileCancelled, syncFallback, cancelled} \subseteq BOOLEAN

ValuesOK ==
  /\ pc \in {"acquire", "write", "submit", "failed", "flush", "drain",
             "errorDrain", "done"}
  /\ held \in Slots \cup {NoSlot}
  /\ next \in 1..(NumBlocks + 1)
  /\ free \subseteq Slots
  /\ content \in [Slots -> 0..NumBlocks]
  /\ cursor \in 1..(NumBlocks + 1)
  /\ nextWriteId \in 1..(NumBlocks + 1)
  /\ pending \subseteq Request
  /\ depth \in Nat \ {0, 1}
  /\ inFlight \subseteq Request
  /\ cancelling \subseteq Nat
  /\ completed \subseteq [id : Nat, result : {"ok", "error", "canceled"}]
  /\ device \in [Blocks -> 0..NumBlocks]
  /\ hotSwap \in {"no", "draining", "done", "abandoned"}
  /\ sinceProgress \in 0..Patience
  /\ outcome \in {"running", "written", "failed", "cancelled"}
  /\ scenario \in Scenarios

\* A write is known by its id, from the submission to the completion.
IdsKept ==
  /\ \A w \in pending \cup inFlight : w.id < nextWriteId
  /\ \A v, w \in pending \cup inFlight : v.id = w.id => v = w
  /\ \A c \in completed : c.id < nextWriteId
  /\ \A c \in completed, w \in inFlight : c.id # w.id

\* What the state of the extract thread says.
PlacesKept ==
  /\ pc = "done" <=> outcome # "running"
  /\ pc = "flush" => PeriodicSyncs
  /\ pc = "drain" /\ ~cancelled => next = NumBlocks + 1

\* Until the end the kernel reads only slots the file still knows of, and
\* every slot given to it holds the block that belongs at the offset.
ContentKept ==
  /\ pc # "done" => inFlight \subseteq pending
  /\ \A w \in pending \cup inFlight : content[w.slot] = w.offset
  /\ Filling => content[held] = next - 1

\* No block is skipped before the user cancels.
CursorKept ==
  /\ pc = "submit" => cursor = next - 1
  /\ pc = "write" /\ ~cancelled => cursor = next - 1
  /\ pc \in {"acquire", "flush", "drain"} /\ ~cancelled => cursor = next

PoolInv == /\ SlotsAccounted
           /\ IdsKept
           /\ PlacesKept
           /\ ContentKept
           /\ CursorKept

\* Writes are cancelled only on the user's behalf, or when all is decided.
CancelKept == /\ cancelling # {} => cancelled \/ pc = "done"
              /\ fileCancelled => cancelled \/ pc = "done"

\* What a completion that has not been reaped stands for.
CompletedKept ==
  \A c \in completed :
    /\ c.result = "ok" => \A w \in pending : w.id = c.id => device[w.offset] = w.offset
    /\ c.result = "canceled" => c.id \in cancelling
    /\ c.result = "error" => IOErrors

\* Every block behind the cursor is on the device or on its way, until an error
\* or a cancellation is noted.
DeviceKept ==
  /\ firstError => IOErrors
  /\ ~cancelled /\ ~firstError /\ pc \notin {"failed", "errorDrain", "done"}
       => \A b \in 1..(cursor - 1) :
            device[b] = b \/ \E w \in pending : w.offset = b

DeviceInv == /\ WrittenMeansOnDevice
             /\ CancelKept
             /\ CompletedKept
             /\ DeviceKept

USE NoSlotAssumption, NumBlocksAssumption, DepthAssumption, PatienceAssumption

\* The writes whose completion ProcessCompletions() finds.
Reaped == {w \in pending : w.id \in Ids(completed)}

-------------------------------------------------------------------------------
(***************************************************************************)
(* The helpers the actions share.                                          *)
(***************************************************************************)
LEMMA HalvedDepthType == depth \in Nat \ {0, 1} => HalvedDepth \in Nat \ {0, 1}
BY SMT DEF HalvedDepth

LEMMA DeviceUpdate ==
  ASSUME NEW disk \in [Blocks -> 0..NumBlocks], NEW b, NEW c \in 0..NumBlocks
  PROVE  [disk EXCEPT ![b] = c] \in [Blocks -> 0..NumBlocks]
BY Zenon

LEMMA PendingIds == pending \subseteq Request => Ids(pending) \subseteq Nat
BY SMT DEF Request, Ids

LEMMA ReapingTypes ==
  ASSUME TypeOK, ProcessCompletions
  PROVE  /\ pending' = pending \ Reaped
         /\ free' = free \cup SlotsOf(Reaped)
         /\ free' \subseteq Slots
         /\ completed' \subseteq completed
         /\ firstError' \in BOOLEAN
         /\ depth' \in Nat \ {0, 1}
         /\ sinceProgress' \in 0..Patience
         /\ UNCHANGED <<content, cursor, nextWriteId, inFlight, device>>
<1>1. pending' = pending \ Reaped /\ free' = free \cup SlotsOf(Reaped)
  BY Zenon DEF ProcessCompletions, Reaped
<1>2. SlotsOf(Reaped) \subseteq Slots
  BY SMT DEF SlotsOf, Reaped, Request, TypeOK
<1>3. depth' = depth \/ depth' = HalvedDepth
  BY Zenon DEF ProcessCompletions
<1>4. depth' \in Nat \ {0, 1}
  BY <1>3, HalvedDepthType DEF TypeOK
<1>5. completed' \subseteq completed
  BY Zenon DEF ProcessCompletions
<1>6. firstError' \in BOOLEAN
  BY Zenon DEF ProcessCompletions
<1>7. sinceProgress' = 0 \/ sinceProgress' = sinceProgress
  BY Zenon DEF ProcessCompletions
<1>8. sinceProgress' \in 0..Patience
  BY <1>7, SMT DEF TypeOK
<1>9. UNCHANGED <<content, cursor, nextWriteId, inFlight, device>>
  BY Zenon DEF ProcessCompletions
<1> QED
  BY <1>1, <1>2, <1>4, <1>5, <1>6, <1>8, <1>9, SMT DEF TypeOK

LEMMA WaitResult ==
  ASSUME NEW ok, Waiting, AfterWait(ok)
  PROVE  /\ pc = "flush" => pc' = "acquire" /\ outcome' = outcome
         /\ pc # "flush" => pc' = "done" /\ outcome' \in {"failed", "cancelled", "written"}
         /\ pc # "flush" /\ outcome' = "written" => pc = "drain" /\ ok /\ ~cancelled
BY SMT DEF Waiting, AfterWait

LEMMA ReplayTypes ==
  ASSUME TypeOK, NEW writes \in SUBSET pending, Replay(writes)
  PROVE  /\ device' \in [Blocks -> 0..NumBlocks]
         /\ free' = free \cup SlotsOf(writes)
         /\ free' \subseteq Slots
         /\ \A b \in Blocks :
              \/ device'[b] = device[b] /\ ~\E w \in writes : w.offset = b
              \/ \E w \in writes : w.offset = b /\ device'[b] = content[w.slot]
<1> DEFINE At(b) == CHOOSE w \in writes : w.offset = b
<1>1. \A b \in Blocks : (\E w \in writes : w.offset = b)
                          => At(b) \in writes /\ At(b).offset = b
  BY Zenon
<1>2. \A w \in writes : w.slot \in Slots /\ content[w.slot] \in 0..NumBlocks
  BY SMT DEF TypeOK, Request
<1>3. device' = [b \in Blocks |-> IF \E w \in writes : w.offset = b
                                  THEN content[At(b).slot] ELSE device[b]]
  BY Zenon DEF Replay
<1> HIDE DEF At
<1>4. \A b \in Blocks :
        \/ device'[b] = device[b] /\ ~\E w \in writes : w.offset = b
        \/ \E w \in writes : w.offset = b /\ device'[b] = content[w.slot]
  BY <1>1, <1>3, Zenon
<1>5. device' \in [Blocks -> 0..NumBlocks]
  BY <1>1, <1>2, <1>3, SMT DEF TypeOK
<1>6. SlotsOf(writes) \subseteq Slots
  BY <1>2, Zenon DEF SlotsOf
<1>7. free' = free \cup SlotsOf(writes)
  BY Zenon DEF Replay
<1> QED
  BY <1>4, <1>5, <1>6, <1>7, SMT DEF TypeOK

-------------------------------------------------------------------------------
(***************************************************************************)
(* Types.                                                                  *)
(***************************************************************************)
LEMMA TypeParts == TypeOK <=> FlagsOK /\ ValuesOK
BY Zenon DEF TypeOK, FlagsOK, ValuesOK

LEMMA TypeInit == Init => TypeInv
<1> SUFFICES ASSUME Init PROVE TypeInv
  OBVIOUS
<1>1. depth \in Nat \ {0, 1}
  BY ScenariosAssumption, SMT DEF Init, InitialDepth
<1>2. scenario \in Scenarios
  BY Zenon DEF Init
<1>3. FlagsOK
  BY Zenon DEF Init, FlagsOK
<1>5. ValuesOK
  BY <1>1, <1>2, SMT DEF Init, ValuesOK, Blocks
<1>4. Bounds
  BY SMT DEF Init, Bounds, Filling
<1> QED
  BY <1>3, <1>4, <1>5, TypeParts, Zenon DEF TypeInv

LEMMA FlagsStep == FlagsOK /\ [Next]_vars => FlagsOK'
<1> SUFFICES ASSUME FlagsOK, [Next]_vars PROVE FlagsOK'
  OBVIOUS
<1> USE DEF FlagsOK, fileVars, mainVars
<1>1. CASE Decompress
  BY <1>1, Zenon DEF Decompress
<1>2. CASE EndOfImage
  BY <1>2, Zenon DEF EndOfImage
<1>3. CASE StopWaitingForSlot
  BY <1>3, Zenon DEF StopWaitingForSlot
<1>4. CASE SkipWrite
  BY <1>4, Zenon DEF SkipWrite
<1>5. CASE WriteSync
  BY <1>5, Zenon DEF WriteSync
<1>6. CASE RefuseAfterError
  BY <1>6, Zenon DEF RefuseAfterError
<1>7. CASE PollBeforeSubmit
  BY <1>7, Zenon DEF PollBeforeSubmit, ProcessCompletions
<1>8. CASE WaitForRoom
  BY <1>8, Zenon DEF WaitForRoom, ProcessCompletions
<1>9. CASE CancelledWhileFull
  BY <1>9, Zenon DEF CancelledWhileFull
<1>10. CASE Submit
  BY <1>10, Zenon DEF Submit
<1>11. CASE SubmitFails
  BY <1>11, Zenon DEF SubmitFails
<1>12. CASE WriteFailed
  BY <1>12, Zenon DEF WriteFailed
<1>13. CASE WaitEnds
  BY <1>13, Zenon DEF WaitEnds
<1>14. CASE WaitReaps
  BY <1>14, Zenon DEF WaitReaps, ProcessCompletions
<1>15. CASE WaitCancelsAgain
  BY <1>15, Zenon DEF WaitCancelsAgain
<1>16. CASE SyncFallbackSucceeds
  BY <1>16, Zenon DEF SyncFallbackSucceeds, ForgetPending
<1>17. CASE SyncFallbackFails
  BY <1>17, Zenon DEF SyncFallbackFails, ForgetPending
<1>18. CASE SyncFallbackFindsNothing
  BY <1>18, Zenon DEF SyncFallbackFindsNothing, ProcessCompletions
<1>19. CASE CancelDownload
  BY <1>19, Zenon DEF CancelDownload
<1>20. CASE CancelAsyncIO
  BY <1>20, Zenon DEF CancelAsyncIO
<1>21. CASE ReduceQueueDepth
  BY <1>21, Zenon DEF ReduceQueueDepth
<1>22. CASE StartDrain
  BY <1>22, Zenon DEF StartDrain
<1>23. CASE DrainEnds
  BY <1>23, Zenon DEF DrainEnds
<1>24. CASE DrainGivesUp
  BY <1>24, Zenon DEF DrainGivesUp
<1>25. CASE \E w \in inFlight : Kernel(w)
  BY <1>25, Zenon DEF Kernel, KernelCompletes
<1>26. CASE UNCHANGED vars
  BY <1>26, Zenon DEF vars, progress
<1> QED
  BY <1>1, <1>2, <1>3, <1>4, <1>5, <1>6, <1>7, <1>8, <1>9, <1>10, <1>11, <1>12,
     <1>13, <1>14, <1>15, <1>16, <1>17, <1>18, <1>19, <1>20, <1>21, <1>22, <1>23,
     <1>24, <1>25, <1>26, Zenon
     DEF Next, Step, ExtractThread, MainThread

LEMMA ValuesStep == TypeInv /\ [Next]_vars => ValuesOK' /\ Bounds'
<1> SUFFICES ASSUME TypeInv, [Next]_vars PROVE ValuesOK' /\ Bounds'
  OBVIOUS
<1>0. ValuesOK /\ Bounds
  BY TypeParts, Zenon DEF TypeInv
<1>a. ProcessCompletions =>
        /\ pending' \subseteq pending /\ completed' \subseteq completed
        /\ free' \subseteq Slots
        /\ depth' \in Nat \ {0, 1}
        /\ sinceProgress' \in 0..Patience
        /\ UNCHANGED <<content, cursor, nextWriteId, inFlight, device>>
  BY ReapingTypes, Zenon DEF TypeInv, Reaped
<1>b. \A writes \in SUBSET pending :
        Replay(writes) => free' \subseteq Slots /\ device' \in [Blocks -> 0..NumBlocks]
  BY ReplayTypes, Zenon DEF TypeInv
<1>w. \A ok : Waiting /\ AfterWait(ok) =>
        /\ pc' \in {"acquire", "done"}
        /\ outcome' \in {"running", "failed", "cancelled", "written"}
  BY <1>0, WaitResult, Zenon DEF ValuesOK
<1>c. Ids(pending) \subseteq Nat
  BY PendingIds DEF TypeInv, TypeOK
<1>d. /\ WaitCancelsAgain \/ CancelAsyncIO => cancelling' = cancelling \cup Ids(pending)
      /\ ForgetPending => cancelling' = cancelling \cup Ids(pending)
  BY Zenon DEF WaitCancelsAgain, CancelAsyncIO, ForgetPending
<1>e. WaitCancelsAgain \/ CancelAsyncIO \/ ForgetPending => cancelling' \subseteq Nat
  BY <1>c, <1>d, Zenon DEF TypeInv, TypeOK
<1> USE <1>0 DEF ValuesOK, Bounds, Filling, Blocks, Request,
            threadVars, poolVars, fileVars, kernelVars, mainVars
<1> scenario' = scenario
  BY SMT DEF Next, vars
<1>1. CASE Decompress
  <2>1. ValuesOK'
    BY <1>1, SMTT(30) DEF Decompress
  <2>2. Bounds'
    BY <1>1, SMTT(30) DEF Decompress
  <2> QED
    BY <2>1, <2>2, Zenon
<1>2. CASE EndOfImage
  BY <1>2, SMT DEF EndOfImage
<1>3. CASE StopWaitingForSlot
  BY <1>3, SMT DEF StopWaitingForSlot
<1>4. CASE SkipWrite
  BY <1>4, SMT DEF SkipWrite, ReleaseHeld
<1>5. CASE WriteSync
  <2>1. content[held] \in 0..NumBlocks /\ cursor \in Blocks
    BY <1>5, SMT DEF WriteSync
  <2>2. device' \in [Blocks -> 0..NumBlocks]
    BY <1>5, <1>0, <2>1, DeviceUpdate, Zenon DEF WriteSync, SyncPosition, ValuesOK
  <2>3. ValuesOK'
    BY <1>5, <2>2, SMTT(30) DEF WriteSync, ReleaseHeld, CountWrite, AfterWrite
  <2>4. Bounds'
    BY <1>5, SMTT(30) DEF WriteSync, ReleaseHeld, CountWrite, AfterWrite
  <2> QED
    BY <2>3, <2>4, Zenon
<1>6. CASE RefuseAfterError
  BY <1>6, SMT DEF RefuseAfterError, ReleaseHeld
<1>7. CASE PollBeforeSubmit
  <2>1. ValuesOK'
    BY <1>7, <1>a, Zenon DEF PollBeforeSubmit
  <2>2. Bounds'
    BY <1>7, <1>a, SMT DEF PollBeforeSubmit
  <2> QED
    BY <2>1, <2>2, Zenon
<1>8. CASE WaitForRoom
  <2>1. /\ pending' \subseteq pending /\ completed' \subseteq completed
        /\ free' \subseteq Slots
        /\ depth' \in Nat \ {0, 1}
        /\ sinceProgress' \in 0..Patience
        /\ UNCHANGED <<content, cursor, nextWriteId, inFlight, device>>
    BY <1>8, <1>a, Zenon DEF WaitForRoom
  <2>2. UNCHANGED <<pc, held, next, cancelling, hotSwap, outcome>>
    BY <1>8, Zenon DEF WaitForRoom
  <2>3. ValuesOK'
    BY <1>0, <2>1, <2>2, Zenon
  <2>4. Bounds'
    BY <2>1, <2>2, SMT
  <2> QED
    BY <2>3, <2>4, Zenon
<1>9. CASE CancelledWhileFull
  BY <1>9, SMT DEF CancelledWhileFull, ReleaseHeld
<1>10. CASE Submit
  <2>1. ValuesOK'
    BY <1>10, SMTT(30) DEF Submit, CountWrite, AfterWrite
  <2>2. Bounds'
    BY <1>10, SMTT(30) DEF Submit, CountWrite, AfterWrite
  <2> QED
    BY <2>1, <2>2, Zenon
<1>11. CASE SubmitFails
  <2>1. ValuesOK'
    BY <1>11, SMT DEF SubmitFails, ReleaseHeld
  <2>2. Bounds'
    BY <1>11, SMT DEF SubmitFails, ReleaseHeld
  <2> QED
    BY <2>1, <2>2, Zenon
<1>12. CASE WriteFailed
  BY <1>12, SMT DEF WriteFailed
<1>13. CASE WaitEnds
  BY <1>13, WaitResult, SMT DEF WaitEnds, Waiting
<1>14. CASE WaitReaps
  <2>1. /\ pending' \subseteq pending /\ completed' \subseteq completed
        /\ free' \subseteq Slots
        /\ depth' \in Nat \ {0, 1}
        /\ sinceProgress' \in 0..Patience
        /\ UNCHANGED <<content, cursor, nextWriteId, inFlight, device>>
    BY <1>14, <1>a, Zenon DEF WaitReaps
  <2>2. UNCHANGED <<pc, held, next, cancelling, hotSwap, outcome>>
    BY <1>14, Zenon DEF WaitReaps
  <2>3. ValuesOK'
    BY <1>0, <2>1, <2>2, Zenon
  <2>4. Bounds'
    BY <2>1, <2>2, SMT
  <2> QED
    BY <2>3, <2>4, Zenon
<1>15. CASE WaitCancelsAgain
  BY <1>15, <1>e, SMT DEF WaitCancelsAgain, Waiting
<1>16. CASE SyncFallbackSucceeds
  <2>1. pc' \in {"acquire", "done"} /\ outcome' \in {"running", "failed", "cancelled", "written"}
    BY <1>16, <1>w, Zenon DEF SyncFallbackSucceeds, Emergencies
  <2>2. free' \subseteq Slots /\ device' \in [Blocks -> 0..NumBlocks]
    BY <1>16, <1>b, Zenon DEF SyncFallbackSucceeds
  <2>3. PICK last \in pending : cursor' = last.offset + 1
    BY <1>16, Zenon DEF SyncFallbackSucceeds
  <2>4. cursor' \in 1..(NumBlocks + 1) /\ cursor' <= cursor
    BY <2>3, SMT
  <2>5. cancelling' \subseteq Nat /\ pending' = {} /\ sinceProgress' = 0
    BY <1>16, <1>e, Zenon DEF SyncFallbackSucceeds, ForgetPending
  <2>6. /\ pc \in {"flush", "drain", "errorDrain"}
        /\ UNCHANGED <<held, next, content, nextWriteId, depth, inFlight, completed, hotSwap>>
    BY <1>16, Zenon DEF SyncFallbackSucceeds, Emergencies, Waiting
  <2>9. 0 \in 0..Patience
    BY SMT
  <2>7. ValuesOK'
    BY <2>1, <2>2, <2>4, <2>5, <2>6, <2>9, <1>0, Zenon
  <2>8. Bounds'
    BY <2>1, <2>2, <2>4, <2>5, <2>6, SMT
  <2> QED
    BY <2>7, <2>8, Zenon
<1>17. CASE SyncFallbackFails
  <2>1. pc' \in {"acquire", "done"} /\ outcome' \in {"running", "failed", "cancelled", "written"}
    BY <1>17, <1>w, Zenon DEF SyncFallbackFails, Emergencies
  <2>2. PICK failed \in pending : Replay({w \in pending : w.offset < failed.offset})
    BY <1>17, Zenon DEF SyncFallbackFails
  <2>3. {w \in pending : w.offset < failed.offset} \in SUBSET pending
    BY Zenon
  <2>4. free' \subseteq Slots /\ device' \in [Blocks -> 0..NumBlocks]
    BY <2>2, <2>3, <1>b, Zenon
  <2>5. cancelling' \subseteq Nat /\ pending' = {} /\ sinceProgress' = 0
    BY <1>17, <1>e, Zenon DEF SyncFallbackFails, ForgetPending
  <2>6. /\ pc \in {"flush", "drain", "errorDrain"}
        /\ UNCHANGED <<held, next, content, cursor, nextWriteId, depth, inFlight,
                       completed, hotSwap>>
    BY <1>17, Zenon DEF SyncFallbackFails, Emergencies, Waiting
  <2>9. 0 \in 0..Patience
    BY SMT
  <2>7. ValuesOK'
    BY <1>0, <2>1, <2>4, <2>5, <2>6, <2>9, Zenon
  <2>8. Bounds'
    BY <2>1, <2>4, <2>5, <2>6, SMTT(30)
  <2> QED
    BY <2>7, <2>8, Zenon
<1>18. CASE SyncFallbackFindsNothing
  <2>0. pc' \in {"acquire", "done"} /\ outcome' \in {"running", "failed", "cancelled", "written"}
    BY <1>18, <1>w, Zenon DEF SyncFallbackFindsNothing, Emergencies
  <2>1. ValuesOK'
    BY <1>0, <1>18, <2>0, <1>a, Zenon DEF SyncFallbackFindsNothing
  <2>2. Bounds'
    BY <1>18, <2>0, <1>a, SMTT(30) DEF SyncFallbackFindsNothing, Emergencies, Waiting
  <2> QED
    BY <2>1, <2>2, Zenon
<1>19. CASE CancelDownload
  BY <1>19, SMT DEF CancelDownload
<1>20. CASE CancelAsyncIO
  BY <1>20, <1>e, SMT DEF CancelAsyncIO
<1>21. CASE ReduceQueueDepth
  BY <1>21, HalvedDepthType, SMT DEF ReduceQueueDepth
<1>22. CASE StartDrain
  BY <1>22, SMT DEF StartDrain
<1>23. CASE DrainEnds
  BY <1>23, SMT DEF DrainEnds
<1>24. CASE DrainGivesUp
  BY <1>24, SMT DEF DrainGivesUp
<1>25. CASE \E w \in inFlight : Kernel(w)
  <2>1. PICK w \in inFlight : Kernel(w)
    BY <1>25, Zenon
  <2>2. PICK result \in {"ok", "error", "canceled"} : KernelCompletes(w, result)
    BY <2>1, Zenon DEF Kernel
  <2>3. w.id \in Nat /\ w.offset \in Blocks /\ content[w.slot] \in 0..NumBlocks
    BY SMT
  <2>4. device' \in [Blocks -> 0..NumBlocks]
    BY <2>2, <2>3, SMT DEF KernelCompletes
  <2>5. completed' \subseteq [id : Nat, result : {"ok", "error", "canceled"}]
    BY <2>2, <2>3, SMT DEF KernelCompletes
  <2> QED
    BY <2>2, <2>4, <2>5, SMT DEF KernelCompletes
<1>26. CASE UNCHANGED vars
  BY <1>26, SMT DEF vars, progress
<1> QED
  BY <1>1, <1>2, <1>3, <1>4, <1>5, <1>6, <1>7, <1>8, <1>9, <1>10, <1>11, <1>12,
     <1>13, <1>14, <1>15, <1>16, <1>17, <1>18, <1>19, <1>20, <1>21, <1>22, <1>23,
     <1>24, <1>25, <1>26, Zenon
     DEF Next, Step, ExtractThread, MainThread

LEMMA TypeStep == TypeInv /\ [Next]_vars => TypeInv'
<1>1. TypeOK' <=> FlagsOK' /\ ValuesOK'
  BY Zenon DEF TypeOK, FlagsOK, ValuesOK
<1> QED
  BY <1>1, TypeParts, FlagsStep, ValuesStep, Zenon DEF TypeInv

\* Every variable stays within its type, in every setting.
THEOREM TypeCorrect == Spec => []TypeOK
<1>1. TypeInv => TypeOK
  BY Zenon DEF TypeInv
<1> QED
  BY <1>1, TypeInit, TypeStep, PTL DEF Spec

-------------------------------------------------------------------------------
(***************************************************************************)
(* Slots, ids and the cursor.                                              *)
(***************************************************************************)
LEMMA SameScenario ==
  ASSUME [Next]_vars
  PROVE  /\ IOErrors' = IOErrors
         /\ PeriodicSyncs' = PeriodicSyncs
         /\ Emergency' = Emergency
<1>1. scenario' = scenario
  BY Zenon DEF Next, vars
<1> QED
  BY <1>1, Zenon DEF IOErrors, PeriodicSyncs, Emergency

\* The steps as the writes under way see them.
LEMMA RequestSteps ==
  ASSUME [Next]_vars
  PROVE  \/ UNCHANGED <<pending, inFlight, completed, nextWriteId>>
         \/ ProcessCompletions
         \/ Submit
         \/ SubmitFails
         \/ ForgetPending /\ UNCHANGED <<inFlight, completed, nextWriteId>>
         \/ \E w \in inFlight : Kernel(w)
<1> USE DEF fileVars, kernelVars
<1>1. CASE Decompress \/ EndOfImage \/ StopWaitingForSlot \/ SkipWrite \/
       WriteSync \/ RefuseAfterError \/ PollBeforeSubmit \/ WaitForRoom
  BY <1>1, Zenon DEF Decompress, EndOfImage, StopWaitingForSlot, SkipWrite,
     WriteSync, RefuseAfterError, PollBeforeSubmit, WaitForRoom
<1>2. CASE CancelledWhileFull \/ WriteFailed \/ WaitEnds \/ WaitReaps \/
       WaitCancelsAgain \/ SyncFallbackSucceeds \/ SyncFallbackFails \/
       SyncFallbackFindsNothing
  BY <1>2, Zenon DEF CancelledWhileFull, WriteFailed, WaitEnds, WaitReaps,
     WaitCancelsAgain, SyncFallbackSucceeds, SyncFallbackFails,
     SyncFallbackFindsNothing
<1>3. CASE Submit \/ SubmitFails
  BY <1>3, Zenon
<1>4. CASE CancelDownload \/ CancelAsyncIO \/ ReduceQueueDepth \/ StartDrain \/
       DrainEnds \/ DrainGivesUp
  BY <1>4, Zenon DEF CancelDownload, CancelAsyncIO, ReduceQueueDepth, StartDrain,
     DrainEnds, DrainGivesUp
<1>5. CASE \E w \in inFlight : Kernel(w)
  BY <1>5, Zenon
<1>6. CASE UNCHANGED vars
  BY <1>6, Zenon DEF vars, progress
<1> QED
  BY <1>1, <1>2, <1>3, <1>4, <1>5, <1>6, Zenon
     DEF Next, Step, ExtractThread, MainThread

LEMMA IdsInit == Init => IdsKept
BY Zenon DEF Init, IdsKept

LEMMA IdsStep == TypeInv /\ IdsKept /\ [Next]_vars => IdsKept'
<1> SUFFICES ASSUME TypeInv, IdsKept, [Next]_vars PROVE IdsKept'
  OBVIOUS
<1>0. /\ nextWriteId \in Nat
      /\ \A w \in pending \cup inFlight : w.id \in Nat
      /\ \A c \in completed : c.id \in Nat
  BY SMT DEF TypeInv, TypeOK, Request
<1>1. CASE UNCHANGED <<pending, inFlight, completed, nextWriteId>>
  BY <1>1, Zenon DEF IdsKept
<1>2. CASE ProcessCompletions
  <2>1. /\ pending' \subseteq pending /\ completed' \subseteq completed
        /\ UNCHANGED <<inFlight, nextWriteId>>
    BY <1>2, ReapingTypes, Zenon DEF TypeInv
  <2> QED
    BY <2>1, Zenon DEF IdsKept
<1>3. CASE Submit
  <2> DEFINE new == [id |-> nextWriteId, offset |-> cursor, slot |-> held]
  <2>1. new.id = nextWriteId
    BY Zenon
  <2>3. pending' = pending \cup {new} /\ inFlight' = inFlight \cup {new}
    BY <1>3, Zenon DEF Submit
  <2> HIDE DEF new
  <2>2. nextWriteId' = nextWriteId + 1 /\ completed' = completed
    BY <1>3, Zenon DEF Submit
  <2> QED
    BY <1>0, <2>1, <2>2, <2>3, SMT DEF IdsKept
<1>4. CASE SubmitFails
  <2>1. nextWriteId' = nextWriteId + 1 /\ UNCHANGED <<pending, inFlight, completed>>
    BY <1>4, Zenon DEF SubmitFails, kernelVars
  <2> QED
    BY <1>0, <2>1, SMT DEF IdsKept
<1>5. CASE ForgetPending /\ UNCHANGED <<inFlight, completed, nextWriteId>>
  BY <1>5, Zenon DEF IdsKept, ForgetPending
<1>6. CASE \E w \in inFlight : Kernel(w)
  <2>1. PICK w \in inFlight, result \in {"ok", "error", "canceled"} : KernelCompletes(w, result)
    BY <1>6, Zenon DEF Kernel
  <2>2. /\ inFlight' = inFlight \ {w}
        /\ \A c \in completed' : c \in completed \/ c.id = w.id
        /\ UNCHANGED <<pending, nextWriteId>>
    BY <2>1, SMT DEF KernelCompletes, fileVars
  <2> QED
    BY <2>2, Zenon DEF IdsKept
<1> QED
  BY <1>1, <1>2, <1>3, <1>4, <1>5, <1>6, RequestSteps, Zenon

LEMMA PlacesInit == Init => PlacesKept
BY SMT DEF Init, PlacesKept

LEMMA PlacesStep == TypeInv /\ PlacesKept /\ [Next]_vars => PlacesKept'
<1> SUFFICES ASSUME TypeInv, PlacesKept, [Next]_vars PROVE PlacesKept'
  OBVIOUS
<1>0. next \in 1..(NumBlocks + 1) /\ PeriodicSyncs' = PeriodicSyncs
  BY SameScenario, Zenon DEF TypeInv, TypeOK
<1>w. \A ok : Waiting /\ AfterWait(ok) =>
        \/ pc = "flush" /\ pc' = "acquire" /\ outcome' = outcome
        \/ pc' = "done" /\ outcome' # "running"
  BY WaitResult, SMT
<1> USE DEF PlacesKept, threadVars, mainVars
<1>1. CASE Decompress \/ StopWaitingForSlot \/ SkipWrite \/ RefuseAfterError \/
       PollBeforeSubmit \/ WaitForRoom \/ CancelledWhileFull \/ SubmitFails
  BY <1>1, <1>0, Zenon DEF Decompress, StopWaitingForSlot, SkipWrite,
     RefuseAfterError, PollBeforeSubmit, WaitForRoom, CancelledWhileFull,
     SubmitFails
<1>2. CASE EndOfImage
  BY <1>2, <1>0, SMT DEF EndOfImage
<1>3. CASE WriteSync
  BY <1>3, <1>0, Zenon DEF WriteSync, AfterWrite
<1>4. CASE Submit
  BY <1>4, <1>0, Zenon DEF Submit, AfterWrite
<1>5. CASE WriteFailed \/ WaitReaps \/ WaitCancelsAgain \/ CancelDownload \/
       CancelAsyncIO \/ ReduceQueueDepth \/ StartDrain \/ DrainEnds
  BY <1>5, <1>0, Zenon DEF WriteFailed, WaitReaps, WaitCancelsAgain,
     CancelDownload, CancelAsyncIO, ReduceQueueDepth, StartDrain, DrainEnds
<1>6. CASE WaitEnds
  BY <1>6, <1>0, <1>w, Zenon DEF WaitEnds
<1>7. CASE SyncFallbackSucceeds
  BY <1>7, <1>0, <1>w, Zenon DEF SyncFallbackSucceeds, Emergencies
<1>8. CASE SyncFallbackFails
  BY <1>8, <1>0, <1>w, Zenon DEF SyncFallbackFails, Emergencies
<1>9. CASE SyncFallbackFindsNothing
  BY <1>9, <1>0, <1>w, Zenon DEF SyncFallbackFindsNothing, Emergencies
<1>10. CASE DrainGivesUp
  BY <1>10, <1>0, Zenon DEF DrainGivesUp
<1>11. CASE \E w \in inFlight : Kernel(w)
  <2>1. UNCHANGED <<pc, next, cancelled, outcome>>
    BY <1>11, Zenon DEF Kernel, KernelCompletes
  <2> QED
    BY <1>0, <2>1, Zenon
<1>12. CASE UNCHANGED vars
  BY <1>12, <1>0, Zenon DEF vars, progress
<1> QED
  BY <1>1, <1>2, <1>3, <1>4, <1>5, <1>6, <1>7, <1>8, <1>9, <1>10, <1>11, <1>12,
     Zenon
     DEF Next, Step, ExtractThread, MainThread

\* A switch to synchronous writes during a flush apart, a fallback ends the write.
LEMMA FallbackEnds ==
  ASSUME TypeInv, PlacesKept, FlushNeverStalls,
         SyncFallbackSucceeds \/ SyncFallbackFails \/ SyncFallbackFindsNothing
  PROVE  pc \in {"drain", "errorDrain"} /\ pc' = "done" /\ outcome' # "running"
<1>1. Emergencies /\ \E ok : AfterWait(ok)
  BY Zenon DEF SyncFallbackSucceeds, SyncFallbackFails, SyncFallbackFindsNothing
<1>2. pc \in {"drain", "errorDrain"}
  BY <1>1, Zenon DEF Emergencies, Waiting, PlacesKept, FlushNeverStalls
<1> QED
  BY <1>1, <1>2, WaitResult, SMT DEF Emergencies

LEMMA CursorInit == Init => CursorKept
BY SMT DEF Init, CursorKept

LEMMA CursorStep ==
  TypeInv /\ PlacesKept /\ CursorKept /\ FlushNeverStalls /\ [Next]_vars => CursorKept'
<1> SUFFICES ASSUME TypeInv, PlacesKept, CursorKept, FlushNeverStalls, [Next]_vars
             PROVE  CursorKept'
  OBVIOUS
<1>0. next \in Nat /\ cursor \in Nat
  BY SMT DEF TypeInv, TypeOK
<1>r. ProcessCompletions => cursor' = cursor
  BY Zenon DEF ProcessCompletions
<1> USE DEF CursorKept, threadVars, fileVars, mainVars
<1>1. CASE Decompress
  BY <1>1, <1>0, SMT DEF Decompress
<1>2. CASE EndOfImage
  BY <1>2, Zenon DEF EndOfImage
<1>3. CASE StopWaitingForSlot
  BY <1>3, SMT DEF StopWaitingForSlot
<1>4. CASE SkipWrite
  BY <1>4, SMT DEF SkipWrite
<1>5. CASE WriteSync
  BY <1>5, <1>0, SMT DEF WriteSync, AfterWrite
<1>6. CASE RefuseAfterError
  BY <1>6, SMT DEF RefuseAfterError
<1>7. CASE PollBeforeSubmit \/ WaitForRoom \/ WaitReaps
  BY <1>7, <1>r, Zenon DEF PollBeforeSubmit, WaitForRoom, WaitReaps
<1>8. CASE CancelledWhileFull
  BY <1>8, SMT DEF CancelledWhileFull
<1>9. CASE Submit
  BY <1>9, <1>0, SMT DEF Submit, AfterWrite
<1>10. CASE SubmitFails
  BY <1>10, SMT DEF SubmitFails
<1>11. CASE WriteFailed
  BY <1>11, SMT DEF WriteFailed
<1>12. CASE WaitEnds
  BY <1>12, <1>0, WaitResult, Zenon DEF WaitEnds
<1>13. CASE WaitCancelsAgain \/ CancelDownload \/ CancelAsyncIO \/
       ReduceQueueDepth \/ StartDrain \/ DrainEnds \/ DrainGivesUp
  BY <1>13, Zenon DEF WaitCancelsAgain, CancelDownload, CancelAsyncIO,
     ReduceQueueDepth, StartDrain, DrainEnds, DrainGivesUp
<1>14. CASE SyncFallbackSucceeds
  BY <1>14, FallbackEnds, SMT
<1>15. CASE SyncFallbackFails
  BY <1>15, FallbackEnds, SMT
<1>16. CASE SyncFallbackFindsNothing
  BY <1>16, FallbackEnds, SMT
<1>17. CASE \E w \in inFlight : Kernel(w)
  <2>1. UNCHANGED <<pc, next, cursor, cancelled>>
    BY <1>17, Zenon DEF Kernel, KernelCompletes
  <2> QED
    BY <2>1, Zenon
<1>18. CASE UNCHANGED vars
  BY <1>18, Zenon DEF vars, progress
<1> QED
  BY <1>1, <1>2, <1>3, <1>4, <1>5, <1>6, <1>7, <1>8, <1>9, <1>10, <1>11, <1>12,
     <1>13, <1>14, <1>15, <1>16, <1>17, <1>18, Zenon
     DEF Next, Step, ExtractThread, MainThread

\* The steps as the slots see them.
LEMMA SlotSteps ==
  ASSUME TypeInv, PlacesKept, FlushNeverStalls, [Next]_vars
  PROVE  \/ /\ UNCHANGED <<held, free, pending>>
            /\ outcome = "running" \/ outcome' = outcome
         \/ Decompress
         \/ ReleaseHeld /\ Filling /\ UNCHANGED <<pending, outcome>>
         \/ ProcessCompletions /\ UNCHANGED held /\ outcome = "running"
         \/ Submit
         \/ /\ \E writes \in SUBSET pending :
                 Replay(writes) /\ (writes = pending \/ outcome' = "failed")
            /\ pending' = {} /\ UNCHANGED held /\ outcome = "running"
<1>0. pc # "done" => outcome = "running"
  BY Zenon DEF PlacesKept
<1> USE DEF threadVars, poolVars, fileVars
<1>1. CASE Decompress \/ Submit
  BY <1>1, Zenon
<1>2. CASE EndOfImage \/ StopWaitingForSlot \/ WriteFailed \/ WaitCancelsAgain \/
       CancelDownload \/ CancelAsyncIO \/ ReduceQueueDepth \/ StartDrain
  BY <1>2, Zenon DEF EndOfImage, StopWaitingForSlot, WriteFailed,
     WaitCancelsAgain, CancelDownload, CancelAsyncIO, ReduceQueueDepth, StartDrain
<1>3. CASE SkipWrite
  BY <1>3, Zenon DEF SkipWrite, Filling, fileVars
<1>4. CASE WriteSync \/ RefuseAfterError \/ CancelledWhileFull \/ SubmitFails
  BY <1>4, Zenon DEF WriteSync, RefuseAfterError, CancelledWhileFull, SubmitFails,
     Filling
<1>5. CASE PollBeforeSubmit
  BY <1>5, <1>0, SMT DEF PollBeforeSubmit
<1>6. CASE WaitForRoom
  BY <1>6, <1>0, SMT DEF WaitForRoom
<1>7. CASE WaitEnds
  BY <1>7, <1>0, SMT DEF WaitEnds, Waiting
<1>8. CASE WaitReaps
  BY <1>8, <1>0, SMT DEF WaitReaps, Waiting
<1>9. CASE SyncFallbackSucceeds
  <2>1. pending \in SUBSET pending
    BY Zenon
  <2>2. outcome = "running"
    BY <1>9, <1>0, SMT DEF SyncFallbackSucceeds, Emergencies, Waiting
  <2> QED
    BY <1>9, <2>1, <2>2, Zenon DEF SyncFallbackSucceeds, ForgetPending
<1>10. CASE SyncFallbackFails
  <2>1. PICK failed \in pending : Replay({w \in pending : w.offset < failed.offset})
    BY <1>10, Zenon DEF SyncFallbackFails
  <2>2. {w \in pending : w.offset < failed.offset} \in SUBSET pending
    BY Zenon
  <2>3. pc # "flush" /\ outcome = "running"
    BY <1>10, <1>0, FallbackEnds, SMT
  <2>5. AfterWait(ReplayFailureReported)
    BY <1>10, Zenon DEF SyncFallbackFails
  <2>4. outcome' = "failed"
    BY <2>3, <2>5, Zenon DEF AfterWait, ReplayFailureReported
  <2> QED
    BY <1>10, <2>1, <2>2, <2>3, <2>4, Zenon DEF SyncFallbackFails, ForgetPending
<1>11. CASE SyncFallbackFindsNothing
  BY <1>11, <1>0, SMT DEF SyncFallbackFindsNothing, Emergencies, Waiting
<1>12. CASE DrainEnds \/ DrainGivesUp
  BY <1>12, Zenon DEF DrainEnds, DrainGivesUp
<1>13. CASE \E w \in inFlight : Kernel(w)
  BY <1>13, Zenon DEF Kernel, KernelCompletes
<1>14. CASE UNCHANGED vars
  BY <1>14, Zenon DEF vars, progress
<1> QED
  BY <1>1, <1>2, <1>3, <1>4, <1>5, <1>6, <1>7, <1>8, <1>9, <1>10, <1>11, <1>12,
     <1>13, <1>14, Zenon
     DEF Next, Step, ExtractThread, MainThread

LEMMA SlotsInit == Init => SlotsAccounted
BY SMT DEF Init, SlotsAccounted, SlotsOf

LEMMA SlotsStep ==
  TypeInv /\ PlacesKept /\ SlotsAccounted /\ FlushNeverStalls /\ [Next]_vars
    => SlotsAccounted'
<1> SUFFICES ASSUME TypeInv, PlacesKept, SlotsAccounted, FlushNeverStalls, [Next]_vars
             PROVE  SlotsAccounted'
  OBVIOUS
<1>0. /\ free \subseteq Slots /\ held \in Slots \cup {NoSlot}
      /\ \A w \in pending : w.slot \in Slots
      /\ held # NoSlot <=> Filling
  BY SMT DEF TypeInv, TypeOK, Bounds, Request
<1> USE DEF SlotsAccounted, SlotsOf
<1>1. CASE UNCHANGED <<held, free, pending>> /\ (outcome = "running" \/ outcome' = outcome)
  BY <1>1, SMT
<1>2. CASE Decompress
  <2>1. PICK s \in free : held' = s /\ free' = free \ {s}
    BY <1>2, Zenon DEF Decompress
  <2>2. pending' = pending /\ outcome' = outcome /\ held = NoSlot
    BY <1>2, <1>0, SMT DEF Decompress, fileVars, Filling
  <2> QED
    BY <1>0, <2>1, <2>2, SMT
<1>3. CASE ReleaseHeld /\ Filling /\ UNCHANGED <<pending, outcome>>
  BY <1>0, <1>3, SMT DEF ReleaseHeld
<1>4. CASE ProcessCompletions /\ UNCHANGED held /\ outcome = "running"
  <2>1. pending' = pending \ Reaped /\ free' = free \cup SlotsOf(Reaped)
    BY <1>4, ReapingTypes, Zenon DEF TypeInv
  <2>2. Reaped \subseteq pending
    BY Zenon DEF Reaped
  <2> QED
    BY <1>4, <2>1, <2>2, SMT
<1>5. CASE Submit
  <2> DEFINE new == [id |-> nextWriteId, offset |-> cursor, slot |-> held]
  <2>1. new.slot = held
    BY Zenon
  <2>2. pending' = pending \cup {new} /\ held' = NoSlot /\ UNCHANGED <<free, outcome>>
    BY <1>5, Zenon DEF Submit, poolVars
  <2>3. held \in Slots
    BY <1>0, <1>5, SMT DEF Submit, Filling
  <2> HIDE DEF new
  <2> QED
    BY <1>0, <2>1, <2>2, <2>3, SMT
<1>6. ASSUME NEW writes \in SUBSET pending,
             Replay(writes), writes = pending \/ outcome' = "failed",
             pending' = {}, UNCHANGED held, outcome = "running"
      PROVE  SlotsAccounted'
  <2>1. free' = free \cup SlotsOf(writes)
    BY <1>6, Zenon DEF Replay
  <2> QED
    BY <1>6, <2>1, SMT
<1> QED
  BY <1>1, <1>2, <1>3, <1>4, <1>5, <1>6, SlotSteps, Zenon

LEMMA ContentInit == Init => ContentKept
BY SMT DEF Init, ContentKept, Filling

\* The steps as the blocks in the slots see them.
LEMMA ContentSteps ==
  ASSUME TypeInv, PlacesKept, FlushNeverStalls, [Next]_vars
  PROVE  \/ /\ UNCHANGED <<content, pending, inFlight>>
            /\ pc' # "done" => pc # "done"
            /\ Filling' => Filling /\ UNCHANGED <<held, next>>
         \/ Decompress
         \/ /\ ProcessCompletions
            /\ pc # "done"
            /\ Filling' => Filling /\ UNCHANGED <<held, next>>
         \/ Submit
         \/ pending' = {} /\ pc' = "done" /\ UNCHANGED <<content, inFlight>>
         \/ \E w \in inFlight : Kernel(w)
<1> USE DEF Filling, threadVars, poolVars, fileVars, kernelVars
<1>w. \A ok : Waiting /\ AfterWait(ok) =>
        pc # "done" /\ pc' \notin {"write", "submit"}
  BY WaitResult, SMT DEF Waiting
<1>1. CASE Decompress \/ Submit
  BY <1>1, Zenon
<1>2. CASE EndOfImage
  BY <1>2, SMT DEF EndOfImage
<1>3. CASE StopWaitingForSlot
  BY <1>3, SMT DEF StopWaitingForSlot
<1>4. CASE SkipWrite
  BY <1>4, SMT DEF SkipWrite
<1>5. CASE WriteSync
  BY <1>5, SMT DEF WriteSync, AfterWrite
<1>6. CASE RefuseAfterError
  BY <1>6, SMT DEF RefuseAfterError
<1>7. CASE PollBeforeSubmit
  BY <1>7, SMT DEF PollBeforeSubmit
<1>8. CASE WaitForRoom
  BY <1>8, SMT DEF WaitForRoom
<1>9. CASE CancelledWhileFull
  BY <1>9, SMT DEF CancelledWhileFull
<1>10. CASE SubmitFails
  BY <1>10, SMT DEF SubmitFails
<1>11. CASE WriteFailed
  BY <1>11, SMT DEF WriteFailed
<1>12. CASE WaitEnds
  BY <1>12, <1>w, Zenon DEF WaitEnds
<1>13. CASE WaitReaps
  BY <1>13, SMT DEF WaitReaps, Waiting
<1>14. CASE WaitCancelsAgain \/ CancelDownload \/ CancelAsyncIO \/
       ReduceQueueDepth \/ StartDrain \/ DrainEnds \/ DrainGivesUp
  BY <1>14, Zenon DEF WaitCancelsAgain, CancelDownload, CancelAsyncIO,
     ReduceQueueDepth, StartDrain, DrainEnds, DrainGivesUp
<1>15. CASE SyncFallbackSucceeds \/ SyncFallbackFails
  BY <1>15, FallbackEnds, Zenon DEF SyncFallbackSucceeds, SyncFallbackFails,
     ForgetPending
<1>16. CASE SyncFallbackFindsNothing
  <2>1. ProcessCompletions
    BY <1>16, Zenon DEF SyncFallbackFindsNothing
  <2>2. pc # "done" /\ ~Filling'
    BY <1>16, FallbackEnds, SMT
  <2> QED
    BY <2>1, <2>2, Zenon
<1>17. CASE \E w \in inFlight : Kernel(w)
  BY <1>17, Zenon
<1>18. CASE UNCHANGED vars
  BY <1>18, Zenon DEF vars, progress
<1> QED
  BY <1>1, <1>2, <1>3, <1>4, <1>5, <1>6, <1>7, <1>8, <1>9, <1>10, <1>11, <1>12,
     <1>13, <1>14, <1>15, <1>16, <1>17, <1>18, Zenon
     DEF Next, Step, ExtractThread, MainThread

LEMMA ContentStep ==
  ASSUME TypeInv, PoolInv, FlushNeverStalls, [Next]_vars
  PROVE  ContentKept'
<1>0. /\ \A w \in pending \cup inFlight : w.slot \in Slots
      /\ content \in [Slots -> 0..NumBlocks] /\ next \in Nat
  BY SMT DEF TypeInv, TypeOK, Request
<1>1. CASE /\ UNCHANGED <<content, pending, inFlight>>
           /\ pc' # "done" => pc # "done"
           /\ Filling' => Filling /\ UNCHANGED <<held, next>>
  BY <1>1, Zenon DEF PoolInv, ContentKept
<1>2. CASE Decompress
  <2>1. PICK s \in free : held' = s /\ content' = [content EXCEPT ![s] = next]
    BY <1>2, Zenon DEF Decompress
  <2>2. /\ next' = next + 1 /\ UNCHANGED <<pending, inFlight>>
        /\ pc = "acquire" /\ pc' = "write"
    BY <1>2, Zenon DEF Decompress, fileVars, kernelVars
  <2>3. \A w \in pending \cup inFlight : w \in pending /\ w.slot # s
    BY <2>1, <2>2, SMT DEF PoolInv, ContentKept, SlotsAccounted
  <2>4. s \in Slots
    BY <2>1, SMT DEF TypeInv, TypeOK
  <2> QED
    BY <1>0, <2>1, <2>2, <2>3, <2>4, SMT DEF PoolInv, ContentKept
<1>3. CASE /\ ProcessCompletions
           /\ pc # "done"
           /\ Filling' => Filling /\ UNCHANGED <<held, next>>
  <2>1. pending' = pending \ Reaped /\ UNCHANGED <<content, inFlight>>
    BY <1>3, ReapingTypes, Zenon DEF TypeInv
  <2>2. inFlight \cap Reaped = {}
    BY SMT DEF Reaped, Ids, PoolInv, IdsKept
  <2> QED
    BY <1>3, <2>1, <2>2, SMT DEF PoolInv, ContentKept
<1>4. CASE Submit
  <2> DEFINE new == [id |-> nextWriteId, offset |-> cursor, slot |-> held]
  <2>1. new.slot = held /\ new.offset = cursor
    BY Zenon
  <2>2. /\ pending' = pending \cup {new} /\ inFlight' = inFlight \cup {new}
        /\ content' = content /\ pc = "submit"
    BY <1>4, Zenon DEF Submit, poolVars
  <2>3. pc' \in {"acquire", "flush"}
    BY <1>4, Zenon DEF Submit, AfterWrite
  <2>4. content[held] = cursor
    BY <2>2, SMT DEF PoolInv, ContentKept, CursorKept, Filling
  <2> HIDE DEF new
  <2> QED
    BY <2>1, <2>2, <2>3, <2>4, SMT DEF PoolInv, ContentKept, Filling
<1>5. CASE pending' = {} /\ pc' = "done" /\ UNCHANGED <<content, inFlight>>
  BY <1>5, SMT DEF PoolInv, ContentKept, Filling
<1>6. CASE \E w \in inFlight : Kernel(w)
  <2>1. PICK w \in inFlight : Kernel(w)
    BY <1>6, Zenon
  <2>2. /\ inFlight' = inFlight \ {w}
        /\ UNCHANGED <<content, pending, pc, held, next>>
    BY <2>1, Zenon DEF Kernel, KernelCompletes, threadVars, poolVars, fileVars
  <2> QED
    BY <2>2, SMT DEF PoolInv, ContentKept, Filling
<1> QED
  BY <1>1, <1>2, <1>3, <1>4, <1>5, <1>6, ContentSteps, Zenon DEF PoolInv

LEMMA PoolInit == Init => PoolInv
BY IdsInit, PlacesInit, CursorInit, SlotsInit, ContentInit, Zenon DEF PoolInv

LEMMA PoolStep ==
  TypeInv /\ (FlushNeverStalls => PoolInv) /\ [Next]_vars => (FlushNeverStalls => PoolInv)'
<1> SUFFICES ASSUME TypeInv, FlushNeverStalls => PoolInv, [Next]_vars, FlushNeverStalls'
             PROVE  PoolInv'
  BY Zenon DEF FlushNeverStalls
<1>1. FlushNeverStalls
  BY SameScenario, Zenon DEF FlushNeverStalls
<1> QED
  BY <1>1, IdsStep, PlacesStep, CursorStep, SlotsStep, ContentStep, Zenon DEF PoolInv

\* What the rest rests on, as one invariant of the specification.
LEMMA PoolKept == Spec => [](TypeInv /\ (FlushNeverStalls => PoolInv))
<1>1. Init => TypeInv /\ (FlushNeverStalls => PoolInv)
  BY TypeInit, PoolInit, Zenon
<1>2. TypeInv /\ (FlushNeverStalls => PoolInv) /\ [Next]_vars
        => TypeInv' /\ (FlushNeverStalls => PoolInv)'
  BY TypeStep, PoolStep, Zenon
<1> QED
  BY <1>1, <1>2, PTL DEF Spec

\* No slot is lost or in two places at once, whichever thread holds it.
THEOREM SlotsNeverLost == Spec => [](FlushNeverStalls => SlotsAccounted)
<1>1. TypeInv /\ (FlushNeverStalls => PoolInv) => (FlushNeverStalls => SlotsAccounted)
  BY Zenon DEF PoolInv
<1> QED
  BY <1>1, PoolKept, PTL

\* A slot the kernel is still reading is not refilled, in whatever order the
\* writes complete.
THEOREM BuffersNeverRefilled == Spec => [](FlushNeverStalls => BufferStable)
<1>1. TypeInv /\ (FlushNeverStalls => PoolInv) => (FlushNeverStalls => BufferStable)
  BY Zenon DEF PoolInv, ContentKept, BufferStable
<1> QED
  BY <1>1, PoolKept, PTL

\* The logical cursor stands where the next block belongs, through every switch
\* between synchronous and asynchronous writes (#1598).
THEOREM CursorNeverStrays == Spec => [](FlushNeverStalls => CursorFollowsBlocks)
<1>1. TypeInv /\ (FlushNeverStalls => PoolInv)
        => (FlushNeverStalls => CursorFollowsBlocks)
  BY Zenon DEF PoolInv, CursorKept, CursorFollowsBlocks
<1> QED
  BY <1>1, PoolKept, PTL

-------------------------------------------------------------------------------
(***************************************************************************)
(* What is on the device.                                                  *)
(***************************************************************************)
\* The steps that write.
LEMMA DeviceSteps ==
  ASSUME [Next]_vars
  PROVE  \/ UNCHANGED device
         \/ WriteSync
         \/ \E writes \in SUBSET pending : Replay(writes)
         \/ \E w \in inFlight : Kernel(w)
<1> USE DEF kernelVars
<1>1. CASE Decompress \/ EndOfImage \/ StopWaitingForSlot \/ SkipWrite \/
       RefuseAfterError \/ CancelledWhileFull \/ Submit \/ SubmitFails
  BY <1>1, Zenon DEF Decompress, EndOfImage, StopWaitingForSlot, SkipWrite,
     RefuseAfterError, CancelledWhileFull, Submit, SubmitFails
<1>2. CASE WriteSync
  BY <1>2, Zenon
<1>3. CASE PollBeforeSubmit \/ WaitForRoom \/ WaitReaps \/
       SyncFallbackFindsNothing
  BY <1>3, Zenon DEF PollBeforeSubmit, WaitForRoom, WaitReaps,
     SyncFallbackFindsNothing, ProcessCompletions
<1>4. CASE WriteFailed \/ WaitEnds \/ WaitCancelsAgain \/ SyncFallbackSucceeds \/
       CancelDownload \/ CancelAsyncIO \/ ReduceQueueDepth \/ StartDrain
  BY <1>4, Zenon DEF WriteFailed, WaitEnds, WaitCancelsAgain,
     SyncFallbackSucceeds, CancelDownload, CancelAsyncIO, ReduceQueueDepth,
     StartDrain
<1>5. CASE SyncFallbackFails
  <2>1. PICK failed \in pending : Replay({w \in pending : w.offset < failed.offset})
    BY <1>5, Zenon DEF SyncFallbackFails
  <2>2. {w \in pending : w.offset < failed.offset} \in SUBSET pending
    BY Zenon
  <2> QED
    BY <2>1, <2>2, Zenon
<1>6. CASE DrainEnds \/ DrainGivesUp
  BY <1>6, Zenon DEF DrainEnds, DrainGivesUp
<1>7. CASE \E w \in inFlight : Kernel(w)
  BY <1>7, Zenon
<1>8. CASE UNCHANGED vars
  BY <1>8, Zenon DEF vars, progress
<1> QED
  BY <1>1, <1>2, <1>3, <1>4, <1>5, <1>6, <1>7, <1>8, Zenon
     DEF Next, Step, ExtractThread, MainThread

\* Nothing that was written right is overwritten with anything else.
LEMMA DeviceNeverSpoiled ==
  ASSUME TypeInv, PoolInv, [Next]_vars
  PROVE  \A b \in Blocks : device[b] = b => device'[b] = b
<1> SUFFICES ASSUME NEW b \in Blocks, device[b] = b
             PROVE  device'[b] = b
  OBVIOUS
<1>0. /\ device \in [Blocks -> 0..NumBlocks]
      /\ TypeOK
  BY Zenon DEF TypeInv, TypeOK
<1>1. CASE UNCHANGED device
  BY <1>1, Zenon
<1>2. CASE WriteSync
  <2>1. device' = device \/ device' = [device EXCEPT ![cursor] = content[held]]
    BY <1>2, Zenon DEF WriteSync, SyncPosition
  <2>2. content[held] = cursor
    BY <1>2, SMT DEF WriteSync, PoolInv, CursorKept, ContentKept, Filling
  <2> QED
    BY <1>0, <2>1, <2>2, SMT
<1>3. ASSUME NEW writes \in SUBSET pending, Replay(writes)
      PROVE  device'[b] = b
  <2>1. \/ device'[b] = device[b]
        \/ \E w \in writes : w.offset = b /\ device'[b] = content[w.slot]
    BY <1>0, <1>3, ReplayTypes, Zenon
  <2> QED
    BY <2>1, Zenon DEF PoolInv, ContentKept
<1>4. CASE \E w \in inFlight : Kernel(w)
  <2>1. PICK w \in inFlight : device' = device
                              \/ device' = [device EXCEPT ![w.offset] = content[w.slot]]
    BY <1>4, Zenon DEF Kernel, KernelCompletes
  <2>2. content[w.slot] = w.offset
    BY Zenon DEF PoolInv, ContentKept
  <2> QED
    BY <1>0, <2>1, <2>2, SMT
<1>5. \/ UNCHANGED device
      \/ WriteSync
      \/ \E writes \in SUBSET pending : Replay(writes)
      \/ \E w \in inFlight : Kernel(w)
  BY DeviceSteps, Zenon
<1> QED
  BY <1>1, <1>2, <1>3, <1>4, <1>5, Zenon

\* The steps as cancellation sees them: it is never taken back before the end.
LEMMA CancelStep ==
  TypeInv /\ PoolInv /\ CancelKept /\ FlushNeverStalls /\ [Next]_vars
    => CancelKept' /\ cancelling \subseteq cancelling' /\ (cancelled => cancelled')
<1> SUFFICES ASSUME TypeInv, PoolInv, CancelKept, FlushNeverStalls, [Next]_vars
             PROVE  CancelKept' /\ cancelling \subseteq cancelling' /\ (cancelled => cancelled')
  OBVIOUS
<1>0. pc = "done" => ~Waiting
  BY SMT DEF Waiting
<1> USE DEF CancelKept, threadVars, mainVars
<1>1. CASE Decompress
  BY <1>1, Zenon DEF Decompress
<1>2. CASE EndOfImage
  BY <1>2, Zenon DEF EndOfImage
<1>3. CASE StopWaitingForSlot
  BY <1>3, Zenon DEF StopWaitingForSlot
<1>4. CASE SkipWrite
  BY <1>4, Zenon DEF SkipWrite
<1>5. CASE WriteSync
  BY <1>5, Zenon DEF WriteSync
<1>6. CASE RefuseAfterError
  BY <1>6, Zenon DEF RefuseAfterError
<1>7. CASE PollBeforeSubmit
  BY <1>7, Zenon DEF PollBeforeSubmit
<1>8. CASE WaitForRoom
  BY <1>8, Zenon DEF WaitForRoom
<1>9. CASE CancelledWhileFull
  BY <1>9, Zenon DEF CancelledWhileFull
<1>10. CASE Submit
  BY <1>10, Zenon DEF Submit
<1>11. CASE SubmitFails
  BY <1>11, Zenon DEF SubmitFails
<1>12. CASE WriteFailed
  BY <1>12, Zenon DEF WriteFailed
<1>13. CASE WaitEnds
  <2>1. pc # "done" /\ UNCHANGED <<cancelling, fileCancelled, cancelled>>
    BY <1>13, <1>0, Zenon DEF WaitEnds
  <2> QED
    BY <2>1, Zenon
<1>14. CASE WaitReaps
  BY <1>14, Zenon DEF WaitReaps
<1>15. CASE WaitCancelsAgain
  <2>1. pc # "done" /\ fileCancelled /\ UNCHANGED <<pc, fileCancelled, cancelled>>
    BY <1>15, <1>0, Zenon DEF WaitCancelsAgain
  <2>2. cancelling' = cancelling \cup Ids(pending)
    BY <1>15, Zenon DEF WaitCancelsAgain
  <2> QED
    BY <2>1, <2>2, Zenon
<1>16. CASE SyncFallbackSucceeds
  BY <1>16, FallbackEnds, Zenon DEF SyncFallbackSucceeds, ForgetPending, PoolInv
<1>17. CASE SyncFallbackFails
  BY <1>17, FallbackEnds, Zenon DEF SyncFallbackFails, ForgetPending, PoolInv
<1>18. CASE SyncFallbackFindsNothing
  BY <1>18, FallbackEnds, Zenon DEF SyncFallbackFindsNothing, PoolInv
<1>19. CASE CancelDownload
  BY <1>19, Zenon DEF CancelDownload
<1>20. CASE CancelAsyncIO
  BY <1>20, Zenon DEF CancelAsyncIO
<1>21. CASE ReduceQueueDepth
  BY <1>21, Zenon DEF ReduceQueueDepth
<1>22. CASE StartDrain
  BY <1>22, Zenon DEF StartDrain
<1>23. CASE DrainEnds
  BY <1>23, Zenon DEF DrainEnds
<1>24. CASE DrainGivesUp
  BY <1>24, Zenon DEF DrainGivesUp
<1>25. CASE \E w \in inFlight : Kernel(w)
  <2>1. UNCHANGED <<pc, cancelling, fileCancelled, cancelled>>
    BY <1>25, Zenon DEF Kernel, KernelCompletes
  <2> QED
    BY <2>1, Zenon
<1>26. CASE UNCHANGED vars
  BY <1>26, Zenon DEF vars, progress
<1> QED
  BY <1>1, <1>2, <1>3, <1>4, <1>5, <1>6, <1>7, <1>8, <1>9, <1>10, <1>11, <1>12,
     <1>13, <1>14, <1>15, <1>16, <1>17, <1>18, <1>19, <1>20, <1>21, <1>22, <1>23,
     <1>24, <1>25, <1>26, Zenon
     DEF Next, Step, ExtractThread, MainThread

LEMMA CompletedStep ==
  ASSUME TypeInv, PoolInv, CancelKept, CompletedKept, FlushNeverStalls, [Next]_vars
  PROVE  CompletedKept'
<1>0. /\ \A w \in pending \cup inFlight : w.offset \in Blocks
      /\ \A c \in completed : c.id \in Nat
      /\ nextWriteId \in Nat
  BY SMT DEF TypeInv, TypeOK, Request
<1>1. \A b \in Blocks : device[b] = b => device'[b] = b
  BY DeviceNeverSpoiled, Zenon
<1>2. cancelling \subseteq cancelling' /\ IOErrors' = IOErrors
  BY CancelStep, SameScenario, Zenon
<1>3. CASE completed' \subseteq completed /\ pending' \subseteq pending
  <2> SUFFICES ASSUME NEW c \in completed', NEW w \in pending'
               PROVE  /\ c.result = "ok" /\ w.id = c.id => device'[w.offset] = w.offset
                      /\ c.result = "canceled" => c.id \in cancelling'
                      /\ c.result = "error" => IOErrors'
    BY <1>2, <1>3, Zenon DEF CompletedKept
  <2>1. c \in completed /\ w \in pending /\ w.offset \in Blocks
    BY <1>0, <1>3, Zenon
  <2> QED
    BY <1>1, <1>2, <2>1, Zenon DEF CompletedKept
<1>4. CASE Submit
  <2> DEFINE new == [id |-> nextWriteId, offset |-> cursor, slot |-> held]
  <2>1. new.id = nextWriteId
    BY Zenon
  <2>2. pending' = pending \cup {new} /\ completed' = completed
    BY <1>4, Zenon DEF Submit
  <2>3. \A c \in completed : c.id # new.id
    BY <1>0, <2>1, SMT DEF PoolInv, IdsKept
  <2> HIDE DEF new
  <2> QED
    BY <1>0, <1>1, <1>2, <2>2, <2>3, Zenon DEF CompletedKept
<1>5. CASE \E w \in inFlight : Kernel(w)
  <2>1. PICK w \in inFlight : Kernel(w)
    BY <1>5, Zenon
  <2>2. PICK result \in {"ok", "error", "canceled"} :
          /\ KernelCompletes(w, result)
          /\ result = "error" => IOErrors
          /\ result = "canceled" => w.id \in cancelling
    BY <2>1, SMT DEF Kernel
  <2> DEFINE new == [id |-> w.id, result |-> result]
  <2>3. new.id = w.id /\ new.result = result
    BY Zenon
  <2>4. completed' = completed \cup {new} /\ pending' = pending
    BY <2>2, Zenon DEF KernelCompletes, fileVars
  <2>5. result = "ok" => device'[w.offset] = w.offset
    <3>1. content[w.slot] = w.offset
      BY Zenon DEF PoolInv, ContentKept
    <3>2. w.offset \in Blocks /\ device \in [Blocks -> 0..NumBlocks]
      BY <1>0, Zenon DEF TypeInv, TypeOK
    <3> QED
      BY <2>2, <3>1, <3>2, SMT DEF KernelCompletes
  <2>6. \A v \in pending : v.id = w.id => v = w
    BY Zenon DEF PoolInv, IdsKept
  <2> HIDE DEF new
  <2> QED
    BY <1>0, <1>1, <1>2, <2>2, <2>3, <2>4, <2>5, <2>6, Zenon DEF CompletedKept
<1>6. ProcessCompletions => completed' \subseteq completed /\ pending' \subseteq pending
  BY ReapingTypes, Zenon DEF TypeInv
<1>7. SubmitFails => UNCHANGED <<completed, pending>>
  BY Zenon DEF SubmitFails, kernelVars
<1>8. ForgetPending => pending' = {}
  BY Zenon DEF ForgetPending
<1> QED
  BY <1>3, <1>4, <1>5, <1>6, <1>7, <1>8, RequestSteps, Zenon

\* While this holds, every block behind the cursor is accounted for.
NothingWrong == ~cancelled /\ ~firstError /\ pc \notin {"failed", "errorDrain", "done"}

\* The steps that leave nothing wrong.
LEMMA GoodSteps ==
  ASSUME TypeInv, PoolInv, CancelKept, FlushNeverStalls, [Next]_vars, NothingWrong'
  PROVE  /\ NothingWrong
         /\ \/ UNCHANGED <<cursor, pending>>
            \/ ProcessCompletions
            \/ Submit
            \/ /\ WriteSync /\ cursor' = cursor + 1 /\ UNCHANGED pending
               /\ device' = [device EXCEPT ![cursor] = content[held]]
<1>0. cancelled => cancelled'
  BY CancelStep, Zenon
<1>n. pc' \notin {"failed", "errorDrain", "done"} /\ ~cancelled' /\ ~firstError'
  BY Zenon DEF NothingWrong
<1>r. ProcessCompletions /\ ~firstError' => ~firstError
  BY Zenon DEF ProcessCompletions
<1> USE <1>0, <1>n DEF NothingWrong, threadVars, fileVars, mainVars
<1>1. CASE Decompress
  BY <1>1, SMT DEF Decompress
<1>2. CASE EndOfImage
  BY <1>2, SMT DEF EndOfImage
<1>3. CASE StopWaitingForSlot
  BY <1>3, SMT DEF StopWaitingForSlot
<1>4. CASE SkipWrite
  BY <1>4, SMT DEF SkipWrite
<1>5. CASE WriteSync
  BY <1>5, SMT DEF WriteSync, SyncPosition
<1>6. CASE RefuseAfterError
  BY <1>6, SMT DEF RefuseAfterError
<1>7. CASE PollBeforeSubmit
  BY <1>7, <1>r, SMT DEF PollBeforeSubmit
<1>8. CASE WaitForRoom
  BY <1>8, <1>r, SMT DEF WaitForRoom
<1>9. CASE CancelledWhileFull
  BY <1>9, SMT DEF CancelledWhileFull
<1>10. CASE Submit
  BY <1>10, SMT DEF Submit
<1>11. CASE SubmitFails
  BY <1>11, SMT DEF SubmitFails
<1>12. CASE WriteFailed
  BY <1>12, SMT DEF WriteFailed
<1>13. CASE WaitEnds
  <2>1. pc = "flush" /\ UNCHANGED <<cursor, pending, firstError>>
    BY <1>13, WaitResult, SMT DEF WaitEnds
  <2> QED
    BY <2>1, SMT
<1>14. CASE WaitReaps
  BY <1>14, <1>r, SMT DEF WaitReaps
<1>15. CASE WaitCancelsAgain
  BY <1>15, SMT DEF WaitCancelsAgain
<1>16. CASE SyncFallbackSucceeds \/ SyncFallbackFails \/ SyncFallbackFindsNothing
  BY <1>16, FallbackEnds, Zenon DEF PoolInv
<1>17. CASE CancelDownload
  BY <1>17, SMT DEF CancelDownload
<1>18. CASE CancelAsyncIO
  BY <1>18, SMT DEF CancelAsyncIO
<1>19. CASE ReduceQueueDepth
  BY <1>19, SMT DEF ReduceQueueDepth
<1>20. CASE StartDrain
  BY <1>20, SMT DEF StartDrain
<1>21. CASE DrainEnds
  BY <1>21, SMT DEF DrainEnds
<1>22. CASE DrainGivesUp
  BY <1>22, SMT DEF DrainGivesUp
<1>23. CASE \E w \in inFlight : Kernel(w)
  <2>1. UNCHANGED <<pc, cursor, pending, firstError>>
    BY <1>23, Zenon DEF Kernel, KernelCompletes
  <2> QED
    BY <2>1, Zenon
<1>24. CASE UNCHANGED vars
  BY <1>24, Zenon DEF vars, progress
<1> QED
  BY <1>1, <1>2, <1>3, <1>4, <1>5, <1>6, <1>7, <1>8, <1>9, <1>10, <1>11, <1>12,
     <1>13, <1>14, <1>15, <1>16, <1>17, <1>18, <1>19, <1>20, <1>21, <1>22, <1>23,
     <1>24, Zenon
     DEF Next, Step, ExtractThread, MainThread

LEMMA OutcomeSteps ==
  ASSUME [Next]_vars
  PROVE  \/ UNCHANGED outcome \/ WaitEnds
         \/ SyncFallbackSucceeds \/ SyncFallbackFails \/ SyncFallbackFindsNothing
<1>1. CASE Decompress \/ EndOfImage \/ StopWaitingForSlot \/ SkipWrite \/
       WriteSync \/ RefuseAfterError \/ PollBeforeSubmit \/ WaitForRoom
  BY <1>1, Zenon DEF Decompress, EndOfImage, StopWaitingForSlot, SkipWrite,
     WriteSync, RefuseAfterError, PollBeforeSubmit, WaitForRoom
<1>2. CASE CancelledWhileFull \/ Submit \/ SubmitFails \/ WriteFailed \/ WaitReaps
       \/ WaitCancelsAgain \/ CancelDownload \/ CancelAsyncIO
  BY <1>2, Zenon DEF CancelledWhileFull, Submit, SubmitFails, WriteFailed,
     WaitReaps, WaitCancelsAgain, CancelDownload, CancelAsyncIO
<1>3. CASE WaitEnds \/ SyncFallbackSucceeds \/ SyncFallbackFails \/
       SyncFallbackFindsNothing
  BY <1>3, Zenon
<1>4. CASE ReduceQueueDepth \/ StartDrain \/ DrainEnds \/ DrainGivesUp
  BY <1>4, Zenon DEF ReduceQueueDepth, StartDrain, DrainEnds, DrainGivesUp
<1>5. CASE \E w \in inFlight : Kernel(w)
  BY <1>5, Zenon DEF Kernel, KernelCompletes
<1>6. CASE UNCHANGED vars
  BY <1>6, Zenon DEF vars, progress
<1> QED
  BY <1>1, <1>2, <1>3, <1>4, <1>5, <1>6, Zenon
     DEF Next, Step, ExtractThread, MainThread

LEMMA FirstErrorSteps ==
  ASSUME [Next]_vars
  PROVE  firstError' => firstError \/ \E c \in completed : c.result = "error"
<1>a. UNCHANGED firstError \/ ~firstError'
        => (firstError' => firstError \/ \E c \in completed : c.result = "error")
  BY Zenon
<1>b. ProcessCompletions
        => (firstError' => firstError \/ \E c \in completed : c.result = "error")
  BY Zenon DEF ProcessCompletions
<1> USE DEF fileVars
<1>1. CASE Decompress \/ EndOfImage \/ StopWaitingForSlot \/ SkipWrite \/
       WriteSync \/ RefuseAfterError \/ CancelledWhileFull \/ Submit
  BY <1>1, <1>a, Zenon DEF Decompress, EndOfImage, StopWaitingForSlot, SkipWrite,
     WriteSync, RefuseAfterError, CancelledWhileFull, Submit
<1>2. CASE PollBeforeSubmit \/ WaitForRoom \/ WaitReaps \/
       SyncFallbackFindsNothing
  BY <1>2, <1>b, Zenon DEF PollBeforeSubmit, WaitForRoom, WaitReaps,
     SyncFallbackFindsNothing
<1>3. CASE SubmitFails \/ WriteFailed \/ WaitEnds \/ WaitCancelsAgain \/
       SyncFallbackSucceeds \/ SyncFallbackFails \/ CancelDownload \/
       CancelAsyncIO
  BY <1>3, <1>a, Zenon DEF SubmitFails, WriteFailed, WaitEnds, WaitCancelsAgain,
     SyncFallbackSucceeds, SyncFallbackFails, CancelDownload, CancelAsyncIO
<1>4. CASE ReduceQueueDepth \/ StartDrain \/ DrainEnds \/ DrainGivesUp
  BY <1>4, <1>a, Zenon DEF ReduceQueueDepth, StartDrain, DrainEnds, DrainGivesUp
<1>5. CASE \E w \in inFlight : Kernel(w)
  BY <1>5, <1>a, Zenon DEF Kernel, KernelCompletes
<1>6. CASE UNCHANGED vars
  BY <1>6, <1>a, Zenon DEF vars, progress
<1> QED
  BY <1>1, <1>2, <1>3, <1>4, <1>5, <1>6, Zenon
     DEF Next, Step, ExtractThread, MainThread

\* The steps at which _writeComplete() announces the image as written.
LEMMA WrittenSteps ==
  ASSUME TypeInv, PoolInv, FlushNeverStalls, [Next]_vars,
         outcome # "written", outcome' = "written"
  PROVE  /\ pc = "drain" /\ ~cancelled
         /\ \/ pending = {} /\ ~firstError /\ UNCHANGED device
            \/ Emergency /\ Replay(pending)
            \/ Emergency /\ ProcessCompletions /\ Ids(pending) \subseteq Ids(completed)
<1>w. \A ok : Waiting /\ AfterWait(ok) => pc = "drain" /\ ~cancelled /\ ok
  BY WaitResult, SMT DEF PoolInv, PlacesKept
<1>1. CASE UNCHANGED outcome
  BY <1>1, Zenon
<1>2. CASE WaitEnds
  BY <1>2, <1>w, Zenon DEF WaitEnds, kernelVars
<1>3. CASE SyncFallbackSucceeds
  BY <1>3, <1>w, Zenon DEF SyncFallbackSucceeds, Emergencies
<1>4. CASE SyncFallbackFails
  BY <1>4, <1>w, Zenon DEF SyncFallbackFails, Emergencies, ReplayFailureReported
<1>5. CASE SyncFallbackFindsNothing
  BY <1>5, <1>w, Zenon DEF SyncFallbackFindsNothing, Emergencies
<1>6. \/ UNCHANGED outcome \/ WaitEnds
      \/ SyncFallbackSucceeds \/ SyncFallbackFails \/ SyncFallbackFindsNothing
  BY OutcomeSteps, Zenon
<1> QED
  BY <1>1, <1>2, <1>3, <1>4, <1>5, <1>6, Zenon

LEMMA DeviceKeptStep ==
  ASSUME TypeInv, PoolInv, DeviceInv, FlushNeverStalls, [Next]_vars
  PROVE  DeviceKept'
<1>0. /\ cursor \in 1..(NumBlocks + 1) /\ next \in 1..(NumBlocks + 1)
      /\ cursor \in Nat /\ device \in [Blocks -> 0..NumBlocks]
      /\ cursor <= next /\ (Filling => cursor < next)
  BY SMT DEF TypeInv, TypeOK, Bounds
<1>1. firstError' => IOErrors'
  <2>1. firstError' => firstError \/ \E c \in completed : c.result = "error"
    BY FirstErrorSteps, Zenon
  <2> QED
    BY <2>1, SameScenario, Zenon DEF DeviceInv, DeviceKept, CompletedKept
<1>2. ASSUME NothingWrong', NEW b \in 1..(cursor' - 1)
      PROVE  device'[b] = b \/ \E w \in pending' : w.offset = b
  <2>0. /\ NothingWrong
        /\ \/ UNCHANGED <<cursor, pending>>
           \/ ProcessCompletions
           \/ Submit
           \/ /\ WriteSync /\ cursor' = cursor + 1 /\ UNCHANGED pending
              /\ device' = [device EXCEPT ![cursor] = content[held]]
    BY <1>2, GoodSteps, Zenon DEF DeviceInv
  <2>1. \A a \in 1..(cursor - 1) : device[a] = a \/ \E w \in pending : w.offset = a
    BY <2>0, Zenon DEF DeviceInv, DeviceKept, NothingWrong
  <2>2. \A a \in 1..(cursor - 1) : a \in Blocks
    BY <1>0, SMT DEF Blocks
  <2>3. \A a \in Blocks : device[a] = a => device'[a] = a
    BY DeviceNeverSpoiled, Zenon
  <2>4. CASE UNCHANGED <<cursor, pending>>
    BY <1>2, <2>1, <2>2, <2>3, <2>4, Zenon
  <2>5. CASE ProcessCompletions
    <3>1. pending' = pending \ Reaped /\ cursor' = cursor /\ device' = device
      BY <2>5, ReapingTypes, Zenon DEF TypeInv
    <3>2. \A w \in Reaped : device[w.offset] = w.offset
      <4> SUFFICES ASSUME NEW w \in Reaped PROVE device[w.offset] = w.offset
        OBVIOUS
      <4>1. PICK c \in completed : c.id = w.id /\ w \in pending
        BY SMT DEF Reaped, Ids
      <4>2. c.result \in {"ok", "error", "canceled"}
        BY SMT DEF TypeInv, TypeOK
      <4>3. c.result # "error"
        <5>1. c.id \in Ids(pending)
          BY <4>1, Zenon DEF Ids
        <5>2. ~firstError'
          BY <1>2, Zenon DEF NothingWrong
        <5> QED
          BY <2>5, <5>1, <5>2, Zenon DEF ProcessCompletions
      <4>4. c.result # "canceled"
        BY <2>0, Zenon DEF DeviceInv, CompletedKept, CancelKept, NothingWrong
      <4> QED
        BY <4>1, <4>2, <4>3, <4>4, Zenon DEF DeviceInv, CompletedKept
    <3>3. CASE device[b] = b
      BY <3>1, <3>3, Zenon
    <3>4. ASSUME NEW w \in pending, w.offset = b
          PROVE  device'[b] = b \/ \E v \in pending' : v.offset = b
      BY <3>1, <3>2, <3>4, Zenon
    <3> QED
      BY <1>2, <2>1, <3>1, <3>3, <3>4, Zenon
  <2>6. CASE Submit
    <3> DEFINE new == [id |-> nextWriteId, offset |-> cursor, slot |-> held]
    <3>1. new.offset = cursor
      BY Zenon
    <3>2. pending' = pending \cup {new} /\ cursor' = cursor + 1
      BY <2>6, Zenon DEF Submit
    <3> HIDE DEF new
    <3>3. b = cursor \/ b \in 1..(cursor - 1)
      BY <1>0, <1>2, <3>2, SMT
    <3> QED
      BY <2>1, <2>2, <2>3, <3>1, <3>2, <3>3, Zenon
  <2>7. CASE /\ WriteSync /\ cursor' = cursor + 1 /\ UNCHANGED pending
             /\ device' = [device EXCEPT ![cursor] = content[held]]
    <3>1. content[held] = cursor /\ cursor \in Blocks
      BY <1>0, <2>7, SMT DEF WriteSync, PoolInv, CursorKept, ContentKept, Filling, Blocks
    <3>2. device'[cursor] = cursor
      BY <1>0, <2>7, <3>1, SMT
    <3>3. b = cursor \/ b \in 1..(cursor - 1)
      BY <1>0, <1>2, <2>7, SMT
    <3> QED
      BY <2>1, <2>2, <2>3, <2>7, <3>2, <3>3, Zenon
  <2> QED
    BY <2>0, <2>4, <2>5, <2>6, <2>7, Zenon
<1> QED
  BY <1>1, <1>2, Zenon DEF DeviceKept, NothingWrong

LEMMA WrittenStep ==
  ASSUME TypeInv, PoolInv, DeviceInv, FlushNeverStalls, StallIsFirstFailure, [Next]_vars
  PROVE  WrittenMeansOnDevice'
<1> SUFFICES ASSUME outcome' = "written", NEW b \in Blocks
             PROVE  device'[b] = b
  BY Zenon DEF WrittenMeansOnDevice, Blocks
<1>1. device[b] = b => device'[b] = b
  BY DeviceNeverSpoiled, Zenon
<1>2. CASE outcome = "written"
  BY <1>1, <1>2, Zenon DEF DeviceInv, WrittenMeansOnDevice
<1>3. CASE outcome # "written"
  <2>1. /\ pc = "drain" /\ ~cancelled
        /\ \/ pending = {} /\ ~firstError /\ UNCHANGED device
           \/ Emergency /\ Replay(pending)
           \/ Emergency /\ ProcessCompletions /\ Ids(pending) \subseteq Ids(completed)
    BY <1>3, WrittenSteps, Zenon
  <2>2. ~firstError
    BY <2>1, Zenon DEF StallIsFirstFailure, DeviceInv, DeviceKept
  <2>3. cursor = NumBlocks + 1
    BY <2>1, SMT DEF PoolInv, PlacesKept, CursorKept
  <2>4. device[b] = b \/ \E w \in pending : w.offset = b
    <3>1. b \in 1..(cursor - 1)
      BY <2>3, SMT DEF Blocks
    <3> QED
      BY <2>1, <2>2, <3>1, SMT DEF DeviceInv, DeviceKept
  <2>5. CASE pending = {} /\ UNCHANGED device
    BY <2>4, <2>5, Zenon
  <2>6. CASE Replay(pending)
    <3>1. \/ device'[b] = device[b] /\ ~\E w \in pending : w.offset = b
          \/ \E w \in pending : w.offset = b /\ device'[b] = content[w.slot]
      <4>1. pending \in SUBSET pending
        BY Zenon
      <4> QED
        BY <2>6, <4>1, ReplayTypes, Zenon DEF TypeInv
    <3> QED
      BY <2>4, <3>1, Zenon DEF PoolInv, ContentKept
  <2>7. CASE Emergency /\ ProcessCompletions /\ Ids(pending) \subseteq Ids(completed)
    <3>1. \A w \in pending : device[w.offset] = w.offset
      <4> SUFFICES ASSUME NEW w \in pending PROVE device[w.offset] = w.offset
        OBVIOUS
      <4>1. PICK c \in completed : c.id = w.id
        BY <2>7, SMT DEF Ids
      <4>2. c.result \in {"ok", "error", "canceled"}
        BY SMT DEF TypeInv, TypeOK
      <4>3. c.result # "error"
        BY <2>7, Zenon DEF StallIsFirstFailure, DeviceInv, CompletedKept
      <4>4. c.result # "canceled"
        <5>1. pc # "done"
          BY <2>1, SMT
        <5> QED
          BY <2>1, <5>1, Zenon DEF DeviceInv, CompletedKept, CancelKept
      <4> QED
        BY <4>1, <4>2, <4>3, <4>4, Zenon DEF DeviceInv, CompletedKept
    <3> QED
      BY <1>1, <2>4, <3>1, Zenon
  <2> QED
    BY <2>1, <2>5, <2>6, <2>7, Zenon
<1> QED
  BY <1>2, <1>3, Zenon

LEMMA DeviceInit == Init => DeviceInv
BY SMT DEF Init, DeviceInv, WrittenMeansOnDevice, CancelKept, CompletedKept, DeviceKept

\* The two hypotheses under which everything announced as written is there.
OneThingAtATime == FlushNeverStalls /\ StallIsFirstFailure

LEMMA DeviceStep ==
  TypeInv /\ (FlushNeverStalls => PoolInv) /\ (OneThingAtATime => DeviceInv) /\ [Next]_vars
    => (OneThingAtATime => DeviceInv)'
<1> SUFFICES ASSUME TypeInv, FlushNeverStalls => PoolInv, OneThingAtATime => DeviceInv,
                    [Next]_vars, OneThingAtATime'
             PROVE  DeviceInv'
  BY Zenon DEF OneThingAtATime, FlushNeverStalls, StallIsFirstFailure
<1>0. FlushNeverStalls' /\ StallIsFirstFailure'
  BY Zenon DEF OneThingAtATime
<1>4. FlushNeverStalls
  BY <1>0, SameScenario, Zenon DEF FlushNeverStalls
<1>5. StallIsFirstFailure
  BY <1>0, SameScenario, Zenon DEF StallIsFirstFailure
<1>1. OneThingAtATime
  BY <1>4, <1>5, Zenon DEF OneThingAtATime
<1>2. FlushNeverStalls /\ StallIsFirstFailure /\ PoolInv /\ DeviceInv
  BY <1>1, Zenon DEF OneThingAtATime
<1>3. CancelKept' /\ CompletedKept'
  BY <1>2, CancelStep, CompletedStep, Zenon DEF DeviceInv
<1> QED
  BY <1>2, <1>3, DeviceKeptStep, WrittenStep, Zenon DEF DeviceInv

\* What is announced as written is on the device, every block at its offset,
\* whatever the sizes, the order of the completions and the switches on the way.
THEOREM AnnouncedIsOnDevice == Spec => [](OneThingAtATime => WrittenMeansOnDevice)
<1>1. Init => (OneThingAtATime => DeviceInv)
  BY DeviceInit, Zenon
<1>2. (OneThingAtATime => DeviceInv) => (OneThingAtATime => WrittenMeansOnDevice)
  BY Zenon DEF DeviceInv
<1> QED
  BY <1>1, <1>2, PoolKept, DeviceStep, PTL DEF Spec

\* No step, of whichever thread or of the kernel, overwrites a block that is right.
THEOREM RightBlocksStay ==
  Spec => [][FlushNeverStalls => \A b \in Blocks : device[b] = b => device'[b] = b]_vars
<1>1. TypeInv /\ (FlushNeverStalls => PoolInv) /\ [Next]_vars
        => [FlushNeverStalls => \A b \in Blocks : device[b] = b => device'[b] = b]_vars
  BY DeviceNeverSpoiled, Zenon
<1> QED
  BY <1>1, PoolKept, PTL DEF Spec
===============================================================================
