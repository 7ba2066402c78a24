------------------------------ MODULE UringWrite ------------------------------
(***************************************************************************)
(* The asynchronous write path on Linux: the extract thread fills slots of *)
(* the write ring and hands them to io_uring without copying               *)
(* (downloadextractthread.cpp, downloadthread.cpp,                         *)
(* linux/file_operations_linux.cpp); a slot comes back when the extract    *)
(* thread reaps the completion of its write.  Meanwhile the main thread    *)
(* may cancel, reduce the queue depth or switch to synchronous writes.     *)
(*                                                                         *)
(* Block b of the image belongs at offset b of the device.  Sizes, hashes  *)
(* and progress are left out; the slots are a set here, RingBuffer.tla has *)
(* the ring.                                                               *)
(***************************************************************************)
EXTENDS Integers, FiniteSets

CONSTANTS Slots,          \* the slots of the write ring
          NoSlot,
          NumBlocks,      \* blocks in the image
          MinDepth,       \* kMinAsyncQueueDepth (2)
          Patience,       \* writes the extract thread completes before the
                          \* drain has waited stallTimeoutSeconds
          Cancels,        \* the user may cancel
          Watchdog,       \* the watchdog may reduce the depth and hot-swap
          Scenarios       \* the devices and settings to consider

ASSUME NoSlotAssumption == NoSlot \notin Slots
ASSUME NumBlocksAssumption == NumBlocks \in Nat \ {0}
ASSUME DepthAssumption == MinDepth \in Nat \ {0, 1}
ASSUME PatienceAssumption == Patience \in Nat \ {0}
ASSUME SwitchesAssumption == {Cancels, Watchdog} \subseteq BOOLEAN
ASSUME ScenariosAssumption ==
  Scenarios \subseteq [depth : Nat \ {0, 1}, ioErrors : BOOLEAN,
                      periodicSyncs : BOOLEAN, emergency : BOOLEAN]

Blocks == 1..NumBlocks

VARIABLES
  pc,            \* where the extract thread is
  held,          \* the slot it is filling or submitting
  next,          \* the block it decompresses next
  free,          \* slots in the pool
  content,       \* the block each slot holds
  cursor,        \* async_write_offset_
  nextWriteId,   \* next_write_id_
  pending,       \* pending_callbacks_; its size is pending_writes_
  firstError,    \* first_async_error_ is set
  fileCancelled, \* cancelled_ of the file
  syncFallback,  \* sync_fallback_mode_
  depth,         \* async_queue_depth_
  inFlight,      \* writes the kernel has not completed
  cancelling,    \* ids of writes the kernel was asked to cancel
  completed,     \* the completion queue
  device,        \* the block at each offset; 0 is none
  cancelled,     \* _cancelled of the download thread
  hotSwap,       \* the watchdog's DrainAndSwitchToSync()
  sinceProgress, \* writes completed since pending last shrank, in a drain
  outcome,
  scenario       \* never changes

InitialDepth == scenario.depth           \* async_queue_depth_ at the start
IOErrors == scenario.ioErrors            \* the device may fail a write
PeriodicSyncs == scenario.periodicSyncs  \* _debugPeriodicSync, no direct I/O
Emergency == scenario.emergency          \* the kernel may stall for
                                         \* kEmergencyTimeoutSeconds

threadVars == <<pc, held, next>>
poolVars == <<free, content>>
fileVars == <<cursor, nextWriteId, pending, firstError, syncFallback>>
kernelVars == <<inFlight, completed, device>>
mainVars == <<cancelled, hotSwap>>
progress == <<threadVars, poolVars, fileVars, fileCancelled, depth, cancelling,
              kernelVars, mainVars, sinceProgress, outcome>>
vars == <<progress, scenario>>

Request == [id : Nat, offset : Blocks, slot : Slots]
Ids(writes) == {w.id : w \in writes}
SlotsOf(writes) == {w.slot : w \in writes}

Init == /\ scenario \in Scenarios
        /\ pc = "acquire"
        /\ held = NoSlot
        /\ next = 1
        /\ free = Slots
        /\ content = [s \in Slots |-> 0]
        /\ cursor = 1
        /\ nextWriteId = 1
        /\ pending = {}
        /\ firstError = FALSE
        /\ fileCancelled = FALSE
        /\ syncFallback = FALSE
        /\ depth = InitialDepth
        /\ inFlight = {}
        /\ cancelling = {}
        /\ completed = {}
        /\ device = [b \in Blocks |-> 0]
        /\ cancelled = FALSE
        /\ hotSwap = "no"
        /\ sinceProgress = 0
        /\ outcome = "running"

-------------------------------------------------------------------------------
(***************************************************************************)
(* The extract thread: extractImageRun() and _writeFile().                 *)
(***************************************************************************)
Async == ~syncFallback /\ depth > 1

\* A write the thread is done with counts against an ongoing drain.
CountWrite == sinceProgress' = IF hotSwap = "draining" /\ sinceProgress < Patience
                               THEN sinceProgress + 1 ELSE sinceProgress

\* The completion callback: the held slot goes back to the pool.
ReleaseHeld == free' = free \cup {held} /\ held' = NoSlot

\* _periodicSync() at the end of _writeFile() may flush.
AfterWrite == \/ pc' = "acquire"
              \/ PeriodicSyncs /\ ~cancelled /\ pc' = "flush"

\* acquireWriteSlot() and archive_read_data() into the slot.
Decompress ==
  /\ pc = "acquire"
  /\ next <= NumBlocks
  /\ \E s \in free : /\ held' = s
                     /\ free' = free \ {s}
                     /\ content' = [content EXCEPT ![s] = next]
  /\ next' = next + 1
  /\ pc' = "write"
  /\ UNCHANGED <<fileVars, fileCancelled, depth, cancelling, kernelVars,
                 mainVars, sinceProgress, outcome>>

\* Nothing left: the slot just acquired is released, then _writeComplete().
EndOfImage ==
  /\ pc = "acquire"
  /\ next > NumBlocks
  /\ free # {}
  /\ pc' = "drain"
  /\ UNCHANGED <<held, next, poolVars, fileVars, fileCancelled, depth, cancelling,
                 kernelVars, mainVars, sinceProgress, outcome>>

\* The wait for a slot ends when the download is cancelled.
StopWaitingForSlot ==
  /\ pc = "acquire"
  /\ free = {}
  /\ cancelled
  /\ pc' = "drain"
  /\ UNCHANGED <<held, next, poolVars, fileVars, fileCancelled, depth, cancelling,
                 kernelVars, mainVars, sinceProgress, outcome>>

\* _writeFile() drops the block once the download is cancelled.
SkipWrite ==
  /\ pc = "write"
  /\ cancelled
  /\ ReleaseHeld
  /\ pc' = "acquire"
  /\ UNCHANGED <<next, content, fileVars, fileCancelled, depth, cancelling,
                 kernelVars, mainVars, sinceProgress, outcome>>

\* Mutant: write() at the descriptor's position, which io_uring never moves.
DescriptorPosition == 1

\* WriteSequential() writes at the logical cursor (#1598).
SyncPosition == cursor

\* Mutant: the logical cursor stays behind a synchronous write.
WriteSyncKeepingCursor ==
  /\ pc = "write"
  /\ ~cancelled
  /\ ~Async
  /\ \/ /\ device' = [device EXCEPT ![SyncPosition] = content[held]]
        /\ AfterWrite
     \/ /\ IOErrors
        /\ pc' = "failed"
        /\ UNCHANGED device
  /\ ReleaseHeld
  /\ CountWrite
  /\ UNCHANGED <<next, content, cursor, nextWriteId, pending, firstError,
                 syncFallback, fileCancelled, depth, cancelling, inFlight,
                 completed, mainVars, outcome>>

WriteSync ==
  /\ pc = "write"
  /\ ~cancelled
  /\ ~Async
  /\ \/ /\ device' = [device EXCEPT ![SyncPosition] = content[held]]
        /\ cursor' = cursor + 1
        /\ AfterWrite
     \/ /\ IOErrors
        /\ pc' = "failed"
        /\ UNCHANGED <<device, cursor>>
  /\ ReleaseHeld
  /\ CountWrite
  /\ UNCHANGED <<next, content, nextWriteId, pending, firstError, syncFallback,
                 fileCancelled, depth, cancelling, inFlight, completed, mainVars,
                 outcome>>

\* Mutant: the callback is not invoked on an immediate failure.
RefuseWithoutCallback ==
  /\ pc = "write"
  /\ ~cancelled
  /\ Async
  /\ firstError
  /\ held' = NoSlot
  /\ pc' = "failed"
  /\ UNCHANGED <<next, poolVars, fileVars, fileCancelled, depth, cancelling,
                 kernelVars, mainVars, sinceProgress, outcome>>

\* An earlier write failed: AsyncWriteSequential() calls back at once.
RefuseAfterError ==
  /\ pc = "write"
  /\ ~cancelled
  /\ Async
  /\ firstError
  /\ ReleaseHeld
  /\ pc' = "failed"
  /\ UNCHANGED <<next, content, fileVars, fileCancelled, depth, cancelling,
                 kernelVars, mainVars, sinceProgress, outcome>>

(***************************************************************************)
(* ProcessCompletions(): every completion waiting is consumed; those whose *)
(* write is still in the map release their slot.  A write that was slow    *)
(* halves the queue depth.                                                 *)
(***************************************************************************)
\* Mutant: nothing keeps the depth above one.
HalvedWithoutFloor == depth \div 2

HalvedDepth == IF depth \div 2 > MinDepth THEN depth \div 2 ELSE MinDepth

ProcessCompletions ==
  LET reaped == {w \in pending : w.id \in Ids(completed)}
  IN /\ pending' = pending \ reaped
     /\ free' = free \cup SlotsOf(reaped)
     /\ completed' = IF pending = {} THEN completed ELSE {}
     /\ firstError' = (firstError \/ \E c \in completed :
                          c.result = "error" /\ c.id \in Ids(pending))
     /\ \E slow \in BOOLEAN :
          depth' = IF /\ slow
                      /\ reaped # {}
                      /\ depth >= 2 * MinDepth
                      /\ Cardinality(pending) <= depth
                      /\ ~syncFallback
                   THEN HalvedDepth ELSE depth
     /\ sinceProgress' = IF reaped # {} THEN 0 ELSE sinceProgress
  /\ UNCHANGED <<content, cursor, nextWriteId, inFlight, device>>

PollBeforeSubmit ==
  /\ pc = "write"
  /\ ~cancelled
  /\ Async
  /\ ~firstError
  /\ ProcessCompletions
  /\ pc' = "submit"
  /\ UNCHANGED <<held, next, syncFallback, fileCancelled, cancelling, mainVars, outcome>>

\* Mutant: one write more than the queue depth.
QueueFullOffByOne == Cardinality(pending) > depth

QueueFull == Cardinality(pending) >= depth

WaitForRoom ==
  /\ pc = "submit"
  /\ QueueFull
  /\ ~fileCancelled
  /\ completed # {}
  /\ ProcessCompletions
  /\ UNCHANGED <<threadVars, syncFallback, fileCancelled, cancelling, mainVars,
                 outcome>>

CancelledWhileFull ==
  /\ pc = "submit"
  /\ QueueFull
  /\ fileCancelled
  /\ ReleaseHeld
  /\ pc' = "failed"
  /\ UNCHANGED <<next, content, fileVars, fileCancelled, depth, cancelling,
                 kernelVars, mainVars, sinceProgress, outcome>>

\* Mutant: the slot is released once the write is queued.
SubmitAndRelease ==
  /\ pc = "submit"
  /\ ~QueueFull
  /\ LET w == [id |-> nextWriteId, offset |-> cursor, slot |-> held]
     IN pending' = pending \cup {w} /\ inFlight' = inFlight \cup {w}
  /\ cursor' = cursor + 1
  /\ nextWriteId' = nextWriteId + 1
  /\ ReleaseHeld
  /\ AfterWrite
  /\ CountWrite
  /\ UNCHANGED <<next, content, firstError, syncFallback, fileCancelled, depth,
                 cancelling, completed, device, mainVars, outcome>>

\* The rest of AsyncWriteSequential(): the kernel gets the slot itself.
Submit ==
  /\ pc = "submit"
  /\ ~QueueFull
  /\ LET w == [id |-> nextWriteId, offset |-> cursor, slot |-> held]
     IN pending' = pending \cup {w} /\ inFlight' = inFlight \cup {w}
  /\ cursor' = cursor + 1
  /\ nextWriteId' = nextWriteId + 1
  /\ held' = NoSlot
  /\ AfterWrite
  /\ CountWrite
  /\ UNCHANGED <<next, poolVars, firstError, syncFallback, fileCancelled, depth,
                 cancelling, completed, device, mainVars, outcome>>

SubmitFails ==
  /\ pc = "submit"
  /\ IOErrors
  /\ ~QueueFull
  /\ cursor' = cursor + 1
  /\ nextWriteId' = nextWriteId + 1
  /\ ReleaseHeld
  /\ pc' = "failed"
  /\ UNCHANGED <<next, content, pending, firstError, syncFallback, fileCancelled,
                 depth, cancelling, kernelVars, mainVars, sinceProgress, outcome>>

\* A failed write ends the extraction unless the download was cancelled.
WriteFailed ==
  /\ pc = "failed"
  /\ pc' = IF cancelled THEN "acquire" ELSE "errorDrain"
  /\ UNCHANGED <<held, next, poolVars, fileVars, fileCancelled, depth, cancelling,
                 kernelVars, mainVars, sinceProgress, outcome>>

-------------------------------------------------------------------------------
(***************************************************************************)
(* WaitForPendingWrites(), called by Flush() ("flush"), by _writeComplete()*)
(* ("drain") and after an error ("errorDrain").                            *)
(***************************************************************************)
Waiting == pc \in {"flush", "drain", "errorDrain"}

\* What the caller does with the result.
AfterWait(ok) ==
  /\ pc' = IF pc = "flush" THEN "acquire" ELSE "done"
  /\ outcome' = IF pc = "flush" THEN outcome
                ELSE IF pc = "errorDrain" \/ ~ok THEN "failed"
                ELSE IF cancelled THEN "cancelled"
                ELSE "written"

WaitEnds ==
  /\ Waiting
  /\ pending = {}
  /\ AfterWait(~firstError)
  /\ UNCHANGED <<held, next, poolVars, fileVars, fileCancelled, depth, cancelling,
                 kernelVars, mainVars, sinceProgress>>

WaitReaps ==
  /\ Waiting
  /\ pending # {}
  /\ completed # {}
  /\ ProcessCompletions
  /\ UNCHANGED <<threadVars, syncFallback, fileCancelled, cancelling, mainVars,
                 outcome>>

\* A cancelled wait asks again for every write still pending.
WaitCancelsAgain ==
  /\ Waiting
  /\ fileCancelled
  /\ ~(Ids(pending) \subseteq cancelling)
  /\ cancelling' = cancelling \cup Ids(pending)
  /\ UNCHANGED <<threadVars, poolVars, fileVars, fileCancelled, depth, kernelVars,
                 mainVars, sinceProgress, outcome>>

(***************************************************************************)
(* AttemptSyncFallback(), five minutes into the wait: the pending writes   *)
(* are cancelled, forgotten and replayed from their slots, lowest offset   *)
(* first.                                                                  *)
(***************************************************************************)
Emergencies == Waiting /\ Emergency /\ pending # {}

Replay(writes) ==
  /\ device' = [b \in Blocks |->
                  IF \E w \in writes : w.offset = b
                  THEN content[(CHOOSE w \in writes : w.offset = b).slot]
                  ELSE device[b]]
  /\ free' = free \cup SlotsOf(writes)

ForgetPending == /\ cancelling' = cancelling \cup Ids(pending)
                 /\ pending' = {}
                 /\ syncFallback' = TRUE
                 /\ sinceProgress' = 0

SyncFallbackSucceeds ==
  /\ Emergencies
  /\ Replay(pending)
  /\ ForgetPending
  /\ \E last \in pending : /\ \A w \in pending : w.offset <= last.offset
                            /\ cursor' = last.offset + 1
  /\ fileCancelled' = FALSE
  /\ firstError' = FALSE
  /\ AfterWait(TRUE)
  /\ UNCHANGED <<held, next, content, nextWriteId, depth, inFlight, completed,
                 mainVars>>

\* Mutant: the failure of the replay is not reported.
ReplayFailureIgnored == TRUE

ReplayFailureReported == FALSE

\* A replayed write fails: neither it nor the later ones are called back.
SyncFallbackFails ==
  /\ Emergencies
  /\ \E failed \in pending : Replay({w \in pending : w.offset < failed.offset})
  /\ ForgetPending
  /\ fileCancelled' = TRUE
  /\ AfterWait(ReplayFailureReported)
  /\ UNCHANGED <<held, next, content, cursor, nextWriteId, firstError, depth,
                 inFlight, completed, mainVars>>

\* The last write completed as the five minutes ran out: nothing to replay.
SyncFallbackFindsNothing ==
  /\ Emergencies
  /\ Ids(pending) \subseteq Ids(completed)
  /\ ProcessCompletions
  /\ syncFallback' = TRUE
  /\ AfterWait(TRUE)
  /\ UNCHANGED <<held, next, fileCancelled, cancelling, mainVars>>

ExtractThread ==
  \/ Decompress \/ EndOfImage \/ StopWaitingForSlot \/ SkipWrite \/ WriteSync
  \/ RefuseAfterError \/ PollBeforeSubmit \/ WaitForRoom \/ CancelledWhileFull
  \/ Submit \/ SubmitFails \/ WriteFailed \/ WaitEnds \/ WaitReaps
  \/ WaitCancelsAgain

-------------------------------------------------------------------------------
(***************************************************************************)
(* The kernel completes writes in any order, reading the slot as it does.  *)
(***************************************************************************)
KernelCompletes(w, result) ==
  /\ w \in inFlight
  /\ device' = IF result = "ok" THEN [device EXCEPT ![w.offset] = content[w.slot]]
                                ELSE device
  /\ inFlight' = inFlight \ {w}
  /\ completed' = completed \cup {[id |-> w.id, result |-> result]}
  /\ UNCHANGED <<threadVars, poolVars, fileVars, fileCancelled, depth, cancelling,
                 mainVars, sinceProgress, outcome>>

Kernel(w) == \/ KernelCompletes(w, "ok")
             \/ IOErrors /\ KernelCompletes(w, "error")
             \/ w.id \in cancelling /\ KernelCompletes(w, "canceled")

(***************************************************************************)
(* The main thread.  It cannot cancel while it waits for a drain.          *)
(***************************************************************************)
\* cancelDownload(): first the thread's flag ...
CancelDownload ==
  /\ Cancels
  /\ outcome = "running"
  /\ hotSwap # "draining"
  /\ ~cancelled
  /\ cancelled' = TRUE
  /\ UNCHANGED <<threadVars, poolVars, fileVars, fileCancelled, depth, cancelling,
                 kernelVars, hotSwap, sinceProgress, outcome>>

\* Mutant: the file is cancelled before the flag is set.
CancelAsyncIOFirst ==
  /\ Cancels
  /\ outcome = "running"
  /\ ~fileCancelled
  /\ hotSwap # "draining"
  /\ fileCancelled' = TRUE
  /\ cancelling' = cancelling \cup Ids(pending)
  /\ UNCHANGED <<threadVars, poolVars, fileVars, depth, kernelVars, mainVars,
                 sinceProgress, outcome>>

\* ... then CancelAsyncIO().
CancelAsyncIO ==
  /\ cancelled
  /\ ~fileCancelled
  /\ fileCancelled' = TRUE
  /\ cancelling' = cancelling \cup Ids(pending)
  /\ UNCHANGED <<threadVars, poolVars, fileVars, depth, kernelVars, mainVars,
                 sinceProgress, outcome>>

\* tryQueueDepthReduction() after 30 s without progress.
ReduceQueueDepth ==
  /\ Watchdog
  /\ hotSwap = "no"
  /\ pending # {}
  /\ depth > 2
  /\ depth' = HalvedDepth
  /\ UNCHANGED <<threadVars, poolVars, fileVars, fileCancelled, cancelling,
                 kernelVars, mainVars, sinceProgress, outcome>>

\* tryDrainAndHotSwap() after 60 s: DrainAndSwitchToSync().
StartDrain ==
  /\ Watchdog
  /\ hotSwap = "no"
  /\ pending # {}
  /\ outcome = "running"
  /\ syncFallback' = TRUE
  /\ hotSwap' = "draining"
  /\ sinceProgress' = 0
  /\ UNCHANGED <<threadVars, poolVars, cursor, nextWriteId, pending, firstError,
                 fileCancelled, depth, cancelling, kernelVars, cancelled, outcome>>

DrainEnds ==
  /\ hotSwap = "draining"
  /\ pending = {}
  /\ hotSwap' = "done"
  /\ UNCHANGED <<threadVars, poolVars, fileVars, fileCancelled, depth, cancelling,
                 kernelVars, cancelled, sinceProgress, outcome>>

\* No completion was reaped for stallTimeoutSeconds.
DrainGivesUp ==
  /\ hotSwap = "draining"
  /\ pending # {}
  /\ completed = {} \/ sinceProgress >= Patience
  /\ hotSwap' = "abandoned"
  /\ UNCHANGED <<threadVars, poolVars, fileVars, fileCancelled, depth, cancelling,
                 kernelVars, cancelled, sinceProgress, outcome>>

MainThread == CancelDownload \/ CancelAsyncIO \/ ReduceQueueDepth \/ StartDrain
              \/ DrainEnds \/ DrainGivesUp

Step == \/ ExtractThread
        \/ SyncFallbackSucceeds
        \/ SyncFallbackFails
        \/ SyncFallbackFindsNothing
        \/ MainThread
        \/ \E w \in inFlight : Kernel(w)

Next == Step /\ UNCHANGED scenario

(***************************************************************************)
(* The extract thread keeps running, the device completes what it was      *)
(* given, and cancelDownload() runs to its end.                            *)
(***************************************************************************)
Fairness == /\ WF_progress(ExtractThread)
            /\ WF_progress(\E w \in inFlight : Kernel(w))
            /\ WF_progress(CancelAsyncIO)

Spec == Init /\ [][Next]_vars
FairSpec == Spec /\ Fairness

-------------------------------------------------------------------------------
(***************************************************************************)
(* Every variable stays within its type.                                   *)
(***************************************************************************)
TypeOK ==
  /\ pc \in {"acquire", "write", "submit", "failed", "flush", "drain",
             "errorDrain", "done"}
  /\ held \in Slots \cup {NoSlot}
  /\ next \in 1..(NumBlocks + 1)
  /\ free \subseteq Slots
  /\ content \in [Slots -> 0..NumBlocks]
  /\ cursor \in 1..(NumBlocks + 1)
  /\ nextWriteId \in 1..(NumBlocks + 1)
  /\ pending \subseteq Request
  /\ firstError \in BOOLEAN
  /\ fileCancelled \in BOOLEAN
  /\ syncFallback \in BOOLEAN
  /\ depth \in Nat \ {0, 1}
  /\ inFlight \subseteq Request
  /\ cancelling \subseteq Nat
  /\ completed \subseteq [id : Nat, result : {"ok", "error", "canceled"}]
  /\ device \in [Blocks -> 0..NumBlocks]
  /\ cancelled \in BOOLEAN
  /\ hotSwap \in {"no", "draining", "done", "abandoned"}
  /\ sinceProgress \in 0..Patience
  /\ outcome \in {"running", "written", "failed", "cancelled"}
  /\ scenario \in Scenarios

(***************************************************************************)
(* A slot is in the pool, with the extract thread or with exactly one      *)
(* pending write, and none is lost until a synchronous replay fails.       *)
(***************************************************************************)
SlotsAccounted ==
  /\ held \notin free
  /\ \A w \in pending : w.slot \notin free \cup {held}
  /\ \A v, w \in pending : v.slot = w.slot => v = w
  /\ outcome # "failed" => Slots \subseteq free \cup {held} \cup SlotsOf(pending)

(***************************************************************************)
(* file_operations.h:178, ringbuffer.h:104-107: a slot the kernel is still *)
(* reading is not refilled.                                                *)
(***************************************************************************)
BufferStable == \A w \in inFlight : content[w.slot] = w.offset

(***************************************************************************)
(* Between two writes the logical cursor stands where the next block       *)
(* belongs, whichever mix of synchronous and asynchronous writes led there *)
(* (#1598).                                                                *)
(***************************************************************************)
CursorFollowsBlocks ==
  pc = "acquire" /\ ~cancelled => cursor = next

(***************************************************************************)
(* When _writeComplete() goes on past the drain, every block of the image  *)
(* is at its offset on the device: no write error, cancellation, depth     *)
(* change or switch to synchronous writes slips through as a success.      *)
(***************************************************************************)
WrittenMeansOnDevice ==
  outcome = "written" => \A b \in Blocks : device[b] = b

(***************************************************************************)
(* DrainAndSwitchToSync() (file_operations_linux.cpp:1000-1005) relies on  *)
(* the extract thread to drain the writes under way: it gives up only for  *)
(* want of completions, not because nobody reaped them.                    *)
(***************************************************************************)
DrainIsServed ==
  [][hotSwap = "draining" /\ hotSwap' = "abandoned" => completed = {}]_vars

(***************************************************************************)
(* The write ends: with more slots than queue entries the extract thread   *)
(* always gets to reap the completions it waits for.  In a kernel that     *)
(* stalls for five minutes at every turn it may wait for ever.             *)
(***************************************************************************)
WriteEnds == ~Emergency => <>(outcome # "running")

(***************************************************************************)
(* file_operations_linux.cpp:770-772: completions are always drained       *)
(* promptly without external prodding.                                     *)
(***************************************************************************)
CompletionsAreDrained == (completed # {}) ~> (completed = {})
===============================================================================
