------------------------------ MODULE CacheWriter ------------------------------
(***************************************************************************)
(* The cache file of one download (asynccachewriter.cpp and its callers in *)
(* downloadthread.cpp and downloadextractthread.cpp).  The download thread *)
(* queues every chunk it hands to the extract thread; a writer thread      *)
(* appends them to the file; the extract thread finishes the file when the *)
(* image is complete, and everybody cancels it when something goes wrong.  *)
(***************************************************************************)
EXTENDS Naturals, Sequences

CONSTANTS NumChunks,      \* chunks the server sends
          NeededChunks,   \* chunks the extract thread needs to finish the image
          MaxQueue,       \* _maxQueueSize
          DiskErrors,     \* a write to the cache file may fail
          SlowDisk,       \* a write to the cache file may take more than 10 s
          NetworkErrors,  \* curl may give up
          ImageErrors,    \* the image may be wrong, or the device may fail
          Cancels         \* the user may cancel

ASSUME ChunksAssumption == /\ NumChunks \in Nat \ {0}
                           /\ NeededChunks \in 1..NumChunks
                           /\ MaxQueue \in Nat \ {0}
ASSUME FaultsAssumption ==
  {DiskErrors, SlowDisk, NetworkErrors, ImageErrors, Cancels} \subseteq BOOLEAN

\* The threads that call the writer: main only destroys it.
Callers == {"download", "extract", "main"}

VARIABLES
  pc,           \* where each caller is
  writer,       \* where the writer thread is
  queue,        \* _queue
  chunk,        \* the chunk the writer thread has taken, 0 for none
  exists,       \* the cache file is in its directory
  stored,       \* the chunks in the cache file
  hashed,       \* the chunks _hash has seen
  isActive, shouldStop, hasError, finishing,  \* the writer's flags
  cacheEnabled, \* _cacheEnabled
  cancelled,    \* _cancelled
  received,     \* chunks curl has delivered
  published     \* cacheFileHashUpdated() was emitted

flags == <<isActive, shouldStop, hasError, finishing>>
file  == <<exists, stored, hashed>>
vars  == <<pc, writer, queue, chunk, file, flags, cacheEnabled, cancelled,
           received, published>>

\* setCacheFile() has opened the file, at its full size, and started the thread.
Init == /\ pc = [c \in Callers |-> "running"]
        /\ writer = "loop"
        /\ queue = <<>>
        /\ chunk = 0
        /\ exists = TRUE
        /\ stored = <<>>
        /\ hashed = <<>>
        /\ isActive = TRUE
        /\ shouldStop = FALSE
        /\ hasError = FALSE
        /\ finishing = FALSE
        /\ cacheEnabled = TRUE
        /\ cancelled = FALSE
        /\ received = 0
        /\ published = FALSE

Goto(c, label) == pc' = [pc EXCEPT ![c] = label]

-------------------------------------------------------------------------------
(***************************************************************************)
(* The download thread: _writeData(), _writeCache() and write().           *)
(***************************************************************************)
\* isActive().
Healthy == isActive /\ ~hasError

\* curl delivers a chunk; what _writeCache() asks before write().
WriteCache ==
  /\ pc["download"] = "running"
  /\ received < NumChunks
  /\ ~cancelled
  /\ received' = received + 1
  /\ cacheEnabled' = (cacheEnabled /\ ~hasError)
  /\ IF cacheEnabled /\ Healthy THEN Goto("download", "write") ELSE UNCHANGED pc
  /\ UNCHANGED <<writer, queue, chunk, file, flags, cancelled, published>>

\* Mutant: one chunk too many.
QueueOverFull == Len(queue) > MaxQueue

QueueFull == Len(queue) >= MaxQueue

\* write() finds the writer stopped or failed, at once or while it waits.
WriteRefused ==
  /\ pc["download"] \in {"write", "full"}
  /\ \/ shouldStop \/ hasError
     \/ pc["download"] = "write" /\ ~isActive
  /\ cacheEnabled' = FALSE
  /\ Goto("download", "running")
  /\ UNCHANGED <<writer, queue, chunk, file, flags, cancelled, received, published>>

Enqueue ==
  /\ \/ pc["download"] = "write" /\ isActive /\ ~hasError /\ ~shouldStop
     \/ pc["download"] = "full"
  /\ ~QueueFull
  /\ queue' = Append(queue, received)
  /\ Goto("download", "running")
  /\ UNCHANGED <<writer, chunk, file, flags, cacheEnabled, cancelled, received,
                 published>>

WaitForSpace ==
  /\ pc["download"] = "write"
  /\ isActive /\ ~hasError /\ ~shouldStop
  /\ QueueFull
  /\ Goto("download", "full")
  /\ UNCHANGED <<writer, queue, chunk, file, flags, cacheEnabled, cancelled,
                 received, published>>

\* 500 ms without space: the download goes on without a cache.
GiveUpCaching ==
  /\ pc["download"] = "full"
  /\ QueueFull
  /\ hasError' = TRUE
  /\ cacheEnabled' = FALSE
  /\ Goto("download", "running")
  /\ UNCHANGED <<writer, queue, chunk, file, isActive, shouldStop, finishing,
                 cancelled, received, published>>

\* curl ends early: deleteDownloadedFile() comes first.
CurlEnds ==
  /\ pc["download"] = "running"
  /\ Goto("download", "cancel")
  /\ UNCHANGED <<writer, queue, chunk, file, flags, cacheEnabled, cancelled,
                 received, published>>

\* The callbacks stop curl after a cancel.
CurlStops == cancelled /\ CurlEnds

\* The connection breaks.
CurlFails == NetworkErrors /\ CurlEnds

\* CURLE_OK, then the join in _onDownloadSuccess().
CurlDone ==
  /\ pc["download"] = "running"
  /\ received = NumChunks
  /\ pc["extract"] = "done"
  /\ Goto("download", "done")
  /\ UNCHANGED <<writer, queue, chunk, file, flags, cacheEnabled, cancelled,
                 received, published>>

-------------------------------------------------------------------------------
(***************************************************************************)
(* finish() and cancel(), which any thread may call.                       *)
(***************************************************************************)
\* The early return of cancel().
NothingToCancel == ~isActive /\ writer = "ended"

\* The caller goes on; when curl has failed that is _onDownloadError().
CancelReturns(c) == /\ Goto(c, "done")
                    /\ cancelled' = (cancelled \/ c = "download")

CancelWriter(c) ==
  /\ pc[c] = "cancel"
  /\ IF NothingToCancel
     THEN CancelReturns(c) /\ UNCHANGED shouldStop
     ELSE Goto(c, "cancelling") /\ shouldStop' = TRUE /\ UNCHANGED cancelled
  /\ UNCHANGED <<writer, queue, chunk, file, isActive, hasError, finishing,
                 cacheEnabled, received, published>>

\* cleanup().
Cleanup == /\ queue' = <<>>
           /\ exists' = FALSE
           /\ UNCHANGED <<stored, hashed>>

\* The thread has ended, or 10 s are over and it is left to clean up by itself;
\* deleting it then makes Qt abort the program.
CancelWaited(c) ==
  /\ pc[c] = "cancelling"
  /\ \/ writer = "ended" /\ Cleanup /\ CancelReturns(c)
     \/ /\ SlowDisk
        /\ writer # "ended"
        /\ IF c = "main" THEN Goto(c, "aborted") /\ UNCHANGED cancelled
                         ELSE CancelReturns(c)
        /\ UNCHANGED <<queue, file>>
  /\ isActive' = FALSE
  /\ UNCHANGED <<writer, chunk, shouldStop, hasError, finishing, cacheEnabled,
                 received, published>>

\* The chunks the extract thread may have: each follows its _writeCache().
Extractable == IF pc["download"] \in {"write", "full"} THEN received - 1 ELSE received

\* The end of a whole image: _writeComplete(), or the end of the archive.
FinishCache ==
  /\ pc["extract"] = "running"
  /\ Extractable >= NeededChunks
  /\ ~cancelled
  /\ IF cacheEnabled /\ Healthy
     THEN finishing' = TRUE /\ Goto("extract", "finishing")
     ELSE Goto("extract", "sync") /\ UNCHANGED finishing
  /\ UNCHANGED <<writer, queue, chunk, file, isActive, shouldStop, hasError,
                 cacheEnabled, cancelled, received, published>>

\* Mutant: finish() does not wait for the thread.
FinishWithoutWaiting == TRUE

\* wait() in finish().
WriterWaitedFor == writer = "ended"

\* finish() returns, and the hash is published whatever became of the file.
Publish ==
  /\ pc["extract"] = "finishing"
  /\ WriterWaitedFor
  /\ isActive' = FALSE
  /\ published' = TRUE
  /\ Goto("extract", "sync")
  /\ UNCHANGED <<writer, queue, chunk, file, shouldStop, hasError, finishing,
                 cacheEnabled, cancelled, received>>

\* The rest of _writeComplete() ends in _closeFiles(); that of an archive does not.
CloseFiles ==
  /\ pc["extract"] = "sync"
  /\ \E next \in {"cancel", "done"} : Goto("extract", next)
  /\ UNCHANGED <<writer, queue, chunk, file, flags, cacheEnabled, cancelled,
                 received, published>>

\* The extract thread gives up.
ExtractionEnds ==
  /\ pc["extract"] = "running"
  /\ Extractable > 0
  /\ cancelled' = TRUE
  /\ \E next \in {"cancel", "done"} : Goto("extract", next)
  /\ UNCHANGED <<writer, queue, chunk, file, flags, cacheEnabled, received, published>>

\* The ring is cancelled.
ExtractionStops == cancelled /\ ExtractionEnds

\* A wrong hash, a failing write, or a bad archive.
ExtractionFails == ImageErrors /\ ExtractionEnds

\* The extract thread was never started, so nobody has to end it.
NoExtraction ==
  /\ pc["extract"] = "running"
  /\ Extractable = 0
  /\ pc["download"] \in {"cancel", "cancelling", "done"}
  /\ Goto("extract", "done")
  /\ UNCHANGED <<writer, queue, chunk, file, flags, cacheEnabled, cancelled,
                 received, published>>

\* cancelDownload().
UserCancels ==
  /\ Cancels
  /\ ~cancelled
  /\ pc["main"] = "running"
  /\ cancelled' = TRUE
  /\ UNCHANGED <<pc, writer, queue, chunk, file, flags, cacheEnabled, received,
                 published>>

\* Both threads have ended: ~DownloadThread() cancels and deletes the writer.
Destroy ==
  /\ pc["main"] = "running"
  /\ pc["download"] = "done" /\ pc["extract"] = "done"
  /\ Goto("main", "cancel")
  /\ UNCHANGED <<writer, queue, chunk, file, flags, cacheEnabled, cancelled,
                 received, published>>

-------------------------------------------------------------------------------
(***************************************************************************)
(* The writer thread: AsyncCacheWriter::run().                             *)
(***************************************************************************)
\* Mutant: only data ends the wait.
WaitOverWithData == queue # <<>>

\* The wait of an empty queue ends without a chunk.
WaitOver == finishing

TakeChunk ==
  /\ writer = "loop"
  /\ ~shouldStop
  /\ \/ /\ queue # <<>>
        /\ chunk' = Head(queue)
        /\ queue' = Tail(queue)
        /\ writer' = "write"
     \/ /\ queue = <<>> /\ WaitOver
        /\ writer' = "check"
        /\ UNCHANGED <<chunk, queue>>
  /\ UNCHANGED <<pc, file, flags, cacheEnabled, cancelled, received, published>>

WriteChunk ==
  /\ writer = "write"
  /\ hashed' = Append(hashed, chunk)
  /\ chunk' = 0
  /\ \/ /\ stored' = Append(stored, chunk)
        /\ writer' = "check"
        /\ UNCHANGED hasError
     \/ /\ DiskErrors
        /\ hasError' = TRUE
        /\ writer' = "exit"
        /\ UNCHANGED stored
  /\ UNCHANGED <<pc, queue, exists, isActive, shouldStop, finishing, cacheEnabled,
                 cancelled, received, published>>

\* Mutant: the thread ends as soon as it is told to finish.
DoneWhenFinishing == finishing

\* The test at the end of the loop.
Done == finishing /\ queue = <<>>

CheckDone ==
  /\ writer = "check"
  /\ writer' = IF Done THEN "exit" ELSE "loop"
  /\ UNCHANGED <<pc, queue, chunk, file, flags, cacheEnabled, cancelled, received,
                 published>>

StopWriter ==
  /\ writer = "loop"
  /\ shouldStop
  /\ writer' = "exit"
  /\ UNCHANGED <<pc, queue, chunk, file, flags, cacheEnabled, cancelled, received,
                 published>>

\* Mutant: only a cancelled writer cleans up.
CleanupIfStopped == shouldStop

\* Whether the thread removes the file.
CleanupNeeded == shouldStop \/ hasError

EndWriter ==
  /\ writer = "exit"
  /\ IF CleanupNeeded THEN Cleanup ELSE UNCHANGED <<queue, file>>
  /\ writer' = "ended"
  /\ UNCHANGED <<pc, chunk, flags, cacheEnabled, cancelled, received, published>>

-------------------------------------------------------------------------------
\* Qt has not aborted the program.
Alive == pc["main"] # "aborted"

DownloadThread ==
  Alive /\ \/ WriteCache \/ WriteRefused \/ Enqueue \/ WaitForSpace
           \/ GiveUpCaching \/ CurlStops \/ CurlDone
           \/ CancelWriter("download") \/ CancelWaited("download")

ExtractThread ==
  Alive /\ \/ FinishCache \/ Publish \/ CloseFiles \/ ExtractionStops
           \/ NoExtraction
           \/ CancelWriter("extract") \/ CancelWaited("extract")

MainThread == Alive /\ (Destroy \/ CancelWriter("main") \/ CancelWaited("main"))

WriterThread ==
  Alive /\ (TakeChunk \/ WriteChunk \/ CheckDone \/ StopWriter \/ EndWriter)

Environment == Alive /\ (CurlFails \/ ExtractionFails \/ UserCancels)

Next == DownloadThread \/ ExtractThread \/ MainThread \/ WriterThread \/ Environment

Spec == Init /\ [][Next]_vars

\* The scheduler runs every thread; errors and cancels need not happen.  A full queue
\* is waited for 500 ms at most, and wait(8000) returns when its time is up at the
\* latest.
FairSpec == /\ Spec
            /\ WF_vars(DownloadThread)
            /\ WF_vars(ExtractThread)
            /\ WF_vars(MainThread)
            /\ WF_vars(WriterThread)

-------------------------------------------------------------------------------
(***************************************************************************)
(* Properties.                                                             *)
(***************************************************************************)
TypeOK ==
  /\ pc \in [Callers -> {"running", "write", "full", "finishing", "sync", "cancel",
                         "cancelling", "done", "aborted"}]
  /\ writer \in {"loop", "write", "check", "exit", "ended"}
  /\ queue \in Seq(1..NumChunks) /\ Len(queue) <= MaxQueue
  /\ chunk \in 0..NumChunks
  /\ {exists, isActive, shouldStop, hasError, finishing, cacheEnabled, cancelled,
      published} \subseteq BOOLEAN
  /\ stored \in Seq(1..NumChunks) /\ hashed \in Seq(1..NumChunks)
  /\ received \in 0..NumChunks

Chunks(n) == [i \in 1..n |-> i]

\* What the download leaves in the cache directory is a cache file it has
\* announced, which holds everything the image needs in the order it came:
\* however errors, a full queue and cancels of several threads met, a partial
\* file is removed (cleanup() by whichever of run() and cancel() comes last).
LeftoverIsWhole ==
  (pc["main"] = "done" /\ writer = "ended" /\ exists) =>
    /\ published
    /\ Len(stored) >= NeededChunks
    /\ stored = Chunks(Len(stored))

\* The hash sent with cacheFileHashUpdated() is the hash of what is in the file
\* (downloadthread.cpp:1828), if the file is there.
HashIsOfFile == (published /\ exists) => hashed = stored

\* The download is over at some time: no wait in write(), finish() or cancel()
\* goes on for ever, whoever stops whom.
DownloadEnds == <>(pc["main"] \in {"done", "aborted"})

\* cacheFileHashUpdated() announces a file that is there and whole.
PublishedIsKept == published => exists /\ stored = Chunks(NumChunks)

\* A thread that outlasts cancel() cleans up by itself (asynccachewriter.cpp:230):
\* the writer is not deleted before.
DestroyedWhenStopped == pc["main"] # "aborted"
================================================================================
