---------------------------- MODULE ExtractSession ----------------------------
(***************************************************************************)
(* One write of a compressed image (downloadextractthread.cpp): the        *)
(* download thread pushes what curl delivers into the input ring, the      *)
(* extract thread feeds it to libarchive and writes the result, and both   *)
(* announce verdicts to the main thread, which may cancel at any moment.   *)
(* A local file (localfileextractthread.cpp) is read and written by one    *)
(* thread: the ring then stays empty, and "aborted" says that the file     *)
(* has been closed.                                                        *)
(*                                                                         *)
(* The input ring is the channel RingBufferProofs.tla shows RingBuffer.tla *)
(* to implement; the write path behind _writeFile() is UringWrite.tla.     *)
(* One block stands for what fits in a slot.  No call to the ring waits    *)
(* longer than 100 ms, so its stall timeout never fires here               *)
(* (MCRingBufferTimed).                                                    *)
(***************************************************************************)
EXTENDS Integers, Sequences

CONSTANTS Archives,       \* the archives to consider
          Capacity,       \* slots of the input ring
          Cancels,        \* the user may cancel
          NetworkErrors,  \* curl may give up
          WriteErrors,    \* a write may fail
          BadArchives,    \* the archive, a hash or the flush may be wrong
          SilentErrors    \* the drain, the customisation or the mount may fail

ASSUME ArchivesAssumption ==
  /\ Archives \subseteq [image : BOOLEAN, blocks : Nat, needed : Nat,
                         readsToEnd : BOOLEAN, source : {"curl", "file", "rawFile"}]
  /\ \A a \in Archives : /\ a.needed <= a.blocks
                         /\ a.readsToEnd => a.needed = a.blocks
                         /\ a.needed = 0 => a.readsToEnd
                         /\ a.source = "rawFile" => a.image /\ a.readsToEnd
ASSUME CapacityAssumption == Capacity \in Nat \ {0, 1}
ASSUME FlagsAssumption ==
  {Cancels, NetworkErrors, WriteErrors, BadArchives, SilentErrors} \subseteq BOOLEAN

VARIABLES
  archive,        \* the archive of this session; never changes
  download,       \* where the download thread is
  extract,        \* where the extract thread is
  user,           \* how far the main thread is in cancelDownload()
  inTransit,      \* the input ring: blocks committed and not yet read
  delivered,      \* the last block _on_read() got
  aborted,        \* the ring's _cancelled
  producerDone,   \* the ring's _producerDone
  holding,        \* _currentReadSlot is set
  received,       \* blocks curl has passed to _writeData()
  written,        \* blocks on the device, or extracted to its file system
  cancelled,      \* _cancelled
  extractFailed,  \* _extractFailed
  signals         \* success() and error(), in the order emitted; "quietError"
                  \* is an error() that sets neither flag

Image == archive.image            \* _isImage: extractImageRun(), not
                                  \* extractMultiFileRun()
NumBlocks == archive.blocks       \* blocks curl delivers
ArchiveBlocks == archive.needed   \* blocks libarchive needs
ReadsToEnd == archive.readsToEnd  \* it reads on until _on_read() returns 0
Local == archive.source # "curl"  \* a LocalFileExtractThread
Raw == archive.source = "rawFile" \* extractRawImageRun()

ringVars == <<inTransit, delivered, aborted>>
threads == <<download, extract, user, ringVars, producerDone, holding, received,
             written, cancelled, extractFailed, signals>>
vars == <<archive, threads>>

Ring == INSTANCE BlockChannel

Init == /\ archive \in Archives
        /\ download = IF Local THEN "open" ELSE "curl"
        /\ extract = "off"
        /\ user = "idle"
        /\ Ring!Init
        /\ producerDone = FALSE
        /\ holding = FALSE
        /\ received = 0
        /\ written = 0
        /\ cancelled = FALSE
        /\ extractFailed = FALSE
        /\ signals = <<>>

Emit(signal) == signals' = Append(signals, signal)

\* Mutant: nobody wakes the threads waiting in the ring.
CancelRingForgotten == UNCHANGED ringVars

\* _cancelExtract().
CancelRing == Ring!Abort

-------------------------------------------------------------------------------
(***************************************************************************)
(* The download thread: run() and the callbacks curl makes.                *)
(***************************************************************************)
\* _writeData(): the first block starts the extract thread.
WriteData ==
  /\ download = "curl"
  /\ received < NumBlocks
  /\ ~cancelled
  /\ received' = received + 1
  /\ extract' = IF extract # "off" THEN extract
                ELSE IF Image THEN "read" ELSE "mount"
  /\ download' = "push"
  /\ UNCHANGED <<user, ringVars, producerDone, holding, written, cancelled,
                 extractFailed, signals>>

\* Mutant: the slot libarchive still reads from counts as free.
RoomIgnoringReader == Len(inTransit) < Capacity

\* acquireWriteSlot() finds a slot.
Room == Len(inTransit) + (IF holding THEN 1 ELSE 0) < Capacity

\* _pushQueue(), once for each slot it fills.
PushQueue ==
  /\ download = "push"
  /\ ~cancelled
  /\ ~aborted
  /\ Room
  /\ Ring!Send
  /\ download' = "curl"
  /\ UNCHANGED <<extract, user, producerDone, holding, received, written,
                 cancelled, extractFailed, signals>>

DropBlock ==
  /\ download = "push"
  /\ cancelled \/ aborted
  /\ download' = "curl"
  /\ UNCHANGED <<extract, user, ringVars, producerDone, holding, received, written,
                 cancelled, extractFailed, signals>>

\* The write or the progress callback makes curl stop; nothing is reported.
CurlAborts ==
  /\ download = "curl"
  /\ cancelled
  /\ download' = "done"
  /\ UNCHANGED <<extract, user, ringVars, producerDone, holding, received, written,
                 cancelled, extractFailed, signals>>

\* Mutant: the ring is cancelled before _cancelled is set.
CurlFailsRingFirst ==
  \/ /\ download \in {"curl", "open"}
     /\ NetworkErrors
     /\ Ring!Abort
     /\ download' = "errorFlag"
     /\ UNCHANGED <<cancelled, signals>>
  \/ /\ download = "errorFlag"
     /\ cancelled' = TRUE
     /\ Emit("error")
     /\ download' = "done"
     /\ UNCHANGED ringVars

\* _onDownloadError(): flag, error() and only then the ring.  The file that
\* cannot be opened is reported in the same way.
CurlFails ==
  \/ /\ download \in {"curl", "open"}
     /\ NetworkErrors
     /\ cancelled' = TRUE
     /\ download' = "error"
     /\ UNCHANGED <<ringVars, signals>>
  \/ /\ download = "error"
     /\ Emit("error")
     /\ download' = "errorRing"
     /\ UNCHANGED <<ringVars, cancelled>>
  \/ /\ download = "errorRing"
     /\ CancelRing
     /\ download' = "done"
     /\ UNCHANGED <<cancelled, signals>>

DownloadError ==
  /\ CurlFails
  /\ UNCHANGED <<extract, user, producerDone, holding, received, written,
                 extractFailed>>

\* Mutant: the ring never learns that the download is over.
SignalForgotten == UNCHANGED producerDone

SignalProducerDone == producerDone' = TRUE

\* CURLE_OK, _onDownloadSuccess().
ProducerDone ==
  /\ download = "curl"
  /\ received = NumBlocks
  /\ SignalProducerDone
  /\ download' = "join"
  /\ UNCHANGED <<extract, user, ringVars, holding, received, written, cancelled,
                 extractFailed, signals>>

\* Mutant: success() is emitted whatever the extract thread found (#1603).
SuccessAfterJoin == TRUE

\* Whether success() may follow the join.
ExtractionSucceeded == ~extractFailed /\ ~cancelled

\* Waiting for a thread that was never started returns at once.
JoinExtractThread ==
  /\ download = "join"
  /\ extract \in {"off", "done"}
  /\ IF ExtractionSucceeded THEN Emit("success") ELSE UNCHANGED signals
  /\ download' = "done"
  /\ UNCHANGED <<extract, user, ringVars, producerDone, holding, received, written,
                 cancelled, extractFailed>>

\* LocalFileExtractThread::run(): it opens the file and extracts it itself ...
OpenFile ==
  /\ download = "open"
  /\ download' = "run"
  /\ extract' = IF Image THEN "read" ELSE "mount"
  /\ UNCHANGED <<user, ringVars, producerDone, holding, received, written, cancelled,
                 extractFailed, signals>>

\* ... and ends without a verdict of its own.
FileDone ==
  /\ download = "run"
  /\ extract = "done"
  /\ download' = "done"
  /\ UNCHANGED <<extract, user, ringVars, producerDone, holding, received, written,
                 cancelled, extractFailed, signals>>

DownloadThread == \/ WriteData \/ PushQueue \/ DropBlock \/ CurlAborts
                  \/ ProducerDone \/ JoinExtractThread \/ OpenFile \/ FileDone


-------------------------------------------------------------------------------
(***************************************************************************)
(* The extract thread reads: _on_read().                                   *)
(***************************************************************************)
\* acquireReadSlot() returns a block ...
ReadBlock ==
  /\ extract = "read" /\ ~Local
  /\ Ring!Receive
  /\ holding' = TRUE
  /\ extract' = "decode"
  /\ UNCHANGED <<download, user, producerDone, received, written, cancelled,
                 extractFailed, signals>>

\* ... or nothing: a timeout, a cancellation or the end.
ReadNothing ==
  /\ extract = "read" /\ ~Local
  /\ aborted \/ inTransit = <<>>
  /\ extract' = "nothing"
  /\ UNCHANGED <<download, user, ringVars, producerDone, holding, received, written,
                 cancelled, extractFailed, signals>>

\* Mutant: isComplete() looks for committed blocks before _producerDone.
IsCompleteCountFirst ==
  \/ /\ extract = "nothing"
     /\ extract' = IF aborted THEN "eof" ELSE "isComplete"
  \/ /\ extract = "isComplete"
     /\ extract' = IF inTransit = <<>> THEN "isComplete2" ELSE "read"
  \/ /\ extract = "isComplete2"
     /\ extract' = IF producerDone THEN "eof" ELSE "read"

\* isCancelled(), then isComplete(), each reading one flag at a time.
IsComplete ==
  \/ /\ extract = "nothing"
     /\ extract' = IF aborted THEN "eof" ELSE "isComplete"
  \/ /\ extract = "isComplete"
     /\ extract' = IF producerDone THEN "isComplete2" ELSE "read"
  \/ /\ extract = "isComplete2"
     /\ extract' = IF inTransit = <<>> THEN "eof" ELSE "read"

CheckRing ==
  /\ IsComplete
  /\ UNCHANGED <<download, user, ringVars, producerDone, holding, received, written,
                 cancelled, extractFailed, signals>>

\* libarchive may take an early end for the end of the archive.
EndOfInput ==
  /\ extract = "eof"
  /\ \/ extract' = "end"
     \/ delivered # ArchiveBlocks /\ extract' = "exception"
  /\ UNCHANGED <<download, user, ringVars, producerDone, holding, received, written,
                 cancelled, extractFailed, signals>>

-------------------------------------------------------------------------------
(***************************************************************************)
(* The thread reads a local file.                                          *)
(***************************************************************************)
\* A block of the file, whoever asks for it.
FileBlock ==
  /\ delivered < NumBlocks
  /\ ~aborted
  /\ delivered' = delivered + 1
  /\ extract' = "decode"
  /\ UNCHANGED <<inTransit, aborted, cancelled>>

\* LocalFileExtractThread::_on_read(): -1 makes libarchive throw.
ReadArchive ==
  /\ extract = "read" /\ Local /\ ~Raw
  /\ \/ ~cancelled /\ FileBlock
     \/ /\ ~cancelled /\ delivered = NumBlocks
        /\ extract' = "eof"
        /\ UNCHANGED <<ringVars, cancelled>>
     \/ /\ cancelled \/ BadArchives
        /\ extract' = "exception"
        /\ UNCHANGED <<ringVars, cancelled>>
  /\ UNCHANGED <<download, user, producerDone, holding, received, written,
                 extractFailed, signals>>

\* The loop of extractRawImageRun() looks at _cancelled, and so does what follows it.
RawLoop ==
  /\ extract = "read" /\ Raw
  /\ extract' = IF cancelled THEN "done"
                ELSE IF delivered = NumBlocks THEN "end" ELSE "readRaw"
  /\ UNCHANGED <<download, user, ringVars, producerDone, holding, received, written,
                 cancelled, extractFailed, signals>>

\* Reading fails, or the file has become shorter: a cancelled write is reported as
\* an error, too, when its file is closed before this read.
ReadRaw ==
  /\ extract = "readRaw"
  /\ \/ FileBlock
     \/ /\ aborted \/ BadArchives
        /\ cancelled' = TRUE
        /\ extract' = "errorThenRing"
        /\ UNCHANGED ringVars
  /\ UNCHANGED <<download, user, producerDone, holding, received, written,
                 extractFailed, signals>>

-------------------------------------------------------------------------------
(***************************************************************************)
(* The extract thread writes what it decoded.                              *)
(***************************************************************************)
\* _writeFile(), which drops blocks once cancelled; archive_write_data_block()
\* does not.
WriteBlock ==
  /\ extract = "decode"
  /\ \/ /\ Image /\ cancelled
        /\ extract' = "next"
        /\ UNCHANGED written
     \/ /\ ~(Image /\ cancelled)
        /\ written' = written + 1
        /\ extract' = "next"
     \/ /\ WriteErrors
        /\ ~(Image /\ cancelled)
        /\ extract' = IF Image THEN "writeFailed" ELSE "exception"
        /\ UNCHANGED written
     \/ /\ BadArchives /\ ~Raw
        /\ extract' = "exception"
        /\ UNCHANGED written
  /\ UNCHANGED <<download, user, ringVars, producerDone, holding, received,
                 cancelled, extractFailed, signals>>

\* The loop goes on; a slot kept for libarchive is released on the next read.
NextBlock ==
  /\ extract = "next"
  /\ \/ /\ delivered # ArchiveBlocks \/ ReadsToEnd
        /\ extract' = "read"
        /\ holding' = FALSE
     \/ /\ \/ delivered = ArchiveBlocks /\ ~ReadsToEnd
           \/ Image /\ cancelled /\ ~Raw
        /\ extract' = "end"
        /\ UNCHANGED holding
  /\ UNCHANGED <<download, user, ringVars, producerDone, received, written,
                 cancelled, extractFailed, signals>>

\* A write failed: extractImageRun() and _onWriteError() both look at
\* _cancelled before _onDownloadError() reports it; extractRawImageRun() does not.
WriteFailed ==
  \/ /\ extract = "writeFailed" /\ ~Raw
     /\ extract' = IF cancelled THEN "next" ELSE "onWriteError"
     /\ UNCHANGED <<holding, cancelled>>
  \/ /\ extract = "writeFailed" /\ Raw
     /\ extract' = "errorThenRing"
     /\ cancelled' = TRUE
     /\ UNCHANGED holding
  \/ /\ extract = "onWriteError"
     /\ cancelled' = TRUE
     /\ extract' = IF cancelled THEN "done" ELSE "errorThenRing"
     /\ holding' = FALSE

OnWriteError ==
  /\ WriteFailed
  /\ UNCHANGED <<download, user, ringVars, producerDone, received, written,
                 extractFailed, signals>>

\* The catch blocks.
Catch ==
  /\ extract = "exception"
  /\ extract' = IF cancelled THEN "done" ELSE "error"
  /\ extractFailed' = (extractFailed \/ ~cancelled)
  /\ cancelled' = TRUE
  /\ holding' = FALSE
  /\ UNCHANGED <<download, user, ringVars, producerDone, received, written, signals>>

EmitError ==
  /\ extract \in {"error", "errorThenRing"}
  /\ Emit("error")
  /\ extract' = IF extract = "error" THEN "done" ELSE "cancelExtract"
  /\ UNCHANGED <<download, user, ringVars, producerDone, holding, received, written,
                 cancelled, extractFailed>>

CancelExtract ==
  /\ extract = "cancelExtract"
  /\ CancelRing
  /\ extract' = "done"
  /\ UNCHANGED <<download, user, producerDone, holding, received, written, cancelled,
                 extractFailed, signals>>

-------------------------------------------------------------------------------
(***************************************************************************)
(* The end of the archive: _writeComplete() in extractImageRun(), the      *)
(* hash and the verdict in extractMultiFileRun().                          *)
(***************************************************************************)
\* The failures that are reported without setting _cancelled or _extractFailed.
SilentFailure ==
  /\ SilentErrors
  /\ \/ Image /\ extract \in {"end", "finish"}
     \/ ~Image /\ extract = "mount"
  /\ Emit("quietError")
  /\ extract' = "done"
  /\ holding' = FALSE
  /\ UNCHANGED <<download, user, ringVars, producerDone, received, written,
                 cancelled, extractFailed>>

\* The folder is found or mounted; a cancel while waiting for the partition ends
\* the thread, a failing chdir() too.
Mount ==
  /\ extract = "mount"
  /\ \/ extract' = "read" /\ UNCHANGED cancelled
     \/ cancelled /\ extract' = "done" /\ UNCHANGED cancelled
     \/ BadArchives /\ extract' = "error" /\ cancelled' = TRUE
  /\ UNCHANGED <<download, user, ringVars, producerDone, holding, received, written,
                 extractFailed, signals>>

\* The writes are drained, then _cancelled is looked at.
DrainWrites ==
  /\ Image
  /\ extract = "end"
  /\ extract' = IF cancelled THEN "done" ELSE "finish"
  /\ holding' = (holding /\ ~cancelled)
  /\ UNCHANGED <<download, user, ringVars, producerDone, received, written, cancelled,
                 extractFailed, signals>>

\* Hash, flush, verification, customisation, partition table, final sync:
\* DownloadThread::_onDownloadError() leaves the ring alone.
Finish ==
  /\ extract = "finish"
  /\ \/ extract' = "success" /\ UNCHANGED cancelled
     \/ BadArchives /\ extract' = "error" /\ cancelled' = TRUE
  /\ UNCHANGED <<download, user, ringVars, producerDone, holding, received, written,
                 extractFailed, signals>>

\* The last look at _cancelled, then success().
WriteSucceeds ==
  /\ extract = "success"
  /\ IF cancelled THEN UNCHANGED signals ELSE Emit("success")
  /\ extract' = "done"
  /\ holding' = FALSE
  /\ UNCHANGED <<download, user, ringVars, producerDone, received, written, cancelled,
                 extractFailed>>

\* The hash of the archive is compared unless cancelled; success() follows.
FilesExtracted ==
  /\ ~Image
  /\ extract = "end"
  /\ \/ /\ BadArchives /\ ~cancelled
        /\ extract' = "exception"
        /\ UNCHANGED <<signals, holding>>
     \/ /\ Emit("success")
        /\ extract' = "done"
        /\ holding' = FALSE
  /\ UNCHANGED <<download, user, ringVars, producerDone, received, written, cancelled,
                 extractFailed>>

ExtractThread ==
  \/ ReadBlock \/ ReadNothing \/ CheckRing \/ EndOfInput \/ WriteBlock
  \/ NextBlock \/ OnWriteError \/ Catch \/ EmitError \/ CancelExtract
  \/ SilentFailure \/ Mount \/ DrainWrites \/ Finish \/ WriteSucceeds
  \/ FilesExtracted \/ ReadArchive \/ RawLoop \/ ReadRaw

-------------------------------------------------------------------------------
(***************************************************************************)
(* The main thread: cancelDownload() sets the flag, then cancels the ring  *)
(* or closes the file.                                                     *)
(***************************************************************************)
CancelDownload ==
  /\ user = "idle"
  /\ Cancels
  /\ download # "done"
  /\ cancelled' = TRUE
  /\ user' = "cancelExtract"
  /\ UNCHANGED <<download, extract, ringVars, producerDone, holding, received,
                 written, extractFailed, signals>>

UserCancelsRing ==
  /\ user = "cancelExtract"
  /\ CancelRing
  /\ user' = "done"
  /\ UNCHANGED <<download, extract, producerDone, holding, received, written,
                 cancelled, extractFailed, signals>>

Step == \/ DownloadThread \/ DownloadError
        \/ ExtractThread
        \/ CancelDownload \/ UserCancelsRing

Next == Step /\ UNCHANGED archive

(***************************************************************************)
(* Both threads keep running.  The network delivers or fails in the end:   *)
(* the code alone does not see to that, as run() resumes after a timeout   *)
(* or a partial file however often it happens.                             *)
(***************************************************************************)
Fairness == /\ WF_threads(DownloadThread \/ DownloadError)
            /\ WF_threads(ExtractThread)
            /\ WF_threads(UserCancelsRing)

Spec == Init /\ [][Next]_vars
FairSpec == Spec /\ Fairness

-------------------------------------------------------------------------------
(***************************************************************************)
(* Every variable stays within its type, and the ring within its size.     *)
(***************************************************************************)
TypeOK ==
  /\ archive \in Archives
  /\ download \in {"curl", "push", "error", "errorRing", "join", "open", "run", "done"}
  /\ extract \in {"off", "mount", "read", "nothing", "isComplete", "isComplete2",
                  "eof", "decode", "next", "writeFailed", "onWriteError",
                  "exception", "error", "errorThenRing", "cancelExtract", "end",
                  "finish", "success", "readRaw", "done"}
  /\ user \in {"idle", "cancelExtract", "done"}
  /\ inTransit \in Seq(1..NumBlocks)
  /\ Len(inTransit) + (IF holding THEN 1 ELSE 0) <= Capacity
  /\ delivered \in 0..NumBlocks
  /\ {aborted, producerDone, holding, cancelled, extractFailed} \subseteq BOOLEAN
  /\ received \in 0..NumBlocks
  /\ written \in 0..delivered
  /\ signals \in Seq({"success", "error", "quietError"})

Announced(signal) == \E i \in DOMAIN signals : signals[i] = signal

(***************************************************************************)
(* success() is only ever emitted for an archive that was written whole:   *)
(* no error of either thread can pass an early end of the input off as the *)
(* end of the archive, nor can a cancel, except for several files          *)
(* (CancelIsNoSuccess).                                                    *)
(***************************************************************************)
SuccessMeansWholeImage ==
  Announced("success") /\ (Image \/ ~(cancelled \/ Announced("quietError")))
    => written = ArchiveBlocks

(***************************************************************************)
(* downloadextractthread.cpp:929: several files that were extracted in     *)
(* part, because of a cancel, are not announced as a success.              *)
(***************************************************************************)
CancelIsNoSuccess == Announced("success") => written = ArchiveBlocks

(***************************************************************************)
(* downloadextractthread.cpp:401-404 (#1603): success() does not override  *)
(* an error already reported, nor an error a success.  The extraction of   *)
(* several files has no such rule (CancelIsNoSuccess), and an image that   *)
(* ends before its file does leaves curl time to fail (NoLateError).       *)
(***************************************************************************)
VerdictsAgree ==
  Image /\ ReadsToEnd => ~(Announced("success") /\ Announced("error"))

(***************************************************************************)
(* The same of an image with data behind its end (MCExtractExceptions).    *)
(***************************************************************************)
NoLateError == Image => ~(Announced("success") /\ Announced("error"))

(***************************************************************************)
(* The same of the errors that set no flag (MCExtractExceptions.cfg).      *)
(***************************************************************************)
QuietErrorsStand == ~(Announced("success") /\ Announced("quietError"))

(***************************************************************************)
(* downloadextractthread.cpp:410-412: success() from the download thread   *)
(* comes after the extract thread has done its part.                       *)
(***************************************************************************)
SuccessFollowsExtraction == Announced("success") => extract # "off"

(***************************************************************************)
(* Both threads end, whatever fails and whenever the user cancels.         *)
(***************************************************************************)
SessionEnds == <>[](download = "done" /\ extract \in {"off", "done"})

(***************************************************************************)
(* downloadextractthread.cpp:1192-1195: a push that finds no room for long *)
(* returns and leaves the error to its caller.                             *)
(***************************************************************************)
PushReturns == (download = "push") ~> (download # "push")
===============================================================================
