------------------------------ MODULE RawDownload ------------------------------
(***************************************************************************)
(* The download of a raw disk image: the retry loop of DownloadThread::run *)
(* and the path of the bytes through DownloadExtractThread::_writeData()   *)
(* and RawImageWriteBuffer to the device.  A byte is named by its place in *)
(* the image.  libcurl is external: an attempt delivers the file from the  *)
(* offset it is told to resume at, and reports its progress, also at its   *)
(* end.                                                                    *)
(***************************************************************************)
EXTENDS Naturals, Sequences

CONSTANTS Size,       \* bytes of the image
          Capacity,   \* bytes of RawImageWriteBuffer
          MaxChunk,   \* bytes of one write callback
          Scenarios   \* sets of faults that may come together

\* What may end an attempt early, fail on the device, or come from the user.
Codes  == {"PARTIAL_FILE", "OPERATION_TIMEDOUT", "HTTP2", "RECV_ERROR",
           "SSL_CONNECT_ERROR", "OTHER"}
Faults == Codes \cup {"device", "cancel"}

ASSUME SizesAssumption == /\ Size \in Nat /\ MaxChunk \in Nat \ {0}
                          /\ Capacity \in Nat \ {0}
ASSUME ScenariosAssumption == Scenarios \subseteq SUBSET Faults

VARIABLES
  faults,             \* the faults of this download
  pc,                 \* where the download thread is
  ret,                \* what curl_easy_perform() returned
  dlNow,              \* bytes of this attempt, as curl counts them
  chunk,              \* first and last byte of the callback still to be buffered
  startOffset, lastDlNow, lastFailureOffset,   \* _startOffset, _lastDlNow, ...
  http2,              \* HTTP/2 is still tried
  http2FailureCount, http2SslFallback,
  buffer,             \* buffer_, up to used_
  failed,             \* failed_ of the buffer
  device,             \* the bytes written, in the order they were
  cancelled           \* _cancelled

offsets  == <<startOffset, lastDlNow, lastFailureOffset>>
protocol == <<http2, http2FailureCount, http2SslFallback>>
sink     == <<buffer, failed, device>>
vars     == <<faults, pc, ret, dlNow, chunk, offsets, protocol, sink, cancelled>>

NoChunk == [first |-> 1, last |-> 0]
Bytes(first, last) == [k \in 1..(last + 1 - first) |-> first + k - 1]

Init == /\ faults \in Scenarios
        /\ pc = "perform"
        /\ ret = "OK"
        /\ dlNow = 0
        /\ chunk = NoChunk
        /\ startOffset = 0 /\ lastDlNow = 0 /\ lastFailureOffset = 0
        /\ http2 = TRUE /\ http2FailureCount = 0 /\ http2SslFallback = FALSE
        /\ buffer = <<>> /\ failed = FALSE /\ device = <<>>
        /\ cancelled = FALSE

Ended == {"complete", "failed", "aborted"}

-------------------------------------------------------------------------------
(***************************************************************************)
(* An attempt: curl_easy_perform() and its callbacks.                      *)
(***************************************************************************)
Perform ==
  /\ pc = "perform"
  /\ pc' = "receive"
  /\ dlNow' = 0
  /\ UNCHANGED <<faults, ret, chunk, offsets, protocol, sink, cancelled>>

\* The write callback: _writeData() of a raw image.
Receive ==
  /\ pc = "receive"
  /\ IF cancelled
     THEN pc' = "check" /\ ret' = "WRITE_ERROR" /\ UNCHANGED chunk
     ELSE LET at == startOffset + dlNow
          IN \E n \in 1..MaxChunk :
               /\ at + n <= Size
               /\ chunk' = [first |-> at + 1, last |-> at + n]
               /\ pc' = "append"
               /\ UNCHANGED ret
  /\ UNCHANGED <<faults, dlNow, offsets, protocol, sink, cancelled>>

\* Mutant: the offset within this attempt.
AttemptOffset == dlNow

\* What _progress() reports.
Offset == startOffset + dlNow

\* Mutant: a cancel does not stop curl.
NeverAborts == FALSE

\* _progress() makes curl abort.
Aborts == cancelled

Progress ==
  /\ pc = "receive"
  /\ lastDlNow' = Offset
  /\ IF Aborts THEN pc' = "check" /\ ret' = "ABORTED_BY_CALLBACK"
               ELSE UNCHANGED <<pc, ret>>
  /\ UNCHANGED <<faults, dlNow, chunk, startOffset, lastFailureOffset, protocol,
                 sink, cancelled>>

\* The attempt is over, with the last progress report.
PerformReturns ==
  /\ pc = "receive"
  /\ lastDlNow' = Offset
  /\ pc' = "check"
  /\ \/ startOffset + dlNow = Size /\ ret' = "OK"
     \/ /\ ret' \in faults \cap Codes
        /\ ret' = "HTTP2" => http2
        /\ ret' = "SSL_CONNECT_ERROR" => dlNow = 0
  /\ UNCHANGED <<faults, dlNow, chunk, startOffset, lastFailureOffset, protocol,
                 sink, cancelled>>

-------------------------------------------------------------------------------
(***************************************************************************)
(* RawImageWriteBuffer.                                                    *)
(***************************************************************************)
\* Mutant: what is left of the buffer does not matter.
AllOfIt(left, room) == left

\* How much one turn of the loop of Append() copies.
Fitting(left, room) == IF left <= room THEN left ELSE room

\* Mutant: each callback is written as it comes.
WrittenAtOnce(used) == TRUE

\* When Append() flushes.
Full(used) == used = Capacity

\* _writeFile(): once cancelled, it drops what it is given and says that it wrote it;
\* a write that has begun goes on.
Written(bytes) == IF cancelled THEN device ELSE device \o bytes

\* A cancelled download cannot fail on the device.
DeviceFails == "device" \in faults /\ ~cancelled

\* One turn of that loop: copy what fits, flush what is full.
AppendFragment ==
  /\ pc = "append" /\ chunk.first <= chunk.last
  /\ LET count == Fitting(chunk.last + 1 - chunk.first, Capacity - Len(buffer))
         used  == buffer \o Bytes(chunk.first, chunk.first + count - 1)
     IN /\ chunk' = [chunk EXCEPT !.first = @ + count]
        /\ \/ /\ ~Full(Len(used))
              /\ buffer' = used
              /\ UNCHANGED <<pc, ret, failed, device>>
           \/ /\ Full(Len(used))
              /\ device' = Written(used)
              /\ buffer' = <<>>
              /\ UNCHANGED <<pc, ret, failed>>
           \/ /\ Full(Len(used))
              /\ DeviceFails
              /\ buffer' = used
              /\ failed' = TRUE
              /\ pc' = "check" /\ ret' = "WRITE_ERROR"
              /\ UNCHANGED device
  /\ UNCHANGED <<faults, dlNow, offsets, protocol, cancelled>>

\* The callback returns what it was given.
AppendReturns ==
  /\ pc = "append" /\ chunk.first > chunk.last
  /\ pc' = "receive"
  /\ dlNow' = chunk.last - startOffset
  /\ chunk' = NoChunk
  /\ UNCHANGED <<faults, ret, offsets, protocol, sink, cancelled>>

\* Mutant: the end of the image stays in the buffer.
NoTail == <<>>

\* What the last Flush() writes.
BufferedTail == buffer

\* _onDownloadSuccess(), up to _writeComplete(): it does not ask for a cancel.
FlushTail ==
  /\ pc = "flush"
  /\ \/ /\ device' = Written(BufferedTail)
        /\ buffer' = <<>>
        /\ pc' = "finalise"
        /\ UNCHANGED failed
     \/ /\ DeviceFails
        /\ buffer # <<>>
        /\ failed' = TRUE
        /\ pc' = "failed"
        /\ UNCHANGED <<buffer, device>>
  /\ UNCHANGED <<faults, ret, dlNow, chunk, offsets, protocol, cancelled>>

\* Mutant: what was flushed counts as written.
NeverDropped == FALSE

\* Some of the image may have been dropped.
MayHaveDropped == cancelled

\* _writeComplete(), up to the hash.
WriteComplete ==
  /\ pc = "finalise"
  /\ pc' = IF MayHaveDropped THEN "aborted" ELSE "complete"
  /\ UNCHANGED <<faults, ret, dlNow, chunk, offsets, protocol, sink, cancelled>>

-------------------------------------------------------------------------------
(***************************************************************************)
(* The retry loop.                                                         *)
(***************************************************************************)
MAX_HTTP2_FAILURES == 3

\* Mutant: any connection that breaks is opened again.
AlwaysRetried == ret \in {"HTTP2", "RECV_ERROR"}

\* Some errors are only worth another attempt if there was progress.
RetriedWithProgress ==
  ret \in {"HTTP2", "RECV_ERROR"} /\ lastDlNow # lastFailureOffset

Retried == \/ ret \in {"PARTIAL_FILE", "OPERATION_TIMEDOUT"}
           \/ RetriedWithProgress
           \/ ret = "SSL_CONNECT_ERROR" /\ ~http2SslFallback

Retry ==
  /\ pc = "check" /\ Retried
  /\ pc' = "perform"
  /\ http2FailureCount' = IF ret = "HTTP2" THEN http2FailureCount + 1
                                           ELSE http2FailureCount
  /\ http2SslFallback' = (http2SslFallback \/ ret = "SSL_CONNECT_ERROR")
  /\ http2' = (http2 /\ ret # "SSL_CONNECT_ERROR"
                     /\ http2FailureCount' < MAX_HTTP2_FAILURES)
  /\ startOffset' = lastDlNow
  /\ lastFailureOffset' = lastDlNow
  /\ UNCHANGED <<faults, ret, dlNow, chunk, lastDlNow, sink, cancelled>>

Finish ==
  /\ pc = "check" /\ ~Retried
  /\ pc' = CASE ret = "OK" -> "flush"
             [] ret = "ABORTED_BY_CALLBACK" -> "aborted"
             [] ret = "WRITE_ERROR" /\ cancelled -> "aborted"
             [] OTHER -> "failed"
  /\ UNCHANGED <<faults, ret, dlNow, chunk, offsets, protocol, sink, cancelled>>

CancelDownload ==
  /\ "cancel" \in faults
  /\ pc \notin Ended
  /\ ~cancelled
  /\ cancelled' = TRUE
  /\ UNCHANGED <<faults, pc, ret, dlNow, chunk, offsets, protocol, sink>>

-------------------------------------------------------------------------------
DownloadThread == \/ Perform \/ Receive \/ Progress \/ PerformReturns
                  \/ AppendFragment \/ AppendReturns \/ FlushTail \/ WriteComplete
                  \/ Retry \/ Finish

Next == DownloadThread \/ CancelDownload

Spec == Init /\ [][Next]_vars

\* The thread runs, and curl calls _progress() in every attempt.
FairSpec == Spec /\ WF_vars(DownloadThread) /\ SF_vars(Progress /\ cancelled)

-------------------------------------------------------------------------------
(***************************************************************************)
(* Properties.                                                             *)
(***************************************************************************)
TypeOK ==
  /\ faults \in Scenarios
  /\ pc \in {"perform", "receive", "append", "check", "flush", "finalise"} \cup Ended
  /\ ret \in Codes \cup {"OK", "WRITE_ERROR", "ABORTED_BY_CALLBACK"}
  /\ dlNow \in 0..Size
  /\ chunk \in [first : 1..(Size + 1), last : 0..Size]
  /\ startOffset \in 0..Size /\ lastDlNow \in 0..Size /\ lastFailureOffset \in 0..Size
  /\ http2 \in BOOLEAN /\ http2SslFallback \in BOOLEAN
  /\ failed \in BOOLEAN /\ cancelled \in BOOLEAN
  /\ http2FailureCount \in 0..MAX_HTTP2_FAILURES
  /\ buffer \in Seq(1..Size) /\ Len(buffer) <= Capacity
  /\ device \in Seq(1..Size)

\* The device gets the bytes of the image in their order, each once, over however
\* many attempts the download takes and wherever each of them broke off; until the
\* download is cancelled, what comes next is in the buffer, and after that what was
\* dropped leaves no hole before a later byte.
InOrder == /\ device = Bytes(1, Len(device))
           /\ ~cancelled => device \o buffer = Bytes(1, Len(device) + Len(buffer))

\* A download that passes the check for a cancel in _writeComplete() has written the
\* whole image, although what was flushed may have been dropped (the hash, the
\* verification and the success rest on this).
CompleteMeansWhole == pc = "complete" => device = Bytes(1, Size)

\* Direct I/O: a write starts at a multiple of the buffer, only the last is shorter
\* (raw_image_write_buffer.h:12).
AlignedWrites == \/ Len(device) = Size
                 \/ \E writes \in 0..Len(device) : Len(device) = writes * Capacity

\* The device follows the image: in order and, but for the tail, in whole buffers.
DeviceFollowsImage == InOrder /\ AlignedWrites

\* A connection that breaks over and over, with errors that say so, does not keep
\* the download going for ever: each attempt but a few needs progress.
BrokenConnectionEnds ==
  faults \cap {"PARTIAL_FILE", "OPERATION_TIMEDOUT"} = {} ~> pc \in Ended

\* A cancelled download ends, whatever the server does.
CancelEnds == cancelled ~> pc \in Ended

\* However often the connection breaks, the download settles: by itself if the errors
\* say what happened, and when it is cancelled in any case.
DownloadSettles == BrokenConnectionEnds /\ CancelEnds

\* Every download ends: not so, while the server lets each attempt time out
\* (downloadthread.cpp:748 retries whether or not there was progress).
DownloadEnds == <>(pc \in Ended)
================================================================================
