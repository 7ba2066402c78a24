------------------------------ MODULE CacheProofs ------------------------------
(***************************************************************************)
(* The cache of downloads, written and read.                               *)
(*                                                                         *)
(* First, what a download leaves in the cache directory, for every size of *)
(* the image and of the queue, and every mix of errors and cancels: a file *)
(* that was announced, whole and hashed right, or none.  Then, what a      *)
(* later write reads from it, for any images and whatever crashes, skipped *)
(* and late verifications and removed files come in between: the whole     *)
(* image that was selected.                                                *)
(***************************************************************************)
EXTENDS CacheWriter, CacheManager, TLAPS

\* The writer thread still takes chunks.
Writing == writer \in {"loop", "write", "check"}

\* A chunk has been received and is not yet queued or dropped.
AtHand == pc["download"] \in {"write", "full"}

\* What _writeCache() asks before it queues a chunk.
Caching == cacheEnabled /\ isActive /\ ~hasError

\* The chunks stored, at hand or queued.
Ahead == IF chunk = 0 THEN 0 ELSE 1
Buffered == Len(stored) + Ahead + Len(queue)

\* A chunk that _writeCache() has not queued yet has been received.
ReceivedKept == AtHand => received > 0

TypeInv == TypeOK /\ ReceivedKept

\* The file, the chunk at hand and the queue follow each other without a gap;
\* while the cache is in use they go as far as the extract thread can see.
QueueKept ==
  /\ chunk # 0 <=> writer = "write"
  /\ \A i \in 1..Len(stored) : stored[i] = i
  /\ Writing =>
       /\ chunk # 0 => chunk = Len(stored) + 1
       /\ \A i \in 1..Len(queue) : queue[i] = Len(stored) + Ahead + i
       /\ AtHand => Buffered = received - 1
       /\ Caching => Buffered = Extractable

\* The thread ends without cleaning up only when the image is complete.
FinishKept ==
  /\ finishing /\ Writing => Buffered >= NeededChunks
  /\ writer = "exit" => \/ shouldStop \/ hasError
                        \/ finishing /\ Len(stored) >= NeededChunks
  /\ writer = "ended" /\ exists => Len(stored) >= NeededChunks

\* Whoever gives up leaves the cleaning to the thread, or cleans up.
FileKept ==
  /\ \A c \in Callers : pc[c] = "cancelling" => shouldStop
  /\ published => writer = "ended"
  /\ ~isActive /\ exists => published \/ (shouldStop /\ writer # "ended")
  /\ pc["main"] = "done" /\ exists => published

\* The hash is that of the file until a write has failed.
HashKept ==
  /\ writer # "ended" /\ ~hasError => hashed = stored
  /\ writer = "ended" /\ exists => hashed = stored

IInv == TypeInv /\ QueueKept /\ FinishKept /\ FileKept /\ HashKept

USE ChunksAssumption

Labels == {"running", "write", "full", "finishing", "sync", "cancel", "cancelling",
           "done", "aborted"}

\* TypeOK in two parts: the provers that know of sequences and numbers are at a loss
\* with Boolean variables.
FlagsOK == {exists, isActive, shouldStop, hasError, finishing, cacheEnabled, cancelled,
            published} \subseteq BOOLEAN

DataOK ==
  /\ writer \in {"loop", "write", "check", "exit", "ended"}
  /\ queue \in Seq(1..NumChunks) /\ Len(queue) <= MaxQueue
  /\ chunk \in 0..NumChunks
  /\ stored \in Seq(1..NumChunks) /\ hashed \in Seq(1..NumChunks)
  /\ received \in 0..NumChunks

ValuesOK == pc \in [Callers -> Labels] /\ DataOK

-------------------------------------------------------------------------------
(***************************************************************************)
(* Types.                                                                  *)
(***************************************************************************)
LEMMA TypeParts == TypeOK <=> FlagsOK /\ ValuesOK
BY Zenon DEF TypeOK, FlagsOK, ValuesOK, DataOK, Labels

LEMMA NextCases ==
  ASSUME [Next]_vars
  PROVE  \/ WriteCache \/ WriteRefused \/ Enqueue \/ WaitForSpace \/ GiveUpCaching
         \/ CurlEnds \/ CurlDone \/ FinishCache \/ Publish \/ CloseFiles
         \/ ExtractionEnds \/ NoExtraction \/ UserCancels \/ Destroy
         \/ \E c \in Callers : CancelWriter(c)
         \/ \E c \in Callers : CancelWaited(c)
         \/ TakeChunk \/ WriteChunk \/ CheckDone \/ StopWriter \/ EndWriter
         \/ UNCHANGED vars
<1>1. {"download", "extract", "main"} = Callers
  BY Zenon DEF Callers
<1>2. CASE DownloadThread
  BY <1>1, <1>2, Zenon DEF DownloadThread, CurlStops
<1>3. CASE ExtractThread
  BY <1>1, <1>3, Zenon DEF ExtractThread, ExtractionStops
<1>4. CASE MainThread
  BY <1>1, <1>4, Zenon DEF MainThread
<1>5. CASE WriterThread
  BY <1>5, Zenon DEF WriterThread
<1>6. CASE Environment
  BY <1>6, Zenon DEF Environment, CurlFails, ExtractionFails
<1> QED
  BY <1>2, <1>3, <1>4, <1>5, <1>6, Zenon DEF Next

LEMMA GotoMoves ==
  ASSUME pc \in [Callers -> Labels], NEW c \in Callers, NEW label \in Labels,
         Goto(c, label)
  PROVE  /\ pc' \in [Callers -> Labels]
         /\ pc'[c] = label
         /\ \A d \in Callers \ {c} : pc'[d] = pc[d]
BY SMT DEF Goto

LEMMA FlagsStep ==
  ASSUME FlagsOK, [Next]_vars
  PROVE  FlagsOK'
<1> USE DEF FlagsOK, flags, file
<1>1. CASE WriteCache
  BY <1>1, Zenon DEF WriteCache
<1>2. CASE WriteRefused
  BY <1>2, Zenon DEF WriteRefused
<1>3. CASE Enqueue
  BY <1>3, Zenon DEF Enqueue
<1>4. CASE WaitForSpace
  BY <1>4, Zenon DEF WaitForSpace
<1>5. CASE GiveUpCaching
  BY <1>5, Zenon DEF GiveUpCaching
<1>6. CASE CurlEnds
  BY <1>6, Zenon DEF CurlEnds
<1>7. CASE CurlDone
  BY <1>7, Zenon DEF CurlDone
<1>8. CASE FinishCache
  BY <1>8, Zenon DEF FinishCache
<1>9. CASE Publish
  BY <1>9, Zenon DEF Publish
<1>10. CASE CloseFiles
  BY <1>10, Zenon DEF CloseFiles
<1>11. CASE ExtractionEnds
  BY <1>11, Zenon DEF ExtractionEnds
<1>12. CASE NoExtraction
  BY <1>12, Zenon DEF NoExtraction
<1>13. CASE UserCancels
  BY <1>13, Zenon DEF UserCancels
<1>14. CASE Destroy
  BY <1>14, Zenon DEF Destroy
<1>15. CASE \E c \in Callers : CancelWriter(c)
  BY <1>15, Zenon DEF CancelWriter, CancelReturns
<1>16. CASE \E c \in Callers : CancelWaited(c)
  BY <1>16, Zenon DEF CancelWaited, CancelReturns, Cleanup
<1>17. CASE TakeChunk
  BY <1>17, Zenon DEF TakeChunk
<1>18. CASE WriteChunk
  BY <1>18, Zenon DEF WriteChunk
<1>19. CASE CheckDone
  BY <1>19, Zenon DEF CheckDone
<1>20. CASE StopWriter
  BY <1>20, Zenon DEF StopWriter
<1>21. CASE EndWriter
  BY <1>21, Zenon DEF EndWriter, Cleanup
<1>22. CASE UNCHANGED vars
  BY <1>22, Zenon DEF vars
<1> QED
  BY <1>1, <1>2, <1>3, <1>4, <1>5, <1>6, <1>7, <1>8, <1>9, <1>10, <1>11, <1>12,
     <1>13, <1>14, <1>15, <1>16, <1>17, <1>18, <1>19, <1>20, <1>21, <1>22,
     NextCases, Zenon

\* The steps as the callers' places see them.
LEMMA MovesKeepLabels ==
  ASSUME ValuesOK, [Next]_vars
  PROVE  pc' \in [Callers -> Labels]
<1>l. /\ {"download", "extract", "main"} \subseteq Callers
      /\ {"running", "write", "full", "finishing", "sync", "cancel", "cancelling",
          "done", "aborted"} \subseteq Labels
  BY Zenon DEF Callers, Labels
<1>p. pc \in [Callers -> Labels]
  BY Zenon DEF ValuesOK
<1>g. \A c \in Callers, label \in Labels : Goto(c, label) => pc' \in [Callers -> Labels]
  BY <1>p, GotoMoves, Zenon
<1>1. CASE WriteCache \/ FinishCache
  BY <1>1, <1>p, <1>l, <1>g, Zenon DEF WriteCache, FinishCache
<1>2. CASE WriteRefused \/ Enqueue \/ WaitForSpace
  BY <1>2, <1>l, <1>g, Zenon DEF WriteRefused, Enqueue, WaitForSpace
<1>3. CASE GiveUpCaching \/ CurlEnds \/ CurlDone
  BY <1>3, <1>l, <1>g, Zenon DEF GiveUpCaching, CurlEnds, CurlDone
<1>4. CASE Publish \/ NoExtraction \/ Destroy
  BY <1>4, <1>l, <1>g, Zenon DEF Publish, NoExtraction, Destroy
<1>5. CASE CloseFiles
  <2>1. PICK next \in {"cancel", "done"} : Goto("extract", next)
    BY <1>5, Zenon DEF CloseFiles
  <2> QED
    BY <2>1, <1>l, <1>g, Zenon
<1>6. CASE ExtractionEnds
  <2>1. PICK next \in {"cancel", "done"} : Goto("extract", next)
    BY <1>6, Zenon DEF ExtractionEnds
  <2> QED
    BY <2>1, <1>l, <1>g, Zenon
<1>7. CASE UserCancels \/ TakeChunk \/ WriteChunk
  BY <1>7, <1>p, Zenon DEF UserCancels, TakeChunk, WriteChunk
<1>8. CASE \E c \in Callers : CancelWriter(c)
  BY <1>8, <1>l, <1>g, Zenon DEF CancelWriter, CancelReturns
<1>9. CASE \E c \in Callers : CancelWaited(c)
  BY <1>9, <1>l, <1>g, Zenon DEF CancelWaited, CancelReturns
<1>10. CASE CheckDone \/ StopWriter \/ EndWriter
  BY <1>10, <1>p, Zenon DEF CheckDone, StopWriter, EndWriter
<1>11. CASE UNCHANGED vars
  BY <1>11, <1>p, Zenon DEF vars
<1> QED
  BY <1>1, <1>2, <1>3, <1>4, <1>5, <1>6, <1>7, <1>8, <1>9, <1>10, <1>11,
     NextCases, Zenon

LEMMA DataStep ==
  ASSUME ValuesOK, QueueKept, ReceivedKept, [Next]_vars
  PROVE  DataOK'
<1>0. DataOK
  BY Zenon DEF ValuesOK
<1>1a. Cleanup => queue' = <<>> /\ UNCHANGED <<stored, hashed>>
  BY Zenon DEF Cleanup
<1>1b. <<>> \in Seq(1..NumChunks) /\ Len(<<>>) <= MaxQueue
  BY SMT
<1> USE <1>0 DEF DataOK, file
<1>1. CASE WriteCache
  <2>1. received' = received + 1 /\ received < NumChunks
        /\ UNCHANGED <<writer, queue, chunk, stored, hashed>>
    BY <1>1, Zenon DEF WriteCache
  <2> QED
    BY <2>1, SMT
<1>2. CASE WriteRefused \/ WaitForSpace \/ GiveUpCaching \/ CurlEnds
  BY <1>2, Zenon DEF WriteRefused, WaitForSpace, GiveUpCaching, CurlEnds
<1>3. CASE Enqueue
  <2>1. received \in 1..NumChunks
    BY <1>3, SMT DEF Enqueue, ReceivedKept, AtHand
  <2>2. /\ queue' = Append(queue, received) /\ ~(Len(queue) >= MaxQueue)
        /\ UNCHANGED <<writer, chunk, stored, hashed, received>>
    BY <1>3, Zenon DEF Enqueue, QueueFull
  <2> QED
    BY <2>1, <2>2, SMT
<1>4. CASE CurlDone \/ FinishCache \/ Publish \/ CloseFiles
  BY <1>4, Zenon DEF CurlDone, FinishCache, Publish, CloseFiles
<1>5. CASE ExtractionEnds \/ NoExtraction \/ UserCancels \/ Destroy
  BY <1>5, Zenon DEF ExtractionEnds, NoExtraction, UserCancels, Destroy
<1>6. CASE \E c \in Callers : CancelWriter(c)
  BY <1>6, Zenon DEF CancelWriter
<1>7. CASE \E c \in Callers : CancelWaited(c)
  BY <1>7, <1>1a, <1>1b, Zenon DEF CancelWaited
<1>8. CASE TakeChunk
  <2>1. CASE queue # <<>> /\ chunk' = Head(queue) /\ queue' = Tail(queue) /\ writer' = "write"
    <3>1. UNCHANGED <<stored, hashed, received>>
      BY <1>8, Zenon DEF TakeChunk
    <3> QED
      BY <2>1, <3>1, SMT
  <2>2. CASE writer' = "check" /\ UNCHANGED <<chunk, queue>>
    BY <1>8, <2>2, Zenon DEF TakeChunk
  <2> QED
    BY <1>8, <2>1, <2>2, Zenon DEF TakeChunk
<1>9. CASE WriteChunk
  <2>1. chunk \in 1..NumChunks
    BY <1>9, SMT DEF WriteChunk, QueueKept
  <2>2. Append(stored, chunk) \in Seq(1..NumChunks) /\ Append(hashed, chunk) \in Seq(1..NumChunks)
    BY <2>1, SMT
  <2>3. 0 \in 0..NumChunks
    BY SMT
  <2> QED
    BY <1>9, <2>2, <2>3, Zenon DEF WriteChunk
<1>10. CASE CheckDone \/ StopWriter
  BY <1>10, Zenon DEF CheckDone, StopWriter
<1>11. CASE EndWriter
  BY <1>11, <1>1a, <1>1b, Zenon DEF EndWriter
<1>12. CASE UNCHANGED vars
  BY <1>12, Zenon DEF vars
<1> QED
  BY <1>1, <1>2, <1>3, <1>4, <1>5, <1>6, <1>7, <1>8, <1>9, <1>10, <1>11, <1>12,
     NextCases, Zenon


-------------------------------------------------------------------------------
(***************************************************************************)
(* The order of the chunks.                                                *)
(***************************************************************************)
\* The steps as the queue sees them.
LEMMA QueueSteps ==
  ASSUME ValuesOK, FlagsOK, [Next]_vars
  PROVE  \/ /\ UNCHANGED <<writer, chunk, stored, hashed, queue, received>>
            /\ (AtHand' <=> AtHand) /\ (Caching' => Caching)
         \/ /\ UNCHANGED <<writer, chunk, stored, hashed, queue, received>>
            /\ ~AtHand' /\ ~cacheEnabled'
         \/ WriteCache
         \/ Enqueue
         \/ /\ UNCHANGED <<writer, chunk, stored, hashed, received>>
            /\ writer = "ended" /\ (AtHand' <=> AtHand)
         \/ EndWriter
         \/ TakeChunk \/ WriteChunk \/ CheckDone \/ StopWriter
<1>p. pc \in [Callers -> Labels]
  BY Zenon DEF ValuesOK
<1>d. \A label : Goto("download", label) => pc'["download"] = label
  BY <1>p, SMT DEF Goto, Callers
<1>e. \A label : \A c \in Callers :
        Goto(c, label) /\ c # "download" => pc'["download"] = pc["download"]
  BY <1>p, SMT DEF Goto, Callers
<1>f. "extract" \in Callers /\ "main" \in Callers /\ "extract" # "download" /\ "main" # "download"
  BY SMT DEF Callers
<1> USE DEF file, flags, Caching, AtHand
<1>1. CASE WriteCache \/ Enqueue \/ TakeChunk \/ WriteChunk \/ CheckDone \/
       StopWriter \/ EndWriter
  BY <1>1, Zenon
<1>2. CASE WriteRefused
  <2>1. pc'["download"] = "running"
    BY <1>2, <1>d, Zenon DEF WriteRefused
  <2>2. ~AtHand'
    BY <2>1, SMT
  <2> QED
    BY <1>2, <2>2, Zenon DEF WriteRefused
<1>3. CASE WaitForSpace
  <2>1. pc["download"] = "write" /\ pc'["download"] = "full"
    BY <1>3, <1>d, Zenon DEF WaitForSpace
  <2>2. AtHand' /\ AtHand
    BY <2>1, Zenon
  <2> QED
    BY <1>3, <2>2, Zenon DEF WaitForSpace
<1>4. CASE GiveUpCaching
  <2>1. pc'["download"] = "running"
    BY <1>4, <1>d, Zenon DEF GiveUpCaching
  <2>2. ~AtHand'
    BY <2>1, SMT
  <2> QED
    BY <1>4, <2>2, Zenon DEF GiveUpCaching
<1>5. CASE CurlEnds
  <2>1. pc["download"] = "running" /\ pc'["download"] = "cancel"
    BY <1>5, <1>d, Zenon DEF CurlEnds
  <2>2. ~AtHand' /\ ~AtHand
    BY <2>1, SMT
  <2> QED
    BY <1>5, <2>2, Zenon DEF CurlEnds
<1>6. CASE CurlDone
  <2>1. pc["download"] = "running" /\ pc'["download"] = "done"
    BY <1>6, <1>d, Zenon DEF CurlDone
  <2>2. ~AtHand' /\ ~AtHand
    BY <2>1, SMT
  <2> QED
    BY <1>6, <2>2, Zenon DEF CurlDone
<1>7. CASE FinishCache
  <2>1. pc'["download"] = pc["download"]
    BY <1>7, <1>e, <1>f, Zenon DEF FinishCache
  <2> QED
    BY <1>7, <2>1, Zenon DEF FinishCache
<1>8. CASE Publish
  <2>1. pc'["download"] = pc["download"]
    BY <1>8, <1>e, <1>f, Zenon DEF Publish
  <2> QED
    BY <1>8, <2>1, Zenon DEF Publish
<1>9. CASE CloseFiles
  <2>1. pc'["download"] = pc["download"]
    BY <1>9, <1>e, <1>f, Zenon DEF CloseFiles
  <2> QED
    BY <1>9, <2>1, Zenon DEF CloseFiles
<1>10. CASE ExtractionEnds
  <2>1. pc'["download"] = pc["download"]
    BY <1>10, <1>e, <1>f, Zenon DEF ExtractionEnds
  <2> QED
    BY <1>10, <2>1, Zenon DEF ExtractionEnds
<1>11. CASE NoExtraction
  <2>1. pc'["download"] = pc["download"]
    BY <1>11, <1>e, <1>f, Zenon DEF NoExtraction
  <2> QED
    BY <1>11, <2>1, Zenon DEF NoExtraction
<1>12. CASE UserCancels
  BY <1>12, Zenon DEF UserCancels
<1>13. CASE Destroy
  <2>1. pc'["download"] = pc["download"]
    BY <1>13, <1>e, <1>f, Zenon DEF Destroy
  <2> QED
    BY <1>13, <2>1, Zenon DEF Destroy
<1>14. CASE \E c \in Callers : CancelWriter(c)
  <2>0. PICK c \in Callers : CancelWriter(c)
    BY <1>14, Zenon
  <2>1. AtHand' <=> AtHand
    <3>1. CASE c = "download"
      <4>1. pc["download"] = "cancel" /\ pc'["download"] \in {"done", "cancelling"}
        BY <2>0, <3>1, <1>d, Zenon DEF CancelWriter, CancelReturns
      <4> QED
        BY <4>1, SMT
    <3>2. CASE c # "download"
      <4>1. pc'["download"] = pc["download"]
        BY <2>0, <3>2, <1>e, Zenon DEF CancelWriter, CancelReturns
      <4> QED
        BY <4>1, Zenon
    <3> QED
      BY <3>1, <3>2
  <2> QED
    BY <2>0, <2>1, Zenon DEF CancelWriter
<1>15. CASE \E c \in Callers : CancelWaited(c)
  <2>0. PICK c \in Callers : CancelWaited(c)
    BY <1>15, Zenon
  <2>1. AtHand' <=> AtHand
    <3>1. CASE c = "download"
      <4>1. pc["download"] = "cancelling" /\ pc'["download"] \in {"done", "aborted"}
        BY <2>0, <3>1, <1>d, Zenon DEF CancelWaited, CancelReturns
      <4> QED
        BY <4>1, SMT
    <3>2. CASE c # "download"
      <4>1. pc'["download"] = pc["download"]
        BY <2>0, <3>2, <1>e, Zenon DEF CancelWaited, CancelReturns
      <4> QED
        BY <4>1, Zenon
    <3> QED
      BY <3>1, <3>2
  <2> QED
    BY <2>0, <2>1, Zenon DEF CancelWaited, Cleanup
<1>16. CASE UNCHANGED vars
  BY <1>16, Zenon DEF vars
<1> QED
  BY <1>1, <1>2, <1>3, <1>4, <1>5, <1>6, <1>7, <1>8, <1>9, <1>10, <1>11, <1>12,
     <1>13, <1>14, <1>15, <1>16, NextCases, Zenon

LEMMA FlagSteps ==
  ASSUME ValuesOK, FlagsOK, [Next]_vars
  PROVE  /\ UNCHANGED shouldStop \/ shouldStop' = TRUE
         /\ UNCHANGED hasError \/ hasError' = TRUE
         /\ UNCHANGED exists \/ exists' = FALSE
         /\ UNCHANGED published \/ published' = TRUE
         /\ UNCHANGED finishing \/ (finishing' = TRUE /\ FinishCache /\ Caching)
<1> USE DEF flags, file, Caching, Healthy
<1>1. CASE WriteCache \/ WriteRefused \/ Enqueue
  BY <1>1, Zenon DEF WriteCache, WriteRefused, Enqueue
<1>2. CASE WaitForSpace \/ GiveUpCaching \/ CurlEnds
  BY <1>2, Zenon DEF WaitForSpace, GiveUpCaching, CurlEnds
<1>3. CASE CurlDone \/ FinishCache \/ Publish
  BY <1>3, Zenon DEF CurlDone, FinishCache, Publish
<1>4. CASE CloseFiles \/ ExtractionEnds \/ NoExtraction
  BY <1>4, Zenon DEF CloseFiles, ExtractionEnds, NoExtraction
<1>5. CASE UserCancels \/ Destroy \/ TakeChunk
  BY <1>5, Zenon DEF UserCancels, Destroy, TakeChunk
<1>6. CASE \E c \in Callers : CancelWriter(c)
  BY <1>6, Zenon DEF CancelWriter, CancelReturns
<1>7. CASE \E c \in Callers : CancelWaited(c)
  BY <1>7, Zenon DEF CancelWaited, CancelReturns, Cleanup
<1>8. CASE WriteChunk \/ CheckDone \/ StopWriter
  BY <1>8, Zenon DEF WriteChunk, CheckDone, StopWriter
<1>9. CASE EndWriter
  BY <1>9, Zenon DEF EndWriter, Cleanup
<1>10. CASE UNCHANGED vars
  BY <1>10, Zenon DEF vars
<1> QED
  BY <1>1, <1>2, <1>3, <1>4, <1>5, <1>6, <1>7, <1>8, <1>9, <1>10, NextCases, Zenon

\* The chunks the extract thread may have.
LEMMA ExtractableIs == Extractable = IF AtHand THEN received - 1 ELSE received
BY Zenon DEF Extractable, AtHand

LEMMA QueueInit == Init => QueueKept
BY SMT DEF Init, QueueKept, Writing, Buffered, Ahead, Extractable, AtHand, Callers

LEMMA QueueStep ==
  ASSUME TypeInv, QueueKept, [Next]_vars
  PROVE  QueueKept' /\ (Writing /\ Writing' => Buffered' >= Buffered)
<1>0. ValuesOK /\ FlagsOK /\ DataOK
  BY TypeParts, Zenon DEF TypeInv, ValuesOK
<1>t. /\ Len(stored) \in Nat /\ Len(queue) \in Nat /\ chunk \in Nat /\ received \in Nat
      /\ queue \in Seq(Nat) /\ stored \in Seq(Nat)
      /\ AtHand => received > 0
  BY <1>0, SMT DEF DataOK, TypeInv, ReceivedKept, AtHand
<1>x. Extractable = IF AtHand THEN received - 1 ELSE received
  BY ExtractableIs
<1>x1. Extractable' = IF AtHand' THEN received' - 1 ELSE received'
  BY Zenon DEF Extractable, AtHand
<1> USE <1>t, <1>x, <1>x1 DEF QueueKept, Writing, Buffered, Ahead
<1>1. CASE /\ UNCHANGED <<writer, chunk, stored, hashed, queue, received>>
           /\ (AtHand' <=> AtHand) /\ (Caching' => Caching)
  BY <1>1, SMT
<1>2. CASE /\ UNCHANGED <<writer, chunk, stored, hashed, queue, received>>
           /\ ~AtHand' /\ ~cacheEnabled'
  BY <1>2, SMT DEF Caching
<1>3. CASE WriteCache
  <2>1. /\ UNCHANGED <<writer, chunk, stored, queue, isActive, hasError>>
        /\ received' = received + 1 /\ ~AtHand
        /\ cacheEnabled' => cacheEnabled
    <3>1. /\ UNCHANGED <<writer, chunk, stored, queue, isActive, hasError>>
          /\ received' = received + 1 /\ pc["download"] = "running"
          /\ cacheEnabled' = (cacheEnabled /\ ~hasError)
      BY <1>3, Zenon DEF WriteCache, file, flags
    <3>2. cacheEnabled' => cacheEnabled
      BY <3>1, Zenon
    <3>3. ~AtHand
      BY <3>1, SMT DEF AtHand
    <3> QED
      BY <3>1, <3>2, <3>3, Zenon
  <2>2. CASE Caching
    <3>1. AtHand'
      BY <1>0, <1>3, <2>2, SMT DEF WriteCache, Caching, Healthy, Goto, AtHand, ValuesOK, Callers
    <3> QED
      BY <2>1, <2>2, <3>1, SMT
  <2>3. CASE ~Caching
    <3>1. ~AtHand' /\ ~Caching'
      BY <1>3, <2>1, <2>3, SMT DEF WriteCache, Caching, Healthy, AtHand
    <3> QED
      BY <2>1, <3>1, SMT
  <2> QED
    BY <2>2, <2>3
<1>4. CASE Enqueue
  <2>1. /\ queue' = Append(queue, received) /\ AtHand
        /\ UNCHANGED <<writer, chunk, stored, received>>
    BY <1>4, SMT DEF Enqueue, AtHand, file
  <2>2. ~AtHand'
    BY <1>0, <1>4, SMT DEF Enqueue, AtHand, Goto, ValuesOK, Callers
  <2>3. Len(queue') = Len(queue) + 1
    BY <2>1, SMT
  <2>4. \A i \in 1..Len(queue') : queue'[i] = IF i <= Len(queue) THEN queue[i] ELSE received
    BY <2>1, SMT
  <2> QED
    <3>1. CASE Writing
      <4>1. /\ Len(stored) + Ahead + Len(queue) = received - 1
            /\ \A i \in 1..Len(queue) : queue[i] = Len(stored) + Ahead + i
            /\ Ahead \in {0, 1}
        BY <2>1, <3>1, SMT
      <4>2. Ahead' = Ahead /\ Len(stored') = Len(stored)
        BY <2>1, SMT
      <4> HIDE DEF QueueKept, Ahead
      <4>3. \A i \in 1..Len(queue') : queue'[i] = Len(stored') + Ahead' + i
        <5>1. ASSUME NEW i \in 1..Len(queue')
              PROVE  queue'[i] = Len(stored) + Ahead + i
          <6>1. CASE i <= Len(queue)
            <7>1. i \in 1..Len(queue) /\ queue'[i] = queue[i]
              BY <2>3, <2>4, <6>1, SMTT(60)
            <7> QED
              BY <4>1, <7>1
          <6>2. CASE ~(i <= Len(queue))
            <7>1. i = Len(queue) + 1 /\ queue'[i] = received
              BY <2>3, <2>4, <6>2, SMT
            <7> QED
              BY <4>1, <7>1, SMT
          <6> QED
            BY <6>1, <6>2
        <5> QED
          BY <4>2, <5>1, Zenon
      <4>4. Buffered = received - 1 /\ Buffered' = received'
        BY <2>1, <2>3, <4>1, <4>2, SMT
      <4>5. Writing' /\ (chunk # 0 => chunk = Len(stored) + 1)
            /\ (chunk # 0 <=> writer = "write") /\ \A i \in 1..Len(stored) : stored[i] = i
        BY <2>1, <3>1, Zenon DEF QueueKept
      <4> HIDE DEF Buffered, Writing
      <4> QED
        BY <2>1, <2>2, <4>3, <4>4, <4>5, SMT DEF QueueKept
    <3>2. CASE ~Writing
      BY <2>1, <3>2, Zenon
    <3> QED
      BY <3>1, <3>2
<1>5. CASE /\ UNCHANGED <<writer, chunk, stored, hashed, received>>
           /\ writer = "ended" /\ (AtHand' <=> AtHand)
  BY <1>5, SMT
<1>6. CASE EndWriter
  <2>1. writer = "exit" /\ writer' = "ended" /\ UNCHANGED <<chunk, stored>>
    BY <1>6, Zenon DEF EndWriter, Cleanup, file
  <2> QED
    BY <2>1, SMT
<1>7. CASE TakeChunk
  <2>1. /\ UNCHANGED <<stored, received, pc, cacheEnabled, isActive, hasError>>
        /\ writer = "loop"
    BY <1>7, Zenon DEF TakeChunk, file, flags
  <2>2. (AtHand' <=> AtHand) /\ (Caching' <=> Caching)
    BY <2>1, Zenon DEF AtHand, Caching
  <2>3. CASE queue # <<>> /\ chunk' = Head(queue) /\ queue' = Tail(queue) /\ writer' = "write"
    <3>1. chunk = 0 /\ Len(queue) >= 1 /\ Len(queue') = Len(queue) - 1
      BY <2>1, <2>3, SMT
    <3>2. chunk' = queue[1] /\ \A i \in 1..Len(queue') : queue'[i] = queue[i + 1]
      BY <2>3, <3>1, SMT
    <3>3. chunk' = Len(stored) + 1
      BY <2>1, <3>1, <3>2, SMT
    <3> QED
      <4>1. Ahead = 0 /\ Ahead' = 1
        BY <3>1, <3>3, SMT
      <4>2. \A i \in 1..Len(queue') : queue'[i] = Len(stored') + Ahead' + i
        BY <2>1, <3>1, <3>2, <4>1, SMT
      <4>3. Buffered' = Buffered
        BY <2>1, <3>1, <4>1, SMT
      <4>4. (chunk' # 0 <=> writer' = "write") /\ UNCHANGED <<stored, received>>
        BY <2>1, <2>3, <3>3, SMT
      <4>5. /\ AtHand => Buffered = received - 1
            /\ Caching => Buffered = Extractable
            /\ \A i \in 1..Len(stored) : stored[i] = i
        BY <2>1, SMT
      <4> HIDE DEF Buffered, Ahead, QueueKept, Writing
      <4>6. Extractable' = Extractable /\ (AtHand' => Buffered' = received' - 1)
            /\ (Caching' => Buffered' = Extractable')
        BY <2>2, <4>3, <4>4, <4>5, SMT
      <4>7. \A i \in 1..Len(stored') : stored'[i] = i
        BY <4>4, <4>5, SMT
      <4>8. Buffered' >= Buffered
        BY <4>3, SMT DEF Buffered, Ahead
      <4> QED
        BY <3>3, <4>2, <4>4, <4>6, <4>7, <4>8, Zenon DEF QueueKept
  <2>4. CASE writer' = "check" /\ UNCHANGED <<chunk, queue>>
    BY <2>1, <2>2, <2>4, SMT
  <2> QED
    BY <1>7, <2>3, <2>4, Zenon DEF TakeChunk
<1>8. CASE WriteChunk
  <2>1. /\ UNCHANGED <<queue, received, pc, cacheEnabled, isActive>>
        /\ writer = "write" /\ chunk' = 0
    BY <1>8, Zenon DEF WriteChunk
  <2>2. AtHand' <=> AtHand
    BY <2>1, Zenon DEF AtHand
  <2>3. CASE stored' = Append(stored, chunk) /\ writer' = "check" /\ UNCHANGED hasError
    <3>1. Len(stored') = Len(stored) + 1
      BY <2>3, SMT
    <3>2. \A i \in 1..Len(stored') : stored'[i] = IF i <= Len(stored) THEN stored[i] ELSE chunk
      BY <2>3, SMT
    <3>3. chunk = Len(stored) + 1
      BY <2>1, SMT
    <3>4. Caching' <=> Caching
      BY <2>1, <2>3, Zenon DEF Caching
    <3>5. \A i \in 1..Len(stored') : stored'[i] = i
      <4>1. \A i \in 1..Len(stored) : stored[i] = i
        BY Zenon
      <4> HIDE DEF QueueKept
      <4> QED
        BY <3>1, <3>2, <3>3, <4>1, SMT
    <3> QED
      BY <2>1, <2>2, <2>3, <3>1, <3>3, <3>4, <3>5, SMT
  <2>4. CASE writer' = "exit" /\ UNCHANGED stored
    BY <2>1, <2>4, SMT
  <2> QED
    BY <1>8, <2>3, <2>4, Zenon DEF WriteChunk
<1>9. CASE CheckDone
  <2>1. /\ UNCHANGED <<queue, chunk, stored, received, pc, cacheEnabled, isActive, hasError>>
        /\ writer = "check" /\ writer' \in {"loop", "exit"}
    BY <1>9, Zenon DEF CheckDone, file, flags
  <2>2. (AtHand' <=> AtHand) /\ (Caching' <=> Caching)
    BY <2>1, Zenon DEF AtHand, Caching
  <2> QED
    BY <2>1, <2>2, SMT
<1>10. CASE StopWriter
  <2>1. UNCHANGED <<chunk, stored>> /\ writer = "loop" /\ writer' = "exit"
    BY <1>10, Zenon DEF StopWriter, file
  <2> QED
    BY <2>1, SMT
<1> QED
  BY <1>0, <1>1, <1>2, <1>3, <1>4, <1>5, <1>6, <1>7, <1>8, <1>9, <1>10, QueueSteps, Zenon

LEMMA ReceivedStep ==
  ASSUME FlagsOK, ValuesOK, ReceivedKept, [Next]_vars
  PROVE  ReceivedKept'
<1>1. CASE WriteCache
  BY <1>1, SMT DEF WriteCache, ReceivedKept, ValuesOK, DataOK
<1>2. CASE Enqueue
  BY <1>2, SMT DEF Enqueue, ReceivedKept, AtHand
<1>3. CASE TakeChunk \/ WriteChunk \/ CheckDone \/ StopWriter \/ EndWriter
  <2>1. UNCHANGED <<pc, received>>
    BY <1>3, Zenon DEF TakeChunk, WriteChunk, CheckDone, StopWriter, EndWriter
  <2> QED
    BY <2>1, Zenon DEF ReceivedKept, AtHand
<1>4. CASE UNCHANGED received /\ (AtHand' => AtHand)
  BY <1>4, Zenon DEF ReceivedKept
<1> QED
  BY <1>1, <1>2, <1>3, <1>4, QueueSteps, Zenon

LEMMA TypeInit == Init => TypeInv
<1>1. Init => FlagsOK
  BY Zenon DEF Init, FlagsOK
<1>2. Init => ValuesOK /\ ReceivedKept
  BY SMT DEF Init, ValuesOK, DataOK, Labels, Callers, ReceivedKept, AtHand
<1> QED
  BY <1>1, <1>2, TypeParts, Zenon DEF TypeInv

LEMMA TypeStep ==
  ASSUME TypeInv, QueueKept, [Next]_vars
  PROVE  TypeInv'
<1>1. FlagsOK /\ ValuesOK /\ ReceivedKept
  BY TypeParts, Zenon DEF TypeInv
<1>2. FlagsOK'
  BY <1>1, FlagsStep
<1>3. pc' \in [Callers -> Labels]
  BY <1>1, MovesKeepLabels
<1>4. DataOK'
  BY <1>1, DataStep
<1>5. ReceivedKept'
  BY <1>1, ReceivedStep
<1>6. ValuesOK'
  BY <1>3, <1>4, Zenon DEF ValuesOK
<1>7. TypeOK'
  BY <1>2, <1>6, Zenon DEF TypeOK, FlagsOK, ValuesOK, DataOK, Labels
<1> QED
  BY <1>5, <1>7, Zenon DEF TypeInv

-------------------------------------------------------------------------------
(***************************************************************************)
(* The end of the file.                                                    *)
(***************************************************************************)
\* The steps as the file sees them.
LEMMA WriterSteps ==
  ASSUME ValuesOK, FlagsOK, [Next]_vars
  PROVE  \/ UNCHANGED <<writer, stored, hashed>>
         \/ TakeChunk \/ WriteChunk \/ CheckDone \/ StopWriter \/ EndWriter
<1>1. WriteCache \/ Enqueue => UNCHANGED <<writer, stored, hashed>>
  BY Zenon DEF WriteCache, Enqueue, file
<1> QED
  BY <1>1, QueueSteps, Zenon

\* The writer thread never works again, and has the last word.
LEMMA WriterMoves ==
  ASSUME ValuesOK, FlagsOK, [Next]_vars
  PROVE  /\ Writing' => Writing
         /\ writer = "ended" => UNCHANGED <<writer, stored, hashed>>
         /\ writer' = "ended" => writer = "ended" \/ EndWriter
<1> USE DEF Writing
<1>1. CASE UNCHANGED <<writer, stored, hashed>>
  BY <1>1, Zenon
<1>2. CASE TakeChunk
  <2>1. writer = "loop" /\ writer' \in {"write", "check"}
    BY <1>2, Zenon DEF TakeChunk
  <2> QED
    BY <2>1, SMT
<1>3. CASE WriteChunk
  <2>1. writer = "write" /\ writer' \in {"check", "exit"}
    BY <1>3, Zenon DEF WriteChunk
  <2> QED
    BY <2>1, SMT
<1>4. CASE CheckDone
  <2>1. writer = "check" /\ writer' \in {"loop", "exit"}
    BY <1>4, Zenon DEF CheckDone
  <2> QED
    BY <2>1, SMT
<1>5. CASE StopWriter
  <2>1. writer = "loop" /\ writer' = "exit"
    BY <1>5, Zenon DEF StopWriter
  <2> QED
    BY <2>1, SMT
<1>6. CASE EndWriter
  <2>1. writer = "exit" /\ writer' = "ended"
    BY <1>6, Zenon DEF EndWriter
  <2>2. ~Writing' /\ writer # "ended"
    BY <2>1, SMT
  <2> QED
    BY <1>6, <2>2, Zenon
<1> QED
  BY <1>1, <1>2, <1>3, <1>4, <1>5, <1>6, WriterSteps, Zenon

\* The flags, once raised, stay so, and the file does not come back.
LEMMA FlagsMove ==
  ASSUME ValuesOK, FlagsOK, [Next]_vars
  PROVE  /\ shouldStop => shouldStop'
         /\ hasError => hasError'
         /\ exists' => exists
         /\ published => published'
         /\ finishing => finishing'
         /\ finishing' => finishing \/ (FinishCache /\ Caching)
<1>1. shouldStop => shouldStop'
  <2>1. CASE shouldStop' = shouldStop
    BY <2>1, Zenon
  <2>2. CASE shouldStop' = TRUE
    BY <2>2, Zenon
  <2> QED
    BY <2>1, <2>2, FlagSteps, Zenon
<1>2. hasError => hasError'
  <2>1. CASE hasError' = hasError
    BY <2>1, Zenon
  <2>2. CASE hasError' = TRUE
    BY <2>2, Zenon
  <2> QED
    BY <2>1, <2>2, FlagSteps, Zenon
<1>3. exists' => exists
  <2>1. CASE exists' = exists
    BY <2>1, Zenon
  <2>2. CASE exists' = FALSE
    BY <2>2, Zenon
  <2> QED
    BY <2>1, <2>2, FlagSteps, Zenon
<1>4. published => published'
  <2>1. CASE published' = published
    BY <2>1, Zenon
  <2>2. CASE published' = TRUE
    BY <2>2, Zenon
  <2> QED
    BY <2>1, <2>2, FlagSteps, Zenon
<1>5. finishing => finishing'
  <2>1. CASE finishing' = finishing
    BY <2>1, Zenon
  <2>2. CASE finishing' = TRUE
    BY <2>2, Zenon
  <2> QED
    BY <2>1, <2>2, FlagSteps, Zenon
<1>6. CASE UNCHANGED finishing
  BY <1>1, <1>2, <1>3, <1>4, <1>5, <1>6, Zenon
<1>7. CASE FinishCache /\ Caching
  BY <1>1, <1>2, <1>3, <1>4, <1>5, <1>7, Zenon
<1> QED
  BY <1>6, <1>7, FlagSteps, Zenon

LEMMA FinishInit == Init => FinishKept
BY SMT DEF Init, FinishKept, Writing, Buffered, Ahead

LEMMA FinishStep ==
  ASSUME TypeInv, QueueKept, FinishKept, [Next]_vars
  PROVE  FinishKept'
<1>0. ValuesOK /\ FlagsOK /\ DataOK
  BY TypeParts, Zenon DEF TypeInv, ValuesOK
<1>t. /\ Len(stored) \in Nat /\ Len(queue) \in Nat /\ Ahead \in Nat /\ NeededChunks \in Nat
      /\ received \in Nat /\ Buffered \in Nat /\ Buffered' = Len(stored') + Ahead' + Len(queue')
  BY <1>0, SMT DEF DataOK, Ahead, Buffered
<1>m. /\ Writing' => Writing
      /\ writer = "ended" => UNCHANGED <<writer, stored, hashed>>
      /\ writer' = "ended" => writer = "ended" \/ EndWriter
  BY <1>0, WriterMoves, Zenon
<1>f. /\ shouldStop => shouldStop'
      /\ hasError => hasError'
      /\ exists' => exists
      /\ finishing => finishing'
      /\ finishing' => finishing \/ (FinishCache /\ Caching)
  BY <1>0, FlagsMove, Zenon
<1>1. ASSUME finishing', Writing'
      PROVE  Buffered' >= NeededChunks
  <2>1. Writing
    BY <1>1, <1>m, Zenon
  <2>2. Buffered' >= Buffered /\ Buffered' \in Nat
    <3>1. DataOK'
      BY <1>0, DataStep, Zenon DEF TypeInv
    <3>2. Buffered' \in Nat
      BY <1>t, <3>1, SMT DEF DataOK, Ahead
    <3> QED
      BY <1>1, <2>1, <3>2, QueueStep, Zenon
  <2>3. Buffered >= NeededChunks
    <3>1. CASE finishing
      BY <2>1, <3>1, Zenon DEF FinishKept
    <3>2. CASE FinishCache /\ Caching
      <4>1. Extractable >= NeededChunks /\ Caching
        BY <3>2, Zenon DEF FinishCache
      <4>2. Buffered = Extractable
        BY <2>1, <4>1, Zenon DEF QueueKept
      <4> QED
        BY <4>1, <4>2, Zenon
    <3> QED
      BY <1>1, <1>f, <3>1, <3>2, Zenon
  <2> QED
    BY <1>t, <2>2, <2>3, SMT
<1>2. ASSUME writer' = "exit"
      PROVE  shouldStop' \/ hasError' \/ (finishing' /\ Len(stored') >= NeededChunks)
  <2>1. CASE UNCHANGED <<writer, stored, hashed>>
    BY <1>2, <1>f, <2>1, Zenon DEF FinishKept
  <2>2. CASE TakeChunk
    <3>1. writer' \in {"write", "check"}
      BY <2>2, Zenon DEF TakeChunk
    <3> QED
      BY <1>2, <3>1, SMT
  <2>3. CASE WriteChunk
    <3>1. writer' = "check" \/ hasError' = TRUE
      BY <2>3, Zenon DEF WriteChunk
    <3>2. "exit" # "check"
      BY SMT
    <3> QED
      BY <1>2, <3>1, <3>2, Zenon
  <2>4. CASE CheckDone
    <3>1. /\ writer = "check" /\ UNCHANGED <<stored, finishing>>
          /\ writer' = IF Done THEN "exit" ELSE "loop"
      BY <2>4, Zenon DEF CheckDone, file, flags
    <3>2. Writing /\ chunk = 0
      BY <1>0, <3>1, SMT DEF Writing, QueueKept
    <3>3. "exit" # "loop"
      BY SMT
    <3>4. finishing /\ queue = <<>>
      BY <1>2, <3>1, <3>3, Zenon DEF Done
    <3>5. Buffered >= NeededChunks
      BY <3>2, <3>4, Zenon DEF FinishKept
    <3>6. Buffered = Len(stored)
      BY <1>t, <3>2, <3>4, SMT DEF Buffered, Ahead
    <3> QED
      BY <1>f, <3>1, <3>4, <3>5, <3>6, Zenon
  <2>5. CASE StopWriter
    BY <1>f, <2>5, Zenon DEF StopWriter
  <2>6. CASE EndWriter
    <3>1. writer' = "ended"
      BY <2>6, Zenon DEF EndWriter
    <3> QED
      BY <1>2, <3>1, SMT
  <2> QED
    BY <1>0, <2>1, <2>2, <2>3, <2>4, <2>5, <2>6, WriterSteps, Zenon
<1>3. ASSUME writer' = "ended", exists'
      PROVE  Len(stored') >= NeededChunks
  <2>1. CASE writer = "ended"
    BY <1>3, <1>m, <1>f, <2>1, Zenon DEF FinishKept
  <2>2. CASE EndWriter
    <3>1. writer = "exit" /\ ~CleanupNeeded /\ stored' = stored
      BY <1>3, <2>2, Zenon DEF EndWriter, Cleanup, file
    <3> QED
      BY <3>1, Zenon DEF CleanupNeeded, FinishKept
  <2> QED
    BY <1>3, <1>m, <2>1, <2>2, Zenon
<1> QED
  BY <1>1, <1>2, <1>3, Zenon DEF FinishKept

\* Nobody starts to wait for the thread in cancel(), or gets to the end of ~DownloadThread().
NobodyCancels ==
  /\ \A c \in Callers : pc'[c] = "cancelling" => pc[c] = "cancelling"
  /\ pc'["main"] = "done" => pc["main"] = "done"

\* The steps as the callers see them.
LEMMA CallerSteps ==
  ASSUME ValuesOK, [Next]_vars
  PROVE  \/ NobodyCancels
         \/ \E c \in Callers : CancelWriter(c)
         \/ \E c \in Callers : CancelWaited(c)
<1>p. pc \in [Callers -> Labels]
  BY Zenon DEF ValuesOK
<1>d. \A c \in {"download", "extract"}, label \in Labels \ {"cancelling"} :
        Goto(c, label) => NobodyCancels
  BY <1>p, GotoMoves, SMT DEF Callers, NobodyCancels
<1>m. Goto("main", "cancel") => NobodyCancels
  BY <1>p, GotoMoves, SMT DEF Callers, Labels, NobodyCancels
<1>u. UNCHANGED pc => NobodyCancels
  BY Zenon DEF NobodyCancels
<1>l. /\ "download" \in {"download", "extract"} /\ "extract" \in {"download", "extract"}
      /\ {"running", "write", "full", "finishing", "sync", "cancel", "done"}
           \subseteq Labels \ {"cancelling"}
  BY SMT DEF Labels
<1>1. CASE WriteCache \/ FinishCache
  BY <1>1, <1>d, <1>l, <1>u, Zenon DEF WriteCache, FinishCache
<1>2. CASE WriteRefused \/ Enqueue \/ WaitForSpace
  BY <1>2, <1>d, <1>l, Zenon DEF WriteRefused, Enqueue, WaitForSpace
<1>3. CASE GiveUpCaching \/ CurlEnds \/ CurlDone
  BY <1>3, <1>d, <1>l, Zenon DEF GiveUpCaching, CurlEnds, CurlDone
<1>4. CASE Publish \/ NoExtraction
  BY <1>4, <1>d, <1>l, Zenon DEF Publish, NoExtraction
<1>5. CASE CloseFiles \/ ExtractionEnds
  <2>1. PICK next \in {"cancel", "done"} : Goto("extract", next)
    BY <1>5, Zenon DEF CloseFiles, ExtractionEnds
  <2> QED
    BY <2>1, <1>d, <1>l, Zenon
<1>6. CASE Destroy
  BY <1>6, <1>m, Zenon DEF Destroy
<1>7. CASE UserCancels \/ TakeChunk \/ WriteChunk
  BY <1>7, <1>u, Zenon DEF UserCancels, TakeChunk, WriteChunk
<1>8. CASE CheckDone \/ StopWriter \/ EndWriter
  BY <1>8, <1>u, Zenon DEF CheckDone, StopWriter, EndWriter
<1>9. CASE UNCHANGED vars
  BY <1>9, <1>u, Zenon DEF vars
<1> QED
  BY <1>1, <1>2, <1>3, <1>4, <1>5, <1>6, <1>7, <1>8, <1>9, NextCases, Zenon

LEMMA FileInit == Init => FileKept
BY SMT DEF Init, FileKept, Callers

\* A caller that cancels raises the flag, or finds the writer stopped.
LEMMA CancelIs ==
  ASSUME ValuesOK, NEW c \in Callers, CancelWriter(c)
  PROVE  /\ UNCHANGED <<writer, isActive, exists, published>>
         /\ \A d \in Callers : pc'[d] = "cancelling" => pc[d] = "cancelling" \/ shouldStop'
         /\ pc'["main"] = "done" => pc["main"] = "done" \/ (~isActive /\ writer = "ended")
<1>p. pc \in [Callers -> Labels] /\ {"done", "cancelling"} \subseteq Labels /\ "main" \in Callers
  BY Zenon DEF ValuesOK, Labels, Callers
<1>0. UNCHANGED <<writer, isActive, exists, published>>
  BY Zenon DEF CancelWriter, file
<1>1. CASE NothingToCancel
  <2>1. Goto(c, "done") /\ ~isActive /\ writer = "ended"
    BY <1>1, Zenon DEF CancelWriter, CancelReturns, NothingToCancel
  <2>2. pc'[c] = "done" /\ \A d \in Callers \ {c} : pc'[d] = pc[d]
    BY <1>p, <2>1, GotoMoves, Zenon
  <2>3. \A d \in Callers : pc'[d] = "cancelling" => pc[d] = "cancelling"
    BY <2>2, SMT
  <2> QED
    BY <1>0, <2>1, <2>3, Zenon
<1>2. CASE ~NothingToCancel
  <2>1. Goto(c, "cancelling") /\ shouldStop' = TRUE
    BY <1>2, Zenon DEF CancelWriter
  <2>2. pc'[c] = "cancelling" /\ \A d \in Callers \ {c} : pc'[d] = pc[d]
    BY <1>p, <2>1, GotoMoves, Zenon
  <2>3. pc'["main"] = "done" => pc["main"] = "done"
    BY <1>p, <2>2, SMT
  <2>4. shouldStop'
    BY <2>1, Zenon
  <2> QED
    BY <1>0, <2>3, <2>4, Zenon
<1> QED
  BY <1>1, <1>2

\* A caller that returns from the wait has cleaned up, or leaves it to the thread.
LEMMA CancelWaitedIs ==
  ASSUME ValuesOK, NEW c \in Callers, CancelWaited(c)
  PROVE  /\ pc[c] = "cancelling" /\ UNCHANGED <<writer, shouldStop, published>>
         /\ \A d \in Callers : pc'[d] = "cancelling" => pc[d] = "cancelling"
         /\ \/ writer = "ended" /\ exists' = FALSE
            \/ /\ writer # "ended" /\ UNCHANGED exists
               /\ pc'["main"] = "done" => pc["main"] = "done"
<1>p. pc \in [Callers -> Labels] /\ {"done", "aborted"} \subseteq Labels /\ "main" \in Callers
  BY Zenon DEF ValuesOK, Labels, Callers
<1>0. pc[c] = "cancelling" /\ UNCHANGED <<writer, shouldStop, published>>
  BY Zenon DEF CancelWaited
<1>1. PICK label \in {"done", "aborted"} :
        Goto(c, label) /\ (c = "main" /\ writer # "ended" => label = "aborted")
  BY Zenon DEF CancelWaited, CancelReturns
<1>2. pc'[c] = label /\ \A d \in Callers \ {c} : pc'[d] = pc[d]
  BY <1>p, <1>1, GotoMoves, Zenon
<1>3. \A d \in Callers : pc'[d] = "cancelling" => pc[d] = "cancelling"
  BY <1>1, <1>2, SMT
<1>4. writer # "ended" /\ pc'["main"] = "done" => pc["main"] = "done"
  BY <1>p, <1>1, <1>2, SMT
<1>5. (writer = "ended" /\ exists' = FALSE) \/ (writer # "ended" /\ UNCHANGED exists)
  BY Zenon DEF CancelWaited, Cleanup, file
<1> QED
  BY <1>0, <1>3, <1>4, <1>5, Zenon

\* Only finish() and cancel() take the writer out of use.
LEMMA ActiveSteps ==
  ASSUME [Next]_vars
  PROVE  UNCHANGED <<isActive, published>> \/ Publish \/ \E c \in Callers : CancelWaited(c)
<1> USE DEF flags
<1>1. CASE WriteCache \/ WriteRefused \/ Enqueue \/ WaitForSpace
  BY <1>1, Zenon DEF WriteCache, WriteRefused, Enqueue, WaitForSpace
<1>2. CASE GiveUpCaching \/ CurlEnds \/ CurlDone \/ FinishCache
  BY <1>2, Zenon DEF GiveUpCaching, CurlEnds, CurlDone, FinishCache
<1>3. CASE CloseFiles \/ ExtractionEnds \/ NoExtraction \/ UserCancels
  BY <1>3, Zenon DEF CloseFiles, ExtractionEnds, NoExtraction, UserCancels
<1>4. CASE Destroy \/ \E c \in Callers : CancelWriter(c)
  BY <1>4, Zenon DEF Destroy, CancelWriter
<1>5. CASE TakeChunk \/ WriteChunk \/ CheckDone
  BY <1>5, Zenon DEF TakeChunk, WriteChunk, CheckDone
<1>6. CASE StopWriter \/ EndWriter \/ UNCHANGED vars
  BY <1>6, Zenon DEF StopWriter, EndWriter, vars
<1> QED
  BY <1>1, <1>2, <1>3, <1>4, <1>5, <1>6, NextCases, Zenon

LEMMA FileStep ==
  ASSUME TypeInv, FileKept, [Next]_vars
  PROVE  FileKept'
<1>0. ValuesOK /\ FlagsOK
  BY TypeParts, Zenon DEF TypeInv
<1>f. /\ shouldStop => shouldStop'
      /\ exists' => exists
      /\ published => published'
  BY <1>0, FlagsMove, Zenon
<1>m. /\ writer = "ended" => writer' = "ended"
      /\ writer' = "ended" => writer = "ended" \/ EndWriter
  BY <1>0, WriterMoves, Zenon
<1>c. Callers' = Callers
  BY Zenon DEF Callers
<1>1. \A c \in Callers : pc'[c] = "cancelling" => shouldStop'
  <2>1. CASE NobodyCancels
    BY <1>f, <2>1, Zenon DEF NobodyCancels, FileKept
  <2>2. CASE \E c \in Callers : CancelWriter(c)
    BY <1>0, <1>f, <2>2, CancelIs, Zenon DEF FileKept
  <2>3. CASE \E c \in Callers : CancelWaited(c)
    BY <1>0, <1>f, <2>3, CancelWaitedIs, Zenon DEF FileKept
  <2> QED
    BY <1>0, <2>1, <2>2, <2>3, CallerSteps, Zenon
<1>2. published' => writer' = "ended"
  <2>1. CASE UNCHANGED <<isActive, published>>
    BY <1>m, <2>1, Zenon DEF FileKept
  <2>2. CASE Publish
    BY <2>2, Zenon DEF Publish, WriterWaitedFor
  <2>3. CASE \E c \in Callers : CancelWaited(c)
    BY <1>0, <1>m, <2>3, CancelWaitedIs, Zenon DEF FileKept
  <2> QED
    BY <2>1, <2>2, <2>3, ActiveSteps, Zenon
<1>3. ASSUME ~isActive', exists'
      PROVE  published' \/ (shouldStop' /\ writer' # "ended")
  <2>1. CASE UNCHANGED <<isActive, published>>
    <3>1. ~isActive /\ exists
      BY <1>3, <1>f, <2>1, Zenon
    <3>2. published \/ (shouldStop /\ writer # "ended")
      BY <3>1, Zenon DEF FileKept
    <3>3. ASSUME shouldStop, EndWriter
          PROVE  FALSE
      BY <1>3, <3>3, Zenon DEF EndWriter, CleanupNeeded, Cleanup
    <3> QED
      BY <1>f, <1>m, <3>2, <3>3, Zenon
  <2>2. CASE Publish
    BY <2>2, Zenon DEF Publish
  <2>3. CASE \E c \in Callers : CancelWaited(c)
    <3>1. PICK c \in Callers : CancelWaited(c)
      BY <2>3, Zenon
    <3>2. /\ pc[c] = "cancelling" /\ UNCHANGED <<writer, shouldStop>>
          /\ writer # "ended" \/ exists' = FALSE
      BY <1>0, <3>1, CancelWaitedIs, Zenon
    <3>3. shouldStop
      BY <3>2, Zenon DEF FileKept
    <3> QED
      BY <1>3, <1>f, <3>2, <3>3, Zenon
  <2> QED
    BY <2>1, <2>2, <2>3, ActiveSteps, Zenon
<1>4. ASSUME pc'["main"] = "done", exists'
      PROVE  published'
  <2>1. CASE pc["main"] = "done"
    BY <1>4, <1>f, <2>1, Zenon DEF FileKept
  <2>2. CASE NobodyCancels
    BY <1>4, <2>1, <2>2, Zenon DEF NobodyCancels
  <2>3. CASE \E c \in Callers : CancelWriter(c)
    <3>1. PICK c \in Callers : CancelWriter(c)
      BY <2>3, Zenon
    <3>2. pc["main"] = "done" \/ (~isActive /\ writer = "ended")
      BY <1>0, <1>4, <3>1, CancelIs, Zenon
    <3>3. ~isActive /\ writer = "ended" => published
      BY <1>4, <1>f, Zenon DEF FileKept
    <3> QED
      BY <1>f, <2>1, <3>2, <3>3, Zenon
  <2>4. CASE \E c \in Callers : CancelWaited(c)
    BY <1>0, <1>4, <2>1, <2>4, CancelWaitedIs, Zenon
  <2> QED
    BY <1>0, <2>2, <2>3, <2>4, CallerSteps, Zenon
<1> QED
  BY <1>1, <1>2, <1>3, <1>4, <1>c, Zenon DEF FileKept

-------------------------------------------------------------------------------
(***************************************************************************)
(* The hash.                                                               *)
(***************************************************************************)
LEMMA HashInit == Init => HashKept
BY SMT DEF Init, HashKept

LEMMA HashStep ==
  ASSUME TypeInv, HashKept, [Next]_vars
  PROVE  HashKept'
<1>0. ValuesOK /\ FlagsOK
  BY TypeParts, Zenon DEF TypeInv
<1>f. (hasError => hasError') /\ (exists' => exists)
  BY <1>0, FlagsMove, Zenon
<1>m. /\ writer = "ended" => UNCHANGED <<writer, stored, hashed>>
      /\ writer' = "ended" => writer = "ended" \/ EndWriter
  BY <1>0, WriterMoves, Zenon
<1>1. ASSUME writer' # "ended", ~hasError'
      PROVE  hashed' = stored'
  <2>1. hashed = stored
    BY <1>1, <1>m, <1>f, Zenon DEF HashKept
  <2>2. CASE UNCHANGED <<stored, hashed>>
    BY <2>1, <2>2, Zenon
  <2>3. CASE WriteChunk
    BY <1>1, <2>1, <2>3, Zenon DEF WriteChunk
  <2>4. CASE TakeChunk \/ CheckDone \/ StopWriter
    BY <2>1, <2>4, Zenon DEF TakeChunk, CheckDone, StopWriter, file
  <2>5. CASE EndWriter
    BY <1>1, <2>5, Zenon DEF EndWriter
  <2> QED
    BY <1>0, <2>2, <2>3, <2>4, <2>5, WriterSteps, Zenon
<1>2. ASSUME writer' = "ended", exists'
      PROVE  hashed' = stored'
  <2>1. CASE writer = "ended"
    BY <1>2, <1>m, <1>f, <2>1, Zenon DEF HashKept
  <2>2. CASE EndWriter
    <3>1. writer = "exit" /\ ~hasError /\ UNCHANGED <<stored, hashed>>
      BY <1>2, <2>2, Zenon DEF EndWriter, CleanupNeeded, Cleanup, file
    <3>2. writer # "ended"
      BY <3>1, SMT
    <3> QED
      BY <3>1, <3>2, Zenon DEF HashKept
  <2> QED
    BY <1>2, <1>m, <2>1, <2>2, Zenon
<1> QED
  BY <1>1, <1>2, Zenon DEF HashKept

-------------------------------------------------------------------------------
(***************************************************************************)
(* The theorems.                                                           *)
(***************************************************************************)
\* Where the callers, the thread and the file are, and what the queue holds: no more
\* chunks than its size, each of them one that curl has delivered.
THEOREM TypeCorrect == Spec => []TypeOK
<1>1. Init => TypeInv /\ QueueKept
  BY TypeInit, QueueInit
<1>2. TypeInv /\ QueueKept /\ [Next]_vars => (TypeInv /\ QueueKept)'
  BY TypeStep, QueueStep
<1>3. TypeInv => TypeOK
  BY DEF TypeInv
<1> QED
  BY <1>1, <1>2, <1>3, PTL DEF Spec

LEMMA Inductive == Spec => []IInv
<1>1. Init => IInv
  BY TypeInit, QueueInit, FinishInit, FileInit, HashInit, Zenon DEF IInv
<1>2. IInv /\ [Next]_vars => IInv'
  BY TypeStep, QueueStep, FinishStep, FileStep, HashStep, Zenon DEF IInv
<1> QED
  BY <1>1, <1>2, PTL DEF Spec

\* However errors, a full queue, a slow disk and the cancels of three threads meet:
\* when the download is over, a file in the cache directory has been announced, and
\* holds the chunks the image needs, from the first on, without a gap.
THEOREM LeftoverWhole == Spec => []LeftoverIsWhole
<1>1. IInv => LeftoverIsWhole
  <2> SUFFICES ASSUME IInv, pc["main"] = "done", writer = "ended", exists
               PROVE  /\ published
                      /\ Len(stored) >= NeededChunks
                      /\ stored = Chunks(Len(stored))
    BY Zenon DEF LeftoverIsWhole
  <2>1. published /\ Len(stored) >= NeededChunks
    BY Zenon DEF IInv, FileKept, FinishKept
  <2>2. stored \in Seq(1..NumChunks) /\ \A i \in 1..Len(stored) : stored[i] = i
    BY Zenon DEF IInv, TypeInv, TypeOK, QueueKept
  <2>3. stored = Chunks(Len(stored))
    BY <2>2, SMT DEF Chunks
  <2> QED
    BY <2>1, <2>3
<1> QED
  BY <1>1, Inductive, PTL

\* The hash that cacheFileHashUpdated() sends is that of the file, if it is still there.
THEOREM HashOfFile == Spec => []HashIsOfFile
<1>1. IInv => HashIsOfFile
  BY Zenon DEF IInv, FileKept, HashKept, HashIsOfFile
<1> QED
  BY <1>1, Inductive, PTL

-------------------------------------------------------------------------------
(***************************************************************************)
(* The cache manager: types, and what goes with them.                      *)
(***************************************************************************)
\* The verifications asked for whose result has not been taken.
Pending == Len(requests) + Len(results)

\* The sessions with an image.
Busy == {"waiting", "downloading", "stored", "syncing", "local"}
\* The files the program keeps itself.
Own(p) == p \in {"default", "old"}

\* What each place of the session tells of the other variables.
ShapeOK ==
  /\ session = "off" => results = <<>> /\ ~customCacheFile
  /\ session = "commandline" => ~customCacheFile /\ ~verificationComplete
  /\ session \in Busy => image \in Images
  /\ session \in {"stored", "local"} => path \in Paths
  /\ session = "stored" => fileHash \in Hashes /\ fileHash.of = image

\* Which file the status, the settings and the queues may name.
FilesOK ==
  /\ customCacheFile => cacheFileName \in Paths
  /\ ~customCacheFile =>
       /\ cacheFileName = None \/ Own(cacheFileName)
       /\ \A i \in 1..Len(requests) : Own(requests[i].file)
       /\ \A i \in 1..Len(results) : Own(results[i].file)
       /\ session \in {"downloading", "stored"} /\ path # None => Own(cacheFileName)

\* A hash that was not verified has at most one verification under way, and the write
\* that asks for another waits for it.
QueuesOK ==
  /\ Pending <= 2
  /\ session = "commandline" => Pending <= 1
  /\ cachedHash # None /\ ~verificationComplete /\ session # "waiting" => Pending <= 1

\* Inductive whatever comes together.
ManagerInv == ManagerTypeOK /\ ShapeOK /\ FilesOK /\ QueuesOK

-------------------------------------------------------------------------------
(* Facts the steps need.                                                   *)

\* None is none of the others.
LEMMA Distinct ==
  /\ None \notin Images /\ None # "default" /\ None # "old" /\ None # "custom"
  /\ Absent \in Contents /\ Compressed \subseteq Images
<1>1. None \notin Images /\ Compressed \subseteq Images
  BY ImagesAssumption, Zenon
<1>2. None # "default" /\ None # "old" /\ None # "custom"
  BY NoneAssumption, Zenon DEF Paths
<1> QED
  BY <1>1, <1>2, Zenon DEF Contents

\* A content that is there is of an image.
LEMMA ContentOf ==
  ASSUME NEW c \in Contents, c # Absent
  PROVE  c.of \in Images /\ c.kind \in WholeKinds \cup {"partial", "spoiled"}
BY SMT DEF Contents

\* What Content(i, k) is.
LEMMA ContentIn ==
  ASSUME NEW i \in Images, NEW k \in WholeKinds \cup {"partial", "spoiled"}
  PROVE  Content(i, k) \in Contents /\ Content(i, k).of = i /\ Content(i, k).kind = k
         /\ Content(i, k) # Absent
<1>1. /\ Content(i, k) \in [of : Images, kind : WholeKinds \cup {"partial", "spoiled"}]
      /\ Content(i, k).of = i /\ Content(i, k).kind = k
  BY SMT DEF Content
<1>2. Absent.of = None
  BY SMT DEF Content, Absent
<1>3. Content(i, k) # Absent
  BY <1>1, <1>2, Distinct, Zenon
<1> QED
  BY <1>1, <1>3, Zenon DEF Contents

\* The hash of an image is one.
LEMMA ImageHashIn ==
  ASSUME NEW i \in Images
  PROVE  ImageHash(i) \in Hashes /\ ImageHash(i).of = i
<1>1. ASSUME NEW k \in {"whole", "prefix", "image"}
      PROVE  Content(i, k) \in Hashes /\ Content(i, k).of = i
  BY SMT DEF Content, Hashes
<1> QED
  BY <1>1, SMT DEF ImageHash

\* The hash a verification asks for is of the image.
LEMMA HashToVerifyIn ==
  ASSUME NEW i \in Images, NEW h \in Hashes \cup {None}
  PROVE  /\ HashToVerify(i, h) \in Hashes
         /\ (h # None => h.of = i) => HashToVerify(i, h).of = i
<1>1. CASE h = None
  BY <1>1, ImageHashIn, Zenon DEF HashToVerify
<1>2. CASE h # None
  BY <1>2, SMT DEF HashToVerify
<1> QED
  BY <1>1, <1>2, Zenon

\* What removing a path leaves.
LEMMA RemovedIs ==
  ASSUME files \in [Paths -> Contents], NEW p, NEW b
  PROVE  /\ Removed(p, b) \in [Paths -> Contents]
         /\ \A q \in Paths : Removed(p, b)[q] \in {files[q], Absent}
<1>1. \A q \in Paths : Removed(p, b)[q] =
          IF b /\ q = p /\ ~(q = "old" /\ "oldStuck" \in faults) THEN Absent ELSE files[q]
  BY Zenon DEF Removed
<1>2. \A q \in Paths : Removed(p, b)[q] \in {files[q], Absent}
  BY <1>1, SMT
<1>3. Removed(p, b) = [q \in Paths |-> Removed(p, b)[q]]
  BY Zenon DEF Removed
<1>4. \A q \in Paths : Removed(p, b)[q] \in Contents
  BY <1>2, Distinct, SMT
<1> QED
  BY <1>2, <1>3, <1>4, SMT

\* The parts of the type invariant.
LEMMA ManagerParts ==
  ASSUME ManagerTypeOK
  PROVE  /\ faults \in Scenarios
         /\ files \in [Paths -> Contents]
         /\ settings \in Leftovers
         /\ cacheFileName \in Paths \cup {None}
         /\ cachedHash \in Images \cup {None}
         /\ cacheFileHash \in Hashes \cup {None}
         /\ isValid \in BOOLEAN /\ verificationComplete \in BOOLEAN
         /\ customCacheFile \in BOOLEAN
         /\ requests \in Seq(Requests) /\ results \in Seq(Results)
         /\ image \in Images \cup {None}
         /\ path \in Paths \cup {None}
         /\ fileHash \in Hashes \cup {None}
         /\ rejected \in Contents
BY Zenon DEF ManagerTypeOK

\* Where a write may be.
LEMMA SessionIn ==
  ASSUME ManagerTypeOK
  PROVE  session \in {"off", "commandline", "idle", "waiting", "downloading", "stored",
                      "syncing", "local"}
BY Zenon DEF ManagerTypeOK

\* What the type invariant says of the next state, from its parts.
LEMMA ManagerFromParts ==
  ASSUME faults' \in Scenarios, files' \in [Paths -> Contents], settings' \in Leftovers,
         cacheFileName' \in Paths \cup {None}, cachedHash' \in Images \cup {None},
         cacheFileHash' \in Hashes \cup {None},
         isValid' \in BOOLEAN, verificationComplete' \in BOOLEAN, customCacheFile' \in BOOLEAN,
         requests' \in Seq(Requests), results' \in Seq(Results), QueuesOK',
         session' \in {"off", "commandline", "idle", "waiting", "downloading", "stored",
                       "syncing", "local"},
         image' \in Images \cup {None}, path' \in Paths \cup {None},
         fileHash' \in Hashes \cup {None}, rejected' \in Contents
  PROVE  ManagerTypeOK'
BY Zenon DEF ManagerTypeOK, QueuesOK, Pending

\* Lengths and elements of a queue one element longer or shorter.
LEMMA Appended ==
  ASSUME NEW S, NEW q \in Seq(S), NEW e \in S
  PROVE  /\ Append(q, e) \in Seq(S) /\ Len(Append(q, e)) = Len(q) + 1
         /\ \A i \in 1..Len(Append(q, e)) :
              Append(q, e)[i] = IF i <= Len(q) THEN q[i] ELSE e
         /\ Len(q) \in Nat
OBVIOUS

LEMMA Shortened ==
  ASSUME NEW S, NEW q \in Seq(S), q # <<>>
  PROVE  /\ Tail(q) \in Seq(S) /\ Len(Tail(q)) = Len(q) - 1
         /\ Len(q) \in Nat \ {0} /\ Head(q) = q[1] /\ q[1] \in S
         /\ \A i \in 1..Len(Tail(q)) : Tail(q)[i] = q[i + 1] /\ i + 1 \in 1..Len(q)
OBVIOUS

-------------------------------------------------------------------------------
\* The first state.
LEMMA InitManager == ManagerInit => ManagerInv
<1> SUFFICES ASSUME ManagerInit PROVE ManagerInv
  OBVIOUS
<1>1. files \in [Paths -> Contents]
  BY SMT DEF ManagerInit, Contents, WholeKinds
<1>2. settings \in Leftovers /\ faults \in Scenarios
  BY Zenon DEF ManagerInit
<1>3. /\ requests \in Seq(Requests) /\ results \in Seq(Results)
      /\ Len(requests) = 0 /\ Len(results) = 0
  BY SMT DEF ManagerInit
<1>4. QueuesOK
  BY <1>3, SMT DEF QueuesOK, Pending, ManagerInit
<1>5. ManagerTypeOK
  <2>1. {isValid, verificationComplete, customCacheFile} \subseteq BOOLEAN
    BY Zenon DEF ManagerInit
  <2>2. rejected \in Contents
    BY Distinct, Zenon DEF ManagerInit
  <2> QED
    BY <1>1, <1>2, <1>3, <2>1, <2>2, SMT DEF ManagerTypeOK, ManagerInit
<1>6. ShapeOK
  BY SMT DEF ShapeOK, ManagerInit, Busy
<1>7. FilesOK
  BY <1>3, SMT DEF FilesOK, ManagerInit
<1> QED
  BY <1>4, <1>5, <1>6, <1>7, Zenon DEF ManagerInv

\* What the program finds at its start.
FoundFiles ==
  IF settings.file = "old" /\ Exists("old") /\ ~Exists("default") /\ "oldStuck" \notin faults
  THEN [files EXCEPT !["default"] = files["old"], !["old"] = Absent] ELSE files
FoundFile ==
  IF settings.file = "old" /\ FoundFiles["default"] # Absent THEN "default" ELSE settings.file
Usable == settings.image # None /\ FoundFile # None /\ FoundFiles[FoundFile] # Absent

\* What a start of the program does.
LEMMA StartIs ==
  ASSUME StartProgram
  PROVE  /\ session = "off"
         /\ files' = FoundFiles
         /\ settings' = IF Usable THEN [settings EXCEPT !.file = FoundFile] ELSE NoSettings
         /\ cacheFileName' = IF Usable THEN FoundFile ELSE None
         /\ cachedHash' = IF Usable THEN settings.image ELSE None
         /\ cacheFileHash' = IF Usable THEN settings.hash ELSE None
         /\ requests' = IF Usable
                        THEN <<[file |-> FoundFile,
                                hash |-> HashToVerify(settings.image, settings.hash)]>>
                        ELSE <<>>
         /\ isValid' = FALSE /\ verificationComplete' = FALSE
         /\ session' \in {"idle", "commandline"}
         /\ UNCHANGED <<faults, customCacheFile, results, image, path, fileHash, rejected>>
<1>1. isValid' = FALSE /\ verificationComplete' = FALSE
  BY Zenon DEF StartProgram, VerifiedAtStart
<1>2. session' \in {"idle", "commandline"}
  BY SMT DEF StartProgram
<1>3. /\ session = "off"
      /\ UNCHANGED <<faults, customCacheFile, results, image, path, fileHash, rejected>>
  BY Zenon DEF StartProgram
<1> QED
  BY <1>1, <1>2, <1>3, Zenon DEF StartProgram, FoundFiles, FoundFile, Usable

\* What it finds has its type.
LEMMA FoundIs ==
  ASSUME ManagerTypeOK
  PROVE  /\ FoundFiles \in [Paths -> Contents]
         /\ settings.file \in {"default", "old", None}
         /\ settings.image \in Images \cup {None} /\ settings.hash \in Hashes \cup {None}
         /\ Usable => /\ Own(FoundFile) /\ settings.image \in Images
                      /\ [settings EXCEPT !.file = FoundFile] \in Leftovers
<1>1. files \in [Paths -> Contents] /\ settings \in Leftovers
  BY ManagerParts
<1>2. FoundFiles \in [Paths -> Contents]
  BY <1>1, Distinct, SMT DEF FoundFiles, Paths
<1>3. /\ settings.file \in {"default", "old", None}
      /\ settings.image \in Images \cup {None} /\ settings.hash \in Hashes \cup {None}
  BY <1>1, SMT DEF Leftovers, NoSettings
<1>4. ASSUME Usable PROVE Own(FoundFile) /\ settings.image \in Images
  BY <1>3, <1>4, SMT DEF Usable, FoundFile, Own
<1>5. ASSUME Usable PROVE [settings EXCEPT !.file = FoundFile] \in Leftovers
  <2>1. settings \in {[file |-> f, image |-> i, hash |-> h] :
                        f \in {"default", "old"}, i \in Images, h \in Hashes \cup {None}}
    BY <1>1, <1>4, <1>5, Distinct, SMT DEF Leftovers, NoSettings
  <2>2. PICK i \in Images, h \in Hashes \cup {None} :
          \E f \in {"default", "old"} : settings = [file |-> f, image |-> i, hash |-> h]
    BY <2>1
  <2>3. [settings EXCEPT !.file = FoundFile] = [file |-> FoundFile, image |-> i, hash |-> h]
    BY <2>2, SMT
  <2>4. FoundFile \in {"default", "old"}
    BY <1>4, <1>5, Zenon DEF Own
  <2> QED
    BY <2>3, <2>4, SMT DEF Leftovers
<1> QED
  BY <1>2, <1>3, <1>4, <1>5, Zenon

LEMMA StartType == ASSUME ManagerInv, StartProgram PROVE ManagerInv'
<1>0. ManagerTypeOK /\ ShapeOK
  BY Zenon DEF ManagerInv
<1>1. results = <<>> /\ ~customCacheFile
  BY <1>0, StartIs, Zenon DEF ShapeOK
<1>2. requests' \in Seq(Requests) /\ Len(requests') <= 1 /\ Len(requests') \in Nat
      /\ \A i \in 1..Len(requests') : Own(requests'[i].file)
  <2>1. CASE Usable
    <3>1. HashToVerify(settings.image, settings.hash) \in Hashes
      BY <1>0, <2>1, FoundIs, HashToVerifyIn
    <3>2. Own(FoundFile)
      BY <1>0, <2>1, FoundIs
    <3>3. requests' = <<[file |-> FoundFile,
                         hash |-> HashToVerify(settings.image, settings.hash)]>>
      BY <2>1, StartIs
    <3>4. FoundFile \in Paths
      BY <3>2, SMT DEF Own, Paths
    <3>5. [file |-> FoundFile, hash |-> HashToVerify(settings.image, settings.hash)] \in Requests
      BY <3>1, <3>4, SMT DEF Requests
    <3> QED
      BY <3>2, <3>3, <3>5, SMT
  <2>2. CASE ~Usable
    <3>1. requests' = <<>>
      BY <2>2, StartIs
    <3> QED
      BY <3>1, SMT
  <2> QED
    BY <2>1, <2>2
<1>3. QueuesOK'
  <2>1. results' = <<>>
    BY <1>1, StartIs
  <2> QED
    BY <1>2, <2>1, SMT DEF QueuesOK, Pending
<1>4. FilesOK'
  <2>1. customCacheFile' = FALSE \/ ~customCacheFile'
    BY <1>1, StartIs
  <2>2. cacheFileName' = None \/ Own(cacheFileName')
    BY <1>0, StartIs, FoundIs, Zenon
  <2>3. results' = <<>> /\ session' \notin {"downloading", "stored"}
    BY <1>1, StartIs, SMT
  <2> QED
    BY <2>1, <2>2, <2>3, <1>2, SMT DEF FilesOK
<1>5. ShapeOK'
  <2>1. session' \in {"idle", "commandline"} /\ verificationComplete' = FALSE
        /\ customCacheFile' = customCacheFile
    BY StartIs, Zenon
  <2> QED
    BY <1>1, <2>1, SMT DEF ShapeOK, Busy
<1>6. ManagerTypeOK'
  <2>1. files' \in [Paths -> Contents]
    BY <1>0, StartIs, FoundIs, Zenon
  <2>2. settings' \in Leftovers /\ cachedHash' \in Images \cup {None}
        /\ cacheFileHash' \in Hashes \cup {None}
    <3>1. NoSettings \in Leftovers
      BY SMT DEF Leftovers, NoSettings
    <3> QED
      BY <1>0, <3>1, StartIs, FoundIs, SMT
  <2>3. cacheFileName' \in Paths \cup {None}
    BY <1>0, StartIs, FoundIs, SMT DEF Paths, Own
  <2>4. results' \in Seq(Results)
    BY <1>1, StartIs, SMT
  <2>5. session' \in {"off", "commandline", "idle", "waiting", "downloading", "stored",
                       "syncing", "local"}
    BY StartIs, Zenon
  <2>6. isValid' \in BOOLEAN /\ verificationComplete' \in BOOLEAN /\ customCacheFile' \in BOOLEAN
    BY <1>0, StartIs, ManagerParts, Zenon
  <2>7. faults' \in Scenarios /\ image' \in Images \cup {None} /\ path' \in Paths \cup {None}
        /\ fileHash' \in Hashes \cup {None} /\ rejected' \in Contents
    BY <1>0, StartIs, ManagerParts, Zenon
  <2> QED
    BY <1>2, <1>3, <2>1, <2>2, <2>3, <2>4, <2>5, <2>6, <2>7, ManagerFromParts, Zenon
<1> QED
  BY <1>3, <1>4, <1>5, <1>6, Zenon DEF ManagerInv

LEMMA CrashType == ASSUME ManagerInv, Crash PROVE ManagerInv'
<1>0. ManagerTypeOK
  BY Zenon DEF ManagerInv
<1>1. /\ requests' = <<>> /\ results' = <<>>
      /\ requests' \in Seq(Requests) /\ results' \in Seq(Results)
  BY SMT DEF Crash
<1>2. QueuesOK'
  BY <1>1, SMT DEF QueuesOK, Pending
<1>3. ShapeOK' /\ FilesOK'
  BY <1>1, SMT DEF Crash, ShapeOK, FilesOK, Busy
<1>4. isValid' \in BOOLEAN /\ verificationComplete' \in BOOLEAN /\ customCacheFile' \in BOOLEAN
      /\ rejected' \in Contents
  BY Distinct, Zenon DEF Crash
<1>5. faults' \in Scenarios /\ files' \in [Paths -> Contents] /\ settings' \in Leftovers
  BY <1>0, ManagerParts, Zenon DEF Crash
<1>6. cacheFileName' = None /\ cachedHash' = None /\ cacheFileHash' = None /\ session' = "off"
      /\ image' = None /\ path' = None /\ fileHash' = None
  BY Zenon DEF Crash
<1>7. ManagerTypeOK'
  BY <1>1, <1>2, <1>4, <1>5, <1>6, ManagerFromParts, Zenon
<1> QED
  BY <1>2, <1>3, <1>7, Zenon DEF ManagerInv

LEMMA CustomType ==
  ASSUME ManagerInv, NEW i \in Images, SetCustomCacheFile(i) PROVE ManagerInv'
<1>0. ManagerTypeOK /\ ShapeOK /\ QueuesOK
  BY Zenon DEF ManagerInv
<1>1. /\ session = "commandline" /\ session' = "idle" /\ cacheFileName' = "custom"
      /\ cachedHash' \in {i, None} /\ customCacheFile' = TRUE /\ verificationComplete' = FALSE
      /\ UNCHANGED <<faults, files, settings, cacheFileHash, isValid, requests, results, image,
                     path, fileHash, rejected>>
  <2>1. cachedHash' \in {i, None}
    BY SMT DEF SetCustomCacheFile
  <2> QED
    BY <2>1, Zenon DEF SetCustomCacheFile, queues
<1>2. QueuesOK'
  BY <1>0, <1>1, SMT DEF QueuesOK, Pending
<1>3. ShapeOK' /\ FilesOK'
  BY <1>1, SMT DEF ShapeOK, FilesOK, Busy, Paths
<1>4. cacheFileName' \in Paths \cup {None} /\ cachedHash' \in Images \cup {None}
  BY <1>1, SMT DEF Paths
<1>5. /\ isValid' \in BOOLEAN /\ verificationComplete' \in BOOLEAN /\ customCacheFile' \in BOOLEAN
      /\ faults' \in Scenarios /\ files' \in [Paths -> Contents] /\ settings' \in Leftovers
      /\ cacheFileHash' \in Hashes \cup {None}
      /\ requests' \in Seq(Requests) /\ results' \in Seq(Results)
      /\ image' \in Images \cup {None} /\ path' \in Paths \cup {None}
      /\ fileHash' \in Hashes \cup {None} /\ rejected' \in Contents
  BY <1>0, <1>1, ManagerParts, Zenon
<1>6. ManagerTypeOK'
  BY <1>1, <1>2, <1>4, <1>5, ManagerFromParts, Zenon
<1> QED
  BY <1>2, <1>3, <1>6, Zenon DEF ManagerInv

LEMMA FromCacheType ==
  ASSUME ManagerInv, NEW i \in Images, StartFromCache(i) PROVE ManagerInv'
<1>0. ManagerTypeOK /\ ShapeOK /\ QueuesOK /\ FilesOK
  BY Zenon DEF ManagerInv
<1>1. /\ session = "idle" /\ session' = "local" /\ image' = i /\ path' = cacheFileName
      /\ UNCHANGED <<faults, files, settings, status, queues, fileHash, rejected>>
      /\ cacheFileName # None
  BY Zenon DEF StartFromCache, ReadFrom, Cached, PotentialCache, Exists
<1>2. UNCHANGED <<cacheFileName, cachedHash, cacheFileHash, isValid, verificationComplete,
                  customCacheFile, requests, results>>
  BY <1>1, Zenon DEF status, hashes, queues
<1>3. QueuesOK'
  BY <1>0, <1>1, <1>2, SMT DEF QueuesOK, Pending
<1>4. path' \in Paths
  BY <1>0, <1>1, ManagerParts, Zenon
<1>5. ShapeOK' /\ FilesOK'
  BY <1>0, <1>1, <1>2, <1>4, SMT DEF ShapeOK, FilesOK, Busy
<1>6. ManagerTypeOK'
  BY <1>0, <1>1, <1>2, <1>3, <1>4, ManagerParts, ManagerFromParts, Zenon
<1> QED
  BY <1>3, <1>5, <1>6, Zenon DEF ManagerInv

LEMMA VerificationType ==
  ASSUME ManagerInv, NEW i \in Images, StartVerification(i) PROVE ManagerInv'
<1>0. ManagerTypeOK /\ ShapeOK /\ QueuesOK /\ FilesOK
  BY Zenon DEF ManagerInv
<1> DEFINE hash == IF customCacheFile THEN ImageHash(i) ELSE HashToVerify(i, cacheFileHash)
           request == [file |-> cacheFileName, hash |-> hash]
<1>1. /\ session = "idle" /\ session' = "waiting" /\ image' = i /\ isValid' = FALSE
      /\ cachedHash # None /\ cacheFileName # None /\ ~verificationComplete
      /\ requests' = Append(requests, request)
      /\ UNCHANGED <<faults, files, settings, cacheFileName, cachedHash, cacheFileHash,
                     verificationComplete, customCacheFile, results, path, fileHash, rejected>>
  BY Distinct, Zenon DEF StartVerification, PotentialCache, Exists, hashes
<1>2. hash \in Hashes
  BY <1>0, ManagerParts, ImageHashIn, HashToVerifyIn
<1>3. cacheFileName \in Paths
  BY <1>0, <1>1, ManagerParts, Zenon
<1> HIDE DEF hash
<1>4. request \in Requests /\ request.file = cacheFileName
  BY <1>2, <1>3, SMT DEF Requests
<1>5. requests \in Seq(Requests)
  BY <1>0, ManagerParts, Zenon
<1> HIDE DEF request
<1>6. /\ requests' \in Seq(Requests) /\ Len(requests') = Len(requests) + 1
      /\ \A k \in 1..Len(requests') :
           requests'[k] = IF k <= Len(requests) THEN requests[k] ELSE request
      /\ Len(requests) \in Nat
  <2>1. /\ Append(requests, request) \in Seq(Requests)
        /\ Len(Append(requests, request)) = Len(requests) + 1
        /\ \A k \in 1..Len(Append(requests, request)) :
             Append(requests, request)[k] = IF k <= Len(requests) THEN requests[k] ELSE request
        /\ Len(requests) \in Nat
    BY <1>4, <1>5, Appended
  <2> QED
    BY <1>1, <2>1
<1>7. QueuesOK'
  <2>1. Len(results) \in Nat
    BY <1>0, ManagerParts, SMT
  <2> QED
    BY <1>0, <1>1, <1>6, <2>1, SMT DEF QueuesOK, Pending
<1>8. ShapeOK'
  BY <1>0, <1>1, SMT DEF ShapeOK, Busy
<1>9. FilesOK'
  <2>1. ~customCacheFile => Own(request.file)
    BY <1>0, <1>1, <1>4, Zenon DEF FilesOK
  <2>2. ~customCacheFile => \A k \in 1..Len(requests') : Own(requests'[k].file)
    BY <1>0, <1>6, <2>1, SMT DEF FilesOK
  <2> QED
    BY <1>0, <1>1, <2>2, SMT DEF FilesOK
<1>10. ManagerTypeOK'
  BY <1>0, <1>1, <1>6, <1>7, ManagerParts, ManagerFromParts, Zenon
<1> QED
  BY <1>7, <1>8, <1>9, <1>10, Zenon DEF ManagerInv

\* What the start of a download does.
LEMMA DownloadType ==
  ASSUME ManagerTypeOK, NEW i \in Images, NEW name \in Paths \cup {None}, NEW clear \in BOOLEAN,
         customCacheFile => name \in Paths,
         ~customCacheFile => name = None \/ Own(name),
         Download(i, name, clear)
  PROVE  /\ files' \in [Paths -> Contents] /\ settings' \in Leftovers
         /\ cachedHash' = (IF clear THEN None ELSE cachedHash)
         /\ cachedHash' \in Images \cup {None}
         /\ cacheFileHash' \in Hashes \cup {None}
         /\ cacheFileName' \in Paths \cup {None}
         /\ customCacheFile => cacheFileName' \in Paths
         /\ ~customCacheFile => /\ cacheFileName' = None \/ Own(cacheFileName')
                                /\ path' # None => Own(cacheFileName')
         /\ session' = "downloading" /\ image' = i /\ path' \in Paths \cup {None}
         /\ rejected' = Absent /\ UNCHANGED <<customCacheFile, fileHash>>
<1> DEFINE target == IF customCacheFile THEN name ELSE "default"
           kept   == IF clear /\ ~customCacheFile THEN None ELSE name
<1>1. /\ session' = "downloading" /\ image' = i
      /\ Cleared(clear) /\ rejected' = Absent /\ UNCHANGED <<customCacheFile, fileHash>>
  BY Zenon DEF Download
<1>2. \/ /\ files' = [Removed(name, clear) EXCEPT ![target] = Content(i, "partial")]
         /\ path' = target /\ cacheFileName' = target
      \/ /\ files' = Removed(name, clear) /\ path' = None
         /\ cacheFileName' \in {kept, target}
  BY Zenon DEF Download
<1>3. target \in Paths /\ kept \in Paths \cup {None}
      /\ (customCacheFile => kept \in Paths)
      /\ (~customCacheFile => Own(target) /\ (kept = None \/ Own(kept)))
  BY SMT DEF Paths, Own
<1> HIDE DEF target, kept
<1>4. cacheFileName' \in Paths \cup {None} /\ path' \in Paths \cup {None}
      /\ (customCacheFile => cacheFileName' \in Paths)
      /\ (~customCacheFile => /\ cacheFileName' = None \/ Own(cacheFileName')
                              /\ path' # None => Own(cacheFileName'))
  BY <1>2, <1>3, SMT
<1>5. files' \in [Paths -> Contents]
  <2>1. Removed(name, clear) \in [Paths -> Contents]
    BY ManagerParts, RemovedIs
  <2>2. Content(i, "partial") \in Contents
    BY ContentIn, SMT
  <2> QED
    BY <1>2, <1>3, <2>1, <2>2, SMT
<1>6. cachedHash' = (IF clear THEN None ELSE cachedHash)
      /\ cachedHash' \in Images \cup {None} /\ cacheFileHash' \in Hashes \cup {None}
  BY <1>1, ManagerParts, SMT DEF Cleared
<1>7. settings' \in Leftovers
  <2>1. NoSettings \in Leftovers
    BY SMT DEF Leftovers, NoSettings
  <2> QED
    BY <1>1, <2>1, ManagerParts, SMT DEF Cleared
<1> QED
  BY <1>1, <1>4, <1>5, <1>6, <1>7, Zenon

\* A step that begins a download keeps the rest of the invariant.
LEMMA DownloadKept ==
  ASSUME ManagerInv, NEW i \in Images, NEW name \in Paths \cup {None}, NEW clear \in BOOLEAN,
         customCacheFile => name \in Paths,
         ~customCacheFile => name = None \/ Own(name),
         Download(i, name, clear),
         faults' = faults, isValid' \in BOOLEAN, verificationComplete' \in BOOLEAN,
         requests' = requests, results' \in Seq(Results), Len(results') <= Len(results),
         ~customCacheFile => \A k \in 1..Len(results') : Own(results'[k].file),
         ~clear => verificationComplete' = verificationComplete /\ session # "waiting"
  PROVE  ManagerInv'
<1>0. ManagerTypeOK /\ QueuesOK /\ FilesOK
  BY Zenon DEF ManagerInv
<1>1. /\ files' \in [Paths -> Contents] /\ settings' \in Leftovers
      /\ cachedHash' = (IF clear THEN None ELSE cachedHash)
      /\ cachedHash' \in Images \cup {None}
      /\ cacheFileHash' \in Hashes \cup {None}
      /\ cacheFileName' \in Paths \cup {None}
      /\ customCacheFile => cacheFileName' \in Paths
      /\ ~customCacheFile => /\ cacheFileName' = None \/ Own(cacheFileName')
                             /\ path' # None => Own(cacheFileName')
      /\ session' = "downloading" /\ image' = i /\ path' \in Paths \cup {None}
      /\ rejected' = Absent /\ UNCHANGED <<customCacheFile, fileHash>>
  BY <1>0, DownloadType
<1>2. Len(results) \in Nat /\ Len(requests) \in Nat /\ Len(results') \in Nat
  BY <1>0, ManagerParts, SMT
<1>3. QueuesOK'
  <2>1. Pending' <= Pending /\ Pending' \in Nat /\ Pending \in Nat
    BY <1>2, SMT DEF Pending
  <2>2. cachedHash' # None /\ ~verificationComplete' => Pending <= 1
    BY <1>0, <1>1, Zenon DEF QueuesOK
  <2>3. session' # "commandline"
    BY <1>1, SMT
  <2> QED
    BY <1>0, <2>1, <2>2, <2>3, SMT DEF QueuesOK
<1>4. ShapeOK'
  BY <1>1, SMT DEF ShapeOK, Busy
<1>5. FilesOK'
  <2>1. ~customCacheFile => \A k \in 1..Len(requests') : Own(requests'[k].file)
    BY <1>0, Zenon DEF FilesOK
  <2> QED
    BY <1>1, <2>1, Zenon DEF FilesOK
<1>6. ManagerTypeOK'
  <2>1. faults' \in Scenarios /\ requests' \in Seq(Requests) /\ customCacheFile' \in BOOLEAN
        /\ fileHash' \in Hashes \cup {None} /\ rejected' \in Contents
    BY <1>0, <1>1, Distinct, ManagerParts, Zenon
  <2> QED
    BY <1>1, <1>3, <2>1, ManagerFromParts, Zenon
<1> QED
  BY <1>3, <1>4, <1>5, <1>6, Zenon DEF ManagerInv

LEMMA StartDownloadType ==
  ASSUME ManagerInv, NEW i \in Images, StartDownload(i) PROVE ManagerInv'
<1>0. ManagerTypeOK /\ FilesOK
  BY Zenon DEF ManagerInv
<1>1. PICK clear : /\ clear = (PotentialCache(i) \/ cachedHash \notin {None, i})
                   /\ Download(i, cacheFileName, clear)
                   /\ isValid' = (isValid /\ ~clear)
                   /\ verificationComplete' = (verificationComplete /\ ~clear)
  BY Zenon DEF StartDownload
<1>2. session = "idle" /\ faults' = faults /\ requests' = requests /\ results' = results
  BY Zenon DEF StartDownload, queues
<1>3. clear \in BOOLEAN /\ isValid' \in BOOLEAN /\ verificationComplete' \in BOOLEAN
  BY <1>1, Zenon
<1>4. verificationComplete \in BOOLEAN /\ cacheFileName \in Paths \cup {None}
      /\ results' \in Seq(Results)
  BY <1>0, <1>2, ManagerParts, Zenon
<1>5. ~clear => verificationComplete' = verificationComplete
  BY <1>1, <1>4, Zenon
<1>6. Len(results') <= Len(results) /\ session # "waiting"
  BY <1>2, <1>0, ManagerParts, SMT
<1>7. /\ customCacheFile => cacheFileName \in Paths
      /\ ~customCacheFile => cacheFileName = None \/ Own(cacheFileName)
      /\ ~customCacheFile => \A k \in 1..Len(results') : Own(results'[k].file)
  BY <1>0, <1>2, Zenon DEF FilesOK
<1> QED
  BY <1>1, <1>2, <1>3, <1>4, <1>5, <1>6, <1>7, DownloadKept

LEMMA SkipType == ASSUME ManagerInv, SkipVerification PROVE ManagerInv'
<1>0. ManagerTypeOK /\ FilesOK /\ ShapeOK
  BY Zenon DEF ManagerInv
<1>1. /\ session = "waiting" /\ Download(image, cacheFileName, TRUE)
      /\ faults' = faults /\ requests' = requests /\ results' = results
      /\ isValid' \in BOOLEAN /\ verificationComplete' \in BOOLEAN
  BY Zenon DEF SkipVerification, queues
<1>2. image \in Images
  BY <1>0, <1>1, SMT DEF ShapeOK, Busy
<1>3. cacheFileName \in Paths \cup {None} /\ results' \in Seq(Results)
  BY <1>0, <1>1, ManagerParts, Zenon
<1>4. Len(results') <= Len(results)
  BY <1>1, <1>0, ManagerParts, SMT
<1>5. /\ customCacheFile => cacheFileName \in Paths
      /\ ~customCacheFile => cacheFileName = None \/ Own(cacheFileName)
      /\ ~customCacheFile => \A k \in 1..Len(results') : Own(results'[k].file)
  BY <1>0, <1>1, Zenon DEF FilesOK
<1> QED
  BY <1>1, <1>2, <1>3, <1>4, <1>5, DownloadKept

\* The main thread takes the result at the head.
LEMMA ResultTaken ==
  ASSUME ManagerInv, results # <<>>, results' = Tail(results)
  PROVE  /\ results' \in Seq(Results) /\ Len(results') = Len(results) - 1
         /\ Len(results) \in Nat /\ Head(results) = results[1]
         /\ Head(results) \in Results /\ Head(results).ok \in BOOLEAN
         /\ Head(results).file \in Paths
         /\ ~customCacheFile => /\ Own(Head(results).file)
                                /\ \A k \in 1..Len(results') : Own(results'[k].file)
<1>1. results \in Seq(Results) /\ FilesOK
  BY ManagerParts, Zenon DEF ManagerInv
<1>2. /\ Tail(results) \in Seq(Results) /\ Len(Tail(results)) = Len(results) - 1
      /\ Len(results) \in Nat \ {0} /\ Head(results) = results[1] /\ results[1] \in Results
      /\ \A i \in 1..Len(Tail(results)) :
           Tail(results)[i] = results[i + 1] /\ i + 1 \in 1..Len(results)
  BY <1>1, Shortened
<1>3. \A r \in Results : r.file \in Paths
  BY SMT DEF Results
<1>4. \A r \in Results : r.ok \in BOOLEAN
  BY Zenon DEF Results
<1>5. ~customCacheFile => \A k \in 1..Len(results) : Own(results[k].file)
  BY <1>1, Zenon DEF FilesOK
<1>6. ~customCacheFile => Own(results[1].file)
  BY <1>2, <1>5, SMT
<1>7. ~customCacheFile => \A k \in 1..Len(results') : Own(results'[k].file)
  BY <1>2, <1>5, Zenon
<1>8. results' \in Seq(Results) /\ Len(results') = Len(results) - 1 /\ Len(results) \in Nat
      /\ Head(results) = results[1] /\ Head(results) \in Results
  BY <1>2
<1> QED
  BY <1>3, <1>4, <1>6, <1>7, <1>8

LEMMA InvalidType == ASSUME ManagerInv, VerifiedInvalid PROVE ManagerInv'
<1>0. ManagerTypeOK /\ FilesOK /\ ShapeOK
  BY Zenon DEF ManagerInv
<1>1. /\ session = "waiting" /\ Download(image, Head(results).file, TRUE)
      /\ faults' = faults /\ requests' = requests /\ results' = Tail(results)
      /\ isValid' \in BOOLEAN /\ verificationComplete' \in BOOLEAN /\ results # <<>>
  BY Zenon DEF VerifiedInvalid
<1>2. image \in Images
  BY <1>0, <1>1, SMT DEF ShapeOK, Busy
<1>3. /\ results' \in Seq(Results) /\ Len(results') = Len(results) - 1 /\ Len(results) \in Nat
      /\ Head(results).file \in Paths
      /\ ~customCacheFile => /\ Own(Head(results).file)
                             /\ \A k \in 1..Len(results') : Own(results'[k].file)
  BY <1>1, ResultTaken
<1>4. Len(results') <= Len(results)
  BY <1>3, SMT
<1>5. Head(results).file \in Paths \cup {None}
  BY <1>3
<1> QED
  BY <1>1, <1>2, <1>3, <1>4, <1>5, DownloadKept

LEMMA NoteType == ASSUME ManagerInv, NoteVerification PROVE ManagerInv'
<1>0. ManagerTypeOK /\ FilesOK /\ ShapeOK /\ QueuesOK
  BY Zenon DEF ManagerInv
<1>1. /\ session \notin {"off", "commandline", "waiting"} /\ results # <<>>
      /\ isValid' = Head(results).ok /\ verificationComplete' = TRUE
      /\ cacheFileName' = Head(results).file /\ results' = Tail(results)
      /\ UNCHANGED <<faults, files, settings, cachedHash, cacheFileHash, customCacheFile,
                     requests, session, image, path, fileHash, rejected>>
  BY Zenon DEF NoteVerification, hashes, write
<1>2. /\ results' \in Seq(Results) /\ Len(results') = Len(results) - 1 /\ Len(results) \in Nat
      /\ Head(results).file \in Paths /\ Head(results).ok \in BOOLEAN
      /\ ~customCacheFile => /\ Own(Head(results).file)
                             /\ \A k \in 1..Len(results') : Own(results'[k].file)
  BY <1>1, ResultTaken
<1>3. QueuesOK'
  <2>1. Len(requests) \in Nat
    BY <1>0, ManagerParts, SMT
  <2> QED
    BY <1>0, <1>1, <1>2, <2>1, SMT DEF QueuesOK, Pending
<1>4. ShapeOK'
  BY <1>0, <1>1, SMT DEF ShapeOK, Busy
<1>5. FilesOK'
  BY <1>0, <1>1, <1>2, Zenon DEF FilesOK
<1>6. ManagerTypeOK'
  <2>1. session' \in {"off", "commandline", "idle", "waiting", "downloading", "stored",
                       "syncing", "local"}
    BY <1>0, <1>1, SessionIn, Zenon
  <2> QED
    BY <1>0, <1>1, <1>2, <1>3, <2>1, ManagerParts, ManagerFromParts, Zenon
<1> QED
  BY <1>3, <1>4, <1>5, <1>6, Zenon DEF ManagerInv

LEMMA ValidType == ASSUME ManagerInv, VerifiedValid PROVE ManagerInv'
<1>0. ManagerTypeOK /\ FilesOK /\ ShapeOK /\ QueuesOK
  BY Zenon DEF ManagerInv
<1>1. /\ session = "waiting" /\ results # <<>>
      /\ isValid' = TRUE /\ verificationComplete' = TRUE
      /\ cacheFileName' = Head(results).file /\ results' = Tail(results)
      /\ UNCHANGED <<faults, files, settings, cachedHash, cacheFileHash, customCacheFile,
                     requests, image, fileHash, rejected>>
  BY Zenon DEF VerifiedValid, hashes
<1>2. /\ results' \in Seq(Results) /\ Len(results') = Len(results) - 1 /\ Len(results) \in Nat
      /\ Head(results).file \in Paths /\ Head(results).ok \in BOOLEAN
      /\ ~customCacheFile => /\ Own(Head(results).file)
                             /\ \A k \in 1..Len(results') : Own(results'[k].file)
  BY <1>1, ResultTaken
<1>3. \/ session' = "local" /\ path' \in Paths
      \/ session' = "idle" /\ path' = path
  <2>1. CacheFilePath(Head(results).file) \in Paths
    BY <1>2, SMT DEF CacheFilePath, Paths
  <2> QED
    BY <2>1, Zenon DEF VerifiedValid, ReadFrom
<1>4. QueuesOK'
  <2>1. Len(requests) \in Nat
    BY <1>0, ManagerParts, SMT
  <2>2. session' # "commandline"
    BY <1>3, SMT
  <2> QED
    BY <1>0, <1>1, <1>2, <2>1, <2>2, SMT DEF QueuesOK, Pending
<1>5. ShapeOK'
  BY <1>0, <1>1, <1>3, SMT DEF ShapeOK, Busy
<1>6. FilesOK'
  <2>1. session' \notin {"downloading", "stored"}
    BY <1>3, SMT
  <2> QED
    BY <1>0, <1>1, <1>2, <2>1, Zenon DEF FilesOK
<1>7. ManagerTypeOK'
  <2>1. session' \in {"off", "commandline", "idle", "waiting", "downloading", "stored",
                       "syncing", "local"}
    BY <1>3, Zenon
  <2>2. path' \in Paths \cup {None}
    BY <1>0, <1>3, ManagerParts, Zenon
  <2> QED
    BY <1>0, <1>1, <1>2, <1>4, <2>1, <2>2, ManagerParts, ManagerFromParts, Zenon
<1> QED
  BY <1>4, <1>5, <1>6, <1>7, Zenon DEF ManagerInv

LEMMA UpdateType == ASSUME ManagerInv, UpdateCacheFile PROVE ManagerInv'
<1>0. ManagerTypeOK /\ FilesOK /\ ShapeOK /\ QueuesOK
  BY Zenon DEF ManagerInv
<1>1. /\ session = "stored" /\ session' = "syncing"
      /\ cachedHash' = image /\ cacheFileHash' = fileHash
      /\ isValid' = TRUE /\ verificationComplete' = TRUE
      /\ settings' = IF customCacheFile THEN settings
                     ELSE [file |-> cacheFileName, image |-> image, hash |-> fileHash]
      /\ UNCHANGED <<faults, files, cacheFileName, customCacheFile, requests, results, image,
                     path, fileHash, rejected>>
  BY Zenon DEF UpdateCacheFile, queues
<1>2. image \in Images /\ fileHash \in Hashes /\ path \in Paths
  BY <1>0, <1>1, SMT DEF ShapeOK, Busy
<1>3. settings' \in Leftovers
  <2>1. ASSUME ~customCacheFile
        PROVE  [file |-> cacheFileName, image |-> image, hash |-> fileHash] \in Leftovers
    <3>1. path # None
      BY <1>2, Distinct, SMT DEF Paths
    <3>2. cacheFileName \in {"default", "old"}
      BY <1>0, <1>1, <2>1, <3>1, SMT DEF FilesOK, Own
    <3> QED
      BY <1>2, <3>2, SMT DEF Leftovers
  <2> QED
    BY <1>0, <1>1, <2>1, ManagerParts, Zenon
<1>4. QueuesOK'
  BY <1>0, <1>1, SMT DEF QueuesOK, Pending
<1>5. ShapeOK' /\ FilesOK'
  BY <1>0, <1>1, SMT DEF ShapeOK, FilesOK, Busy
<1>6. ManagerTypeOK'
  BY <1>0, <1>1, <1>2, <1>3, <1>4, ManagerParts, ManagerFromParts, Zenon
<1> QED
  BY <1>4, <1>5, <1>6, Zenon DEF ManagerInv

LEMMA EndType == ASSUME ManagerInv, EndWrite PROVE ManagerInv'
<1>0. ManagerTypeOK /\ FilesOK /\ ShapeOK /\ QueuesOK
  BY Zenon DEF ManagerInv
<1>1. /\ session \in {"local", "syncing"} /\ session' = "idle"
      /\ image' = None /\ path' = None /\ fileHash' = None
      /\ rejected' \in {rejected} \cup (IF session = "local" THEN {files[path]} ELSE {})
      /\ UNCHANGED <<faults, files, settings, cacheFileName, cachedHash, cacheFileHash, isValid,
                     verificationComplete, customCacheFile, requests, results>>
  BY Zenon DEF EndWrite, status, queues, hashes
<1>2. rejected' \in Contents
  <2>1. session = "local" => files[path] \in Contents
    BY <1>0, ManagerParts, SMT DEF ShapeOK
  <2> QED
    BY <1>0, <1>1, <2>1, ManagerParts, SMT
<1>3. QueuesOK'
  BY <1>0, <1>1, SMT DEF QueuesOK, Pending
<1>4. ShapeOK' /\ FilesOK'
  BY <1>0, <1>1, SMT DEF ShapeOK, FilesOK, Busy
<1>5. ManagerTypeOK'
  BY <1>0, <1>1, <1>2, <1>3, ManagerParts, ManagerFromParts, Zenon
<1> QED
  BY <1>3, <1>4, <1>5, Zenon DEF ManagerInv

LEMMA VerifyType == ASSUME ManagerInv, Verify PROVE ManagerInv'
<1>0. ManagerTypeOK /\ FilesOK /\ ShapeOK /\ QueuesOK
  BY Zenon DEF ManagerInv
<1> DEFINE result == [ok |-> files[Head(requests).file] = Head(requests).hash,
                      file |-> Head(requests).file]
<1>1. /\ session # "off" /\ requests # <<>> /\ requests' = Tail(requests)
      /\ results' = Append(results, result)
      /\ UNCHANGED <<faults, files, settings, cacheFileName, cachedHash, cacheFileHash, isValid,
                     verificationComplete, customCacheFile, session, image, path, fileHash,
                     rejected>>
  BY Zenon DEF Verify, status, write, hashes
<1>2. requests \in Seq(Requests) /\ results \in Seq(Results)
  BY <1>0, ManagerParts, Zenon
<1>3. /\ Tail(requests) \in Seq(Requests) /\ Len(Tail(requests)) = Len(requests) - 1
      /\ Len(requests) \in Nat \ {0} /\ Head(requests) = requests[1] /\ requests[1] \in Requests
      /\ \A i \in 1..Len(Tail(requests)) :
           Tail(requests)[i] = requests[i + 1] /\ i + 1 \in 1..Len(requests)
  BY <1>1, <1>2, Shortened
<1>4. Head(requests).file \in Paths
  BY <1>3, SMT DEF Requests
<1>5. result \in Results
  <2>1. (files[Head(requests).file] = Head(requests).hash) \in BOOLEAN
    BY Zenon
  <2> QED
    BY <2>1, <1>4, SMT DEF Results
<1>6. result.file = Head(requests).file
  BY SMT
<1> HIDE DEF result
<1>7. /\ Append(results, result) \in Seq(Results)
      /\ Len(Append(results, result)) = Len(results) + 1
      /\ \A k \in 1..Len(Append(results, result)) :
           Append(results, result)[k] = IF k <= Len(results) THEN results[k] ELSE result
      /\ Len(results) \in Nat
  BY <1>2, <1>5, Appended
<1>8. Pending' = Pending /\ QueuesOK'
  BY <1>0, <1>1, <1>3, <1>7, SMT DEF QueuesOK, Pending
<1>9. ShapeOK'
  <2>1. session # "off"
    BY <1>1
  <2> QED
    BY <1>0, <1>1, <2>1, SMT DEF ShapeOK, Busy
<1>10. FilesOK'
  <2>1. ASSUME ~customCacheFile
        PROVE  /\ \A k \in 1..Len(requests') : Own(requests'[k].file)
               /\ \A k \in 1..Len(results') : Own(results'[k].file)
    <3>1. /\ \A k \in 1..Len(requests) : Own(requests[k].file)
          /\ \A k \in 1..Len(results) : Own(results[k].file)
      BY <1>0, <2>1, Zenon DEF FilesOK
    <3>2. Own(result.file)
      BY <1>3, <1>6, <3>1, SMT
    <3>3. \A k \in 1..Len(results') : Own(results'[k].file)
      BY <1>1, <1>7, <3>1, <3>2, SMT
    <3> QED
      BY <1>1, <1>3, <3>1, <3>3, Zenon
  <2> QED
    BY <1>0, <1>1, <2>1, Zenon DEF FilesOK
<1>11. ManagerTypeOK'
  <2>1. requests' \in Seq(Requests) /\ results' \in Seq(Results)
    BY <1>1, <1>3, <1>7, Zenon
  <2>2. session' \in {"off", "commandline", "idle", "waiting", "downloading", "stored",
                       "syncing", "local"}
    BY <1>0, <1>1, SessionIn, Zenon
  <2> QED
    BY <1>0, <1>1, <1>8, <2>1, <2>2, ManagerParts, ManagerFromParts, Zenon
<1> QED
  BY <1>8, <1>9, <1>10, <1>11, Zenon DEF ManagerInv

\* What the end of a cached download does.
LEMMA StoreIs ==
  ASSUME ManagerInv, StoreDownload
  PROVE  /\ session = "downloading" /\ session' = "stored" /\ path \in Paths /\ image \in Images
         /\ fileHash' \in Hashes /\ fileHash'.of = image
         /\ \/ files' = files /\ ~Exists(path)
            \/ \E c \in {Absent} \cup [of : {image}, kind : WholeKinds] :
                 files' = [files EXCEPT ![path] = c]
         /\ UNCHANGED <<faults, settings, cacheFileName, cachedHash, cacheFileHash, isValid,
                        verificationComplete, customCacheFile, requests, results, image, path,
                        rejected>>
<1>0. ManagerTypeOK /\ ShapeOK
  BY Zenon DEF ManagerInv
<1>1. /\ session = "downloading" /\ path # None /\ session' = "stored"
      /\ UNCHANGED <<faults, settings, cacheFileName, cachedHash, cacheFileHash, isValid,
                     verificationComplete, customCacheFile, requests, results, image, path,
                     rejected>>
  BY Zenon DEF StoreDownload, status, queues, hashes
<1>2. image \in Images /\ path \in Paths
  BY <1>0, <1>1, ManagerParts, SMT DEF ShapeOK, Busy
<1>3. PICK k \in {"whole", "prefix"} :
        /\ fileHash' = Content(image, k)
        /\ IF Exists(path)
           THEN \E c \in {Absent, Content(image, k)}
                           \cup (IF k = "prefix" THEN {Content(image, "padded")} ELSE {}) :
                  files' = [files EXCEPT ![path] = c]
           ELSE files' = files
  BY Zenon DEF StoreDownload
<1>4. \A n \in WholeKinds : Content(image, n) \in [of : {image}, kind : WholeKinds]
  BY SMT DEF Content
<1>5. k \in WholeKinds /\ "padded" \in WholeKinds
  BY SMT DEF WholeKinds
<1>6. {Absent, Content(image, k)} \cup (IF k = "prefix" THEN {Content(image, "padded")} ELSE {})
        \subseteq {Absent} \cup [of : {image}, kind : WholeKinds]
  BY <1>4, <1>5, SMT
<1>7. fileHash' \in Hashes /\ fileHash'.of = image
  BY <1>2, <1>3, SMT DEF Content, Hashes
<1> QED
  BY <1>1, <1>2, <1>3, <1>6, <1>7, Zenon

LEMMA StoreType == ASSUME ManagerInv, StoreDownload PROVE ManagerInv'
<1>0. ManagerTypeOK /\ FilesOK /\ ShapeOK /\ QueuesOK
  BY Zenon DEF ManagerInv
<1>1. /\ session = "downloading" /\ session' = "stored" /\ path \in Paths /\ image \in Images
      /\ fileHash' \in Hashes /\ fileHash'.of = image
      /\ UNCHANGED <<faults, settings, cacheFileName, cachedHash, cacheFileHash, isValid,
                     verificationComplete, customCacheFile, requests, results, image, path,
                     rejected>>
  BY StoreIs
<1>2. files' \in [Paths -> Contents]
  <2>1. [of : {image}, kind : WholeKinds] \subseteq Contents
    BY <1>1, SMT DEF Contents
  <2>2. files \in [Paths -> Contents]
    BY <1>0, ManagerParts, Zenon
  <2>3. \A c \in {Absent} \cup [of : {image}, kind : WholeKinds] :
          [files EXCEPT ![path] = c] \in [Paths -> Contents]
    BY <2>1, <2>2, <1>1, Distinct, SMT
  <2>4. \/ files' = files
        \/ \E c \in {Absent} \cup [of : {image}, kind : WholeKinds] :
             files' = [files EXCEPT ![path] = c]
    BY StoreIs
  <2> QED
    BY <2>2, <2>3, <2>4, Zenon
<1>3. QueuesOK'
  BY <1>0, <1>1, SMT DEF QueuesOK, Pending
<1>4. ShapeOK'
  BY <1>0, <1>1, SMT DEF ShapeOK, Busy
<1>5. FilesOK'
  BY <1>0, <1>1, SMT DEF FilesOK
<1>6. ManagerTypeOK'
  BY <1>0, <1>1, <1>2, <1>3, ManagerParts, ManagerFromParts, Zenon
<1> QED
  BY <1>3, <1>4, <1>5, <1>6, Zenon DEF ManagerInv

LEMMA UncachedType == ASSUME ManagerInv, DownloadUncached PROVE ManagerInv'
<1>0. ManagerTypeOK /\ FilesOK /\ ShapeOK /\ QueuesOK
  BY Zenon DEF ManagerInv
<1>1. /\ session = "downloading" /\ session' = "idle" /\ image' = None /\ path' = None
      /\ files' = Removed(path, TRUE)
      /\ UNCHANGED <<faults, settings, cacheFileName, cachedHash, cacheFileHash, isValid,
                     verificationComplete, customCacheFile, requests, results, fileHash,
                     rejected>>
  BY Zenon DEF DownloadUncached, PartialRemoved, status, queues, hashes
<1>2. files' \in [Paths -> Contents]
  BY <1>0, <1>1, ManagerParts, RemovedIs
<1>3. QueuesOK'
  BY <1>0, <1>1, SMT DEF QueuesOK, Pending
<1>4. ShapeOK' /\ FilesOK'
  BY <1>0, <1>1, SMT DEF ShapeOK, FilesOK, Busy
<1>5. ManagerTypeOK'
  BY <1>0, <1>1, <1>2, <1>3, ManagerParts, ManagerFromParts, Zenon
<1> QED
  BY <1>3, <1>4, <1>5, Zenon DEF ManagerInv

\* A step that changes nothing but the files.
LEMMA FilesOnly ==
  ASSUME ManagerInv, files' \in [Paths -> Contents],
         UNCHANGED <<faults, settings, status, queues, write>>
  PROVE  ManagerInv'
<1>0. ManagerTypeOK /\ FilesOK /\ ShapeOK /\ QueuesOK
  BY Zenon DEF ManagerInv
<1>1. UNCHANGED <<faults, settings, cacheFileName, cachedHash, cacheFileHash, isValid,
                  verificationComplete, customCacheFile, requests, results, session, image, path,
                  fileHash, rejected>>
  BY Zenon DEF status, queues, write, hashes
<1>2. QueuesOK' /\ ShapeOK' /\ FilesOK'
  BY <1>0, <1>1, SMT DEF QueuesOK, Pending, ShapeOK, FilesOK
<1>3. session' \in {"off", "commandline", "idle", "waiting", "downloading", "stored",
                     "syncing", "local"}
  BY <1>0, <1>1, SessionIn, Zenon
<1>4. ManagerTypeOK'
  BY <1>0, <1>1, <1>2, <1>3, ManagerParts, ManagerFromParts, Zenon
<1> QED
  BY <1>2, <1>4, Zenon DEF ManagerInv

LEMMA SurroundingsType ==
  ASSUME ManagerInv, NEW p \in Paths, Disappear(p) \/ Spoil(p) PROVE ManagerInv'
<1>0. files \in [Paths -> Contents]
  BY ManagerParts, Zenon DEF ManagerInv
<1>1. CASE Disappear(p)
  <2>1. /\ files' = [files EXCEPT ![p] = Absent]
        /\ UNCHANGED <<faults, settings, status, queues, write>>
    BY <1>1, Zenon DEF Disappear
  <2>2. files' \in [Paths -> Contents]
    BY <1>0, <2>1, Distinct, SMT
  <2> QED
    BY <2>1, <2>2, FilesOnly
<1>2. CASE Spoil(p)
  <2>1. /\ files' = [files EXCEPT ![p].kind = "spoiled"] /\ files[p].kind \in WholeKinds
        /\ UNCHANGED <<faults, settings, status, queues, write>>
    BY <1>2, Zenon DEF Spoil
  <2>2. files[p] \in [of : Images, kind : WholeKinds \cup {"partial", "spoiled"}]
    BY <1>0, <2>1, SMT DEF Contents, Absent, Content, WholeKinds
  <2>3. [files[p] EXCEPT !.kind = "spoiled"] \in Contents
    BY <2>2, SMT DEF Contents
  <2>4. files' \in [Paths -> Contents]
    BY <1>0, <2>1, <2>3, SMT
  <2> QED
    BY <2>1, <2>4, FilesOnly
<1> QED
  BY <1>1, <1>2

\* Every step keeps the types and what goes with them.
LEMMA ManagerStep == ManagerInv /\ [ManagerNext]_managerVars => ManagerInv'
<1> SUFFICES ASSUME ManagerInv, [ManagerNext]_managerVars PROVE ManagerInv'
  OBVIOUS
<1>1. CASE StartProgram
  BY <1>1, StartType
<1>2. CASE SkipVerification
  BY <1>2, SkipType
<1>3. CASE NoteVerification
  BY <1>3, NoteType
<1>4. CASE VerifiedValid
  BY <1>4, ValidType
<1>5. CASE VerifiedInvalid
  BY <1>5, InvalidType
<1>6. CASE UpdateCacheFile
  BY <1>6, UpdateType
<1>7. CASE EndWrite
  BY <1>7, EndType
<1>8. ASSUME NEW i \in Images,
             \/ SetCustomCacheFile(i) \/ StartFromCache(i)
             \/ StartVerification(i) \/ StartDownload(i)
      PROVE  ManagerInv'
  BY <1>8, CustomType, FromCacheType, VerificationType, StartDownloadType
<1>9. CASE Verify
  BY <1>9, VerifyType
<1>10. CASE StoreDownload
  BY <1>10, StoreType
<1>11. CASE DownloadUncached
  BY <1>11, UncachedType
<1>12. CASE Crash
  BY <1>12, CrashType
<1>13. ASSUME NEW p \in Paths, Disappear(p) \/ Spoil(p) PROVE ManagerInv'
  BY <1>13, SurroundingsType
<1>14. CASE UNCHANGED managerVars
  <2>1. UNCHANGED <<faults, settings, status, queues, write>> /\ files' = files
    BY <1>14, Zenon DEF managerVars
  <2>2. files' \in [Paths -> Contents]
    BY <2>1, ManagerParts, Zenon DEF ManagerInv
  <2> QED
    BY <2>1, <2>2, FilesOnly
<1> QED
  BY <1>1, <1>2, <1>3, <1>4, <1>5, <1>6, <1>7, <1>8, <1>9, <1>10, <1>11, <1>12, <1>13, <1>14, Zenon
     DEF ManagerNext, EventLoop, Downloading, Surroundings

(***************************************************************************)
(* Whatever is left over from earlier runs, and whatever comes together:   *)
(* every variable of the cache manager keeps its type, and the worker has  *)
(* two verifications at most (verificationComplete is only reset with the  *)
(* hash that asks for one).                                                *)
(***************************************************************************)
THEOREM ManagerTypeCorrect == ManagerSpec => []ManagerTypeOK
<1>1. ManagerInv => ManagerTypeOK
  BY Zenon DEF ManagerInv
<1> QED
  BY <1>1, InitManager, ManagerStep, PTL DEF ManagerSpec

-------------------------------------------------------------------------------
(***************************************************************************)
(* Which file is read, as long as the one of an earlier version can be     *)
(* moved and removed.                                                      *)
(***************************************************************************)
\* Without a file of the user, lastdownload.cache is the only one that is used.
OwnFile ==
  ~customCacheFile =>
    /\ cacheFileName \in {None, "default"} /\ path \in {None, "default"}
    /\ \A i \in 1..Len(requests) : requests[i].file = "default"
    /\ \A i \in 1..Len(results) : results[i].file = "default"

\* Every hash that is kept is of the image it is kept for.
Expected ==
  /\ settings.hash # None => settings.hash.of = settings.image
  /\ ~customCacheFile /\ cachedHash # None =>
       /\ cacheFileName = "default"
       /\ cacheFileHash # None => cacheFileHash.of = cachedHash
  /\ ~customCacheFile /\ session = "waiting" => image = cachedHash

\* The cache file is gone, or has what i needs.
Fits(i) == files["default"] = Absent \/ Holds(files["default"], i)

\* The cache is not called valid, no result says it is, and what is still to be verified
\* is asked of the image that is cached: a result that comes late tells the truth.
Unproved ==
  /\ ~(isValid /\ verificationComplete)
  /\ \A i \in 1..Len(results) : ~results[i].ok
  /\ \A i \in 1..Len(requests) : requests[i].hash.of = cachedHash

\* Between downloads the cache fits or has not been found valid; during one, nothing is
\* said of it but that a download without a cache leaves none.
Trust ==
  ~customCacheFile =>
    /\ session \in {"idle", "waiting", "local", "syncing"} /\ cachedHash # None =>
         Fits(cachedHash) \/ Unproved
    /\ session = "downloading" /\ path = None =>
         cachedHash = None \/ files["default"] = Absent
    /\ session = "stored" => cacheFileName = "default" /\ path = "default" /\ Fits(image)
    /\ session = "local" => path = "default" /\ Holds(files["default"], image)

\* Inductive without "oldStuck": a file that cannot be removed keeps what the hash of
\* another one was verified for.
SourceInv == ManagerInv /\ "oldStuck" \notin faults /\ OwnFile /\ Expected /\ Trust

\* The first state.
LEMMA InitSource == ManagerInit /\ "oldStuck" \notin faults => SourceInv
<1> SUFFICES ASSUME ManagerInit, "oldStuck" \notin faults PROVE SourceInv
  OBVIOUS
<1>1. ManagerInv
  BY InitManager
<1>2. OwnFile /\ Trust
  BY SMT DEF OwnFile, Trust, ManagerInit
<1>3. Expected
  <2>1. /\ cachedHash = None /\ session = "off"
        /\ (settings.hash = None \/ settings.hash = Content(settings.image, "whole"))
    BY Zenon DEF ManagerInit
  <2>2. Content(settings.image, "whole").of = settings.image
    BY SMT DEF Content
  <2> QED
    BY <2>1, <2>2, SMT DEF Expected
<1> QED
  BY <1>1, <1>2, <1>3, Zenon DEF SourceInv

\* With a file of the user, only the settings matter.
LEMMA CustomSource ==
  ASSUME ManagerInv', customCacheFile', "oldStuck" \notin faults',
         settings'.hash # None => settings'.hash.of = settings'.image
  PROVE  SourceInv'
BY Zenon DEF SourceInv, OwnFile, Expected, Trust

LEMMA StartSource == ASSUME SourceInv, StartProgram PROVE SourceInv'
<1>0. ManagerInv /\ ManagerTypeOK /\ ShapeOK /\ "oldStuck" \notin faults /\ Expected
  BY Zenon DEF SourceInv, ManagerInv
<1>1. ManagerInv' /\ "oldStuck" \notin faults'
  BY <1>0, StartType, StartIs
<1>2. results = <<>> /\ ~customCacheFile
  BY <1>0, StartIs, Zenon DEF ShapeOK
<1>3. Usable => FoundFile = "default"
  <2>1. settings.file \in {"default", "old", None} /\ files \in [Paths -> Contents]
    BY <1>0, FoundIs, ManagerParts
  <2>2. ASSUME Usable, FoundFile # "default" PROVE FALSE
    <3>1. settings.file = "old" /\ FoundFile = "old" /\ FoundFiles["default"] = Absent
          /\ FoundFiles["old"] # Absent
      BY <2>1, <2>2, SMT DEF Usable, FoundFile
    <3>2. CASE Exists("old") /\ ~Exists("default")
      <4>1. FoundFiles = [files EXCEPT !["default"] = files["old"], !["old"] = Absent]
        BY <1>0, <3>1, <3>2, Zenon DEF FoundFiles
      <4> QED
        BY <2>1, <3>1, <4>1, SMT DEF Paths
    <3>3. CASE ~(Exists("old") /\ ~Exists("default"))
      <4>1. FoundFiles = files
        BY <3>3, Zenon DEF FoundFiles
      <4> QED
        BY <3>1, <3>3, <4>1, Distinct, Zenon DEF Exists
    <3> QED
      BY <3>2, <3>3
  <2> QED
    BY <2>2
<1>4. settings'.hash # None => settings'.hash.of = settings'.image
  <2>1. NoSettings.hash = None
    BY SMT DEF NoSettings
  <2>2. Usable => settings'.hash = settings.hash /\ settings'.image = settings.image
    <3>1. settings \in Leftovers
      BY <1>0, ManagerParts
    <3>2. settings = [file |-> settings.file, image |-> settings.image, hash |-> settings.hash]
      BY <3>1, SMT DEF Leftovers, NoSettings
    <3>3. \A f : /\ [settings EXCEPT !.file = f].hash = settings.hash
                 /\ [settings EXCEPT !.file = f].image = settings.image
      BY <3>2, SMT
    <3> QED
      BY <3>3, StartIs
  <2> QED
    BY <1>0, <2>1, <2>2, StartIs, Zenon DEF Expected
<1>5. OwnFile'
  <2>1. cacheFileName' \in {None, "default"}
    BY <1>3, StartIs, SMT
  <2>2. path' \in {None, "default"}
    BY <1>2, StartIs, Zenon DEF OwnFile, SourceInv
  <2>3. \A i \in 1..Len(requests') : requests'[i].file = "default"
    BY <1>3, StartIs, SMT
  <2>4. results' = <<>>
    BY <1>2, StartIs
  <2> QED
    BY <2>1, <2>2, <2>3, <2>4, SMT DEF OwnFile
<1>6. Expected'
  <2>1. session' # "waiting"
    BY StartIs, SMT
  <2>2. cachedHash' # None => Usable /\ cacheFileName' = "default"
        /\ cacheFileHash' = settings.hash /\ cachedHash' = settings.image
    BY <1>3, StartIs, Zenon
  <2> QED
    BY <1>0, <1>4, <2>1, <2>2, Zenon DEF Expected
<1>7. Trust'
  <2>1. session' \notin {"downloading", "stored", "local"}
    BY StartIs, SMT
  <2>2. ASSUME cachedHash' # None PROVE Unproved'
    <3>1. Usable /\ cachedHash' = settings.image
      BY <2>2, StartIs, Zenon
    <3>2. HashToVerify(settings.image, settings.hash).of = settings.image
      BY <1>0, <3>1, FoundIs, HashToVerifyIn DEF Expected
    <3>3. \A i \in 1..Len(requests') : requests'[i].hash.of = cachedHash'
      <4>1. requests' = <<[file |-> FoundFile,
                           hash |-> HashToVerify(settings.image, settings.hash)]>>
        BY <3>1, StartIs
      <4> QED
        BY <3>1, <3>2, <4>1, SMT
    <3>4. results' = <<>> /\ verificationComplete' = FALSE
      BY <1>2, StartIs
    <3> QED
      BY <3>3, <3>4, SMT DEF Unproved
  <2> QED
    BY <2>1, <2>2, SMT DEF Trust
<1> QED
  BY <1>1, <1>5, <1>6, <1>7, Zenon DEF SourceInv

LEMMA CrashSource == ASSUME SourceInv, Crash PROVE SourceInv'
<1>1. ManagerInv' /\ "oldStuck" \notin faults'
  BY CrashType, Zenon DEF SourceInv, Crash
<1>2. /\ cacheFileName' = None /\ path' = None /\ requests' = <<>> /\ results' = <<>>
      /\ cachedHash' = None /\ session' = "off" /\ settings' = settings
  BY Zenon DEF Crash
<1>3. OwnFile' /\ Trust' /\ Expected'
  BY <1>2, SMT DEF SourceInv, OwnFile, Trust, Expected
<1> QED
  BY <1>1, <1>3, Zenon DEF SourceInv

LEMMA SetCustomSource ==
  ASSUME SourceInv, NEW i \in Images, SetCustomCacheFile(i) PROVE SourceInv'
<1>1. ManagerInv'
  BY CustomType, Zenon DEF SourceInv
<1>2. customCacheFile' /\ "oldStuck" \notin faults' /\ settings' = settings
  BY Zenon DEF SetCustomCacheFile, SourceInv
<1>3. settings'.hash # None => settings'.hash.of = settings'.image
  BY <1>2, Zenon DEF SourceInv, Expected
<1> QED
  BY <1>1, <1>2, <1>3, CustomSource

LEMMA FromCacheSource ==
  ASSUME SourceInv, NEW i \in Images, StartFromCache(i) PROVE SourceInv'
<1>0. ManagerInv /\ "oldStuck" \notin faults /\ OwnFile /\ Expected /\ Trust
  BY Zenon DEF SourceInv
<1>1. ManagerInv'
  BY <1>0, FromCacheType
<1>2. /\ session = "idle" /\ session' = "local" /\ image' = i /\ path' = cacheFileName
      /\ UNCHANGED <<faults, files, settings, cacheFileName, cachedHash, cacheFileHash, isValid,
                     verificationComplete, customCacheFile, requests, results>>
      /\ cachedHash = i /\ Exists(cacheFileName) /\ isValid /\ verificationComplete
  BY Zenon DEF StartFromCache, ReadFrom, Cached, PotentialCache, status, queues, hashes
<1>3. i # None
  BY Distinct
<1>4. ~customCacheFile => cacheFileName = "default" /\ Holds(files["default"], i)
  <2>1. ~customCacheFile => cacheFileName = "default"
    BY <1>0, <1>2, <1>3, Zenon DEF Expected
  <2>2. ~customCacheFile => Fits(i)
    BY <1>0, <1>2, <1>3, SMT DEF Trust, Unproved
  <2> QED
    BY <1>2, <2>1, <2>2, Zenon DEF Fits, Exists
<1>5. OwnFile' /\ Expected'
  BY <1>0, <1>2, SMT DEF OwnFile, Expected
<1>6. Trust'
  <2>1. Fits(i) => Fits(i)'
    BY <1>2, Zenon DEF Fits
  <2>2. ~customCacheFile => Fits(i)
    BY <1>4, Zenon DEF Fits
  <2> QED
    BY <1>2, <1>4, <2>1, <2>2, SMT DEF Trust
<1> QED
  BY <1>0, <1>1, <1>2, <1>5, <1>6, Zenon DEF SourceInv

LEMMA VerificationSource ==
  ASSUME SourceInv, NEW i \in Images, StartVerification(i) PROVE SourceInv'
<1>0. ManagerInv /\ "oldStuck" \notin faults /\ OwnFile /\ Expected /\ Trust /\ ManagerTypeOK
  BY Zenon DEF SourceInv, ManagerInv
<1>1. ManagerInv'
  BY <1>0, VerificationType
<1> DEFINE hash == IF customCacheFile THEN ImageHash(i) ELSE HashToVerify(i, cacheFileHash)
           request == [file |-> cacheFileName, hash |-> hash]
<1>2. /\ session = "idle" /\ session' = "waiting" /\ image' = i /\ isValid' = FALSE
      /\ cachedHash = i /\ i # None
      /\ requests' = Append(requests, request)
      /\ UNCHANGED <<faults, files, settings, cacheFileName, cachedHash, cacheFileHash,
                     verificationComplete, customCacheFile, results, path, fileHash, rejected>>
  BY Distinct, Zenon DEF StartVerification, PotentialCache, Exists, hashes
<1>3. CASE customCacheFile
  <2>1. customCacheFile' /\ "oldStuck" \notin faults'
    BY <1>0, <1>2, <1>3, Zenon
  <2>2. settings'.hash # None => settings'.hash.of = settings'.image
    BY <1>0, <1>2, Zenon DEF Expected
  <2> QED
    BY <1>1, <2>1, <2>2, CustomSource
<1>4. CASE ~customCacheFile
  <2>1. hash \in Hashes /\ hash.of = i
    BY <1>0, <1>2, <1>4, ManagerParts, HashToVerifyIn DEF Expected
  <2> HIDE DEF hash
  <2>2. request.file = "default" /\ request.hash.of = cachedHash
    BY <1>0, <1>2, <1>4, <2>1, SMT DEF Expected
  <2>3. cacheFileName = "default" /\ "default" \in Paths
    BY <1>0, <1>2, <1>4, SMT DEF Expected, Paths
  <2>4. request \in Requests /\ requests \in Seq(Requests)
    BY <1>0, <2>1, <2>3, ManagerParts, SMT DEF Requests
  <2> HIDE DEF request
  <2>5. \A k \in 1..Len(requests') :
          requests'[k] = IF k <= Len(requests) THEN requests[k] ELSE request
    BY <1>2, <2>4, SMT
  <2>6. /\ Len(requests') = Len(requests) + 1 /\ Len(requests) \in Nat
    BY <1>2, <2>4, SMT
  <2>7. \A k \in 1..Len(requests') : k <= Len(requests) => k \in 1..Len(requests)
    BY <2>6, SMT
  <2>8. OwnFile'
    BY <1>0, <1>2, <1>4, <2>2, <2>5, <2>7, SMT DEF OwnFile
  <2>9. Expected'
    BY <1>0, <1>2, SMT DEF Expected
  <2>10. Unproved => Unproved'
    BY <1>2, <2>2, <2>5, <2>7, SMT DEF Unproved
  <2>11. Fits(i) => Fits(i)'
    BY <1>2, Zenon DEF Fits
  <2>12. Fits(i) \/ Unproved
    BY <1>0, <1>2, <1>4, SMT DEF Trust
  <2>13. Trust'
    BY <1>2, <2>10, <2>11, <2>12, SMT DEF Trust
  <2> QED
    BY <1>0, <1>1, <1>2, <2>8, <2>9, <2>13, Zenon DEF SourceInv
<1> QED
  BY <1>3, <1>4

\* A download that begins: the hash of the cache is forgotten if its file is removed.
LEMMA DownloadSource ==
  ASSUME SourceInv, ManagerInv', NEW i \in Images, NEW name, NEW clear \in BOOLEAN,
         Download(i, name, clear),
         ~customCacheFile => name \in {None, "default"},
         ~customCacheFile /\ ~clear => /\ name = cacheFileName
                                       /\ cachedHash = None \/ files["default"] = Absent,
         faults' = faults, requests' = requests,
         ~customCacheFile => \A k \in 1..Len(results') : results'[k].file = "default"
  PROVE  SourceInv'
<1>0. /\ "oldStuck" \notin faults /\ OwnFile /\ Expected /\ ManagerTypeOK
      /\ files \in [Paths -> Contents]
  BY ManagerParts, Zenon DEF SourceInv, ManagerInv
<1>1. /\ session' = "downloading" /\ image' = i /\ customCacheFile' = customCacheFile
      /\ cachedHash' = (IF clear THEN None ELSE cachedHash)
      /\ cacheFileHash' = (IF clear THEN None ELSE cacheFileHash)
      /\ settings' \in {settings, NoSettings}
  <2>1. settings' \in {settings, NoSettings}
    BY SMT DEF Download, Cleared
  <2> QED
    BY <2>1, Zenon DEF Download, Cleared
<1>2. settings'.hash # None => settings'.hash.of = settings'.image
  <2>1. NoSettings.hash = None
    BY SMT DEF NoSettings
  <2> QED
    BY <1>0, <1>1, <2>1, SMT DEF Expected
<1>3. CASE customCacheFile
  BY <1>0, <1>1, <1>2, <1>3, CustomSource
<1>4. CASE ~customCacheFile
  <2>1. \/ path' = "default" /\ cacheFileName' = "default"
        \/ /\ files' = Removed(name, clear) /\ path' = None
           /\ cacheFileName' \in {IF clear THEN None ELSE name, "default"}
    BY <1>4, Zenon DEF Download
  <2>2. cacheFileName' \in {None, "default"} /\ path' \in {None, "default"}
    BY <1>4, <2>1, SMT
  <2>3. OwnFile'
    BY <1>0, <1>4, <2>2, Zenon DEF OwnFile
  <2>4. Expected'
    <3>1. cachedHash' # None => ~clear /\ cachedHash # None
      BY <1>1
    <3>2. cachedHash' # None => cacheFileName' = "default"
      BY <1>0, <1>4, <2>1, <3>1, SMT DEF Expected
    <3>3. session' # "waiting"
      BY <1>1, SMT
    <3> QED
      BY <1>0, <1>1, <1>2, <1>4, <3>1, <3>2, <3>3, Zenon DEF Expected
  <2>5. path' = None => cachedHash' = None \/ files'["default"] = Absent
    <3>1. ASSUME path' = None, cachedHash' # None PROVE files'["default"] = Absent
      <4>1. ~clear /\ files["default"] = Absent
        BY <1>1, <1>4, <3>1
      <4>2. files' = Removed(name, clear)
        BY <2>1, <3>1, Distinct, SMT
      <4>3. Removed(name, clear)["default"] \in {files["default"], Absent}
        BY <1>0, RemovedIs, SMT DEF Paths
      <4> QED
        BY <4>1, <4>2, <4>3
    <3> QED
      BY <3>1
  <2>6. Trust'
    BY <1>1, <2>5, SMT DEF Trust
  <2> QED
    BY <1>0, <2>3, <2>4, <2>6, Zenon DEF SourceInv
<1> QED
  BY <1>3, <1>4

LEMMA StartDownloadSource ==
  ASSUME SourceInv, NEW i \in Images, StartDownload(i) PROVE SourceInv'
<1>0. ManagerInv /\ OwnFile /\ Expected /\ ManagerTypeOK
  BY Zenon DEF SourceInv, ManagerInv
<1>1. PICK clear : /\ clear = (PotentialCache(i) \/ cachedHash \notin {None, i})
                   /\ Download(i, cacheFileName, clear)
  BY Zenon DEF StartDownload
<1>2. faults' = faults /\ requests' = requests /\ results' = results
  BY Zenon DEF StartDownload, queues
<1>3. clear \in BOOLEAN
  BY <1>1, Zenon
<1>4. ~customCacheFile => cacheFileName \in {None, "default"}
  BY <1>0, Zenon DEF OwnFile
<1>5. ASSUME ~customCacheFile, ~clear PROVE cachedHash = None \/ files["default"] = Absent
  <2>1. cachedHash \in {None, i} /\ ~PotentialCache(i)
    BY <1>1, <1>5, Zenon
  <2>2. ASSUME cachedHash # None PROVE files["default"] = Absent
    <3>1. cacheFileName = "default" /\ cachedHash = i
      BY <1>0, <1>5, <2>1, <2>2, SMT DEF Expected
    <3> QED
      BY <2>1, <3>1, Distinct, Zenon DEF PotentialCache, Exists
  <2> QED
    BY <2>2
<1>6. ~customCacheFile => \A k \in 1..Len(results') : results'[k].file = "default"
  BY <1>0, <1>2, Zenon DEF OwnFile
<1>7. ManagerInv'
  BY <1>0, StartDownloadType
<1> QED
  BY <1>1, <1>2, <1>3, <1>4, <1>5, <1>6, <1>7, DownloadSource

LEMMA SkipSource == ASSUME SourceInv, SkipVerification PROVE SourceInv'
<1>0. ManagerInv /\ OwnFile /\ ShapeOK
  BY Zenon DEF SourceInv, ManagerInv
<1>1. /\ session = "waiting" /\ Download(image, cacheFileName, TRUE)
      /\ faults' = faults /\ requests' = requests /\ results' = results
  BY Zenon DEF SkipVerification, queues
<1>2. image \in Images
  BY <1>0, <1>1, SMT DEF ShapeOK, Busy
<1>3. ManagerInv'
  BY <1>0, SkipType
<1>4. /\ ~customCacheFile => cacheFileName \in {None, "default"}
      /\ ~customCacheFile => \A k \in 1..Len(results') : results'[k].file = "default"
  BY <1>0, <1>1, Zenon DEF OwnFile
<1> QED
  BY <1>1, <1>2, <1>3, <1>4, DownloadSource

\* The result at the head, of a verification of the own file.
LEMMA ResultOwn ==
  ASSUME SourceInv, results # <<>>, results' = Tail(results), ~customCacheFile
  PROVE  /\ Head(results).file = "default"
         /\ \A k \in 1..Len(results') : results'[k].file = "default"
         /\ Unproved => /\ ~Head(results).ok
                        /\ \A k \in 1..Len(results') : ~results'[k].ok
<1>1. results \in Seq(Results) /\ \A k \in 1..Len(results) : results[k].file = "default"
  BY ManagerParts, Zenon DEF SourceInv, ManagerInv, OwnFile
<1>2. /\ Tail(results) \in Seq(Results) /\ Len(Tail(results)) = Len(results) - 1
      /\ Len(results) \in Nat \ {0} /\ Head(results) = results[1] /\ results[1] \in Results
      /\ \A i \in 1..Len(Tail(results)) :
           Tail(results)[i] = results[i + 1] /\ i + 1 \in 1..Len(results)
  BY <1>1, Shortened
<1>3. 1 \in 1..Len(results)
  BY <1>2, SMT
<1>4. Unproved => \A k \in 1..Len(results) : ~results[k].ok
  BY Zenon DEF Unproved
<1> QED
  BY <1>1, <1>2, <1>3, <1>4, Zenon

LEMMA InvalidSource == ASSUME SourceInv, VerifiedInvalid PROVE SourceInv'
<1>0. ManagerInv /\ ShapeOK
  BY Zenon DEF SourceInv, ManagerInv
<1>1. /\ session = "waiting" /\ Download(image, Head(results).file, TRUE)
      /\ faults' = faults /\ requests' = requests /\ results' = Tail(results)
      /\ results # <<>>
  BY Zenon DEF VerifiedInvalid
<1>2. image \in Images
  BY <1>0, <1>1, SMT DEF ShapeOK, Busy
<1>3. ManagerInv'
  BY <1>0, InvalidType
<1>4. ~customCacheFile => /\ Head(results).file = "default"
                          /\ \A k \in 1..Len(results') : results'[k].file = "default"
  BY <1>1, ResultOwn
<1>5. ~customCacheFile => Head(results).file \in {None, "default"}
  BY <1>4
<1> QED
  BY <1>1, <1>2, <1>3, <1>4, <1>5, DownloadSource

LEMMA NoteSource == ASSUME SourceInv, NoteVerification PROVE SourceInv'
<1>0. ManagerInv /\ "oldStuck" \notin faults /\ OwnFile /\ Expected /\ Trust
  BY Zenon DEF SourceInv
<1>1. /\ session \notin {"off", "commandline", "waiting"} /\ results # <<>>
      /\ isValid' = Head(results).ok /\ verificationComplete' = TRUE
      /\ cacheFileName' = Head(results).file /\ results' = Tail(results)
      /\ UNCHANGED <<faults, files, settings, cachedHash, cacheFileHash, customCacheFile,
                     requests, session, image, path, fileHash, rejected>>
  BY Zenon DEF NoteVerification, hashes, write
<1>2. ManagerInv'
  BY <1>0, NoteType
<1>3. ~customCacheFile => /\ Head(results).file = "default"
                          /\ \A k \in 1..Len(results') : results'[k].file = "default"
                          /\ Unproved => /\ ~Head(results).ok
                                         /\ \A k \in 1..Len(results') : ~results'[k].ok
  BY <1>0, <1>1, ResultOwn
<1>4. OwnFile'
  BY <1>0, <1>1, <1>3, Zenon DEF OwnFile
<1>5. Expected'
  BY <1>0, <1>1, <1>3, Zenon DEF Expected
<1>6. ~customCacheFile /\ Unproved => Unproved'
  BY <1>1, <1>3, Zenon DEF Unproved
<1>7. \A i : Fits(i) => Fits(i)'
  BY <1>1, Zenon DEF Fits
<1>8. Trust'
  <2>1. ~customCacheFile /\ session' = "stored" => cacheFileName' = "default"
    BY <1>1, <1>3
  <2> QED
    BY <1>0, <1>1, <1>6, <1>7, <2>1, Zenon DEF Trust
<1> QED
  BY <1>0, <1>1, <1>2, <1>4, <1>5, <1>8, Zenon DEF SourceInv

LEMMA ValidSource == ASSUME SourceInv, VerifiedValid PROVE SourceInv'
<1>0. ManagerInv /\ "oldStuck" \notin faults /\ OwnFile /\ Expected /\ Trust /\ ShapeOK
  BY Zenon DEF SourceInv, ManagerInv
<1>1. /\ session = "waiting" /\ results # <<>> /\ Head(results).ok
      /\ isValid' = TRUE /\ verificationComplete' = TRUE
      /\ cacheFileName' = Head(results).file /\ results' = Tail(results)
      /\ UNCHANGED <<faults, files, settings, cachedHash, cacheFileHash, customCacheFile,
                     requests, image, fileHash, rejected>>
  BY Zenon DEF VerifiedValid, hashes
<1>2. ManagerInv'
  BY <1>0, ValidType
<1>3. CASE customCacheFile
  <2>1. settings'.hash # None => settings'.hash.of = settings'.image
    BY <1>0, <1>1, Zenon DEF Expected
  <2> QED
    BY <1>0, <1>1, <1>2, <1>3, <2>1, CustomSource
<1>4. CASE ~customCacheFile
  <2>1. /\ Head(results).file = "default"
        /\ \A k \in 1..Len(results') : results'[k].file = "default"
        /\ ~Unproved
    BY <1>1, <1>4, ResultOwn
  <2>2. image \in Images /\ image = cachedHash
    BY <1>0, <1>1, <1>4, SMT DEF ShapeOK, Busy, Expected
  <2>3. Fits(image)
    BY <1>0, <1>1, <1>4, <2>1, <2>2, Distinct, SMT DEF Trust
  <2>4. \/ session' = "local" /\ path' = "default" /\ Exists("default")
        \/ session' = "idle" /\ path' = path
    BY <1>4, <2>1, Zenon DEF VerifiedValid, ReadFrom, CacheFilePath
  <2>5. Fits(image)'
    BY <1>1, <2>3, Zenon DEF Fits
  <2>6. session' = "local" => path' = "default" /\ Holds(files'["default"], image')
    <3>1. ASSUME session' = "local" PROVE path' = "default" /\ Exists("default")
      BY <2>4, <3>1, SMT
    <3> QED
      BY <1>1, <2>3, <3>1, Zenon DEF Fits, Exists
  <2>7. OwnFile'
    BY <1>0, <1>1, <1>4, <2>1, <2>4, SMT DEF OwnFile
  <2>8. Expected'
    BY <1>0, <1>1, <2>1, <2>4, SMT DEF Expected
  <2>9. Trust'
    BY <1>1, <2>2, <2>4, <2>5, <2>6, SMT DEF Trust
  <2> QED
    BY <1>0, <1>1, <1>2, <2>7, <2>8, <2>9, Zenon DEF SourceInv
<1> QED
  BY <1>3, <1>4

LEMMA UpdateSource == ASSUME SourceInv, UpdateCacheFile PROVE SourceInv'
<1>0. ManagerInv /\ "oldStuck" \notin faults /\ OwnFile /\ Expected /\ Trust /\ ShapeOK
  BY Zenon DEF SourceInv, ManagerInv
<1>1. /\ session = "stored" /\ session' = "syncing"
      /\ cachedHash' = image /\ cacheFileHash' = fileHash
      /\ settings' = IF customCacheFile THEN settings
                     ELSE [file |-> cacheFileName, image |-> image, hash |-> fileHash]
      /\ UNCHANGED <<faults, files, cacheFileName, customCacheFile, requests, results, image,
                     path, fileHash, rejected>>
  BY Zenon DEF UpdateCacheFile, queues
<1>2. ManagerInv'
  BY <1>0, UpdateType
<1>3. fileHash.of = image
  BY <1>0, <1>1, SMT DEF ShapeOK
<1>4. settings'.hash # None => settings'.hash.of = settings'.image
  BY <1>0, <1>1, <1>3, SMT DEF Expected
<1>5. OwnFile'
  BY <1>0, <1>1, Zenon DEF OwnFile
<1>6. ~customCacheFile => cacheFileName = "default" /\ Fits(image)
  BY <1>0, <1>1, SMT DEF Trust
<1>7. Expected'
  BY <1>1, <1>3, <1>4, <1>6, SMT DEF Expected
<1>8. Trust'
  <2>1. ~customCacheFile' => Fits(cachedHash)'
    BY <1>1, <1>6, Zenon DEF Fits
  <2> QED
    BY <1>1, <2>1, SMT DEF Trust
<1> QED
  BY <1>0, <1>1, <1>2, <1>5, <1>7, <1>8, Zenon DEF SourceInv

LEMMA EndSource == ASSUME SourceInv, EndWrite PROVE SourceInv'
<1>0. ManagerInv /\ "oldStuck" \notin faults /\ OwnFile /\ Expected /\ Trust
  BY Zenon DEF SourceInv
<1>1. /\ session \in {"local", "syncing"} /\ session' = "idle" /\ path' = None
      /\ UNCHANGED <<faults, files, settings, cacheFileName, cachedHash, cacheFileHash, isValid,
                     verificationComplete, customCacheFile, requests, results>>
  BY Zenon DEF EndWrite, status, queues, hashes
<1>2. ManagerInv'
  BY <1>0, EndType
<1>3. OwnFile' /\ Expected'
  BY <1>0, <1>1, SMT DEF OwnFile, Expected
<1>4. Fits(cachedHash)' = Fits(cachedHash) /\ Unproved' = Unproved
  BY <1>1, Zenon DEF Fits, Unproved
<1>5. Trust'
  BY <1>0, <1>1, <1>4, SMT DEF Trust
<1> QED
  BY <1>0, <1>1, <1>2, <1>3, <1>5, Zenon DEF SourceInv

\* A file whose content is what is expected of image i has all of it.
LEMMA HashHolds ==
  ASSUME NEW c \in Contents, NEW h \in Hashes, c = h
  PROVE  Holds(c, h.of)
<1>1. c # Absent
  BY Distinct, SMT DEF Hashes, Absent, Content
<1>2. c.kind \in WholeKinds
  BY <1>1, SMT DEF Hashes, Contents, WholeKinds
<1> QED
  BY <1>2, SMT DEF Holds

LEMMA VerifySource == ASSUME SourceInv, Verify PROVE SourceInv'
<1>0. /\ ManagerInv /\ "oldStuck" \notin faults /\ OwnFile /\ Expected /\ Trust
      /\ requests \in Seq(Requests) /\ results \in Seq(Results) /\ files \in [Paths -> Contents]
  BY ManagerParts, Zenon DEF SourceInv, ManagerInv
<1> DEFINE result == [ok |-> files[Head(requests).file] = Head(requests).hash,
                      file |-> Head(requests).file]
<1>1. /\ requests # <<>> /\ requests' = Tail(requests) /\ results' = Append(results, result)
      /\ UNCHANGED <<faults, files, settings, cacheFileName, cachedHash, cacheFileHash, isValid,
                     verificationComplete, customCacheFile, session, image, path, fileHash,
                     rejected>>
  BY Zenon DEF Verify, status, write, hashes
<1>2. ManagerInv'
  BY <1>0, VerifyType
<1>3. /\ Len(requests) \in Nat \ {0} /\ Head(requests) = requests[1] /\ requests[1] \in Requests
      /\ \A i \in 1..Len(Tail(requests)) :
           Tail(requests)[i] = requests[i + 1] /\ i + 1 \in 1..Len(requests)
  BY <1>0, <1>1, Shortened
<1>4. /\ result.file = Head(requests).file
      /\ result.ok = (files[Head(requests).file] = Head(requests).hash)
  BY Zenon
<1>5. \A k \in 1..Len(results') :
        \/ k \in 1..Len(results) /\ results'[k] = results[k]
        \/ results'[k] = result
  BY <1>0, <1>1, SMT
<1> HIDE DEF result
<1>6. CASE customCacheFile
  <2>1. settings'.hash # None => settings'.hash.of = settings'.image
    BY <1>0, <1>1, Zenon DEF Expected
  <2> QED
    BY <1>0, <1>1, <1>2, <1>6, <2>1, CustomSource
<1>7. CASE ~customCacheFile
  <2>1. Head(requests).file = "default"
    BY <1>0, <1>3, <1>7, SMT DEF OwnFile
  <2>2. OwnFile'
    <3>1. \A k \in 1..Len(requests') : requests'[k].file = "default"
      BY <1>0, <1>1, <1>3, <1>7, Zenon DEF OwnFile
    <3>2. \A k \in 1..Len(results') : results'[k].file = "default"
      BY <1>0, <1>4, <1>5, <1>7, <2>1, Zenon DEF OwnFile
    <3> QED
      BY <1>0, <1>1, <3>1, <3>2, Zenon DEF OwnFile
  <2>3. Expected'
    BY <1>0, <1>1, Zenon DEF Expected
  <2>4. Fits(cachedHash)' = Fits(cachedHash) /\ Fits(image)' = Fits(image)
    BY <1>1, Zenon DEF Fits
  <2>5. ASSUME Unproved PROVE Fits(cachedHash) \/ Unproved'
    <3>1. Head(requests).hash.of = cachedHash /\ Head(requests).hash \in Hashes
      BY <1>3, <2>5, SMT DEF Unproved, Requests
    <3>2. \A k \in 1..Len(requests') : requests'[k].hash.of = cachedHash'
      BY <1>1, <1>3, <2>5, Zenon DEF Unproved
    <3>3. CASE result.ok
      <4>1. files["default"] \in Contents
        BY <1>0, SMT DEF Paths
      <4>2. files["default"] = Head(requests).hash
        BY <1>4, <2>1, <3>3, Zenon
      <4>3. Holds(files["default"], Head(requests).hash.of)
        BY <3>1, <4>1, <4>2, HashHolds
      <4> QED
        BY <3>1, <4>3 DEF Fits
    <3>4. CASE ~result.ok
      <4>1. \A k \in 1..Len(results') : ~results'[k].ok
        BY <1>5, <2>5, <3>4, Zenon DEF Unproved
      <4> QED
        BY <1>1, <2>5, <3>2, <4>1, Zenon DEF Unproved
    <3> QED
      BY <3>3, <3>4
  <2>6. Trust'
    BY <1>0, <1>1, <2>4, <2>5, Zenon DEF Trust
  <2> QED
    BY <1>0, <1>1, <1>2, <2>2, <2>3, <2>6, Zenon DEF SourceInv
<1> QED
  BY <1>6, <1>7

LEMMA StoreSource == ASSUME SourceInv, StoreDownload PROVE SourceInv'
<1>0. /\ ManagerInv /\ "oldStuck" \notin faults /\ OwnFile /\ Expected /\ Trust
      /\ FilesOK /\ files \in [Paths -> Contents]
  BY ManagerParts, Zenon DEF SourceInv, ManagerInv
<1>1. /\ session = "downloading" /\ session' = "stored" /\ path \in Paths
      /\ UNCHANGED <<faults, settings, cacheFileName, cachedHash, cacheFileHash, isValid,
                     verificationComplete, customCacheFile, requests, results, image, path,
                     rejected>>
  BY <1>0, StoreIs
<1>2. ManagerInv'
  BY <1>0, StoreType
<1>3. OwnFile'
  BY <1>0, <1>1, Zenon DEF OwnFile
<1>4. Expected'
  BY <1>0, <1>1, SMT DEF Expected
<1>5. ASSUME ~customCacheFile
      PROVE  cacheFileName = "default" /\ path = "default" /\ Fits(image)'
  <2>1. path # None
    BY <1>1, Distinct, SMT DEF Paths
  <2>2. path = "default"
    BY <1>0, <1>5, <2>1, SMT DEF OwnFile
  <2>3. cacheFileName = "default"
    BY <1>0, <1>1, <1>5, <2>1, Distinct, SMT DEF OwnFile, FilesOK, Own
  <2>4. \/ files' = files /\ ~Exists(path)
        \/ \E c \in {Absent} \cup [of : {image}, kind : WholeKinds] :
             files' = [files EXCEPT ![path] = c]
    BY <1>0, StoreIs
  <2>5. CASE files' = files /\ ~Exists(path)
    <3>1. files["default"] = Absent
      BY <2>1, <2>2, <2>5, SMT DEF Exists
    <3>2. files'["default"] = Absent
      BY <2>5, <3>1
    <3> QED
      BY <2>2, <2>3, <3>2, Zenon DEF Fits
  <2>6. ASSUME NEW c \in {Absent} \cup [of : {image}, kind : WholeKinds],
               files' = [files EXCEPT ![path] = c]
        PROVE  Fits(image)'
    <3>1. files'["default"] = c
      BY <1>0, <1>1, <2>2, <2>6, SMT
    <3>2. c = Absent \/ Holds(c, image)
      BY SMT DEF Holds
    <3> QED
      BY <1>1, <3>1, <3>2, Zenon DEF Fits
  <2> QED
    BY <2>2, <2>3, <2>4, <2>5, <2>6
<1>6. Trust'
  BY <1>1, <1>5, SMT DEF Trust
<1> QED
  BY <1>0, <1>1, <1>2, <1>3, <1>4, <1>6, Zenon DEF SourceInv

LEMMA UncachedSource == ASSUME SourceInv, DownloadUncached PROVE SourceInv'
<1>0. /\ ManagerInv /\ "oldStuck" \notin faults /\ OwnFile /\ Expected /\ Trust
      /\ files \in [Paths -> Contents]
  BY ManagerParts, Zenon DEF SourceInv, ManagerInv
<1>1. /\ session = "downloading" /\ session' = "idle" /\ image' = None /\ path' = None
      /\ files' = Removed(path, TRUE)
      /\ UNCHANGED <<faults, settings, cacheFileName, cachedHash, cacheFileHash, isValid,
                     verificationComplete, customCacheFile, requests, results, fileHash,
                     rejected>>
  BY Zenon DEF DownloadUncached, PartialRemoved, status, queues, hashes
<1>2. ManagerInv'
  BY <1>0, UncachedType
<1>3. OwnFile' /\ Expected'
  BY <1>0, <1>1, SMT DEF OwnFile, Expected
<1>4. ASSUME ~customCacheFile PROVE cachedHash = None \/ files'["default"] = Absent
  <2>1. CASE path = "default"
    BY <1>1, <2>1, SMT DEF Removed, Paths
  <2>2. CASE path = None
    <3>1. cachedHash = None \/ files["default"] = Absent
      BY <1>0, <1>1, <1>4, <2>2, Zenon DEF Trust
    <3>2. files'["default"] \in {files["default"], Absent}
      <4>1. \A q \in Paths : Removed(path, TRUE)[q] \in {files[q], Absent}
        BY <1>0, RemovedIs
      <4>2. "default" \in Paths
        BY SMT DEF Paths
      <4>3. Removed(path, TRUE)["default"] \in {files["default"], Absent}
        BY <4>1, <4>2
      <4> QED
        BY <1>1, <4>3
    <3> QED
      BY <3>1, <3>2, SMT
  <2> QED
    BY <1>0, <1>4, <2>1, <2>2, SMT DEF OwnFile
<1>5. Trust'
  <2>1. session' = "idle" /\ "idle" \notin {"downloading", "stored", "local"}
    BY <1>1, SMT
  <2> QED
    BY <1>1, <1>4, <2>1, Zenon DEF Trust, Fits
<1> QED
  BY <1>0, <1>1, <1>2, <1>3, <1>5, Zenon DEF SourceInv

\* A step that changes nothing but the files, and keeps what can be said of them.
LEMMA FilesOnlySource ==
  ASSUME SourceInv, ManagerInv', UNCHANGED <<faults, settings, status, queues, write>>,
         \A i : Fits(i) => files'["default"] = Absent \/ Holds(files'["default"], i),
         files["default"] = Absent => files'["default"] = Absent,
         session = "local" => files'["default"] = files["default"]
  PROVE  SourceInv'
<1>0. "oldStuck" \notin faults /\ OwnFile /\ Expected /\ Trust
  BY Zenon DEF SourceInv
<1>1. UNCHANGED <<faults, settings, cacheFileName, cachedHash, cacheFileHash, isValid,
                  verificationComplete, customCacheFile, requests, results, session, image, path>>
  BY Zenon DEF status, queues, write, hashes
<1>2. OwnFile' /\ Expected' /\ (Unproved => Unproved')
  <2>1. OwnFile'
    BY <1>0, <1>1, Zenon DEF OwnFile
  <2>2. Expected'
    BY <1>0, <1>1, Zenon DEF Expected
  <2>3. Unproved => Unproved'
    BY <1>1, Zenon DEF Unproved
  <2> QED
    BY <2>1, <2>2, <2>3
<1>3. (Fits(cachedHash) => Fits(cachedHash)') /\ (Fits(image) => Fits(image)')
  BY <1>1, Zenon DEF Fits
<1>4. Trust'
  BY <1>0, <1>1, <1>2, <1>3, Zenon DEF Trust
<1> QED
  BY <1>0, <1>1, <1>2, <1>4, Zenon DEF SourceInv

LEMMA SurroundingsSource ==
  ASSUME SourceInv, NEW p \in Paths, Disappear(p) \/ Spoil(p) PROVE SourceInv'
<1>0. ManagerInv /\ files \in [Paths -> Contents] /\ "default" \in Paths
  BY ManagerParts, SMT DEF SourceInv, ManagerInv, Paths
<1>1. ManagerInv'
  BY <1>0, SurroundingsType
<1>2. CASE Disappear(p)
  <2>1. /\ files' = [files EXCEPT ![p] = Absent] /\ session # "local"
        /\ UNCHANGED <<faults, settings, status, queues, write>>
    BY <1>2, Zenon DEF Disappear
  <2>2. files'["default"] \in {files["default"], Absent}
    BY <1>0, <2>1, SMT
  <2>3. \A i : Fits(i) => files'["default"] = Absent \/ Holds(files'["default"], i)
    BY <2>2, SMT DEF Fits
  <2>4. files["default"] = Absent => files'["default"] = Absent
    BY <2>2, SMT
  <2> QED
    BY <1>1, <2>1, <2>3, <2>4, FilesOnlySource
<1>3. CASE Spoil(p)
  <2>1. /\ files' = [files EXCEPT ![p].kind = "spoiled"] /\ session # "local"
        /\ files[p].kind \in WholeKinds
        /\ UNCHANGED <<faults, settings, status, queues, write>>
    <3>1. session = "idle"
      BY <1>3, Zenon DEF Spoil
    <3>2. session # "local"
      BY <3>1, SMT
    <3> QED
      BY <1>3, <3>2, Zenon DEF Spoil
  <2>2. files[p] # Absent
    BY <2>1, SMT DEF Absent, Content, WholeKinds
  <2>3. CASE p = "default"
    <3>1. files'["default"] = [files["default"] EXCEPT !.kind = "spoiled"]
      BY <1>0, <2>1, <2>3, SMT
    <3>2. files["default"] \in [of : Images, kind : WholeKinds \cup {"partial", "spoiled"}]
      BY <1>0, <2>2, <2>3, SMT DEF Contents
    <3>3. files'["default"].of = files["default"].of /\ files'["default"].kind = "spoiled"
      BY <3>1, <3>2, SMT
    <3>4. \A i : Fits(i) => files'["default"] = Absent \/ Holds(files'["default"], i)
      BY <2>2, <2>3, <3>3, SMT DEF Fits, Holds
    <3> QED
      BY <1>1, <2>1, <2>2, <2>3, <3>4, FilesOnlySource
  <2>4. CASE p # "default"
    <3>1. files'["default"] = files["default"]
      BY <1>0, <2>1, <2>4, SMT
    <3>2. \A i : Fits(i) => files'["default"] = Absent \/ Holds(files'["default"], i)
      BY <3>1, Zenon DEF Fits
    <3> QED
      BY <1>1, <2>1, <3>1, <3>2, FilesOnlySource
  <2> QED
    BY <2>3, <2>4
<1> QED
  BY <1>2, <1>3

LEMMA SourceStep == SourceInv /\ [ManagerNext]_managerVars => SourceInv'
<1> SUFFICES ASSUME SourceInv, [ManagerNext]_managerVars PROVE SourceInv'
  OBVIOUS
<1>1. CASE StartProgram
  BY <1>1, StartSource
<1>2. CASE SkipVerification
  BY <1>2, SkipSource
<1>3. CASE NoteVerification
  BY <1>3, NoteSource
<1>4. CASE VerifiedValid
  BY <1>4, ValidSource
<1>5. CASE VerifiedInvalid
  BY <1>5, InvalidSource
<1>6. CASE UpdateCacheFile
  BY <1>6, UpdateSource
<1>7. CASE EndWrite
  BY <1>7, EndSource
<1>8. ASSUME NEW i \in Images,
             \/ SetCustomCacheFile(i) \/ StartFromCache(i)
             \/ StartVerification(i) \/ StartDownload(i)
      PROVE  SourceInv'
  BY <1>8, SetCustomSource, FromCacheSource, VerificationSource, StartDownloadSource
<1>9. CASE Verify
  BY <1>9, VerifySource
<1>10. CASE StoreDownload
  BY <1>10, StoreSource
<1>11. CASE DownloadUncached
  BY <1>11, UncachedSource
<1>12. CASE Crash
  BY <1>12, CrashSource
<1>13. ASSUME NEW p \in Paths, Disappear(p) \/ Spoil(p) PROVE SourceInv'
  BY <1>13, SurroundingsSource
<1>14. CASE UNCHANGED managerVars
  <2>1. UNCHANGED <<faults, settings, status, queues, write>> /\ files' = files
    BY <1>14, Zenon DEF managerVars
  <2>2. ManagerInv'
    BY <1>14, ManagerStep, Zenon DEF SourceInv
  <2>3. \A i : Fits(i) => files'["default"] = Absent \/ Holds(files'["default"], i)
    BY <2>1, Zenon DEF Fits
  <2> QED
    BY <2>1, <2>2, <2>3, FilesOnlySource
<1> QED
  BY <1>1, <1>2, <1>3, <1>4, <1>5, <1>6, <1>7, <1>8, <1>9, <1>10, <1>11, <1>12, <1>13, <1>14, Zenon
     DEF ManagerNext, EventLoop, Downloading, Surroundings

\* SourceInv holds for ever.
LEMMA SourceKept == ManagerSpec /\ "oldStuck" \notin faults => []SourceInv
BY InitSource, SourceStep, PTL DEF ManagerSpec

(***************************************************************************)
(* As long as the file of an earlier version can be moved and removed: a   *)
(* write that reads the program's own cache (imagewriter.cpp:841, :3950)   *)
(* reads a file with the whole image that was selected, whatever the last  *)
(* run left and whatever crashes, skipped verifications, late results and  *)
(* removed files come before it.                                           *)
(***************************************************************************)
THEOREM SourceAlwaysImage == ManagerSpec /\ "oldStuck" \notin faults => []SourceIsImage
<1>1. SourceInv => SourceIsImage
  <2> SUFFICES ASSUME SourceInv, ~customCacheFile, session = "local"
               PROVE  Holds(files[path], image)
    BY Zenon DEF SourceIsImage, SourceHolds
  <2>1. path = "default" /\ Holds(files["default"], image)
    BY Zenon DEF SourceInv, Trust
  <2> QED
    BY <2>1
<1> QED
  BY <1>1, SourceKept, PTL

(***************************************************************************)
(* Under the same condition: while nothing is downloaded, the file that    *)
(* isCached() (cachemanager.cpp) calls cached has the whole image.         *)
(***************************************************************************)
THEOREM CachedAlwaysWhole == ManagerSpec /\ "oldStuck" \notin faults => []CachedIsWhole
<1>1. SourceInv => CachedIsWhole
  <2> SUFFICES ASSUME SourceInv, session \in {"idle", "waiting", "local"}, ~customCacheFile,
                      NEW i \in Images, Cached(i)
               PROVE  Holds(files[cacheFileName], i)
    BY Zenon DEF CachedIsWhole
  <2>1. cachedHash = i /\ Exists(cacheFileName) /\ isValid /\ verificationComplete
    BY Zenon DEF Cached, PotentialCache
  <2>2. cachedHash # None
    BY <2>1, Distinct
  <2>3. cacheFileName = "default"
    BY <2>2, Zenon DEF SourceInv, Expected
  <2>4. Fits(cachedHash)
    <3>1. session \in {"idle", "waiting", "local", "syncing"}
      BY SMT
    <3> QED
      BY <2>1, <2>2, <3>1, Zenon DEF SourceInv, Trust, Unproved
  <2> QED
    BY <2>1, <2>3, <2>4, Zenon DEF Fits, Exists
<1> QED
  BY <1>1, SourceKept, PTL
===============================================================================
