------------------------- MODULE ExtractSessionProofs -------------------------
(***************************************************************************)
(* A compressed image is announced as a success only when it is on the     *)
(* device, and no error contradicts it, whatever the sizes of the image    *)
(* and the ring, the order in which the threads run, and what fails.       *)
(***************************************************************************)
EXTENDS ExtractSession, TLAPS

Reading  == {"read", "readRaw", "nothing", "isComplete", "isComplete2"}
Complete == {"eof", "end", "finish", "success"}

\* The blocks under way are those that follow the one being decoded, and unless
\* somebody has cancelled none was dropped on the way.
RingKept ==
  /\ \A i \in 1..Len(inTransit) : inTransit[i] = delivered + i
  /\ Local => inTransit = <<>> /\ received = 0
  /\ ~Local => LET behind == received - (IF download = "push" THEN 1 ELSE 0)
               IN /\ delivered + Len(inTransit) <= behind
                  /\ ~cancelled => delivered + Len(inTransit) = behind

\* Whoever announces an error or cancels the ring has set _cancelled before.
CancelKept ==
  /\ aborted \/ extractFailed \/ Announced("error") => cancelled
  /\ download \in {"error", "errorRing"} => cancelled
  /\ extract \in {"error", "errorThenRing", "cancelExtract"} => cancelled
  /\ user = "cancelExtract" => cancelled

\* What the place of one thread says of the other.
PlacesKept ==
  /\ producerDone => received = NumBlocks /\ download \in {"join", "done"}
  /\ producerDone => ~Local
  /\ download = "join" => producerDone
  /\ Local => download \in {"open", "run", "error", "errorRing", "done"}
  /\ ~Local => download \notin {"open", "run"}
  /\ Local /\ extract # "off" => download \in {"run", "done"}
  /\ extract = "readRaw" => Raw
  /\ extract \in {"nothing", "isComplete", "isComplete2"} => ~Local
  /\ extract = "isComplete2" => producerDone
  /\ extract \in {"finish", "success"} => Image
  /\ extract = "off" => received = 0 /\ delivered = 0 /\ written = 0

\* What has been written when nobody has cancelled.
ProgressKept ==
  /\ extract = "mount" => delivered = 0 /\ written = 0
  /\ extract = "decode" => written < delivered
  /\ extract \in Reading \cup {"mount"} /\ ~ReadsToEnd => delivered < ArchiveBlocks
  /\ extract \in {"decode", "next", "writeFailed"} /\ ~ReadsToEnd
       => delivered <= ArchiveBlocks
  /\ ~cancelled =>
       /\ extract \in Reading \cup {"next"} => written = delivered
       /\ extract = "decode" => written + 1 = delivered
       /\ extract \in Complete => written = ArchiveBlocks
       /\ extract \in Complete /\ ReadsToEnd /\ ~Local => producerDone
       /\ extract = "done" /\ (Image \/ ~Announced("quietError"))
            => written = ArchiveBlocks
       /\ extract = "eof" => ReadsToEnd

\* After a success nothing is written, nor is there anybody left to fail.
VerdictsKept ==
  Announced("success") =>
    /\ \/ extract = "done"
       \/ extract = "off" /\ download = "done"
    /\ Image /\ ReadsToEnd => download \in {"join", "run", "done"}

IInv == /\ TypeOK
        /\ RingKept
        /\ CancelKept
        /\ PlacesKept
        /\ ProgressKept
        /\ VerdictsKept
        /\ SuccessMeansWholeImage
        /\ VerdictsAgree

-------------------------------------------------------------------------------
\* What the assumptions on the constants say of the archive of a session.
LEMMA ArchiveFacts ==
  ASSUME archive \in Archives
  PROVE  /\ NumBlocks \in Nat
         /\ ArchiveBlocks \in Nat
         /\ ArchiveBlocks <= NumBlocks
         /\ ReadsToEnd => ArchiveBlocks = NumBlocks
         /\ ArchiveBlocks = 0 => ReadsToEnd
         /\ Raw => Image /\ ReadsToEnd /\ Local
         /\ {Image, ReadsToEnd, Local, Raw} \subseteq BOOLEAN
BY ArchivesAssumption DEF NumBlocks, ArchiveBlocks, ReadsToEnd, Raw, Image, Local

\* What depends on the archive alone stays what it was.
LEMMA SameArchive ==
  ASSUME archive' = archive
  PROVE  /\ NumBlocks' = NumBlocks
         /\ ArchiveBlocks' = ArchiveBlocks
         /\ ReadsToEnd' = ReadsToEnd
         /\ Image' = Image
         /\ Local' = Local
         /\ Raw' = Raw
BY DEF NumBlocks, ArchiveBlocks, ReadsToEnd, Raw, Image, Local

\* A step that emits nothing announces nothing new ...
LEMMA Quiet ==
  ASSUME signals' = signals
  PROVE  \A t : Announced(t)' <=> Announced(t)
BY DEF Announced

\* ... and one that emits announces just that.
LEMMA Emitted ==
  ASSUME NEW s \in {"success", "error", "quietError"},
         signals \in Seq({"success", "error", "quietError"}),
         Emit(s)
  PROVE  /\ signals' \in Seq({"success", "error", "quietError"})
         /\ \A t : Announced(t)' <=> Announced(t) \/ t = s
BY DEF Announced, Emit

\* The ring passes the blocks on in their order: the next one goes in at the end ...
LEMMA Sending ==
  ASSUME TypeOK, RingKept, Ring!Send,
         Len(inTransit) + delivered < NumBlocks, NumBlocks \in Nat
  PROVE  /\ inTransit' \in Seq(1..NumBlocks)
         /\ Len(inTransit') = Len(inTransit) + 1
         /\ \A i \in 1..Len(inTransit') : inTransit'[i] = delivered + i
<1>. inTransit \in Seq(1..NumBlocks) /\ delivered \in 0..NumBlocks  BY DEF TypeOK
<1>1. Ring!NextNumber = delivered + Len(inTransit) + 1
  BY DEF RingKept, Ring!NextNumber
<1>2. inTransit' = Append(inTransit, delivered + Len(inTransit) + 1)
  BY <1>1 DEF Ring!Send
<1>3. delivered + Len(inTransit) + 1 \in 1..NumBlocks  OBVIOUS
<1>4. /\ inTransit' \in Seq(1..NumBlocks)
      /\ Len(inTransit') = Len(inTransit) + 1
  BY <1>2, <1>3
<1>5. ASSUME NEW i \in 1..Len(inTransit')
      PROVE  inTransit'[i] = delivered + i
  BY <1>2, <1>4 DEF RingKept
<1>. QED  BY <1>4, <1>5

\* ... and the one after the last delivered comes out.
LEMMA Receiving ==
  ASSUME TypeOK, RingKept, Ring!Receive, NumBlocks \in Nat
  PROVE  /\ inTransit' \in Seq(1..NumBlocks)
         /\ Len(inTransit) # 0
         /\ Len(inTransit') = Len(inTransit) - 1
         /\ delivered' = delivered + 1
         /\ \A i \in 1..Len(inTransit') : inTransit'[i] = delivered' + i
<1>. inTransit \in Seq(1..NumBlocks) /\ delivered \in 0..NumBlocks  BY DEF TypeOK
<1>1. /\ inTransit' = Tail(inTransit)
      /\ Len(inTransit) # 0
      /\ delivered' = inTransit[1]
  BY DEF Ring!Receive
<1>2. delivered' = delivered + 1  BY <1>1 DEF RingKept
<1>3. /\ inTransit' \in Seq(1..NumBlocks)
      /\ Len(inTransit') = Len(inTransit) - 1
      /\ \A i \in 1..Len(inTransit') : inTransit'[i] = inTransit[i + 1]
  BY <1>1
<1>. QED  BY <1>1, <1>2, <1>3 DEF RingKept

-------------------------------------------------------------------------------
\* The download thread keeps the invariant, one lemma per action.
LEMMA WriteDataKeeps ==
  ASSUME IInv, WriteData, archive' = archive
  PROVE  IInv'
<1>. archive \in Archives  BY DEF IInv, TypeOK
<1>1. TypeOK'
  BY ArchiveFacts, SameArchive DEF IInv, TypeOK, ringVars, WriteData
<1>2. RingKept' /\ CancelKept' /\ PlacesKept'
    BY SameArchive, Quiet DEF IInv, TypeOK, RingKept, CancelKept, PlacesKept,
     ringVars, WriteData
<1>3. ProgressKept'
    BY ArchiveFacts, SameArchive, Quiet DEF IInv, PlacesKept, ProgressKept,
     Complete, ringVars, WriteData
<1>4. VerdictsKept' /\ SuccessMeansWholeImage' /\ VerdictsAgree'
    BY SameArchive, Quiet DEF IInv, VerdictsKept, SuccessMeansWholeImage,
     VerdictsAgree, WriteData
<1>. QED  BY <1>1, <1>2, <1>3, <1>4 DEF IInv

LEMMA PushQueueKeeps ==
  ASSUME IInv, PushQueue, archive' = archive
  PROVE  IInv'
<1>. archive \in Archives  BY DEF IInv, TypeOK
<1>1. TypeOK'
  <2>1. ({aborted, producerDone, holding, cancelled, extractFailed} \subseteq BOOLEAN)'
    BY DEF IInv, TypeOK, PushQueue, Room, Ring!Send, Ring!NextNumber
  <2>2. (Len(inTransit) + (IF holding THEN 1 ELSE 0) <= Capacity)'
    BY CapacityAssumption DEF PushQueue, Room, Ring!Send, Ring!NextNumber
  <2>3. signals' \in Seq({"success", "error", "quietError"})
    BY DEF IInv, TypeOK, PushQueue
  <2>4. (delivered \in 0..NumBlocks /\ written \in 0..delivered)'
        BY SameArchive DEF IInv, TypeOK, PushQueue, Room, Ring!Send,
       Ring!NextNumber
  <2>. QED
        BY SMTT(30), SameArchive, <2>2 DEF IInv, TypeOK, RingKept, PlacesKept, PushQueue,
       Room, Ring!Send, Ring!NextNumber
<1>2. RingKept' /\ CancelKept' /\ PlacesKept'
    BY ArchiveFacts, SameArchive, Quiet, Sending DEF IInv, TypeOK, RingKept,
     CancelKept, PlacesKept, PushQueue, Room, Ring!Send, Ring!NextNumber
<1>3. ProgressKept'
    BY SameArchive, Quiet DEF IInv, ProgressKept, PushQueue, Room, Ring!Send,
     Ring!NextNumber
<1>4. VerdictsKept' /\ SuccessMeansWholeImage' /\ VerdictsAgree'
    BY SameArchive, Quiet DEF IInv, VerdictsKept, SuccessMeansWholeImage,
     VerdictsAgree, PushQueue
<1>. QED  BY <1>1, <1>2, <1>3, <1>4 DEF IInv

LEMMA DropBlockKeeps ==
  ASSUME IInv, DropBlock, archive' = archive
  PROVE  IInv'
<1>. archive \in Archives  BY DEF IInv, TypeOK
<1>1. TypeOK'
  BY SameArchive DEF IInv, TypeOK, ringVars, DropBlock
<1>2. RingKept' /\ CancelKept' /\ PlacesKept'
    BY SameArchive DEF IInv, TypeOK, RingKept, CancelKept, PlacesKept,
     ringVars, DropBlock
<1>3. ProgressKept'
  BY SameArchive DEF IInv, CancelKept, ProgressKept, ringVars, DropBlock
<1>4. VerdictsKept' /\ SuccessMeansWholeImage' /\ VerdictsAgree'
    BY SameArchive, Quiet DEF IInv, VerdictsKept, SuccessMeansWholeImage,
     VerdictsAgree, DropBlock
<1>. QED  BY <1>1, <1>2, <1>3, <1>4 DEF IInv

LEMMA CurlAbortsKeeps ==
  ASSUME IInv, CurlAborts, archive' = archive
  PROVE  IInv'
<1>. archive \in Archives  BY DEF IInv, TypeOK
<1>1. TypeOK'
  BY SameArchive DEF IInv, TypeOK, ringVars, CurlAborts
<1>2. RingKept' /\ CancelKept' /\ PlacesKept'
    BY SameArchive DEF IInv, RingKept, CancelKept, PlacesKept, ringVars,
     CurlAborts
<1>3. ProgressKept'
  BY SameArchive DEF IInv, ProgressKept, ringVars, CurlAborts
<1>4. VerdictsKept' /\ SuccessMeansWholeImage' /\ VerdictsAgree'
    BY SameArchive, Quiet DEF IInv, VerdictsKept, SuccessMeansWholeImage,
     VerdictsAgree, CurlAborts
<1>. QED  BY <1>1, <1>2, <1>3, <1>4 DEF IInv

LEMMA DownloadErrorKeeps ==
  ASSUME IInv, DownloadError, archive' = archive
  PROVE  IInv'
<1>. archive \in Archives  BY DEF IInv, TypeOK
<1>1. TypeOK'
  <2>1. ({aborted, producerDone, holding, cancelled, extractFailed} \subseteq BOOLEAN)'
        BY DEF IInv, TypeOK, ringVars, DownloadError, CurlFails, CancelRing,
       Ring!Abort, Emit
  <2>2. (Len(inTransit) + (IF holding THEN 1 ELSE 0) <= Capacity)'
        BY DEF IInv, TypeOK, ringVars, DownloadError, CurlFails, CancelRing,
       Ring!Abort, Emit
  <2>3. signals' \in Seq({"success", "error", "quietError"})
        BY Emitted DEF IInv, TypeOK, DownloadError, CurlFails, CancelRing,
       Ring!Abort, Emit
  <2>4. (delivered \in 0..NumBlocks /\ written \in 0..delivered)'
        BY SameArchive DEF IInv, TypeOK, ringVars, DownloadError, CurlFails,
       CancelRing, Ring!Abort, Emit
  <2>. QED
        BY SameArchive, <2>3 DEF IInv, TypeOK, ringVars, DownloadError,
       CurlFails, CancelRing, Ring!Abort, Emit
<1>2. RingKept' /\ CancelKept' /\ PlacesKept'
    BY SameArchive DEF IInv, RingKept, CancelKept, PlacesKept, ringVars,
     DownloadError, CurlFails, CancelRing, Ring!Abort, Emit
<1>3. ProgressKept'
    BY SameArchive DEF IInv, CancelKept, ProgressKept, ringVars, DownloadError,
     CurlFails, CancelRing, Ring!Abort, Emit
<1>4. VerdictsKept' /\ SuccessMeansWholeImage' /\ VerdictsAgree'
    BY SameArchive, Emitted, Quiet DEF IInv, TypeOK, VerdictsKept,
     SuccessMeansWholeImage, VerdictsAgree, DownloadError, CurlFails,
     CancelRing, Ring!Abort, Emit
<1>. QED  BY <1>1, <1>2, <1>3, <1>4 DEF IInv

LEMMA ProducerDoneKeeps ==
  ASSUME IInv, ProducerDone, archive' = archive
  PROVE  IInv'
<1>. archive \in Archives  BY DEF IInv, TypeOK
<1>1. TypeOK'
  BY SameArchive DEF IInv, TypeOK, ringVars, ProducerDone, SignalProducerDone
<1>2. RingKept' /\ CancelKept' /\ PlacesKept'
    BY SameArchive, Quiet DEF IInv, RingKept, CancelKept, PlacesKept, ringVars,
     ProducerDone, SignalProducerDone
<1>3. ProgressKept'
    BY SameArchive, Quiet DEF IInv, ProgressKept, ringVars, ProducerDone,
     SignalProducerDone
<1>4. VerdictsKept' /\ SuccessMeansWholeImage' /\ VerdictsAgree'
    BY SameArchive, Quiet DEF IInv, VerdictsKept, SuccessMeansWholeImage,
     VerdictsAgree, ProducerDone
<1>. QED  BY <1>1, <1>2, <1>3, <1>4 DEF IInv

LEMMA JoinExtractThreadKeeps ==
  ASSUME IInv, JoinExtractThread, archive' = archive
  PROVE  IInv'
<1>. archive \in Archives  BY DEF IInv, TypeOK
<1>1. TypeOK'
  <2>1. ({aborted, producerDone, holding, cancelled, extractFailed} \subseteq BOOLEAN)'
    BY DEF IInv, TypeOK, ringVars, JoinExtractThread
  <2>2. (Len(inTransit) + (IF holding THEN 1 ELSE 0) <= Capacity)'
    BY DEF IInv, TypeOK, ringVars, JoinExtractThread
  <2>3. signals' \in Seq({"success", "error", "quietError"})
    BY Emitted DEF IInv, TypeOK, JoinExtractThread
  <2>4. (delivered \in 0..NumBlocks /\ written \in 0..delivered)'
    BY SameArchive DEF IInv, TypeOK, ringVars, JoinExtractThread
  <2>. QED
    BY SameArchive, <2>3 DEF IInv, TypeOK, ringVars, JoinExtractThread
<1>2. RingKept' /\ CancelKept' /\ PlacesKept'
    BY SameArchive, Emitted DEF IInv, TypeOK, RingKept, CancelKept, PlacesKept,
     ringVars, JoinExtractThread, ExtractionSucceeded
<1>3. ProgressKept'
    BY SameArchive, Emitted DEF IInv, TypeOK, CancelKept, ProgressKept,
     Reading, JoinExtractThread, ExtractionSucceeded
<1>4. VerdictsKept' /\ SuccessMeansWholeImage' /\ VerdictsAgree'
    BY ArchiveFacts, SameArchive, Emitted, Quiet DEF IInv, TypeOK, CancelKept,
     PlacesKept, ProgressKept, VerdictsKept, SuccessMeansWholeImage,
     VerdictsAgree, JoinExtractThread, ExtractionSucceeded
<1>. QED  BY <1>1, <1>2, <1>3, <1>4 DEF IInv

LEMMA OpenFileKeeps ==
  ASSUME IInv, OpenFile, archive' = archive
  PROVE  IInv'
<1>. archive \in Archives  BY DEF IInv, TypeOK
<1>1. TypeOK'
  BY SameArchive DEF IInv, TypeOK, ringVars, OpenFile
<1>2. RingKept' /\ CancelKept' /\ PlacesKept'
    BY SameArchive, Quiet DEF IInv, RingKept, CancelKept, PlacesKept, ringVars,
     OpenFile
<1>3. ProgressKept'
    BY ArchiveFacts, SameArchive DEF IInv, PlacesKept, ProgressKept, Complete,
     ringVars, OpenFile
<1>4. VerdictsKept' /\ SuccessMeansWholeImage' /\ VerdictsAgree'
    BY Quiet DEF IInv, PlacesKept, VerdictsKept, SuccessMeansWholeImage,
     VerdictsAgree, OpenFile
<1>. QED  BY <1>1, <1>2, <1>3, <1>4 DEF IInv

LEMMA FileDoneKeeps ==
  ASSUME IInv, FileDone, archive' = archive
  PROVE  IInv'
<1>. archive \in Archives  BY DEF IInv, TypeOK
<1>1. TypeOK'
  BY SameArchive DEF IInv, TypeOK, ringVars, FileDone
<1>2. RingKept' /\ CancelKept' /\ PlacesKept'
    BY SameArchive, Quiet DEF IInv, RingKept, CancelKept, PlacesKept, ringVars,
     FileDone
<1>3. ProgressKept'
  BY SameArchive, Quiet DEF IInv, ProgressKept, Reading, FileDone
<1>4. VerdictsKept' /\ SuccessMeansWholeImage' /\ VerdictsAgree'
    BY SameArchive, Quiet DEF IInv, VerdictsKept, SuccessMeansWholeImage,
     VerdictsAgree, FileDone
<1>. QED  BY <1>1, <1>2, <1>3, <1>4 DEF IInv

-------------------------------------------------------------------------------
\* The extract thread keeps the invariant: reading.
LEMMA ReadBlockKeeps ==
  ASSUME IInv, ReadBlock, archive' = archive
  PROVE  IInv'
<1>. archive \in Archives  BY DEF IInv, TypeOK
<1>1. TypeOK'
  <2>1. ({aborted, producerDone, holding, cancelled, extractFailed} \subseteq BOOLEAN)'
    BY DEF IInv, TypeOK, ReadBlock, Ring!Receive
  <2>2. (Len(inTransit) + (IF holding THEN 1 ELSE 0) <= Capacity)'
    BY CapacityAssumption DEF IInv, TypeOK, ReadBlock, Ring!Receive
  <2>3. signals' \in Seq({"success", "error", "quietError"})
    BY DEF IInv, TypeOK, ReadBlock
  <2>4. (delivered \in 0..NumBlocks /\ written \in 0..delivered)'
        BY SMTT(30), ArchiveFacts, SameArchive, Receiving DEF IInv, TypeOK, ReadBlock,
       Ring!Receive
  <2>. QED
    BY SameArchive, <2>2, <2>4 DEF IInv, TypeOK, ReadBlock, Ring!Receive
<1>2. RingKept'
    BY SMTT(30), ArchiveFacts, SameArchive, Quiet, Receiving DEF IInv, RingKept,
     CancelKept, PlacesKept, ProgressKept, VerdictsKept, Reading, Complete,
     ReadBlock, Ring!Receive
<1>3. CancelKept'
  BY Quiet DEF IInv, CancelKept, ReadBlock, Ring!Receive
<1>4. PlacesKept'
  BY SameArchive DEF IInv, PlacesKept, ReadBlock
<1>5. ProgressKept'
    BY ArchiveFacts, SameArchive, Receiving DEF IInv, TypeOK, ProgressKept,
     Reading, Complete, ReadBlock
<1>6. VerdictsKept'
  BY Quiet DEF IInv, VerdictsKept, ReadBlock
<1>7. SuccessMeansWholeImage'
  BY SameArchive, Quiet DEF IInv, SuccessMeansWholeImage, ReadBlock
<1>8. VerdictsAgree'
  BY SameArchive, Quiet DEF IInv, VerdictsAgree, ReadBlock
<1>. QED  BY <1>1, <1>2, <1>3, <1>4, <1>5, <1>6, <1>7, <1>8 DEF IInv

LEMMA ReadNothingKeeps ==
  ASSUME IInv, ReadNothing, archive' = archive
  PROVE  IInv'
<1>. archive \in Archives  BY DEF IInv, TypeOK
<1>1. TypeOK'
  BY SameArchive DEF IInv, TypeOK, ringVars, ReadNothing
<1>2. RingKept' /\ CancelKept' /\ PlacesKept'
    BY SameArchive, Quiet DEF IInv, RingKept, CancelKept, PlacesKept, ringVars,
     ReadNothing
<1>3. ProgressKept'
    BY SameArchive DEF IInv, ProgressKept, Reading, Complete, ringVars,
     ReadNothing
<1>4. VerdictsKept' /\ SuccessMeansWholeImage' /\ VerdictsAgree'
    BY Quiet DEF IInv, VerdictsKept, SuccessMeansWholeImage, VerdictsAgree,
     ReadNothing
<1>. QED  BY <1>1, <1>2, <1>3, <1>4 DEF IInv

LEMMA CheckRingKeeps ==
  ASSUME IInv, CheckRing, archive' = archive
  PROVE  IInv'
<1>. archive \in Archives  BY DEF IInv, TypeOK
<1>1. TypeOK'
  BY SameArchive DEF IInv, TypeOK, ringVars, CheckRing, IsComplete
<1>2. RingKept' /\ CancelKept' /\ PlacesKept'
    BY SameArchive, Quiet DEF IInv, RingKept, CancelKept, PlacesKept, ringVars,
     CheckRing, IsComplete
<1>3. ProgressKept'
    BY ArchiveFacts, SameArchive DEF IInv, TypeOK, RingKept, CancelKept,
     PlacesKept, ProgressKept, Reading, Complete, ringVars, CheckRing,
     IsComplete
<1>4. VerdictsKept' /\ SuccessMeansWholeImage' /\ VerdictsAgree'
    BY Quiet DEF IInv, VerdictsKept, SuccessMeansWholeImage, VerdictsAgree,
     CheckRing, IsComplete
<1>. QED  BY <1>1, <1>2, <1>3, <1>4 DEF IInv

LEMMA EndOfInputKeeps ==
  ASSUME IInv, EndOfInput, archive' = archive
  PROVE  IInv'
<1>. archive \in Archives  BY DEF IInv, TypeOK
<1>1. TypeOK'
  BY SameArchive DEF IInv, TypeOK, ringVars, EndOfInput
<1>2. RingKept' /\ CancelKept' /\ PlacesKept'
    BY SameArchive, Quiet DEF IInv, RingKept, CancelKept, PlacesKept, ringVars,
     EndOfInput
<1>3. ProgressKept'
  BY SameArchive DEF IInv, ProgressKept, Reading, Complete, EndOfInput
<1>4. VerdictsKept' /\ SuccessMeansWholeImage' /\ VerdictsAgree'
    BY Quiet DEF IInv, VerdictsKept, SuccessMeansWholeImage, VerdictsAgree,
     EndOfInput
<1>. QED  BY <1>1, <1>2, <1>3, <1>4 DEF IInv

LEMMA ReadArchiveKeeps ==
  ASSUME IInv, ReadArchive, archive' = archive
  PROVE  IInv'
<1>. archive \in Archives  BY DEF IInv, TypeOK
<1>1. TypeOK'
  <2>1. ({aborted, producerDone, holding, cancelled, extractFailed} \subseteq BOOLEAN)'
    BY DEF IInv, TypeOK, ringVars, ReadArchive, FileBlock
  <2>2. (Len(inTransit) + (IF holding THEN 1 ELSE 0) <= Capacity)'
    BY DEF IInv, TypeOK, ringVars, ReadArchive, FileBlock
  <2>3. signals' \in Seq({"success", "error", "quietError"})
    BY DEF IInv, TypeOK, ReadArchive
  <2>4. (delivered \in 0..NumBlocks /\ written \in 0..delivered)'
        BY ArchiveFacts, SameArchive DEF IInv, TypeOK, ringVars, ReadArchive,
       FileBlock
  <2>. QED
    BY SameArchive, <2>4 DEF IInv, TypeOK, ringVars, ReadArchive, FileBlock
<1>2. RingKept' /\ CancelKept' /\ PlacesKept'
    BY SameArchive, Quiet DEF IInv, RingKept, CancelKept, PlacesKept, ringVars,
     ReadArchive, FileBlock
<1>3. ProgressKept'
    BY ArchiveFacts, SameArchive DEF IInv, TypeOK, ProgressKept, Reading,
     Complete, ReadArchive, FileBlock
<1>4. VerdictsKept' /\ SuccessMeansWholeImage' /\ VerdictsAgree'
    BY Quiet DEF IInv, VerdictsKept, SuccessMeansWholeImage, VerdictsAgree,
     ReadArchive
<1>. QED  BY <1>1, <1>2, <1>3, <1>4 DEF IInv

LEMMA RawLoopKeeps ==
  ASSUME IInv, RawLoop, archive' = archive
  PROVE  IInv'
<1>. archive \in Archives  BY DEF IInv, TypeOK
<1>1. TypeOK'
  BY SameArchive DEF IInv, TypeOK, ringVars, RawLoop
<1>2. RingKept' /\ CancelKept' /\ PlacesKept'
    BY SameArchive, Quiet DEF IInv, RingKept, CancelKept, PlacesKept, ringVars,
     RawLoop
<1>3. ProgressKept'
    BY ArchiveFacts, SameArchive DEF IInv, ProgressKept, Reading, Complete,
     ringVars, RawLoop
<1>4. VerdictsKept' /\ SuccessMeansWholeImage' /\ VerdictsAgree'
    BY Quiet DEF IInv, VerdictsKept, SuccessMeansWholeImage, VerdictsAgree,
     RawLoop
<1>. QED  BY <1>1, <1>2, <1>3, <1>4 DEF IInv

LEMMA ReadRawKeeps ==
  ASSUME IInv, ReadRaw, archive' = archive
  PROVE  IInv'
<1>. archive \in Archives  BY DEF IInv, TypeOK
<1>1. TypeOK'
  <2>1. ({aborted, producerDone, holding, cancelled, extractFailed} \subseteq BOOLEAN)'
    BY DEF IInv, TypeOK, ringVars, ReadRaw, FileBlock
  <2>2. (Len(inTransit) + (IF holding THEN 1 ELSE 0) <= Capacity)'
    BY DEF IInv, TypeOK, ringVars, ReadRaw, FileBlock
  <2>3. signals' \in Seq({"success", "error", "quietError"})
    BY DEF IInv, TypeOK, ReadRaw
  <2>4. (delivered \in 0..NumBlocks /\ written \in 0..delivered)'
    BY ArchiveFacts, SameArchive DEF IInv, TypeOK, ringVars, ReadRaw, FileBlock
  <2>. QED
    BY SameArchive, <2>4 DEF IInv, TypeOK, ringVars, ReadRaw, FileBlock
<1>2. RingKept' /\ CancelKept' /\ PlacesKept'
    BY ArchiveFacts, SameArchive, Quiet DEF IInv, RingKept, CancelKept,
     PlacesKept, ringVars, ReadRaw, FileBlock
<1>3. ProgressKept'
    BY ArchiveFacts, SameArchive DEF IInv, TypeOK, ProgressKept, Reading,
     Complete, ReadRaw, FileBlock
<1>4. VerdictsKept' /\ SuccessMeansWholeImage' /\ VerdictsAgree'
    BY Quiet DEF IInv, VerdictsKept, SuccessMeansWholeImage, VerdictsAgree,
     ReadRaw
<1>. QED  BY <1>1, <1>2, <1>3, <1>4 DEF IInv

\* The extract thread: writing, and what can fail.
LEMMA WriteBlockKeeps ==
  ASSUME IInv, WriteBlock, archive' = archive
  PROVE  IInv'
<1>. archive \in Archives  BY DEF IInv, TypeOK
<1>1. TypeOK'
  BY SameArchive DEF IInv, TypeOK, ProgressKept, ringVars, WriteBlock
<1>2. RingKept' /\ CancelKept' /\ PlacesKept'
    BY SameArchive, Quiet DEF IInv, RingKept, CancelKept, PlacesKept, ringVars,
     WriteBlock
<1>3. ProgressKept'
    BY SameArchive DEF IInv, ProgressKept, Reading, Complete, ringVars,
     WriteBlock
<1>4. VerdictsKept' /\ SuccessMeansWholeImage' /\ VerdictsAgree'
    BY Quiet DEF IInv, VerdictsKept, SuccessMeansWholeImage, VerdictsAgree,
     WriteBlock
<1>. QED  BY <1>1, <1>2, <1>3, <1>4 DEF IInv

LEMMA NextBlockKeeps ==
  ASSUME IInv, NextBlock, archive' = archive
  PROVE  IInv'
<1>. archive \in Archives  BY DEF IInv, TypeOK
<1>1. TypeOK'
  <2>1. ({aborted, producerDone, holding, cancelled, extractFailed} \subseteq BOOLEAN)'
    BY DEF IInv, TypeOK, ringVars, NextBlock
  <2>2. (Len(inTransit) + (IF holding THEN 1 ELSE 0) <= Capacity)'
    BY CapacityAssumption DEF IInv, TypeOK, ringVars, NextBlock
  <2>3. signals' \in Seq({"success", "error", "quietError"})
    BY DEF IInv, TypeOK, NextBlock
  <2>4. (delivered \in 0..NumBlocks /\ written \in 0..delivered)'
    BY SameArchive DEF IInv, TypeOK, ringVars, NextBlock
  <2>. QED
    BY SameArchive, <2>2 DEF IInv, TypeOK, ringVars, NextBlock
<1>2. RingKept' /\ CancelKept' /\ PlacesKept'
    BY SameArchive, Quiet DEF IInv, RingKept, CancelKept, PlacesKept, ringVars,
     NextBlock
<1>3. ProgressKept'
    BY ArchiveFacts, SameArchive DEF IInv, TypeOK, ProgressKept, Reading,
     Complete, ringVars, NextBlock
<1>4. VerdictsKept' /\ SuccessMeansWholeImage' /\ VerdictsAgree'
    BY Quiet DEF IInv, VerdictsKept, SuccessMeansWholeImage, VerdictsAgree,
     NextBlock
<1>. QED  BY <1>1, <1>2, <1>3, <1>4 DEF IInv

LEMMA OnWriteErrorKeeps ==
  ASSUME IInv, OnWriteError, archive' = archive
  PROVE  IInv'
<1>. archive \in Archives  BY DEF IInv, TypeOK
<1>1. TypeOK'
  <2>1. ({aborted, producerDone, holding, cancelled, extractFailed} \subseteq BOOLEAN)'
    BY DEF IInv, TypeOK, ringVars, OnWriteError, WriteFailed
  <2>2. (Len(inTransit) + (IF holding THEN 1 ELSE 0) <= Capacity)'
    BY CapacityAssumption DEF IInv, TypeOK, ringVars, OnWriteError, WriteFailed
  <2>3. signals' \in Seq({"success", "error", "quietError"})
    BY DEF IInv, TypeOK, OnWriteError
  <2>4. (delivered \in 0..NumBlocks /\ written \in 0..delivered)'
    BY SameArchive DEF IInv, TypeOK, ringVars, OnWriteError
  <2>. QED
    BY SameArchive, <2>2 DEF IInv, TypeOK, ringVars, OnWriteError, WriteFailed
<1>2. RingKept' /\ CancelKept' /\ PlacesKept'
    BY SameArchive, Quiet DEF IInv, RingKept, CancelKept, PlacesKept, ringVars,
     OnWriteError, WriteFailed
<1>3. ProgressKept'
    BY SameArchive DEF IInv, ProgressKept, Reading, Complete, ringVars,
     OnWriteError, WriteFailed
<1>4. VerdictsKept' /\ SuccessMeansWholeImage' /\ VerdictsAgree'
    BY Quiet DEF IInv, VerdictsKept, SuccessMeansWholeImage, VerdictsAgree,
     OnWriteError, WriteFailed
<1>. QED  BY <1>1, <1>2, <1>3, <1>4 DEF IInv

LEMMA CatchKeeps ==
  ASSUME IInv, Catch, archive' = archive
  PROVE  IInv'
<1>. archive \in Archives  BY DEF IInv, TypeOK
<1>1. TypeOK'
  <2>1. ({aborted, producerDone, holding, cancelled, extractFailed} \subseteq BOOLEAN)'
    BY DEF IInv, TypeOK, ringVars, Catch
  <2>2. (Len(inTransit) + (IF holding THEN 1 ELSE 0) <= Capacity)'
    BY CapacityAssumption DEF IInv, TypeOK, ringVars, Catch
  <2>3. signals' \in Seq({"success", "error", "quietError"})
    BY DEF IInv, TypeOK, Catch
  <2>4. (delivered \in 0..NumBlocks /\ written \in 0..delivered)'
    BY SameArchive DEF IInv, TypeOK, ringVars, Catch
  <2>. QED
    BY SameArchive, <2>2 DEF IInv, TypeOK, ringVars, Catch
<1>2. RingKept' /\ CancelKept' /\ PlacesKept'
  BY SameArchive DEF IInv, RingKept, CancelKept, PlacesKept, ringVars, Catch
<1>3. ProgressKept'
  BY DEF ProgressKept, Reading, Catch
<1>4. VerdictsKept' /\ SuccessMeansWholeImage' /\ VerdictsAgree'
  BY Quiet DEF IInv, VerdictsKept, SuccessMeansWholeImage, VerdictsAgree, Catch
<1>. QED  BY <1>1, <1>2, <1>3, <1>4 DEF IInv

LEMMA EmitErrorKeeps ==
  ASSUME IInv, EmitError, archive' = archive
  PROVE  IInv'
<1>. archive \in Archives  BY DEF IInv, TypeOK
<1>1. TypeOK'
  BY SameArchive, Emitted DEF IInv, TypeOK, ringVars, EmitError
<1>2. RingKept' /\ CancelKept' /\ PlacesKept'
    BY SameArchive DEF IInv, RingKept, CancelKept, PlacesKept, ringVars,
     EmitError
<1>3. ProgressKept'
  BY DEF IInv, CancelKept, ProgressKept, Reading, EmitError
<1>4. VerdictsKept' /\ SuccessMeansWholeImage' /\ VerdictsAgree'
    BY Emitted DEF IInv, TypeOK, VerdictsKept, SuccessMeansWholeImage,
     VerdictsAgree, EmitError
<1>. QED  BY <1>1, <1>2, <1>3, <1>4 DEF IInv

LEMMA CancelExtractKeeps ==
  ASSUME IInv, CancelExtract, archive' = archive
  PROVE  IInv'
<1>. archive \in Archives  BY DEF IInv, TypeOK
<1>1. TypeOK'
  BY SameArchive DEF IInv, TypeOK, CancelExtract, CancelRing, Ring!Abort
<1>2. RingKept' /\ CancelKept' /\ PlacesKept'
    BY SameArchive DEF IInv, RingKept, CancelKept, PlacesKept, CancelExtract,
     CancelRing, Ring!Abort
<1>3. ProgressKept'
  BY DEF IInv, CancelKept, ProgressKept, Reading, CancelExtract
<1>4. VerdictsKept' /\ SuccessMeansWholeImage' /\ VerdictsAgree'
    BY Quiet DEF IInv, VerdictsKept, SuccessMeansWholeImage, VerdictsAgree,
     CancelExtract
<1>. QED  BY <1>1, <1>2, <1>3, <1>4 DEF IInv

LEMMA SilentFailureKeeps ==
  ASSUME IInv, SilentFailure, archive' = archive
  PROVE  IInv'
<1>. archive \in Archives  BY DEF IInv, TypeOK
<1>1. TypeOK'
  <2>1. ({aborted, producerDone, holding, cancelled, extractFailed} \subseteq BOOLEAN)'
    BY DEF IInv, TypeOK, ringVars, SilentFailure
  <2>2. (Len(inTransit) + (IF holding THEN 1 ELSE 0) <= Capacity)'
    BY CapacityAssumption DEF IInv, TypeOK, ringVars, SilentFailure
  <2>3. signals' \in Seq({"success", "error", "quietError"})
    BY Emitted DEF IInv, TypeOK, SilentFailure
  <2>4. (delivered \in 0..NumBlocks /\ written \in 0..delivered)'
    BY SameArchive DEF IInv, TypeOK, ringVars, SilentFailure
  <2>. QED
    BY SameArchive, <2>2, <2>3 DEF IInv, TypeOK, ringVars, SilentFailure
<1>2. RingKept' /\ CancelKept' /\ PlacesKept'
    BY SameArchive, Emitted DEF IInv, TypeOK, RingKept, CancelKept, PlacesKept,
     ringVars, SilentFailure
<1>3. ProgressKept'
    BY SameArchive, Emitted DEF IInv, TypeOK, ProgressKept, Reading, Complete,
     SilentFailure
<1>4. VerdictsKept' /\ SuccessMeansWholeImage' /\ VerdictsAgree'
    BY Emitted DEF IInv, TypeOK, VerdictsKept, SuccessMeansWholeImage,
     VerdictsAgree, SilentFailure
<1>. QED  BY <1>1, <1>2, <1>3, <1>4 DEF IInv

LEMMA MountKeeps ==
  ASSUME IInv, Mount, archive' = archive
  PROVE  IInv'
<1>. archive \in Archives  BY DEF IInv, TypeOK
<1>1. TypeOK'
  BY SameArchive DEF IInv, TypeOK, ringVars, Mount
<1>2. RingKept' /\ CancelKept' /\ PlacesKept'
    BY SameArchive, Quiet DEF IInv, RingKept, CancelKept, PlacesKept, ringVars,
     Mount
<1>3. ProgressKept'
  BY SameArchive DEF IInv, ProgressKept, Complete, ringVars, Mount
<1>4. VerdictsKept' /\ SuccessMeansWholeImage' /\ VerdictsAgree'
  BY Quiet DEF IInv, VerdictsKept, SuccessMeansWholeImage, VerdictsAgree, Mount
<1>. QED  BY <1>1, <1>2, <1>3, <1>4 DEF IInv

\* The extract thread: the end of the session.
LEMMA DrainWritesKeeps ==
  ASSUME IInv, DrainWrites, archive' = archive
  PROVE  IInv'
<1>. archive \in Archives  BY DEF IInv, TypeOK
<1>1. TypeOK'
  BY SameArchive, CapacityAssumption DEF IInv, TypeOK, ringVars, DrainWrites
<1>2. RingKept' /\ CancelKept' /\ PlacesKept'
    BY SameArchive, Quiet DEF IInv, RingKept, CancelKept, PlacesKept, ringVars,
     DrainWrites
<1>3. ProgressKept'
  BY SameArchive DEF IInv, ProgressKept, Reading, Complete, DrainWrites
<1>4. VerdictsKept' /\ SuccessMeansWholeImage' /\ VerdictsAgree'
    BY Quiet DEF IInv, VerdictsKept, SuccessMeansWholeImage, VerdictsAgree,
     DrainWrites
<1>. QED  BY <1>1, <1>2, <1>3, <1>4 DEF IInv

LEMMA FinishKeeps ==
  ASSUME IInv, Finish, archive' = archive
  PROVE  IInv'
<1>. archive \in Archives  BY DEF IInv, TypeOK
<1>1. TypeOK'
  BY SameArchive DEF IInv, TypeOK, ringVars, Finish
<1>2. RingKept' /\ CancelKept' /\ PlacesKept'
    BY SameArchive, Quiet DEF IInv, RingKept, CancelKept, PlacesKept, ringVars,
     Finish
<1>3. ProgressKept'
  BY SameArchive DEF IInv, ProgressKept, Reading, Complete, Finish
<1>4. VerdictsKept' /\ SuccessMeansWholeImage' /\ VerdictsAgree'
    BY Quiet DEF IInv, VerdictsKept, SuccessMeansWholeImage, VerdictsAgree,
     Finish
<1>. QED  BY <1>1, <1>2, <1>3, <1>4 DEF IInv

LEMMA WriteSucceedsKeeps ==
  ASSUME IInv, WriteSucceeds, archive' = archive
  PROVE  IInv'
<1>. archive \in Archives  BY DEF IInv, TypeOK
<1>1. TypeOK'
  <2>1. ({aborted, producerDone, holding, cancelled, extractFailed} \subseteq BOOLEAN)'
    BY DEF IInv, TypeOK, ringVars, WriteSucceeds
  <2>2. (Len(inTransit) + (IF holding THEN 1 ELSE 0) <= Capacity)'
    BY CapacityAssumption DEF IInv, TypeOK, ringVars, WriteSucceeds
  <2>3. signals' \in Seq({"success", "error", "quietError"})
    BY Emitted DEF IInv, TypeOK, WriteSucceeds
  <2>4. (delivered \in 0..NumBlocks /\ written \in 0..delivered)'
    BY SameArchive DEF IInv, TypeOK, ringVars, WriteSucceeds
  <2>. QED
    BY SameArchive, <2>2, <2>3 DEF IInv, TypeOK, ringVars, WriteSucceeds
<1>2. RingKept' /\ CancelKept' /\ PlacesKept'
    BY ArchiveFacts, SameArchive, Emitted DEF IInv, TypeOK, RingKept,
     CancelKept, PlacesKept, ringVars, WriteSucceeds
<1>3. ProgressKept'
  BY SameArchive DEF IInv, ProgressKept, Reading, Complete, WriteSucceeds
<1>4. VerdictsKept' /\ SuccessMeansWholeImage' /\ VerdictsAgree'
    BY SameArchive, Emitted, Quiet DEF IInv, TypeOK, CancelKept, PlacesKept,
     ProgressKept, VerdictsKept, SuccessMeansWholeImage, VerdictsAgree,
     Complete, WriteSucceeds
<1>. QED  BY <1>1, <1>2, <1>3, <1>4 DEF IInv

LEMMA FilesExtractedKeeps ==
  ASSUME IInv, FilesExtracted, archive' = archive
  PROVE  IInv'
<1>. archive \in Archives  BY DEF IInv, TypeOK
<1>1. TypeOK'
  <2>1. ({aborted, producerDone, holding, cancelled, extractFailed} \subseteq BOOLEAN)'
    BY DEF IInv, TypeOK, ringVars, FilesExtracted
  <2>2. (Len(inTransit) + (IF holding THEN 1 ELSE 0) <= Capacity)'
    BY CapacityAssumption DEF IInv, TypeOK, ringVars, FilesExtracted
  <2>3. signals' \in Seq({"success", "error", "quietError"})
    BY Emitted DEF IInv, TypeOK, FilesExtracted
  <2>4. (delivered \in 0..NumBlocks /\ written \in 0..delivered)'
    BY SameArchive DEF IInv, TypeOK, ringVars, FilesExtracted
  <2>. QED
    BY SameArchive, <2>2, <2>3 DEF IInv, TypeOK, ringVars, FilesExtracted
<1>2. RingKept' /\ CancelKept' /\ PlacesKept'
    BY SameArchive, Emitted, Quiet DEF IInv, TypeOK, RingKept, CancelKept,
     PlacesKept, ringVars, FilesExtracted
<1>3. ProgressKept'
  BY SameArchive DEF IInv, ProgressKept, Reading, Complete, FilesExtracted
<1>4. VerdictsKept' /\ SuccessMeansWholeImage' /\ VerdictsAgree'
    BY SameArchive, Quiet DEF IInv, ProgressKept, VerdictsKept,
     SuccessMeansWholeImage, VerdictsAgree, Complete, FilesExtracted
<1>. QED  BY <1>1, <1>2, <1>3, <1>4 DEF IInv

-------------------------------------------------------------------------------
\* The main thread keeps the invariant.
LEMMA CancelDownloadKeeps ==
  ASSUME IInv, CancelDownload, archive' = archive
  PROVE  IInv'
<1>. archive \in Archives  BY DEF IInv, TypeOK
<1>1. TypeOK'
  BY SameArchive DEF IInv, TypeOK, ringVars, CancelDownload
<1>2. RingKept' /\ CancelKept' /\ PlacesKept'
    BY SameArchive DEF IInv, RingKept, CancelKept, PlacesKept, ringVars,
     CancelDownload
<1>3. ProgressKept'
  BY SameArchive DEF IInv, ProgressKept, ringVars, CancelDownload
<1>4. VerdictsKept' /\ SuccessMeansWholeImage' /\ VerdictsAgree'
    BY SameArchive, Quiet DEF IInv, VerdictsKept, SuccessMeansWholeImage,
     VerdictsAgree, CancelDownload
<1>. QED  BY <1>1, <1>2, <1>3, <1>4 DEF IInv

LEMMA UserCancelsRingKeeps ==
  ASSUME IInv, UserCancelsRing, archive' = archive
  PROVE  IInv'
<1>. archive \in Archives  BY DEF IInv, TypeOK
<1>1. TypeOK'
  BY SameArchive DEF IInv, TypeOK, UserCancelsRing, CancelRing, Ring!Abort
<1>2. RingKept' /\ CancelKept' /\ PlacesKept'
    BY SameArchive DEF IInv, RingKept, CancelKept, PlacesKept, UserCancelsRing,
     CancelRing, Ring!Abort
<1>3. ProgressKept'
    BY SameArchive DEF IInv, CancelKept, ProgressKept, UserCancelsRing,
     CancelRing, Ring!Abort
<1>4. VerdictsKept' /\ SuccessMeansWholeImage' /\ VerdictsAgree'
    BY SameArchive, Quiet DEF IInv, VerdictsKept, SuccessMeansWholeImage,
     VerdictsAgree, UserCancelsRing
<1>. QED  BY <1>1, <1>2, <1>3, <1>4 DEF IInv

-------------------------------------------------------------------------------
LEMMA InitIInv ==
  Init => IInv
<1>. SUFFICES ASSUME Init PROVE IInv  OBVIOUS
<1>. archive \in Archives  BY DEF Init
<1>0. Image \in BOOLEAN /\ Local \in BOOLEAN /\ NumBlocks \in Nat
  BY ArchiveFacts
<1>1. TypeOK
  <2>1. inTransit = <<>> /\ delivered = 0 /\ aborted = FALSE
    BY DEF Init, Ring!Init
  <2>2. /\ inTransit \in Seq(1..NumBlocks)
        /\ Len(inTransit) + (IF holding THEN 1 ELSE 0) <= Capacity
    BY <2>1, CapacityAssumption DEF Init
  <2>3. signals \in Seq({"success", "error", "quietError"})
    BY DEF Init
  <2>4. /\ download \in {"curl", "open"}
        /\ extract = "off" /\ user = "idle"
        /\ received = 0 /\ written = 0
        /\ {producerDone, holding, cancelled, extractFailed} = {FALSE}
    BY DEF Init
  <2>5. {aborted, producerDone, holding, cancelled, extractFailed} \subseteq BOOLEAN
    BY <2>1, <2>4
  <2>. QED  BY <1>0, <2>1, <2>2, <2>3, <2>4, <2>5 DEF TypeOK
<1>2. \A t : ~Announced(t)
  BY DEF Init, Announced
<1>3. RingKept
  <2>1. inTransit = <<>> /\ delivered = 0 /\ received = 0 /\ download # "push"
    BY DEF Init, Ring!Init
  <2>2. Len(inTransit) = 0
    BY <2>1
  <2>3. \A i \in 1..Len(inTransit) : inTransit[i] = delivered + i
    BY <2>2
  <2>4. (IF download = "push" THEN 1 ELSE 0) = 0
    BY <2>1
  <2>5. /\ delivered + Len(inTransit) <= received - 0
        /\ delivered + Len(inTransit) = received - 0
    BY <2>1, <2>2
  <2>6. LET behind == received - (IF download = "push" THEN 1 ELSE 0)
        IN  /\ delivered + Len(inTransit) <= behind
            /\ ~cancelled => delivered + Len(inTransit) = behind
    BY <2>4, <2>5
  <2>7. Local => inTransit = <<>> /\ received = 0
    BY <2>1
  <2>. QED  BY <2>3, <2>6, <2>7 DEF RingKept
<1>4. CancelKept
  BY <1>2 DEF Init, Ring!Init, CancelKept
<1>5. PlacesKept
  BY <1>0 DEF Init, Ring!Init, PlacesKept
<1>6. ProgressKept
  BY <1>0 DEF Init, Ring!Init, ProgressKept, Reading, Complete
<1>7. VerdictsKept /\ SuccessMeansWholeImage /\ VerdictsAgree
  BY <1>2 DEF VerdictsKept, SuccessMeansWholeImage, VerdictsAgree
<1>. QED  BY <1>1, <1>3, <1>4, <1>5, <1>6, <1>7 DEF IInv

LEMMA NextIInv ==
  IInv /\ [Next]_vars => IInv'
<1>. SUFFICES ASSUME IInv, [Next]_vars PROVE IInv'  OBVIOUS
<1>1. CASE Next
  <2>. archive' = archive  BY <1>1 DEF Next
  <2>1. CASE DownloadThread
    <3>1. CASE WriteData  BY <3>1, WriteDataKeeps
    <3>2. CASE PushQueue  BY <3>2, PushQueueKeeps
    <3>3. CASE DropBlock  BY <3>3, DropBlockKeeps
    <3>4. CASE CurlAborts  BY <3>4, CurlAbortsKeeps
    <3>5. CASE ProducerDone  BY <3>5, ProducerDoneKeeps
    <3>6. CASE JoinExtractThread  BY <3>6, JoinExtractThreadKeeps
    <3>7. CASE OpenFile  BY <3>7, OpenFileKeeps
    <3>8. CASE FileDone  BY <3>8, FileDoneKeeps
    <3>. QED  BY <2>1, <3>1, <3>2, <3>3, <3>4, <3>5, <3>6, <3>7, <3>8 DEF DownloadThread
  <2>2. CASE DownloadError  BY <2>2, DownloadErrorKeeps
  <2>3. CASE ExtractThread
    <3>1. CASE ReadBlock  BY <3>1, ReadBlockKeeps
    <3>2. CASE ReadNothing  BY <3>2, ReadNothingKeeps
    <3>3. CASE CheckRing  BY <3>3, CheckRingKeeps
    <3>4. CASE EndOfInput  BY <3>4, EndOfInputKeeps
    <3>5. CASE WriteBlock  BY <3>5, WriteBlockKeeps
    <3>6. CASE NextBlock  BY <3>6, NextBlockKeeps
    <3>7. CASE OnWriteError  BY <3>7, OnWriteErrorKeeps
    <3>8. CASE Catch  BY <3>8, CatchKeeps
    <3>9. CASE EmitError  BY <3>9, EmitErrorKeeps
    <3>10. CASE CancelExtract  BY <3>10, CancelExtractKeeps
    <3>11. CASE SilentFailure  BY <3>11, SilentFailureKeeps
    <3>12. CASE Mount  BY <3>12, MountKeeps
    <3>13. CASE DrainWrites  BY <3>13, DrainWritesKeeps
    <3>14. CASE Finish  BY <3>14, FinishKeeps
    <3>15. CASE WriteSucceeds  BY <3>15, WriteSucceedsKeeps
    <3>16. CASE FilesExtracted  BY <3>16, FilesExtractedKeeps
    <3>17. CASE ReadArchive  BY <3>17, ReadArchiveKeeps
    <3>18. CASE RawLoop  BY <3>18, RawLoopKeeps
    <3>19. CASE ReadRaw  BY <3>19, ReadRawKeeps
    <3>. QED  BY <2>3, <3>1, <3>2, <3>3, <3>4, <3>5, <3>6, <3>7, <3>8, <3>9, <3>10,
                 <3>11, <3>12, <3>13, <3>14, <3>15, <3>16, <3>17, <3>18, <3>19
             DEF ExtractThread
  <2>4. CASE CancelDownload  BY <2>4, CancelDownloadKeeps
  <2>5. CASE UserCancelsRing  BY <2>5, UserCancelsRingKeeps
  <2>. QED  BY <1>1, <2>1, <2>2, <2>3, <2>4, <2>5 DEF Next, Step
<1>2. CASE UNCHANGED vars
  <2>. archive' = archive  BY <1>2 DEF vars, threads, ringVars
  <2>1. TypeOK' /\ RingKept' /\ CancelKept' /\ PlacesKept'
    BY <1>2, SameArchive, Quiet
    DEF IInv, TypeOK, RingKept, CancelKept, PlacesKept, vars, threads, ringVars
  <2>2. ProgressKept' /\ VerdictsKept'
    BY <1>2, SameArchive, Quiet DEF IInv, ProgressKept, VerdictsKept, vars, threads, ringVars
  <2>3. SuccessMeansWholeImage' /\ VerdictsAgree'
    BY <1>2, SameArchive, Quiet DEF IInv, SuccessMeansWholeImage, VerdictsAgree,
        vars, threads, ringVars
  <2>. QED  BY <2>1, <2>2, <2>3 DEF IInv
<1>. QED  BY <1>1, <1>2

-------------------------------------------------------------------------------
(***************************************************************************)
(* Every reachable state satisfies the strengthened invariant: what one    *)
(* thread's place says of the other holds in every order they run in.      *)
(***************************************************************************)
THEOREM Invariance == Spec => []IInv
BY InitIInv, NextIInv, PTL DEF Spec

(***************************************************************************)
(* The variables keep their types and the input ring its size, for every   *)
(* archive and every number of slots.                                      *)
(***************************************************************************)
THEOREM TypeCorrect == Spec => []TypeOK
<1>. IInv => TypeOK  BY DEF IInv
<1>. QED  BY Invariance, PTL

(***************************************************************************)
(* success() is emitted only when the whole archive has been written: for  *)
(* an image whatever fails or is cancelled, for several files when nobody  *)
(* has cancelled and no error went unheard.                                *)
(***************************************************************************)
THEOREM SuccessIsWhole == Spec => []SuccessMeansWholeImage
<1>. IInv => SuccessMeansWholeImage  BY DEF IInv
<1>. QED  BY Invariance, PTL

(***************************************************************************)
(* The two threads never contradict each other: after the join no success  *)
(* follows an error, and no error a success (#1603).                       *)
(***************************************************************************)
THEOREM VerdictsAgreeHolds == Spec => []VerdictsAgree
<1>. IInv => VerdictsAgree  BY DEF IInv
<1>. QED  BY Invariance, PTL
===============================================================================
