------------------------------- MODULE DriveProofs ------------------------------
(***************************************************************************)
(* What is proved about the blocks and the files on the drive, for every   *)
(* value of the constants.                                                 *)
(*                                                                         *)
(* DeviceWrapper.tla: what it promises of the partition table and of       *)
(* success() for every size of the drive, every set of errors and every    *)
(* moment the drive is pulled.                                             *)
(*                                                                         *)
(* FatPartition.tla: the chains, the count of free clusters and the files  *)
(* for every sound file system to begin with, of any size, and every       *)
(* sequence of operations.                                                 *)
(***************************************************************************)
EXTENDS DeviceWrapper, FatPartition, FiniteSetTheorems, SequenceTheorems, TLAPS


(***************************************************************************)
(* Nobody is ahead of what is wanted, and the medium not of the drive nor  *)
(* the drive of the cache.                                                 *)
(***************************************************************************)
VersionsGrow ==
  \A b \in Blocks :
    /\ 1 <= wanted[b]
    /\ medium[b] <= device[b] /\ device[b] <= wanted[b]
    /\ cache[b] <= wanted[b]
    /\ cache[b] # 0 => device[b] <= cache[b]

(***************************************************************************)
(* Only a customised image gets beyond version 1, and only in its steps.   *)
(***************************************************************************)
StepsKept ==
  /\ step = "image" \/ ~Customised =>
       /\ call = 1 /\ dirty = {}
       /\ \A b \in Blocks : cache[b] = 0 /\ wanted[b] = 1
  /\ ~Customised => step \notin {"files", "sync", "tableFlush"}
  /\ Customised => step \notin {"chunk", "chunkFlush", "readBack"}
  /\ step \in {"files", "sync", "table", "tableFlush"} /\ call # 3 => verdict = "none"
  /\ call = 3 => SecureBoot \/ verdict = "error"
  /\ step \in {"image", "files", "chunk", "chunkFlush", "readBack", "final", "check"}
       => verdict = "none"
  /\ step \in {"table", "tableFlush"} /\ ~Customised => verdict = "none"
  /\ step = "files" /\ call # 1 => 0 \notin dirty
  /\ step = "tableFlush" => dirty = {}
  /\ step \in {"final", "check"} /\ ~SecureBoot => dirty = {}
  /\ step = "image" /\ ~ExpectedHash /\ block # 0 => firstBlock
  /\ step = "image" => block = 0 \/ block > FirstChunk
  /\ step = "image" /\ block = 0 => ~firstBlock
  /\ ExpectedHash => ~firstBlock
  /\ step = "table" /\ Customised => dirty = {0}
  /\ Customised /\ step # "image" /\ verdict # "error" => ~firstBlock
  /\ step \in {"final", "check"} => ~firstBlock
  /\ step \in {"chunk", "chunkFlush", "readBack"} => firstBlock

(***************************************************************************)
(* The image is on the drive when the customisation begins.                *)
(***************************************************************************)
ImageKept ==
  ~Dropping =>
    /\ step = "image" =>
         \A b \in Blocks : b < block /\ ~(firstBlock /\ b \in Chunk) => device[b] = 1
    /\ ~Customised /\ step \notin {"image", "done"} =>
         \A b \in Blocks : ~(firstBlock /\ b \in Chunk) => device[b] = 1
    /\ step \in {"chunkFlush", "readBack"} => \A b \in Chunk : device[b] = 1

(***************************************************************************)
(* Until the table is written, the cache and the drive together are what   *)
(* is wanted; so they are to the end if no secure boot file was lost.      *)
(***************************************************************************)
CacheKept ==
  Customised /\ ~Dropping /\ step # "image" =>
    /\ \A b \in Blocks \ dirty : cache[b] # 0 => cache[b] = device[b]
    /\ 0 \in dirty \/ (~SecureBoot /\ verdict # "error") =>
         \A b \in Blocks : Cached(b) = wanted[b]

(***************************************************************************)
(* What is flushed before the table.                                       *)
(***************************************************************************)
TableReady ==
  ~Dropping /\ ~ExpectedHash =>
    /\ step = "table" /\ Customised => \A b \in Blocks \ {0} : medium[b] = wanted[b]
    /\ step = "chunk" => \A b \in Blocks \ Chunk : medium[b] = wanted[b]
    /\ device[0] # 0 => promised[0] # 0
    /\ \A b \in (IF Customised THEN Blocks \ {0} ELSE Blocks \ Chunk) :
         medium[b] >= promised[b]

(***************************************************************************)
(* What the last flush left, and what was read.                            *)
(***************************************************************************)
VerdictKept ==
  /\ ~Customised /\ Verify /\ step \notin {"image", "done"} => ImageVerifies
  /\ step = "check" \/ verdict \in {"success", "unchecked"} => medium = device
  /\ verdict \in {"success", "unchecked"} => step = "done"
  /\ SuccessMeansDurable

IInv == /\ TypeOK
        /\ VersionsGrow
        /\ StepsKept
        /\ ImageKept
        /\ CacheKept
        /\ TableReady
        /\ VerdictKept

-------------------------------------------------------------------------------
(***************************************************************************)
(* What a write does to a drive that drops nothing, and to one that may.   *)
(***************************************************************************)
Written(blocks, version) ==
  /\ medium' = medium /\ device' \in Versions
  /\ \A b \in Blocks :
       /\ device'[b] = device[b] \/ (b \in blocks /\ device'[b] = version[b])
       /\ ~Dropping /\ b \in blocks => device'[b] = version[b]

LEMMA Wrote ==
  ASSUME TypeOK, NEW blocks, NEW version \in Versions, WriteTo(blocks, version)
  PROVE  Written(blocks, version)
<1>1. PICK dropped \in IF Dropping THEN SUBSET blocks ELSE {{}} :
        device' = [b \in Blocks |-> IF b \in blocks \ dropped THEN version[b] ELSE device[b]]
  BY DEF WriteTo
<1>2. ~Dropping => dropped = {}  BY <1>1
<1>. QED  BY <1>1, <1>2 DEF Written, WriteTo, Versions, TypeOK

-------------------------------------------------------------------------------
\* Each step keeps the invariant: the image (_writeFile(), _writeComplete()) ...
LEMMA FirstWriteKeeps ==
  ASSUME IInv, FirstWrite
  PROVE  IInv'
<1>w. WriteTo(Chunk, wanted) => Written(Chunk, wanted)
  BY Wrote DEF IInv, TypeOK
<1>1. TypeOK'
  <2>1. block' \in 0..(LastBlock + 1)
    BY BlocksAssumption DEF IInv, TypeOK, FirstWrite, Blocks, Goto, Fail
  <2>2. device' \in Versions /\ medium' \in Versions /\ promised' \in Versions
    BY <1>w DEF IInv, TypeOK, FirstWrite, Written, WriteFails, drive
  <2>. QED
    BY <2>1, <2>2 DEF IInv, TypeOK, FirstWrite, Goto, Fail, wrapper
<1>2. VersionsGrow'
  BY <1>w DEF IInv, TypeOK, VersionsGrow, StepsKept, FirstWrite, Written,
     WriteFails, wrapper, drive, Versions
<1>3. StepsKept'
  <2>1. step' = "image" => block' > FirstChunk /\ block' # 0
    BY BlocksAssumption DEF IInv, TypeOK, StepsKept, FirstWrite, Blocks, Goto,
       Fail
  <2>. QED
    BY <2>1 DEF IInv, TypeOK, StepsKept, FirstWrite, Written, Chunk, Goto,
       Fail, WriteFails, Customised, SecureBoot, ExpectedHash, Verify,
       Dropping, progress, wrapper, drive
<1>4. ImageKept'
  <2>1. ASSUME ~Dropping, NEW b \in Blocks, step' = "image", b < block',
               ~(firstBlock' /\ b \in Chunk)
        PROVE  device'[b] = 1
    BY <1>w, <2>1, BlocksAssumption DEF IInv, TypeOK, StepsKept, ImageKept,
       FirstWrite, Written, Chunk, Goto, Fail, WriteFails, Customised,
       SecureBoot, ExpectedHash, Verify, Dropping, progress, wrapper, drive,
       Blocks
  <2>. QED
    BY <2>1 DEF IInv, TypeOK, StepsKept, ImageKept, FirstWrite, Written, Chunk,
       Goto, Fail, WriteFails, Customised, SecureBoot, ExpectedHash, Verify,
       Dropping, progress, wrapper, drive
<1>5. CacheKept'
  BY <1>w DEF IInv, StepsKept, CacheKept, FirstWrite, Written, Goto, Fail,
     WriteFails, wrapper
<1>6. TableReady'
  BY <1>w DEF IInv, TableReady, FirstWrite, Written, Goto, WriteFails,
     Customised, ExpectedHash, Dropping, drive
<1>7. VerdictKept'
  BY <1>w DEF IInv, VerdictKept, FirstWrite, Written, Goto, Fail, WriteFails,
     SuccessMeansDurable
<1>. QED  BY <1>1, <1>2, <1>3, <1>4, <1>5, <1>6, <1>7 DEF IInv

LEMMA WriteImageKeeps ==
  ASSUME IInv, WriteImage
  PROVE  IInv'
<1>w. WriteTo({block}, wanted) => Written({block}, wanted)
  BY Wrote DEF IInv, TypeOK
<1>1. TypeOK'
  <2>1. block' \in 0..(LastBlock + 1)
    BY BlocksAssumption DEF IInv, TypeOK, WriteImage, Blocks, Goto, Fail
  <2>2. device' \in Versions /\ medium' \in Versions /\ promised' \in Versions
    BY <1>w DEF IInv, TypeOK, WriteImage, Written, WriteFails, drive
  <2>. QED
    BY <2>1, <2>2 DEF IInv, TypeOK, WriteImage, Goto, Fail, wrapper
<1>2. VersionsGrow'
  BY <1>w DEF IInv, TypeOK, VersionsGrow, StepsKept, WriteImage, Written,
     WriteFails, wrapper, drive, Versions
<1>3. StepsKept'
  <2>1. step' = "image" => block' > FirstChunk /\ block' # 0
    BY BlocksAssumption DEF IInv, TypeOK, StepsKept, WriteImage, Blocks, Goto,
       Fail
  <2>. QED
    BY <2>1 DEF IInv, TypeOK, StepsKept, WriteImage, Written, Goto, Fail,
       WriteFails, Customised, SecureBoot, ExpectedHash, Verify, Dropping,
       progress, wrapper, drive
<1>4. ImageKept'
  <2>1. ASSUME ~Dropping, NEW b \in Blocks, step' = "image", b < block',
               ~(firstBlock' /\ b \in Chunk)
        PROVE  device'[b] = 1
    BY <1>w, <2>1, BlocksAssumption DEF IInv, TypeOK, StepsKept, ImageKept,
       WriteImage, Written, Goto, Fail, WriteFails, Customised, SecureBoot,
       ExpectedHash, Verify, Dropping, Chunk, progress, wrapper, drive, Blocks
  <2>. QED
    BY <2>1 DEF IInv, TypeOK, StepsKept, ImageKept, WriteImage, Written, Goto,
       Fail, WriteFails, Customised, SecureBoot, ExpectedHash, Verify,
       Dropping, Chunk, progress, wrapper, drive
<1>5. CacheKept'
  BY <1>w DEF IInv, StepsKept, CacheKept, WriteImage, Written, Goto, Fail,
     WriteFails, wrapper
<1>6. TableReady'
  <2>1. FirstChunk \in Nat /\ 0 \in Blocks /\ 0 \in Chunk
    BY BlocksAssumption DEF Blocks, Chunk
  <2>. QED
    BY <1>w, <2>1 DEF IInv, TypeOK, VersionsGrow, StepsKept, ImageKept,
       CacheKept, TableReady, WriteImage, Written, Goto, Fail, WriteFails,
       Customised, SecureBoot, ExpectedHash, Verify, Dropping, Chunk, progress,
       wrapper, drive, Versions
<1>7. VerdictKept'
  BY <1>w DEF IInv, VerdictKept, WriteImage, Written, Goto, Fail, WriteFails,
     SuccessMeansDurable
<1>. QED  BY <1>1, <1>2, <1>3, <1>4, <1>5, <1>6, <1>7 DEF IInv

LEMMA SyncImageKeeps ==
  ASSUME IInv, SyncImage
  PROVE  IInv'
<1>1. TypeOK'
  <2>1. cache' \in Versions
    BY BlocksAssumption DEF IInv, TypeOK, SyncImage, Versions, wrapper
  <2>2. Chunk \subseteq Blocks
    BY BlocksAssumption DEF Chunk, Blocks
  <2>3. dirty' \subseteq {b \in Blocks : cache'[b] # 0} /\ (dirty' # {} => anyDirty')
    BY <2>2 DEF IInv, TypeOK, SyncImage, wrapper
  <2>. QED
    BY <2>1, <2>3 DEF IInv, TypeOK, SyncImage, Flush, FlushFails, Goto, Fail,
       wrapper, drive
<1>2. VersionsGrow'
  BY DEF IInv, TypeOK, VersionsGrow, StepsKept, SyncImage, Flush, FlushFails,
     wrapper, drive, Versions
<1>3. StepsKept'
  BY DEF IInv, StepsKept, SyncImage, Flush, FlushFails, Goto, Fail,
     Customised, ExpectedHash, wrapper
<1>4. ImageKept'
  <2>1. Chunk \subseteq Blocks /\ 0 \in Chunk /\ 0 \in Blocks
    BY BlocksAssumption DEF Chunk, Blocks
  <2>2. block > LastBlock => \A b \in Blocks : b < block
    BY BlocksAssumption DEF IInv, TypeOK, Blocks
  <2>. QED
    BY <2>1, <2>2 DEF IInv, TypeOK, StepsKept, ImageKept, SyncImage, Flush,
       FlushFails, ImageVerifies, Goto, Fail, Chunk, Customised, SecureBoot,
       ExpectedHash, Verify, Dropping, progress, wrapper, drive
<1>5. CacheKept'
  <2>1. /\ Chunk \subseteq Blocks /\ 0 \in Chunk /\ 0 \in Blocks
        /\ LastBlock \in Nat /\ FirstChunk \in Nat
    BY BlocksAssumption DEF Chunk, Blocks
  <2>2. block > LastBlock => \A b \in Blocks : b < block
    BY BlocksAssumption DEF IInv, TypeOK, Blocks
  <2>. QED
    BY <2>1, <2>2 DEF IInv, TypeOK, StepsKept, ImageKept, CacheKept,
       VersionsGrow, SyncImage, Flush, FlushFails, ImageVerifies, Goto, Fail,
       Chunk, Customised, SecureBoot, ExpectedHash, Verify, Dropping, Cached,
       progress, wrapper, drive
<1>6. TableReady'
  BY DEF IInv, TypeOK, VersionsGrow, TableReady, SyncImage, Flush,
     FlushFails, Goto, Fail, Customised, ExpectedHash, Dropping, drive,
     Versions
<1>7. VerdictKept'
  BY DEF IInv, VerdictKept, SyncImage, Flush, FlushFails, ImageVerifies,
     Goto, Fail, Customised, Verify, SuccessMeansDurable
<1>. QED  BY <1>1, <1>2, <1>3, <1>4, <1>5, <1>6, <1>7 DEF IInv

\* ... the customisation's reads and writes through the cache ...
LEMMA ReadBlockKeeps ==
  ASSUME IInv, ReadBlock
  PROVE  IInv'
<1>1. TypeOK'
  BY DEF IInv, TypeOK, ReadBlock, Throw, progress, drive, Versions
<1>2. VersionsGrow'
  BY DEF IInv, TypeOK, VersionsGrow, ReadBlock, drive, Versions
<1>3. StepsKept'
  BY DEF IInv, StepsKept, ReadBlock, Throw, Customised, SecureBoot, progress
<1>4. ImageKept'
  BY DEF IInv, StepsKept, ImageKept, ReadBlock, Throw, Customised, progress
<1>5. CacheKept'
  BY DEF IInv, TypeOK, StepsKept, CacheKept, ReadBlock, SecureBoot, Dropping,
     Cached, drive, Versions
<1>6. TableReady'
  BY DEF IInv, TableReady, ReadBlock, Throw, Customised, ExpectedHash,
     Dropping, progress, drive
<1>7. VerdictKept'
  BY DEF IInv, StepsKept, VerdictKept, ReadBlock, Throw, Customised,
     SuccessMeansDurable, progress
<1>. QED  BY <1>1, <1>2, <1>3, <1>4, <1>5, <1>6, <1>7 DEF IInv

LEMMA WriteBlockKeeps ==
  ASSUME IInv, WriteBlock
  PROVE  IInv'
<1>1. TypeOK'
  <2>1. PICK b \in Blocks \ {0} :
          /\ wanted[b] < MaxVersion
          /\ wanted' = [wanted EXCEPT ![b] = @ + 1]
          /\ cache' = [cache EXCEPT ![b] = Cached(b) + 1]
          /\ dirty' = dirty \cup {b}
    BY DEF WriteBlock
  <2>2. wanted[b] \in 0..MaxVersion /\ Cached(b) \in 0..MaxVersion /\ Cached(b) <= wanted[b]
    BY DEF IInv, TypeOK, VersionsGrow, Versions, Cached
  <2>3. wanted' \in Versions /\ cache' \in Versions /\ cache'[b] # 0
    BY <2>1, <2>2, BlocksAssumption DEF IInv, TypeOK, Versions
  <2>4. dirty' \subseteq {c \in Blocks : cache'[c] # 0}
    BY <2>1, <2>3 DEF IInv, TypeOK, Versions
  <2>. QED
    BY <2>3, <2>4 DEF IInv, TypeOK, WriteBlock, Marked, progress, drive
<1>2. VersionsGrow'
  BY DEF IInv, TypeOK, VersionsGrow, WriteBlock, Marked, Cached, drive,
     Versions
<1>3. StepsKept'
  BY DEF IInv, StepsKept, WriteBlock, Customised, SecureBoot, progress
<1>4. ImageKept'
  BY DEF IInv, StepsKept, ImageKept, WriteBlock, Customised, progress
<1>5. CacheKept'
  BY DEF IInv, TypeOK, StepsKept, CacheKept, WriteBlock, Marked, Cached,
     SecureBoot, Dropping, drive, Versions
<1>6. TableReady'
  BY DEF IInv, TableReady, WriteBlock, Customised, ExpectedHash, Dropping,
     progress, drive
<1>7. VerdictKept'
  BY DEF IInv, StepsKept, VerdictKept, WriteBlock, Customised,
     SuccessMeansDurable, progress
<1>. QED  BY <1>1, <1>2, <1>3, <1>4, <1>5, <1>6, <1>7 DEF IInv

LEMMA WriteBackFailsKeeps ==
  ASSUME IInv, WriteBackFails
  PROVE  IInv'
<1>1. TypeOK'
  <2>1. wanted' \in Versions
    BY BlocksAssumption DEF IInv, TypeOK, WriteBackFails, Versions
  <2>. QED
    BY <2>1 DEF IInv, TypeOK, WriteBackFails, progress, wrapper, drive
<1>2. VersionsGrow'
  BY DEF IInv, TypeOK, VersionsGrow, WriteBackFails, wrapper, drive, Versions
<1>3. StepsKept'
  BY DEF IInv, StepsKept, WriteBackFails, Customised, SecureBoot, progress,
     wrapper
<1>4. ImageKept'
  BY DEF IInv, StepsKept, ImageKept, WriteBackFails, Customised, progress
<1>5. CacheKept'
  BY DEF IInv, StepsKept, CacheKept, WriteBackFails, SecureBoot, Dropping,
     wrapper, drive
<1>6. TableReady'
  BY DEF IInv, TableReady, WriteBackFails, Customised, ExpectedHash,
     Dropping, progress, drive
<1>7. VerdictKept'
  BY DEF IInv, StepsKept, VerdictKept, WriteBackFails, Customised,
     SuccessMeansDurable, progress
<1>. QED  BY <1>1, <1>2, <1>3, <1>4, <1>5, <1>6, <1>7 DEF IInv

\* ... DeviceWrapper::sync(), which leaves the block with the table to the end ...
LEMMA CallSyncKeeps ==
  ASSUME IInv, CallSync
  PROVE  IInv'
<1>1. TypeOK'
  BY DEF IInv, TypeOK, CallSync, Goto, wrapper, drive
<1>2. VersionsGrow'
  BY DEF IInv, VersionsGrow, CallSync, wrapper, drive
<1>3. StepsKept'
  BY DEF IInv, StepsKept, CallSync, Goto, Customised, SecureBoot
<1>4. ImageKept'
  BY DEF IInv, StepsKept, ImageKept, CallSync, Goto, Customised
<1>5. CacheKept'
  BY DEF IInv, StepsKept, CacheKept, CallSync, SecureBoot, Dropping, Cached,
     wrapper, drive
<1>6. TableReady'
  BY DEF IInv, TableReady, CallSync, Goto, Customised, ExpectedHash,
     Dropping, drive
<1>7. VerdictKept'
  BY DEF IInv, StepsKept, VerdictKept, CallSync, Goto, Customised,
     SuccessMeansDurable
<1>. QED  BY <1>1, <1>2, <1>3, <1>4, <1>5, <1>6, <1>7 DEF IInv

LEMMA SyncBlockKeeps ==
  ASSUME IInv, SyncBlock
  PROVE  IInv'
<1>w. \A b \in Blocks : WriteTo({b}, cache) => Written({b}, cache)
  BY Wrote DEF IInv, TypeOK
<1>1. TypeOK'
  BY <1>w DEF IInv, TypeOK, SyncBlock, WriteOut, Written, WriteFails,
     SyncFails, Throw, Goto, progress, drive
<1>2. VersionsGrow'
  BY <1>w DEF IInv, TypeOK, VersionsGrow, SyncBlock, WriteOut, Written,
     WriteFails, SyncFails, Throw, drive, Versions
<1>3. StepsKept'
  BY <1>w DEF IInv, TypeOK, StepsKept, VerdictKept, SyncBlock, WriteOut,
     Written, WriteFails, SyncFails, Throw, Goto, Customised, SecureBoot,
     ExpectedHash, progress
<1>4. ImageKept'
  BY <1>w DEF IInv, StepsKept, ImageKept, SyncBlock, WriteOut, Written,
     WriteFails, SyncFails, Throw, Goto, Customised, progress
<1>5. CacheKept'
  BY <1>w DEF IInv, TypeOK, StepsKept, CacheKept, SyncBlock, WriteOut,
     Written, WriteFails, SyncFails, Throw, Goto, SecureBoot, Dropping,
     Cached, drive
<1>6. TableReady'
  <2>1. 0 \in Blocks /\ 0 \in Chunk /\ Chunk \subseteq Blocks
    BY BlocksAssumption DEF Blocks, Chunk
  <2>. QED
    BY <1>w, <2>1 DEF IInv, TypeOK, VersionsGrow, StepsKept, ImageKept,
       CacheKept, TableReady, SyncBlock, WriteOut, Written, WriteFails,
       SyncFails, Throw, Goto, Customised, SecureBoot, ExpectedHash, Verify,
       Dropping, Chunk, progress, wrapper, drive, Versions
<1>7. VerdictKept'
  BY <1>w DEF IInv, StepsKept, VerdictKept, SyncBlock, WriteOut, Written,
     WriteFails, SyncFails, Throw, Goto, Customised, SuccessMeansDurable,
     progress
<1>. QED  BY <1>1, <1>2, <1>3, <1>4, <1>5, <1>6, <1>7 DEF IInv

LEMMA SyncFlushKeeps ==
  ASSUME IInv, SyncFlush
  PROVE  IInv'
<1>1. TypeOK'
  BY DEF IInv, TypeOK, SyncFlush, FlushBeforeTable, Flush, FlushFails,
     SyncFails, Throw, Goto, wrapper, drive
<1>2. VersionsGrow'
  BY DEF IInv, TypeOK, VersionsGrow, SyncFlush, FlushBeforeTable, Flush,
     FlushFails, SyncFails, Throw, wrapper, drive, Versions
<1>3. StepsKept'
  BY DEF IInv, TypeOK, StepsKept, VerdictKept, SyncFlush, FlushBeforeTable,
     Flush, FlushFails, SyncFails, Throw, Goto, Customised, SecureBoot,
     ExpectedHash, wrapper
<1>4. ImageKept'
  BY DEF IInv, StepsKept, ImageKept, SyncFlush, FlushBeforeTable, Flush,
     FlushFails, SyncFails, Throw, Goto, Customised
<1>5. CacheKept'
  BY DEF IInv, StepsKept, CacheKept, SyncFlush, FlushBeforeTable, Flush,
     FlushFails, SyncFails, Throw, Dropping, Cached, wrapper, drive
<1>6. TableReady'
  <2>1. /\ cache' = cache /\ wanted' = wanted /\ device' = device /\ promised' = promised
        /\ kind' = kind /\ medium' \in {device, medium}
    BY DEF SyncFlush, FlushBeforeTable, Flush, FlushFails, drive, wrapper
  <2>2. \A b \in Blocks : medium[b] >= promised[b] => medium'[b] >= promised'[b]
    BY <2>1 DEF IInv, TypeOK, VersionsGrow, Versions
  <2>3. 0 \in Blocks /\ 0 \in Chunk
    BY BlocksAssumption DEF Blocks, Chunk
  <2>4. ~Dropping /\ step' = "table" /\ Customised =>
          \A b \in Blocks \ {0} : medium'[b] = wanted'[b]
    BY <2>1 DEF IInv, TypeOK, StepsKept, CacheKept, SyncFlush,
       FlushBeforeTable, Flush, FlushFails, SyncFails, Throw, Goto, Fail,
       Cached, Customised, Dropping
  <2>5. step' # "chunk"
    BY DEF IInv, TypeOK, StepsKept, SyncFlush, FlushBeforeTable, FlushFails,
       SyncFails, Throw, Goto, Fail
  <2>. QED
    BY <2>1, <2>2, <2>3, <2>4, <2>5 DEF IInv, TableReady, Customised,
       ExpectedHash, Dropping
<1>7. VerdictKept'
  BY DEF IInv, StepsKept, VerdictKept, SyncFlush, FlushBeforeTable, Flush,
     FlushFails, SyncFails, Throw, Goto, Customised, SuccessMeansDurable
<1>. QED  BY <1>1, <1>2, <1>3, <1>4, <1>5, <1>6, <1>7 DEF IInv

LEMMA SyncTableKeeps ==
  ASSUME IInv, SyncTable
  PROVE  IInv'
<1>w. WriteTo({0}, cache) => Written({0}, cache)
  BY Wrote DEF IInv, TypeOK
<1>1. TypeOK'
  BY <1>w DEF IInv, TypeOK, SyncTable, Written, WriteFails, SyncFails, Throw,
     Goto, drive
<1>2. VersionsGrow'
  BY <1>w DEF IInv, TypeOK, VersionsGrow, StepsKept, SyncTable, Written,
     WriteFails, SyncFails, Throw, drive, Versions
<1>3. StepsKept'
  BY <1>w DEF IInv, TypeOK, StepsKept, VerdictKept, SyncTable, Written,
     WriteFails, SyncFails, Throw, Goto, Customised, SecureBoot, ExpectedHash
<1>4. ImageKept'
  BY <1>w DEF IInv, ImageKept, SyncTable, Written, WriteFails, SyncFails,
     Throw, Goto, Customised
<1>5. CacheKept'
  BY <1>w DEF IInv, TypeOK, StepsKept, CacheKept, SyncTable, Written,
     WriteFails, SyncFails, Throw, Dropping, Cached, drive
<1>6. TableReady'
  BY <1>w DEF IInv, TypeOK, VersionsGrow, TableReady, SyncTable, Written,
     WriteFails, SyncFails, Throw, Goto, Customised, ExpectedHash, Dropping,
     drive, Versions
<1>7. VerdictKept'
  BY <1>w DEF IInv, VerdictKept, SyncTable, Written, WriteFails, SyncFails,
     Throw, Goto, Customised, SuccessMeansDurable
<1>. QED  BY <1>1, <1>2, <1>3, <1>4, <1>5, <1>6, <1>7 DEF IInv

LEMMA SyncTableFlushKeeps ==
  ASSUME IInv, SyncTableFlush
  PROVE  IInv'
<1>1. TypeOK'
  BY DEF IInv, TypeOK, SyncTableFlush, Flush, FlushFails, Goto, wrapper,
     drive
<1>2. VersionsGrow'
  BY DEF IInv, TypeOK, VersionsGrow, SyncTableFlush, Flush, FlushFails,
     wrapper, drive, Versions
<1>3. StepsKept'
  BY DEF IInv, StepsKept, SyncTableFlush, Flush, FlushFails, Goto,
     Customised, SecureBoot, ExpectedHash
<1>4. ImageKept'
  BY DEF IInv, StepsKept, ImageKept, SyncTableFlush, Flush, FlushFails, Goto,
     Customised
<1>5. CacheKept'
  BY DEF IInv, StepsKept, CacheKept, SyncTableFlush, Flush, FlushFails, Goto,
     SecureBoot, Dropping, Cached, wrapper, drive
<1>6. TableReady'
  BY DEF IInv, TypeOK, VersionsGrow, TableReady, SyncTableFlush, Flush,
     FlushFails, Goto, Customised, ExpectedHash, Dropping, drive, Versions
<1>7. VerdictKept'
  BY DEF IInv, StepsKept, VerdictKept, SyncTableFlush, Flush, FlushFails,
     Goto, Customised, SuccessMeansDurable
<1>. QED  BY <1>1, <1>2, <1>3, <1>4, <1>5, <1>6, <1>7 DEF IInv

LEMMA SyncReturnsKeeps ==
  ASSUME IInv, SyncReturns
  PROVE  IInv'
<1>1. TypeOK'
  <2>1. dirty = {}
    BY DEF IInv, TypeOK, SyncReturns
  <2>2. call' \in 1..3
    BY DEF IInv, TypeOK, SyncReturns
  <2>. QED
    BY <2>1, <2>2 DEF IInv, TypeOK, SyncReturns, drive
<1>2. VersionsGrow'
  BY DEF IInv, VersionsGrow, SyncReturns, drive
<1>3. StepsKept'
  BY DEF IInv, TypeOK, StepsKept, VerdictKept, SyncReturns, Customised,
     SecureBoot, ExpectedHash
<1>4. ImageKept'
  BY DEF IInv, StepsKept, ImageKept, SyncReturns, Customised
<1>5. CacheKept'
  BY DEF IInv, StepsKept, CacheKept, SyncReturns, SecureBoot, Dropping,
     Cached, drive
<1>6. TableReady'
  BY DEF IInv, TableReady, SyncReturns, Customised, ExpectedHash, Dropping,
     drive
<1>7. VerdictKept'
  BY DEF IInv, StepsKept, VerdictKept, SyncReturns, Customised,
     SuccessMeansDurable
<1>. QED  BY <1>1, <1>2, <1>3, <1>4, <1>5, <1>6, <1>7 DEF IInv

\* ... the first chunk, when there is nothing to customise ...
LEMMA WriteFirstBlockKeeps ==
  ASSUME IInv, WriteFirstBlock
  PROVE  IInv'
<1>1. TypeOK'
  BY DEF IInv, TypeOK, WriteFirstBlock, Flush, FlushFails, Goto, Fail,
     wrapper, drive
<1>2. VersionsGrow'
  BY DEF IInv, TypeOK, VersionsGrow, WriteFirstBlock, Flush, FlushFails,
     wrapper, drive, Versions
<1>3. StepsKept'
  BY DEF IInv, StepsKept, WriteFirstBlock, Flush, FlushFails, Goto, Fail,
     Customised, ExpectedHash, wrapper
<1>4. ImageKept'
  BY DEF IInv, ImageKept, WriteFirstBlock, Flush, FlushFails, Goto, Fail,
     Dropping, drive
<1>5. CacheKept'
  BY DEF IInv, CacheKept, WriteFirstBlock, Customised
<1>6. TableReady'
  BY DEF IInv, TypeOK, VersionsGrow, StepsKept, ImageKept, TableReady,
     WriteFirstBlock, Flush, FlushFails, Goto, Fail, Customised,
     ExpectedHash, Dropping, drive, Versions
<1>7. VerdictKept'
  BY DEF IInv, VerdictKept, WriteFirstBlock, Flush, FlushFails, Goto, Fail,
     Verify, ImageVerifies, SuccessMeansDurable, drive
<1>. QED  BY <1>1, <1>2, <1>3, <1>4, <1>5, <1>6, <1>7 DEF IInv

LEMMA WriteChunkKeeps ==
  ASSUME IInv, WriteChunk
  PROVE  IInv'
<1>w. WriteTo(Chunk, wanted) => Written(Chunk, wanted)
  BY Wrote DEF IInv, TypeOK
<1>1. TypeOK'
  BY <1>w DEF IInv, TypeOK, WriteChunk, Written, WriteFails, Goto, Fail,
     wrapper, drive
<1>2. VersionsGrow'
  <2>1. /\ cache' = cache /\ wanted' = wanted /\ medium' = medium
        /\ \A b \in Blocks : device'[b] \in {device[b], wanted[b]}
    BY <1>w DEF WriteChunk, Written, WriteFails, drive, wrapper
  <2>2. \A b \in Blocks : cache[b] = 0
    BY DEF IInv, StepsKept, WriteChunk
  <2>. QED
    BY <2>1, <2>2 DEF IInv, TypeOK, VersionsGrow, Versions
<1>3. StepsKept'
  BY <1>w DEF IInv, StepsKept, WriteChunk, Written, WriteFails, Goto, Fail,
     Customised, SecureBoot, ExpectedHash, wrapper
<1>4. ImageKept'
  <2>1. 0 \in Blocks /\ 0 \in Chunk /\ Chunk \subseteq Blocks
    BY BlocksAssumption DEF Blocks, Chunk
  <2>. QED
    BY <1>w, <2>1 DEF IInv, TypeOK, StepsKept, ImageKept, WriteChunk, Written,
       WriteFails, Goto, Fail, Chunk, Customised, SecureBoot, ExpectedHash,
       Verify, Dropping, progress, wrapper, drive, Versions
<1>5. CacheKept'
  BY <1>w DEF IInv, StepsKept, ImageKept, CacheKept, WriteChunk, Written,
     WriteFails, Fail, Dropping, Cached, wrapper
<1>6. TableReady'
  <2>1. 0 \in Blocks /\ 0 \in Chunk /\ Chunk \subseteq Blocks
    BY BlocksAssumption DEF Blocks, Chunk
  <2>. QED
    BY ZenonT(60), <1>w, <2>1 DEF IInv, TypeOK, VersionsGrow, StepsKept, ImageKept,
       CacheKept, TableReady, WriteChunk, Written, WriteFails, Goto, Fail,
       Chunk, Customised, SecureBoot, ExpectedHash, Verify, Dropping, progress,
       wrapper, drive, Versions
<1>7. VerdictKept'
  BY <1>w DEF IInv, StepsKept, VerdictKept, WriteChunk, Written, WriteFails,
     Goto, Fail, Verify, ImageVerifies, SuccessMeansDurable
<1>. QED  BY <1>1, <1>2, <1>3, <1>4, <1>5, <1>6, <1>7 DEF IInv

LEMMA FlushChunkKeeps ==
  ASSUME IInv, FlushChunk
  PROVE  IInv'
<1>1. TypeOK'
  BY DEF IInv, TypeOK, FlushChunk, Flush, FlushFails, Goto, Fail, wrapper,
     drive
<1>2. VersionsGrow'
  <2>1. /\ cache' = cache /\ wanted' = wanted
        /\ device' = device /\ medium' \in {device, medium}
    BY DEF FlushChunk, Flush, FlushFails, drive, wrapper
  <2>. QED
    BY <2>1 DEF IInv, TypeOK, VersionsGrow, Versions
<1>3. StepsKept'
  BY DEF IInv, StepsKept, FlushChunk, Flush, FlushFails, Goto, Fail,
     Customised, SecureBoot, ExpectedHash, wrapper
<1>4. ImageKept'
  BY DEF IInv, StepsKept, ImageKept, FlushChunk, Flush, FlushFails, Fail,
     Dropping
<1>5. CacheKept'
  BY DEF IInv, StepsKept, ImageKept, CacheKept, FlushChunk, Flush,
     FlushFails, Fail, Dropping, Cached, wrapper
<1>6. TableReady'
  <2>1. /\ cache' = cache /\ wanted' = wanted /\ device' = device /\ promised' = promised
        /\ kind' = kind /\ medium' \in {device, medium}
    BY DEF FlushChunk, FlushBeforeTable, Flush, FlushFails, drive, wrapper
  <2>2. \A b \in Blocks : medium[b] >= promised[b] => medium'[b] >= promised'[b]
    BY <2>1 DEF IInv, TypeOK, VersionsGrow, Versions
  <2>3. 0 \in Blocks /\ 0 \in Chunk
    BY BlocksAssumption DEF Blocks, Chunk
  <2>4. ~Dropping /\ step' = "table" /\ Customised =>
          \A b \in Blocks \ {0} : medium'[b] = wanted'[b]
    BY <2>1 DEF IInv, TypeOK, StepsKept, CacheKept, FlushChunk,
       FlushBeforeTable, Flush, FlushFails, SyncFails, Throw, Goto, Fail,
       Cached, Customised, Dropping
  <2>5. step' # "chunk"
    BY DEF IInv, TypeOK, StepsKept, FlushChunk, FlushBeforeTable, FlushFails,
       SyncFails, Throw, Goto, Fail
  <2>. QED
    BY <2>1, <2>2, <2>3, <2>4, <2>5 DEF IInv, TableReady, Customised,
       ExpectedHash, Dropping
<1>7. VerdictKept'
  BY DEF IInv, StepsKept, VerdictKept, FlushChunk, Flush, FlushFails, Goto,
     Fail, Verify, ImageVerifies, SuccessMeansDurable
<1>. QED  BY <1>1, <1>2, <1>3, <1>4, <1>5, <1>6, <1>7 DEF IInv

LEMMA ReadBackFirstBlockKeeps ==
  ASSUME IInv, ReadBackFirstBlock
  PROVE  IInv'
<1>1. TypeOK'
  BY DEF IInv, TypeOK, ReadBackFirstBlock, ReadFails, Goto, Fail, wrapper,
     drive
<1>2. VersionsGrow'
  BY DEF IInv, VersionsGrow, ReadBackFirstBlock, ReadFails, wrapper, drive
<1>3. StepsKept'
  BY DEF IInv, StepsKept, ReadBackFirstBlock, ReadFails, Goto, Fail,
     SecureBoot, ExpectedHash, wrapper
<1>4. ImageKept'
  BY DEF IInv, StepsKept, ImageKept, TableReady, ReadBackFirstBlock,
     ReadFails, Dropping, drive
<1>5. CacheKept'
  BY DEF IInv, StepsKept, ImageKept, CacheKept, ReadBackFirstBlock,
     ReadFails, Dropping, Cached, wrapper, drive
<1>6. TableReady'
  BY DEF IInv, StepsKept, TableReady, ReadBackFirstBlock, ReadFails, Goto,
     Fail, Customised, Dropping, drive
<1>7. VerdictKept'
  BY DEF IInv, StepsKept, VerdictKept, ReadBackFirstBlock, ReadFails, Goto,
     Fail, Verify, ImageVerifies, SuccessMeansDurable, drive
<1>. QED  BY <1>1, <1>2, <1>3, <1>4, <1>5, <1>6, <1>7 DEF IInv

\* ... the end of the session ...
LEMMA FinalSyncKeeps ==
  ASSUME IInv, FinalSync
  PROVE  IInv'
<1>1. TypeOK'
  BY DEF IInv, TypeOK, FinalSync, Flush, FlushFails, Goto, Fail, wrapper,
     drive
<1>2. VersionsGrow'
  BY DEF IInv, TypeOK, VersionsGrow, FinalSync, Flush, FlushFails, wrapper,
     drive, Versions
<1>3. StepsKept'
  BY DEF IInv, StepsKept, FinalSync, Flush, FlushFails, Goto, Fail,
     Customised, SecureBoot, wrapper
<1>4. ImageKept'
  BY DEF IInv, ImageKept, FinalSync, Flush, FlushFails, Goto, Fail,
     Customised, Dropping
<1>5. CacheKept'
  BY DEF IInv, StepsKept, ImageKept, CacheKept, FinalSync, Flush, FlushFails,
     SecureBoot, Dropping, Cached, wrapper, drive
<1>6. TableReady'
  BY DEF IInv, TypeOK, VersionsGrow, TableReady, FinalSync, Flush,
     FlushFails, Goto, Fail, Customised, ExpectedHash, Dropping, drive,
     Versions
<1>7. VerdictKept'
  BY DEF IInv, VerdictKept, FinalSync, Flush, FlushFails, Goto, Fail,
     Customised, Verify, ImageVerifies, SuccessMeansDurable
<1>. QED  BY <1>1, <1>2, <1>3, <1>4, <1>5, <1>6, <1>7 DEF IInv

LEMMA VerifyCustomisationKeeps ==
  ASSUME IInv, VerifyCustomisation
  PROVE  IInv'
<1>1. TypeOK'
  BY DEF IInv, TypeOK, VerifyCustomisation, wrapper, drive
<1>2. VersionsGrow'
  BY DEF IInv, VersionsGrow, VerifyCustomisation, wrapper, drive
<1>3. StepsKept'
  BY DEF IInv, StepsKept, VerifyCustomisation, Customised, SecureBoot,
     wrapper
<1>4. ImageKept'
  BY DEF IInv, ImageKept, VerifyCustomisation
<1>5. CacheKept'
  BY DEF IInv, StepsKept, ImageKept, CacheKept, VerifyCustomisation,
     SecureBoot, Dropping, Cached, wrapper, drive
<1>6. TableReady'
  BY DEF IInv, TableReady, VerifyCustomisation, Customised, ExpectedHash,
     Dropping, drive
<1>7. VerdictKept'
  <2>1. /\ kind' = kind /\ wanted' = wanted /\ drive' = drive
        /\ step = "check" /\ step' = "done"
    BY DEF VerifyCustomisation
  <2>2. medium = device
    BY <2>1 DEF IInv, VerdictKept
  <2>3. ~SecureBoot /\ ~Dropping => \A b \in Blocks : device[b] = wanted[b]
    BY <2>1, BlocksAssumption DEF IInv, TypeOK, StepsKept, ImageKept,
       CacheKept, Cached, Customised, SecureBoot, Dropping
  <2>4. verdict' = "success" =>
          \A b \in (IF Customised THEN ReadBack ELSE IF Verify THEN Blocks ELSE {}) :
            device[b] = wanted[b]
    BY <2>1, <2>2 DEF IInv, StepsKept, VerdictKept, ImageVerifies,
       VerifyCustomisation, Customised, Verify
  <2>5. SuccessMeansDurable'
    BY <2>1, <2>2, <2>3, <2>4 DEF SuccessMeansDurable, Durable, drive,
       ReadBack, Customised, SecureBoot, Verify, Dropping
  <2>. QED
    BY <2>1, <2>2, <2>5 DEF VerdictKept, drive
<1>. QED  BY <1>1, <1>2, <1>3, <1>4, <1>5, <1>6, <1>7 DEF IInv

\* ... and a block that reaches the medium whenever the drive likes.
LEMMA PersistKeeps ==
  ASSUME IInv, Persist
  PROVE  IInv'
<1>1. TypeOK'
  BY DEF IInv, TypeOK, Persist, progress, wrapper, Versions
<1>2. VersionsGrow'
  BY DEF IInv, TypeOK, VersionsGrow, Persist, wrapper, Versions
<1>3. StepsKept'
  BY DEF IInv, StepsKept, Persist, Customised, SecureBoot, ExpectedHash,
     progress, wrapper
<1>4. ImageKept'
  BY DEF IInv, ImageKept, Persist, Customised, Dropping, progress
<1>5. CacheKept'
  BY DEF IInv, CacheKept, Persist, Customised, SecureBoot, Dropping, Cached,
     progress, wrapper
<1>6. TableReady'
  BY DEF IInv, TypeOK, VersionsGrow, TableReady, Persist, Customised,
     ExpectedHash, Dropping, progress, Versions
<1>7. VerdictKept'
  BY DEF IInv, VerdictKept, Persist, Customised, Verify, ImageVerifies,
     SuccessMeansDurable, progress
<1>. QED  BY <1>1, <1>2, <1>3, <1>4, <1>5, <1>6, <1>7 DEF IInv

-------------------------------------------------------------------------------
LEMMA InitIInv == Init => IInv
<1> SUFFICES ASSUME Init PROVE IInv  OBVIOUS
<1>1. FirstChunk \in Nat /\ 0 \in Blocks /\ MaxVersion \in Nat \ {0}
  BY BlocksAssumption DEF Blocks
<1>2. TypeOK /\ VersionsGrow
  <2>1. /\ cache \in Versions /\ wanted \in Versions /\ device \in Versions
        /\ medium = device /\ promised = device
    BY <1>1 DEF Init, Versions
  <2>2. block \in 0..(LastBlock + 1)
    BY BlocksAssumption DEF Init
  <2>3. /\ kind \in Kinds /\ step = "image" /\ call = 1 /\ dirty = {} /\ verdict = "none"
        /\ firstBlock \in BOOLEAN /\ anyDirty \in BOOLEAN
    BY DEF Init
  <2>5. TypeOK
    BY <2>1, <2>2, <2>3 DEF TypeOK
  <2>4. VersionsGrow
    BY <2>1 DEF Init, VersionsGrow
  <2>. QED  BY <2>4, <2>5
<1>3. StepsKept
  BY <1>1 DEF Init, StepsKept
<1>4. ImageKept
  BY <1>1, BlocksAssumption DEF Init, ImageKept, Blocks
<1>5. CacheKept
  BY <1>1 DEF Init, CacheKept
<1>6. TableReady
  BY <1>1 DEF Init, TableReady
<1>7. VerdictKept
  BY <1>1 DEF Init, VerdictKept, SuccessMeansDurable
<1>. QED  BY <1>2, <1>3, <1>4, <1>5, <1>6, <1>7 DEF IInv

LEMMA StutterKeeps ==
  ASSUME IInv, UNCHANGED vars
  PROVE  IInv'
<1>1. /\ kind' = kind /\ wanted' = wanted /\ promised' = promised /\ verdict' = verdict
      /\ step' = step /\ call' = call /\ block' = block /\ firstBlock' = firstBlock
      /\ cache' = cache /\ dirty' = dirty /\ anyDirty' = anyDirty
      /\ device' = device /\ medium' = medium
  BY DEF vars, progress, wrapper, drive
<1>2. TypeOK' /\ VersionsGrow' /\ StepsKept' /\ ImageKept'
  BY <1>1 DEF IInv, TypeOK, VersionsGrow, StepsKept, ImageKept, Customised, SecureBoot,
     ExpectedHash, Dropping
<1>3. CacheKept' /\ TableReady' /\ VerdictKept'
  BY <1>1 DEF IInv, CacheKept, TableReady, VerdictKept, ImageVerifies, SuccessMeansDurable,
     Durable, ReadBack, Cached, Customised, SecureBoot, ExpectedHash, Verify, Dropping
<1>. QED  BY <1>2, <1>3 DEF IInv

LEMMA NextIInv == IInv /\ [Next]_vars => IInv'
<1> SUFFICES ASSUME IInv, [Next]_vars PROVE IInv'  OBVIOUS
<1>1. CASE FirstWrite  BY <1>1, FirstWriteKeeps
<1>2. CASE WriteImage  BY <1>2, WriteImageKeeps
<1>3. CASE SyncImage  BY <1>3, SyncImageKeeps
<1>4. CASE ReadBlock  BY <1>4, ReadBlockKeeps
<1>5. CASE WriteBlock  BY <1>5, WriteBlockKeeps
<1>6. CASE WriteBackFails  BY <1>6, WriteBackFailsKeeps
<1>7. CASE CallSync  BY <1>7, CallSyncKeeps
<1>8. CASE SyncBlock  BY <1>8, SyncBlockKeeps
<1>9. CASE SyncFlush  BY <1>9, SyncFlushKeeps
<1>10. CASE SyncTable  BY <1>10, SyncTableKeeps
<1>11. CASE SyncTableFlush  BY <1>11, SyncTableFlushKeeps
<1>12. CASE SyncReturns  BY <1>12, SyncReturnsKeeps
<1>13. CASE WriteFirstBlock  BY <1>13, WriteFirstBlockKeeps
<1>14. CASE WriteChunk  BY <1>14, WriteChunkKeeps
<1>15. CASE FlushChunk  BY <1>15, FlushChunkKeeps
<1>16. CASE ReadBackFirstBlock  BY <1>16, ReadBackFirstBlockKeeps
<1>17. CASE FinalSync  BY <1>17, FinalSyncKeeps
<1>18. CASE VerifyCustomisation  BY <1>18, VerifyCustomisationKeeps
<1>19. CASE Persist  BY <1>19, PersistKeeps
<1>20. CASE UNCHANGED vars  BY <1>20, StutterKeeps
<1>. QED
  BY <1>1, <1>2, <1>3, <1>4, <1>5, <1>6, <1>7, <1>8, <1>9, <1>10, <1>11, <1>12,
     <1>13, <1>14, <1>15, <1>16, <1>17, <1>18, <1>19, <1>20 DEF Next, ExtractThread

-------------------------------------------------------------------------------
(***************************************************************************)
(* The inductive invariant holds in every session.                         *)
(***************************************************************************)
THEOREM Invariance == Spec => []IInv
BY InitIInv, NextIInv, PTL DEF Spec

(***************************************************************************)
(* The variables keep their types: sync() is told of every dirty block     *)
(* (devicewrapper.cpp:150-180).                                            *)
(***************************************************************************)
THEOREM TypeCorrect == Spec => []TypeOK
<1>1. IInv => TypeOK  BY DEF IInv
<1>. QED  BY <1>1, Invariance, PTL

(***************************************************************************)
(* Whenever the drive is pulled, a partition table on the medium stands    *)
(* before a complete file system (devicewrapper.cpp:57-69,                 *)
(* downloadthread.cpp:1888-1894).                                          *)
(***************************************************************************)
THEOREM TableIsWrittenLast == Spec => []TableLast
<1>1. IInv => TableLast
  <2> SUFFICES ASSUME IInv, ~ExpectedHash, ~Dropping, medium[0] # 0
               PROVE  /\ promised[0] # 0
                      /\ \A b \in (IF Customised THEN Blocks \ {0} ELSE Blocks \ Chunk) :
                           medium[b] >= promised[b]
    BY DEF TableLast
  <2>1. 0 \in Blocks  BY BlocksAssumption DEF Blocks
  <2>2. device[0] # 0
    BY <2>1 DEF IInv, TypeOK, VersionsGrow, Versions
  <2>. QED  BY <2>2 DEF IInv, TableReady
<1>. QED  BY <1>1, Invariance, PTL

(***************************************************************************)
(* success() is not announced for a drive that dropped the settings        *)
(* (downloadthread.cpp:1979-1982).                                         *)
(***************************************************************************)
THEOREM SuccessIsDurable == Spec => []SuccessMeansDurable
<1>1. IInv => SuccessMeansDurable  BY DEF IInv, VerdictKept
<1>. QED  BY <1>1, Invariance, PTL

-------------------------------------------------------------------------------
(***************************************************************************)
(* FatPartition.                                                           *)
(***************************************************************************)
\* A set of numbers has a least one, and First names it.
LEMMA LeastOf ==
  ASSUME NEW S \in SUBSET Nat, S # {}
  PROVE  \E m \in S : \A k \in S : m <= k
<1>1. \E x \in S : \A y \in S : ~ (<<y, x>> \in OpToRel(<, Nat))
  BY NatLessThanWellFounded, WFMin, Zenon
<1>2. PICK x \in S : \A y \in S : ~ (<<y, x>> \in OpToRel(<, Nat))
  BY <1>1
<1>3. \A y \in S : ~ (y < x)
  BY <1>2 DEF OpToRel
<1> QED
  BY <1>3

LEMMA FirstIsLeast ==
  ASSUME NEW S \in SUBSET Nat, S # {}
  PROVE  First(S) \in S /\ \A j \in S : First(S) <= j
BY LeastOf DEF First

\* Induction over the numbers up to n.
LEMMA UpTo ==
  ASSUME NEW n \in Nat, NEW T, 0 \in T,
         \A i \in 0..n : i < n /\ i \in T => i + 1 \in T
  PROVE  \A i \in 0..n : i \in T
<1> DEFINE Not == {i \in 0..n : i \notin T}
<1> SUFFICES ASSUME Not # {}
             PROVE  FALSE
  OBVIOUS
<1>0. Not \in SUBSET Nat
  OBVIOUS
<1>1. PICK m \in Not : \A k \in Not : m <= k
  <2> HIDE DEF Not
  <2> QED
    BY <1>0, LeastOf
<1>2. m \in 0..n /\ m \notin T /\ m # 0
  OBVIOUS
<1>3. m - 1 \in 0..n /\ m - 1 < n /\ m - 1 < m /\ (m - 1) + 1 = m
  BY <1>2
<1>4. m - 1 \in T
  BY <1>1, <1>3
<1> QED
  BY <1>2, <1>3, <1>4

-------------------------------------------------------------------------------
\* Chains.
LEMMA EntriesFinite == IsFiniteSet(Entries) /\ Cardinality(Entries) = LastEntry - 1
<1>1. 2 \in Int /\ LastEntry \in Int /\ ~(2 > LastEntry)
  BY SizesAssumption
<1>2. /\ IsFiniteSet(2..LastEntry)
      /\ Cardinality(2..LastEntry) = IF 2 > LastEntry THEN 0 ELSE LastEntry - 2 + 1
  BY <1>1, FS_Interval, Zenon
<1> QED
  BY <1>1, <1>2 DEF Entries

Fats == [Entries -> {0, EOC} \cup Entries]

\* A chain has no more clusters than the FAT has entries.
LEMMA ChainIsShort ==
  ASSUME NEW q \in Seq(Entries), IsInjective(q)
  PROVE  Len(q) <= LastEntry - 1
<1>1. q \in Injection(1..Len(q), Entries)
  BY DEF Injection, IsInjective
<1>2. Cardinality(1..Len(q)) <= Cardinality(Entries)
  BY <1>1, FS_Injection, EntriesFinite, Zenon
<1>3. Cardinality(1..Len(q)) = Len(q)
  <2>1. 1 \in Int /\ Len(q) \in Int /\ Len(q) >= 0
    OBVIOUS
  <2>2. Cardinality(1..Len(q)) = IF 1 > Len(q) THEN 0 ELSE Len(q) - 1 + 1
    BY <2>1, FS_Interval, Zenon
  <2> QED
    BY <2>1, <2>2
<1> QED
  BY <1>2, <1>3, EntriesFinite

\* What the recursion of Walk() computes of a chain.
Steps(f, first, q) ==
  [k \in 1..LastEntry |-> IF k = 1 THEN first ELSE IF k <= Len(q) THEN q[k] ELSE EOC]

\* getClusterChain() walks along the chain and stays at its end.
LEMMA WalkIs ==
  ASSUME NEW f \in Fats, NEW first \in {0, EOC} \cup Entries, NEW q, IsChain(f, first, q)
  PROVE  Walk(f, first) = Steps(f, first, q)
<1> DEFINE Rule(g) == [k \in 1..LastEntry |->
             IF k = 1 THEN first ELSE IF g[k - 1] \in {0, EOC} THEN EOC ELSE f[g[k - 1]]]
           h == Steps(f, first, q)
           w == Walk(f, first)
<1>1. q \in Seq(Entries) /\ Len(q) \in Nat /\ LastEntry \in Nat /\ LastEntry >= 2
  BY SizesAssumption DEF IsChain
<1>2. \A k \in 1..LastEntry : k # 1 =>
        h[k] = IF h[k - 1] \in {0, EOC} THEN EOC ELSE f[h[k - 1]]
  <2> SUFFICES ASSUME NEW k \in 1..LastEntry, k # 1
               PROVE  h[k] = IF h[k - 1] \in {0, EOC} THEN EOC ELSE f[h[k - 1]]
    OBVIOUS
  <2>1. k - 1 \in 1..LastEntry
    BY <1>1
  <2>2. h[k] = (IF k <= Len(q) THEN q[k] ELSE EOC)
    BY DEF Steps
  <2>3. CASE k - 1 <= Len(q)
    <3>1. k - 1 \in 1..Len(q) /\ q # <<>>
      BY <1>1, <2>1, <2>3
    <3>2. h[k - 1] = q[k - 1]
      BY <1>1, <2>1, <2>3, <3>1 DEF Steps, IsChain
    <3>3. q[k - 1] \in Entries /\ q[k - 1] \notin {0, EOC}
      BY <1>1, <3>1 DEF Entries, EOC
    <3>4. f[q[k - 1]] = IF k - 1 = Len(q) THEN EOC ELSE q[(k - 1) + 1]
      BY <3>1 DEF IsChain
    <3> QED
      BY <1>1, <2>2, <2>3, <3>2, <3>3, <3>4
  <2>4. CASE ~(k - 1 <= Len(q))
    <3>1. h[k - 1] \in {0, EOC}
      BY <1>1, <2>1, <2>4 DEF Steps, IsChain
    <3> QED
      BY <1>1, <2>2, <2>4, <3>1
  <2> QED
    BY <2>3, <2>4
<1>3. h = Rule(h)
  BY <1>1, <1>2 DEF Steps
<1>4. w = CHOOSE g : g = Rule(g)
  BY DEF Walk
<1>5. w = Rule(w)
  BY <1>3, <1>4, Zenon
<1> HIDE DEF w, h
<1> DEFINE T == {i \in Nat : i = 0 \/ (i \in 1..LastEntry /\ w[i] = h[i])}
<1>6. \A i \in 0..LastEntry : i \in T
  <2>1. 0 \in T
    OBVIOUS
  <2>2. ASSUME NEW i \in 0..LastEntry, i < LastEntry, i \in T
        PROVE  i + 1 \in T
    <3>1. i + 1 \in 1..LastEntry /\ i + 1 \in Nat
      BY <1>1, <2>2
    <3>2. w[i + 1] = IF i + 1 = 1 THEN first
                     ELSE IF w[(i + 1) - 1] \in {0, EOC} THEN EOC ELSE f[w[(i + 1) - 1]]
      BY <1>5, <3>1
    <3>3. h[i + 1] = IF i + 1 = 1 THEN first
                     ELSE IF h[(i + 1) - 1] \in {0, EOC} THEN EOC ELSE f[h[(i + 1) - 1]]
      BY <1>3, <3>1
    <3>4. i + 1 # 1 => w[(i + 1) - 1] = h[(i + 1) - 1]
      BY <2>2
    <3>5. w[i + 1] = h[i + 1]
      BY <3>2, <3>3, <3>4, Zenon
    <3> QED
      BY <3>1, <3>5
  <2> HIDE DEF T
  <2> QED
    BY <1>1, <2>1, <2>2, UpTo
<1>7. \A k \in 1..LastEntry : w[k] = h[k]
  BY <1>1, <1>6
<1>8. w = [k \in 1..LastEntry |-> w[k]] /\ h = [k \in 1..LastEntry |-> h[k]]
  <2>1. h = [k \in 1..LastEntry |-> h[k]]
    BY DEF Steps, h
  <2>2. w = [k \in 1..LastEntry |-> w[k]]
    BY <1>5
  <2> QED
    BY <2>1, <2>2
<1>9. w = h
  BY <1>7, <1>8
<1> QED
  BY <1>9 DEF w, h

\* A chain is what getClusterChain() finds.
LEMMA ChainIs ==
  ASSUME NEW f \in Fats, NEW first \in {0, EOC} \cup Entries, NEW q, IsChain(f, first, q)
  PROVE  Chain(f, first) = q
<1> DEFINE w == Walk(f, first)
           in == {k \in 1..LastEntry : w[k] \notin {0, EOC}}
<1>1. /\ q \in Seq(Entries) /\ Len(q) \in Nat /\ LastEntry \in Nat /\ LastEntry >= 2
      /\ Len(q) <= LastEntry - 1
  BY SizesAssumption, ChainIsShort DEF IsChain
<1>2. \A k \in 1..LastEntry : w[k] = IF k = 1 THEN first ELSE IF k <= Len(q) THEN q[k] ELSE EOC
  <2>1. w = Steps(f, first, q)
    BY WalkIs, Zenon
  <2> QED
    BY <2>1 DEF Steps
<1>3. \A k \in 1..Len(q) : k \in 1..LastEntry /\ w[k] = q[k] /\ q[k] \notin {0, EOC}
  <2> SUFFICES ASSUME NEW k \in 1..Len(q)
               PROVE  k \in 1..LastEntry /\ w[k] = q[k] /\ q[k] \notin {0, EOC}
    OBVIOUS
  <2>1. k \in 1..LastEntry /\ q[k] \in Entries /\ q # <<>>
    BY <1>1
  <2>2. first = q[1]
    BY <2>1 DEF IsChain
  <2> QED
    BY <1>2, <2>1, <2>2 DEF Entries, EOC
<1>4. \A k \in 1..LastEntry : ~(k <= Len(q)) => w[k] \in {0, EOC}
  BY <1>1, <1>2 DEF IsChain
<1>5. in = 1..Len(q)
  BY <1>1, <1>3, <1>4
<1>6. Cardinality(in) = Len(q)
  <2>1. 1 \in Int /\ Len(q) \in Int /\ Len(q) >= 0
    BY <1>1
  <2>2. Cardinality(1..Len(q)) = IF 1 > Len(q) THEN 0 ELSE Len(q) - 1 + 1
    BY <2>1, FS_Interval, Zenon
  <2>3. Cardinality(1..Len(q)) = Len(q)
    BY <2>1, <2>2
  <2> QED
    BY <1>5, <2>3, Zenon
<1>7. Chain(f, first) = [k \in 1..Cardinality(in) |-> w[k]]
  BY DEF Chain
<1>8. Chain(f, first) = [k \in 1..Len(q) |-> q[k]]
  BY <1>3, <1>6, <1>7
<1> QED
  BY <1>1, <1>8

-------------------------------------------------------------------------------
\* Allocation.
LEMMA FieldsOfFileSystems ==
  ASSUME NEW s \in FileSystems
  PROVE  /\ s.fat \in Fats /\ s.free \in Int /\ s.dir \in Seq(AnySlot)
         /\ s.data \in [Entries -> Contents] /\ s.failed \in BOOLEAN
BY DEF FileSystems, Fats

\* The free entries can be counted.
LEMMA FreeIsFinite ==
  ASSUME NEW f
  PROVE  Free(f) \in SUBSET Entries /\ IsFiniteSet(Free(f)) /\ Cardinality(Free(f)) \in Nat
<1>1. Free(f) \in SUBSET Entries
  BY DEF Free
<1>2. IsFiniteSet(Free(f))
  BY <1>1, FS_Subset, EntriesFinite, Zenon
<1> QED
  BY <1>1, <1>2, FS_CardinalityType, Zenon

\* No cluster is what marks a free one or an end.
LEMMA EntriesAreNumbers == Entries \in SUBSET Nat /\ 0 \notin Entries /\ EOC \notin Entries
BY SizesAssumption DEF Entries, EOC

\* t is s with the clusters r taken, behind "last".
Taken(s, last, t, r) ==
  /\ t \in FileSystems /\ t.dir = s.dir /\ t.data = s.data
  /\ r \in Seq(Entries) /\ IsInjective(r)
  /\ \A k \in 1..Len(r) :
       s.fat[r[k]] = 0 /\ t.fat[r[k]] = IF k = Len(r) THEN EOC ELSE r[k + 1]
  /\ \A c \in Entries : c \notin Range(r) /\ c # last => t.fat[c] = s.fat[c]
  /\ last # 0 => t.fat[last] = IF r = <<>> THEN s.fat[last] ELSE r[1]
  /\ r # <<>> => r[1] = First(Free(s.fat))
  /\ t.free = s.free - Len(r)
  /\ Cardinality(Free(t.fat)) = Cardinality(Free(s.fat)) - Len(r)

LastTaken(last, r) == IF r = <<>> THEN last ELSE r[Len(r)]

\* allocateCluster() takes a cluster more, behind those already taken.
LEMMA AllocateTakes ==
  ASSUME NEW s \in FileSystems, NEW last \in {0} \cup Entries, last # 0 => s.fat[last] # 0,
         NEW a, NEW t, NEW r, a.fs = t, a.last = LastTaken(last, r),
         Taken(s, last, t, r), ~t.failed, Free(t.fat) # {}
  PROVE  \E u, new : /\ new \in Entries
                     /\ Allocate(a).fs = u /\ Allocate(a).last = LastTaken(last, Append(r, new))
                     /\ Taken(s, last, u, Append(r, new)) /\ ~u.failed
<1> DEFINE new == First(Free(t.fat))
           g == [c \in Entries |-> IF c = new THEN EOC
                                   ELSE IF c = LastTaken(last, r) THEN new ELSE t.fat[c]]
           u == [t EXCEPT !.fat = g, !.free = t.free - 1]
           q == Append(r, new)
<1>1. /\ t \in FileSystems /\ t.fat \in Fats /\ s.fat \in Fats /\ t.free \in Int /\ s.free \in Int
      /\ r \in Seq(Entries) /\ Len(r) \in Nat
  BY FieldsOfFileSystems DEF Taken
<1>2. new \in Entries /\ t.fat[new] = 0
  <2>1. Free(t.fat) \in SUBSET Nat
    BY EntriesAreNumbers DEF Free
  <2>2. new \in Free(t.fat)
    BY <2>1, FirstIsLeast
  <2> HIDE DEF new
  <2> QED
    BY <2>2 DEF Free
<1>3. Allocate(a).fs = u /\ Allocate(a).last = new
  <2>1. a.fs = t /\ a.last = LastTaken(last, r)
    OBVIOUS
  <2>2. [t EXCEPT !.fat = [c \in Entries |-> IF c = new THEN EOC
                                   ELSE IF c = a.last THEN new ELSE @[c]],
                  !.free = @ - 1] = u
    BY <1>1, <2>1 DEF FileSystems
  <2> QED
    BY <2>1, <2>2 DEF Allocate
<1> HIDE DEF new
<1>4. \A k \in 1..Len(r) : r[k] \in Entries /\ t.fat[r[k]] # 0 /\ r[k] # new
  <2> SUFFICES ASSUME NEW k \in 1..Len(r)
               PROVE  r[k] \in Entries /\ t.fat[r[k]] # 0
    BY <1>2
  <2>1. t.fat[r[k]] = IF k = Len(r) THEN EOC ELSE r[k + 1]
    BY DEF Taken
  <2>2. k # Len(r) => r[k + 1] \in Entries
    BY <1>1
  <2> QED
    BY <1>1, <2>1, <2>2, EntriesAreNumbers DEF EOC
<1>5. last # 0 => t.fat[last] # 0
  BY <1>1, EntriesAreNumbers DEF Taken
<1>6. new # last /\ new \notin Range(r) /\ s.fat[new] = 0
  <2>1. new # last
    BY <1>2, <1>5, EntriesAreNumbers
  <2>2. new \notin Range(r)
    BY <1>1, <1>4 DEF Range
  <2> QED
    BY <1>2, <2>1, <2>2 DEF Taken
<1>7. /\ q \in Seq(Entries) /\ Len(q) = Len(r) + 1 /\ q # <<>> /\ q[Len(q)] = new
      /\ \A k \in 1..Len(r) : q[k] = r[k]
  BY <1>1, <1>2
<1>8. LastTaken(last, q) = new
  BY <1>7 DEF LastTaken
<1>9. g \in Fats
  BY <1>1, <1>2 DEF Fats, LastTaken
<1>10. /\ u \in FileSystems /\ u.fat = g /\ u.free = t.free - 1
       /\ u.dir = t.dir /\ u.data = t.data /\ u.failed = t.failed
  <2>1. t.free - 1 \in Int /\ t \in FileSystems
    BY <1>1
  <2>2. u = [t EXCEPT !.fat = g, !.free = t.free - 1]
    OBVIOUS
  <2> HIDE DEF g, u
  <2> QED
    BY <1>9, <2>1, <2>2 DEF FileSystems, Fats
<1> HIDE DEF u, q
<1>11. IsInjective(q)
  <2>1. \A i, j \in 1..Len(r) : r[i] = r[j] => i = j
    BY <1>1 DEF Taken, IsInjective
  <2>2. DOMAIN q = 1..(Len(r) + 1)
    BY <1>7
  <2> QED
    BY <1>1, <1>4, <1>7, <2>1, <2>2 DEF IsInjective
<1>12. Range(q) = Range(r) \cup {new}
  <2>1. DOMAIN q = 1..(Len(r) + 1) /\ DOMAIN r = 1..Len(r)
    BY <1>1, <1>7
  <2>2. \A x \in Range(q) : x \in Range(r) \cup {new}
    BY <1>1, <1>7, <2>1 DEF Range
  <2>3. \A x \in Range(r) : x \in Range(q)
    BY <1>1, <1>7, <2>1 DEF Range
  <2>4. new \in Range(q)
    BY <1>1, <1>7, <2>1 DEF Range
  <2> QED
    BY <2>2, <2>3, <2>4
<1>13. \A k \in 1..Len(q) :
         s.fat[q[k]] = 0 /\ u.fat[q[k]] = IF k = Len(q) THEN EOC ELSE q[k + 1]
  <2> SUFFICES ASSUME NEW k \in 1..Len(q)
               PROVE  s.fat[q[k]] = 0 /\ u.fat[q[k]] = IF k = Len(q) THEN EOC ELSE q[k + 1]
    OBVIOUS
  <2>1. CASE k = Len(q)
    BY <1>2, <1>6, <1>7, <1>10, <2>1
  <2>2. CASE k # Len(q)
    <3>1. k \in 1..Len(r) /\ q[k] = r[k] /\ r # <<>>
      BY <1>1, <1>7, <2>2
    <3>2. s.fat[r[k]] = 0 /\ t.fat[r[k]] = IF k = Len(r) THEN EOC ELSE r[k + 1]
      BY <3>1 DEF Taken
    <3>3. u.fat[r[k]] = IF r[k] = r[Len(r)] THEN new ELSE t.fat[r[k]]
      BY <1>4, <1>10, <3>1 DEF LastTaken
    <3>4. CASE k = Len(r)
      BY <1>7, <2>2, <3>1, <3>2, <3>3, <3>4
    <3>5. CASE k # Len(r)
      <4>1. r[k] # r[Len(r)]
        BY <1>1, <3>1, <3>5 DEF Taken, IsInjective
      <4>2. k + 1 \in 1..Len(r)
        BY <1>1, <3>1, <3>5
      <4> QED
        BY <1>7, <2>2, <3>1, <3>2, <3>3, <3>5, <4>1, <4>2
    <3> QED
      BY <3>4, <3>5
  <2> QED
    BY <2>1, <2>2
<1>14. \A c \in Entries : c \notin Range(q) /\ c # last => u.fat[c] = s.fat[c]
  <2> SUFFICES ASSUME NEW c \in Entries, c \notin Range(q), c # last
               PROVE  u.fat[c] = s.fat[c]
    OBVIOUS
  <2>1. c # new /\ c \notin Range(r)
    BY <1>12
  <2>2. c # LastTaken(last, r)
    BY <1>1, <2>1 DEF LastTaken, Range
  <2> QED
    BY <1>10, <2>1, <2>2 DEF Taken
<1>15. last # 0 => u.fat[last] = q[1]
  <2> SUFFICES ASSUME last # 0
               PROVE  u.fat[last] = q[1]
    OBVIOUS
  <2>1. CASE r = <<>>
    BY <1>1, <1>6, <1>7, <1>10, <2>1 DEF LastTaken
  <2>2. CASE r # <<>>
    <3>1. 1 \in 1..Len(r) /\ Len(r) \in 1..Len(r) /\ q[1] = r[1]
      BY <1>1, <1>7, <2>2
    <3>2. s.fat[r[Len(r)]] = 0
      BY <3>1 DEF Taken
    <3>3. last # r[Len(r)]
      BY <3>2
    <3> QED
      BY <1>6, <1>10, <2>2, <3>1, <3>3 DEF LastTaken, Taken
  <2> QED
    BY <2>1, <2>2
<1>16. q[1] = First(Free(s.fat))
  <2>1. CASE r = <<>>
    <3>0. Range(r) = {} /\ (last # 0 => t.fat[last] = s.fat[last])
      BY <2>1 DEF Taken, Range
    <3>1. \A c \in Entries : t.fat[c] = 0 <=> s.fat[c] = 0
      BY <3>0, EntriesAreNumbers DEF Taken
    <3>2. Free(t.fat) = Free(s.fat)
      BY <3>1 DEF Free
    <3> QED
      BY <1>1, <1>7, <2>1, <3>2 DEF new
  <2>2. CASE r # <<>>
    BY <1>1, <1>7, <2>2 DEF Taken
  <2> QED
    BY <2>1, <2>2
<1>17. Cardinality(Free(u.fat)) = Cardinality(Free(s.fat)) - Len(q)
  <2>1. LastTaken(last, r) # 0 => t.fat[LastTaken(last, r)] # 0
    BY <1>1, <1>4, <1>5 DEF LastTaken
  <2>2. \A c \in Entries : u.fat[c] = 0 <=> t.fat[c] = 0 /\ c # new
    BY <1>2, <1>10, <2>1, EntriesAreNumbers DEF EOC
  <2>3. Free(u.fat) = Free(t.fat) \ {new}
    BY <2>2 DEF Free
  <2>4. new \in Free(t.fat)
    BY <1>2 DEF Free
  <2>5. Cardinality(Free(t.fat) \ {new}) = Cardinality(Free(t.fat)) - 1
    <3>1. Cardinality(Free(t.fat) \ {new}) =
            IF new \in Free(t.fat) THEN Cardinality(Free(t.fat)) - 1 ELSE Cardinality(Free(t.fat))
      BY FS_RemoveElement, FreeIsFinite, Zenon
    <3> QED
      BY <2>4, <3>1
  <2>6. Cardinality(Free(t.fat)) = Cardinality(Free(s.fat)) - Len(r)
    BY DEF Taken
  <2>7. Cardinality(Free(s.fat)) \in Nat
    BY FreeIsFinite
  <2> QED
    BY <1>1, <1>7, <2>3, <2>5, <2>6, <2>7
<1>18. u.free = s.free - Len(q)
  BY <1>1, <1>7, <1>10 DEF Taken
<1>19. u.dir = s.dir /\ u.data = s.data
  BY <1>10 DEF Taken
<1>20. Taken(s, last, u, q)
  BY <1>7, <1>10, <1>11, <1>13, <1>14, <1>15, <1>16, <1>17, <1>18, <1>19 DEF Taken
<1>21. /\ new \in Entries /\ Allocate(a).fs = u /\ Allocate(a).last = LastTaken(last, q)
       /\ Taken(s, last, u, q) /\ ~u.failed
  BY <1>2, <1>3, <1>8, <1>10, <1>20
<1> QED
  BY <1>21 DEF q

\* The states of the loop of Take() follow each other.
LEMMA TakeLoop ==
  ASSUME NEW s, NEW last, NEW n \in Nat
  PROVE  \E g : /\ g[0].fs = s /\ g[0].last = last
                /\ \A i \in 0..n : i < n => g[i + 1] = Allocate(g[i])
                /\ Take(s, last, n) = g[n].fs
<1> DEFINE start == [fs |-> s, last |-> last]
           Rule(m, g) == [i \in 0..m |-> IF i = 0 THEN start ELSE Allocate(g[i - 1])]
           T == {m \in Nat : \E g : g = Rule(m, g)}
<1>1. 0 \in T
  <2> DEFINE g == [i \in 0..0 |-> start]
  <2>1. g = Rule(0, g)
    OBVIOUS
  <2> QED
    BY <2>1, Zenon
<1>2. ASSUME NEW m \in 0..n, m < n, m \in T
      PROVE  m + 1 \in T
  <2>1. PICK g : g = Rule(m, g)
    BY <1>2
  <2> DEFINE h == [i \in 0..(m + 1) |-> IF i <= m THEN g[i] ELSE Allocate(g[m])]
  <2>2. \A i \in 0..m : g[i] = IF i = 0 THEN start ELSE Allocate(g[i - 1])
    BY <2>1
  <2>3. m \in Nat
    OBVIOUS
  <2> HIDE DEF start
  <2>4. \A i \in 0..(m + 1) : h[i] = IF i = 0 THEN start ELSE Allocate(h[i - 1])
    <3> SUFFICES ASSUME NEW i \in 0..(m + 1)
                 PROVE  h[i] = IF i = 0 THEN start ELSE Allocate(h[i - 1])
      OBVIOUS
    <3>1. CASE i = 0
      <4>1. 0 \in 0..m /\ 0 \in 0..(m + 1) /\ 0 <= m
        BY <2>3
      <4> QED
        BY <2>2, <3>1, <4>1
    <3>2. CASE i # 0 /\ i <= m
      <4>1. i \in 0..m /\ i - 1 \in 0..(m + 1) /\ i - 1 <= m
        BY <2>3, <3>2
      <4>2. h[i] = g[i] /\ h[i - 1] = g[i - 1]
        BY <3>2, <4>1
      <4> QED
        BY <2>2, <3>2, <4>1, <4>2
    <3>3. CASE ~(i <= m)
      <4>1. i = m + 1 /\ i # 0 /\ i - 1 = m /\ m \in 0..(m + 1) /\ m <= m
        BY <2>3, <3>3
      <4>2. h[i] = Allocate(g[m]) /\ h[i - 1] = g[m]
        BY <3>3, <4>1
      <4> QED
        BY <4>1, <4>2
    <3> QED
      BY <3>1, <3>2, <3>3
  <2>5. h = [i \in 0..(m + 1) |-> h[i]]
    OBVIOUS
  <2> HIDE DEF h
  <2>6. h = Rule(m + 1, h)
    BY <2>4, <2>5
  <2>7. m + 1 \in Nat
    BY <2>3
  <2> QED
    BY <2>6, <2>7
<1>3. n \in T
  <2>1. n \in 0..n
    OBVIOUS
  <2> HIDE DEF T
  <2> QED
    BY <1>1, <1>2, <2>1, UpTo
<1> DEFINE after == CHOOSE g : g = Rule(n, g)
<1>4. after = Rule(n, after)
  BY <1>3, Zenon
<1>5. Take(s, last, n) = after[n].fs
  BY DEF Take
<1>6. \A i \in 0..n : after[i] = IF i = 0 THEN start ELSE Allocate(after[i - 1])
  <2> HIDE DEF after
  <2> QED
    BY <1>4
<1> HIDE DEF after
<1>7. after[0].fs = s /\ after[0].last = last
  BY <1>6
<1>8. ASSUME NEW i \in 0..n, i < n
      PROVE  after[i + 1] = Allocate(after[i])
  <2>1. i + 1 \in 0..n /\ i + 1 # 0 /\ (i + 1) - 1 = i
    BY <1>8
  <2> QED
    BY <1>6, <2>1
<1> QED
  BY <1>5, <1>7, <1>8

\* Take() takes clusters until there are enough or none is left.
LEMMA TakeTakes ==
  ASSUME NEW s \in FileSystems, ~s.failed, NEW n \in Nat,
         NEW last \in {0} \cup Entries, last # 0 => s.fat[last] # 0
  PROVE  \E r : /\ Taken(s, last, Take(s, last, n), r)
                /\ ~Take(s, last, n).failed => Len(r) = n
<1>1. PICK g : /\ g[0].fs = s /\ g[0].last = last
               /\ \A i \in 0..n : i < n => g[i + 1] = Allocate(g[i])
               /\ Take(s, last, n) = g[n].fs
  BY TakeLoop
<1> DEFINE Good(i) == \E t, r : /\ g[i].fs = t /\ g[i].last = LastTaken(last, r)
                                /\ Taken(s, last, t, r)
                                /\ ~t.failed => Len(r) = i
           T == {i \in Nat : Good(i)}
<1>2. 0 \in T
  <2>1. g[0].fs = s /\ g[0].last = last
    BY <1>1
  <2>2. <<>> \in Seq(Entries) /\ Len(<<>>) = 0 /\ Range(<<>>) = {} /\ IsInjective(<<>>)
    BY DEF Range, IsInjective
  <2>3. s.free \in Int /\ Cardinality(Free(s.fat)) \in Nat
    BY FreeIsFinite, FieldsOfFileSystems
  <2>4. Taken(s, last, s, <<>>)
    BY <2>2, <2>3 DEF Taken
  <2>5. LastTaken(last, <<>>) = last
    BY DEF LastTaken
  <2>6. Good(0)
    BY <2>1, <2>2, <2>4, <2>5, Zenon
  <2> HIDE DEF Good
  <2> QED
    BY <2>6
<1>3. ASSUME NEW i \in 0..n, i < n, i \in T
      PROVE  i + 1 \in T
  <2>1. PICK t, r : /\ g[i].fs = t /\ g[i].last = LastTaken(last, r)
                    /\ Taken(s, last, t, r)
                    /\ ~t.failed => Len(r) = i
    BY <1>3
  <2>2. g[i + 1] = Allocate(g[i])
    BY <1>1, <1>3
  <2>3. CASE t.failed \/ Free(t.fat) = {}
    <3> DEFINE u == [t EXCEPT !.failed = TRUE]
    <3>2. g[i + 1].fs = u /\ g[i + 1].last = LastTaken(last, r)
      BY <2>1, <2>2, <2>3 DEF Allocate
    <3>3. t \in FileSystems
      BY <2>1 DEF Taken
    <3>4. /\ u \in FileSystems /\ u.fat = t.fat /\ u.free = t.free
          /\ u.dir = t.dir /\ u.data = t.data /\ u.failed
      BY <3>3 DEF FileSystems
    <3> HIDE DEF u
    <3>5. Taken(s, last, u, r)
      BY <2>1, <3>4 DEF Taken
    <3>6. Good(i + 1)
      BY <3>2, <3>4, <3>5, Zenon
    <3> HIDE DEF Good
    <3> QED
      BY <3>6
  <2>4. CASE ~t.failed /\ Free(t.fat) # {}
    <3>1. PICK u, new : /\ new \in Entries
                        /\ Allocate(g[i]).fs = u
                        /\ Allocate(g[i]).last = LastTaken(last, Append(r, new))
                        /\ Taken(s, last, u, Append(r, new)) /\ ~u.failed
      BY <2>1, <2>4, AllocateTakes
    <3>2. Len(r) = i /\ r \in Seq(Entries)
      BY <2>1, <2>4 DEF Taken
    <3>3. Len(Append(r, new)) = i + 1
      BY <3>1, <3>2
    <3>4. Good(i + 1)
      BY <2>2, <3>1, <3>3, Zenon
    <3> HIDE DEF Good
    <3> QED
      BY <3>4
  <2> QED
    BY <2>3, <2>4
<1>4. n \in T
  <2>1. n \in 0..n
    OBVIOUS
  <2> HIDE DEF T
  <2> QED
    BY <1>2, <1>3, <2>1, UpTo
<1>5. PICK t, r : /\ g[n].fs = t /\ g[n].last = LastTaken(last, r)
                  /\ Taken(s, last, t, r)
                  /\ ~t.failed => Len(r) = n
  BY <1>4
<1>6. Take(s, last, n) = t
  BY <1>1, <1>5
<1> QED
  BY <1>5, <1>6

-------------------------------------------------------------------------------
\* What allocating and cutting do to chains.
LEMMA ChainFrame ==
  ASSUME NEW f, NEW g, NEW first, NEW p, IsChain(f, first, p),
         \A c \in Range(p) : g[c] = f[c]
  PROVE  IsChain(g, first, p)
<1>1. \A k \in 1..Len(p) : p[k] \in Range(p)
  BY DEF IsChain, Range
<1> QED
  BY <1>1 DEF IsChain

\* A cluster of a chain is not free.
LEMMA ChainIsUsed ==
  ASSUME NEW f, NEW first, NEW p, IsChain(f, first, p), NEW c \in Range(p)
  PROVE  c \in Entries /\ f[c] # 0
<1>1. PICK k \in 1..Len(p) : c = p[k]
  BY DEF Range, IsChain
<1>2. p \in Seq(Entries) /\ f[c] = IF k = Len(p) THEN EOC ELSE p[k + 1]
  BY <1>1 DEF IsChain
<1>3. k # Len(p) => p[k + 1] \in Entries
  BY <1>1, <1>2
<1> QED
  BY <1>1, <1>2, <1>3, EntriesAreNumbers DEF EOC

\* Clusters taken leave the chains alone that they are not put behind.
LEMMA TakenLeaves ==
  ASSUME NEW s, NEW last, NEW t, NEW r, Taken(s, last, t, r),
         NEW first, NEW p, IsChain(s.fat, first, p), last \notin Range(p)
  PROVE  IsChain(t.fat, first, p) /\ Range(p) \cap Range(r) = {}
<1>1. \A c \in Range(p) : c \in Entries /\ s.fat[c] # 0
  BY ChainIsUsed
<1>2. \A c \in Range(r) : s.fat[c] = 0
  BY DEF Taken, Range
<1>3. Range(p) \cap Range(r) = {}
  BY <1>1, <1>2
<1>4. \A c \in Range(p) : t.fat[c] = s.fat[c]
  BY <1>1, <1>3 DEF Taken
<1> QED
  BY <1>3, <1>4, ChainFrame

Behind(q) == IF q = <<>> THEN 0 ELSE LastOf(q)

\* Clusters taken behind the end of a chain make it longer.
LEMMA TakenExtends ==
  ASSUME NEW s, NEW t, NEW r, NEW first, NEW q, IsChain(s.fat, first, q),
         Taken(s, Behind(q), t, r)
  PROVE  /\ IsChain(t.fat, IF q # <<>> \/ r = <<>> THEN first ELSE r[1], q \o r)
         /\ Range(q) \cap Range(r) = {}
<1> DEFINE p == q \o r
<1>1. q \in Seq(Entries) /\ r \in Seq(Entries) /\ Len(q) \in Nat /\ Len(r) \in Nat
  BY DEF IsChain, Taken
<1>2. /\ p \in Seq(Entries) /\ Len(p) = Len(q) + Len(r)
      /\ \A k \in 1..Len(q) : p[k] = q[k]
      /\ \A k \in 1..Len(r) : p[Len(q) + k] = r[k]
  BY <1>1
<1>3. \A c \in Range(q) : c \in Entries /\ s.fat[c] # 0
  BY ChainIsUsed
<1>4. \A k \in 1..Len(r) : s.fat[r[k]] = 0
  BY DEF Taken
<1>5. Range(q) \cap Range(r) = {}
  BY <1>3, <1>4 DEF Range, Taken
<1>6. \A k \in 1..Len(p) : \/ k \in 1..Len(q) /\ p[k] = q[k] /\ p[k] \in Range(q)
                           \/ k - Len(q) \in 1..Len(r) /\ p[k] = r[k - Len(q)] /\ p[k] \in Range(r)
  <2> SUFFICES ASSUME NEW k \in 1..Len(p), ~(k \in 1..Len(q))
               PROVE  k - Len(q) \in 1..Len(r) /\ p[k] = r[k - Len(q)] /\ p[k] \in Range(r)
    BY <1>1, <1>2 DEF Range
  <2>1. k - Len(q) \in 1..Len(r) /\ Len(q) + (k - Len(q)) = k
    BY <1>1, <1>2
  <2>2. p[k] = r[k - Len(q)]
    BY <1>2, <2>1
  <2> QED
    BY <1>1, <2>1, <2>2 DEF Range
<1> HIDE DEF p
<1>7. IsInjective(p)
  <2>1. DOMAIN p = 1..Len(p) /\ DOMAIN q = 1..Len(q) /\ DOMAIN r = 1..Len(r)
    BY <1>1, <1>2
  <2> SUFFICES ASSUME NEW a \in 1..Len(p), NEW b \in 1..Len(p), p[a] = p[b]
               PROVE  a = b
    BY <2>1 DEF IsInjective
  <2>2. CASE a \in 1..Len(q) /\ b \in 1..Len(q)
    BY <1>2, <2>1, <2>2 DEF IsChain, IsInjective
  <2>3. CASE ~(a \in 1..Len(q)) /\ ~(b \in 1..Len(q))
    <3>1. \A x, y \in 1..Len(r) : r[x] = r[y] => x = y
      BY <2>1 DEF Taken, IsInjective
    <3>2. /\ a - Len(q) \in 1..Len(r) /\ p[a] = r[a - Len(q)]
          /\ b - Len(q) \in 1..Len(r) /\ p[b] = r[b - Len(q)]
      BY <1>6, <2>3
    <3>3. a - Len(q) = b - Len(q)
      BY <3>1, <3>2
    <3> QED
      BY <1>1, <3>3
  <2>4. CASE (a \in 1..Len(q)) # (b \in 1..Len(q))
    BY <1>5, <1>6, <2>4
  <2> QED
    BY <2>2, <2>3, <2>4
<1>8. ASSUME NEW k \in 1..Len(p)
      PROVE  t.fat[p[k]] = IF k = Len(p) THEN EOC ELSE p[k + 1]
  <2>1. CASE k \in 1..Len(q)
    <3>1. p[k] = q[k] /\ q # <<>> /\ s.fat[q[k]] = IF k = Len(q) THEN EOC ELSE q[k + 1]
      BY <1>1, <1>2, <2>1 DEF IsChain
    <3>2. Behind(q) = q[Len(q)] /\ Len(q) \in 1..Len(q)
      BY <1>1, <2>1, <3>1 DEF Behind, LastOf
    <3>3. q[k] \in Entries /\ q[k] \notin Range(r) /\ q[k] \in Range(q)
      BY <1>1, <1>5, <2>1 DEF Range
    <3>4. CASE k = Len(q)
      <4>1. t.fat[q[k]] = IF r = <<>> THEN s.fat[q[k]] ELSE r[1]
        BY <3>2, <3>3, <3>4, EntriesAreNumbers DEF Taken
      <4>2. CASE r = <<>>
        BY <1>1, <1>2, <3>1, <3>4, <4>1, <4>2
      <4>3. CASE r # <<>>
        <5>1. 1 \in 1..Len(r) /\ k # Len(p)
          BY <1>1, <1>2, <3>4, <4>3
        <5>2. p[k + 1] = r[1]
          BY <1>2, <3>4, <5>1
        <5> QED
          BY <3>1, <4>1, <4>3, <5>1, <5>2
      <4> QED
        BY <4>2, <4>3
    <3>5. CASE k # Len(q)
      <4>1. q[k] # q[Len(q)]
        BY <1>1, <2>1, <3>2, <3>5 DEF IsChain, IsInjective
      <4>2. t.fat[q[k]] = s.fat[q[k]]
        BY <3>2, <3>3, <4>1 DEF Taken
      <4>3. k + 1 \in 1..Len(q) /\ k # Len(p)
        BY <1>1, <1>2, <2>1, <3>5
      <4> QED
        BY <1>2, <3>1, <3>5, <4>2, <4>3
    <3> QED
      BY <3>4, <3>5
  <2>2. CASE ~(k \in 1..Len(q))
    <3> DEFINE j == k - Len(q)
    <3>1. j \in 1..Len(r) /\ p[k] = r[j] /\ k = Len(q) + j
      BY <1>1, <1>6, <2>2
    <3>2. t.fat[r[j]] = IF j = Len(r) THEN EOC ELSE r[j + 1]
      BY <3>1 DEF Taken
    <3>3. j # Len(r) => j + 1 \in 1..Len(r) /\ Len(q) + (j + 1) = k + 1
      BY <1>1, <3>1
    <3>4. j = Len(r) <=> k = Len(p)
      BY <1>1, <1>2, <3>1
    <3> HIDE DEF j
    <3> QED
      BY <1>2, <3>1, <3>2, <3>3, <3>4
  <2> QED
    BY <2>1, <2>2
<1>9. ASSUME NEW x, x = IF q # <<>> \/ r = <<>> THEN first ELSE r[1]
      PROVE  IF p = <<>> THEN x \in {0, EOC} ELSE x = p[1]
  <2>1. CASE q = <<>>
    <3>1. p = r
      BY <1>1, <2>1 DEF p
    <3> QED
      BY <1>9, <2>1, <3>1 DEF IsChain
  <2>2. CASE q # <<>>
    <3>1. 1 \in 1..Len(q) /\ p # <<>>
      BY <1>1, <1>2, <2>2
    <3> QED
      BY <1>2, <1>9, <2>2, <3>1 DEF IsChain
  <2> QED
    BY <2>1, <2>2
<1>10. IsChain(t.fat, IF q # <<>> \/ r = <<>> THEN first ELSE r[1], p)
  BY <1>2, <1>7, <1>8, <1>9 DEF IsChain
<1> QED
  BY <1>5, <1>10 DEF p

\* What is left of a chain is a chain, and the others are not touched.
LEMMA CutLeaves ==
  ASSUME NEW f \in Fats, NEW first, NEW q, IsChain(f, first, q), NEW n \in Nat, n < Len(q)
  PROVE  /\ Cut(f, q, n) \in Fats
         /\ \A c \in Entries : c \notin Range(q) => Cut(f, q, n)[c] = f[c]
         /\ IsChain(Cut(f, q, n), IF n = 0 THEN EOC ELSE first, SubSeq(q, 1, n))
         /\ Range(SubSeq(q, 1, n)) \subseteq Range(q)
         /\ Cardinality(Free(Cut(f, q, n))) = Cardinality(Free(f)) + Len(q) - n
<1> DEFINE g == Cut(f, q, n)
           p == SubSeq(q, 1, n)
           E == Excess(q, n)
<1>1. q \in Seq(Entries) /\ Len(q) \in Nat /\ q # <<>>
  BY DEF IsChain
<1>2. \A c \in Entries : g[c] = IF c \in E THEN 0 ELSE IF n > 0 /\ c = q[n] THEN EOC ELSE f[c]
  BY DEF Cut
<1>3. g \in Fats
  BY DEF Cut, Fats
<1>4. E \subseteq Range(q)
  BY <1>1 DEF Excess, Range
<1>5. n > 0 => q[n] \in Range(q)
  BY <1>1 DEF Range
<1> HIDE DEF g, E
<1>6. \A c \in Entries : c \notin Range(q) => g[c] = f[c]
  BY <1>2, <1>4, <1>5
<1>7. /\ p \in Seq(Entries) /\ Len(p) = n /\ DOMAIN p = 1..n
      /\ \A k \in 1..n : p[k] = q[k]
  BY <1>1
<1> HIDE DEF p
<1>8. Range(p) \subseteq Range(q)
  BY <1>1, <1>7 DEF Range
<1>9. \A i, j \in 1..Len(q) : q[i] = q[j] => i = j
  BY <1>1 DEF IsChain, IsInjective
<1>10. IsInjective(p)
  BY <1>1, <1>7, <1>9 DEF IsInjective
<1>11. \A k \in 1..n : q[k] \notin E
  <2> SUFFICES ASSUME NEW k \in 1..n, NEW i \in (n + 1)..Len(q), q[k] = q[i]
               PROVE  FALSE
    BY DEF E, Excess
  <2>1. k \in 1..Len(q) /\ i \in 1..Len(q) /\ k # i
    BY <1>1
  <2> QED
    BY <1>9, <2>1
<1>12. ASSUME NEW k \in 1..n
       PROVE  g[p[k]] = IF k = n THEN EOC ELSE p[k + 1]
  <2>1. k \in 1..Len(q) /\ n \in 1..Len(q) /\ k + 1 \in 1..Len(q) /\ n > 0 /\ k # Len(q)
    BY <1>1
  <2>2. q[k] \in Entries /\ q[k] \notin E /\ p[k] = q[k]
    BY <1>1, <1>7, <1>11, <2>1
  <2>3. f[q[k]] = q[k + 1]
    BY <2>1 DEF IsChain
  <2>4. k # n => q[k] # q[n] /\ p[k + 1] = q[k + 1]
    BY <1>7, <1>9, <2>1
  <2> QED
    BY <1>2, <2>1, <2>2, <2>3, <2>4
<1>13. ASSUME NEW x, x = IF n = 0 THEN EOC ELSE first
       PROVE  IF p = <<>> THEN x \in {0, EOC} ELSE x = p[1]
  <2>1. p = <<>> <=> n = 0
    BY <1>7
  <2>2. n # 0 => 1 \in 1..n
    OBVIOUS
  <2> QED
    BY <1>1, <1>7, <1>13, <2>1, <2>2 DEF IsChain
<1>14. IsChain(g, IF n = 0 THEN EOC ELSE first, p)
  BY <1>7, <1>10, <1>12, <1>13 DEF IsChain
<1>15. Cardinality(Free(g)) = Cardinality(Free(f)) + Len(q) - n
  <2>1. \A c \in E : c \in Entries /\ f[c] # 0
    BY <1>4, ChainIsUsed
  <2>2. \A c \in Entries : g[c] = 0 <=> c \in E \/ f[c] = 0
    <3>1. n > 0 => f[q[n]] # 0
      BY <1>5, ChainIsUsed
    <3> QED
      BY <1>2, <3>1 DEF EOC
  <2>3. Free(g) = Free(f) \cup E /\ Free(f) \cap E = {}
    BY <2>1, <2>2 DEF Free
  <2>4. IsFiniteSet(E) /\ Cardinality(E) = Len(q) - n
    <3> DEFINE D == (n + 1)..Len(q)
               h == [k \in D |-> q[k]]
    <3>1. IsFiniteSet(D) /\ Cardinality(D) = Len(q) - n
      <4>1. n + 1 \in Int /\ Len(q) \in Int /\ ~(n + 1 > Len(q))
        BY <1>1
      <4>2. /\ IsFiniteSet(D)
            /\ Cardinality(D) = IF n + 1 > Len(q) THEN 0 ELSE Len(q) - (n + 1) + 1
        BY <4>1, FS_Interval, Zenon
      <4> QED
        BY <4>1, <4>2
    <3>2. h \in Bijection(D, E)
      <4>1. D \subseteq 1..Len(q)
        BY <1>1
      <4>2. \A k \in D : h[k] \in E
        BY DEF E, Excess
      <4>3. h \in [D -> E] /\ DOMAIN h = D
        BY <4>2
      <4>4. \A a, b \in D : h[a] = h[b] => a = b
        BY <1>9, <4>1
      <4>5. \A c \in E : \E k \in D : h[k] = c
        BY DEF E, Excess
      <4> HIDE DEF h, D
      <4> QED
        BY <4>3, <4>4, <4>5, Zenon DEF Bijection, Injection, Surjection, IsInjective
    <3>3. ExistsBijection(D, E)
      BY <3>2 DEF ExistsBijection
    <3> HIDE DEF D, h
    <3>4. IsFiniteSet(E) /\ Cardinality(E) = Cardinality(D)
      BY <3>1, <3>3, FS_Bijection, Zenon
    <3> QED
      BY <3>1, <3>4
  <2>5. Cardinality(Free(f) \cup E) =
          Cardinality(Free(f)) + Cardinality(E) - Cardinality(Free(f) \cap E)
    BY <2>4, FreeIsFinite, FS_Union, Zenon
  <2>6. Cardinality(Free(f) \cap E) = 0
    BY <2>3, FS_EmptySet, Zenon
  <2>7. Cardinality(Free(f)) \in Nat
    BY FreeIsFinite
  <2> QED
    BY <1>1, <2>3, <2>4, <2>5, <2>6, <2>7
<1> QED
  BY <1>3, <1>6, <1>8, <1>14, <1>15 DEF g, p

-------------------------------------------------------------------------------
\* Owners of chains.
FileSlots == [kind : {"file"}, name : Names, ended : BOOLEAN, short : ShortNames,
              first : {0, EOC} \cup Entries, size : 0..MaxSize]

\* What a file's slot holds.
LEMMA LiveIsFile ==
  ASSUME NEW s \in FileSystems, NEW i \in Live(s)
  PROVE  /\ i \in 1..Len(s.dir) /\ s.dir[i] \in FileSlots /\ s.dir[i].kind = "file"
         /\ s.dir[i].name \in Names /\ s.dir[i].ended \in BOOLEAN /\ s.dir[i].short \in ShortNames
         /\ s.dir[i].first \in {0, EOC} \cup Entries /\ s.dir[i].size \in 0..MaxSize
<1>1. s.dir \in Seq(AnySlot)
  BY FieldsOfFileSystems
<1>2. i \in 1..Len(s.dir) /\ s.dir[i].kind = "file"
  BY DEF Live
<1>3. s.dir[i] \in AnySlot
  BY <1>1, <1>2
<1>4. s.dir[i] \in FileSlots
  BY <1>2, <1>3 DEF AnySlot, FileSlots, LongSlot
<1> QED
  BY <1>2, <1>4 DEF FileSlots

\* Every owner of a chain starts at an entry of the FAT, or has none.
LEMMA StartType ==
  ASSUME NEW s \in FileSystems, NEW o \in Owners(s)
  PROVE  Start(s, o) \in {0, EOC} \cup Entries
<1>1. CASE o = 0
  BY <1>1, SizesAssumption DEF Start, Root, Entries
<1>2. CASE o # 0
  BY <1>2, LiveIsFile DEF Start, Owners
<1> QED
  BY <1>1, <1>2

\* The directory alone says who owns a chain.
LEMMA OwnersStay ==
  ASSUME NEW s, NEW t, t.dir = s.dir
  PROVE  /\ Live(t) = Live(s) /\ Owners(t) = Owners(s)
         /\ \A o : Start(t, o) = Start(s, o)
         /\ \A o : ChainOf(t, o) = Chain(t.fat, Start(s, o))
BY DEF Live, Owners, Start, ChainOf

\* The root directory always has a cluster.
LEMMA RootHasChain ==
  ASSUME NEW s, SoundClusters(s)
  PROVE  /\ 0 \in Owners(s) /\ ChainOf(s, 0) = Chain(s.fat, Root)
         /\ IsChain(s.fat, Root, Chain(s.fat, Root))
         /\ Chain(s.fat, Root) \in Seq(Entries) /\ Chain(s.fat, Root) # <<>>
<1>1. 0 \in Owners(s) /\ ChainOf(s, 0) = Chain(s.fat, Root) /\ Start(s, 0) = Root
  BY DEF Owners, ChainOf, Start
<1>2. IsChain(s.fat, Root, Chain(s.fat, Root))
  BY <1>1 DEF SoundClusters
<1> QED
  BY <1>1, <1>2 DEF IsChain, Root, EOC

\* t is s with up to n clusters more behind the chain q of w.
Grew(s, w, q, n, t) ==
  /\ t \in FileSystems /\ t.dir = s.dir /\ t.data = s.data
  /\ SoundClusters(t)
  /\ \A o \in Owners(s) : o # w => ChainOf(t, o) = ChainOf(s, o)
  /\ \E r \in Seq(Entries) :
       /\ ~t.failed => Len(r) = n
       /\ r # <<>> => r[1] = First(Free(s.fat))
       /\ IsChain(t.fat, IF q # <<>> \/ r = <<>> THEN Start(s, w) ELSE r[1], q \o r)
       /\ q # <<>> => ChainOf(t, w) = q \o r
       /\ \A o \in Owners(s) : o # w => Range(ChainOf(t, o)) \cap Range(q \o r) = {}

\* Clusters taken behind the chain of one owner stay away from the others.
LEMMA TakeSound ==
  ASSUME NEW s \in FileSystems, ~s.failed, SoundClusters(s), NEW w \in Owners(s),
         NEW n \in Nat, NEW q, q = ChainOf(s, w), NEW t, t = Take(s, Behind(q), n)
  PROVE  Grew(s, w, q, n, t)
<1>1. /\ IsChain(s.fat, Start(s, w), q) /\ q \in Seq(Entries) /\ s.fat \in Fats
      /\ Start(s, w) \in {0, EOC} \cup Entries
  BY FieldsOfFileSystems, StartType DEF SoundClusters, IsChain
<1>2. /\ Behind(q) \in {0} \cup Entries /\ (Behind(q) # 0 => s.fat[Behind(q)] # 0)
      /\ Behind(q) # 0 => Behind(q) \in Range(q)
  <2>1. CASE q = <<>>
    BY <2>1 DEF Behind
  <2>2. CASE q # <<>>
    <3>1. Len(q) \in 1..Len(q) /\ Behind(q) = q[Len(q)]
      BY <1>1, <2>2 DEF Behind, LastOf
    <3>2. Behind(q) \in Range(q)
      BY <1>1, <3>1 DEF Range
    <3> QED
      BY <1>1, <3>2, ChainIsUsed
  <2> QED
    BY <2>1, <2>2
<1>3. PICK r : Taken(s, Behind(q), t, r) /\ (~t.failed => Len(r) = n)
  BY <1>2, TakeTakes
<1>4. /\ t \in FileSystems /\ t.dir = s.dir /\ t.data = s.data /\ r \in Seq(Entries)
      /\ t.fat \in Fats
  BY <1>3, FieldsOfFileSystems DEF Taken
<1>5. /\ IsChain(t.fat, IF q # <<>> \/ r = <<>> THEN Start(s, w) ELSE r[1], q \o r)
      /\ Range(q) \cap Range(r) = {}
  BY <1>1, <1>3, TakenExtends
<1>6. ASSUME NEW o \in Owners(s), o # w
      PROVE  /\ IsChain(t.fat, Start(s, o), ChainOf(s, o))
             /\ ChainOf(t, o) = ChainOf(s, o)
             /\ Range(ChainOf(s, o)) \cap Range(r) = {}
             /\ Range(ChainOf(s, o)) \cap Range(q) = {}
  <2>1. Range(ChainOf(s, o)) \cap Range(q) = {} /\ IsChain(s.fat, Start(s, o), ChainOf(s, o))
    BY <1>6 DEF SoundClusters
  <2>2. \A c \in Range(ChainOf(s, o)) : c \in Entries
    BY <2>1, ChainIsUsed
  <2>3. Behind(q) \notin Range(ChainOf(s, o))
    BY <1>2, <2>1, <2>2, EntriesAreNumbers
  <2>4. IsChain(t.fat, Start(s, o), ChainOf(s, o)) /\ Range(ChainOf(s, o)) \cap Range(r) = {}
    BY <1>3, <2>1, <2>3, TakenLeaves
  <2>5. ChainOf(t, o) = Chain(t.fat, Start(s, o))
    BY <1>4, OwnersStay
  <2>6. Start(s, o) \in {0, EOC} \cup Entries
    BY StartType
  <2> QED
    BY <1>4, <2>1, <2>4, <2>5, <2>6, ChainIs
<1>7. Range(q \o r) = Range(q) \cup Range(r)
  BY <1>1, <1>4, RangeConcatenation
<1>8. \A o \in Owners(s) : o # w => Range(ChainOf(t, o)) \cap Range(q \o r) = {}
  BY <1>6, <1>7
<1>9. ChainOf(t, w) = Chain(t.fat, Start(s, w))
  BY <1>4, OwnersStay
<1>10. /\ IsChain(t.fat, Start(s, w), ChainOf(t, w))
       /\ q # <<>> => ChainOf(t, w) = q \o r
       /\ Range(ChainOf(t, w)) \subseteq Range(q \o r)
  <2>1. CASE q # <<>>
    BY <1>1, <1>4, <1>5, <1>9, <2>1, ChainIs
  <2>2. CASE q = <<>>
    <3>1. IsChain(t.fat, Start(s, w), <<>>)
      BY <1>1, <2>2 DEF IsChain
    <3>2. ChainOf(t, w) = <<>>
      BY <1>1, <1>4, <1>9, <3>1, ChainIs
    <3> QED
      BY <2>2, <3>1, <3>2 DEF Range
  <2> QED
    BY <2>1, <2>2
<1>11. Owners(t) = Owners(s) /\ \A o : Start(t, o) = Start(s, o)
  BY <1>4, OwnersStay
<1>12. SoundClusters(t)
  <2>1. \A o \in Owners(t) : IsChain(t.fat, Start(t, o), ChainOf(t, o))
    BY <1>6, <1>10, <1>11
  <2>2. ASSUME NEW o \in Owners(t), NEW p \in Owners(t), o # p
        PROVE  Range(ChainOf(t, o)) \cap Range(ChainOf(t, p)) = {}
    <3>1. CASE o = w
      BY <1>8, <1>10, <1>11, <2>2, <3>1
    <3>2. CASE p = w
      BY <1>8, <1>10, <1>11, <2>2, <3>2
    <3>3. CASE o # w /\ p # w
      BY <1>6, <1>11, <2>2, <3>3 DEF SoundClusters
    <3> QED
      BY <3>1, <3>2, <3>3
  <2>3. t.free = Cardinality(Free(t.fat)) - (LastEntry - LastCluster)
    <3>1. /\ t.free = s.free - Len(r)
          /\ Cardinality(Free(t.fat)) = Cardinality(Free(s.fat)) - Len(r)
      BY <1>3 DEF Taken
    <3>2. s.free = Cardinality(Free(s.fat)) - (LastEntry - LastCluster)
      BY DEF SoundClusters
    <3>3. /\ Cardinality(Free(s.fat)) \in Nat /\ Len(r) \in Nat
          /\ LastEntry \in Int /\ LastCluster \in Int
      BY <1>4, FreeIsFinite, SizesAssumption
    <3> QED
      BY <3>1, <3>2, <3>3
  <2> QED
    BY <2>1, <2>2, <2>3 DEF SoundClusters
<1> QED
  BY <1>3, <1>4, <1>5, <1>6, <1>8, <1>10, <1>12 DEF Taken, Grew

\* All is sound but for the chain of w.
SoundBut(t, w) ==
  /\ \A o \in Owners(t) : o # w => IsChain(t.fat, Start(t, o), ChainOf(t, o))
  /\ \A o, p \in Owners(t) :
       o # w /\ p # w /\ o # p => Range(ChainOf(t, o)) \cap Range(ChainOf(t, p)) = {}
  /\ t.free = Cardinality(Free(t.fat)) - (LastEntry - LastCluster)

\* What is sound is sound but for one chain.
LEMMA SoundButOne ==
  ASSUME NEW t, NEW w, SoundClusters(t)
  PROVE  SoundBut(t, w)
BY DEF SoundClusters, SoundBut

\* Giving up the end of one chain leaves the others as they were.
LEMMA DropSound ==
  ASSUME NEW s \in FileSystems, SoundClusters(s), NEW w \in Owners(s),
         NEW q, q = ChainOf(s, w), NEW n \in Nat, n < Len(q), NEW t, t = Drop(s, q, n)
  PROVE  /\ t \in FileSystems /\ t.dir = s.dir /\ t.failed = s.failed
         /\ \A c \in Entries : c \notin Range(q) => t.data[c] = s.data[c]
         /\ \A o \in Owners(s) : o # w => ChainOf(t, o) = ChainOf(s, o)
         /\ SoundBut(t, w)
         /\ IsChain(t.fat, IF n = 0 THEN EOC ELSE Start(s, w), SubSeq(q, 1, n))
         /\ \A o \in Owners(s) : o # w => Range(ChainOf(t, o)) \cap Range(SubSeq(q, 1, n)) = {}
<1>1. /\ IsChain(s.fat, Start(s, w), q) /\ q \in Seq(Entries) /\ s.fat \in Fats
      /\ s.free \in Int /\ Len(q) \in Nat /\ s.data \in [Entries -> Contents]
  BY FieldsOfFileSystems DEF SoundClusters, IsChain
<1> DEFINE g == Cut(s.fat, q, n)
           d == [c \in Entries |-> IF c \in Excess(q, n) THEN <<>> ELSE s.data[c]]
<1>2. /\ g \in Fats
      /\ \A c \in Entries : c \notin Range(q) => g[c] = s.fat[c]
      /\ IsChain(g, IF n = 0 THEN EOC ELSE Start(s, w), SubSeq(q, 1, n))
      /\ Range(SubSeq(q, 1, n)) \subseteq Range(q)
      /\ Cardinality(Free(g)) = Cardinality(Free(s.fat)) + Len(q) - n
  BY <1>1, CutLeaves
<1>3. d \in [Entries -> Contents] /\ \A c \in Entries : c \notin Range(q) => d[c] = s.data[c]
  <2>1. <<>> \in Contents
    BY DEF Contents
  <2>2. Excess(q, n) \subseteq Range(q)
    BY <1>1 DEF Excess, Range
  <2> QED
    BY <1>1, <2>1, <2>2
<1>4. t = [s EXCEPT !.fat = g, !.free = s.free + Len(q) - n, !.data = d]
  BY DEF Drop, FileSystems
<1> HIDE DEF g, d
<1>5. /\ t \in FileSystems /\ t.fat = g /\ t.free = s.free + Len(q) - n
      /\ t.dir = s.dir /\ t.data = d /\ t.failed = s.failed
  <2>1. s.free + Len(q) - n \in Int
    BY <1>1
  <2> QED
    BY <1>2, <1>3, <1>4, <2>1 DEF FileSystems, Fats
<1>6. Owners(t) = Owners(s) /\ \A o : Start(t, o) = Start(s, o)
  BY <1>5, OwnersStay
<1>7. ASSUME NEW o \in Owners(s), o # w
      PROVE  /\ IsChain(t.fat, Start(s, o), ChainOf(s, o))
             /\ ChainOf(t, o) = ChainOf(s, o)
             /\ Range(ChainOf(s, o)) \cap Range(q) = {}
  <2>1. Range(ChainOf(s, o)) \cap Range(q) = {} /\ IsChain(s.fat, Start(s, o), ChainOf(s, o))
    BY <1>7 DEF SoundClusters
  <2>2. \A c \in Range(ChainOf(s, o)) : c \in Entries
    BY <2>1, ChainIsUsed
  <2>3. \A c \in Range(ChainOf(s, o)) : t.fat[c] = s.fat[c]
    BY <1>2, <1>5, <2>1, <2>2
  <2>4. IsChain(t.fat, Start(s, o), ChainOf(s, o))
    BY <2>1, <2>3, ChainFrame
  <2>5. ChainOf(t, o) = Chain(t.fat, Start(s, o))
    BY <1>5, OwnersStay
  <2>6. Start(s, o) \in {0, EOC} \cup Entries
    BY StartType
  <2> QED
    BY <1>2, <1>5, <2>1, <2>4, <2>5, <2>6, ChainIs
<1>8. SoundBut(t, w)
  <2>1. \A o \in Owners(t) : o # w => IsChain(t.fat, Start(t, o), ChainOf(t, o))
    BY <1>6, <1>7
  <2>2. \A o, p \in Owners(t) :
          o # w /\ p # w /\ o # p => Range(ChainOf(t, o)) \cap Range(ChainOf(t, p)) = {}
    BY <1>6, <1>7 DEF SoundClusters
  <2>3. t.free = Cardinality(Free(t.fat)) - (LastEntry - LastCluster)
    <3>1. s.free = Cardinality(Free(s.fat)) - (LastEntry - LastCluster)
      BY DEF SoundClusters
    <3>2. Cardinality(Free(s.fat)) \in Nat /\ LastEntry \in Int /\ LastCluster \in Int
      BY FreeIsFinite, SizesAssumption
    <3> QED
      BY <1>1, <1>2, <1>5, <3>1, <3>2
  <2> QED
    BY <2>1, <2>2, <2>3 DEF SoundBut
<1>9. \A o \in Owners(s) : o # w => Range(ChainOf(t, o)) \cap Range(SubSeq(q, 1, n)) = {}
  BY <1>2, <1>7
<1> QED
  BY <1>2, <1>3, <1>5, <1>7, <1>8, <1>9

\* u is sound, with p for the chain of w.
ChainedAgain(t, w, p, u) ==
  /\ SoundClusters(u)
  /\ \A o \in Owners(t) : o # w => ChainOf(u, o) = ChainOf(t, o)
  /\ w \in Owners(t) => ChainOf(u, w) = p

\* The owner that was left out gets a chain.
LEMMA SoundAgain ==
  ASSUME NEW t \in FileSystems, NEW w, SoundBut(t, w),
         NEW u \in FileSystems, u.fat = t.fat, u.free = t.free, Live(u) = Live(t),
         \A o \in Owners(t) : o # w => Start(u, o) = Start(t, o),
         NEW p, w \in Owners(t) => IsChain(t.fat, Start(u, w), p),
         \A o \in Owners(t) : o # w => Range(ChainOf(t, o)) \cap Range(p) = {}
  PROVE  ChainedAgain(t, w, p, u)
<1>1. Owners(u) = Owners(t)
  BY DEF Owners
<1>2. \A o \in Owners(t) : o # w => ChainOf(u, o) = ChainOf(t, o)
  BY DEF ChainOf
<1>3. w \in Owners(t) => ChainOf(u, w) = p
  <2>1. w \in Owners(t) => Start(u, w) \in {0, EOC} \cup Entries
    BY <1>1, StartType
  <2> QED
    BY <2>1, ChainIs, FieldsOfFileSystems DEF ChainOf
<1>4. \A o \in Owners(u) : IsChain(u.fat, Start(u, o), ChainOf(u, o))
  BY <1>1, <1>2, <1>3 DEF SoundBut
<1>5. ASSUME NEW o \in Owners(u), NEW o2 \in Owners(u), o # o2
      PROVE  Range(ChainOf(u, o)) \cap Range(ChainOf(u, o2)) = {}
  <2>1. CASE o = w
    BY <1>1, <1>2, <1>3, <1>5, <2>1
  <2>2. CASE o2 = w
    BY <1>1, <1>2, <1>3, <1>5, <2>2
  <2>3. CASE o # w /\ o2 # w
    BY <1>1, <1>2, <1>5, <2>3 DEF SoundBut
  <2> QED
    BY <2>1, <2>2, <2>3
<1>6. SoundClusters(u)
  BY <1>4, <1>5 DEF SoundClusters, SoundBut
<1> QED
  BY <1>2, <1>3, <1>6 DEF ChainedAgain

-------------------------------------------------------------------------------
\* The directory.
LEMMA SlotIs ==
  ASSUME NEW s, NEW name, Exists(s, name)
  PROVE  /\ Slot(s, name) \in Live(s) /\ Slot(s, name) \in Slots(s, name)
         /\ s.dir[Slot(s, name)].name = name /\ s.dir[Slot(s, name)].ended
<1>1. Slots(s, name) \in SUBSET Nat /\ Slots(s, name) # {}
  BY DEF Slots, Live, Exists
<1>2. Slot(s, name) \in Slots(s, name)
  BY <1>1, FirstIsLeast DEF Slot
<1> QED
  BY <1>2 DEF Slots

\* In a sound directory a name that is found, and a short name, leads to one slot.
LEMMA SlotOfName ==
  ASSUME NEW s, SoundDirectory(s), NEW i \in Live(s), s.dir[i].ended
  PROVE  Exists(s, s.dir[i].name) /\ Slot(s, s.dir[i].name) = i
<1>1. i \in Slots(s, s.dir[i].name)
  BY DEF Slots
<1>2. Exists(s, s.dir[i].name)
  BY <1>1 DEF Exists
<1> QED
  BY <1>2, SlotIs DEF SoundDirectory, Alike

LEMMA SlotOfShort ==
  ASSUME NEW s, SoundDirectory(s), NEW i \in Live(s)
  PROVE  First(SameShort(s, s.dir[i].short)) = i
<1>1. SameShort(s, s.dir[i].short) = {i}
  BY DEF SameShort, SoundDirectory, Alike
<1>2. {i} \in SUBSET Nat
  BY DEF Live
<1>3. First({i}) \in {i}
  BY <1>2, FirstIsLeast
<1> QED
  BY <1>1, <1>3

\* A slot is in the directory's clusters if its cluster is.
LEMMA BelowNextMultiple ==
  ASSUME NEW n \in Nat, NEW p \in Nat \ {0}, NEW k \in Nat, n \div p < k
  PROVE  n < p * k
OBVIOUS

\* The root directory grows, and nothing else.
LEMMA ReachSound ==
  ASSUME NEW s \in FileSystems, ~s.failed, SoundClusters(s), NEW n \in Nat,
         NEW t, t = Reach(s, n)
  PROVE  /\ t \in FileSystems /\ t.dir = s.dir /\ t.data = s.data
         /\ SoundClusters(t)
         /\ \A i \in Live(s) : ChainOf(t, i) = ChainOf(s, i)
         /\ Len(Chain(s.fat, Root)) <= Len(Chain(t.fat, Root))
         /\ ~t.failed => n < PerCluster * Len(Chain(t.fat, Root))
<1> DEFINE has == Chain(s.fat, Root)
           m   == n \div PerCluster + 1 - Len(has)
           u   == Take(s, LastOf(has), m)
           b   == u.failed \/ ~Exist(Chain(u.fat, Root))
<1>1. /\ 0 \in Owners(s) /\ ChainOf(s, 0) = has /\ has \in Seq(Entries) /\ has # <<>>
      /\ Len(has) \in Nat
  BY RootHasChain
<1>2. PerCluster \in Nat \ {0} /\ n \div PerCluster \in Nat
  BY SizesAssumption
<1>3. CASE n \div PerCluster < Len(has)
  <2>1. t = s
    BY <1>3 DEF Reach
  <2> QED
    BY <1>1, <1>2, <1>3, <2>1, BelowNextMultiple
<1>4. CASE ~(n \div PerCluster < Len(has))
  <2>1. m \in Nat /\ Behind(has) = LastOf(has)
    BY <1>1, <1>2, <1>4 DEF Behind
  <2> HIDE DEF has, m
  <2>2. /\ u \in FileSystems /\ u.dir = s.dir /\ u.data = s.data /\ SoundClusters(u)
        /\ \A o \in Owners(s) : o # 0 => ChainOf(u, o) = ChainOf(s, o)
        /\ \E r \in Seq(Entries) : (~u.failed => Len(r) = m) /\ ChainOf(u, 0) = has \o r
    <3>1. u = Take(s, Behind(has), m)
      BY <2>1
    <3> HIDE DEF u
    <3>2. has = ChainOf(s, 0) /\ 0 \in Owners(s) /\ m \in Nat
      BY <1>1, <2>1
    <3>3. Grew(s, 0, has, m, u)
      BY <3>1, <3>2, TakeSound, Zenon
    <3> QED
      BY <1>1, <3>3 DEF Grew
  <2>3. t = [u EXCEPT !.failed = b]
    <3>1. t = [u EXCEPT !.failed = @ \/ ~Exist(Chain(u.fat, Root))]
      BY <1>4 DEF Reach, has, m
    <3> QED
      BY <2>2, <3>1 DEF FileSystems
  <2>4. b \in BOOLEAN
    BY <2>2, FieldsOfFileSystems
  <2> HIDE DEF b, u
  <2>5. /\ t \in FileSystems /\ t.fat = u.fat /\ t.free = u.free
        /\ t.dir = u.dir /\ t.data = u.data /\ t.failed = b
    BY <2>2, <2>3, <2>4 DEF FileSystems, Fats
  <2>6. /\ Live(t) = Live(u) /\ Owners(t) = Owners(u) /\ \A o : Start(t, o) = Start(u, o)
        /\ \A o : ChainOf(t, o) = ChainOf(u, o)
    BY <2>5, OwnersStay DEF ChainOf
  <2>7. SoundClusters(t)
    BY <2>2, <2>5, <2>6 DEF SoundClusters
  <2>8. ChainOf(u, 0) = Chain(t.fat, Root)
    BY <2>5 DEF ChainOf, Start
  <2>9. \A i \in Live(s) : ChainOf(t, i) = ChainOf(s, i)
    <3>1. \A i \in Live(s) : i \in Owners(s) /\ i # 0
      BY DEF Owners, Live
    <3> QED
      BY <2>2, <2>6, <3>1
  <2>10. PICK r \in Seq(Entries) : (~u.failed => Len(r) = m) /\ ChainOf(u, 0) = has \o r
    BY <2>2
  <2>11. Len(Chain(t.fat, Root)) = Len(has) + Len(r) /\ Len(r) \in Nat
    BY <1>1, <2>8, <2>10
  <2>12. ~t.failed => Len(r) = m
    BY <2>5, <2>10 DEF b
  <2>13. ~t.failed => n \div PerCluster < Len(Chain(t.fat, Root))
    BY <1>1, <1>2, <2>11, <2>12 DEF m
  <2>14. ~t.failed => n < PerCluster * Len(Chain(t.fat, Root))
    <3>1. Len(Chain(t.fat, Root)) \in Nat
      BY <1>1, <2>11
    <3> QED
      BY <1>2, <2>13, <3>1, BelowNextMultiple
  <2> QED
    BY <1>1, <2>2, <2>5, <2>7, <2>9, <2>11, <2>14 DEF has
<1> QED
  BY <1>3, <1>4

\* The files of s are in t as they were.
Keeps(s, t) ==
  \A i \in Live(s) : /\ i \in Live(t) /\ t.dir[i] = s.dir[i]
                     /\ ChainOf(t, i) = ChainOf(s, i)
                     /\ \A c \in Range(ChainOf(s, i)) : t.data[c] = s.data[c]

Sound(s) == s \in FileSystems /\ SoundClusters(s) /\ SoundDirectory(s)

\* The directory is the same, in more clusters.
LEMMA SameDirectory ==
  ASSUME NEW s, SoundDirectory(s), SoundClusters(s), NEW t, SoundClusters(t), t.dir = s.dir,
         Len(Chain(s.fat, Root)) <= Len(Chain(t.fat, Root)),
         NEW n \in Nat, n = Len(s.dir)
  PROVE  SoundDirectory(t)
<1>1. Live(t) = Live(s)
  BY OwnersStay
<1>2. PerCluster \in Nat \ {0}
  BY SizesAssumption
<1>3. Len(Chain(s.fat, Root)) \in Nat /\ Len(Chain(t.fat, Root)) \in Nat
  BY RootHasChain
<1>4. Len(s.dir) <= PerCluster * Len(Chain(s.fat, Root))
  BY DEF SoundDirectory
<1>5. \A a, b \in Nat : a <= b => PerCluster * a <= PerCluster * b
  BY <1>2
<1>6. Len(t.dir) <= PerCluster * Len(Chain(t.fat, Root))
  <2>1. PerCluster * Len(Chain(s.fat, Root)) <= PerCluster * Len(Chain(t.fat, Root))
    BY <1>3, <1>5
  <2>2. PerCluster * Len(Chain(s.fat, Root)) \in Nat
    BY <1>2, <1>3
  <2>3. PerCluster * Len(Chain(t.fat, Root)) \in Nat
    BY <1>2, <1>3
  <2> QED
    BY <1>4, <2>1, <2>2, <2>3
<1> QED
  BY <1>1, <1>6 DEF SoundDirectory

\* Getting to a slot of the directory keeps the files.
LEMMA ReachKeeps ==
  ASSUME NEW s, Sound(s), ~s.failed, NEW n \in Nat, NEW t, t = Reach(s, n)
  PROVE  /\ Sound(t) /\ t.dir = s.dir /\ Keeps(s, t)
         /\ ~t.failed => n < PerCluster * Len(Chain(t.fat, Root))
<1>1. s \in FileSystems /\ SoundClusters(s) /\ SoundDirectory(s)
  BY DEF Sound
<1>2. /\ t \in FileSystems /\ t.dir = s.dir /\ t.data = s.data
      /\ SoundClusters(t)
      /\ \A i \in Live(s) : ChainOf(t, i) = ChainOf(s, i)
      /\ Len(Chain(s.fat, Root)) <= Len(Chain(t.fat, Root))
      /\ ~t.failed => n < PerCluster * Len(Chain(t.fat, Root))
  BY <1>1, ReachSound
<1>3. Len(s.dir) \in Nat
  BY <1>1, FieldsOfFileSystems
<1>4. SoundDirectory(t)
  BY <1>1, <1>2, <1>3, SameDirectory
<1>5. Live(t) = Live(s)
  BY <1>2, OwnersStay
<1>6. Keeps(s, t)
  BY <1>2, <1>5 DEF Keeps
<1> QED
  BY <1>2, <1>4, <1>6 DEF Sound

\* So does looking for a name.
LEMMA ScanSound ==
  ASSUME NEW s, Sound(s), ~s.failed, NEW name, NEW t, t = Scan(s, name)
  PROVE  /\ Sound(t) /\ t.dir = s.dir /\ Keeps(s, t)
         /\ Live(t) = Live(s) /\ Slots(t, name) = Slots(s, name)
         /\ Slot(t, name) = Slot(s, name) /\ (Exists(t, name) <=> Exists(s, name))
<1> DEFINE n == IF Exists(s, name) THEN Slot(s, name) ELSE Len(s.dir)
<1>1. n \in Nat
  <2>1. Len(s.dir) \in Nat
    BY FieldsOfFileSystems DEF Sound
  <2>2. Exists(s, name) => Slot(s, name) \in Nat
    BY SlotIs DEF Live
  <2> QED
    BY <2>1, <2>2
<1>2. t = Reach(s, n)
  BY DEF Scan
<1> HIDE DEF n
<1>3. Sound(t) /\ t.dir = s.dir /\ Keeps(s, t)
  BY <1>1, <1>2, ReachKeeps
<1>4. Live(t) = Live(s)
  BY <1>3, OwnersStay
<1>5. Slots(t, name) = Slots(s, name)
  BY <1>3, <1>4 DEF Slots
<1> QED
  BY <1>3, <1>4, <1>5 DEF Slot, Exists

\* A new entry, of an empty file.
WithEntry(s, e) == [s EXCEPT !.dir = @ \o <<LongSlot, e>>]

LEMMA Listed ==
  ASSUME NEW s \in FileSystems, SoundClusters(s), NEW e \in FileSlots, e.first = 0,
         NEW t, t = WithEntry(s, e), NEW n \in Nat, n = Len(s.dir)
  PROVE  /\ t \in FileSystems /\ t.failed = s.failed /\ Len(t.dir) = n + 2
         /\ Live(t) = Live(s) \cup {n + 2} /\ n + 2 \notin Live(s)
         /\ t.dir[n + 2] = e /\ \A i \in 1..n : t.dir[i] = s.dir[i]
         /\ SoundClusters(t) /\ Keeps(s, t)
         /\ Chain(t.fat, Root) = Chain(s.fat, Root)
<1> DEFINE d == s.dir \o <<LongSlot, e>>
<1>1. s.dir \in Seq(AnySlot) /\ s.fat \in Fats
  BY FieldsOfFileSystems
<1>2. LongSlot \in AnySlot /\ e \in AnySlot
  BY DEF AnySlot, FileSlots
<1>3. /\ d \in Seq(AnySlot) /\ Len(d) = n + 2 /\ d[n + 1] = LongSlot /\ d[n + 2] = e
      /\ \A i \in 1..n : d[i] = s.dir[i]
  BY <1>1, <1>2
<1>4. t = [s EXCEPT !.dir = d]
  BY DEF FileSystems, WithEntry
<1> HIDE DEF d
<1>5. /\ t \in FileSystems /\ t.fat = s.fat /\ t.free = s.free
      /\ t.dir = d /\ t.data = s.data /\ t.failed = s.failed
  BY <1>3, <1>4 DEF FileSystems, Fats
<1>6. e.kind = "file" /\ LongSlot.kind = "long"
  BY DEF FileSlots, LongSlot
<1>7. Live(t) = Live(s) \cup {n + 2} /\ n + 2 \notin Live(s)
  <2>1. \A i \in 1..(n + 2) : i \in 1..n \/ i = n + 1 \/ i = n + 2
    OBVIOUS
  <2>2. \A i \in 1..n : i \in 1..(n + 2) /\ i # n + 2
    OBVIOUS
  <2>3. n + 2 \in 1..(n + 2) /\ n + 2 \notin 1..n
    OBVIOUS
  <2> QED
    BY <1>3, <1>5, <1>6, <2>1, <2>2, <2>3 DEF Live
<1>8. /\ Start(t, n + 2) = 0 /\ Start(t, 0) = Start(s, 0)
      /\ \A i \in Live(s) : t.dir[i] = s.dir[i] /\ Start(t, i) = Start(s, i)
  BY <1>3, <1>5 DEF Start, Live
<1>9. \A o \in Owners(s) : ChainOf(t, o) = ChainOf(s, o) /\ Start(t, o) = Start(s, o)
  BY <1>5, <1>8 DEF ChainOf, Owners
<1>10. IsChain(t.fat, 0, <<>>)
  BY DEF IsChain, IsInjective
<1>11. ChainOf(t, n + 2) = <<>>
  <2>1. Chain(t.fat, 0) = <<>>
    BY <1>1, <1>5, <1>10, ChainIs
  <2> QED
    BY <1>8, <2>1 DEF ChainOf
<1>12. Owners(t) = Owners(s) \cup {n + 2} /\ n + 2 \notin Owners(s)
  <2>1. n + 2 # 0
    OBVIOUS
  <2> QED
    BY <1>7, <2>1 DEF Owners
<1>13. Range(ChainOf(t, n + 2)) = {}
  BY <1>11 DEF Range
<1>14. SoundClusters(t)
  <2>1. \A o \in Owners(t) : IsChain(t.fat, Start(t, o), ChainOf(t, o))
    BY <1>5, <1>8, <1>9, <1>10, <1>11, <1>12 DEF SoundClusters
  <2>2. \A o, p \in Owners(t) : o # p => Range(ChainOf(t, o)) \cap Range(ChainOf(t, p)) = {}
    <3> SUFFICES ASSUME NEW o \in Owners(t), NEW p \in Owners(t), o # p
                 PROVE  Range(ChainOf(t, o)) \cap Range(ChainOf(t, p)) = {}
      OBVIOUS
    <3>1. CASE o = n + 2 \/ p = n + 2
      BY <1>13, <3>1
    <3>2. CASE o # n + 2 /\ p # n + 2
      BY <1>9, <1>12, <3>2 DEF SoundClusters
    <3> QED
      BY <3>1, <3>2
  <2>3. t.free = Cardinality(Free(t.fat)) - (LastEntry - LastCluster)
    BY <1>5 DEF SoundClusters
  <2> QED
    BY <2>1, <2>2, <2>3 DEF SoundClusters
<1>15. Keeps(s, t)
  BY <1>5, <1>7, <1>8, <1>9 DEF Keeps, Owners
<1> QED
  BY <1>3, <1>5, <1>7, <1>14, <1>15

\* A numbered short name is a short name.
LEMMA NumberedIs ==
  ASSUME NEW name \in Names, NEW k \in 0..LastNumber
  PROVE  Numbered(name, k) \in ShortNames
BY SizesAssumption DEF Numbered, ShortNames

\* What two steps keep, both together keep.
LEMMA KeepsBoth ==
  ASSUME NEW s, NEW t, NEW u, Keeps(s, t), Keeps(t, u)
  PROVE  Keeps(s, u)
BY DEF Keeps

\* Files that are not found by their names.
Unended(s) == {i \in Live(s) : ~s.dir[i].ended}

\* The entry is there, and the other files are as they were.
LEMMA EntrySound ==
  ASSUME NEW s, Sound(s), ~s.failed, NEW name \in Names, NEW t, t = Entry(s, name)
  PROVE  /\ Sound(t) /\ Keeps(s, t)
         /\ ~t.failed => /\ Exists(t, name)
                         /\ Unended(t) \subseteq Unended(s)
<1> DEFINE r == Scan(s, name)
           n == Len(r.dir)
           k == First(Untaken(r, name))
           e == FileSlot(name, TRUE, Numbered(name, k), 0, 0)
           u == Reach(r, n + 3)
<1>1. /\ Sound(r) /\ r.dir = s.dir /\ Keeps(s, r) /\ Live(r) = Live(s)
      /\ Exists(r, name) <=> Exists(s, name)
  BY ScanSound
<1>2. n \in Nat /\ r \in FileSystems /\ SoundClusters(r) /\ SoundDirectory(r)
  BY <1>1, FieldsOfFileSystems DEF Sound
<1> HIDE DEF r, n
<1>0. Unended(r) \subseteq Unended(s)
  BY <1>1 DEF Unended
<1>3. CASE Exists(s, name)
  <2>1. t = r
    BY <1>3 DEF Entry, r
  <2> QED
    BY <1>0, <1>1, <1>3, <2>1
<1>4. CASE ~Exists(s, name) /\ r.failed
  <2>1. t = r
    BY <1>4 DEF Entry, r
  <2> QED
    BY <1>1, <1>4, <2>1
<1>5. CASE ~Exists(s, name) /\ ~r.failed /\ Untaken(r, name) = {}
  <2>1. t = [r EXCEPT !.failed = TRUE]
    BY <1>5 DEF Entry, r
  <2>2. /\ t \in FileSystems /\ t.fat = r.fat /\ t.free = r.free
        /\ t.dir = r.dir /\ t.data = r.data /\ t.failed
    BY <1>2, <2>1 DEF FileSystems
  <2>3. /\ Live(t) = Live(r) /\ Owners(t) = Owners(r) /\ \A o : Start(t, o) = Start(r, o)
        /\ \A o : ChainOf(t, o) = ChainOf(r, o)
    BY <2>2, OwnersStay DEF ChainOf
  <2>4. SoundClusters(t) /\ SoundDirectory(t)
    BY <1>2, <2>2, <2>3 DEF SoundClusters, SoundDirectory
  <2>5. Keeps(r, t)
    BY <2>2, <2>3 DEF Keeps
  <2> QED
    BY <1>1, <2>2, <2>4, <2>5, KeepsBoth DEF Sound
<1>6. CASE ~Exists(s, name) /\ ~r.failed /\ Untaken(r, name) # {}
  <2>1. k \in Untaken(r, name) /\ k \in 0..LastNumber
    <3>1. Untaken(r, name) \in SUBSET Nat
      BY DEF Untaken
    <3>2. k \in Untaken(r, name)
      BY <1>6, <3>1, FirstIsLeast
    <3> QED
      BY <3>2 DEF Untaken
  <2>2. /\ e \in FileSlots /\ e.first = 0 /\ e.name = name /\ e.ended
        /\ e.short = Numbered(name, k)
    BY <2>1, NumberedIs, SizesAssumption DEF FileSlot, FileSlots
  <2>3. /\ Sound(u) /\ u.dir = r.dir /\ Keeps(r, u)
        /\ ~u.failed => n + 3 < PerCluster * Len(Chain(u.fat, Root))
    <3>1. n + 3 \in Nat
      BY <1>2
    <3> QED
      BY <1>1, <1>6, <3>1, ReachKeeps
  <2>4. t = IF u.failed THEN u ELSE [u EXCEPT !.dir = @ \o <<LongSlot, e>>]
    <3>1. t = Add(r, <<LongSlot, e>>)
      BY <1>6 DEF Entry, r
    <3>2. Len(<<LongSlot, e>>) = 2
      OBVIOUS
    <3>3. n + 2 + 1 = n + 3
      BY <1>2
    <3>4. Add(r, <<LongSlot, e>>) = IF Reach(r, n + 2 + 1).failed THEN Reach(r, n + 2 + 1)
            ELSE [Reach(r, n + 2 + 1) EXCEPT !.dir = @ \o <<LongSlot, e>>]
      BY <3>2 DEF Add, n
    <3> HIDE DEF e
    <3> QED
      BY <3>1, <3>3, <3>4
  <2> HIDE DEF u, e, k
  <2>5. CASE u.failed
    <3>1. t = u
      BY <2>4, <2>5
    <3>2. Keeps(s, u)
      BY <1>1, <2>3, KeepsBoth
    <3> QED
      BY <2>3, <2>5, <3>1, <3>2
  <2>6. CASE ~u.failed
    <3>1. t = WithEntry(u, e)
      BY <2>4, <2>6 DEF WithEntry
    <3>2. n = Len(u.dir) /\ u \in FileSystems /\ SoundClusters(u) /\ SoundDirectory(u)
      BY <2>3 DEF n, Sound
    <3>3. /\ t \in FileSystems /\ t.failed = u.failed /\ Len(t.dir) = n + 2
          /\ Live(t) = Live(u) \cup {n + 2} /\ n + 2 \notin Live(u)
          /\ t.dir[n + 2] = e /\ \A i \in 1..n : t.dir[i] = u.dir[i]
          /\ SoundClusters(t) /\ Keeps(u, t)
          /\ Chain(t.fat, Root) = Chain(u.fat, Root)
      BY <1>2, <2>2, <3>1, <3>2, Listed
    <3>4. Live(u) = Live(s) /\ u.dir = s.dir
      BY <1>1, <2>3, OwnersStay
    <3>5. \A i \in Live(u) : /\ i \in 1..n /\ t.dir[i] = u.dir[i]
                             /\ ~(u.dir[i].name = name /\ u.dir[i].ended)
      BY <1>6, <3>2, <3>3, <3>4 DEF Live, Exists, Slots
    <3>6. \A i \in Live(u) : u.dir[i].short # Numbered(name, k)
      BY <1>1, <2>1, <2>3, <3>4 DEF Untaken
    <3>7. \A i, j \in Live(t) : Alike(t.dir[i], t.dir[j]) => i = j
      <4>1. \A i \in Live(u) : ~Alike(t.dir[i], e) /\ ~Alike(e, t.dir[i])
        BY <2>2, <3>5, <3>6 DEF Alike
      <4>2. \A i, j \in Live(u) : Alike(t.dir[i], t.dir[j]) => i = j
        BY <3>2, <3>5 DEF SoundDirectory
      <4> QED
        BY <3>3, <4>1, <4>2
    <3>8. \A i \in Live(t) : \E j \in 0..LastNumber :
            t.dir[i].short = Numbered(t.dir[i].name, j)
      <4>1. \A i \in Live(u) : \E j \in 0..LastNumber :
              t.dir[i].short = Numbered(t.dir[i].name, j)
        BY <3>2, <3>5 DEF SoundDirectory
      <4>2. t.dir[n + 2].short = Numbered(t.dir[n + 2].name, k)
        BY <2>2, <3>3
      <4> QED
        BY <2>1, <3>3, <4>1, <4>2
    <3>9. Len(t.dir) <= PerCluster * Len(Chain(t.fat, Root))
      <4>1. PerCluster * Len(Chain(u.fat, Root)) \in Int
        BY <3>2, RootHasChain, SizesAssumption
      <4> QED
        BY <1>2, <2>3, <2>6, <3>3, <4>1
    <3>10. Sound(t)
      BY <3>3, <3>7, <3>8, <3>9 DEF Sound, SoundDirectory
    <3>11. Keeps(s, t)
      BY <1>1, <2>3, <3>3, KeepsBoth
    <3>12. Exists(t, name)
      BY <2>2, <3>3 DEF Exists, Slots
    <3>13. Unended(t) \subseteq Unended(s)
      BY <2>2, <3>3, <3>4, <3>5 DEF Unended
    <3> QED
      BY <3>10, <3>11, <3>12, <3>13
  <2> QED
    BY <2>5, <2>6
<1> QED
  BY <1>3, <1>4, <1>5, <1>6

-------------------------------------------------------------------------------
\* Writing a file.
FirstFor(s, i, size) ==
  IF size = 0 THEN EOC ELSE IF ChainOf(s, i) = <<>> THEN First(Free(s.fat)) ELSE Start(s, i)

\* In t the chain of the i-th slot has been brought to the size, but for the slot itself.
Resized(s, i, size, t) ==
  /\ t \in FileSystems /\ t.dir = s.dir
  /\ \A o \in Owners(s) : o # i => ChainOf(t, o) = ChainOf(s, o)
  /\ \A c \in Entries : c \notin Range(ChainOf(s, i)) => t.data[c] = s.data[c]
  /\ SoundBut(t, i)
  /\ t.failed \/ size > 0 => SoundClusters(t)
  /\ ~t.failed => \E p : /\ IsChain(t.fat, FirstFor(s, i, size), p) /\ Len(p) = size
                         /\ \A o \in Owners(s) :
                              o # i => Range(ChainOf(t, o)) \cap Range(p) = {}

\* Making a chain longer or shorter leaves the others as they were.
LEMMA ResizeSound ==
  ASSUME NEW s \in FileSystems, ~s.failed, SoundClusters(s), NEW i \in Live(s),
         NEW size \in Nat, NEW t, t = Resize(s, ChainOf(s, i), size)
  PROVE  Resized(s, i, size, t)
<1> DEFINE q == ChainOf(s, i)
           x == FirstFor(s, i, size)
<1>1. /\ i \in Owners(s) /\ i # 0 /\ IsChain(s.fat, Start(s, i), q) /\ q \in Seq(Entries)
      /\ Len(q) \in Nat
  BY DEF Owners, Live, SoundClusters, IsChain
<1>2. \A o \in Owners(s) : o # i => Range(ChainOf(s, o)) \cap Range(q) = {}
  BY <1>1 DEF SoundClusters
<1>3. x = IF size = 0 THEN EOC ELSE IF q = <<>> THEN First(Free(s.fat)) ELSE Start(s, i)
  BY DEF FirstFor
<1> HIDE DEF x
<1>4. CASE Len(q) < size
  <2> DEFINE m == size - Len(q)
  <2>1. m \in Nat /\ t = Take(s, Behind(q), m) /\ size # 0
    BY <1>1, <1>4 DEF Resize, Behind
  <2> HIDE DEF m, q
  <2>2. Grew(s, i, q, m, t)
    <3>1. q = ChainOf(s, i)
      BY DEF q
    <3> QED
      BY <1>1, <2>1, <3>1, TakeSound, Zenon
  <2>3. /\ t \in FileSystems /\ t.dir = s.dir /\ t.data = s.data /\ SoundClusters(t)
        /\ \A o \in Owners(s) : o # i => ChainOf(t, o) = ChainOf(s, o)
    BY <2>2 DEF Grew
  <2>4. ASSUME ~t.failed
        PROVE  \E p : /\ IsChain(t.fat, x, p) /\ Len(p) = size
                      /\ \A o \in Owners(s) : o # i => Range(ChainOf(t, o)) \cap Range(p) = {}
    <3>1. PICK r \in Seq(Entries) :
            /\ Len(r) = m
            /\ r # <<>> => r[1] = First(Free(s.fat))
            /\ IsChain(t.fat, IF q # <<>> \/ r = <<>> THEN Start(s, i) ELSE r[1], q \o r)
            /\ \A o \in Owners(s) : o # i => Range(ChainOf(t, o)) \cap Range(q \o r) = {}
      BY <2>2, <2>4 DEF Grew
    <3>2. r # <<>> /\ Len(q \o r) = size
      BY <1>1, <1>4, <3>1 DEF m
    <3>3. IsChain(t.fat, x, q \o r)
      BY <1>3, <2>1, <3>1, <3>2
    <3> QED
      BY <3>1, <3>2, <3>3
  <2> QED
    BY <2>3, <2>4, SoundButOne DEF Resized, x
<1>5. CASE Len(q) > size
  <2>1. t = Drop(s, q, size) /\ q # <<>>
    BY <1>1, <1>5 DEF Resize
  <2> HIDE DEF q
  <2>2. /\ t \in FileSystems /\ t.dir = s.dir /\ t.failed = s.failed
        /\ \A c \in Entries : c \notin Range(q) => t.data[c] = s.data[c]
        /\ \A o \in Owners(s) : o # i => ChainOf(t, o) = ChainOf(s, o)
        /\ SoundBut(t, i)
        /\ IsChain(t.fat, IF size = 0 THEN EOC ELSE Start(s, i), SubSeq(q, 1, size))
        /\ \A o \in Owners(s) :
             o # i => Range(ChainOf(t, o)) \cap Range(SubSeq(q, 1, size)) = {}
    <3>1. q = ChainOf(s, i) /\ size < Len(q)
      BY <1>1, <1>5 DEF q
    <3> QED
      BY <1>1, <2>1, <3>1, DropSound
  <2> DEFINE p == SubSeq(q, 1, size)
  <2>3. Len(p) = size
    BY <1>1, <1>5
  <2> HIDE DEF p
  <2>4. IsChain(t.fat, x, p)
    BY <1>3, <2>1, <2>2 DEF p
  <2>5. Owners(t) = Owners(s) /\ Live(t) = Live(s) /\ \A o : Start(t, o) = Start(s, o)
    BY <2>2, OwnersStay
  <2>6. \A o \in Owners(t) : o # i => Range(ChainOf(t, o)) \cap Range(p) = {}
    BY <2>2, <2>5 DEF p
  <2>7. ASSUME size > 0
        PROVE  SoundClusters(t)
    <3>1. IsChain(t.fat, Start(t, i), p)
      BY <1>3, <2>1, <2>4, <2>5, <2>7
    <3>2. ChainedAgain(t, i, p, t)
      BY <2>2, <2>5, <2>6, <3>1, SoundAgain
    <3> QED
      BY <3>2 DEF ChainedAgain
  <2> QED
    BY <2>2, <2>3, <2>4, <2>5, <2>6, <2>7 DEF Resized, x, q
<1>6. CASE Len(q) = size
  <2>1. t = s
    BY <1>6 DEF Resize
  <2>2. IsChain(t.fat, x, q)
    <3>1. CASE size = 0
      BY <1>1, <1>3, <1>6, <2>1, <3>1 DEF IsChain
    <3>2. CASE size # 0
      BY <1>1, <1>3, <1>6, <2>1, <3>2
    <3> QED
      BY <3>1, <3>2
  <2> HIDE DEF q
  <2> QED
    BY <1>2, <1>6, <2>1, <2>2, SoundButOne DEF Resized, x
<1> QED
  BY <1>1, <1>4, <1>5, <1>6

\* The clusters of q hold the parts of a file, as far as they exist.
Filled(s, q, name, version, t) ==
  /\ t \in FileSystems /\ t.fat = s.fat /\ t.free = s.free /\ t.dir = s.dir
  /\ t.failed = s.failed
  /\ \A c \in Entries : c \notin Range(q) => t.data[c] = s.data[c]
  /\ Exist(q) => \A k \in 1..Len(q) : t.data[q[k]] = <<name, k, version>>

LEMMA FillIs ==
  ASSUME NEW s \in FileSystems, NEW q \in Seq(Entries), IsInjective(q), Len(q) <= MaxSize,
         NEW name \in Names, NEW version \in 1..MaxWrites, NEW t, t = Fill(s, q, name, version)
  PROVE  Filled(s, q, name, version, t)
<1> DEFINE At(c) == CHOOSE i \in 1..Len(q) : q[i] = c
           d == [c \in Entries |-> IF c \in Range(q) \cap Clusters
                                   THEN <<name, At(c), version>> ELSE s.data[c]]
<1>1. /\ Len(q) \in Nat /\ MaxSize \in Nat /\ DOMAIN q = 1..Len(q)
      /\ s.data \in [Entries -> Contents]
      /\ \A c \in Range(q) : \E i \in 1..Len(q) : q[i] = c
  <2>1. DOMAIN q = 1..Len(q) /\ Len(q) \in Nat
    OBVIOUS
  <2>2. \A c \in Range(q) : \E i \in 1..Len(q) : q[i] = c
    BY <2>1, Zenon DEF Range
  <2>3. MaxSize \in Nat
    BY SizesAssumption
  <2>4. s.data \in [Entries -> Contents]
    BY FieldsOfFileSystems
  <2> QED
    BY <2>1, <2>2, <2>3, <2>4
<1>2. \A c \in Range(q) : At(c) \in 1..Len(q) /\ q[At(c)] = c
  BY <1>1
<1>3. \A k \in 1..Len(q) : q[k] \in Entries /\ q[k] \in Range(q)
  BY <1>1 DEF Range
<1> HIDE DEF At
<1>4. \A k \in 1..Len(q) : At(q[k]) = k
  BY <1>1, <1>2, <1>3 DEF IsInjective
<1>5. \A c \in Range(q) : <<name, At(c), version>> \in Contents
  <2> SUFFICES ASSUME NEW c \in Range(q)
               PROVE  <<name, At(c), version>> \in Contents
    OBVIOUS
  <2>1. At(c) \in 1..MaxSize
    BY <1>1, <1>2
  <2> QED
    BY <2>1 DEF Contents
<1>6. d \in [Entries -> Contents]
  BY <1>1, <1>5
<1>7. \A c \in Entries : c \notin Range(q) => d[c] = s.data[c]
  OBVIOUS
<1>8. Exist(q) => \A k \in 1..Len(q) : d[q[k]] = <<name, k, version>>
  BY <1>3, <1>4 DEF Exist
<1>9. t = [s EXCEPT !.data = d]
  BY DEF Fill, FileSystems, At
<1> HIDE DEF d
<1>10. /\ t \in FileSystems /\ t.fat = s.fat /\ t.free = s.free /\ t.dir = s.dir
       /\ t.failed = s.failed /\ t.data = d
  BY <1>6, <1>9 DEF FileSystems
<1> QED
  BY <1>7, <1>8, <1>10 DEF Filled

\* One slot changes, and nothing else.
WithSlot(s, i, e) == [s EXCEPT !.dir = [@ EXCEPT ![i] = e]]

LEMMA WithSlotIs ==
  ASSUME NEW s \in FileSystems, NEW i \in 1..Len(s.dir), NEW e \in AnySlot,
         NEW t, t = WithSlot(s, i, e)
  PROVE  /\ t \in FileSystems /\ t.fat = s.fat /\ t.free = s.free /\ t.data = s.data
         /\ t.failed = s.failed /\ Len(t.dir) = Len(s.dir)
         /\ t.dir[i] = e /\ \A j \in 1..Len(s.dir) : j # i => t.dir[j] = s.dir[j]
<1> DEFINE d == [s.dir EXCEPT ![i] = e]
<1>1. s.dir \in Seq(AnySlot)
  BY FieldsOfFileSystems
<1>2. /\ d \in Seq(AnySlot) /\ Len(d) = Len(s.dir) /\ d[i] = e
      /\ \A j \in 1..Len(s.dir) : j # i => d[j] = s.dir[j]
  BY <1>1
<1>3. t = [s EXCEPT !.dir = d]
  BY DEF WithSlot, FileSystems
<1> HIDE DEF d
<1>4. /\ t \in FileSystems /\ t.fat = s.fat /\ t.free = s.free
      /\ t.dir = d /\ t.data = s.data /\ t.failed = s.failed
  BY <1>2, <1>3 DEF FileSystems
<1> QED
  BY <1>2, <1>4

\* The file of the i-th slot is written, and the others are as they were.
Rewritten(s, i, t) ==
  /\ Live(t) = Live(s)
  /\ \A j \in Live(s) : t.dir[j].ended = s.dir[j].ended
  /\ \A j \in Live(s) : j # i => /\ t.dir[j] = s.dir[j] /\ ChainOf(t, j) = ChainOf(s, j)
                                 /\ \A c \in Range(ChainOf(s, j)) : t.data[c] = s.data[c]

\* writeFile() from the entry on: the file reads back, the others are as they were.
LEMMA RewriteSound ==
  ASSUME NEW s, Sound(s), ~s.failed, NEW name \in Names, Exists(s, name),
         NEW size \in 0..MaxSize, NEW version \in 1..MaxWrites,
         NEW t, t = Rewrite(s, name, size, version)
  PROVE  /\ Sound(t)
         /\ ~t.failed => /\ Rewritten(s, Slot(s, name), t)
                         /\ ReadsBack(t, name, size, version)
<1> DEFINE i == Slot(s, name)
           entry == s.dir[i]
           chain == ChainOf(s, i)
           sized == Resize(s, chain, size)
           first == FirstFor(s, i, size)
           now == Chain(sized.fat, first)
           written == Fill(sized, now, name, version)
           e == FileSlot(entry.name, entry.ended, entry.short, first, size)
<1>1. s \in FileSystems /\ SoundClusters(s) /\ SoundDirectory(s)
  BY DEF Sound
<1>2. i \in Live(s) /\ entry.name = name /\ entry.ended
  BY SlotIs
<1>3. First(SameShort(s, entry.short)) = i
  BY <1>1, <1>2, SlotOfShort
<1>4. /\ i \in Owners(s) /\ i # 0 /\ i \in 1..Len(s.dir) /\ Start(s, i) = entry.first
      /\ chain = Chain(s.fat, entry.first)
  BY <1>2 DEF Live, Owners, Start, ChainOf
<1>5. size \in Nat /\ size <= MaxSize
  BY SizesAssumption
<1>6. t = IF sized.failed THEN sized
          ELSE IF ~Exist(now) THEN [written EXCEPT !.failed = TRUE]
          ELSE WithSlot(written, i, e)
  BY <1>3, <1>4 DEF Rewrite, WithSlot, FirstFor
<1> HIDE DEF i, first
<1>7. Resized(s, i, size, sized)
  <2> HIDE DEF sized, chain
  <2>1. sized = Resize(s, ChainOf(s, i), size)
    BY DEF sized, chain
  <2> QED
    BY <1>1, <1>2, <1>5, <2>1, ResizeSound, Zenon
<1> HIDE DEF sized, chain, entry
<1>8. /\ sized \in FileSystems /\ sized.dir = s.dir
      /\ \A o \in Owners(s) : o # i => ChainOf(sized, o) = ChainOf(s, o)
      /\ \A c \in Entries : c \notin Range(chain) => sized.data[c] = s.data[c]
      /\ SoundBut(sized, i)
      /\ sized.failed \/ size > 0 => SoundClusters(sized)
  BY <1>7 DEF Resized, chain
<1>9. /\ Live(sized) = Live(s) /\ Owners(sized) = Owners(s)
      /\ \A o : Start(sized, o) = Start(s, o)
  BY <1>8, OwnersStay
<1>10. Chain(sized.fat, Root) = Chain(s.fat, Root)
  <2>1. 0 \in Owners(s) /\ Start(s, 0) = Root
    BY DEF Owners, Start
  <2> QED
    BY <1>4, <1>8, <1>9, <2>1 DEF ChainOf
<1>11. SoundDirectory(sized)
  BY <1>1, <1>8, <1>9, <1>10 DEF SoundDirectory
<1>12. CASE sized.failed
  BY <1>6, <1>8, <1>11, <1>12 DEF Sound
<1>13. CASE ~sized.failed
  <2>1. PICK p : /\ IsChain(sized.fat, first, p) /\ Len(p) = size
                 /\ \A o \in Owners(s) : o # i => Range(ChainOf(sized, o)) \cap Range(p) = {}
    BY <1>7, <1>13 DEF Resized, first
  <2>2. sized.fat \in Fats /\ first \in {0, EOC} \cup Entries
    <3>1. sized.fat \in Fats
      BY <1>8, FieldsOfFileSystems
    <3>2. p = <<>> => first \in {0, EOC}
      BY <2>1 DEF IsChain
    <3>3. p # <<>> => first = p[1] /\ p[1] \in Entries
      BY <2>1 DEF IsChain
    <3> QED
      BY <3>1, <3>2, <3>3
  <2>3. now = p
    BY <2>1, <2>2, ChainIs
  <2>4. now \in Seq(Entries) /\ IsInjective(now) /\ Len(now) = size
    BY <2>1, <2>3 DEF IsChain
  <2>5. IsChain(sized.fat, first, now)
    BY <2>1, <2>3
  <2>6. \A o \in Owners(s) : o # i => Range(ChainOf(sized, o)) \cap Range(now) = {}
    BY <2>1, <2>3
  <2> HIDE DEF now
  <2>7. /\ written \in FileSystems /\ written.fat = sized.fat /\ written.free = sized.free
        /\ written.dir = sized.dir /\ written.failed = sized.failed
        /\ \A c \in Entries : c \notin Range(now) => written.data[c] = sized.data[c]
        /\ Exist(now) => \A k \in 1..Len(now) : written.data[now[k]] = <<name, k, version>>
    <3> HIDE DEF written
    <3>1. written = Fill(sized, now, name, version)
      BY DEF written
    <3>2. Len(now) <= MaxSize
      BY <1>5, <2>4
    <3>3. Filled(sized, now, name, version, written)
      BY <1>8, <2>4, <3>1, <3>2, FillIs
    <3> QED
      BY <3>3 DEF Filled
  <2> HIDE DEF written
  <2>8. CASE ~Exist(now)
    <3>1. t = [written EXCEPT !.failed = TRUE]
      BY <1>6, <1>13, <2>8
    <3>2. /\ t \in FileSystems /\ t.fat = written.fat /\ t.free = written.free
          /\ t.dir = written.dir /\ t.failed
      BY <2>7, <3>1 DEF FileSystems
    <3>3. size > 0
      <4>1. size = 0 => now = <<>>
        BY <2>4
      <4>2. Exist(<<>>)
        BY DEF Exist, Range
      <4> QED
        BY <1>5, <2>8, <4>1, <4>2
    <3>4. SoundClusters(sized)
      BY <1>8, <3>3
    <3>5. /\ t.fat = sized.fat /\ t.free = sized.free /\ t.dir = sized.dir
      BY <2>7, <3>2
    <3>6. /\ Live(t) = Live(sized) /\ Owners(t) = Owners(sized)
          /\ \A o : Start(t, o) = Start(sized, o)
          /\ \A o : ChainOf(t, o) = ChainOf(sized, o)
      BY <3>5, OwnersStay DEF ChainOf
    <3>7. SoundClusters(t) /\ SoundDirectory(t)
      BY <1>11, <3>4, <3>5, <3>6 DEF SoundClusters, SoundDirectory
    <3> QED
      BY <3>2, <3>7 DEF Sound
  <2>9. CASE Exist(now)
    <3>1. /\ e \in FileSlots /\ e.name = name /\ e.ended = entry.ended
          /\ e.short = entry.short
          /\ e.first = first /\ e.size = size /\ e.kind = "file"
      <4>1. entry.short \in ShortNames /\ entry.ended \in BOOLEAN
        BY <1>1, <1>2, LiveIsFile DEF entry
      <4> QED
        BY <1>2, <2>2, <4>1 DEF FileSlot, FileSlots
    <3>2. t = WithSlot(written, i, e)
      BY <1>6, <1>13, <2>9
    <3> HIDE DEF e
    <3>3. /\ t \in FileSystems /\ t.fat = written.fat /\ t.free = written.free
          /\ t.data = written.data
          /\ t.failed = written.failed /\ Len(t.dir) = Len(written.dir)
          /\ t.dir[i] = e /\ \A j \in 1..Len(written.dir) : j # i => t.dir[j] = written.dir[j]
      <4>1. e \in AnySlot
        BY <3>1 DEF AnySlot, FileSlots
      <4>2. i \in 1..Len(written.dir)
        BY <1>4, <1>8, <2>7
      <4> QED
        BY <2>7, <3>2, <4>1, <4>2, WithSlotIs
    <3>4. /\ t.fat = sized.fat /\ t.free = sized.free /\ Len(t.dir) = Len(s.dir)
          /\ \A j \in 1..Len(s.dir) : j # i => t.dir[j] = s.dir[j]
      BY <1>8, <2>7, <3>3
    <3>5. Live(t) = Live(s) /\ Live(t) = Live(sized)
      <4>1. i \in 1..Len(s.dir) /\ s.dir[i].kind = "file" /\ t.dir[i].kind = "file"
        BY <1>2, <3>1, <3>3 DEF Live
      <4>2. \A j \in 1..Len(s.dir) : t.dir[j].kind = "file" <=> s.dir[j].kind = "file"
        BY <3>4, <4>1
      <4>3. Live(t) = Live(s)
        BY <3>4, <4>2 DEF Live
      <4> QED
        BY <1>9, <4>3
    <3>6. \A o \in Owners(sized) : o # i => Start(t, o) = Start(sized, o)
      <4> SUFFICES ASSUME NEW o \in Owners(s), o # i
                   PROVE  Start(t, o) = Start(s, o)
        BY <1>9
      <4>1. CASE o = 0
        BY <4>1 DEF Start
      <4>2. CASE o # 0
        BY <3>4, <4>2 DEF Start, Owners, Live
      <4> QED
        BY <4>1, <4>2
    <3>7. Start(t, i) = first
      BY <1>4, <3>1, <3>3 DEF Start
    <3>8. \A o \in Owners(sized) : o # i => Range(ChainOf(sized, o)) \cap Range(now) = {}
      BY <1>9, <2>6
    <3>9. /\ SoundClusters(t)
          /\ \A o \in Owners(sized) : o # i => ChainOf(t, o) = ChainOf(sized, o)
          /\ i \in Owners(sized) => ChainOf(t, i) = now
      <4>1. IsChain(sized.fat, Start(t, i), now)
        BY <2>5, <3>7
      <4>2. ChainedAgain(sized, i, now, t)
        BY <1>8, <3>3, <3>4, <3>5, <3>6, <3>8, <4>1, SoundAgain
      <4> QED
        BY <4>2 DEF ChainedAgain
    <3>10. /\ ChainOf(t, i) = now
           /\ \A o \in Owners(s) : o # i => ChainOf(t, o) = ChainOf(s, o)
      BY <1>4, <1>8, <1>9, <3>9
    <3>11. \A j \in Live(s) : /\ t.dir[j].name = s.dir[j].name
                              /\ t.dir[j].short = s.dir[j].short
                              /\ t.dir[j].ended = s.dir[j].ended
      BY <1>2, <3>1, <3>3, <3>4 DEF Live, entry
    <3>12. SoundDirectory(t)
      <4>1. Chain(t.fat, Root) = Chain(s.fat, Root)
        BY <1>10, <3>4
      <4>2. \A j, k \in Live(t) : Alike(t.dir[j], t.dir[k]) => j = k
        <5> SUFFICES ASSUME NEW j \in Live(s), NEW k \in Live(s), Alike(t.dir[j], t.dir[k])
                     PROVE  j = k
          BY <3>5
        <5>1. Alike(s.dir[j], s.dir[k])
          BY <3>11 DEF Alike
        <5> QED
          BY <1>1, <5>1 DEF SoundDirectory
      <4>3. \A j \in Live(t) : \E n \in 0..LastNumber : t.dir[j].short = Numbered(t.dir[j].name, n)
        BY <1>1, <3>5, <3>11 DEF SoundDirectory
      <4>4. Len(t.dir) <= PerCluster * Len(Chain(t.fat, Root))
        BY <1>1, <3>4, <4>1 DEF SoundDirectory
      <4> QED
        BY <4>2, <4>3, <4>4 DEF SoundDirectory
    <3>13. ASSUME NEW j \in Live(s), j # i
           PROVE  /\ t.dir[j] = s.dir[j] /\ ChainOf(t, j) = ChainOf(s, j)
                  /\ \A c \in Range(ChainOf(s, j)) : t.data[c] = s.data[c]
      <4>1. j \in Owners(s) /\ j \in 1..Len(s.dir)
        BY DEF Owners, Live
      <4>2. Range(ChainOf(s, j)) \cap Range(chain) = {}
        BY <1>1, <1>4, <3>13, <4>1 DEF SoundClusters, chain
      <4>3. Range(ChainOf(s, j)) \cap Range(now) = {}
        BY <1>8, <2>6, <3>13, <4>1
      <4>4. \A c \in Range(ChainOf(s, j)) : c \in Entries
        BY <1>1, <4>1, ChainIsUsed DEF SoundClusters
      <4>5. \A c \in Range(ChainOf(s, j)) : t.data[c] = s.data[c]
        BY <1>8, <2>7, <3>3, <4>2, <4>3, <4>4
      <4> QED
        BY <3>4, <3>10, <3>13, <4>1, <4>5
    <3>14. Rewritten(s, i, t)
      BY <3>5, <3>11, <3>13 DEF Rewritten
    <3>15. Sound(t)
      BY <3>3, <3>9, <3>12 DEF Sound
    <3>16. Exists(t, name) /\ Slot(t, name) = i
      <4>1. i \in Live(t) /\ t.dir[i].name = name
        BY <1>2, <3>1, <3>3, <3>5
      <4>2. t.dir[i].ended
        BY <1>2, <3>1, <3>3
      <4> QED
        BY <3>12, <4>1, <4>2, SlotOfName
    <3>17. Holds(t, i, version)
      <4>1. \A k \in 1..size : t.data[now[k]] = <<name, k, version>>
        BY <2>4, <2>7, <2>9, <3>3
      <4> QED
        BY <2>4, <3>1, <3>3, <3>10, <4>1 DEF ReadFile, Holds
    <3>18. ReadsBack(t, name, size, version)
      BY <3>1, <3>3, <3>16, <3>17 DEF ReadsBack
    <3> QED
      BY <3>14, <3>15, <3>18 DEF i
  <2> QED
    BY <2>8, <2>9
<1> QED
  BY <1>12, <1>13

\* A file that is where it was, in the clusters it was in, holds what it held.
LEMMA StillHolds ==
  ASSUME NEW s, NEW t, Sound(t), NEW version, NEW i \in Live(t), t.dir[i] = s.dir[i],
         Holds(s, i, version), ChainOf(t, i) = ChainOf(s, i),
         \A c \in Range(ChainOf(s, i)) : t.data[c] = s.data[c]
  PROVE  Holds(t, i, version)
<1> DEFINE q == ChainOf(s, i)
<1>1. q \in Seq(Entries)
  BY DEF Sound, SoundClusters, Owners, IsChain
<1>2. \A k \in 1..Len(q) : q[k] \in Range(q)
  BY <1>1 DEF Range
<1>3. ReadFile(t, i) = ReadFile(s, i)
  BY <1>2 DEF ReadFile
<1> QED
  BY <1>3 DEF Holds

\* So it reads back if it did.
LEMMA StillReads ==
  ASSUME NEW s, NEW t, Sound(t), NEW name, NEW size, NEW version,
         ReadsBack(s, name, size, version),
         NEW i, i = Slot(s, name), i \in Live(t), t.dir[i] = s.dir[i],
         ChainOf(t, i) = ChainOf(s, i),
         \A c \in Range(ChainOf(s, i)) : t.data[c] = s.data[c]
  PROVE  ReadsBack(t, name, size, version)
<1>1. Exists(s, name) /\ s.dir[i].size = size /\ Holds(s, i, version)
  BY DEF ReadsBack
<1>2. s.dir[i].name = name /\ s.dir[i].ended
  BY <1>1, SlotIs
<1>3. SoundDirectory(t)
  BY DEF Sound
<1>4. Exists(t, name) /\ Slot(t, name) = i
  BY <1>2, <1>3, SlotOfName
<1>5. Holds(t, i, version)
  BY <1>1, StillHolds
<1> QED
  BY <1>1, <1>4, <1>5 DEF ReadsBack

\* A slot that is not a file's any more: the other files stay as they were.
LEMMA DeleteSound ==
  ASSUME NEW s, Sound(s), NEW j \in 1..Len(s.dir), NEW short \in ShortNames,
         NEW t, t = WithSlot(s, j, DeletedSlot(short))
  PROVE  /\ Sound(t) /\ t.failed = s.failed /\ Live(t) = Live(s) \ {j}
         /\ \A i \in Live(t) : /\ t.dir[i] = s.dir[i] /\ ChainOf(t, i) = ChainOf(s, i)
                               /\ \A c \in Range(ChainOf(s, i)) : t.data[c] = s.data[c]
<1> DEFINE e == DeletedSlot(short)
<1>1. s \in FileSystems /\ SoundClusters(s) /\ SoundDirectory(s)
  BY DEF Sound
<1>2. e \in AnySlot /\ e.kind # "file"
  BY DEF AnySlot, DeletedSlot
<1> HIDE DEF e
<1>3. /\ t \in FileSystems /\ t.fat = s.fat /\ t.free = s.free /\ t.data = s.data
      /\ t.failed = s.failed /\ Len(t.dir) = Len(s.dir)
      /\ t.dir[j] = e /\ \A i \in 1..Len(s.dir) : i # j => t.dir[i] = s.dir[i]
  <2>1. t = WithSlot(s, j, e)
    BY DEF e
  <2> QED
    BY <1>1, <1>2, <2>1, WithSlotIs
<1>4. Live(t) = Live(s) \ {j}
  BY <1>2, <1>3 DEF Live
<1>5. \A i \in Live(t) : i \in Live(s) /\ t.dir[i] = s.dir[i]
  BY <1>3, <1>4 DEF Live
<1>6. ASSUME NEW o \in Owners(t)
      PROVE  /\ o \in Owners(s) /\ Start(t, o) = Start(s, o)
             /\ ChainOf(t, o) = ChainOf(s, o)
  <2>1. o \in Owners(s)
    BY <1>5 DEF Owners
  <2>2. Start(t, o) = Start(s, o)
    BY <1>5 DEF Start, Owners
  <2> QED
    BY <1>3, <2>1, <2>2 DEF ChainOf
<1>7. SoundClusters(t)
  BY <1>1, <1>3, <1>6 DEF SoundClusters
<1>8. SoundDirectory(t)
  <2>1. \A i, k \in Live(t) : Alike(t.dir[i], t.dir[k]) => i = k
    <3>1. \A i, k \in Live(s) : Alike(s.dir[i], s.dir[k]) => i = k
      BY <1>1 DEF SoundDirectory
    <3> SUFFICES ASSUME NEW i \in Live(t), NEW k \in Live(t), Alike(t.dir[i], t.dir[k])
                 PROVE  i = k
      OBVIOUS
    <3>2. i \in Live(s) /\ k \in Live(s) /\ t.dir[i] = s.dir[i] /\ t.dir[k] = s.dir[k]
      BY <1>5
    <3> QED
      BY <3>1, <3>2
  <2>2. \A i \in Live(t) : \E n \in 0..LastNumber : t.dir[i].short = Numbered(t.dir[i].name, n)
    BY <1>1, <1>5 DEF SoundDirectory
  <2>3. Len(t.dir) <= PerCluster * Len(Chain(t.fat, Root))
    BY <1>1, <1>3 DEF SoundDirectory
  <2> QED
    BY <2>1, <2>2, <2>3 DEF SoundDirectory
<1>9. \A i \in Live(t) : ChainOf(t, i) = ChainOf(s, i)
  BY <1>6 DEF Owners
<1> QED
  BY <1>3, <1>4, <1>5, <1>7, <1>8, <1>9 DEF Sound

-------------------------------------------------------------------------------
\* The invariant.
Histories == [Names -> [size : -1..MaxSize, version : 0..MaxWrites]]

FatInv == Sound(fs) /\ expected \in Histories

\* The root directory uses a cluster, so not all entries are free.
LEMMA FreeClusters ==
  ASSUME NEW s, Sound(s)
  PROVE  s.free \in (LastCluster - LastEntry)..(LastCluster - 2)
<1>1. s \in FileSystems /\ SoundClusters(s) /\ s.fat \in Fats
  BY FieldsOfFileSystems DEF Sound
<1>2. LastCluster \in Int /\ LastEntry \in Int /\ LastEntry >= LastCluster /\ LastCluster >= 2
  BY SizesAssumption
<1>3. s.fat[Root] # 0
  <2> DEFINE q == Chain(s.fat, Root)
  <2>1. q \in Seq(Entries) /\ q # <<>> /\ IsChain(s.fat, Root, q)
    BY <1>1, RootHasChain
  <2> HIDE DEF q
  <2>2. Root = q[1] /\ 1 \in 1..Len(q)
    BY <2>1 DEF IsChain
  <2>3. Root \in Range(q)
    BY <2>1, <2>2 DEF Range
  <2> QED
    BY <2>1, <2>3, ChainIsUsed
<1>4. Free(s.fat) \subseteq 3..LastEntry
  BY <1>2, <1>3 DEF Free, Entries, Root
<1>5. IsFiniteSet(3..LastEntry) /\ Cardinality(3..LastEntry) <= LastEntry - 2
  <2>1. /\ IsFiniteSet(3..LastEntry)
        /\ Cardinality(3..LastEntry) = IF 3 > LastEntry THEN 0 ELSE LastEntry - 3 + 1
    <3>1. 3 \in Int
      OBVIOUS
    <3> QED
      BY <1>2, <3>1, FS_Interval, Zenon
  <2> QED
    BY <1>2, <2>1
<1>6. Cardinality(Free(s.fat)) <= Cardinality(3..LastEntry)
  BY <1>4, <1>5, FS_Subset, Zenon
<1>7. Cardinality(Free(s.fat)) \in Nat /\ Cardinality(3..LastEntry) \in Nat
  BY <1>1, <1>5, FreeIsFinite, FS_CardinalityType
<1>8. s.free = Cardinality(Free(s.fat)) - (LastEntry - LastCluster)
  BY <1>1 DEF SoundClusters
<1> QED
  BY <1>2, <1>5, <1>6, <1>7, <1>8

\* The file systems to begin with are sound.
LEMMA FatInitially == FatInit => FatInv
<1> SUFFICES ASSUME FatInit
             PROVE  FatInv
  OBVIOUS
<1>1. fs \in FileSystems /\ SoundClusters(fs) /\ SoundDirectory(fs)
  BY ImagesAssumption DEF FatInit
<1>2. Sound(fs)
  BY <1>1 DEF Sound
<1>3. ASSUME NEW name \in Names, Exists(fs, name)
      PROVE  fs.dir[Slot(fs, name)].size \in 0..MaxSize
  BY <1>1, <1>3, SlotIs, LiveIsFile
<1>4. expected \in Histories
  BY <1>3, SizesAssumption DEF FatInit, Histories
<1> QED
  BY <1>2, <1>4 DEF FatInv

\* The slots of the other files, and what is in their clusters, are the same, and no
\* file is there anew whose name is not found.
LeavesOthers(s, t, name) ==
  /\ Unended(t) \subseteq Unended(s)
  /\ \A i \in Live(s) : i \notin Slots(s, name) =>
    /\ i \in Live(t) /\ t.dir[i] = s.dir[i]
    /\ ChainOf(t, i) = ChainOf(s, i)
    /\ \A c \in Range(ChainOf(s, i)) : t.data[c] = s.data[c]

\* What WriteFile makes of the file system.
AfterWrite(s, name, size, version) ==
  IF Entry(s, name).failed THEN Entry(s, name)
  ELSE Rewrite(Entry(s, name), name, size, version)

\* writeFile(): the file reads back, the others are as they were.
LEMMA WriteSound ==
  ASSUME NEW s, Sound(s), ~s.failed, NEW name \in Names, NEW size \in 0..MaxSize,
         NEW version \in 1..MaxWrites, NEW t, t = AfterWrite(s, name, size, version)
  PROVE  /\ Sound(t)
         /\ ~t.failed => ReadsBack(t, name, size, version) /\ LeavesOthers(s, t, name)
<1> DEFINE r == Entry(s, name)
<1>1. /\ Sound(r) /\ Keeps(s, r)
      /\ ~r.failed => Exists(r, name) /\ Unended(r) \subseteq Unended(s)
  BY EntrySound
<1>2. t = IF r.failed THEN r ELSE Rewrite(r, name, size, version)
  BY DEF AfterWrite
<1> HIDE DEF r
<1>3. CASE r.failed
  BY <1>1, <1>2, <1>3
<1>4. CASE ~r.failed
  <2>1. t = Rewrite(r, name, size, version)
    BY <1>2, <1>4
  <2>2. /\ Sound(t)
        /\ ~t.failed => /\ Rewritten(r, Slot(r, name), t)
                        /\ ReadsBack(t, name, size, version)
    BY <1>1, <1>4, <2>1, RewriteSound
  <2>3. r.dir[Slot(r, name)].name = name /\ r.dir[Slot(r, name)].ended
    BY <1>1, <1>4, SlotIs
  <2>4. ASSUME ~t.failed, NEW i \in Live(s), i \notin Slots(s, name)
        PROVE  /\ i \in Live(t) /\ t.dir[i] = s.dir[i]
               /\ ChainOf(t, i) = ChainOf(s, i)
               /\ \A c \in Range(ChainOf(s, i)) : t.data[c] = s.data[c]
    <3>1. /\ i \in Live(r) /\ r.dir[i] = s.dir[i] /\ ChainOf(r, i) = ChainOf(s, i)
          /\ \A c \in Range(ChainOf(s, i)) : r.data[c] = s.data[c]
      BY <1>1 DEF Keeps
    <3>2. i # Slot(r, name)
      BY <2>3, <2>4, <3>1 DEF Slots
    <3>3. /\ i \in Live(t) /\ t.dir[i] = r.dir[i] /\ ChainOf(t, i) = ChainOf(r, i)
          /\ \A c \in Range(ChainOf(r, i)) : t.data[c] = r.data[c]
      BY <2>2, <2>4, <3>1, <3>2 DEF Rewritten
    <3> QED
      BY <3>1, <3>3
  <2>5. ~t.failed => Unended(t) \subseteq Unended(r)
    BY <2>2 DEF Rewritten, Unended
  <2> QED
    BY <1>1, <1>4, <2>2, <2>4, <2>5 DEF LeavesOthers
<1> QED
  BY <1>3, <1>4

\* The next version is one.
LEMMA WriteVersions ==
  ASSUME expected \in Histories, NEW name \in Names, expected[name].version + 1 <= MaxWrites
  PROVE  expected[name].version + 1 \in 1..MaxWrites
BY SizesAssumption DEF Histories

\* The slot that deleteFile() overwrites.
Doomed(s, name) == First(SameButFirst(s, s.dir[Slot(s, name)].short))

\* It is among those with the short name but for the first letter.
LEMMA DoomedIs ==
  ASSUME NEW s \in FileSystems, NEW name, Exists(s, name)
  PROVE  /\ Doomed(s, name) \in SameButFirst(s, s.dir[Slot(s, name)].short)
         /\ Doomed(s, name) \in 1..Len(s.dir)
<1> DEFINE i == Slot(s, name)
           S == SameButFirst(s, s.dir[i].short)
<1>1. i \in Live(s)
  BY SlotIs
<1>2. i \in S
  BY <1>1 DEF SameButFirst, Live
<1>3. S \in SUBSET Nat /\ S \subseteq 1..Len(s.dir)
  BY DEF SameButFirst
<1> HIDE DEF S
<1>4. First(S) \in S
  BY <1>2, <1>3, FirstIsLeast
<1> QED
  BY <1>3, <1>4 DEF Doomed, S

\* deleteFile() leaves the other files alone if no two names differ in the first letter
\* of their short names only.
LetterFollows ==
  \A a, b \in Names : Short[a].rest = Short[b].rest => Short[a].letter = Short[b].letter

\* Then the slot overwritten is not another file's.
LEMMA DoomedIsNoOther ==
  ASSUME LetterFollows, NEW s, Sound(s), NEW name, Exists(s, name),
         NEW i \in Live(s), i # Slot(s, name)
  PROVE  i # Doomed(s, name)
<1>1. s \in FileSystems /\ SoundDirectory(s)
  BY DEF Sound
<1> DEFINE k == Slot(s, name)
<1>2. k \in Live(s) /\ i # k
  BY SlotIs
<1> HIDE DEF k
<1>3. PICK m \in 0..LastNumber : s.dir[i].short = Numbered(s.dir[i].name, m)
  BY <1>1 DEF SoundDirectory
<1>4. PICK n \in 0..LastNumber : s.dir[k].short = Numbered(s.dir[k].name, n)
  BY <1>1, <1>2 DEF SoundDirectory
<1>5. s.dir[i].name \in Names /\ s.dir[k].name \in Names
  BY <1>1, <1>2, LiveIsFile
<1>6. s.dir[i].short # s.dir[k].short
  BY <1>1, <1>2 DEF SoundDirectory, Alike
<1>7. ~(s.dir[i].short.rest = s.dir[k].short.rest /\ s.dir[i].short.number = s.dir[k].short.number)
  BY <1>3, <1>4, <1>5, <1>6 DEF Numbered, LetterFollows
<1>8. i \notin SameButFirst(s, s.dir[k].short)
  BY <1>7 DEF SameButFirst
<1> QED
  BY <1>1, <1>8, DoomedIs DEF k

\* What DeleteFile makes of the file system.
AfterDelete(s, name) ==
  IF Exists(Scan(s, name), name) /\ ~Scan(s, name).failed
  THEN WithSlot(Scan(s, name), Doomed(Scan(s, name), name),
                DeletedSlot(Scan(s, name).dir[Slot(Scan(s, name), name)].short))
  ELSE Scan(s, name)

\* deleteFile(): what is left is sound and, with such names, as it was.
LEMMA DeletionSound ==
  ASSUME NEW s, Sound(s), ~s.failed, NEW name, NEW t, t = AfterDelete(s, name)
  PROVE  /\ Sound(t)
         /\ LetterFollows => LeavesOthers(s, t, name)
<1> DEFINE r == Scan(s, name)
<1>1. /\ Sound(r) /\ Keeps(s, r) /\ Live(r) = Live(s) /\ Slots(r, name) = Slots(s, name)
  BY ScanSound
<1>2. t = IF Exists(r, name) /\ ~r.failed
          THEN WithSlot(r, Doomed(r, name), DeletedSlot(r.dir[Slot(r, name)].short)) ELSE r
  BY DEF AfterDelete
<1> HIDE DEF r
<1>0. Unended(r) \subseteq Unended(s)
  BY <1>1 DEF Unended, Keeps
<1>3. CASE Exists(r, name) /\ ~r.failed
  <2> DEFINE j == Doomed(r, name)
             short == r.dir[Slot(r, name)].short
  <2>1. t = WithSlot(r, j, DeletedSlot(short))
    BY <1>2, <1>3
  <2>2. j \in 1..Len(r.dir) /\ short \in ShortNames
    <3>1. r \in FileSystems
      BY <1>1 DEF Sound
    <3> QED
      BY <1>3, <3>1, DoomedIs, SlotIs, LiveIsFile
  <2>3. LetterFollows => \A i \in Live(r) : i \notin Slots(s, name) => i # j
    BY <1>1, <1>3, DoomedIsNoOther, SlotIs
  <2> HIDE DEF j, short
  <2>4. /\ Sound(t) /\ Live(t) = Live(r) \ {j}
        /\ \A i \in Live(t) : /\ t.dir[i] = r.dir[i] /\ ChainOf(t, i) = ChainOf(r, i)
                              /\ \A c \in Range(ChainOf(r, i)) : t.data[c] = r.data[c]
    BY <1>1, <2>1, <2>2, DeleteSound
  <2>5. ASSUME LetterFollows, NEW i \in Live(s), i \notin Slots(s, name)
        PROVE  /\ i \in Live(t) /\ t.dir[i] = s.dir[i]
               /\ ChainOf(t, i) = ChainOf(s, i)
               /\ \A c \in Range(ChainOf(s, i)) : t.data[c] = s.data[c]
    <3>1. /\ i \in Live(r) /\ r.dir[i] = s.dir[i] /\ ChainOf(r, i) = ChainOf(s, i)
          /\ \A c \in Range(ChainOf(s, i)) : r.data[c] = s.data[c]
      BY <1>1 DEF Keeps
    <3>2. i \in Live(t)
      BY <2>3, <2>4, <2>5, <3>1
    <3> QED
      BY <2>4, <3>1, <3>2
  <2>6. Unended(t) \subseteq Unended(r)
    BY <2>4 DEF Unended
  <2> QED
    BY <1>0, <2>4, <2>5, <2>6 DEF LeavesOthers
<1>4. CASE ~(Exists(r, name) /\ ~r.failed)
  BY <1>1, <1>0, <1>2, <1>4 DEF Keeps, LeavesOthers
<1> QED
  BY <1>3, <1>4

\* The steps, one by one.
LEMMA StepsOfFatNext ==
  ASSUME [FatNext]_fatVars
  PROVE  \/ UNCHANGED fatVars
         \/ \E name \in Names, size \in 0..MaxSize : WriteFile(name, size)
         \/ \E name \in Names : DeleteFile(name)
         \/ \E name \in Names : LookUp(name)
BY DEF FatNext

LEMMA WriteFileIs ==
  ASSUME NEW name \in Names, NEW size \in 0..MaxSize, WriteFile(name, size),
         expected \in Histories
  PROVE  /\ ~fs.failed /\ expected[name].version + 1 \in 1..MaxWrites
         /\ fs' = AfterWrite(fs, name, size, expected[name].version + 1)
         /\ expected' = [expected EXCEPT ![name] =
                           [size |-> size, version |-> expected[name].version + 1]]
BY WriteVersions DEF WriteFile, AfterWrite

LEMMA DeleteFileIs ==
  ASSUME NEW name \in Names, DeleteFile(name)
  PROVE  /\ ~fs.failed /\ fs' = AfterDelete(fs, name)
         /\ expected' = [expected EXCEPT ![name] = [size |-> -1, version |-> @.version]]
BY DEF DeleteFile, AfterDelete, WithSlot, Doomed

\* Every step keeps the invariant.
LEMMA FatInvNext == FatInv /\ [FatNext]_fatVars => FatInv'
<1> SUFFICES ASSUME FatInv, [FatNext]_fatVars
             PROVE  FatInv'
  OBVIOUS
<1>1. Sound(fs) /\ expected \in Histories
  BY DEF FatInv
<1>2. MaxSize \in Nat /\ MaxWrites \in Nat
  BY SizesAssumption
<1>3. CASE UNCHANGED fatVars
  BY <1>3 DEF fatVars, FatInv, Sound, SoundClusters, SoundDirectory
<1>4. ASSUME NEW name \in Names, NEW size \in 0..MaxSize, WriteFile(name, size)
      PROVE  FatInv'
  <2>1. /\ ~fs.failed /\ expected[name].version + 1 \in 1..MaxWrites
        /\ fs' = AfterWrite(fs, name, size, expected[name].version + 1)
        /\ expected' = [expected EXCEPT ![name] =
                          [size |-> size, version |-> expected[name].version + 1]]
    BY <1>1, <1>4, WriteFileIs
  <2>2. Sound(fs')
    BY <1>1, <2>1, WriteSound
  <2>3. expected' \in Histories
    BY <1>1, <1>2, <2>1 DEF Histories
  <2> QED
    BY <2>2, <2>3 DEF FatInv
<1>5. ASSUME NEW name \in Names, DeleteFile(name)
      PROVE  FatInv'
  <2>1. /\ ~fs.failed /\ fs' = AfterDelete(fs, name)
        /\ expected' = [expected EXCEPT ![name] = [size |-> -1, version |-> @.version]]
    BY <1>5, DeleteFileIs
  <2>2. Sound(fs')
    BY <1>1, <2>1, DeletionSound
  <2>3. expected' \in Histories
    BY <1>1, <1>2, <2>1 DEF Histories
  <2> QED
    BY <2>2, <2>3 DEF FatInv
<1>6. ASSUME NEW name \in Names, LookUp(name)
      PROVE  FatInv'
  <2>1. ~fs.failed /\ fs' = Scan(fs, name) /\ expected' = expected
    BY <1>6 DEF LookUp
  <2>2. Sound(fs')
    BY <1>1, <2>1, ScanSound
  <2> QED
    BY <1>1, <2>1, <2>2 DEF FatInv
<1> QED
  BY <1>3, <1>4, <1>5, <1>6, StepsOfFatNext

LEMMA FatInvKept == FatSpec => []FatInv
<1>1. FatInit => FatInv
  BY FatInitially
<1>2. FatInv /\ [FatNext]_fatVars => FatInv'
  BY FatInvNext
<1> QED
  BY <1>1, <1>2, PTL DEF FatSpec

(***************************************************************************)
(* Every file system that writeFile() and deleteFile() can reach is of its *)
(* type, and FSI_Free_Count stays within the clusters the FAT has.         *)
(***************************************************************************)
THEOREM FatTypeCorrect == FatSpec => []FatTypeOK
<1>1. FatInv => FatTypeOK
  BY FreeClusters DEF FatInv, FatTypeOK, Histories, Sound
<1> QED
  BY <1>1, FatInvKept, PTL

(***************************************************************************)
(* devicewrapperfatpartition.cpp: whatever is written and deleted, and     *)
(* whatever exception is thrown on the way, no cluster gets into two       *)
(* chains, no chain runs into a free cluster or a circle, and the count of *)
(* free clusters is right.                                                 *)
(***************************************************************************)
THEOREM ChainsStaySound == FatSpec => []ChainsSound
<1>1. FatInv => ChainsSound
  BY DEF FatInv, ChainsSound, Sound
<1> QED
  BY <1>1, FatInvKept, PTL

\* Every file reads as it was last written.
Readable(s, e) ==
  \A name \in Names : e[name].size >= 0 => ReadsBack(s, name, e[name].size, e[name].version)

\* Other files read as they did.
LEMMA OthersStillRead ==
  ASSUME NEW s, NEW t, Sound(t), NEW name, LeavesOthers(s, t, name),
         NEW other, other # name, NEW size, NEW version, ReadsBack(s, other, size, version)
  PROVE  ReadsBack(t, other, size, version)
<1> DEFINE i == Slot(s, other)
<1>1. Exists(s, other)
  BY DEF ReadsBack
<1>2. i \in Live(s) /\ i \notin Slots(s, name)
  BY <1>1, SlotIs DEF Slots
<1> HIDE DEF i
<1>3. /\ i \in Live(t) /\ t.dir[i] = s.dir[i] /\ ChainOf(t, i) = ChainOf(s, i)
      /\ \A c \in Range(ChainOf(s, i)) : t.data[c] = s.data[c]
  BY <1>2 DEF LeavesOthers
<1>4. i = Slot(s, other)
  BY DEF i
<1> QED
  BY <1>3, <1>4, StillReads

\* A file that is not found holds what it came with.
Untouched(s) == \A i \in Unended(s) : Holds(s, i, 1)

\* Nobody writes to such a file.
LEMMA StillUntouched ==
  ASSUME NEW s, NEW t, Sound(t), NEW name, LeavesOthers(s, t, name), Untouched(s)
  PROVE  Untouched(t)
<1> SUFFICES ASSUME NEW i \in Unended(t)
             PROVE  Holds(t, i, 1)
  BY DEF Untouched
<1>1. i \in Live(t) /\ i \in Unended(s) /\ i \in Live(s) /\ i \notin Slots(s, name)
  BY DEF LeavesOthers, Unended, Slots
<1>2. /\ t.dir[i] = s.dir[i] /\ ChainOf(t, i) = ChainOf(s, i)
      /\ \A c \in Range(ChainOf(s, i)) : t.data[c] = s.data[c]
  BY <1>1 DEF LeavesOthers
<1>3. Holds(s, i, 1)
  BY <1>1 DEF Untouched
<1> QED
  BY <1>1, <1>2, <1>3, StillHolds

ReadInv == ~fs.failed => Readable(fs, expected) /\ Untouched(fs)

\* The files to begin with read as their first version.
LEMMA ReadInitially == FatInit => ReadInv
<1> SUFFICES ASSUME FatInit
             PROVE  Readable(fs, expected) /\ Untouched(fs)
  BY DEF ReadInv
<1>1. \A i \in Live(fs) : Holds(fs, i, 1)
  BY ImagesAssumption DEF FatInit
<1>2. ASSUME NEW name \in Names, expected[name].size >= 0
      PROVE  ReadsBack(fs, name, expected[name].size, expected[name].version)
  <2>1. Exists(fs, name)
    BY <1>2 DEF FatInit
  <2>2. expected[name].size = fs.dir[Slot(fs, name)].size /\ expected[name].version = 1
    BY <2>1 DEF FatInit
  <2>3. Holds(fs, Slot(fs, name), 1)
    BY <1>1, <2>1, SlotIs
  <2> QED
    BY <2>1, <2>2, <2>3 DEF ReadsBack
<1>3. Untouched(fs)
  BY <1>1 DEF Untouched, Unended
<1> QED
  BY <1>2, <1>3 DEF Readable

\* Every step keeps the files readable.
LEMMA ReadInvNext ==
  LetterFollows /\ FatInv /\ ReadInv /\ [FatNext]_fatVars => ReadInv'
<1> SUFFICES ASSUME LetterFollows, FatInv, ReadInv, [FatNext]_fatVars, ~fs'.failed
             PROVE  Readable(fs', expected') /\ Untouched(fs')
  BY DEF ReadInv
<1>1. Sound(fs) /\ expected \in Histories
  BY DEF FatInv
<1>2. CASE UNCHANGED fatVars
  BY <1>2 DEF fatVars, ReadInv
<1>3. ASSUME NEW name \in Names, NEW size \in 0..MaxSize, WriteFile(name, size)
      PROVE  Readable(fs', expected') /\ Untouched(fs')
  <2> DEFINE version == expected[name].version + 1
  <2>1. /\ ~fs.failed /\ version \in 1..MaxWrites
        /\ fs' = AfterWrite(fs, name, size, version)
        /\ expected' = [expected EXCEPT ![name] = [size |-> size, version |-> version]]
    BY <1>1, <1>3, WriteFileIs
  <2>2. expected'[name].size = size /\ expected'[name].version = version
    BY <1>1, <2>1 DEF Histories
  <2>3. \A other \in Names : other # name => expected'[other] = expected[other]
    BY <1>1, <2>1 DEF Histories
  <2> HIDE DEF version
  <2>4. Sound(fs') /\ ReadsBack(fs', name, size, version) /\ LeavesOthers(fs, fs', name)
    BY <1>1, <2>1, WriteSound
  <2>6. Untouched(fs')
    BY <2>1, <2>4, StillUntouched DEF ReadInv
  <2>5. \A other \in Names : other # name /\ expected[other].size >= 0 =>
          ReadsBack(fs', other, expected[other].size, expected[other].version)
    BY <2>1, <2>4, OthersStillRead DEF ReadInv, Readable
  <2> QED
    BY <2>2, <2>3, <2>4, <2>5, <2>6 DEF Readable
<1>4. ASSUME NEW name \in Names, DeleteFile(name)
      PROVE  Readable(fs', expected') /\ Untouched(fs')
  <2>1. /\ ~fs.failed /\ fs' = AfterDelete(fs, name)
        /\ expected' = [expected EXCEPT ![name] = [size |-> -1, version |-> @.version]]
    BY <1>4, DeleteFileIs
  <2>2. expected'[name].size = -1
    BY <1>1, <2>1 DEF Histories
  <2>3. \A other \in Names : other # name => expected'[other] = expected[other]
    BY <1>1, <2>1 DEF Histories
  <2>4. Sound(fs') /\ LeavesOthers(fs, fs', name)
    BY <1>1, <2>1, DeletionSound
  <2>6. Untouched(fs')
    BY <2>1, <2>4, StillUntouched DEF ReadInv
  <2>5. \A other \in Names : other # name /\ expected[other].size >= 0 =>
          ReadsBack(fs', other, expected[other].size, expected[other].version)
    BY <2>1, <2>4, OthersStillRead DEF ReadInv, Readable
  <2> QED
    BY <2>2, <2>3, <2>5, <2>6 DEF Readable
<1>5. ASSUME NEW name \in Names, LookUp(name)
      PROVE  Readable(fs', expected') /\ Untouched(fs')
  <2>1. ~fs.failed /\ fs' = Scan(fs, name) /\ expected' = expected
    BY <1>5 DEF LookUp
  <2>2. Sound(fs') /\ Keeps(fs, fs') /\ LeavesOthers(fs, fs', name)
    <3>1. Sound(fs') /\ Keeps(fs, fs') /\ Live(fs') = Live(fs)
      BY <1>1, <2>1, ScanSound
    <3>2. Unended(fs') \subseteq Unended(fs)
      BY <3>1 DEF Keeps, Unended
    <3> QED
      BY <3>1, <3>2 DEF Keeps, LeavesOthers
  <2>3. ASSUME NEW other \in Names, expected[other].size >= 0
        PROVE  ReadsBack(fs', other, expected[other].size, expected[other].version)
    <3>1. ReadsBack(fs, other, expected[other].size, expected[other].version)
      BY <2>1, <2>3 DEF ReadInv, Readable
    <3>2. Slot(fs, other) \in Live(fs)
      BY <3>1, SlotIs DEF ReadsBack
    <3> QED
      BY <2>2, <3>1, <3>2, StillReads DEF Keeps
  <2>4. Untouched(fs')
    BY <2>1, <2>2, StillUntouched DEF ReadInv
  <2> QED
    BY <2>1, <2>3, <2>4 DEF Readable
<1> QED
  BY <1>2, <1>3, <1>4, <1>5, StepsOfFatNext

(***************************************************************************)
(* devicewrapperfatpartition.cpp, downloadthread.cpp:2070-2160: if no two  *)
(* names differ in the first letter of their short names only (deleteFile()*)
(* does not compare it), a file that was written, or that an image has and *)
(* getDirEntry() finds, reads back as what was last written to it, and one *)
(* that is not found keeps what it holds, whatever is written and deleted  *)
(* beside it.                                                              *)
(***************************************************************************)
THEOREM FilesStayReadable ==
  ASSUME LetterFollows
  PROVE  FatSpec => []FilesReadBack
<1>1. FatInit => ReadInv
  BY ReadInitially
<1>2. FatInv /\ ReadInv /\ [FatNext]_fatVars => ReadInv'
  BY ReadInvNext
<1>3. FatInv /\ ReadInv => FilesReadBack
  BY DEF FatInv, ReadInv, Readable, Untouched, Unended, FilesReadBack, Sound
<1> QED
  BY <1>1, <1>2, <1>3, FatInvKept, PTL DEF FatSpec
===============================================================================
