----------------------------- MODULE DeviceWrapper -----------------------------
(***************************************************************************)
(* The blocks of a drive from the image to success(), block 0 with the     *)
(* partition table last: DownloadThread::_writeFile() withholds the first  *)
(* chunk, _writeComplete() and _customizeImage() with its DeviceWrapper    *)
(* write it when everything else is on the medium.  A block is known by    *)
(* its version: 0 is what the drive had before, 1 the image, the rest      *)
(* what the customisation made of it.  FatPartition.tla says what is in    *)
(* the blocks.                                                             *)
(*                                                                         *)
(* The drive has a cache that it empties in any order, and may be pulled   *)
(* at any moment: "medium" is what is then left.  A bad one drops writes   *)
(* without a word.  One block of the model is one of 4096 bytes.  A cancel *)
(* is ExtractSession.tla's.                                                *)
(***************************************************************************)
EXTENDS Integers

CONSTANTS LastBlock,    \* blocks are numbered from 0
          FirstChunk,   \* the last block of the first chunk of the image
          MaxVersion,   \* bounds the changes to a block
          BigFile,      \* blocks of a file longer than kAlwaysVerifyMaxBytes
          Unread,       \* blocks that no file of the settings is in (FATs, directory)
          Kinds,        \* the sessions to consider
          Errors        \* what may fail

Blocks   == 0..LastBlock
Versions == [Blocks -> 0..MaxVersion]

ASSUME BlocksAssumption ==
  /\ LastBlock \in Nat /\ FirstChunk \in Blocks
  /\ MaxVersion \in Nat \ {0}
  /\ BigFile \subseteq Blocks \ {0} /\ Unread \subseteq Blocks \ {0}
ASSUME KindsAssumption ==
  /\ Kinds \subseteq SUBSET {"customised", "secureBoot", "expectedHash", "verify", "dropping"}
  /\ \A k \in Kinds : "secureBoot" \in k => "customised" \in k
ASSUME ErrorsAssumption == Errors \subseteq {"read", "write", "flush"}

VARIABLES
  kind,       \* what was asked for; never changes
  step,       \* where the extract thread is
  call,       \* the sync() it is at: first, after the deletions, the destructor's
  block,      \* the next block of the image
  firstBlock, \* _firstBlock: the first chunk is withheld
  cache,      \* _blockcache: the version of a block, 0 for one not in it
  dirty,      \* the entries with "dirty" set
  anyDirty,   \* _dirty
  wanted,     \* the version the drive should end with
  device,     \* what a read finds
  medium,     \* what is left when the drive is pulled
  promised,   \* history: what was wanted when the table was handed over
  verdict     \* success(), also without its check ("unchecked"), or error()

progress == <<step, call, block, firstBlock>>
wrapper  == <<cache, dirty, anyDirty>>
drive    == <<device, medium>>
vars     == <<kind, progress, wrapper, wanted, drive, promised, verdict>>

Customised   == "customised" \in kind    \* _customizeImage() has something to do
SecureBoot   == "secureBoot" \in kind    \* ImageOptions::EnableSecureBoot
ExpectedHash == "expectedHash" \in kind  \* _expectedHash is not empty
Verify       == "verify" \in kind        \* _verifyEnabled
Dropping     == "dropping" \in kind      \* the drive is a bad one

Init == /\ kind \in Kinds
        /\ step = "image" /\ call = 1 /\ block = 0 /\ firstBlock = FALSE
        /\ cache = [b \in Blocks |-> 0] /\ dirty = {} /\ anyDirty = FALSE
        /\ wanted = [b \in Blocks |-> 1]
        /\ device = [b \in Blocks |-> 0] /\ medium = device
        /\ promised = medium
        /\ verdict = "none"

Chunk == 0..FirstChunk

-------------------------------------------------------------------------------
(***************************************************************************)
(* The drive.                                                              *)
(***************************************************************************)
WriteTo(blocks, version) ==
  /\ \E dropped \in IF Dropping THEN SUBSET blocks ELSE {{}} :
       device' = [b \in Blocks |-> IF b \in blocks \ dropped THEN version[b] ELSE device[b]]
  /\ UNCHANGED medium

Flush == medium' = device /\ UNCHANGED device

FlushFails == "flush" \in Errors /\ UNCHANGED drive
WriteFails == "write" \in Errors /\ UNCHANGED drive
ReadFails  == "read" \in Errors /\ UNCHANGED drive

\* The cache of the drive is emptied in any order.
Persist ==
  \E b \in Blocks :
    /\ medium[b] # device[b]
    /\ medium' = [medium EXCEPT ![b] = device[b]]
    /\ UNCHANGED <<kind, progress, wrapper, wanted, device, promised, verdict>>

\* _onDownloadError() or error(): the session is over.
Fail == step' = "done" /\ verdict' = "error" /\ UNCHANGED <<call, block, firstBlock>>
Goto(s) == step' = s /\ UNCHANGED <<call, verdict>>

-------------------------------------------------------------------------------
(***************************************************************************)
(* The image.                                                              *)
(***************************************************************************)
\* _writeFile() of the first chunk, which only an image without an expected hash
\* withholds.
FirstWrite ==
  /\ step = "image" /\ block = 0
  /\ IF ExpectedHash
     THEN /\ \/ /\ WriteTo(Chunk, wanted) /\ promised' = wanted
                /\ block' = FirstChunk + 1 /\ Goto("image") /\ UNCHANGED firstBlock
             \/ WriteFails /\ Fail /\ UNCHANGED promised
     ELSE /\ firstBlock' = TRUE
          /\ block' = FirstChunk + 1
          /\ Goto("image") /\ UNCHANGED <<drive, promised>>
  /\ UNCHANGED <<kind, wrapper, wanted>>

WriteImage ==
  /\ step = "image" /\ block # 0 /\ block <= LastBlock
  /\ \/ WriteTo({block}, wanted) /\ block' = block + 1 /\ Goto("image")
        /\ UNCHANGED firstBlock
     \/ WriteFails /\ Fail
  /\ UNCHANGED <<kind, wrapper, wanted, promised>>

\* _verify() reads what is on the drive, the first chunk from memory if it is withheld.
ImageVerifies ==
  Verify => \A b \in Blocks : (firstBlock /\ b \in Chunk) \/ device[b] = wanted[b]

\* Flush(), ForceSync() and _verify(); _customizeImage() hands the first chunk to the
\* wrapper.
SyncImage ==
  /\ step = "image" /\ block > LastBlock
  /\ \/ /\ Flush /\ ImageVerifies
        /\ Goto(IF Customised THEN "files" ELSE "table")
        /\ IF Customised /\ firstBlock
           THEN /\ cache' = [b \in Blocks |-> IF b \in Chunk THEN 1 ELSE 0]
                /\ dirty' = Chunk /\ anyDirty' = TRUE /\ firstBlock' = FALSE
           ELSE UNCHANGED <<wrapper, firstBlock>>
        /\ UNCHANGED block
     \/ FlushFails /\ Fail /\ UNCHANGED wrapper
     \/ Flush /\ (~ImageVerifies \/ (Verify /\ "read" \in Errors)) /\ Fail /\ UNCHANGED wrapper
  /\ UNCHANGED <<kind, wanted, promised>>

-------------------------------------------------------------------------------
(***************************************************************************)
(* The customisation: what FatPartition.tla does to the blocks.            *)
(***************************************************************************)
\* An exception leaves through the destructor, which syncs, before error().
Throw == step' = "sync" /\ call' = 3 /\ verdict' = "error" /\ UNCHANGED <<block, firstBlock>>

Cached(b) == IF cache[b] = 0 THEN device[b] ELSE cache[b]

\* DeviceWrapper::pread(); also of a block to be changed in part.
ReadBlock ==
  /\ step = "files"
  /\ \/ \E b \in Blocks : /\ cache[b] = 0
                          /\ cache' = [cache EXCEPT ![b] = device[b]]
        /\ UNCHANGED <<progress, verdict>>
     \/ Throw /\ UNCHANGED cache /\ "read" \in Errors
  /\ UNCHANGED <<kind, dirty, anyDirty, wanted, drive, promised>>

\* Mutant: sync() would take the cache for clean.
NotMarked == UNCHANGED anyDirty

Marked == anyDirty' = TRUE

\* DeviceWrapper::pwrite().
WriteBlock ==
  /\ step = "files"
  /\ \E b \in Blocks \ {0} :
       /\ wanted[b] < MaxVersion
       /\ wanted' = [wanted EXCEPT ![b] = @ + 1]
       /\ cache' = [cache EXCEPT ![b] = Cached(b) + 1]
       /\ dirty' = dirty \cup {b}
  /\ Marked
  /\ UNCHANGED <<kind, progress, drive, promised, verdict>>

\* The customisation files are written back after the secure boot files; what goes
\* wrong is logged, and the digest recorded before remains.
WriteBackFails ==
  /\ step = "files" /\ call = 3 /\ "read" \in Errors
  /\ \E b \in Blocks \ {0} : /\ wanted[b] < MaxVersion
                             /\ wanted' = [wanted EXCEPT ![b] = @ + 1]
  /\ UNCHANGED <<kind, progress, wrapper, drive, promised, verdict>>

CallSync ==
  /\ step = "files"
  /\ Goto("sync")
  /\ UNCHANGED <<kind, block, firstBlock, wrapper, wanted, drive, promised>>

-------------------------------------------------------------------------------
(***************************************************************************)
(* DeviceWrapper::sync().                                                  *)
(***************************************************************************)
\* sync() throws; the destructor's is caught and forgotten.
SyncFails ==
  IF call # 3 THEN Throw
  ELSE Goto(IF verdict = "error" THEN "done" ELSE "final") /\ UNCHANGED <<block, firstBlock>>

\* Mutant: a write that fails is taken for done.
SyncIgnoresErrors(b) ==
  /\ dirty' = dirty \ {b}
  /\ \/ WriteTo({b}, cache) /\ UNCHANGED <<progress, verdict>>
     \/ WriteFails /\ UNCHANGED <<progress, verdict>>

WriteOut(b) ==
  \/ /\ WriteTo({b}, cache) /\ dirty' = dirty \ {b}
     /\ UNCHANGED <<progress, verdict>>
  \/ WriteFails /\ SyncFails /\ UNCHANGED dirty

\* The dirty blocks but the first, in order.
SyncBlock ==
  /\ step = "sync" /\ anyDirty
  /\ \E b \in dirty \ {0} : /\ \A c \in dirty \ {0} : b <= c
                            /\ WriteOut(b)
  /\ UNCHANGED <<kind, cache, anyDirty, wanted, promised>>

\* Mutant: nothing is flushed before the table.
WithoutFlush == UNCHANGED drive /\ step' = "table"

\* Flush() before block 0 is written.
FlushBeforeTable == Flush /\ step' = "table"

SyncFlush ==
  /\ step = "sync" /\ anyDirty /\ dirty = {0}
  /\ \/ FlushBeforeTable /\ UNCHANGED <<call, block, firstBlock, verdict>>
     \/ FlushFails /\ SyncFails
  /\ UNCHANGED <<kind, wrapper, wanted, promised>>

\* Block 0, and then a Flush() whose result nobody looks at.
SyncTable ==
  /\ step = "table" /\ Customised
  /\ \/ /\ WriteTo({0}, cache)
        /\ dirty' = {} /\ promised' = wanted
        /\ step' = "tableFlush" /\ UNCHANGED <<call, block, firstBlock, verdict>>
     \/ WriteFails /\ SyncFails /\ UNCHANGED <<dirty, promised>>
  /\ UNCHANGED <<kind, cache, anyDirty, wanted>>

SyncTableFlush ==
  /\ step = "tableFlush"
  /\ Flush \/ FlushFails
  /\ Goto("sync")
  /\ UNCHANGED <<kind, block, firstBlock, wrapper, wanted, promised>>

\* sync() returns to _customizeImage(), to _createSecureBootFiles(), or out of the
\* destructor.
SyncReturns ==
  /\ step = "sync" /\ (dirty = {} \/ ~anyDirty)
  /\ anyDirty' = FALSE
  /\ IF call # 3 /\ SecureBoot THEN step' = "files" /\ call' = call + 1
     ELSE step' = (IF verdict = "error" THEN "done" ELSE "final") /\ UNCHANGED call
  /\ UNCHANGED <<kind, block, firstBlock, cache, dirty, wanted, drive, promised, verdict>>

-------------------------------------------------------------------------------
(***************************************************************************)
(* The end of _writeComplete().                                            *)
(***************************************************************************)
\* Without customisation: the first chunk between two flushes, then read back.
WriteFirstBlock ==
  /\ step = "table" /\ ~Customised
  /\ \/ ~firstBlock /\ Goto("final") /\ UNCHANGED <<drive, firstBlock, promised>>
     \/ firstBlock /\ Flush /\ Goto("chunk") /\ UNCHANGED <<firstBlock, promised>>
     \/ firstBlock /\ FlushFails /\ Fail /\ UNCHANGED promised
  /\ UNCHANGED <<kind, block, wrapper, wanted>>

WriteChunk ==
  /\ step = "chunk"
  /\ \/ /\ WriteTo(Chunk, wanted) /\ promised' = wanted
        /\ Goto("chunkFlush") /\ UNCHANGED firstBlock
     \/ WriteFails /\ Fail /\ UNCHANGED promised
  /\ UNCHANGED <<kind, block, wrapper, wanted>>

FlushChunk ==
  /\ step = "chunkFlush"
  /\ \/ Flush /\ Goto("readBack") /\ UNCHANGED firstBlock
     \/ FlushFails /\ Fail
  /\ UNCHANGED <<kind, block, wrapper, wanted, promised>>

ReadBackFirstBlock ==
  /\ step = "readBack"
  /\ \/ /\ Verify => \A b \in Chunk : device[b] = wanted[b]
        /\ firstBlock' = FALSE /\ Goto("final") /\ UNCHANGED drive
     \/ /\ Verify /\ \E b \in Chunk : device[b] # wanted[b]
        /\ Fail /\ UNCHANGED drive
     \/ Verify /\ ReadFails /\ Fail
  /\ UNCHANGED <<kind, block, wrapper, wanted, promised>>

\* Flush() and ForceSync().
FinalSync ==
  /\ step = "final"
  /\ \/ Flush /\ Goto("check") /\ UNCHANGED firstBlock
     \/ FlushFails /\ Fail
  /\ UNCHANGED <<kind, block, wrapper, wanted, promised>>

\* The blocks of the recorded files, which _verifyCustomisation() compares.
ReadBack == (Blocks \ (Unread \cup {0})) \ (IF Verify THEN {} ELSE BigFile)

\* _verifyCustomisation() lets a check it could not make pass: a read that fails, a
\* table that is not there.  A file is also missing if the blocks that lead to it are wrong.
VerifyCustomisation ==
  /\ step = "check"
  /\ \/ /\ Customised => \A b \in ReadBack : device[b] = wanted[b]
        /\ verdict' = "success"
     \/ /\ Customised /\ ("read" \in Errors \/ device[0] # wanted[0])
        /\ verdict' = "unchecked"
     \/ /\ Customised /\ \E b \in ReadBack \cup Unread \cup {0} : device[b] # wanted[b]
        /\ verdict' = "error"
  /\ step' = "done"
  /\ UNCHANGED <<kind, call, block, firstBlock, wrapper, wanted, drive, promised>>

ExtractThread ==
  \/ FirstWrite \/ WriteImage \/ SyncImage
  \/ ReadBlock \/ WriteBlock \/ WriteBackFails \/ CallSync
  \/ SyncBlock \/ SyncFlush \/ SyncTable \/ SyncTableFlush \/ SyncReturns
  \/ WriteFirstBlock \/ WriteChunk \/ FlushChunk \/ ReadBackFirstBlock
  \/ FinalSync \/ VerifyCustomisation

Next == ExtractThread \/ Persist

Spec == Init /\ [][Next]_vars

-------------------------------------------------------------------------------
(***************************************************************************)
(* Every variable stays within its type; what is dirty is in the cache,    *)
(* and sync() is told of it.                                               *)
(***************************************************************************)
TypeOK ==
  /\ kind \in Kinds
  /\ step \in {"image", "files", "sync", "table", "tableFlush", "chunk", "chunkFlush",
              "readBack", "final", "check", "done"}
  /\ call \in 1..3
  /\ block \in 0..(LastBlock + 1)
  /\ firstBlock \in BOOLEAN /\ anyDirty \in BOOLEAN
  /\ cache \in Versions /\ wanted \in Versions /\ promised \in Versions
  /\ device \in Versions /\ medium \in Versions
  /\ dirty \subseteq {b \in Blocks : cache[b] # 0}
  /\ dirty # {} => anyDirty
  /\ verdict \in {"none", "error", "success", "unchecked"}

(***************************************************************************)
(* devicewrapper.cpp:57-69, downloadthread.cpp:1888-1894: whenever the     *)
(* drive is pulled, a partition table on the medium stands before a        *)
(* complete file system.  An image with an expected hash is written from   *)
(* its first block on, and the rest of the first chunk is written with the *)
(* table unless the image is customised (TableIsLast).                     *)
(***************************************************************************)
TableLast ==
  ~ExpectedHash /\ ~Dropping /\ medium[0] # 0 =>
    /\ promised[0] # 0
    /\ \A b \in (IF Customised THEN Blocks \ {0} ELSE Blocks \ Chunk) :
         medium[b] >= promised[b]

(***************************************************************************)
(* The same of every image and every block (MCDeviceExceptions.cfg).       *)
(***************************************************************************)
TableIsLast == medium[0] # 0 => \A b \in Blocks \ {0} : medium[b] >= wanted[b]

Durable(b) == medium[b] = wanted[b]

(***************************************************************************)
(* downloadthread.cpp:1979-1982: success() is not announced for a drive    *)
(* that dropped the settings, whichever read, write or flush fails.  What  *)
(* a good drive lost in the destructor's sync() of a secure boot image     *)
(* (SettingsDurable), or a bad one dropped, is only as sure as its         *)
(* read-back.                                                              *)
(***************************************************************************)
SuccessMeansDurable ==
  /\ verdict = "success" /\ (SecureBoot \/ Dropping) =>
       \A b \in (IF Customised THEN ReadBack ELSE IF Verify THEN Blocks ELSE {}) : Durable(b)
  /\ verdict \in {"success", "unchecked"} /\ ~SecureBoot /\ ~Dropping =>
       \A b \in Blocks : Durable(b)

(***************************************************************************)
(* The same of secure boot images, whose last files the destructor writes  *)
(* (MCDeviceExceptions.cfg).                                               *)
(***************************************************************************)
SettingsDurable ==
  verdict \in {"success", "unchecked"} => \A b \in Blocks : Durable(b)
===============================================================================
