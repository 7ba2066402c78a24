------------------------------ MODULE FileExtract ------------------------------
(***************************************************************************)
(* The extraction of an archive of files: the loop of                      *)
(* DownloadExtractThread::extractMultiFileRun() and BlockBatcher between   *)
(* the blocks libarchive reads and those it writes.  libarchive is         *)
(* external: it names the entries and their blocks, with growing offsets,  *)
(* and answers each call with a code.                                      *)
(***************************************************************************)
EXTENDS Naturals, Sequences

CONSTANTS Archives,     \* archives: sequences of entries, sequences of blocks
          Capacity,     \* bytes of BlockBatcher's buffer
          Refusals,     \* a header may be refused, or lack the size of the file
          ReadErrors,   \* codes of a block that cannot be read
          WriteErrors,  \* codes of a block that cannot be written
          Cancels       \* the user may cancel, or the download fail

Block == [offset : Nat, size : Nat]

\* Offsets only grow within a file.
IsEntry(e) == \A k \in 2..Len(e) : e[k].offset >= e[k - 1].offset + e[k - 1].size

IsArchive(a) == a \in Seq(Seq(Block)) /\ \A n \in 1..Len(a) : IsEntry(a[n])

ASSUME ArchivesAssumption == \A a \in Archives : IsArchive(a)
ASSUME ErrorsAssumption == /\ ReadErrors \subseteq {"WARN", "FAILED", "FATAL"}
                           /\ WriteErrors \subseteq {"WARN", "FAILED", "FATAL"}
                           /\ {Refusals, Cancels} \subseteq BOOLEAN
ASSUME CapacityAssumption == Capacity \in Nat \ {0}

VARIABLES
  archive,     \* what is extracted
  pc,          \* where the extract thread is
  entry,       \* the entry it is at
  block,       \* the block it is at
  buffer,      \* buffer_, up to fill_
  offset,      \* offset_, when there is something in the buffer
  files,       \* the bytes in the file system: <<entry, place, byte>>
  handed,      \* those given to archive_write_data_block()
  repeated,    \* one of them was given twice
  warned,      \* archive_write_data_block() failed and that was only logged
  extracted,   \* filesExtracted
  skipped,     \* the entries whose data are passed over because of that
  cancelled    \* _cancelled

batch == <<buffer, offset>>
disk  == <<files, handed, repeated, warned>>
vars  == <<archive, pc, entry, block, batch, disk, extracted, skipped, cancelled>>

Init == /\ archive \in Archives
        /\ pc = "header"
        /\ entry = 0 /\ block = 1
        /\ buffer = <<>> /\ offset = 0
        /\ files = {} /\ handed = {} /\ repeated = FALSE /\ warned = FALSE
        /\ extracted = {} /\ skipped = {}
        /\ cancelled = FALSE

Entries == 1..Len(archive)
Blocks == archive[entry]   \* of the current entry
Current == Blocks[block]   \* the current block

HasData(n) == \E k \in 1..Len(archive[n]) : archive[n][k].size > 0

\* The bytes of a block: each is named by its entry and its place.
Bytes(b) == [k \in 1..b.size |-> <<entry, b.offset + k - 1>>]

\* Bytes in the file of the current entry, from a place on.
Placed(at, bytes) == {<<entry, at + k - 1, bytes[k]>> : k \in 1..Len(bytes)}

-------------------------------------------------------------------------------
(***************************************************************************)
(* archive_write_data_block() and _checkResult().                          *)
(***************************************************************************)
\* _checkResult() throws on one code and logs the others.
Logged(code) == code # "FATAL"

WriteData(at, bytes) == /\ handed' = handed \cup Placed(at, bytes)
                        /\ repeated' = (repeated \/ Placed(at, bytes) \cap handed # {})

Succeeds(at, bytes) == /\ WriteData(at, bytes)
                       /\ files' = files \cup Placed(at, bytes)
                       /\ UNCHANGED warned

Fails(at, bytes, code) == /\ code \in WriteErrors
                          /\ WriteData(at, bytes)
                          /\ warned' = (warned \/ Logged(code))
                          /\ UNCHANGED files

-------------------------------------------------------------------------------
(***************************************************************************)
(* Entries.                                                                *)
(***************************************************************************)
\* Mutant: a file is noted once it is complete.
NotedLater(n) == extracted

\* The files a failure has to remove, when the data of entry n come next.
Noted(n) == extracted \cup {n}

\* archive_read_next_header() and archive_write_header().
NextEntry ==
  /\ pc = "header"
  /\ entry < Len(archive)
  /\ entry' = entry + 1
  /\ block' = 1
  /\ \/ /\ HasData(entry')
        /\ extracted' = Noted(entry')
        /\ pc' = "read"
        /\ UNCHANGED skipped
     \/ /\ ~HasData(entry')
        /\ pc' = "finish"
        /\ UNCHANGED <<extracted, skipped>>
     \/ /\ Refusals
        /\ skipped' = skipped \cup {entry'}
        /\ pc' = "finish"
        /\ UNCHANGED extracted
  /\ UNCHANGED <<archive, batch, disk, cancelled>>

\* archive_read_next_header() finds no more entries; a cancelled ring reads as the end
\* of the file, which may be taken for the end of the archive.
EndOfArchive ==
  /\ pc = "header"
  /\ entry = Len(archive) \/ cancelled
  /\ pc' = "verify"
  /\ UNCHANGED <<archive, entry, block, batch, disk, extracted, skipped, cancelled>>

\* archive_read_data_block(): the data of a block, with a warning or without.
ReadBlock ==
  /\ pc = "read"
  /\ block <= Len(Blocks)
  /\ pc' = "add"
  /\ UNCHANGED <<archive, entry, block, batch, disk, extracted, skipped, cancelled>>

\* Nothing is read, now or when the loop asks again: it asks for ever.
Unreadable ==
  /\ pc = "read"
  /\ "FAILED" \in ReadErrors
  /\ pc' = "spinning"
  /\ UNCHANGED <<archive, entry, block, batch, disk, extracted, skipped, cancelled>>

\* Reading throws: the archive is damaged, or a cancelled ring ends the file where the
\* archive cannot end.
ReadFails ==
  /\ pc \in {"header", "read"}
  /\ cancelled \/ "FATAL" \in ReadErrors
  /\ pc' = "failed"
  /\ UNCHANGED <<archive, entry, block, batch, disk, extracted, skipped, cancelled>>

-------------------------------------------------------------------------------
(***************************************************************************)
(* BlockBatcher::Add().                                                    *)
(***************************************************************************)
\* Mutant: a block is taken to follow the one before it.
NeverGaps(b) == FALSE

\* The jump in offsets that must not be closed up.
Gap(b) == b.offset # offset + Len(buffer)

\* Mutant: off by one.
NoSpareByte(b) == Len(buffer) + b.size > Capacity + 1

NoRoom(b) == Len(buffer) + b.size > Capacity

FlushFirst(b) == /\ b.size > 0
                 /\ buffer # <<>>
                 /\ Gap(b) \/ b.size >= Capacity \/ NoRoom(b)

\* Mutant: the buffer is kept until it has been written.
KeptUntilWritten == UNCHANGED batch

\* Flush() clears the buffer before it writes.
ClearedIfFailed == buffer' = <<>> /\ offset' = 0

\* The pending run goes out before the block.
FlushForBlock ==
  /\ pc = "add"
  /\ FlushFirst(Current)
  /\ Succeeds(offset, buffer)
  /\ buffer' = <<>> /\ offset' = 0
  /\ UNCHANGED <<archive, pc, entry, block, extracted, skipped, cancelled>>

\* It does not: Add() returns the code, and the block is not taken.
BlockDropped ==
  /\ pc = "add"
  /\ FlushFirst(Current)
  /\ \E code \in WriteErrors :
       /\ Fails(offset, buffer, code)
       /\ IF Logged(code) THEN pc' = "read" /\ block' = block + 1
                          ELSE pc' = "failed" /\ UNCHANGED block
  /\ ClearedIfFailed
  /\ UNCHANGED <<archive, entry, extracted, skipped, cancelled>>

\* A large block is written as it is.
WriteBlock ==
  /\ pc = "add"
  /\ ~FlushFirst(Current) /\ Current.size >= Capacity
  /\ block' = block + 1
  /\ \/ Succeeds(Current.offset, Bytes(Current)) /\ pc' = "read"
     \/ \E code \in WriteErrors :
          /\ Fails(Current.offset, Bytes(Current), code)
          /\ pc' = IF Logged(code) THEN "read" ELSE "failed"
  /\ UNCHANGED <<archive, entry, batch, extracted, skipped, cancelled>>

\* A block joins the pending run; an empty one does not disturb it.
BufferBlock ==
  /\ pc = "add"
  /\ ~FlushFirst(Current) /\ Current.size < Capacity
  /\ block' = block + 1
  /\ pc' = "read"
  /\ buffer' = buffer \o Bytes(Current)
  /\ offset' = IF buffer = <<>> /\ Current.size > 0 THEN Current.offset ELSE offset
  /\ UNCHANGED <<archive, entry, disk, extracted, skipped, cancelled>>

\* Mutant: the tail of an entry waits for the next one.
NothingToFlush == TRUE

NothingPending == buffer = <<>>

\* The end of the entry: its tail goes out.
FlushEntry ==
  /\ pc = "read"
  /\ block > Len(Blocks)
  /\ \/ NothingPending /\ pc' = "finish" /\ UNCHANGED <<batch, disk>>
     \/ /\ ~NothingPending
        /\ Succeeds(offset, buffer)
        /\ buffer' = <<>> /\ offset' = 0
        /\ pc' = "finish"
     \/ /\ ~NothingPending
        /\ \E code \in WriteErrors : /\ Fails(offset, buffer, code)
                                     /\ pc' = IF Logged(code) THEN "finish" ELSE "failed"
        /\ ClearedIfFailed
  /\ UNCHANGED <<archive, entry, block, extracted, skipped, cancelled>>

-------------------------------------------------------------------------------
(***************************************************************************)
(* The end of an entry and of the extraction.                              *)
(***************************************************************************)
\* archive_write_finish_entry().
FinishEntry ==
  /\ pc = "finish"
  /\ pc' \in {"header"} \cup (IF "FATAL" \in WriteErrors THEN {"failed"} ELSE {})
  /\ UNCHANGED <<archive, entry, block, batch, disk, extracted, skipped, cancelled>>

\* The hash of the compressed file decides, unless the write is cancelled.
CheckHash ==
  /\ pc = "verify"
  /\ pc' \in {"success"} \cup (IF cancelled THEN {} ELSE {"failed"})
  /\ UNCHANGED <<archive, entry, block, batch, disk, extracted, skipped, cancelled>>

\* The exception handler removes what was extracted, and stops the download.
RemoveFiles ==
  /\ pc = "failed"
  /\ pc' = "removed"
  /\ files' = {f \in files : f[1] \notin extracted}
  /\ cancelled' = TRUE
  /\ UNCHANGED <<archive, entry, block, batch, handed, repeated, warned, extracted,
                 skipped>>

CancelDownload ==
  /\ Cancels /\ ~cancelled
  /\ pc \notin {"success", "removed"}
  /\ cancelled' = TRUE
  /\ UNCHANGED <<archive, pc, entry, block, batch, disk, extracted, skipped>>

-------------------------------------------------------------------------------
ExtractThread ==
  \/ NextEntry \/ EndOfArchive \/ ReadBlock \/ Unreadable \/ ReadFails
  \/ FlushForBlock \/ BlockDropped \/ WriteBlock \/ BufferBlock \/ FlushEntry
  \/ FinishEntry \/ CheckHash \/ RemoveFiles

Next == ExtractThread \/ CancelDownload

Spec == Init /\ [][Next]_vars

-------------------------------------------------------------------------------
(***************************************************************************)
(* Properties.                                                             *)
(***************************************************************************)
Running == {"header", "read", "add", "finish", "verify", "spinning"}

TypeOK ==
  /\ archive \in Archives
  /\ pc \in Running \cup {"failed", "success", "removed"}
  /\ entry \in 0..Len(archive)
  /\ block \in Nat \ {0}
  /\ buffer \in Seq(Entries \X Nat) /\ Len(buffer) <= Capacity
  /\ offset \in Nat
  /\ files \subseteq handed
  /\ handed \subseteq Entries \X Nat \X (Entries \X Nat)
  /\ repeated \in BOOLEAN /\ warned \in BOOLEAN /\ cancelled \in BOOLEAN
  /\ extracted \subseteq Entries /\ skipped \subseteq Entries

\* What the file of an entry has to hold: <<entry, place, byte>>.
Extent(n, k) == LET b == archive[n][k]
                IN {<<n, p, <<n, p>>>> : p \in b.offset..(b.offset + b.size - 1)}

UpTo(n, last) == UNION {Extent(n, k) : k \in 1..last}

Whole(n) == UpTo(n, Len(archive[n]))

\* Every byte that is written is written at its own place in its own file, whatever
\* is batched (block_batcher.h:44) and whatever fails.
InPlace == \A f \in handed : f[3] = <<f[1], f[2]>>

\* No byte is written twice, also after a failed write (block_batcher.h:77).
NotRepeated == ~repeated

\* Each byte of an archive is written at most once, and then where it belongs.
WrittenOnceInPlace == InPlace /\ NotRepeated

\* If no write failed, an extraction that reports success has all of the archive, or, if
\* the ring was cancelled under it, all of the entries up to some point (success() is
\* emitted all the same): every byte of every file but those that are passed over
\* because of their header.
SuccessMeansExtracted ==
  pc = "success" /\ ~warned =>
    /\ entry = Len(archive) \/ cancelled
    /\ \A n \in (1..entry) \ skipped : Whole(n) \subseteq files

\* A failed extraction leaves no data behind.
FailureLeavesNothing == pc = "removed" => files = {}

\* The loop does not ask for ever for a block that cannot be read.
NeverSpins == pc # "spinning"

\* A failed write aborts (block_batcher.h:35): the extraction is no success.
FailedWriteAborts == warned => pc # "success"
================================================================================
