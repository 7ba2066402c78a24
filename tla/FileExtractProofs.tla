--------------------------- MODULE FileExtractProofs ---------------------------
(***************************************************************************)
(* The batching of an archive's blocks puts every byte in its place, once, *)
(* and loses none but after a failed write, for every archive and every    *)
(* size of the buffer.                                                     *)
(***************************************************************************)
EXTENDS FileExtract, SequenceTheorems, TLAPS

Reading == pc \in {"read", "add"}
Between == pc \in {"header", "finish", "verify", "success"}

\* The thread is at an entry of the archive while it reads its blocks, and the
\* buffer is empty between two entries.
EntryKept ==
  /\ Reading => entry \in Entries /\ entry \in extracted
  /\ pc = "add" => block <= Len(Blocks)
  /\ Between => buffer = <<>>
  /\ pc \in {"verify", "success"} => entry = Len(archive) \/ cancelled

\* The buffer holds the bytes that belong from offset_ on.
RunKept == Reading => \A k \in 1..Len(buffer) : buffer[k] = <<entry, offset + k - 1>>

\* What was written of the current entry lies before the pending run, and that before
\* the next block.
OrderKept ==
  /\ \A f \in handed : f[1] <= entry
  /\ Reading /\ block <= Len(Blocks) =>
       /\ buffer # <<>> => offset + Len(buffer) <= Current.offset
       /\ \A f \in handed : f[1] = entry => f[2] < Current.offset
  /\ Reading /\ buffer # <<>> => \A f \in handed : f[1] = entry => f[2] < offset

\* A failure can remove what is in the file system.
FilesKept ==
  /\ \A f \in files : f[1] \in extracted
  /\ pc = "removed" => files = {}

\* Unless a write failed, nothing that was read has been lost.
NothingLost ==
  ~warned =>
    /\ Reading => UpTo(entry, block - 1) \subseteq files \cup Placed(offset, buffer)
    /\ Reading \/ Between =>
         \A n \in Entries \ skipped : n < entry => Whole(n) \subseteq files
    /\ Between /\ entry \in Entries \ skipped => Whole(entry) \subseteq files

\* The inductive invariant: that bytes are in place and not repeated rests on where
\* the pending run lies between what was written and what comes next.
IInv == /\ TypeOK /\ InPlace /\ NotRepeated
        /\ EntryKept /\ RunKept /\ OrderKept /\ FilesKept /\ NothingLost

-------------------------------------------------------------------------------
(* Runs of bytes in a file.                                                *)

\* The bytes of entry n that belong from a place on.
Run(n, at, length) == {<<n, p, <<n, p>>>> : p \in at..(at + length - 1)}

\* Bytes that lie in order are a run of their file.
LEMMA PlacedIsRun ==
  ASSUME NEW at \in Nat, NEW bytes, Len(bytes) \in Nat,
         \A k \in 1..Len(bytes) : bytes[k] = <<entry, at + k - 1>>
  PROVE  Placed(at, bytes) = Run(entry, at, Len(bytes))
  <1> DEFINE length == Len(bytes)
  <1>1. \A k \in 1..length : /\ at + k - 1 \in at..(at + length - 1)
                            /\ bytes[k] = <<entry, at + k - 1>>
    OBVIOUS
  <1>2. \A p \in at..(at + length - 1) : p + 1 - at \in 1..length /\ at + (p + 1 - at) - 1 = p
    OBVIOUS
  <1>3. Placed(at, bytes) = {<<entry, at + k - 1, bytes[k]>> : k \in 1..length}
    BY DEF Placed
  <1> HIDE DEF length
  <1>4. ASSUME NEW f \in Placed(at, bytes) PROVE f \in Run(entry, at, length)
    <2>1. PICK k \in 1..length : f = <<entry, at + k - 1, bytes[k]>>
      BY <1>3, <1>4
    <2>2. f = <<entry, at + k - 1, <<entry, at + k - 1>>>>
      BY <1>1, <2>1
    <2> QED
      BY <1>1, <2>2 DEF Run
  <1>5. ASSUME NEW f \in Run(entry, at, length) PROVE f \in Placed(at, bytes)
    <2>1. PICK p \in at..(at + length - 1) : f = <<entry, p, <<entry, p>>>>
      BY <1>5 DEF Run
    <2> DEFINE k == p + 1 - at
    <2>2. k \in 1..length /\ at + k - 1 = p
      BY <1>2
    <2> HIDE DEF k
    <2>3. f = <<entry, at + k - 1, bytes[k]>>
      BY <1>1, <2>1, <2>2
    <2> QED
      BY <1>3, <2>2, <2>3
  <1> QED
    BY <1>4, <1>5 DEF length

\* Two runs that meet are one.
LEMMA RunsMeet ==
  ASSUME NEW n, NEW at \in Nat, NEW l \in Nat, NEW m \in Nat
  PROVE  Run(n, at, l + m) = Run(n, at, l) \cup Run(n, at + l, m)
  <1>1. \A p : p \in at..(at + (l + m) - 1) <=>
              p \in at..(at + l - 1) \/ p \in (at + l)..(at + l + m - 1)
    OBVIOUS
  <1>2. Run(n, at, l + m) \subseteq Run(n, at, l) \cup Run(n, at + l, m)
    BY <1>1 DEF Run
  <1>3. Run(n, at, l) \cup Run(n, at + l, m) \subseteq Run(n, at, l + m)
    BY <1>1 DEF Run
  <1> QED
    BY <1>2, <1>3

LEMMA EmptyRun == \A n, at : at \in Nat => Run(n, at, 0) = {}
  BY DEF Run

\* The blocks of an entry.
LEMMA BlocksTyped ==
  ASSUME archive \in Archives, NEW n \in Entries
  PROVE  /\ archive[n] \in Seq(Block)
         /\ Len(archive[n]) \in Nat
         /\ \A k \in 1..Len(archive[n]) : /\ archive[n][k] \in Block
                                          /\ archive[n][k].offset \in Nat
                                          /\ archive[n][k].size \in Nat
         /\ \A k \in 2..Len(archive[n]) :
              archive[n][k].offset >= archive[n][k - 1].offset + archive[n][k - 1].size
  <1>1. archive \in Seq(Seq(Block)) /\ IsEntry(archive[n])
    BY ArchivesAssumption DEF IsArchive, Entries
  <1>2. archive[n] \in Seq(Block)
    BY <1>1 DEF Entries
  <1>3. \A k \in 1..Len(archive[n]) : archive[n][k] \in Block
    BY <1>2
  <1> QED
    BY <1>1, <1>2, <1>3 DEF IsEntry, Block

\* The bytes of a block.
LEMMA BytesOfBlock ==
  ASSUME NEW b \in Block
  PROVE  /\ Len(Bytes(b)) = b.size
         /\ \A k \in 1..b.size : Bytes(b)[k] = <<entry, b.offset + k - 1>>
         /\ entry \in Entries => Bytes(b) \in Seq(Entries \X Nat)
  <1>1. b.size \in Nat /\ b.offset \in Nat
    BY DEF Block
  <1>2. \A k \in 1..b.size : b.offset + k - 1 \in Nat
    BY <1>1
  <1> QED
    BY <1>1, <1>2 DEF Bytes

-------------------------------------------------------------------------------
(* Writing to the file of the current entry.                               *)

\* Where the thread is while it reads.
LEMMA ReadingFacts ==
  ASSUME IInv, Reading
  PROVE  /\ entry \in Entries /\ entry \in Nat /\ entry \in extracted
         /\ Blocks \in Seq(Block) /\ Len(Blocks) \in Nat
         /\ block \in Nat \ {0}
         /\ offset \in Nat /\ Len(buffer) \in Nat
         /\ Placed(offset, buffer) = Run(entry, offset, Len(buffer))
         /\ block <= Len(Blocks) =>
              /\ Current \in Block /\ Current.offset \in Nat /\ Current.size \in Nat
              /\ block + 1 <= Len(Blocks) =>
                   Blocks[block + 1].offset >= Current.offset + Current.size
  <1>1. /\ entry \in Entries /\ entry \in extracted /\ archive \in Archives
        /\ block \in Nat \ {0} /\ offset \in Nat
        /\ buffer \in Seq(Entries \X Nat)
        /\ \A k \in 1..Len(buffer) : buffer[k] = <<entry, offset + k - 1>>
    BY DEF IInv, TypeOK, EntryKept, RunKept
  <1>2. Len(buffer) \in Nat
    BY <1>1
  <1>3. Placed(offset, buffer) = Run(entry, offset, Len(buffer))
    BY <1>1, <1>2, PlacedIsRun
  <1>4. /\ Blocks \in Seq(Block) /\ Len(Blocks) \in Nat
        /\ \A k \in 1..Len(Blocks) : /\ Blocks[k] \in Block
                                     /\ Blocks[k].offset \in Nat
                                     /\ Blocks[k].size \in Nat
        /\ \A k \in 2..Len(Blocks) :
             Blocks[k].offset >= Blocks[k - 1].offset + Blocks[k - 1].size
    BY <1>1, BlocksTyped DEF Blocks
  <1>5. ASSUME block <= Len(Blocks)
        PROVE  /\ Current \in Block /\ Current.offset \in Nat /\ Current.size \in Nat
               /\ block + 1 <= Len(Blocks) =>
                    Blocks[block + 1].offset >= Current.offset + Current.size
    <2>1. block \in 1..Len(Blocks)
      BY <1>1, <1>4, <1>5
    <2>2. ASSUME block + 1 <= Len(Blocks)
          PROVE  Blocks[block + 1].offset >= Current.offset + Current.size
      <3>1. block + 1 \in 2..Len(Blocks) /\ (block + 1) - 1 = block
        BY <1>1, <1>4, <2>2
      <3> QED
        BY <1>4, <3>1 DEF Current
    <2> QED
      BY <1>4, <2>1, <2>2 DEF Current
  <1>6. entry \in Nat
    BY <1>1 DEF Entries
  <1> QED
    BY <1>1, <1>2, <1>3, <1>4, <1>5, <1>6

\* A run that lies past everything written keeps what is written in place and once.
LEMMA WriteKeeps ==
  ASSUME IInv, Reading, NEW at \in Nat, NEW length \in Nat, NEW bytes,
         Placed(at, bytes) = Run(entry, at, length),
         \A f \in handed : f[1] = entry => f[2] < at,
         WriteData(at, bytes),
         files' = files \/ files' = files \cup Placed(at, bytes),
         UNCHANGED <<archive, entry, extracted>>
  PROVE  /\ handed' = handed \cup Run(entry, at, length)
         /\ InPlace' /\ NotRepeated'
         /\ files' \subseteq handed' /\ repeated' \in BOOLEAN
         /\ handed' \subseteq Entries \X Nat \X (Entries \X Nat)
         /\ \A f \in handed' : f[1] <= entry
         /\ \A f \in handed' : f[1] = entry => f[2] < at + length
         /\ \A f \in files' : f[1] \in extracted
  <1> DEFINE run == Run(entry, at, length)
  <1>1. entry \in Entries /\ entry \in Nat /\ entry \in extracted
    BY ReadingFacts
  <1>2. \A f \in run : /\ f[1] = entry /\ f[2] \in Nat /\ f[3] = <<entry, f[2]>>
                       /\ at <= f[2] /\ f[2] < at + length
                       /\ f = <<f[1], f[2], f[3]>>
    BY DEF Run
  <1> HIDE DEF run
  <1>3. /\ handed' = handed \cup run
        /\ repeated' = (repeated \/ run \cap handed # {})
        /\ files' \subseteq files \cup run
    BY DEF WriteData, run
  <1>4. /\ files \subseteq handed
        /\ handed \subseteq Entries \X Nat \X (Entries \X Nat)
        /\ \A f \in handed : f[3] = <<f[1], f[2]>>
        /\ \A f \in handed : f[1] <= entry
        /\ \A f \in files : f[1] \in extracted
        /\ ~repeated
    BY DEF IInv, TypeOK, InPlace, OrderKept, FilesKept, NotRepeated
  <1>5. InPlace'
    BY <1>2, <1>3, <1>4 DEF InPlace
  <1>6. NotRepeated' /\ repeated' \in BOOLEAN
    <2>1. run \cap handed = {}
      <3> SUFFICES ASSUME NEW f \in run, f \in handed PROVE FALSE
        OBVIOUS
      <3>1. f[1] = entry /\ f[2] \in Nat /\ at <= f[2]
        BY <1>2
      <3>2. f[2] < at
        BY <3>1
      <3> QED
        BY <3>1, <3>2
    <2> QED
      BY <1>3, <1>4, <2>1 DEF NotRepeated
  <1>7. run \subseteq Entries \X Nat \X (Entries \X Nat)
    <2> SUFFICES ASSUME NEW f \in run PROVE f \in Entries \X Nat \X (Entries \X Nat)
      OBVIOUS
    <2>1. f = <<entry, f[2], <<entry, f[2]>>>> /\ f[2] \in Nat
      BY <1>2
    <2> QED
      BY <1>1, <2>1
  <1>8. \A f \in handed' : f[1] <= entry
    BY <1>1, <1>2, <1>3, <1>4
  <1>9. \A f \in handed' : f[1] = entry => f[2] < at + length
    <2> SUFFICES ASSUME NEW f \in handed', f[1] = entry PROVE f[2] < at + length
      OBVIOUS
    <2>1. CASE f \in run
      BY <1>2, <2>1
    <2>2. CASE f \in handed
      <3>1. f[2] \in Nat
        BY <1>4, <2>2
      <3> QED
        BY <2>2, <3>1
    <2> QED
      BY <1>3, <2>1, <2>2
  <1>10. \A f \in files' : f[1] \in extracted
    BY <1>1, <1>2, <1>3, <1>4
  <1> QED
    BY <1>3, <1>4, <1>5, <1>6, <1>7, <1>8, <1>9, <1>10 DEF run

-------------------------------------------------------------------------------
(* What a file has to hold.                                                *)

\* The archive never changes.
LEMMA SameArchive ==
  ASSUME UNCHANGED archive
  PROVE  /\ Entries' = Entries
         /\ \A n, k : UpTo(n, k)' = UpTo(n, k)
         /\ \A n : Whole(n)' = Whole(n)
  BY DEF Entries, UpTo, Whole, Extent

\* The extent of a block is the run of its bytes.
LEMMA ExtentIsRun ==
  ASSUME archive \in Archives, NEW n \in Entries, NEW k \in 1..Len(archive[n])
  PROVE  Extent(n, k) = Run(n, archive[n][k].offset, archive[n][k].size)
  BY DEF Extent, Run

\* One block more.
LEMMA UpToNext ==
  ASSUME NEW n, NEW k \in Nat \ {0}
  PROVE  UpTo(n, k) = UpTo(n, k - 1) \cup Extent(n, k)
  <1>1. 1..k = (1..(k - 1)) \cup {k}
    OBVIOUS
  <1> QED
    BY <1>1 DEF UpTo

\* All blocks are the whole file.
LEMMA UpToEnd ==
  ASSUME NEW n, Len(archive[n]) \in Nat, NEW k \in Nat, k > Len(archive[n])
  PROVE  Whole(n) \subseteq UpTo(n, k - 1)
  <1>1. 1..Len(archive[n]) \subseteq 1..(k - 1)
    OBVIOUS
  <1> QED
    BY <1>1 DEF Whole, UpTo

\* A file without data has nothing to hold.
LEMMA WholeWithoutData ==
  ASSUME archive \in Archives, NEW n \in Entries, ~HasData(n)
  PROVE  Whole(n) = {}
  <1>1. \A k \in 1..Len(archive[n]) : Extent(n, k) = {}
    <2> SUFFICES ASSUME NEW k \in 1..Len(archive[n]) PROVE Extent(n, k) = {}
      OBVIOUS
    <2>1. /\ archive[n][k].offset \in Nat /\ archive[n][k].size \in Nat
          /\ ~(archive[n][k].size > 0)
      BY BlocksTyped DEF HasData
    <2>2. archive[n][k].size = 0
      BY <2>1
    <2> QED
      BY <2>1, <2>2, ExtentIsRun, EmptyRun
  <1> QED
    BY <1>1 DEF Whole, UpTo

-------------------------------------------------------------------------------
(* Entries.                                                                *)

\* What every step keeps that leaves the archive and the disk alone.
LEMMA SameDisk ==
  ASSUME IInv, UNCHANGED <<archive, disk>>
  PROVE  /\ InPlace' /\ NotRepeated'
         /\ archive' \in Archives
         /\ files' \subseteq handed'
         /\ handed' \subseteq Entries' \X Nat \X (Entries' \X Nat)
         /\ repeated' \in BOOLEAN /\ warned' \in BOOLEAN
  <1>1. Entries' = Entries
    BY SameArchive
  <1> QED
    BY <1>1 DEF IInv, TypeOK, InPlace, NotRepeated, disk

LEMMA NextEntryStep ==
  ASSUME IInv, NextEntry
  PROVE  IInv'
  <1>1. /\ pc = "header" /\ pc' \in {"read", "finish"}
        /\ entry' = entry + 1 /\ entry < Len(archive) /\ block' = 1
        /\ extracted' \in {extracted, extracted \cup {entry'}}
        /\ skipped' \in {skipped, skipped \cup {entry'}}
        /\ pc' = "read" => entry' \in extracted'
        /\ pc' = "finish" => ~HasData(entry') \/ entry' \in skipped'
        /\ UNCHANGED <<archive, buffer, offset, files, handed, repeated, warned,
                       cancelled, disk>>
    BY DEF NextEntry, Noted, batch, disk
  <1>2. /\ TypeOK /\ EntryKept /\ OrderKept /\ FilesKept /\ NothingLost
        /\ archive \in Archives
        /\ buffer = <<>> /\ Len(buffer) = 0
        /\ entry \in Nat /\ Len(archive) \in Nat
    <2>1. buffer = <<>>
      BY <1>1 DEF IInv, EntryKept, Between
    <2>2. archive \in Seq(Seq(Block)) /\ archive \in Archives
      BY ArchivesAssumption DEF IInv, TypeOK, IsArchive
    <2> QED
      BY <2>1, <2>2 DEF IInv, TypeOK
  <1>3. /\ InPlace' /\ NotRepeated'
        /\ archive' \in Archives
        /\ files' \subseteq handed'
        /\ handed' \subseteq Entries' \X Nat \X (Entries' \X Nat)
        /\ repeated' \in BOOLEAN /\ warned' \in BOOLEAN
    BY <1>1, SameDisk
  <1>4. entry' \in Entries /\ entry' \in Nat /\ Entries' = Entries
    BY <1>1, <1>2, SameArchive DEF Entries
  <1>5. TypeOK'
    <2>1. extracted' \subseteq Entries /\ skipped' \subseteq Entries
      BY <1>1, <1>2, <1>4 DEF TypeOK
    <2>2. entry' \in 0..Len(archive) /\ block' \in Nat \ {0}
      BY <1>1, <1>2
    <2> QED
      BY <1>1, <1>2, <1>3, <1>4, <2>1, <2>2 DEF TypeOK, Running
  <1>6. EntryKept'
    BY <1>1, <1>2, <1>4 DEF EntryKept, Reading, Between
  <1>7. RunKept'
    BY <1>1, <1>2 DEF RunKept
  <1>8. OrderKept'
    <2>1. \A f \in handed : f[1] \in Nat /\ f[1] <= entry
      BY <1>2 DEF TypeOK, OrderKept, Entries
    <2>2. \A f \in handed' : f[1] <= entry' /\ f[1] # entry'
      BY <1>1, <1>2, <2>1
    <2> QED
      BY <1>1, <1>2, <2>2 DEF OrderKept
  <1>9. FilesKept'
    BY <1>1, <1>2 DEF FilesKept
  <1>10. NothingLost'
    <2> SUFFICES ASSUME ~warned
                 PROVE  /\ UpTo(entry', 0) = {}
                        /\ \A n \in Entries \ skipped' : n < entry' => Whole(n) \subseteq files
                        /\ pc' = "finish" /\ entry' \in Entries \ skipped'
                             => Whole(entry') \subseteq files
      <3>1. UpTo(entry, block - 1)' = UpTo(entry', 0)
        BY <1>1 DEF UpTo, Extent
      <3>2. Whole(entry)' = Whole(entry')
        BY <1>1 DEF Whole, UpTo, Extent
      <3>3. \A n : Whole(n)' = Whole(n)
        BY <1>1, SameArchive
      <3> QED
        BY <1>1, <1>4, <3>1, <3>2, <3>3 DEF NothingLost, Reading, Between
    <2>1. UpTo(entry', 0) = {}
      BY DEF UpTo
    <2>2. ASSUME NEW n \in Entries \ skipped', n < entry'
          PROVE  Whole(n) \subseteq files
      <3>1. n \in Entries \ skipped /\ n \in Nat /\ (n < entry \/ n = entry)
        BY <1>1, <1>2, <2>2 DEF Entries
      <3> QED
        BY <1>1, <1>2, <3>1 DEF NothingLost, Between
    <2>3. ASSUME pc' = "finish", entry' \in Entries \ skipped'
          PROVE  Whole(entry') \subseteq files
      BY <1>1, <1>2, <2>3, WholeWithoutData
    <2> QED
      BY <2>1, <2>2, <2>3
  <1> QED
    BY <1>3, <1>5, <1>6, <1>7, <1>8, <1>9, <1>10 DEF IInv

\* The steps that only move the thread on, and those of the user.
LEMMA ControlSteps ==
  ASSUME IInv,
         EndOfArchive \/ ReadBlock \/ Unreadable \/ ReadFails \/ FinishEntry \/ CheckHash
           \/ CancelDownload \/ UNCHANGED vars
  PROVE  IInv'
  <1>1. /\ UNCHANGED <<archive, entry, block, buffer, offset, files, handed, repeated,
                       warned, extracted, skipped, disk>>
        /\ cancelled' \in BOOLEAN /\ (cancelled => cancelled')
    BY DEF IInv, TypeOK, EndOfArchive, ReadBlock, Unreadable, ReadFails, FinishEntry,
           CheckHash, CancelDownload, vars, batch, disk
  <1>2. \/ pc' = pc
        \/ pc = "header" /\ pc' = "verify" /\ (entry = Len(archive) \/ cancelled)
        \/ pc = "read" /\ pc' = "add" /\ block <= Len(Blocks)
        \/ pc = "finish" /\ pc' = "header"
        \/ pc = "verify" /\ pc' = "success"
        \/ pc' \in {"failed", "spinning"}
    BY DEF EndOfArchive, ReadBlock, Unreadable, ReadFails, FinishEntry, CheckHash,
           CancelDownload, vars
  <1>3. /\ InPlace' /\ NotRepeated'
        /\ archive' \in Archives
        /\ files' \subseteq handed'
        /\ handed' \subseteq Entries' \X Nat \X (Entries' \X Nat)
        /\ repeated' \in BOOLEAN /\ warned' \in BOOLEAN
    BY <1>1, SameDisk
  <1>4. /\ TypeOK /\ EntryKept /\ RunKept /\ OrderKept /\ FilesKept /\ NothingLost
        /\ pc \in Running \cup {"failed", "success", "removed"}
    BY DEF IInv, TypeOK
  <1>5. /\ Entries' = Entries /\ Blocks' = Blocks /\ Current' = Current
        /\ UpTo(entry, block - 1)' = UpTo(entry, block - 1)
        /\ Placed(offset, buffer)' = Placed(offset, buffer)
        /\ Whole(entry)' = Whole(entry)
        /\ \A n : Whole(n)' = Whole(n)
    BY <1>1, SameArchive DEF Blocks, Current, UpTo, Extent, Placed, Whole
  <1>6. TypeOK'
    BY <1>1, <1>2, <1>3, <1>4, <1>5 DEF TypeOK, Running
  <1>7. EntryKept'
    BY <1>1, <1>2, <1>4, <1>5 DEF EntryKept, Reading, Between
  <1>8. RunKept'
    BY <1>1, <1>2, <1>4 DEF RunKept, Reading
  <1>9. OrderKept'
    BY <1>1, <1>2, <1>4, <1>5 DEF OrderKept, Reading
  <1>10. FilesKept'
    BY <1>1, <1>2, <1>4 DEF FilesKept
  <1>11. NothingLost'
    BY <1>1, <1>2, <1>4, <1>5 DEF NothingLost, Reading, Between
  <1> QED
    BY <1>3, <1>6, <1>7, <1>8, <1>9, <1>10, <1>11 DEF IInv

\* What was extracted is removed.
LEMMA RemoveFilesStep ==
  ASSUME IInv, RemoveFiles
  PROVE  IInv'
  <1>1. /\ UNCHANGED <<archive, entry, block, buffer, offset, handed, repeated, warned,
                       extracted, skipped>>
        /\ cancelled' = TRUE
        /\ pc' = "removed"
        /\ files' = {f \in files : f[1] \notin extracted}
    BY DEF RemoveFiles, batch
  <1>2. TypeOK /\ InPlace /\ NotRepeated /\ OrderKept /\ FilesKept
    BY DEF IInv
  <1>3. files' = {}
    BY <1>1, <1>2 DEF FilesKept
  <1>4. Entries' = Entries
    BY <1>1, SameArchive
  <1>5. TypeOK'
    BY <1>1, <1>2, <1>3, <1>4 DEF TypeOK
  <1>6. InPlace' /\ NotRepeated' /\ FilesKept'
    BY <1>1, <1>2, <1>3 DEF InPlace, NotRepeated, FilesKept
  <1>7. OrderKept'
    BY <1>1, <1>2 DEF OrderKept, Reading
  <1>8. EntryKept' /\ RunKept' /\ NothingLost'
    BY <1>1 DEF EntryKept, RunKept, NothingLost, Reading, Between
  <1> QED
    BY <1>5, <1>6, <1>7, <1>8 DEF IInv

-------------------------------------------------------------------------------
(* Blocks.                                                                 *)

LEMMA NothingPlaced == \A at : Placed(at, <<>>) = {}
  BY DEF Placed

\* A write during which the thread reads, whether it succeeds or not: a run goes out
\* that lies past what was written and before the next block, and what it leaves
\* unwritten is lost only with a warning or an exception.
LEMMA WriteStep ==
  ASSUME IInv, Reading, NEW at \in Nat, NEW length \in Nat, NEW bytes,
         Placed(at, bytes) = Run(entry, at, length),
         \A f \in handed : f[1] = entry => f[2] < at,
         WriteData(at, bytes),
         \/ files' = files \cup Placed(at, bytes)
         \/ files' = files /\ (warned' \/ pc' = "failed"),
         warned => warned', warned' \in BOOLEAN,
         UNCHANGED <<archive, entry, extracted, skipped, cancelled>>,
         buffer' = <<>>, offset' \in Nat, block' \in Nat \ {0},
         pc' \in {"read", "add", "finish", "failed"},
         pc' = "add" => block' <= Len(Blocks),
         pc' \in {"read", "add"} /\ block' <= Len(Blocks)
           => at + length <= Blocks[block'].offset,
         ~warned' /\ pc' \in {"read", "add"}
           => UpTo(entry, block' - 1) \subseteq files \cup Placed(at, bytes),
         ~warned' /\ pc' = "finish" => Whole(entry) \subseteq files \cup Placed(at, bytes)
  PROVE  IInv'
  <1>1. /\ InPlace' /\ NotRepeated'
        /\ files' \subseteq handed' /\ repeated' \in BOOLEAN
        /\ handed' \subseteq Entries \X Nat \X (Entries \X Nat)
        /\ \A f \in handed' : f[1] <= entry
        /\ \A f \in handed' : f[1] = entry => f[2] < at + length
        /\ \A f \in files' : f[1] \in extracted
    BY WriteKeeps
  <1>2. /\ TypeOK /\ EntryKept /\ NothingLost
        /\ entry \in Entries /\ entry \in extracted
        /\ Blocks \in Seq(Block) /\ Len(Blocks) \in Nat
        /\ \A k \in 1..Len(Blocks) : Blocks[k].offset \in Nat
    <2>1. entry \in Entries /\ archive \in Archives
      BY ReadingFacts DEF IInv, TypeOK
    <2> QED
      BY <2>1, ReadingFacts, BlocksTyped DEF IInv, Blocks
  <1>3. /\ Entries' = Entries /\ Blocks' = Blocks /\ Current' = Blocks[block']
        /\ UpTo(entry, block - 1)' = UpTo(entry, block' - 1)
        /\ Placed(offset, buffer)' = {}
        /\ Whole(entry)' = Whole(entry)
        /\ \A n : Whole(n)' = Whole(n)
    <2>1. Placed(offset, buffer)' = {}
      BY NothingPlaced DEF Placed
    <2> QED
      BY <2>1, SameArchive DEF Blocks, Current, UpTo, Extent, Whole
  <1>4. TypeOK'
    <2>1. buffer' \in Seq(Entries \X Nat) /\ Len(buffer') <= Capacity
      BY CapacityAssumption
    <2> QED
      BY <1>1, <1>2, <1>3, <2>1 DEF TypeOK, Running
  <1>5. EntryKept'
    BY <1>2, <1>3 DEF EntryKept, Reading, Between
  <1>6. RunKept'
    BY DEF RunKept
  <1>7. OrderKept'
    <2>1. ASSUME pc' \in {"read", "add"}, block' <= Len(Blocks), NEW f \in handed',
                 f[1] = entry
          PROVE  f[2] < Blocks[block'].offset
      <3>1. f[2] \in Nat /\ f[2] < at + length
        BY <1>1, <2>1
      <3>2. block' \in 1..Len(Blocks) /\ at + length <= Blocks[block'].offset
        BY <1>2, <2>1
      <3>3. Blocks[block'].offset \in Nat
        BY <1>2, <3>2
      <3> DEFINE place == f[2]
                 next  == Blocks[block'].offset
      <3>4. place \in Nat /\ next \in Nat /\ place < at + length /\ at + length <= next
        BY <3>1, <3>2, <3>3
      <3> HIDE DEF place, next
      <3>5. place < next
        BY <3>4
      <3> QED
        BY <3>5 DEF place, next
    <2> QED
      BY <1>1, <1>3, <2>1 DEF OrderKept, Reading
  <1>8. FilesKept'
    BY <1>1 DEF FilesKept
  <1>9. NothingLost'
    <2> SUFFICES ASSUME ~warned', pc' # "failed"
                 PROVE  /\ pc' \in {"read", "add"} => UpTo(entry, block' - 1) \subseteq files'
                        /\ \A n \in Entries \ skipped : n < entry => Whole(n) \subseteq files'
                        /\ pc' = "finish" => Whole(entry) \subseteq files'
      BY <1>3 DEF NothingLost, Reading, Between
    <2>1. ~warned /\ files' = files \cup Placed(at, bytes)
      OBVIOUS
    <2>2. \A n \in Entries \ skipped : n < entry => Whole(n) \subseteq files
      BY <1>2, <2>1 DEF NothingLost
    <2> QED
      BY <2>1, <2>2
  <1> QED
    BY <1>1, <1>4, <1>5, <1>6, <1>7, <1>8, <1>9 DEF IInv

\* What is pending when the thread reads: its place, and that it completes what was
\* read so far.
LEMMA PendingFacts ==
  ASSUME IInv, Reading
  PROVE  /\ buffer # <<>> => \A f \in handed : f[1] = entry => f[2] < offset
         /\ block <= Len(Blocks) =>
              /\ buffer # <<>> => offset + Len(buffer) <= Current.offset
              /\ \A f \in handed : f[1] = entry => f[2] < Current.offset
         /\ ~warned => UpTo(entry, block - 1) \subseteq files \cup Placed(offset, buffer)
         /\ warned \in BOOLEAN
  BY DEF IInv, OrderKept, NothingLost, TypeOK

LEMMA FlushForBlockStep ==
  ASSUME IInv, FlushForBlock
  PROVE  IInv'
  <1>1. /\ pc = "add" /\ pc' = pc /\ buffer # <<>> /\ buffer' = <<>> /\ offset' = 0
        /\ WriteData(offset, buffer) /\ files' = files \cup Placed(offset, buffer)
        /\ UNCHANGED <<archive, entry, block, extracted, skipped, cancelled, warned>>
    BY DEF FlushForBlock, FlushFirst, Succeeds
  <1>2. Reading /\ block <= Len(Blocks)
    BY <1>1 DEF Reading, IInv, EntryKept
  <1> QED
    BY <1>1, <1>2, ReadingFacts, PendingFacts,
       WriteStep, Zenon DEF Current

\* A failed write is logged or fatal.
LEMMA FailedWrite ==
  ASSUME NEW at, NEW bytes, NEW code, Fails(at, bytes, code), warned \in BOOLEAN
  PROVE  /\ WriteData(at, bytes) /\ files' = files
         /\ warned => warned'
         /\ Logged(code) => warned'
         /\ warned' \in BOOLEAN
  BY DEF Fails, Logged

LEMMA BlockDroppedStep ==
  ASSUME IInv, BlockDropped
  PROVE  IInv'
  <1>1. PICK code \in WriteErrors :
          /\ Fails(offset, buffer, code)
          /\ IF Logged(code) THEN pc' = "read" /\ block' = block + 1
                             ELSE pc' = "failed" /\ block' = block
    BY DEF BlockDropped
  <1>2. /\ pc = "add" /\ buffer # <<>> /\ buffer' = <<>> /\ offset' = 0
        /\ UNCHANGED <<archive, entry, extracted, skipped, cancelled>>
    BY DEF BlockDropped, FlushFirst, ClearedIfFailed
  <1>3. Reading /\ block <= Len(Blocks)
    BY <1>2 DEF Reading, IInv, EntryKept
  <1>4. /\ WriteData(offset, buffer) /\ files' = files
        /\ (warned => warned') /\ warned' \in BOOLEAN
        /\ \/ pc' = "failed"
           \/ warned' /\ pc' = "read" /\ block' = block + 1
        /\ block' \in {block, block + 1}
    <2>1. warned \in BOOLEAN
      BY DEF IInv, TypeOK
    <2>2. /\ WriteData(offset, buffer) /\ files' = files
          /\ (warned => warned') /\ warned' \in BOOLEAN
          /\ Logged(code) => warned'
      BY <1>1, <2>1, FailedWrite
    <2>3. CASE Logged(code)
      BY <1>1, <2>2, <2>3
    <2>4. CASE ~Logged(code)
      BY <1>1, <2>2, <2>4
    <2> QED
      BY <2>3, <2>4
  <1>5. ASSUME pc' = "read", block' <= Len(Blocks)
        PROVE  offset + Len(buffer) <= Blocks[block'].offset
    <2>1. /\ block' = block + 1 /\ block + 1 <= Len(Blocks)
          /\ Blocks[block + 1].offset >= Current.offset + Current.size
          /\ Current.offset \in Nat /\ Current.size \in Nat
      BY <1>3, <1>4, <1>5, ReadingFacts
    <2>2. /\ offset + Len(buffer) <= Current.offset
          /\ offset \in Nat /\ Len(buffer) \in Nat
      BY <1>2, <1>3, ReadingFacts, PendingFacts
    <2>3. block \in Nat \ {0} /\ Len(Blocks) \in Nat /\ Blocks \in Seq(Block)
      BY <1>3, ReadingFacts
    <2>4. block + 1 \in 1..Len(Blocks)
      BY <2>1, <2>3
    <2>5. Blocks[block + 1].offset \in Nat
      <3>1. Blocks[block + 1] \in Block
        BY <2>3, <2>4
      <3> QED
        BY <3>1 DEF Block
    <2>6. offset + Len(buffer) <= Blocks[block + 1].offset
      BY <2>1, <2>2, <2>5
    <2> QED
      BY <2>1, <2>6
  <1>6. block' \in Nat \ {0}
    BY <1>3, <1>4, ReadingFacts
  <1>7. /\ Placed(offset, buffer) = Run(entry, offset, Len(buffer))
        /\ offset \in Nat /\ Len(buffer) \in Nat
        /\ \A f \in handed : f[1] = entry => f[2] < offset
    BY <1>2, <1>3, ReadingFacts, PendingFacts
  <1>8. /\ pc' \in {"read", "add", "finish", "failed"} /\ pc' # "add"
        /\ pc' \in {"read", "add"} /\ block' <= Len(Blocks)
             => offset + Len(buffer) <= Blocks[block'].offset
        /\ ~(~warned' /\ pc' \in {"read", "add"})
        /\ ~(~warned' /\ pc' = "finish")
        /\ files' = files /\ (warned' \/ pc' = "failed")
        /\ offset' \in Nat
    BY <1>2, <1>4, <1>5
  <1> QED
    BY <1>2, <1>3, <1>4, <1>6, <1>7, <1>8, WriteStep

LEMMA FlushEntryStep ==
  ASSUME IInv, FlushEntry
  PROVE  IInv'
  <1>1. /\ pc = "read" /\ block > Len(Blocks)
        /\ UNCHANGED <<archive, entry, block, extracted, skipped, cancelled>>
    BY DEF FlushEntry
  <1>2. Reading
    BY <1>1 DEF Reading
  <1>3. /\ Placed(offset, buffer) = Run(entry, offset, Len(buffer))
        /\ offset \in Nat /\ Len(buffer) \in Nat /\ entry \in Entries
        /\ Len(Blocks) \in Nat /\ block \in Nat \ {0}
        /\ warned \in BOOLEAN
        /\ buffer # <<>> => \A f \in handed : f[1] = entry => f[2] < offset
    BY <1>2, ReadingFacts, PendingFacts
  <1>4. ~warned => Whole(entry) \subseteq files \cup Placed(offset, buffer)
    <2>1. Whole(entry) \subseteq UpTo(entry, block - 1)
      BY <1>1, <1>3, UpToEnd DEF Blocks
    <2> QED
      BY <1>2, <2>1, PendingFacts
  <1>5. CASE /\ buffer # <<>> /\ WriteData(offset, buffer)
             /\ buffer' = <<>> /\ offset' = 0
             /\ \/ /\ files' = files \cup Placed(offset, buffer)
                   /\ pc' = "finish" /\ warned' = warned
                \/ /\ files' = files
                   /\ (warned => warned') /\ warned' \in BOOLEAN
                   /\ pc' = "failed" \/ (warned' /\ pc' = "finish")
    <2>1. /\ \/ files' = files \cup Placed(offset, buffer)
             \/ files' = files /\ (warned' \/ pc' = "failed")
          /\ (warned => warned') /\ warned' \in BOOLEAN
          /\ pc' \in {"finish", "failed"} /\ offset' \in Nat
      BY <1>3, <1>5
    <2>2. /\ pc' \in {"read", "add", "finish", "failed"} /\ pc' # "add"
          /\ ~(pc' \in {"read", "add"})
          /\ ~warned' /\ pc' = "finish" => Whole(entry) \subseteq files \cup Placed(offset, buffer)
      BY <1>4, <2>1
    <2> QED
      BY <1>1, <1>2, <1>3, <1>5, <2>1, <2>2, WriteStep
  <1>6. CASE buffer = <<>> /\ pc' = "finish" /\ UNCHANGED <<batch, disk>>
    <2>1. UNCHANGED <<buffer, offset, files, handed, repeated, warned>>
      BY <1>6 DEF batch, disk
    <2>2. /\ InPlace' /\ NotRepeated'
          /\ archive' \in Archives
          /\ files' \subseteq handed'
          /\ handed' \subseteq Entries' \X Nat \X (Entries' \X Nat)
          /\ repeated' \in BOOLEAN /\ warned' \in BOOLEAN
      BY <1>1, <1>6, SameDisk
    <2>3. /\ TypeOK /\ EntryKept /\ OrderKept /\ FilesKept /\ NothingLost
      BY DEF IInv
    <2>4. Entries' = Entries /\ Whole(entry)' = Whole(entry) /\ \A n : Whole(n)' = Whole(n)
      BY <1>1, SameArchive DEF Whole, UpTo, Extent
    <2>5. TypeOK'
      BY <1>1, <1>6, <2>1, <2>2, <2>3, <2>4 DEF TypeOK, Running
    <2>6. EntryKept' /\ RunKept' /\ OrderKept' /\ FilesKept'
      BY <1>1, <1>6, <2>1, <2>3 DEF EntryKept, RunKept, OrderKept, FilesKept, Reading, Between
    <2>7. NothingLost'
      <3>1. ~warned => Whole(entry) \subseteq files
        BY <1>4, <1>6, NothingPlaced
      <3> QED
        BY <1>1, <1>2, <1>6, <2>1, <2>3, <2>4, <3>1 DEF NothingLost, Reading, Between
    <2> QED
      BY <2>2, <2>5, <2>6, <2>7 DEF IInv
  <1>7. ASSUME NEW code \in WriteErrors, Fails(offset, buffer, code),
               pc' = IF Logged(code) THEN "finish" ELSE "failed"
        PROVE  /\ WriteData(offset, buffer) /\ files' = files
               /\ (warned => warned') /\ warned' \in BOOLEAN
               /\ pc' = "failed" \/ (warned' /\ pc' = "finish")
    <2>1. /\ WriteData(offset, buffer) /\ files' = files
          /\ (warned => warned') /\ warned' \in BOOLEAN
          /\ Logged(code) => warned'
      BY <1>3, <1>7, FailedWrite
    <2>2. CASE Logged(code)
      BY <1>7, <2>1, <2>2
    <2>3. CASE ~Logged(code)
      BY <1>7, <2>1, <2>3
    <2> QED
      BY <2>2, <2>3
  <1> QED
    BY <1>5, <1>6, <1>7 DEF FlushEntry, NothingPending, Succeeds, ClearedIfFailed

\* With the current block, what was read reaches one block further.
LEMMA ReadFurther ==
  ASSUME IInv, Reading, block <= Len(Blocks)
  PROVE  UpTo(entry, block)
           = UpTo(entry, block - 1) \cup Run(entry, Current.offset, Current.size)
  <1>1. /\ archive \in Archives /\ entry \in Entries
        /\ block \in Nat \ {0} /\ Len(Blocks) \in Nat
    BY ReadingFacts DEF IInv, TypeOK
  <1>2. block \in 1..Len(Blocks)
    BY <1>1
  <1>3. Extent(entry, block) = Run(entry, Current.offset, Current.size)
    BY <1>1, <1>2, ExtentIsRun DEF Blocks, Current
  <1> QED
    BY <1>1, <1>3, UpToNext

LEMMA WriteBlockStep ==
  ASSUME IInv, WriteBlock
  PROVE  IInv'
  <1> DEFINE bytes == Bytes(Current)
  <1>1. /\ pc = "add" /\ ~FlushFirst(Current) /\ Current.size >= Capacity
        /\ block' = block + 1 /\ buffer' = buffer /\ offset' = offset
        /\ UNCHANGED <<archive, entry, extracted, skipped, cancelled>>
        /\ \/ Succeeds(Current.offset, bytes) /\ pc' = "read"
           \/ \E code \in WriteErrors :
                /\ Fails(Current.offset, bytes, code)
                /\ pc' = IF Logged(code) THEN "read" ELSE "failed"
    BY DEF WriteBlock, batch
  <1>2. Reading /\ block <= Len(Blocks)
    BY <1>1 DEF Reading, IInv, EntryKept
  <1>3. /\ entry \in Entries /\ block \in Nat \ {0} /\ offset \in Nat
        /\ Current \in Block /\ Current.offset \in Nat /\ Current.size \in Nat
        /\ block + 1 <= Len(Blocks) =>
             Blocks[block + 1].offset >= Current.offset + Current.size
    BY <1>2, ReadingFacts
  <1>4. buffer = <<>>
    BY <1>1, <1>3, CapacityAssumption DEF FlushFirst
  <1>5. Placed(Current.offset, bytes) = Run(entry, Current.offset, Current.size)
    <2>1. /\ Len(bytes) = Current.size
          /\ \A k \in 1..Len(bytes) : bytes[k] = <<entry, Current.offset + k - 1>>
      BY <1>3, BytesOfBlock
    <2> HIDE DEF bytes
    <2> QED
      BY <1>3, <2>1, PlacedIsRun
  <1>6. /\ \A f \in handed : f[1] = entry => f[2] < Current.offset
        /\ warned \in BOOLEAN
        /\ ~warned => UpTo(entry, block - 1) \subseteq files
    BY <1>2, <1>4, PendingFacts, NothingPlaced
  <1>7. /\ WriteData(Current.offset, bytes)
        /\ (warned => warned') /\ warned' \in BOOLEAN
        /\ \/ files' = files \cup Placed(Current.offset, bytes)
           \/ files' = files /\ (warned' \/ pc' = "failed")
        /\ pc' \in {"read", "failed"}
    <2> HIDE DEF bytes
    <2>1. CASE Succeeds(Current.offset, bytes) /\ pc' = "read"
      BY <1>6, <2>1 DEF Succeeds
    <2>2. CASE \E code \in WriteErrors :
                 /\ Fails(Current.offset, bytes, code)
                 /\ pc' = IF Logged(code) THEN "read" ELSE "failed"
      <3>1. PICK code \in WriteErrors :
              /\ Fails(Current.offset, bytes, code)
              /\ pc' = IF Logged(code) THEN "read" ELSE "failed"
        BY <2>2
      <3>2. /\ WriteData(Current.offset, bytes) /\ files' = files
            /\ (warned => warned') /\ warned' \in BOOLEAN
            /\ Logged(code) => warned'
        BY <1>6, <3>1, FailedWrite
      <3>3. CASE Logged(code)
        BY <3>1, <3>2, <3>3
      <3>4. CASE ~Logged(code)
        BY <3>1, <3>2, <3>4
      <3> QED
        BY <3>3, <3>4
    <2> QED
      BY <1>1, <2>1, <2>2
  <1>8. ~warned' => UpTo(entry, block) \subseteq files \cup Placed(Current.offset, bytes)
    BY <1>2, <1>5, <1>6, <1>7, ReadFurther
  <1>9. /\ pc' \in {"read", "add", "finish", "failed"} /\ pc' # "add" /\ pc' # "finish"
        /\ block' = block + 1 /\ (block + 1) - 1 = block /\ block' \in Nat \ {0}
        /\ pc' \in {"read", "add"} /\ block' <= Len(Blocks)
             => Current.offset + Current.size <= Blocks[block'].offset
    <2>1. ASSUME block + 1 <= Len(Blocks)
          PROVE  Current.offset + Current.size <= Blocks[block + 1].offset
      <3>1. block + 1 \in 1..Len(Blocks) /\ Blocks \in Seq(Block)
        BY <1>2, <1>3, <2>1, ReadingFacts
      <3>2. Blocks[block + 1] \in Block
        BY <3>1
      <3>3. Blocks[block + 1].offset \in Nat
        BY <3>2 DEF Block
      <3> QED
        BY <1>3, <2>1, <3>3
    <2> QED
      BY <1>1, <1>3, <1>7, <2>1
  <1>10. /\ block' - 1 = block
         /\ ~warned' /\ pc' \in {"read", "add"}
              => UpTo(entry, block' - 1) \subseteq files \cup Placed(Current.offset, bytes)
         /\ buffer' = <<>> /\ offset' \in Nat
    BY <1>1, <1>3, <1>4, <1>8, <1>9
  <1> HIDE DEF bytes
  <1> QED
    BY <1>1, <1>2, <1>3, <1>5, <1>6, <1>7, <1>9, <1>10, WriteStep

\* A block that joins the pending run continues it.
LEMMA Joined ==
  ASSUME IInv, BufferBlock
  PROVE  /\ offset' \in Nat
         /\ buffer' \in Seq(Entries \X Nat) /\ Len(buffer') <= Capacity
         /\ Len(buffer') = Len(buffer) + Current.size
         /\ \A k \in 1..Len(buffer') : buffer'[k] = <<entry, offset' + k - 1>>
         /\ buffer' # <<>> => offset' + Len(buffer') <= Current.offset + Current.size
         /\ buffer' # <<>> => \A f \in handed : f[1] = entry => f[2] < offset'
         /\ Run(entry, offset', Len(buffer'))
              = Run(entry, offset, Len(buffer)) \cup Run(entry, Current.offset, Current.size)
  <1> DEFINE bytes == Bytes(Current)
             size  == Current.size
             at    == Current.offset
             l     == Len(buffer)
  <1>1. /\ pc = "add" /\ ~FlushFirst(Current) /\ size < Capacity
        /\ buffer' = buffer \o bytes
        /\ offset' = IF buffer = <<>> /\ size > 0 THEN at ELSE offset
    BY DEF BufferBlock
  <1>2. Reading /\ block <= Len(Blocks)
    BY <1>1 DEF Reading, IInv, EntryKept
  <1>3. /\ entry \in Entries /\ offset \in Nat /\ l \in Nat
        /\ Current \in Block /\ at \in Nat /\ size \in Nat
    BY <1>2, ReadingFacts
  <1>4. /\ buffer \in Seq(Entries \X Nat) /\ l <= Capacity
        /\ \A k \in 1..l : buffer[k] = <<entry, offset + k - 1>>
    BY <1>2 DEF IInv, TypeOK, RunKept
  <1>5. /\ Len(bytes) = size
        /\ \A k \in 1..size : bytes[k] = <<entry, at + k - 1>>
        /\ bytes \in Seq(Entries \X Nat)
    BY <1>3, BytesOfBlock
  <1>6. /\ buffer # <<>> => \A f \in handed : f[1] = entry => f[2] < offset
        /\ buffer # <<>> => offset + l <= at
        /\ \A f \in handed : f[1] = entry => f[2] < at
    BY <1>2, PendingFacts
  <1>7. size > 0 /\ buffer # <<>> => at = offset + l /\ l + size <= Capacity
    BY <1>1, <1>3, CapacityAssumption DEF FlushFirst, Gap, NoRoom
  <1> HIDE DEF bytes, size, at
  <1>8. /\ buffer' \in Seq(Entries \X Nat)
        /\ Len(buffer') = l + size
        /\ \A k \in 1..(l + size) :
             buffer'[k] = IF k <= l THEN buffer[k] ELSE bytes[k - l]
    BY <1>1, <1>4, <1>5
  <1> HIDE DEF l
  <1>9. l = 0 <=> buffer = <<>>
    BY <1>4, EmptySeq DEF l
  <1>10. CASE size = 0
    <2>1. /\ offset' = offset /\ Len(buffer') = l
          /\ \A k \in 1..l : buffer'[k] = buffer[k]
      BY <1>1, <1>3, <1>8, <1>10
    <2>2. buffer' # <<>> => l # 0 /\ offset + l <= at + size
      BY <1>3, <1>6, <1>8, <1>9, <1>10, <2>1, EmptySeq
    <2>3. Run(entry, at, size) = {}
      BY <1>3, <1>10, EmptyRun
    <2>4. /\ \A k \in 1..Len(buffer') : buffer'[k] = <<entry, offset' + k - 1>>
          /\ Run(entry, offset', Len(buffer')) = Run(entry, offset, l) \cup Run(entry, at, size)
      BY <1>4, <2>1, <2>3
    <2> QED
      BY <1>3, <1>4, <1>6, <1>8, <1>9, <2>1, <2>2, <2>4 DEF l, at, size
  <1>11. CASE size > 0 /\ l = 0
    <2>1. /\ offset' = at /\ Len(buffer') = size
          /\ \A k \in 1..size : buffer'[k] = bytes[k]
      BY <1>1, <1>3, <1>8, <1>9, <1>11
    <2>2. Run(entry, offset, l) = {}
      BY <1>3, <1>11, EmptyRun
    <2>3. \A k \in 1..Len(buffer') : buffer'[k] = <<entry, offset' + k - 1>>
      BY <1>5, <2>1
    <2>4. Run(entry, offset', Len(buffer')) = Run(entry, offset, l) \cup Run(entry, at, size)
      BY <2>1, <2>2
    <2>5. /\ offset' + Len(buffer') <= at + size
          /\ Len(buffer') <= Capacity /\ Len(buffer') = l + size /\ offset' \in Nat
      BY <1>1, <1>3, <1>11, <2>1, CapacityAssumption
    <2>6. \A f \in handed : f[1] = entry => f[2] < offset'
      BY <1>6, <2>1
    <2> QED
      BY <1>8, <2>3, <2>4, <2>5, <2>6 DEF l, at, size
  <1>12. CASE size > 0 /\ l # 0
    <2>1. offset' = offset /\ at = offset + l /\ l + size <= Capacity
      BY <1>1, <1>7, <1>9, <1>12
    <2>2. \A k \in 1..(l + size) : buffer'[k] = <<entry, offset + k - 1>>
      <3> SUFFICES ASSUME NEW k \in 1..(l + size)
                   PROVE  buffer'[k] = <<entry, offset + k - 1>>
        OBVIOUS
      <3>1. CASE k <= l
        <4>1. k \in 1..l
          BY <1>3, <3>1
        <4> QED
          BY <1>4, <1>8, <3>1, <4>1
      <3>2. CASE k > l
        <4>1. k - l \in 1..size /\ at + (k - l) - 1 = offset + k - 1 /\ ~(k <= l)
          BY <1>3, <2>1, <3>2
        <4> QED
          BY <1>5, <1>8, <4>1
      <3> QED
        BY <1>3, <3>1, <3>2
    <2>3. Run(entry, offset, l + size) = Run(entry, offset, l) \cup Run(entry, at, size)
      BY <1>3, <2>1, RunsMeet
    <2>4. /\ \A k \in 1..Len(buffer') : buffer'[k] = <<entry, offset' + k - 1>>
          /\ Run(entry, offset', Len(buffer')) = Run(entry, offset, l) \cup Run(entry, at, size)
      BY <1>8, <2>1, <2>2, <2>3
    <2>5. /\ offset' + Len(buffer') <= at + size
          /\ Len(buffer') <= Capacity /\ Len(buffer') = l + size /\ offset' \in Nat
      BY <1>3, <1>8, <2>1
    <2>6. \A f \in handed : f[1] = entry => f[2] < offset'
      BY <1>6, <1>9, <1>12, <2>1
    <2> QED
      BY <1>8, <2>4, <2>5, <2>6 DEF l, at, size
  <1> QED
    BY SMTT(30), <1>3, <1>10, <1>11, <1>12

LEMMA BufferBlockStep ==
  ASSUME IInv, BufferBlock
  PROVE  IInv'
  <1>1. /\ pc = "add" /\ pc' = "read" /\ block' = block + 1
        /\ UNCHANGED <<archive, entry, files, handed, repeated, warned, extracted, skipped,
                       cancelled, disk>>
    BY DEF BufferBlock, disk
  <1>2. Reading /\ block <= Len(Blocks)
    BY <1>1 DEF Reading, IInv, EntryKept
  <1>3. /\ entry \in Entries /\ entry \in extracted
        /\ Blocks \in Seq(Block) /\ Len(Blocks) \in Nat /\ block \in Nat \ {0}
        /\ Current.offset \in Nat /\ Current.size \in Nat
        /\ Placed(offset, buffer) = Run(entry, offset, Len(buffer))
        /\ block + 1 <= Len(Blocks) =>
             Blocks[block + 1].offset >= Current.offset + Current.size
    BY <1>2, ReadingFacts
  <1>4. /\ offset' \in Nat
        /\ buffer' \in Seq(Entries \X Nat) /\ Len(buffer') <= Capacity
        /\ \A k \in 1..Len(buffer') : buffer'[k] = <<entry, offset' + k - 1>>
        /\ buffer' # <<>> => offset' + Len(buffer') <= Current.offset + Current.size
        /\ buffer' # <<>> => \A f \in handed : f[1] = entry => f[2] < offset'
        /\ Run(entry, offset', Len(buffer'))
             = Run(entry, offset, Len(buffer)) \cup Run(entry, Current.offset, Current.size)
    BY Joined
  <1>5. /\ Len(buffer') \in Nat
        /\ Placed(offset', buffer') = Run(entry, offset', Len(buffer'))
    <2>1. Len(buffer') \in Nat
      BY <1>4, LenProperties
    <2> QED
      BY <1>4, <2>1, PlacedIsRun
  <1>6. /\ InPlace' /\ NotRepeated'
        /\ archive' \in Archives
        /\ files' \subseteq handed'
        /\ handed' \subseteq Entries' \X Nat \X (Entries' \X Nat)
        /\ repeated' \in BOOLEAN /\ warned' \in BOOLEAN
    BY <1>1, SameDisk
  <1>7. /\ Entries' = Entries /\ Blocks' = Blocks /\ Current' = Blocks[block + 1]
        /\ UpTo(entry, block - 1)' = UpTo(entry, block' - 1)
        /\ Placed(offset, buffer)' = Placed(offset', buffer')
        /\ \A n : Whole(n)' = Whole(n)
    BY <1>1, SameArchive DEF Blocks, Current, UpTo, Extent, Placed
  <1>8. TypeOK /\ EntryKept /\ OrderKept /\ FilesKept /\ NothingLost
    BY DEF IInv
  <1>9. TypeOK'
    <2>1. block' \in Nat \ {0}
      BY <1>1, <1>3
    <2> QED
      BY <1>1, <1>4, <1>6, <1>7, <1>8, <2>1 DEF TypeOK, Running
  <1>10. EntryKept'
    BY <1>1, <1>3, <1>7, <1>8 DEF EntryKept, Reading, Between
  <1>11. RunKept'
    BY <1>1, <1>4 DEF RunKept
  <1>12. OrderKept'
    <2>1. ASSUME block + 1 <= Len(Blocks)
          PROVE  /\ buffer' # <<>> => offset' + Len(buffer') <= Blocks[block + 1].offset
                 /\ \A f \in handed : f[1] = entry => f[2] < Blocks[block + 1].offset
      <3> DEFINE next == Blocks[block + 1].offset
                 here == Current.offset
      <3>1. block + 1 \in 1..Len(Blocks)
        BY <1>3, <2>1
      <3>2. Blocks[block + 1] \in Block
        BY <1>3, <3>1
      <3>3. next \in Nat
        BY <3>2 DEF Block
      <3>4. /\ next \in Nat /\ here \in Nat /\ Current.size \in Nat
            /\ here + Current.size <= next
        BY <1>3, <2>1, <3>3
      <3>5. \A f \in handed : f[1] = entry => f[2] < here
        BY <1>2, PendingFacts
      <3>6. \A f \in handed : f[2] \in Nat
        BY <1>8 DEF TypeOK
      <3>7. \A f \in handed : f[1] = entry => f[2] < next
        <4> HIDE DEF next, here
        <4> QED
          BY <3>4, <3>5, <3>6
      <3>8. ASSUME buffer' # <<>> PROVE offset' + Len(buffer') <= next
        <4> DEFINE reach == offset' + Len(buffer')
                   last  == here + Current.size
        <4>1. reach <= last
          BY <1>4, <3>8
        <4>2. reach \in Nat
          <5>1. offset' \in Nat /\ Len(buffer') \in Nat
            BY <1>4, <1>5
          <5> QED
            BY <5>1
        <4>3. last \in Nat /\ next \in Nat /\ last <= next
          BY <3>4
        <4> HIDE DEF reach, last, next
        <4>4. reach <= next
          BY <4>1, <4>2, <4>3
        <4> QED
          BY <4>4 DEF reach, next
      <3> QED
        BY <3>7, <3>8
    <2>2. \A f \in handed : f[1] <= entry
      BY <1>8 DEF OrderKept
    <2> QED
      BY <1>1, <1>4, <1>7, <2>1, <2>2 DEF OrderKept
  <1>13. FilesKept'
    BY <1>1, <1>8 DEF FilesKept
  <1>14. NothingLost'
    <2>1. ASSUME ~warned
          PROVE  UpTo(entry, block) \subseteq files \cup Placed(offset', buffer')
      BY <1>2, <1>3, <1>4, <1>5, <2>1, ReadFurther, PendingFacts
    <2>2. block' - 1 = block
      BY <1>1, <1>3
    <2> QED
      BY <1>1, <1>2, <1>7, <1>8, <2>1, <2>2 DEF NothingLost, Reading, Between
  <1> QED
    BY <1>6, <1>9, <1>10, <1>11, <1>12, <1>13, <1>14 DEF IInv

-------------------------------------------------------------------------------
(* The theorems.                                                           *)

LEMMA InitInvariant == Init => IInv
  <1> SUFFICES ASSUME Init PROVE IInv
    OBVIOUS
  <1>1. archive \in Archives /\ archive \in Seq(Seq(Block))
    BY ArchivesAssumption DEF Init, IsArchive
  <1>2. TypeOK
    <2>1. entry \in 0..Len(archive) /\ block \in Nat \ {0} /\ offset \in Nat
      BY <1>1 DEF Init
    <2>2. buffer \in Seq(Entries \X Nat) /\ Len(buffer) <= Capacity
      BY CapacityAssumption DEF Init
    <2>3. /\ files \subseteq handed
          /\ handed \subseteq Entries \X Nat \X (Entries \X Nat)
          /\ extracted \subseteq Entries /\ skipped \subseteq Entries
      BY DEF Init
    <2> QED
      BY <1>1, <2>1, <2>2, <2>3 DEF Init, TypeOK, Running
  <1>3. InPlace /\ NotRepeated /\ EntryKept /\ RunKept /\ OrderKept /\ FilesKept
    BY DEF Init, InPlace, NotRepeated, EntryKept, RunKept, OrderKept, FilesKept,
           Reading, Between
  <1>4. NothingLost
    BY <1>1 DEF Init, NothingLost, Reading, Between, Entries
  <1> QED
    BY <1>2, <1>3, <1>4 DEF IInv

LEMMA StepInvariant == IInv /\ [Next]_vars => IInv'
  <1> SUFFICES ASSUME IInv, [Next]_vars PROVE IInv'
    OBVIOUS
  <1>1. CASE NextEntry
    BY <1>1, NextEntryStep
  <1>2. CASE \/ EndOfArchive \/ ReadBlock \/ Unreadable \/ ReadFails \/ FinishEntry
             \/ CheckHash \/ CancelDownload \/ UNCHANGED vars
    BY <1>2, ControlSteps
  <1>3. CASE FlushForBlock
    BY <1>3, FlushForBlockStep
  <1>4. CASE BlockDropped
    BY <1>4, BlockDroppedStep
  <1>5. CASE WriteBlock
    BY <1>5, WriteBlockStep
  <1>6. CASE BufferBlock
    BY <1>6, BufferBlockStep
  <1>7. CASE FlushEntry
    BY <1>7, FlushEntryStep
  <1>8. CASE RemoveFiles
    BY <1>8, RemoveFilesStep
  <1> QED
    BY <1>1, <1>2, <1>3, <1>4, <1>5, <1>6, <1>7, <1>8 DEF Next, ExtractThread

THEOREM Invariance == Spec => []IInv
  BY InitInvariant, StepInvariant, PTL DEF Spec

\* Every variable keeps its type; the pending run never outgrows BlockBatcher's buffer
\* (block_batcher.h:69) and only bytes that were given to the writer are in a file.
THEOREM TypeCorrect == Spec => []TypeOK
  <1>1. IInv => TypeOK
    BY DEF IInv
  <1> QED
    BY <1>1, Invariance, PTL

\* Batching puts every byte at its own place in its own file, and none twice: across
\* gaps, blocks of every size, failed writes and cancellations.
THEOREM BytesInPlace == Spec => []WrittenOnceInPlace
  <1>1. IInv => WrittenOnceInPlace
    BY DEF IInv, WrittenOnceInPlace
  <1> QED
    BY <1>1, Invariance, PTL

\* An extraction that succeeds without a logged write failure has put every byte of
\* every entry it did not pass over into the file system; only a cancel makes it end
\* before the archive does.
THEOREM ExtractedWhole == Spec => []SuccessMeansExtracted
  <1>1. IInv => SuccessMeansExtracted
    <2> SUFFICES ASSUME IInv, pc = "success", ~warned
                 PROVE  /\ entry = Len(archive) \/ cancelled
                        /\ \A n \in (1..entry) \ skipped : Whole(n) \subseteq files
      BY DEF SuccessMeansExtracted
    <2>1. entry = Len(archive) \/ cancelled
      BY DEF IInv, EntryKept
    <2>2. ASSUME NEW n \in (1..entry) \ skipped PROVE Whole(n) \subseteq files
      <3>1. entry \in 0..Len(archive) /\ Len(archive) \in Nat
        BY ArchivesAssumption DEF IInv, TypeOK, IsArchive
      <3>2. n \in Entries \ skipped /\ (n < entry \/ n = entry)
        BY <2>2, <3>1 DEF Entries
      <3> QED
        BY <3>2 DEF IInv, NothingLost, Between
    <2> QED
      BY <2>1, <2>2
  <1> QED
    BY <1>1, Invariance, PTL

\* After a failure nothing of the archive is left in the file system.
THEOREM NothingLeft == Spec => []FailureLeavesNothing
  <1>1. IInv => FailureLeavesNothing
    BY DEF IInv, FilesKept, FailureLeavesNothing
  <1> QED
    BY <1>1, Invariance, PTL
================================================================================
