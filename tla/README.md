# Verification of the ZimaOS USB Creator write path

TLA+ modules, TLC configurations and TLAPS proofs for the part of the program that puts an
image on a drive: from curl or a local file, through the ring buffers, libarchive and io_uring,
to the customised boot partition; with the cache of downloaded images and the write sessions of
the main thread. Paths below are relative to `src/src/` of the repository.

To check a module with TLC: `tlc -config MCRingBuffer.cfg MCRingBuffer`. The configurations and
the modules they belong to:

| configurations | module | | configurations | module |
|---|---|---|---|---|
| `MCRing*` | `MCRingBuffer` | | `MCCacheWriter`, `MCCacheLeftovers` | `MCCacheWriter` |
| `MCUring*` | `MCUringWrite` | | `MCCacheManager`, `MCCacheExceptions` | `MCCacheManager` |
| `MCExtract*` | `MCExtractSession` | | `MCFileExtract`, `MCFilesExceptions` | `MCFileExtract` |
| `MCWriter*` | `MCImageWriter` | | `MCDevice*` | `DeviceWrapper` |
| `MCRaw*` | `MCRawDownload` | | `MCFat*` | `MCFatPartition` |

To check the proofs: `tlapm RingBufferProofs.tla`, and so for each `*Proofs` module.
`PROJECT.json` says which lines each definition models, which run checks which property, and
which broken variant of the code (the operators marked "Mutant") each property catches.

## 1. The system

A write involves up to four threads. The **main thread** (Qt event loop) owns `ImageWriter`, the
write state shown by the QML wizard, and a timer that runs the `WriteProgressWatchdog`. It
creates a **download thread** (`DownloadExtractThread`, a `DownloadThread`), in which curl
delivers the image; that starts an **extract thread**, in which libarchive decompresses and the
result is written; a **cache writer** thread may keep a copy. Threads report through Qt signals,
which reach the main thread as queued events; the main thread acts on them by setting flags and
cancelling rings and I/O directly. A raw image is written by the download thread itself, a local
file read and written by one `LocalFileExtractThread`.

```
 curl --_writeData--> input ring --_on_read--> libarchive --> write ring --> io_uring --> device
   |     (download thread)          (extract thread)              ^               |         ^
   |                                                              +--completion---+         |
   +--> cache queue --> cache file (writer thread)     customisation: FAT, DeviceWrapper ---+
 main thread: cancelDownload(), watchdog (depth, drain, restart, timeout), cache manager, signals
```

| component | state | operations | interacts with | hard behaviour | correct when |
|---|---|---|---|---|---|
| `RingBuffer` | free stack, committed queue, in-use marks, three flags | acquire/commit/acquire-read/release, done, cancel, reset | both threads of a download | out-of-order and repeated releases, waits that time out, lock-free `isComplete()` | no slot handed out twice; blocks read intact in commit order |
| Linux file operations | write map, cursor, depth, error, flags | async and sync writes, reap, wait, cancel, fall back, drain | extract thread, main thread, kernel | completions in any order, path switched in mid-write, late completions, failing replay | success means every block is in place; buffers stable under the kernel; the write ends |
| `DownloadThread`, `DownloadExtractThread` | `_cancelled`, `_extractFailed`, offsets, withheld first chunk, ring, thread phases | run with its retries, callbacks, extract loops, `_writeComplete`, cancel | both rings, cache, device, main thread | two verdicts for one write, cancel at any moment, a transfer resumed at an offset, an early end that looks like a real one | success only for a whole image; bytes once and in order; verdicts agree; both threads end |
| `LocalFileExtractThread` | the open file, `_cancelled` | run, read callback, raw copy, cancel | libarchive, main thread | one thread does both parts | as above |
| `BlockBatcher`, `RawImageWriteBuffer` | one buffer, its fill and place | add or append, flush | libarchive's writer, the device | boundaries, gaps, failures in mid-flush | the output is the input |
| `DeviceWrapper` | block cache, dirty marks | pread, pwrite, sync, the destructor's sync | `DownloadThread`, FAT, file operations | the drive is pulled or fails between two of the last writes | the partition table reaches the medium last; success means the rest is there |
| FAT partition | FAT, FSInfo, root directory | read, write, delete, look up files | `DeviceWrapper`, customisation | chains, short names, a volume that runs out | no cluster in two chains; files read back as written |
| `AsyncCacheWriter` | bounded queue, flags, file, hash | open, write, finish, cancel | download, extract and main thread | full queue, three callers that stop it in mid-write | a file left behind is whole; its hash is that of the file |
| `CacheManager` | cache status, settings, worker thread | verify, set up, invalidate, update | `ImageWriter`, both download verdicts | late verification results, crashes, files that vanish or rot | what a write reads is the image asked for |
| `ImageWriter` | `_writeState`, `_thread`, flags, connections | start, cancel, signal handlers, removal, timeout, restart | all others, user | late signals, retry before cleanup, three paths that delete one thread | one writer; success is of this write; every session ends |
| `WriteProgressWatchdog` | progress time, phase flags | check, recover | file operations, `ImageWriter` | acts while the thread is blocked | recovery loses nothing |
| `DriveFormatThread` | – | formats, then success or error | `ImageWriter` | starts another thread by its signal | the session goes on or fails |
| `DriveListModel`, poll thread | list, scan mode | scan, pause, merge | `ImageWriter` | a scan under way when paused | a removal is reported once, of the right drive |
| `SystemMemoryManager` | – | slot counts, queue depth | file operations, rings | rounding, limits | more slots than queue entries |
| `timeout_utils` | – | run with a timeout | file operations | the detached worker outlives its frame | – |

The remaining components (drive enumeration, formatting, list models, network fetchers,
customisation, statistics, platform code, command line, translations, vendored cryptography) are
listed in `PROJECT.json` with the reason they are left out: they are platform I/O, data
transformation or layout and hold no protocol. The `*.ts` files under `i18n/` are Qt Linguist
translation data (XML), not TypeScript: the program is C++ and QML, and its logic is in the
`.cpp` and `.h` files modelled here.

## 2. Modules

How they fit together: `RingBuffer` implements `BlockChannel` (proved), and `ExtractSession` runs
its input ring as an instance of `BlockChannel`. `ExtractSession` leaves the write itself to
`UringWrite`, the order of the last writes to `DeviceWrapper`, the content of the boot partition to
`FatPartition`, the bytes of an extracted file to `FileExtract`, and those of a raw image to
`RawDownload`. `ImageWriter` sees threads only by the signals that `ExtractSession` emits;
`CacheManager` sees of a download only what `CacheWriter` shows it to leave behind.

### `BlockChannel` and `RingBuffer`

`BlockChannel` is what the ring promises: a bounded FIFO of numbered blocks that can be aborted
and reused. `RingBuffer` has the ring's fields under their names. Every operation holds
`_mutex`, so each is one action; a wait of 100 ms that expires is an action too
(`ProducerWaitExpires`, `ConsumerWaitExpires`), and `cumulativeWaitMs` is `waited`. `holder`,
`delivered` and `starved` are history: who has the slot, what was last read, and how long a
side has really been waiting. The clients are the most general ones the callers amount to: any
number of slots held at once, releases in any order, of uncommitted and of free slots. The
refinement maps the channel to the contents of the committed slots and "aborted" to
`_cancelled` or the stall flag.

### `UringWrite`

The extract thread from `acquireWriteSlot()` to the completion of each write
(`extractImageRun`, `_writeFile`, `_periodicSync`, `_writeComplete` up to the drain;
`LinuxFileOperations`), with the main thread and the kernel beside it.

| state | code |
|---|---|
| `pc`, `held`, `next` | where the extract thread is, the slot it has, the next block |
| `free`, `content` | the write ring (a set here; `RingBuffer` has the order) |
| `cursor`, `nextWriteId`, `pending`, `firstError`, `syncFallback`, `depth`, `fileCancelled` | `async_write_offset_`, `next_write_id_`, `pending_callbacks_`, `first_async_error_`, `sync_fallback_mode_`, `async_queue_depth_`, `cancelled_` |
| `inFlight`, `cancelling`, `completed`, `device` | the kernel: writes not completed, those it was asked to cancel, the completion queue, the device |
| `cancelled`, `hotSwap`, `sinceProgress` | `_cancelled`; the watchdog's drain and its stall timer |

`AsyncWriteSequential()` is split where another thread may come in between: the poll
(`PollBeforeSubmit`), the wait at a full queue (`WaitForRoom`, `CancelledWhileFull`), the
submission. The kernel reads a slot when it completes the write, in any order. Time appears as
free choice, except that a drain gives up without a completion reaped, or after the extract
thread has finished `Patience` writes without reaping one. A `Scenario` fixes the depth, and
whether the device fails writes, the periodic syncs are on, and the kernel may stall into the
emergency fallback. The module is about images without an expected hash: with one, every chunk
is written synchronously (`downloadthread.cpp:1072-1090`), and there is no asynchronous path.

### `ExtractSession`

One write with its threads and a user who may cancel. The input ring is an instance of
`BlockChannel`. Flags that the code reads one at a time are read in separate steps
(`IsComplete`, `WriteFailed`, cancel in two steps, `_onDownloadError` in three). An archive says
whether it is an image (`extractImageRun()`) or several files (`extractMultiFileRun()`), how many
blocks it has, how many libarchive needs and whether it reads on to the end, and where it comes
from: curl, a local file (`LocalFileExtractThread`: one thread, the ring stays empty, and
"aborted" says that the file was closed) or a raw local file (`extractRawImageRun()`). An
`error()` that sets no flag is recorded as `quietError`, so that the properties can tell it from
the others. libarchive may take an early end for the end of the archive unless it has all it
needs, and may throw.

### `ImageWriter`

The main thread as an event loop over a queue of posted events, and the download threads
reduced to the phases and signals that matter to it. `connected` keeps the slots connected to
each thread's `finished()` in order, because their order matters; `muted` is the disconnected
`error()`. A blocking queued connection is the phase `blocked`. `Happenings` names what may come
from outside; a session takes place in one of the `Situations`, which is a set of happenings that
may come together. The configurations that expect a violation allow just what breaks it.

### `CacheWriter`

One download with `AsyncCacheWriter` and its three callers: the download thread queues each chunk
(`WriteCache`, with the wait of up to 500 ms at a full queue and `_cacheEnabled = false` after
it), the extract thread finishes the file (`FinishCache`, `Publish`), everybody cancels it
(`CancelWriter`), and the destructor does so again. The writer thread takes chunks, may fail or be
slow, and cleans up at its end. Chunks are numbers, the file and the hash sequences of them.
Waits of 2, 5 and 10 s that may expire are choices. The limits on the number of chunks and of
bytes are one.

### `CacheManager`

Which file a write reads from. The status has the fields of `CacheStatus`, the settings those
that survive a crash; `requests` and `results` are the two queues between the main thread and the
verification worker. The content of a file says of which image it is and whether it is whole,
padded, a whole prefix, partial or spoiled, and a hash is equal to the content it was made from.
The part of `ImageWriter` that asks the cache is here, too: use it, wait for its verification,
skip that, or download and store. A program may crash at any time. A scenario allows a custom
cache file, or a file that decays after it was verified, or a leftover verification of an old
file. The specification is `ManagerSpec` here, and so on, as one module proves about both caches.

### `RawDownload`

`DownloadThread::run()` with its retry loop and the HTTP/1.1 fallbacks, `_writeData()` for raw
images and `RawImageWriteBuffer`. A byte is named by its place in the image, so order, repetition
and loss are visible. curl is external: an attempt delivers the bytes from the offset it was told
to resume at, in callbacks of up to `MaxChunk`, and may end with any code in the scenario.
`finish()` of a raw image runs on the download thread, so there is no second thread here. Once
`_cancelled` is set, `_writeFile()` drops what it is given and returns its length (`Written`), so a
buffer is flushed without being written; `_onDownloadSuccess()` does not look at the flag, and it
takes the check in `_writeComplete()` (`WriteComplete`) to keep such a download from completing.

### `FileExtract`

The loop of `extractMultiFileRun()` with `BlockBatcher` between libarchive's reader and writer.
Every byte is named by its entry and place. The reader may fail with each of the codes
`_checkResult()` tells apart, headers may be refused, the writer may fail; a failure removes what
was extracted. The ring itself is in `ExtractSession`; here, once it is cancelled, libarchive may
see the end of the file at any entry, and then the archive ends there like a whole one
(`EndOfArchive`, with `success()`) or in an error (`ReadFails`). `handed` and `repeated` are history.

### `DeviceWrapper`

The blocks of the drive from the first write of the image to `success()`: `_writeFile()` withholds
the first chunk, `_writeComplete()` or `_customizeImage()` writes it at the end, through the block
cache of `DeviceWrapper` when there is customisation. A block is known by its version. The drive
empties its own cache in any order, and may be pulled at any moment (`medium` is what would be
left), drops writes if it is a bad one, and fails reads, writes and flushes. `kind` says what was
asked for: customised, secure boot, with an expected hash, with verification. The read-back of the
settings compares the files recorded while they were written: the blocks in no such file (`Unread`:
the FATs, the directory) are read on the way but not compared.

### `FatPartition`

A small FAT32 volume under `writeFile()`, `deleteFile()` and look-ups: the FAT with its entries for
clusters that do not exist, the free count of the FSInfo sector, and the root directory as a list
of slots (long name, file, deleted). A run begins with any of a set of sound volumes, the constant
`Images`. Files are written whole and read back; `expected` is history. The numbers
tried in a short name (a hundred in the code) are up to `LastNumber`. `getDirEntry()` looks for the
NUL behind a long name; a file of an image whose name fills its slots (13 or 26 characters) has
none, its name becomes empty, and it is not found (`ended` is false). Such a file still owns its
short name and its chain, and `writeFile()` makes a second one beside it. Files of an image are
taken to have neither a wrong checksum in their long slots nor the attributes read-only, hidden or
system (see section 4); no name in `Names` is the 8.3 name of another file.

## 3. Runs that pass

| run | instance | shows |
|---|---|---|
| `MCRingBuffer` | 3 slots, 4 blocks, 3 stall ticks | slot ownership; refinement of `BlockChannel` |
| `MCUringWrite` | 3 slots, 4 blocks; depth 2 with I/O errors and periodic syncs, or depth 3 with the emergency fallback; cancel and watchdog | slots accounted for, buffers stable, cursor right, success means written, the write ends |
| `MCExtract` | ring of 3; an image of 5 blocks, files in 3 blocks, a local image of 4, local files of 4 of which 3 are needed, a raw local image of 4; every failure and a cancel | success only for all of it, verdicts agree, both threads end |
| `MCWriterSessions` | 3 threads; three situations: faults, retries, removal | no orphan, no writer in a stopped session, success is of this write, sessions end |
| `MCCacheWriter` | 5 chunks of which 3 make the image, queue of 2, every error and a cancel | a file left is whole, the announced hash is that of the file, the download ends |
| `MCCacheManager` | 2 images, one compressed; a custom file, or decay; crashes | what a write reads is the image, what is called cached is whole, no write waits for ever |
| `MCRawDownload` | 5 bytes, buffer of 2, callbacks of up to 3; six kinds of broken connection, device errors, cancel | bytes once and in order, complete is whole in spite of dropped writes, the download settles |
| `MCFileExtract` | buffer of 3; one entry of three blocks, or two entries of two and at most one, with and without gaps; refusals, errors, cancel | bytes in place and once, success means extracted (up to the cancel, if there was one), failure leaves nothing |
| `MCDeviceWrapper` | 4 blocks, the first two in the first chunk, 3 versions, ten kinds of session, every error | the table last, success means durable |
| `MCFatPartition` | 3 names, two with one short name; 8 clusters (numbered from 2) and an entry too many, 3 slots a cluster; 20 volumes to begin with, some with a file that is not found | chains sound, files read back |

**Bounds.** Three slots in the ring are the fewest with one at each of two clients and a third to
recycle out of order; four blocks reuse every slot. In `UringWrite` the slots exceed the depth by
one in the first scenario, as an image larger than the ring makes every slot circulate; in the
second they are as many, so the extract thread may also wait for a slot that the emergency fallback
must free. In `MCExtract` the image from curl is larger than the ring, so that it fills and empties;
the files from curl fit, because a mount that fails leaves the ring without a reader, and a push
that finds it full then never returns (with a ring of 2 `SessionEnds` fails, as in
`MCExtractTrailing` below). In `ImageWriter` a late signal concerns a thread and its successor; the
third thread lets the successor be replaced in turn. The queue of the cache writer is smaller than
what is left when the extract thread is done. A raw image of five bytes takes three writes of two,
the last of them short, and callbacks of three cross the buffer at each place. The blocks in
`FileExtract` are empty, smaller than the buffer, just fill it together, or are larger than it.
`DeviceWrapper` has one block of each kind: the table, the rest of the first chunk, one that is in
no file of the settings, one of a long file. On the volume of `FatPartition` both the clusters and
the directory run out, and short names collide. `NumBlocks`, `MaxBlocks`, `MaxThreads`, `MaxWrites`
and `MaxSlots` bound the runs; `Patience` and `StallTicks` stand for times. No run uses symmetry
(with liveness it would be unsound).

**Deadlock** is checked for the ring and the cache manager, which go on for ever. Elsewhere a
write comes to its end, and where that may fail a liveness property says that it does so in the
right state.

**Fairness.** Each thread keeps running, the kernel completes what it was given, and the event
loop handles its events: weak fairness of these, and none for the user, the watchdog or any
failure. `cancelDownload()` runs to its end once begun. Three assumptions need a word.

- `ExtractSession` assumes that the network delivers or fails in the end. curl's low-speed limits
  end a single attempt; that the attempts end is the business of `RawDownload`.
- `RawDownload` assumes strong fairness of curl's progress callback when the download is
  cancelled: curl calls it in every attempt, about once a second. `DownloadSettles` does not ask
  that a server which only stalls is ever given up, as `run()` resumes after a timeout or a
  partial file without limit (`downloadthread.cpp:748`, `MCRawEndless`).
- `UringWrite` leaves the scenario with the emergency stall out of `WriteEnds`: a kernel that stalls
  for five minutes at every turn may hold the write up for ever, and there the extract thread has
  as many queue entries as slots.

The liveness property of `ImageWriter` is about `Orderly` situations only: those without a device
that is too small, the watchdog's timeout and restart, cancels and retries in the gaps between
thread end and clean-up, and a removal during the cache wait. Each of these can break it, and has its
own configuration in section 4 or a place in the list behind it. Likewise
`DeviceLeftAlone` is about patient users, who start a write only when the last thread is collected;
`NoOrphan` about them, and about all users if no write waits for the cache; `SuccessIsOfThisWrite`
about patient users whose device stays plugged in. What the others meet is in section 4.

## 4. Where the code departs from what it says

Each of these configurations checks one or several statements of a comment, an assertion or the
user interface, and TLC finds them violated by the modelled code. The first two are runs of
`PROJECT.json`; the others are run by hand, those with several statements with `-continue`, which
makes TLC go on after the first violation.

| configuration | statement | what happens |
|---|---|---|
| `MCWriterRestart` | `imagewriter.cpp:2212` "starting new write in sync mode" (`RestartFindsThread`) | the restart dereferences a null `_thread` |
| `MCFatDelete` | `downloadthread.cpp:2936` "Delete ALL original files" (`DeletedIsGone`) | `deleteFile()` overwrites an entry deleted before whose name agrees but for the first letter, and the file stays |
| `MCFatUnread` | `devicewrapperfatpartition.cpp:1130` "createIfNotExist" (`NamesDistinct`) | a file that came with a long name of 13 or 26 characters is not found by its name (1099); writing it makes a second one of that name |
| `MCRingBufferTimed` | `ringbuffer.h:166` (`StallIsDetected`) | the stall timeout is measured per call, and every caller passes 100 ms: it never fires |
| `MCUringNoSpare` | `linux/file_operations_linux.cpp:770` "completions are always drained promptly" (`CompletionsAreDrained`) | as many queue entries as slots: the extract thread waits for a slot and never reaps |
| `MCUringDrain` | `linux/file_operations_linux.cpp:1003` "drain the remaining ones" (`DrainIsServed`) | in synchronous mode nobody reaps completions, so the drain gives up |
| `MCUringFlush` | `ringbuffer.h:104` "a slot still being read from is never returned" (`BufferStable`) | the emergency fallback in a flush frees slots the kernel may still read |
| | `linux/file_operations_linux.cpp:965` "to reflect completed writes" (`CursorFollowsBlocks`) | the fallback moves the cursor back over blocks written synchronously |
| `MCUringLostError` | `file_operations.h:212` "Returns first error encountered" (`WrittenMeansOnDevice`) | the fallback clears an error recorded before it |
| `MCExtractExceptions` | `downloadthread.cpp:1989` "without this a cancelled write reaches success()" (`CancelIsNoSuccess`) | cancelling the extraction of several files emits `success()` (hidden by `ImageWriter::onSuccess`) |
| | `downloadextractthread.cpp:410` "already called _writeComplete()" (`SuccessFollowsExtraction`) | an empty download succeeds |
| | `downloadextractthread.cpp:402` "would override an already-reported error" (`QuietErrorsStand`, `NoLateError`) | `success()` follows the errors that set no flag; an error of curl follows the success of an image with data behind its end |
| `MCExtractTrailing` | `downloadextractthread.cpp:1191` "Let the caller handle the error" (`PushReturns`) | data behind the end of the archive: the push retries for ever |
| `MCRawEndless` | `downloadthread.cpp:748` (`DownloadEnds`) | a server that lets each attempt time out keeps the download going for ever |
| `MCFilesExceptions` | `block_batcher.h:35` "any other value aborts" (`FailedWriteAborts`) | a write that fails with a code that is only logged does not abort, and the extraction succeeds without it |
| | the loop of `downloadextractthread.cpp:876` ends (`NeverSpins`) | a block that cannot be read, reported as a failure that is not fatal, is asked for again and again |
| `MCDeviceExceptions` | `downloadthread.cpp:1921` "deliberately withheld" (`TableIsLast`) | an image with an expected hash is written from its first block on; the rest of the first chunk goes with the table |
| | `downloadthread.cpp:1979` (`SettingsDurable`) | the files of a secure boot image are written by the destructor, which swallows what fails |
| `MCCacheLeftovers` | `asynccachewriter.cpp:230` "it will do its own cleanup when it exits" (`DestroyedWhenStopped`) | the writer is deleted while its thread still writes |
| | `downloadthread.cpp:1828` (`PublishedIsKept`) | a late cancel removes a file whose hash was announced |
| `MCCacheExceptions` | `downloadthread.cpp:1804` "The cache file will be removed" (`RejectedNotUsedAgain`) | a file found to be corrupt stays verified, and the next write reads it again |
| | `cachemanager.cpp:257` "verify against expected hash" (`CustomSourceIsImage`) | the result of an earlier verification, of the program's own file, is taken for that of the custom file, and the wrong file is read |
| | `cachemanager.cpp:313` (`SourceIsImage`, `InvalidIsInvalid`) | the result of an old verification is applied to the file downloaded meanwhile: that is rejected, or the old file read in its place |
| `MCWriterExceptions` | `imagewriter.cpp:658` "A *running* thread here is a bug" (`NoRunningThreadAtStart`) | after a hard timeout a new write may meet the old, running thread |
| | `imagewriter.cpp:657` "deleteLater timing gap" (`OnlyEndedThreadsDeleted`) | a queued `finished()` deletes the thread of the next write |
| | `imagewriter.cpp:2345` (`DeviceReleased`) | a second `success()` of several files ends the session the user has started meanwhile |
| | `imagewriter.cpp:1311` "for user-initiated cancellation only" (`CancelStartsNothing`) | cancelling the cache wait starts the write |
| | `imagewriter.cpp:2311` "Pause all scanning during write operations" (`ScanPausedWhileWriting`) | a retry leaves the drive scan running |
| | `wizard/WritingStep.qml:386` "Cancelling… Please wait" (`CancelSettles`) | a cancelled session turns to Finalizing |
| | `imagewriter.cpp:3928` "in onCancelled()" (`EverySuccessIsOfThisWrite`) | a queued `finalizing()` reopens the session that a removal has cancelled, or the device is removed while the cache is verified, and the write then starts: either way the error of the write stays hidden, and the `success()` after it is shown |
| `MCWriterOrphan` | `imagewriter.cpp:658` "our exit paths … should have cleaned up already" (`NobodyOrphaned`) | a late error of the last thread fails a session that waits for the cache, the user starts another, and when the verification ends `onCacheVerificationComplete()` puts one more thread in its place: the running one is nobody's |
| `MCWriterLateCancel` | `wizard/WritingStep.qml:386` (`CancelEnds`) | a cancel after the thread's end leaves the session in Cancelling |

Met while modelling, in the models or beside them, without a configuration of their own:

- *Sessions.* The error for a too small device leaves the state at Preparing, from which no write
  starts (`imagewriter.cpp:741`). A hard timeout handled just before the pending
  `finalSyncStarting()` lets the thread go on to `finalizing()`, out of Failed. Cancelling while
  the drive is formatted leaves the session in Cancelling. The header of the watchdog speaks of
  60 s (`writeprogresswatchdog.h:29`), the constant is 180 s (`timeout_utils.h:170`).
- *Download.* `curl_easy_getinfo()` is called after `curl_easy_cleanup()`
  (`downloadthread.cpp:802-825`). A cancelled `_writeFile()` reports as written what it drops
  (1056); nothing but the check in `_writeComplete()` (1766) keeps it from a success.
- *Cache.* Trailing data that arrives when the cache writer has ended is dropped, and the file,
  preallocated to its full size, fails its next verification. A custom cache file of a compressed
  image never validates, as its hash is compared with that of the uncompressed image.
  `invalidateCache()` removes also the user's own file. `getCacheFilePath()` returns the default
  path even if the verified file is the one of an earlier version.
- *Boot partition.* The flush after the partition table is not checked
  (`devicewrapper.cpp:96`). A read that fails, or no partition table, lets the verification of the
  settings pass. "Size is checked for everything either way" (`downloadthread.cpp:2084`), but a long
  file is skipped before that (2130). The block range of an access is one too long if it ends on a
  block boundary.
- *FAT.* `allocateCluster()` hands out clusters that do not exist when the FAT is longer than the
  volume. Deleted files keep their clusters, so a large `boot.img` may find no room. A look-up may
  allocate a cluster if the directory fills its last one, also one that finds its file there. Paths
  with a directory act on the root after `openDir()`. Entries with the read-only, hidden, system or
  volume attribute are taken for long names. `truncate(-1)` empties a long name without a NUL
  (1099). The shrinking of a file frees clusters before its chain is cut. If two short names differ
  in the first letter only, deleting one of the files may remove the other: `FilesReadBack` then
  fails, which is why its theorem has a hypothesis.

## 5. Proofs

Eight modules prove theorems for every value of the constants, from the named assumptions on the
constants in the modules they extend and nothing else. Each states an inductive invariant, shows
that it holds at first and that every step keeps it, with a lemma for each action or each kind of
step, and draws the theorems from it.

**`RingBufferProofs`** — `TypeCorrect`, `SlotOwnershipHolds`, `CommitOrderHolds`,
`RingImplementsChannel` (`Spec => ChannelSpec`). `IInv == TypeOK /\ SlotOwnership /\ CommitOrder`. The
parts need each other: committing keeps the order only if the slot was not queued already
(ownership), and popping an empty stack is excluded only by the counts. Three groups of lemmas say
what popping, taking the tail and appending do to a queue without repetitions. For the refinement,
`CommitOrder` makes the abstract queue consecutive numbers, so a commit is `Send`; that there is
room follows from a cardinality argument (the committed slots are distinct and one more is with
the writer); reading is `Receive`; releases, waits and `producerDone` are stutters, the stall and
`cancel()` are `Abort`, `reset()` is `Reuse`.

**`ExtractSessionProofs`** — `TypeCorrect`, `SuccessIsWhole` (`SuccessMeansWholeImage`),
`VerdictsAgreeHolds`, for all archives and ring sizes and every failure. Neither property is
inductive: that an end of the input is the real one rests on who may have cancelled the ring and
when. `IInv` adds that nothing between curl and libarchive is lost unless `_cancelled` is set
(`RingKept`), that whoever cancels the ring has set that flag before (`CancelKept`), what the place
of one thread says of the other (`PlacesKept`), how far the extract thread is (`ProgressKept`), and
what each verdict rests on (`VerdictsKept`).

**`RawDownloadProofs`** — `TypeCorrect`, `DeviceInOrder` (`DeviceFollowsImage`), `CompleteDownload`
(`CompleteMeansWhole`), for all sizes of image, buffer and callback. The order of the bytes says
nothing about the next one; `PositionKept` says that the count curl keeps, the offset of the
attempt and the bytes taken agree in each phase, and `FallbackKept` bounds the HTTP/2 failures.
A cancelled download keeps counting bytes that it drops, so after a cancel only the order on the
device is left, and `CompleteDownload` rests on the flag that `_writeComplete()` checks.

**`FileExtractProofs`** — `TypeCorrect`, `BytesInPlace` (`WrittenOnceInPlace`), `ExtractedWhole`
(`SuccessMeansExtracted`), `NothingLeft` (`FailureLeavesNothing`), for all archives and buffers. What
is written of an entry lies before the pending run, and that before the next block (`OrderKept`),
the run holds the bytes that belong at `offset_` (`RunKept`), and unless a write has failed all that
was read is in the files or in the run (`NothingLost`). That the last entry was reached holds only
without a cancel; after one the theorem speaks of the entries up to where the archive ended.

**`DriveProofs`** — of `DeviceWrapper` `TypeCorrect`, `TableIsWrittenLast` (`TableLast`),
`SuccessIsDurable` (`SuccessMeansDurable`), for every size of the drive and every kind of session.
Versions only grow from the medium to the drive, the cache and what is wanted (`VersionsGrow`); the
rest says what has reached which of them in which step (`StepsKept`, `ImageKept`, `CacheKept`,
`TableReady`, `VerdictKept`). Of `FatPartition` `FatTypeCorrect`, `ChainsStaySound` (`ChainsSound`)
and `FilesStayReadable` (`FilesReadBack`), for volumes of any size and any sound one to begin with
(`ImagesAssumption`). Only the last has a hypothesis, `LetterFollows`: no two short names differ in
the first letter only. The invariant says that the volume is typed, its chains and its directory
sound, also after an exception (`Sound`); it would not be inductive without the directory, as an
entry is found again by its short name. Each operation is shown to keep it: taking clusters
(`TakeSound`, by induction over the loop of `writeFile()`), giving them up (`DropSound`), getting to
a slot (`ReachSound`), a new entry (`EntrySound`), writing (`WriteSound`), deleting
(`DeletionSound`). `ChainIs` is what they rest on: the walk of `getClusterChain()` finds the one
chain there is, of any length. The files read back since an operation leaves the slot, the chain and
the clusters of every other file as they were (`LeavesOthers`); this covers the files that are not
found by their names, too: they keep what they hold.

**`UringWriteProofs`** — `TypeCorrect`, `SlotsNeverLost` (`SlotsAccounted`), `BuffersNeverRefilled`
(`BufferStable`), `CursorNeverStrays` (`CursorFollowsBlocks`), `AnnouncedIsOnDevice`
(`WrittenMeansOnDevice`), and the action property `RightBlocksStay`, for every number of slots,
blocks and queue entries. `TypeCorrect` has no hypothesis. The next three and the last have
`FlushNeverStalls`: the kernel does not stall for five minutes in the flush of a periodic sync,
which is what `MCUringFlush` shows to break them. `AnnouncedIsOnDevice` adds
`StallIsFirstFailure`: no write has failed before a stall (`MCUringLostError`). Both hold in the two
scenarios of the run `MCUringWrite`: failing writes with periodic syncs, and a stalling kernel.
The invariant has three layers. `TypeInv`: the cursor and the ids do not run ahead of the blocks.
`PoolInv`: each slot is with the ring, with the extract thread or with the kernel; a write is known
by its id from submission to completion (`IdsKept`), the kernel reads only slots the file still
knows of, and each holds the block for its offset (`ContentKept`). `DeviceInv`: every block behind
the cursor is on the device or on its way until an error or a cancel is noted (`DeviceKept`), and a
completion not yet reaped stands for a block written or an error (`CompletedKept`).

**`CacheProofs`** — of `CacheWriter` `TypeCorrect`, `LeftoverWhole` (`LeftoverIsWhole`), `HashOfFile`
(`HashIsOfFile`), for every length of the image and the queue, without a hypothesis. The file, the
chunk at hand and the queue follow each other without a gap, and reach as far as the extract thread
may look while the cache is in use (`QueueKept`); the writer ends without cleaning up only when the
image is complete (`FinishKept`); whoever gives up leaves the cleaning to the thread or does it
(`FileKept`); the hash is that of the file until a write fails (`HashKept`). Of `CacheManager`
`ManagerTypeCorrect`, without a hypothesis, `SourceAlwaysImage` (`SourceIsImage`) and
`CachedAlwaysWhole` (`CachedIsWhole`), for any set of images and every mix of a custom file, decay
and crashes. Their hypothesis is a scenario without "oldStuck", a verification left over from
before: its results are not told from those of the download (`MCCacheExceptions`). `ManagerInv` adds
to the types what each place of the main thread implies (`ShapeOK`), which files may lie where
(`FilesOK`), and what the two queues may hold (`QueuesOK`). `SourceInv` says who may be trusted: the
default file is this program's own (`OwnFile`), a hash on the way is the expected one (`Expected`),
and a status or a result that says "verified" fits the file it is about, or the file has decayed
since (`Trust`).

**`ImageWriterProofs`** — `TypeCorrect`, `ThreadsNeverOrphaned` (`NoOrphan`), `DeviceIsReleased`
(`DeviceLeftAlone`), and the action property `SuccessShownIsReal` (`SuccessIsOfThisWrite`), for any
number of threads and any set of situations. The hypotheses are in the properties themselves: a
patient user in all but the first, a device that stays plugged in for the last. Without them the
properties fail (section 4); trying the proofs with less led to `MCWriterOrphan` and to the removal
during the wait for the cache. `Shape` sums up all the steps as twelve kinds by what
they do to the threads and the queue, and the invariant is shown kind by kind. Its parts: what an
event in the queue says of its thread (`EventsKept`); if the user is patient, only the current
thread is live (`CurrentKept`), nothing else goes on during the wait for the cache (`WaitKept`), and
there is one formatting at a time, which knows for whom it works (`FormatKept`); if also the device
stays, the end of a thread is the last it says (`OrderKept`), and a `success()` in the queue that was
not earned finds the session stopped, with nothing before it that reopens it (`VerdictKept`).

Only model-checked: all liveness, as the prover handles neither `ENABLED` nor fairness. Every
invariant and every action property that a passing run checks is also proved.

## 6. Not modelled

Sizes of blocks in the compressed path, hashes as values, progress and statistics; the opening,
authorising, zeroing and ejecting of drives; the data race on `_inputHash` between the trailing
data and its result; the unlocked submission queue of io_uring, used by two threads in
`CancelAsyncIO()`; memory reclaimed under a detached timeout worker; `forceAsyncRecovery()`,
which has no caller; the timers that order the phases of the watchdog; the merge of drive scans;
FAT16 with its root directory of fixed size, and subdirectories; the check of the free disk space
before caching; the macOS and Windows back ends. `UringWrite` has no images with an expected hash,
which never take the asynchronous path. The destruction of a thread in the main thread waits up to
ten seconds; that the event loop stands still meanwhile is left out.

The remaining components of section 1 hold no protocol: icons and manifests are fetched one at a
time with nothing but a missing icon to go wrong, the disk formatter and the customisation
generator build data in a straight line, the models fill lists. `i18n/*.ts` is translation data.

## 7. Plan

1. Done: the ring, the write path, the sessions, the cache, raw images, archives of files, local
   files, the boot partition, and the proofs of their safety.
2. `Watchdog`: the timers and the order of the recovery phases, composed with an abstract write;
   that a phase is tried at most once and a healthy write is never timed out. `MemoryPlan`: slot
   and depth arithmetic, and when the depth reaches the slots (`MCUringNoSpare`). `DriveList`: the
   poll thread and the merge. FAT16 and subdirectories in `FatPartition`.
3. An abstract `WriteSession` (running, then one of succeeded, failed, cancelled) implemented by
   `ExtractSession` and by `ImageWriter`.
