----------------------------- MODULE CacheManager -----------------------------
(***************************************************************************)
(* Which file a write reads its image from: the cache manager              *)
(* (cachemanager.cpp), its verification worker, and the part of ImageWriter *)
(* that asks them before and during a write.  The download thread is       *)
(* reduced to what CacheWriter says it leaves in the cache file.  A crash  *)
(* may come at any time; the settings and the files survive it.            *)
(* CacheProofs extends this module beside CacheWriter: hence the prefix of *)
(* ManagerSpec and its like.                                               *)
(***************************************************************************)
EXTENDS Naturals, Sequences

CONSTANTS Images,      \* the images that have an expected hash
          Compressed,  \* those the server sends compressed
          None,        \* no image, no file, no hash
          Scenarios    \* sets of what may come together (see Faults)

ASSUME ImagesAssumption == Compressed \subseteq Images /\ None \notin Images

\* The command line may name a cache file; the file of an earlier version can only be
\* read; a cache file may go bad once it has been verified.
Faults == {"custom", "oldStuck", "decay"}
ASSUME ScenariosAssumption == Scenarios \subseteq SUBSET Faults

\* lastdownload.cache, the file of an earlier version, and the user's own.
Paths == {"default", "old", "custom"}
ASSUME NoneAssumption == None \notin Paths

(***************************************************************************)
(* The content of a file, which is also what its hash tells.  "padded" is  *)
(* a preallocated file that lacks the last chunks, "prefix" the same chunks *)
(* without the padding; both have all of the image.  A "spoiled" file was  *)
(* whole when it was verified.  "image" is no file: the hash of the        *)
(* uncompressed image.                                                     *)
(***************************************************************************)
Content(i, k) == [of |-> i, kind |-> k]
Absent == Content(None, "absent")
WholeKinds == {"whole", "prefix", "padded"}
Contents == {Absent} \cup [of : Images, kind : WholeKinds \cup {"partial", "spoiled"}]

\* The file has all of the image, or had when it was verified.
Holds(c, i) == c.of = i /\ c.kind \in WholeKinds \cup {"spoiled"}

\* The uncompressed hash of an image as the hash of a file.
ImageHash(i) == Content(i, IF i \in Compressed THEN "image" ELSE "whole")

Hashes == [of : Images, kind : {"whole", "prefix", "image"}]

VARIABLES
  faults,     \* what may come in this behaviour
  files,      \* the content of each path
  settings,   \* lastFileName, lastDownloadSHA256, lastCacheFileHash
  cacheFileName, cachedHash, cacheFileHash,               \* status_
  isValid, verificationComplete, customCacheFile,         \* status_
  requests,   \* verifyCacheFile() calls queued for the worker
  results,    \* verificationComplete() signals queued for the main thread
  session,    \* where the write is
  image,      \* the image it writes
  path,       \* the file it reads from, or caches the download in
  fileHash,   \* the hash in a queued cacheFileHashUpdated()
  rejected    \* the content the last write has found to be corrupt

hashes == <<cachedHash, cacheFileHash>>
status == <<cacheFileName, hashes, isValid, verificationComplete, customCacheFile>>
queues == <<requests, results>>
write  == <<session, image, path, fileHash, rejected>>
managerVars == <<faults, files, settings, status, queues, write>>

NoSettings == [file |-> None, image |-> None, hash |-> None]

\* What earlier runs of the program, or of its predecessor, may have left.
Leftovers == {NoSettings} \cup
  {[file |-> f, image |-> i, hash |-> h] :
     f \in {"default", "old"}, i \in Images, h \in Hashes \cup {None}}

ManagerInit ==
  /\ faults \in Scenarios
  /\ settings \in {s \in Leftovers : s.hash = None \/ s.hash = Content(s.image, "whole")}
  /\ files \in [Paths -> {Absent} \cup [of : Images, kind : {"whole", "partial"}]]
  /\ (files["custom"] # Absent) = ("custom" \in faults)
  /\ cacheFileName = None /\ cachedHash = None /\ cacheFileHash = None
  /\ isValid = FALSE /\ verificationComplete = FALSE /\ customCacheFile = FALSE
  /\ requests = <<>> /\ results = <<>>
  /\ session = "off" /\ image = None /\ path = None /\ fileHash = None
  /\ rejected = Absent

Exists(p) == p # None /\ files[p] # Absent

\* QFile::remove() of path p, if it is to be removed and can be.
Removed(p, remove) ==
  [q \in Paths |-> IF remove /\ q = p /\ ~(q = "old" /\ "oldStuck" \in faults)
                   THEN Absent ELSE files[q]]

-------------------------------------------------------------------------------
(***************************************************************************)
(* The start of the program: loadCacheSettings() and                       *)
(* startBackgroundOperations().                                            *)
(***************************************************************************)
\* Mutant: a hash that was not saved is not replaced.
SavedHash(i, h) == h

\* The hash to compare with that of a file of this program.
HashToVerify(i, h) == IF h = None THEN ImageHash(i) ELSE h

\* Mutant: the file is trusted, as it was valid when it was saved.
TrustSettings == TRUE

\* verificationComplete after the settings are loaded.
VerifiedAtStart == FALSE

StartProgram ==
  /\ session = "off"
  /\ LET migrate == settings.file = "old" /\ Exists("old") /\ ~Exists("default")
                    /\ "oldStuck" \notin faults
         moved   == [files EXCEPT !["default"] = files["old"], !["old"] = Absent]
         found   == IF migrate THEN moved ELSE files
         file    == IF settings.file = "old" /\ found["default"] # Absent
                    THEN "default" ELSE settings.file
         usable  == settings.image # None /\ file # None /\ found[file] # Absent
     IN /\ files' = found
        /\ settings' = IF usable THEN [settings EXCEPT !.file = file] ELSE NoSettings
        /\ cacheFileName' = IF usable THEN file ELSE None
        /\ cachedHash' = IF usable THEN settings.image ELSE None
        /\ cacheFileHash' = IF usable THEN settings.hash ELSE None
        /\ requests' =
             IF usable
             THEN <<[file |-> file, hash |-> HashToVerify(settings.image, settings.hash)]>>
             ELSE <<>>
  /\ isValid' = VerifiedAtStart
  /\ verificationComplete' = VerifiedAtStart
  /\ session' \in {"idle"} \cup (IF "custom" \in faults THEN {"commandline"} ELSE {})
  /\ UNCHANGED <<faults, customCacheFile, results, image, path, fileHash, rejected>>

\* The program ends or crashes, whatever it does.
Crash ==
  /\ session # "off"
  /\ cacheFileName' = None /\ cachedHash' = None /\ cacheFileHash' = None
  /\ isValid' = FALSE /\ verificationComplete' = FALSE /\ customCacheFile' = FALSE
  /\ requests' = <<>> /\ results' = <<>>
  /\ session' = "off" /\ image' = None /\ path' = None /\ fileHash' = None
  /\ rejected' = Absent
  /\ UNCHANGED <<faults, files, settings>>

\* setCustomCacheFile(): --cache-file with --sha256, before the event loop runs.
SetCustomCacheFile(i) ==
  /\ session = "commandline"
  /\ session' = "idle"
  /\ cacheFileName' = "custom"
  /\ cachedHash' = IF Exists("custom") THEN i ELSE None
  /\ customCacheFile' = TRUE
  /\ verificationComplete' = FALSE
  /\ UNCHANGED <<faults, files, settings, cacheFileHash, isValid, queues, image, path,
                 fileHash, rejected>>

-------------------------------------------------------------------------------
(***************************************************************************)
(* The steps startWrite() and its continuation are made of.                *)
(***************************************************************************)
\* What invalidateCache() does to the hashes and the settings.
Cleared(clear) ==
  /\ cachedHash' = IF clear THEN None ELSE cachedHash
  /\ cacheFileHash' = IF clear THEN None ELSE cacheFileHash
  /\ settings' = IF clear /\ ~customCacheFile THEN NoSettings ELSE settings

\* A download of image i, after invalidateCache() if clear, with a cache (if the
\* space is known to be enough and the file can be opened) or without one.
Download(i, name, clear) ==
  LET target == IF customCacheFile THEN name ELSE "default"
      kept   == IF clear /\ ~customCacheFile THEN None ELSE name
  IN /\ session' = "downloading" /\ image' = i
     /\ \/ /\ files' = [Removed(name, clear) EXCEPT ![target] = Content(i, "partial")]
           /\ path' = target
           /\ cacheFileName' = target
        \/ /\ files' = Removed(name, clear)
           /\ path' = None
           /\ cacheFileName' \in {kept, target}
     /\ Cleared(clear)
     /\ rejected' = Absent
     /\ UNCHANGED <<customCacheFile, fileHash>>

ReadFrom(p) == session' = "local" /\ path' = p

-------------------------------------------------------------------------------
(***************************************************************************)
(* The main thread.                                                        *)
(***************************************************************************)
\* hasPotentialCache().
PotentialCache(i) == cachedHash = i /\ Exists(cacheFileName)

\* isCached().
Cached(i) == PotentialCache(i) /\ verificationComplete /\ isValid

StartFromCache(i) ==
  /\ session = "idle"
  /\ Cached(i)
  /\ image' = i
  /\ ReadFrom(cacheFileName)
  /\ UNCHANGED <<faults, files, settings, status, queues, fileHash, rejected>>

\* startVerification(), and then nothing until the result.
StartVerification(i) ==
  /\ session = "idle"
  /\ PotentialCache(i) /\ ~verificationComplete
  /\ session' = "waiting" /\ image' = i
  /\ isValid' = FALSE
  /\ requests' = Append(requests,
       [file |-> cacheFileName,
        hash |-> IF customCacheFile THEN ImageHash(i)
                                    ELSE HashToVerify(i, cacheFileHash)])
  /\ UNCHANGED <<faults, files, settings, cacheFileName, hashes, verificationComplete,
                 customCacheFile, results, path, fileHash, rejected>>

\* A cache of this image that is invalid, or no cache of it: then
\* setupCacheForDownload() clears that of another image.
StartDownload(i) ==
  /\ session = "idle"
  /\ ~Cached(i) /\ (PotentialCache(i) => verificationComplete)
  /\ LET clear == PotentialCache(i) \/ cachedHash \notin {None, i}
     IN /\ Download(i, cacheFileName, clear)
        /\ isValid' = (isValid /\ ~clear)
        /\ verificationComplete' = (verificationComplete /\ ~clear)
  /\ UNCHANGED <<faults, queues>>

\* skipCacheVerification(), which cancelWrite() calls as well.
SkipVerification ==
  /\ session = "waiting"
  /\ Download(image, cacheFileName, TRUE)
  /\ isValid' = FALSE /\ verificationComplete' = FALSE
  /\ UNCHANGED <<faults, queues>>

\* onVerificationComplete() when no write waits for it.
NoteVerification ==
  /\ session \notin {"off", "commandline", "waiting"} /\ results # <<>>
  /\ isValid' = Head(results).ok
  /\ verificationComplete' = TRUE
  /\ cacheFileName' = Head(results).file
  /\ results' = Tail(results)
  /\ UNCHANGED <<faults, files, settings, hashes, customCacheFile, requests, write>>

\* getCacheFilePath(), once name is the verified file.
CacheFilePath(name) == IF customCacheFile THEN name ELSE "default"

\* onCacheVerificationComplete() of a valid file.  A file that is gone is an error.
VerifiedValid ==
  /\ session = "waiting" /\ results # <<>>
  /\ Head(results).ok
  /\ IF Exists(CacheFilePath(Head(results).file))
     THEN ReadFrom(CacheFilePath(Head(results).file))
     ELSE session' = "idle" /\ UNCHANGED path
  /\ isValid' = TRUE /\ verificationComplete' = TRUE
  /\ cacheFileName' = Head(results).file
  /\ results' = Tail(results)
  /\ UNCHANGED <<faults, files, settings, hashes, customCacheFile, requests, image,
                 fileHash, rejected>>

\* Mutant: only a valid file lets the write go on.
WaitForValid(ok) == FALSE

\* The result that makes the write download the image.
GoesOnWithout(ok) == ~ok

VerifiedInvalid ==
  /\ session = "waiting" /\ results # <<>>
  /\ GoesOnWithout(Head(results).ok)
  /\ Download(image, Head(results).file, TRUE)
  /\ isValid' = FALSE /\ verificationComplete' = FALSE
  /\ results' = Tail(results)
  /\ UNCHANGED <<faults, requests>>

\* The slot of cacheFileHashUpdated(): updateCacheFile().
UpdateCacheFile ==
  /\ session = "stored"
  /\ cachedHash' = image /\ cacheFileHash' = fileHash
  /\ isValid' = TRUE /\ verificationComplete' = TRUE
  /\ settings' = IF customCacheFile THEN settings
                 ELSE [file |-> cacheFileName, image |-> image, hash |-> fileHash]
  /\ session' = "syncing"
  /\ UNCHANGED <<faults, files, cacheFileName, customCacheFile, queues, image, path, fileHash,
                 rejected>>

\* The write is over.  A source that is corrupt is found out by its hash.
EndWrite ==
  /\ session \in {"local", "syncing"}
  /\ rejected' = IF session = "local" /\ ~(/\ files[path].of = image
                                           /\ files[path].kind \in WholeKinds)
                 THEN files[path] ELSE rejected
  /\ session' = "idle" /\ image' = None /\ path' = None /\ fileHash' = None
  /\ UNCHANGED <<faults, files, settings, status, queues>>

-------------------------------------------------------------------------------
(***************************************************************************)
(* The other threads, and what happens to the files.                       *)
(***************************************************************************)
\* verifyCacheFile().
Verify ==
  /\ session # "off" /\ requests # <<>>
  /\ results' = Append(results, [ok |-> files[Head(requests).file] = Head(requests).hash,
                                 file |-> Head(requests).file])
  /\ requests' = Tail(requests)
  /\ UNCHANGED <<faults, files, settings, status, write>>

\* Mutant: a failed download leaves what it has.
PartialKept(p) == UNCHANGED files

\* A failed download leaves no cache file.
PartialRemoved(p) == files' = Removed(p, TRUE)

\* The cached download is complete: its hash is announced though the writer may
\* have failed and removed the file.
StoreDownload ==
  /\ session = "downloading" /\ path # None
  /\ \E k \in {"whole", "prefix"} :
       /\ fileHash' = Content(image, k)
       /\ IF Exists(path)
          THEN \E c \in {Absent, Content(image, k)}
                          \cup (IF k = "prefix" THEN {Content(image, "padded")} ELSE {}) :
                 files' = [files EXCEPT ![path] = c]
          ELSE UNCHANGED files
  /\ session' = "stored"
  /\ UNCHANGED <<faults, settings, status, queues, image, path, rejected>>

\* The download fails, is cancelled, or is complete without its cache.
DownloadUncached ==
  /\ session = "downloading"
  /\ PartialRemoved(path)
  /\ session' = "idle" /\ image' = None /\ path' = None
  /\ UNCHANGED <<faults, settings, status, queues, fileHash, rejected>>

\* The cache directory is cleared by somebody else.
Disappear(p) ==
  /\ Exists(p)
  /\ session # "local"      \* the write has it open
  /\ files' = [files EXCEPT ![p] = Absent]
  /\ UNCHANGED <<faults, settings, status, queues, write>>

\* A file goes bad after it was verified.
Spoil(p) ==
  /\ "decay" \in faults /\ session = "idle"
  /\ p = cacheFileName /\ verificationComplete
  /\ files[p].kind \in WholeKinds
  /\ files' = [files EXCEPT ![p].kind = "spoiled"]
  /\ UNCHANGED <<faults, settings, status, queues, write>>

-------------------------------------------------------------------------------
EventLoop == \/ StartProgram \/ SkipVerification \/ NoteVerification
              \/ VerifiedValid \/ VerifiedInvalid \/ UpdateCacheFile \/ EndWrite
              \/ \E i \in Images : \/ SetCustomCacheFile(i) \/ StartFromCache(i)
                                   \/ StartVerification(i) \/ StartDownload(i)

Downloading == StoreDownload \/ DownloadUncached

Surroundings == Crash \/ \E p \in Paths : Disappear(p) \/ Spoil(p)

ManagerNext == EventLoop \/ Verify \/ Downloading \/ Surroundings

ManagerSpec == ManagerInit /\ [][ManagerNext]_managerVars

\* The worker thread and the event loop of the main thread run.
ManagerFairSpec == /\ ManagerSpec
                   /\ WF_managerVars(Verify)
                   /\ WF_managerVars(VerifiedValid \/ VerifiedInvalid)

-------------------------------------------------------------------------------
(***************************************************************************)
(* Properties.                                                             *)
(***************************************************************************)
Requests == [file : Paths, hash : Hashes]
Results  == [ok : BOOLEAN, file : Paths]

ManagerTypeOK ==
  /\ faults \in Scenarios
  /\ files \in [Paths -> Contents]
  /\ settings \in Leftovers
  /\ cacheFileName \in Paths \cup {None}
  /\ cachedHash \in Images \cup {None}
  /\ cacheFileHash \in Hashes \cup {None}
  /\ {isValid, verificationComplete, customCacheFile} \subseteq BOOLEAN
  /\ requests \in Seq(Requests) /\ results \in Seq(Results)
  /\ Len(requests) + Len(results) <= 2
  /\ session \in {"off", "commandline", "idle", "waiting", "downloading", "stored",
                  "syncing", "local"}
  /\ image \in Images \cup {None}
  /\ path \in Paths \cup {None}
  /\ fileHash \in Hashes \cup {None}
  /\ rejected \in Contents

SourceHolds == session = "local" => Holds(files[path], image)

\* A write that reads the cache of the program reads the whole image that was
\* selected (imagewriter.cpp:841, :3950), whatever crashes, skipped verifications,
\* late results and removed files came before it.
SourceIsImage == ~customCacheFile => SourceHolds

\* While nothing is downloaded, what the program calls cached (isCached(), shown in
\* the list of images) is a file with the whole image.
CachedIsWhole ==
  session \in {"idle", "waiting", "local"} /\ ~customCacheFile =>
    \A i \in Images : Cached(i) => Holds(files[cacheFileName], i)

\* A write that waits for the verification of the cache goes on at some time.
WaitingEnds == session = "waiting" ~> session # "waiting"

\* The same with a cache file of the user, which is the file that is used: "for custom
\* cache files, verify against expected hash" (cachemanager.cpp:257).
CustomSourceIsImage == SourceHolds

\* A cache file a write has rejected is not the source of another one: "the cache
\* file will be removed and the download will restart" (downloadthread.cpp:1804).
RejectedNotUsedAgain == session = "local" => files[path] # rejected

\* A file that is said to be invalid is invalid: no late result of a verification
\* is applied to a newer file.
InvalidIsInvalid ==
  (session = "idle" /\ verificationComplete /\ ~isValid /\ cacheFileHash # None
     /\ cacheFileName # None) => files[cacheFileName] # cacheFileHash
================================================================================
