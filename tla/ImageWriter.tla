------------------------------ MODULE ImageWriter ------------------------------
(***************************************************************************)
(* The write sessions of the main thread (imagewriter.cpp).  The download  *)
(* threads and the drive format thread post their signals to the main      *)
(* thread's event queue, which handles them one at a time; between two     *)
(* events the user, the drive scan or the watchdog may act.  What a        *)
(* download thread does is ExtractSession.tla; here only the signals it    *)
(* emits matter.                                                           *)
(*                                                                         *)
(* Threads are used once each, in order: their number bounds the sessions. *)
(***************************************************************************)
EXTENDS Integers, Sequences, FiniteSets

CONSTANTS MaxThreads,  \* download threads ever created
          Situations   \* each a set of Happenings that may come together

Happenings ==
  {"cancel",       \* the user cancels while the thread runs
   "lateCancel",   \* ... or when no thread runs: format, setup, thread ended
   "removal",      \* the selected device is unplugged
   "waitRemoval",  \* ... while the cache is verified
   "timeout",      \* the watchdog gives up
   "restart",      \* the watchdog asks for a restart in sync mode
   "earlyRetry",   \* a write is started while the last thread still runs
   "gapRetry",     \* ... while its finished() is still queued
   "setupError",   \* no memory for the thread
   "capacity",     \* the device is too small
   "cacheWait",    \* the cache is still being verified
   "format",       \* internal://format
   "files",        \* _multipleFilesInZip: format, then extract
   "verify",       \* verification is on
   "silentError"}  \* the thread fails without cancelling itself

ASSUME MaxThreadsAssumption == MaxThreads \in Nat \ {0}
ASSUME SituationsAssumption == Situations \subseteq SUBSET Happenings

Threads == 1..MaxThreads
NoThread == 0

VARIABLES
  situation,      \* what may happen around these sessions; never changes
  writeState,     \* _writeState
  thread,         \* _thread
  phase,          \* what each download thread is doing
  cancelled,      \* threads whose _cancelled is set
  completed,      \* threads whose _writeComplete() succeeded
  connected,      \* slots connected to finished(), per thread, in order
  muted,          \* threads whose error() is disconnected
  queue,          \* events posted to the main thread
  waiting,        \* _waitingForCacheVerification
  format,         \* the drive format thread, and for whom it works
  deviceValid,    \* _selectedDeviceValid
  deviceRemoval,  \* _cancelledDueToDeviceRemoval
  polling,        \* how the drive scan polls
  shown,          \* the last verdict signalled to the UI in this session
  crashed         \* a null _thread was dereferenced

May(what) == what \in situation

threadVars == <<phase, cancelled, completed, connected, muted>>
envVars == <<format, deviceValid, deviceRemoval>>
sessions == <<writeState, thread, threadVars, queue, waiting, envVars, polling,
              shown, crashed>>
vars == <<situation, sessions>>

Active == {"Preparing", "Writing", "Verifying", "Finalizing", "Cancelling"}
Stopped == {"Idle", "Succeeded", "Failed", "Cancelled"}
Still == {"none", "created", "ended", "deleted"}
Running(t) == t # NoThread /\ phase[t] \notin Still
Event(t, what) == [from |-> t, what |-> what]

Init == /\ situation \in Situations
        /\ writeState = "Idle"
        /\ thread = NoThread
        /\ phase = [t \in Threads |-> "none"]
        /\ cancelled = {}
        /\ completed = {}
        /\ connected = [t \in Threads |-> <<"finished">>]
        /\ muted = {}
        /\ queue = <<>>
        /\ waiting = FALSE
        /\ format = "off"
        /\ deviceValid = TRUE
        /\ deviceRemoval = FALSE
        /\ polling = "normal"
        /\ shown = "none"
        /\ crashed = FALSE

-------------------------------------------------------------------------------
(***************************************************************************)
(* setWriteState(), which also steers the drive scan.                      *)
(***************************************************************************)
Polling(state) ==
  IF state = writeState THEN polling
  ELSE IF state = "Idle" THEN "normal"
  ELSE IF state \in Active THEN IF writeState = "Idle" THEN "paused" ELSE polling
  ELSE "slow"

SetWriteState(state) == writeState' = state /\ polling' = Polling(state)

Ignored == UNCHANGED <<writeState, polling, shown>>

-------------------------------------------------------------------------------
(***************************************************************************)
(* Starting a write.                                                       *)
(***************************************************************************)
Unused == {t \in Threads : phase[t] = "none"}

NewThread(doing) ==
  \E t \in Unused : /\ \A u \in Unused : t <= u
                     /\ thread' = t
                     /\ phase' = [phase EXCEPT ![t] = doing]

\* The thread is created, connected and started; for several files it is
\* started by the format thread's success().
CreateThread ==
  \/ /\ May("setupError")
     /\ thread' = NoThread
     /\ SetWriteState("Failed")
     /\ shown' = "error"
     /\ UNCHANGED <<phase, format>>
  \/ /\ NewThread("writing")
     /\ SetWriteState("Writing")
     /\ shown' = "none"
     /\ UNCHANGED format
  \/ /\ May("files")
     /\ NewThread("created")
     /\ format' = "files"
     /\ SetWriteState("Writing")
     /\ shown' = "none"

\* Mutant: the thread _thread pointed to is never deleted.
DiscardForgotten(q) == q

\* The events q once deleteLater() was called on _thread.
Discard(q) == IF thread = NoThread THEN q ELSE Append(q, Event(thread, "delete"))

\* startWrite() past its guard.
StartWrite ==
  /\ queue' = Discard(queue)
  /\ \/ CreateThread /\ UNCHANGED waiting
     \/ /\ May("cacheWait")
        /\ thread' = NoThread
        /\ waiting' = TRUE
        /\ SetWriteState("Preparing")
        /\ shown' = "none"
        /\ UNCHANGED <<phase, format>>
     \/ /\ May("capacity")
        /\ thread' = NoThread
        /\ SetWriteState("Preparing")
        /\ shown' = "error"
        /\ UNCHANGED <<phase, format, waiting>>
     \/ /\ May("format")
        /\ thread' = NoThread
        /\ format' = "drive"
        /\ SetWriteState("Preparing")
        /\ shown' = "none"
        /\ UNCHANGED <<phase, waiting>>
  /\ UNCHANGED <<cancelled, completed, connected, muted, deviceValid,
                 deviceRemoval, crashed>>

\* What is left of the last session when the user tries again.
MayRetry == /\ Running(thread) => May("earlyRetry")
            /\ queue # <<>> => May("earlyRetry") \/ May("gapRetry")

\* The user starts a write; the step is left once it succeeded.
UserStarts ==
  /\ writeState \notin Active \cup {"Succeeded"}
  /\ deviceValid
  /\ Unused # {}
  /\ format = "off"
  /\ MayRetry
  /\ StartWrite

\* A device is chosen anew, setDst(): first none, then another.
UserChoosesDevice ==
  /\ writeState \in Stopped
  /\ queue = <<>>
  /\ deviceValid' = TRUE
  /\ SetWriteState("Idle")
  /\ shown' = "none"
  /\ UNCHANGED <<thread, threadVars, queue, waiting, format, deviceRemoval, crashed>>

-------------------------------------------------------------------------------
(***************************************************************************)
(* Cancelling.                                                             *)
(***************************************************************************)
\* Mutant: nothing is connected to the end of the thread.
CancelThreadUnconnected ==
  /\ cancelled' = IF thread = NoThread THEN cancelled ELSE cancelled \cup {thread}
  /\ UNCHANGED connected

\* onCancelled() is connected, then the thread is told to stop.
CancelThread ==
  IF thread = NoThread THEN UNCHANGED <<connected, cancelled>>
  ELSE /\ connected' = [connected EXCEPT ![thread] = Append(@, "onCancelled")]
       /\ cancelled' = cancelled \cup {thread}

\* cancelWrite().  A wait for the cache is merely skipped, and the write goes on.
CancelWrite ==
  IF waiting
  THEN /\ waiting' = FALSE
       /\ CreateThread
       /\ UNCHANGED <<connected, cancelled>>
  ELSE /\ SetWriteState("Cancelling")
       /\ CancelThread
       /\ shown' = IF Running(thread) THEN shown ELSE "cancelled"
       /\ UNCHANGED <<thread, phase, waiting, format>>

\* What the user, or an unplugged device, may interrupt.
Interruptible == \/ Running(thread)
                 \/ waiting /\ Unused # {}
                 \/ May("lateCancel") /\ ~waiting

\* The button cancels, except during the verification, which it skips.
UserCancels ==
  /\ May("cancel")
  /\ writeState \in Active \ {"Verifying", "Cancelling"}
  /\ Interruptible
  /\ CancelWrite
  /\ UNCHANGED <<completed, muted, queue, deviceValid, deviceRemoval, crashed>>

\* onSelectedDeviceRemoved(); a scan under way when polling was paused reports
\* too.
DeviceRemoved ==
  /\ May(IF waiting THEN "waitRemoval" ELSE "removal")
  /\ deviceValid
  /\ deviceValid' = FALSE
  /\ \/ /\ writeState \in Active
        /\ Interruptible
        /\ deviceRemoval' = TRUE
        /\ muted' = muted \cup ({thread} \ {NoThread})
        /\ CancelWrite
     \/ /\ writeState \in Stopped
        /\ UNCHANGED <<writeState, polling, shown, thread, phase, cancelled,
                       connected, muted, waiting, format, deviceRemoval>>
  /\ UNCHANGED <<completed, queue, crashed>>

-------------------------------------------------------------------------------
(***************************************************************************)
(* The watchdog.                                                           *)
(***************************************************************************)
\* Mutant: the thread is left running.
CancelOnErrorForgotten == UNCHANGED cancelled

CancelOnError ==
  cancelled' = IF Running(thread) THEN cancelled \cup {thread} ELSE cancelled

Unexpected == deviceRemoval \/ writeState \in {"Failed", "Cancelled", "Cancelling"}

\* onError().
OnError == IF Unexpected
           THEN Ignored /\ UNCHANGED cancelled
           ELSE /\ SetWriteState("Failed")
                /\ shown' = "error"
                /\ CancelOnError

\* The watchdog runs until the final sync; several files are not watched.
Watched == phase[thread] \in {"writing", "blocked"}

HardTimeout ==
  /\ May("timeout")
  /\ writeState \in Active
  /\ Running(thread)
  /\ Watched
  /\ OnError
  /\ UNCHANGED <<thread, phase, completed, connected, muted, queue, waiting,
                 envVars, crashed>>

\* restartWrite(): the restart waits for the thread to end.
RestartNeeded ==
  /\ May("restart")
  /\ writeState \in Active
  /\ Running(thread)
  /\ Watched
  /\ thread \notin cancelled
  /\ connected' = [connected EXCEPT ![thread] = Append(@, "restart")]
  /\ cancelled' = cancelled \cup {thread}
  /\ UNCHANGED <<writeState, polling, shown, thread, phase, completed, muted, queue,
                 waiting, envVars, crashed>>

-------------------------------------------------------------------------------
(***************************************************************************)
(* The threads.                                                            *)
(***************************************************************************)
Becomes(t, doing) == phase' = [phase EXCEPT ![t] = doing]
Post(t, what) == queue' = Append(queue, Event(t, what))

\* Before the flush the thread waits for the main thread to stop the watchdog
\* (BlockingQueuedConnection).
FinalSyncStarting(t) ==
  /\ phase[t] = "writing"
  /\ t \notin cancelled
  /\ Becomes(t, "blocked")
  /\ Post(t, "finalSync")
  /\ UNCHANGED <<completed, cancelled>>

Verifies(t) ==
  /\ May("verify")
  /\ phase[t] = "syncing"
  /\ t \notin cancelled
  /\ Becomes(t, "verifying")
  /\ Post(t, "verify")
  /\ UNCHANGED <<completed, cancelled>>

\* Nothing looks at _cancelled between the final sync and finalizing().
Finalizes(t) ==
  /\ \/ phase[t] = "syncing"
     \/ phase[t] = "verifying" /\ t \notin cancelled
  /\ Becomes(t, "finalizing")
  /\ Post(t, "finalizing")
  /\ UNCHANGED <<completed, cancelled>>

\* The extract thread's success(), and after the eject the download thread's,
\* which a failure that left _cancelled alone does not stop.
Succeeds(t) ==
  /\ \/ /\ \/ phase[t] = "finalizing" /\ t \notin cancelled
           \/ phase[t] = "extracting"
        /\ Becomes(t, "ejecting")
        /\ completed' = completed \cup ({t} \ cancelled)
     \/ /\ phase[t] \in {"ejecting", "failed"}
        /\ t \notin cancelled
        /\ Becomes(t, "joined")
        /\ UNCHANGED completed
  /\ Post(t, "success")
  /\ UNCHANGED cancelled

\* error(), which nothing receives once it is disconnected.  The failures of the
\* drain and of the customisation neither look at _cancelled nor set it.
Fails(t) ==
  /\ phase[t] \in {"writing", "syncing", "verifying", "finalizing", "extracting"}
  /\ \/ t \notin cancelled /\ cancelled' = cancelled \cup {t}
     \/ May("silentError") /\ UNCHANGED cancelled
  /\ Becomes(t, "failed")
  /\ IF t \in muted THEN UNCHANGED queue ELSE Post(t, "error")
  /\ UNCHANGED completed

\* run() returns: finished() goes to every slot connected by now.
FinishedEvents(t) == [i \in DOMAIN connected[t] |-> Event(t, connected[t][i])]

Ends(t) ==
  /\ Running(t)
  /\ phase[t] # "blocked"
  /\ t \in cancelled \/ phase[t] = "joined"
  /\ Becomes(t, "ended")
  /\ queue' = queue \o FinishedEvents(t)
  /\ UNCHANGED <<completed, cancelled>>

ThreadStep(t) ==
  /\ \/ FinalSyncStarting(t) \/ Verifies(t) \/ Finalizes(t)
     \/ Succeeds(t) \/ Fails(t) \/ Ends(t)
  /\ UNCHANGED <<writeState, thread, connected, muted, waiting, envVars, polling,
                 shown, crashed>>

\* The drive format thread posts its result.
FormatEnds ==
  /\ format # "off"
  /\ format' = "off"
  /\ \E what \in IF format = "drive" THEN {"success", "error"}
                                      ELSE {"start", "error"} :
       queue' = Append(queue, Event(NoThread, what))
  /\ UNCHANGED <<writeState, thread, threadVars, waiting, deviceValid,
                 deviceRemoval, polling, shown, crashed>>

CacheVerified ==
  /\ waiting
  /\ Unused # {}
  /\ waiting' = FALSE
  /\ CreateThread
  /\ UNCHANGED <<cancelled, completed, connected, muted, queue, deviceValid,
                 deviceRemoval, crashed>>

-------------------------------------------------------------------------------
(***************************************************************************)
(* The main thread's event loop.                                           *)
(***************************************************************************)
\* Mutant: a late success() counts.
SuccessAlways == TRUE

SuccessAccepted == writeState \notin {"Failed", "Cancelled", "Cancelling"}

OnSuccess == IF SuccessAccepted
             THEN SetWriteState("Succeeded") /\ shown' = "success"
             ELSE Ignored

\* The verdict and progress signals.
HandleSignal(e) ==
  /\ \/ e.what = "success" /\ OnSuccess /\ UNCHANGED cancelled
     \/ e.what = "error" /\ OnError
     \/ /\ e.what = "finalizing"
        /\ SetWriteState("Finalizing")
        /\ UNCHANGED <<shown, cancelled>>
     \/ /\ e.what = "verify"
        /\ IF writeState \in {"Verifying", "Finalizing", "Succeeded", "Cancelling"}
           THEN Ignored ELSE SetWriteState("Verifying") /\ UNCHANGED shown
        /\ UNCHANGED cancelled
  /\ queue' = Tail(queue)
  /\ UNCHANGED <<thread, phase, completed, connected, muted, waiting, envVars,
                 crashed>>

\* Mutant: the pointer to the discarded thread is kept.
KeepThread == UNCHANGED thread

ForgetThread == thread' = NoThread

\* finished(): whatever _thread points to is discarded.
HandleFinished(e) ==
  /\ e.what = "finished"
  /\ ForgetThread
  /\ queue' = Discard(Tail(queue))
  /\ UNCHANGED <<writeState, threadVars, waiting, envVars, polling, shown, crashed>>

\* onCancelled(); after a removal the UI clears the selection at once.
HandleOnCancelled(e) ==
  /\ e.what = "onCancelled"
  /\ thread' = IF thread = e.from THEN NoThread ELSE thread
  /\ queue' = Append(Tail(queue), Event(e.from, "delete"))
  /\ deviceRemoval' = FALSE
  /\ shown' = IF deviceRemoval THEN "removed" ELSE "cancelled"
  /\ SetWriteState(IF deviceRemoval THEN "Idle" ELSE "Cancelled")
  /\ deviceValid' = (deviceValid /\ ~deviceRemoval)
  /\ UNCHANGED <<threadVars, waiting, format, crashed>>

\* The restart: a null _thread is fatal, an active state makes startWrite() return.
HandleRestart(e) ==
  /\ e.what = "restart"
  /\ IF thread = NoThread
     THEN /\ crashed' = TRUE
          /\ queue' = Tail(queue)
          /\ UNCHANGED thread
     ELSE /\ ForgetThread
          /\ queue' = Discard(Tail(queue))
          /\ UNCHANGED crashed
  /\ UNCHANGED <<writeState, threadVars, waiting, envVars, polling, shown>>

\* Mutant: success() is connected to nothing.
StartNothing == UNCHANGED phase

StartCreated ==
  phase' = [t \in Threads |-> IF phase[t] = "created" THEN "extracting" ELSE phase[t]]

\* The format thread's success() starts the download thread it was made for.
HandleStart(e) ==
  /\ e.what = "start"
  /\ StartCreated
  /\ queue' = Tail(queue)
  /\ UNCHANGED <<writeState, thread, cancelled, completed, connected, muted, waiting,
                 envVars, polling, shown, crashed>>

\* The watchdog is stopped; the thread goes on.
HandleFinalSync(e) ==
  /\ e.what = "finalSync"
  /\ phase' = [phase EXCEPT ![e.from] = IF @ = "blocked" THEN "syncing" ELSE @]
  /\ queue' = Tail(queue)
  /\ UNCHANGED <<writeState, thread, cancelled, completed, connected, muted, waiting,
                 envVars, polling, shown, crashed>>

\* deleteLater() comes due: the destructor cancels the thread and waits for it,
\* and terminates an extract thread that does not end in 10 s.
HandleDelete(e) ==
  /\ e.what = "delete"
  /\ Becomes(e.from, "deleted")
  /\ IF Running(e.from)
     THEN /\ cancelled' = cancelled \cup {e.from}
          /\ queue' = Tail(queue) \o FinishedEvents(e.from)
     ELSE /\ queue' = Tail(queue)
          /\ UNCHANGED cancelled
  /\ UNCHANGED <<writeState, thread, completed, connected, muted, waiting, envVars,
                 polling, shown, crashed>>

HandleEvent ==
  /\ queue # <<>>
  /\ ~crashed
  /\ LET e == Head(queue) IN
       \/ HandleSignal(e) \/ HandleFinished(e) \/ HandleOnCancelled(e)
       \/ HandleRestart(e) \/ HandleStart(e) \/ HandleFinalSync(e) \/ HandleDelete(e)

User == UserStarts \/ UserChoosesDevice \/ UserCancels

Step == \/ HandleEvent
        \/ ~crashed /\ (User \/ DeviceRemoved \/ HardTimeout \/ RestartNeeded)
        \/ CacheVerified \/ FormatEnds
        \/ \E t \in Threads : ThreadStep(t)

Next == Step /\ UNCHANGED situation

(***************************************************************************)
(* The event loop runs, and every thread and check comes to its end.       *)
(***************************************************************************)
Fairness == /\ WF_sessions(HandleEvent)
            /\ WF_sessions(CacheVerified)
            /\ WF_sessions(FormatEnds)
            /\ \A t \in Threads : WF_sessions(ThreadStep(t))

Spec == Init /\ [][Next]_vars
FairSpec == Spec /\ Fairness

-------------------------------------------------------------------------------
(***************************************************************************)
(* Every variable stays within its type; _thread is null or an object that *)
(* has not been deleted.                                                   *)
(***************************************************************************)
TypeOK ==
  /\ situation \in Situations
  /\ writeState \in Active \cup Stopped
  /\ thread \in {t \in Threads : phase[t] \notin {"none", "deleted"}} \cup {NoThread}
  /\ phase \in [Threads -> {"none", "created", "extracting", "writing", "blocked",
                            "syncing", "verifying", "finalizing", "ejecting",
                            "joined", "failed", "ended", "deleted"}]
  /\ cancelled \subseteq Threads
  /\ completed \subseteq Threads
  /\ connected \in [Threads -> Seq({"finished", "onCancelled", "restart"})]
  /\ muted \subseteq Threads
  /\ queue \in Seq([from : Threads \cup {NoThread},
                    what : {"success", "error", "finalizing", "verify", "finished",
                            "onCancelled", "restart", "start", "finalSync", "delete"}])
  /\ {waiting, deviceValid, deviceRemoval, crashed} \subseteq BOOLEAN
  /\ format \in {"off", "drive", "files"}
  /\ polling \in {"normal", "paused", "slow"}
  /\ shown \in {"none", "success", "error", "cancelled", "removed"}

(***************************************************************************)
(* imagewriter.cpp:2379-2381 (#1511): once the session is over no thread   *)
(* goes on writing to the device.                                          *)
(***************************************************************************)
DeviceReleased ==
  writeState \in Stopped =>
    \A t \in Threads :
      phase[t] \in {"extracting", "writing", "blocked", "syncing", "verifying",
                    "finalizing"} => t \in cancelled

\* The user waits for the thread of the last session to be collected.
Patient == ~May("earlyRetry") /\ ~May("gapRetry")

(***************************************************************************)
(* The same as long as the user does not start over before the last thread *)
(* is collected: a second success() it posts on its way out would end the  *)
(* new session (MCWriterExceptions.cfg).                                   *)
(***************************************************************************)
DeviceLeftAlone == Patient => DeviceReleased

ShowsSuccess == writeState # "Succeeded" /\ writeState' = "Succeeded"

(***************************************************************************)
(* A write is shown as successful only by the success() of the thread the  *)
(* session runs, and only if that thread completed the write; a formatting *)
(* has no thread.                                                          *)
(***************************************************************************)
OfThisWrite == Head(queue).from = thread /\ thread \in completed \cup {NoThread}

EverySuccessIsOfThisWrite == [][ShowsSuccess => OfThisWrite]_vars

\* ... and the device stays where it is.
Undisturbed == Patient /\ ~May("removal") /\ ~May("waitRemoval")

(***************************************************************************)
(* The same, but for two cases: a write started before the last thread was *)
(* collected loses its own thread to that one's finished()                 *)
(* (OnlyEndedThreadsDeleted), and one whose device is pulled out, while it *)
(* finalizes or before it starts, has its error dropped                    *)
(* (MCWriterExceptions.cfg).                                               *)
(***************************************************************************)
SuccessIsOfThisWrite == [][ShowsSuccess /\ Undisturbed => OfThisWrite]_vars

\* Without what leaves a session in Preparing (imagewriter.cpp:741), reopens one that has
\* failed (1078), or takes its thread from it: README.md, section 4.
Orderly == situation \cap {"capacity", "timeout", "lateCancel", "restart", "earlyRetry",
                           "gapRetry", "waitRemoval"} = {}

(***************************************************************************)
(* Every session comes to an end, whoever ends it.                         *)
(***************************************************************************)
SessionEnds == Orderly /\ writeState \in Active ~> writeState \in Stopped

(***************************************************************************)
(* WritingStep.qml:386: the user is asked to wait for the device to be     *)
(* released, and the wait ends.                                            *)
(***************************************************************************)
CancelEnds == (writeState = "Cancelling") ~> (writeState # "Cancelling")

(***************************************************************************)
(* imagewriter.cpp:658-659: no thread is running when a write starts.      *)
(***************************************************************************)
NoRunningThreadAtStart ==
  [][thread # NoThread /\ thread' # thread /\ thread' # NoThread
       => ~Running(thread)]_vars

(***************************************************************************)
(* imagewriter.cpp:657: starting over in the gap before finished() is      *)
(* handled cleans up the old thread, never the new one.                    *)
(***************************************************************************)
OnlyEndedThreadsDeleted ==
  [][Len(queue') > 0 /\ queue'[Len(queue')].what = "delete"
       => ~Running(queue'[Len(queue')].from)]_vars

(***************************************************************************)
(* imagewriter.cpp:1311: cancelling never starts a write.                  *)
(***************************************************************************)
CancelStartsNothing ==
  [][UserCancels => \A t \in Threads : phase'[t] = phase[t]]_vars

(***************************************************************************)
(* imagewriter.cpp:2311-2313: drive scanning is paused during a write.     *)
(***************************************************************************)
ScanPausedWhileWriting == writeState \in Active => polling = "paused"

(***************************************************************************)
(* A session the user cancelled stays cancelled: what the thread had still *)
(* to say changes nothing.                                                 *)
(***************************************************************************)
CancelSettles ==
  [][writeState = "Cancelling" => writeState' \in {"Cancelling", "Cancelled", "Idle"}]_vars

(***************************************************************************)
(* A thread that runs is the current one, or on its way to being stopped:  *)
(* none goes on writing with nobody left to cancel or collect it.          *)
(***************************************************************************)
NobodyOrphaned ==
  \A t \in Threads :
    Running(t) => \/ t = thread
                  \/ t \in cancelled
                  \/ \E i \in DOMAIN queue : queue[i] = Event(t, "delete")

(***************************************************************************)
(* The same, unless the user starts over while the cache is verified: a    *)
(* late error of the old thread fails the waiting session, and the end of  *)
(* the verification creates one more thread over the user's new one        *)
(* (MCWriterOrphan.cfg).                                                   *)
(***************************************************************************)
NoOrphan == Patient \/ ~May("cacheWait") => NobodyOrphaned

(***************************************************************************)
(* imagewriter.cpp:2213: the restart in sync mode finds the thread that    *)
(* has just stopped.                                                       *)
(***************************************************************************)
RestartFindsThread == ~crashed
===============================================================================
