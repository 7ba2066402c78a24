--------------------------- MODULE ImageWriterProofs ---------------------------
(***************************************************************************)
(* The sessions for every number of threads and whatever comes together:   *)
(* what _thread points to, who may go on writing, and whose success is     *)
(* shown.  The hypotheses, Patient, Undisturbed and that of NoOrphan, name *)
(* the retries and unplugged devices that break more than a session        *)
(* (MCWriterExceptions.cfg, MCWriterOrphan.cfg).  Each clause of IInv says *)
(* in its comment what the sessions rely on; Shape sums up every step by   *)
(* what it does to the threads and the queue.                              *)
(***************************************************************************)
EXTENDS ImageWriter, TLAPS

\* The events of a queue.
Posted(q) == {q[i] : i \in 1..Len(q)}

\* What run() posts when it returns.
EndEvents == {"finished", "onCancelled", "restart"}

\* What a thread does on the device.
Busy == {"extracting", "writing", "blocked", "syncing", "verifying", "finalizing"}

\* A thread that was created and has not ended.
Live(t) == phase[t] \notin {"none", "ended", "deleted"}

Current(doing) == thread # NoThread /\ phase[thread] = doing

\* Where a thread may be as long as what it has posted is in the queue.
After(what) ==
  IF what \in EndEvents THEN {"ended", "deleted"}
  ELSE IF what = "success" THEN {"ejecting", "joined", "ended", "deleted"}
  ELSE IF what = "error" THEN {"failed", "joined", "ended", "deleted"}
  ELSE {"blocked", "syncing", "verifying", "finalizing", "ejecting", "joined",
        "failed", "ended", "deleted"}

\* Only the format thread posts for nobody; a thread to be deleted is not the current
\* one; a thread that has posted has got that far.
EventsKept ==
  \A e \in Posted(queue) :
    /\ e.from = NoThread => e.what \in {"success", "error", "start"}
    /\ e.what = "delete" => e.from # thread /\ phase[e.from] # "none"
    /\ e.from # NoThread /\ e.what # "delete" =>
         e.what # "start" /\ phase[e.from] \in After(e.what)

ThreadsKept ==
  /\ \A t \in cancelled : phase[t] # "none"
  /\ \A t \in Threads : phase[t] = "ejecting" => t \in completed \cup cancelled

Base == TypeOK /\ EventsKept /\ ThreadsKept

\* Without a wait for the cache nothing but the user makes a thread.
OrphanKept ==
  /\ ~waiting
  /\ \A t \in Threads : Live(t) => \/ t = thread
                                   \/ t \in cancelled
                                   \/ Event(t, "delete") \in Posted(queue)

\* With a patient user, only the current thread is live, but for one that was never
\* started and is about to be deleted; and only it has events in the queue.
CurrentKept ==
  /\ \A t \in Threads : Live(t) => \/ t = thread
                                   \/ /\ phase[t] = "created"
                                      /\ queue # <<>> /\ Head(queue) = Event(t, "delete")
  /\ \A e \in Posted(queue) :
       e.what = "delete" \/ thread = NoThread \/ e.from \in {thread, NoThread}

\* While the cache is verified nothing else goes on.
WaitKept ==
  waiting => /\ thread = NoThread /\ writeState = "Preparing" /\ format = "off"
             /\ \A e \in Posted(queue) : e.what = "delete"

FilesPending == format = "files" \/ Event(NoThread, "start") \in Posted(queue)
DrivePending == format = "drive" \/ Event(NoThread, "success") \in Posted(queue)

\* One formatting at a time; the thread that waits for it, or extracts several files,
\* knows of a cancel.
OneResult(q) ==
  \A i, j \in 1..Len(q) : q[i].from = NoThread /\ q[j].from = NoThread => i = j
NoResult(q) == \A e \in Posted(q) : e.from # NoThread

FormatKept ==
  /\ OneResult(queue)
  /\ format # "off" \/ Current("extracting") => NoResult(queue)
  /\ Current("extracting") => format = "off"
  /\ FilesPending => Current("created")
  /\ FilesPending \/ Current("extracting") =>
        writeState = IF thread \in cancelled THEN "Cancelling" ELSE "Writing"
  /\ DrivePending => thread = NoThread

PatientInv == CurrentKept /\ WaitKept /\ FormatKept /\ DeviceReleased

\* The states in which no success() is shown, and the events that lead out of them.
Doomed == writeState \in {"Failed", "Cancelled", "Cancelling"}
Reopens(e) == e.what \in {"finalizing", "verify"}

\* The end of a thread is the last it says.
Ordered(q) ==
  \A i, j \in 1..Len(q) :
    i < j /\ q[i].from # NoThread /\ q[i].from = q[j].from /\ q[i].what \in EndEvents
      => q[j].what \in EndEvents \cup {"delete"}

OrderKept ==
  /\ Ordered(queue)
  /\ thread = NoThread =>
       \A e \in Posted(queue) : e.from = NoThread \/ e.what \in EndEvents \cup {"delete"}

\* Before the n-th event of q is handled nothing brings a stopped session back; or an
\* error of t stops it for good.
Clear(q, n) == \A j \in 1..(n - 1) : ~Reopens(q[j])
Told(q, t, n) == \E k \in 1..(n - 1) : /\ q[k] = Event(t, "error")
                                       /\ \A j \in (k + 1)..(n - 1) : ~Reopens(q[j])

\* A success() of a thread not among the done finds the session stopped.
Earned(q, stopped, done) ==
  \A n \in 1..Len(q) :
    q[n].what = "success" /\ q[n].from \notin done \cup {NoThread}
      => (stopped /\ Clear(q, n)) \/ Told(q, q[n].from, n)

VerdictKept ==
  /\ Running(thread) /\ thread \notin cancelled => ~Doomed
  /\ \A t \in Threads \ cancelled : phase[t] = "failed" => Told(queue, t, Len(queue) + 1)
  /\ Earned(queue, Doomed, completed)

SuccessInv == ~deviceRemoval /\ muted = {} /\ OrderKept /\ VerdictKept

IInv == /\ Base
        /\ ~May("cacheWait") => OrphanKept
        /\ Patient => PatientInv
        /\ Undisturbed => SuccessInv

USE MaxThreadsAssumption

Phases == {"none", "created", "extracting", "writing", "blocked", "syncing", "verifying",
           "finalizing", "ejecting", "joined", "failed", "ended", "deleted"}
Whats == {"success", "error", "finalizing", "verify", "finished", "onCancelled", "restart",
          "start", "finalSync", "delete"}
Events == [from : Threads \cup {NoThread}, what : Whats]

\* TypeOK in parts, by what the steps do to them.
FlagsOK == {waiting, deviceValid, deviceRemoval, crashed} \subseteq BOOLEAN
StateOK == /\ situation \in Situations
           /\ writeState \in Active \cup Stopped
           /\ format \in {"off", "drive", "files"}
           /\ polling \in {"normal", "paused", "slow"}
           /\ shown \in {"none", "success", "error", "cancelled", "removed"}
SetsOK == /\ cancelled \subseteq Threads
          /\ completed \subseteq Threads
          /\ connected \in [Threads -> Seq(EndEvents)]
          /\ muted \subseteq Threads
ThreadOK == thread \in {t \in Threads : phase[t] \notin {"none", "deleted"}} \cup {NoThread}
CoreOK == /\ ThreadOK
          /\ phase \in [Threads -> Phases]
          /\ queue \in Seq(Events)

LEMMA TypeParts == TypeOK <=> FlagsOK /\ StateOK /\ SetsOK /\ CoreOK
BY Zenon DEF TypeOK, FlagsOK, StateOK, SetsOK, CoreOK, ThreadOK, Phases, Events, Whats,
   EndEvents

-------------------------------------------------------------------------------
(***************************************************************************)
(* Queues.                                                                 *)
(***************************************************************************)
LEMMA PostedEmpty == Posted(<<>>) = {}
BY SMT DEF Posted

LEMMA PostedAppend ==
  ASSUME NEW S, NEW q \in Seq(S), NEW e \in S
  PROVE  /\ Append(q, e) \in Seq(S)
         /\ Posted(Append(q, e)) = Posted(q) \cup {e}
         /\ q # <<>> => Head(Append(q, e)) = Head(q)
<1>1. /\ Len(Append(q, e)) = Len(q) + 1 /\ Append(q, e)[Len(q) + 1] = e /\ Len(q) \in Nat
      /\ \A i \in 1..Len(q) : Append(q, e)[i] = q[i]
  BY SMT
<1>2. Posted(Append(q, e)) \subseteq Posted(q) \cup {e}
  BY <1>1, SMT DEF Posted
<1>3. Posted(q) \cup {e} \subseteq Posted(Append(q, e))
  <2>1. e \in Posted(Append(q, e))
    BY <1>1, SMT DEF Posted
  <2>2. \A i \in 1..Len(q) : q[i] \in Posted(Append(q, e))
    BY <1>1, SMT DEF Posted
  <2> QED
    BY <2>1, <2>2, Zenon DEF Posted
<1> QED
  BY <1>2, <1>3, SMT

LEMMA PostedTail ==
  ASSUME NEW S, NEW q \in Seq(S), q # <<>>
  PROVE  /\ Tail(q) \in Seq(S) /\ Head(q) \in S /\ Head(q) \in Posted(q)
         /\ Posted(q) = {Head(q)} \cup Posted(Tail(q))
<1>1. /\ Len(Tail(q)) = Len(q) - 1 /\ Len(q) \in Nat /\ Len(q) >= 1 /\ Head(q) = q[1]
      /\ \A i \in 1..Len(Tail(q)) : Tail(q)[i] = q[i + 1]
  BY SMT
<1>2. \A i \in 1..Len(q) : q[i] \in {Head(q)} \cup Posted(Tail(q))
  <2> TAKE i \in 1..Len(q)
  <2>1. CASE i = 1
    BY <1>1, <2>1, SMT
  <2>2. CASE i # 1
    <3>1. i - 1 \in 1..Len(Tail(q)) /\ q[i] = Tail(q)[i - 1]
      BY <1>1, <2>2, SMT
    <3> QED
      BY <3>1, Zenon DEF Posted
  <2> QED
    BY <2>1, <2>2
<1>3. \A i \in 1..Len(Tail(q)) : Tail(q)[i] \in Posted(q)
  <2> TAKE i \in 1..Len(Tail(q))
  <2>1. i + 1 \in 1..Len(q) /\ Tail(q)[i] = q[i + 1]
    BY <1>1, SMT
  <2> QED
    BY <2>1, Zenon DEF Posted
<1>4. Head(q) \in Posted(q)
  <2>1. 1 \in 1..Len(q)
    BY <1>1, SMT
  <2> QED
    BY <1>1, <2>1, Zenon DEF Posted
<1>5. Tail(q) \in Seq(S) /\ Head(q) \in S
  BY SMT
<1> QED
  BY <1>2, <1>3, <1>4, <1>5, Zenon DEF Posted

LEMMA PostedConcat ==
  ASSUME NEW S, NEW q \in Seq(S), NEW r \in Seq(S)
  PROVE  /\ q \o r \in Seq(S)
         /\ Posted(q \o r) = Posted(q) \cup Posted(r)
         /\ q # <<>> => Head(q \o r) = Head(q)
<1>1. /\ Len(q \o r) = Len(q) + Len(r) /\ Len(q) \in Nat /\ Len(r) \in Nat
      /\ \A i \in 1..Len(q) : (q \o r)[i] = q[i]
      /\ \A i \in 1..Len(r) : (q \o r)[Len(q) + i] = r[i]
  BY SMT
<1>2. \A i \in 1..Len(q \o r) : (q \o r)[i] \in Posted(q) \cup Posted(r)
  <2> TAKE i \in 1..Len(q \o r)
  <2>1. CASE i <= Len(q)
    <3>1. i \in 1..Len(q) /\ (q \o r)[i] = q[i]
      BY <1>1, <2>1, SMT
    <3> QED
      BY <3>1, Zenon DEF Posted
  <2>2. CASE ~(i <= Len(q))
    <3>1. i - Len(q) \in 1..Len(r) /\ (q \o r)[i] = r[i - Len(q)]
      BY <1>1, <2>2, SMT
    <3> QED
      BY <3>1, Zenon DEF Posted
  <2> QED
    BY <2>1, <2>2
<1>3. \A i \in 1..Len(q) : q[i] \in Posted(q \o r)
  <2> TAKE i \in 1..Len(q)
  <2>1. i \in 1..Len(q \o r) /\ (q \o r)[i] = q[i]
    BY <1>1, SMT
  <2> QED
    BY <2>1, Zenon DEF Posted
<1>4. \A i \in 1..Len(r) : r[i] \in Posted(q \o r)
  <2> TAKE i \in 1..Len(r)
  <2>1. Len(q) + i \in 1..Len(q \o r) /\ (q \o r)[Len(q) + i] = r[i]
    BY <1>1, SMT
  <2> QED
    BY <2>1, Zenon DEF Posted
<1>5. q \o r \in Seq(S) /\ (q # <<>> => Head(q \o r) = Head(q))
  BY SMT
<1> QED
  BY <1>2, <1>3, <1>4, <1>5, Zenon DEF Posted

LEMMA EventIs ==
  ASSUME NEW t, NEW what
  PROVE  /\ Event(t, what).from = t /\ Event(t, what).what = what
         /\ t \in Threads \cup {NoThread} /\ what \in Whats => Event(t, what) \in Events
BY SMT DEF Event, Events

LEMMA PostedFinished ==
  ASSUME SetsOK, NEW t \in Threads
  PROVE  /\ FinishedEvents(t) \in Seq(Events)
         /\ \A e \in Posted(FinishedEvents(t)) : e.from = t /\ e.what \in EndEvents
<1>1. connected[t] \in Seq(EndEvents)
  BY Zenon DEF SetsOK
<1>2. FinishedEvents(t) = [i \in 1..Len(connected[t]) |-> Event(t, connected[t][i])]
  BY <1>1, SMT DEF FinishedEvents
<1>3. \A i \in 1..Len(connected[t]) : Event(t, connected[t][i]) \in Events
  <2> TAKE i \in 1..Len(connected[t])
  <2>1. connected[t][i] \in Whats
    BY <1>1, SMT DEF EndEvents, Whats
  <2> QED
    BY <2>1, EventIs, Zenon
<1>4. FinishedEvents(t) \in Seq(Events) /\ Len(FinishedEvents(t)) = Len(connected[t])
  BY <1>1, <1>2, <1>3, SMT
<1>5. \A i \in 1..Len(FinishedEvents(t)) :
        FinishedEvents(t)[i].from = t /\ FinishedEvents(t)[i].what \in EndEvents
  BY <1>1, <1>2, <1>4, SMT DEF Event
<1> QED
  BY <1>4, <1>5, Zenon DEF Posted

LEMMA PostedDiscard ==
  ASSUME CoreOK, NEW q \in Seq(Events)
  PROVE  /\ Discard(q) \in Seq(Events)
         /\ Posted(Discard(q)) = Posted(q) \cup
              ({Event(thread, "delete")} \ {Event(NoThread, "delete")})
         /\ q # <<>> => Head(Discard(q)) = Head(q)
<1>1. CASE thread = NoThread
  BY <1>1, Zenon DEF Discard
<1>2. CASE thread # NoThread
  <2>1. Event(thread, "delete") \in Events /\ Event(thread, "delete") # Event(NoThread, "delete")
    BY <1>2, SMT DEF CoreOK, ThreadOK, Event, Events, Whats
  <2>2. Discard(q) = Append(q, Event(thread, "delete"))
    BY <1>2, Zenon DEF Discard
  <2>3. {Event(thread, "delete")} \ {Event(NoThread, "delete")} = {Event(thread, "delete")}
    BY <2>1, Zenon
  <2> QED
    BY <2>1, <2>2, <2>3, PostedAppend
<1> QED
  BY <1>1, <1>2

-------------------------------------------------------------------------------
(***************************************************************************)
(* The steps.                                                              *)
(***************************************************************************)
Handles == queue # <<>> /\ ~crashed

LEMMA NextCases ==
  ASSUME [Next]_vars
  PROVE  /\ UNCHANGED situation
         /\ \/ UserStarts \/ UserChoosesDevice \/ UserCancels \/ DeviceRemoved
            \/ HardTimeout \/ RestartNeeded \/ CacheVerified \/ FormatEnds
            \/ \E t \in Threads : ThreadStep(t)
            \/ Handles /\ HandleSignal(Head(queue))
            \/ Handles /\ HandleFinished(Head(queue))
            \/ Handles /\ HandleOnCancelled(Head(queue))
            \/ Handles /\ HandleRestart(Head(queue))
            \/ Handles /\ HandleStart(Head(queue))
            \/ Handles /\ HandleFinalSync(Head(queue))
            \/ Handles /\ HandleDelete(Head(queue))
            \/ UNCHANGED sessions
BY Zenon DEF Next, Step, User, HandleEvent, Handles, vars

\* A thread never falls back behind what it has posted.
PhasesAdvance ==
  \A t \in Threads :
    /\ phase[t] # "none" => phase'[t] # "none"
    /\ \A what \in Whats : phase[t] \in After(what) => phase'[t] \in After(what)

\* The steps as the threads and the queue see them.  Most change neither; those that
\* cancel a thread cancel the current one.
CancelsAtMost(s) == cancelled \subseteq cancelled' /\ cancelled' \subseteq cancelled \cup s

Quiet ==
  /\ UNCHANGED <<thread, phase, completed, queue, format, waiting>>
  /\ CancelsAtMost({thread} \ {NoThread})
  /\ \/ UNCHANGED <<writeState, cancelled>>
     \/ writeState \in Stopped /\ queue = <<>> /\ writeState' = "Idle" /\ UNCHANGED cancelled
     \/ ~waiting /\ writeState' = "Cancelling" /\ (thread # NoThread => thread \in cancelled')
     \/ Running(thread) /\ Watched /\ thread \in cancelled'
         /\ writeState' \in {writeState, "Failed"}

\* A new thread, or none.
NewIs(t, doing) ==
  /\ thread' = t
  /\ phase' = [phase EXCEPT ![t] = doing]
  /\ format' = IF doing = "created" THEN "files" ELSE format
Created ==
  \/ thread' = NoThread /\ writeState' = "Failed" /\ UNCHANGED <<phase, format>>
  \/ writeState' = "Writing" /\ \E t \in Unused, doing \in {"writing", "created"} : NewIs(t, doing)

\* The end of the wait for the cache.
Continues ==
  /\ waiting /\ ~waiting'
  /\ UNCHANGED <<cancelled, completed, queue>>
  /\ Created

Starts ==
  /\ writeState \notin Active \cup {"Succeeded"}
  /\ MayRetry /\ format = "off"
  /\ queue' = Discard(queue)
  /\ UNCHANGED <<cancelled, completed>>
  /\ waiting' => waiting \/ May("cacheWait")
  /\ \/ Created /\ UNCHANGED waiting
     \/ thread' = NoThread /\ writeState' = "Preparing" /\ UNCHANGED <<phase, format>>
     \/ /\ thread' = NoThread /\ writeState' = "Preparing" /\ UNCHANGED <<phase, waiting>>
        /\ format' = "drive"

\* The next step of thread t, and what it posts; a success() that is not one is that of
\* a thread that was cancelled, or failed without a word.
Works(t, doing, what) ==
  /\ phase[t] \notin Still /\ doing \notin Still \cup {"extracting"}
  /\ doing \in After(what) /\ what \in {"success", "error", "finalizing", "verify", "finalSync"}
  /\ \A w \in Whats : phase[t] \in After(w) => doing \in After(w)
  /\ doing \in Busy => phase[t] \in Busy
  /\ UNCHANGED <<writeState, thread, format, waiting>>
  /\ phase' = [phase EXCEPT ![t] = doing]
  /\ queue' = IF what = "error" /\ t \in muted THEN queue ELSE Append(queue, Event(t, what))
  /\ completed' \in {completed, completed \cup ({t} \ cancelled)}
  /\ doing = "ejecting" => completed' = completed \cup ({t} \ cancelled)
  /\ doing = "failed" => what = "error"
  /\ what = "success" => \/ t \in completed'
                         \/ phase[t] = "extracting" /\ t \in cancelled
                         \/ phase[t] \in {"ejecting", "failed"} /\ t \notin cancelled
  /\ CancelsAtMost({t})

Returns(t) ==
  /\ phase[t] \notin Still
  /\ UNCHANGED <<writeState, thread, format, waiting, completed, cancelled>>
  /\ phase' = [phase EXCEPT ![t] = "ended"]
  /\ queue' = queue \o FinishedEvents(t)

Formatted ==
  /\ format # "off" /\ format' = "off"
  /\ UNCHANGED <<writeState, thread, phase, completed, cancelled, waiting>>
  /\ \E what \in {"success", "start", "error"} :
       /\ queue' = Append(queue, Event(NoThread, what))
       /\ what = "success" => format = "drive"
       /\ what = "start" => format = "files"

\* The main thread takes the first event from the queue, and may take a verdict from it;
Takes ==
  /\ queue # <<>> /\ queue' = Tail(queue)
  /\ Head(queue).what \in {"success", "error", "finalizing", "verify"}
  /\ UNCHANGED <<thread, phase, completed, format, waiting>>
  /\ CancelsAtMost({thread} \ {NoThread})
  /\ \/ /\ UNCHANGED <<writeState, cancelled>>
        /\ Head(queue).what = "error" => deviceRemoval \/ Doomed
     \/ Head(queue).what = "success" /\ ~Doomed /\ writeState' = "Succeeded" /\ UNCHANGED cancelled
     \/ /\ Head(queue).what = "error" /\ writeState' = "Failed"
        /\ Running(thread) => thread \in cancelled'
     \/ Reopens(Head(queue)) /\ writeState' \in {"Finalizing", "Verifying"} /\ UNCHANGED cancelled

\* ... or discards the current thread;
Forgets ==
  /\ queue # <<>> /\ queue' = Discard(Tail(queue))
  /\ Head(queue).what \in {"finished", "restart"}
  /\ thread' = NoThread
  /\ UNCHANGED <<writeState, phase, completed, cancelled, format, waiting>>

\* ... or the one that was cancelled;
Collects ==
  /\ queue # <<>> /\ queue' = Append(Tail(queue), Event(Head(queue).from, "delete"))
  /\ Head(queue).what = "onCancelled"
  /\ thread' = IF thread = Head(queue).from THEN NoThread ELSE thread
  /\ writeState' = IF deviceRemoval THEN "Idle" ELSE "Cancelled"
  /\ UNCHANGED <<phase, completed, cancelled, format, waiting>>

\* ... or starts the thread that was made;
Launches ==
  /\ queue # <<>> /\ queue' = Tail(queue) /\ Head(queue).what = "start"
  /\ StartCreated
  /\ UNCHANGED <<writeState, thread, completed, cancelled, format, waiting>>

\* ... or lets the current one go on;
Unblocks ==
  /\ queue # <<>> /\ queue' = Tail(queue) /\ Head(queue).what = "finalSync"
  /\ phase' = [phase EXCEPT ![Head(queue).from] = IF @ = "blocked" THEN "syncing" ELSE @]
  /\ UNCHANGED <<writeState, thread, completed, cancelled, format, waiting>>

\* ... or deletes one.
Deletes ==
  /\ queue # <<>> /\ Head(queue).what = "delete"
  /\ phase' = [phase EXCEPT ![Head(queue).from] = "deleted"]
  /\ IF Running(Head(queue).from)
     THEN /\ cancelled' = cancelled \cup {Head(queue).from}
          /\ queue' = Tail(queue) \o FinishedEvents(Head(queue).from)
     ELSE queue' = Tail(queue) /\ UNCHANGED cancelled
  /\ UNCHANGED <<writeState, thread, completed, format, waiting>>

Shape ==
  \/ Quiet \/ Continues \/ Starts \/ Formatted
  \/ \E t \in Threads : Returns(t)
  \/ \E t \in Threads, doing \in Phases, what \in Whats : Works(t, doing, what)
  \/ Takes \/ Forgets \/ Collects \/ Launches \/ Unblocks \/ Deletes

LEMMA CreateIs == CreateThread => Created
<1>1. /\ "writing" \in {"writing", "created"} /\ "created" \in {"writing", "created"}
      /\ "writing" # "created"
  BY SMT
<1>2. \A doing : NewThread(doing) =>
        \E t \in Unused : thread' = t /\ phase' = [phase EXCEPT ![t] = doing]
  BY Zenon DEF NewThread
<1> QED
  BY <1>1, <1>2, Zenon DEF CreateThread, Created, NewIs, SetWriteState

LEMMA WorksIs ==
  ASSUME NEW t \in Threads, ThreadStep(t)
  PROVE  Returns(t) \/ \E doing \in Phases, what \in Whats : Works(t, doing, what)
<1> USE DEF Works, CancelsAtMost, Becomes, Post, After, EndEvents, Still, Phases, Whats, Busy
<1>0. UNCHANGED <<writeState, thread, format, waiting>>
  BY Zenon DEF ThreadStep, envVars
<1>1. CASE FinalSyncStarting(t)
  <2>1. Works(t, "blocked", "finalSync")
    BY <1>0, <1>1, SMT DEF FinalSyncStarting
  <2> QED
    BY <2>1, SMT
<1>2. CASE Verifies(t)
  <2>1. Works(t, "verifying", "verify")
    BY <1>0, <1>2, SMT DEF Verifies
  <2> QED
    BY <2>1, SMT
<1>3. CASE Finalizes(t)
  <2>1. Works(t, "finalizing", "finalizing")
    BY <1>0, <1>3, SMT DEF Finalizes
  <2> QED
    BY <2>1, SMT
<1>4. CASE Succeeds(t)
  <2>1. Works(t, "ejecting", "success") \/ Works(t, "joined", "success")
    BY <1>0, <1>4, SMT DEF Succeeds
  <2> QED
    BY <2>1, SMTT(60)
<1>5. CASE Fails(t)
  <2>1. Works(t, "failed", "error")
    BY <1>0, <1>5, SMT DEF Fails
  <2> QED
    BY <2>1, SMT
<1>6. CASE Ends(t)
  BY <1>0, <1>6, Zenon DEF Ends, Returns, Running
<1> QED
  BY <1>1, <1>2, <1>3, <1>4, <1>5, <1>6, Zenon DEF ThreadStep

LEMMA Shapes ==
  ASSUME FlagsOK, StateOK, [Next]_vars
  PROVE  Shape
<1> USE DEF threadVars, envVars, Shape
<1>c. CancelWrite => \/ /\ waiting /\ ~waiting' /\ Created /\ UNCHANGED cancelled
                      \/ /\ UNCHANGED <<thread, phase, waiting, format>>
                         /\ CancelsAtMost({thread} \ {NoThread})
                         /\ ~waiting /\ writeState' = "Cancelling"
                         /\ thread # NoThread => thread \in cancelled'
  <2>1. CancelThread => /\ CancelsAtMost({thread} \ {NoThread})
                        /\ thread # NoThread => thread \in cancelled'
    BY Zenon DEF CancelThread, CancelsAtMost
  <2> QED
    BY <2>1, CreateIs, Zenon DEF CancelWrite, SetWriteState
<1>e. OnError => /\ CancelsAtMost({thread} \ {NoThread})
                 /\ \/ UNCHANGED <<writeState, cancelled>> /\ (deviceRemoval \/ Doomed)
                    \/ writeState' = "Failed" /\ (Running(thread) => thread \in cancelled')
  BY Zenon DEF OnError, Unexpected, CancelOnError, CancelsAtMost, Running, SetWriteState,
     Ignored, Doomed
<1>n. UNCHANGED cancelled => CancelsAtMost({thread} \ {NoThread})
  BY Zenon DEF CancelsAtMost
<1>1. CASE UserStarts
  <2>1. MayRetry /\ format = "off" /\ queue' = Discard(queue) /\ UNCHANGED <<cancelled, completed>>
    BY <1>1, Zenon DEF UserStarts, StartWrite
  <2>2. \/ CreateThread /\ UNCHANGED waiting
        \/ /\ May("cacheWait") /\ thread' = NoThread /\ waiting' = TRUE
               /\ UNCHANGED <<phase, format>>
           /\ writeState' = "Preparing"
        \/ thread' = NoThread /\ UNCHANGED <<phase, format, waiting>> /\ writeState' = "Preparing"
        \/ /\ format' = "drive" /\ thread' = NoThread /\ UNCHANGED <<phase, waiting>>
           /\ writeState' = "Preparing"
    BY <1>1, Zenon DEF UserStarts, StartWrite, SetWriteState
  <2>3. writeState \notin Active \cup {"Succeeded"}
    BY <1>1, Zenon DEF UserStarts
  <2> QED
    BY <2>1, <2>2, <2>3, CreateIs, Zenon DEF Starts
<1>2. CASE UserChoosesDevice
  BY <1>2, <1>n, Zenon DEF UserChoosesDevice, Quiet, SetWriteState
<1>3. CASE UserCancels
  BY <1>3, <1>c, Zenon DEF UserCancels, Quiet, Continues
<1>4. CASE DeviceRemoved
  BY <1>4, <1>c, <1>n, Zenon DEF DeviceRemoved, Quiet, Continues
<1>5. CASE HardTimeout
  BY <1>5, <1>e, Zenon DEF HardTimeout, Quiet
<1>6. CASE RestartNeeded
  BY <1>6, Zenon DEF RestartNeeded, Quiet, CancelsAtMost, Running
<1>7. CASE CacheVerified
  BY <1>7, CreateIs, Zenon DEF CacheVerified, Continues
<1>8. CASE FormatEnds
  <2>1. PICK what \in IF format = "drive" THEN {"success", "error"} ELSE {"start", "error"} :
          queue' = Append(queue, Event(NoThread, what))
    BY <1>8, Zenon DEF FormatEnds
  <2>2. format # "off" /\ format' = "off" /\ UNCHANGED <<writeState, thread, phase, completed,
            cancelled, waiting>>
    BY <1>8, Zenon DEF FormatEnds
  <2>3. /\ what \in {"success", "start", "error"}
        /\ what = "success" => format = "drive"
        /\ what = "start" => format # "drive"
    BY SMT
  <2>4. format # "drive" => format = "files"
    BY <2>2, SMT DEF StateOK
  <2> QED
    BY <2>1, <2>2, <2>3, <2>4, Zenon DEF Formatted
<1>9. CASE \E t \in Threads : ThreadStep(t)
  BY <1>9, WorksIs, Zenon
<1>10. CASE Handles /\ HandleSignal(Head(queue))
  <2>1. /\ queue # <<>> /\ queue' = Tail(queue)
        /\ UNCHANGED <<thread, phase, completed, format, waiting>>
        /\ \/ Head(queue).what = "success" /\ OnSuccess /\ UNCHANGED cancelled
           \/ Head(queue).what = "error" /\ OnError
           \/ Head(queue).what = "finalizing" /\ writeState' = "Finalizing" /\ UNCHANGED cancelled
           \/ /\ Head(queue).what = "verify" /\ UNCHANGED cancelled
              /\ UNCHANGED writeState \/ writeState' = "Verifying"
    BY <1>10, Zenon DEF Handles, HandleSignal, SetWriteState, Ignored
  <2>2. OnSuccess => \/ UNCHANGED writeState
                     \/ ~Doomed /\ writeState' = "Succeeded"
    BY Zenon DEF OnSuccess, SuccessAccepted, Ignored, Doomed, SetWriteState
  <2>3. "error" \notin {"success", "finalizing", "verify"}
    BY SMT
  <2> QED
    BY <1>e, <1>n, <2>1, <2>2, <2>3, Zenon DEF Takes, Reopens
<1>11. CASE Handles /\ HandleFinished(Head(queue))
  BY <1>11, Zenon DEF Handles, HandleFinished, ForgetThread, Forgets
<1>12. CASE Handles /\ HandleOnCancelled(Head(queue))
  BY <1>12, Zenon DEF Handles, HandleOnCancelled, Collects, SetWriteState
<1>13. CASE Handles /\ HandleRestart(Head(queue))
  BY <1>13, Zenon DEF Handles, HandleRestart, ForgetThread, Discard, Forgets
<1>14. CASE Handles /\ HandleStart(Head(queue))
  BY <1>14, Zenon DEF Handles, HandleStart, Launches
<1>15. CASE Handles /\ HandleFinalSync(Head(queue))
  BY <1>15, Zenon DEF Handles, HandleFinalSync, Unblocks
<1>16. CASE Handles /\ HandleDelete(Head(queue))
  BY <1>16, Zenon DEF Handles, HandleDelete, Becomes, Deletes
<1>17. CASE UNCHANGED sessions
  BY <1>17, <1>n, Zenon DEF sessions, Quiet
<1> QED
  BY <1>1, <1>2, <1>3, <1>4, <1>5, <1>6, <1>7, <1>8, <1>9, <1>10, <1>11, <1>12, <1>13,
     <1>14, <1>15, <1>16, <1>17, NextCases, Zenon

-------------------------------------------------------------------------------
(***************************************************************************)
(* Types.                                                                  *)
(***************************************************************************)
LEMMA BaseInit == Init => Base
<1>1. Init => FlagsOK
  BY Zenon DEF Init, FlagsOK
<1>2. Init => StateOK
  BY SMT DEF Init, StateOK, Active, Stopped
<1>3. Init => SetsOK
  <2>1. <<"finished">> \in Seq(EndEvents)
    BY SMT DEF EndEvents
  <2> QED
    BY <2>1, SMT DEF Init, SetsOK
<1>4. Init => CoreOK /\ queue = <<>>
  BY SMT DEF Init, CoreOK, ThreadOK, Phases
<1>5. Init => EventsKept /\ ThreadsKept
  BY <1>4, PostedEmpty, SMT DEF Init, EventsKept, ThreadsKept
<1> QED
  BY <1>1, <1>2, <1>3, <1>4, <1>5, TypeParts, Zenon DEF Base

LEMMA NewThreadIs ==
  ASSUME phase \in [Threads -> Phases], NEW t \in Unused, NEW doing \in {"writing", "created"},
         NewIs(t, doing)
  PROVE  /\ t \in Threads /\ t # NoThread /\ phase[t] = "none" /\ thread' = t
         /\ phase' \in [Threads -> Phases] /\ phase'[t] = doing
         /\ \A u \in Threads \ {t} : phase'[u] = phase[u]
BY SMT DEF NewIs, Unused, Phases, Threads, NoThread

LEMMA PhaseMoves ==
  ASSUME phase \in [Threads -> Phases], NEW t \in Threads, NEW doing \in Phases,
         phase' = [phase EXCEPT ![t] = doing]
  PROVE  /\ phase' \in [Threads -> Phases] /\ phase'[t] = doing
         /\ \A u \in Threads \ {t} : phase'[u] = phase[u]
BY SMT

LEMMA Advance ==
  ASSUME CoreOK, EventsKept,
         Shape
  PROVE  phase' \in [Threads -> Phases] /\ PhasesAdvance
<1>p. phase \in [Threads -> Phases]
  BY Zenon DEF CoreOK
<1>a. \A what : {"ended", "deleted"} \subseteq After(what)
             /\ After(what) \cap {"none", "created", "extracting", "writing"} = {}
             /\ ("blocked" \in After(what) => "syncing" \in After(what))
  BY SMT DEF After, EndEvents
<1>f. {"extracting", "syncing", "deleted"} \subseteq Phases
  BY SMT DEF Phases
<1>u. UNCHANGED phase => phase' \in [Threads -> Phases] /\ PhasesAdvance
  BY <1>p, Zenon DEF PhasesAdvance
<1>c. Created => phase' \in [Threads -> Phases] /\ PhasesAdvance
  <2> SUFFICES ASSUME NEW t \in Unused, NEW doing \in {"writing", "created"}, NewIs(t, doing)
               PROVE  phase' \in [Threads -> Phases] /\ PhasesAdvance
    BY <1>u, Zenon DEF Created
  <2>1. /\ t \in Threads /\ phase[t] = "none"
        /\ phase' \in [Threads -> Phases] /\ phase'[t] = doing
        /\ \A u \in Threads \ {t} : phase'[u] = phase[u]
    BY <1>p, NewThreadIs
  <2>2. doing # "none" /\ \A what : "none" \notin After(what)
    BY <1>a, SMT
  <2> QED
    BY <2>1, <2>2, Zenon DEF PhasesAdvance
<1>1. CASE Quiet \/ Takes \/ Forgets \/ Collects \/ Formatted
  BY <1>1, <1>u, Zenon DEF Quiet, Takes, Forgets, Collects, Formatted
<1>2. CASE Continues \/ Starts
  BY <1>2, <1>c, <1>u, Zenon DEF Continues, Starts
<1>3. CASE \E t \in Threads : Returns(t)
  <2>1. PICK t \in Threads : phase' = [phase EXCEPT ![t] = "ended"]
    BY <1>3, Zenon DEF Returns
  <2>2. "ended" \in Phases /\ "ended" # "none"
    BY SMT DEF Phases
  <2>3. /\ phase' \in [Threads -> Phases] /\ phase'[t] = "ended"
        /\ \A u \in Threads \ {t} : phase'[u] = phase[u]
    BY <1>p, <2>1, <2>2, PhaseMoves
  <2> QED
    BY <1>a, <2>2, <2>3, Zenon DEF PhasesAdvance
<1>4. CASE \E t \in Threads, doing \in Phases, what \in Whats : Works(t, doing, what)
  <2>1. PICK t \in Threads, doing \in Phases, what \in Whats : Works(t, doing, what)
    BY <1>4, Zenon
  <2>2. /\ phase' = [phase EXCEPT ![t] = doing] /\ doing \in After(what)
        /\ \A w \in Whats : phase[t] \in After(w) => doing \in After(w)
    BY <2>1, Zenon DEF Works
  <2>3. /\ phase' \in [Threads -> Phases] /\ phase'[t] = doing
        /\ \A u \in Threads \ {t} : phase'[u] = phase[u]
    BY <1>p, <2>2, PhaseMoves
  <2>4. doing # "none"
    BY <1>a, <2>2, SMT
  <2> QED
    BY <2>2, <2>3, <2>4, Zenon DEF PhasesAdvance
<1>5. CASE Launches
  <2>1. phase' = [t \in Threads |-> IF phase[t] = "created" THEN "extracting" ELSE phase[t]]
    BY <1>5, Zenon DEF Launches, StartCreated
  <2>2. /\ phase' \in [Threads -> Phases]
        /\ \A t \in Threads : phase'[t] = phase[t]
            \/ (phase[t] = "created" /\ phase'[t] = "extracting")
    <3>1. \A t \in Threads : phase'[t] = phase[t]
              \/ (phase[t] = "created" /\ phase'[t] = "extracting")
      BY <1>p, <2>1, SMT
    <3>2. phase' = [u \in Threads |-> phase'[u]]
      BY <1>p, <2>1, SMT
    <3>3. \A u \in Threads : phase'[u] \in Phases
      BY <1>p, <1>f, <3>1, SMT
    <3> QED
      BY <3>1, <3>2, <3>3, SMT
  <2>3. "extracting" # "none" /\ \A what : "created" \notin After(what)
    BY <1>a, SMT
  <2> QED
    BY <2>2, <2>3, Zenon DEF PhasesAdvance
<1>6. CASE Unblocks
  <2> DEFINE t == Head(queue).from
  <2>1. phase' = [phase EXCEPT ![t] = IF @ = "blocked" THEN "syncing" ELSE @]
    BY <1>6, Zenon DEF Unblocks
  <2>2. /\ phase' \in [Threads -> Phases]
        /\ \A u \in Threads : phase'[u] = phase[u]
            \/ (phase[u] = "blocked" /\ phase'[u] = "syncing")
    <3>1. \A u \in Threads : phase'[u] = phase[u] \/ (phase[u] = "blocked" /\ phase'[u] = "syncing")
      BY <1>p, <2>1, SMT
    <3>2. phase' = [u \in Threads |-> phase'[u]]
      BY <1>p, <2>1, Zenon
    <3>3. \A u \in Threads : phase'[u] \in Phases
      BY <1>p, <1>f, <3>1, SMT
    <3> QED
      BY <3>1, <3>2, <3>3, SMT
  <2>3. "syncing" # "none"
    BY SMT
  <2> QED
    BY <1>a, <2>2, <2>3, Zenon DEF PhasesAdvance
<1>7. CASE Deletes
  <2>1. phase' = [phase EXCEPT ![Head(queue).from] = "deleted"]
    BY <1>7, Zenon DEF Deletes
  <2>2. /\ phase' \in [Threads -> Phases]
        /\ \A u \in Threads : phase'[u] = phase[u] \/ phase'[u] = "deleted"
    <3>1. \A u \in Threads : phase'[u] = phase[u] \/ phase'[u] = "deleted"
      BY <1>p, <2>1, SMT
    <3>2. phase' = [u \in Threads |-> phase'[u]]
      BY <1>p, <2>1, Zenon
    <3>3. \A u \in Threads : phase'[u] \in Phases
      BY <1>p, <1>f, <3>1, SMT
    <3> QED
      BY <3>1, <3>2, <3>3, SMT
  <2>3. "deleted" # "none"
    BY SMT
  <2> QED
    BY <1>a, <2>2, <2>3, Zenon DEF PhasesAdvance
<1> QED
  BY <1>1, <1>2, <1>3, <1>4, <1>5, <1>6, <1>7, Zenon DEF Shape

\* The events still in the queue stay right, if the new ones are.
LEMMA EventsStep ==
  ASSUME CoreOK, EventsKept, PhasesAdvance,
         \A e \in Posted(queue) : e \in Events,
         \A e \in Posted(queue') :
           \/ e \in Posted(queue) /\ (e.what = "delete" => e.from # thread')
           \/ /\ e \in Events
              /\ e.from = NoThread => e.what \in {"success", "error", "start"}
              /\ e.what = "delete" => e.from # thread' /\ phase'[e.from] # "none"
              /\ e.from # NoThread /\ e.what # "delete" =>
                   e.what # "start" /\ phase'[e.from] \in After(e.what)
  PROVE  EventsKept'
<1> SUFFICES ASSUME NEW e \in Posted(queue')
             PROVE  /\ e.from = NoThread => e.what \in {"success", "error", "start"}
                    /\ e.what = "delete" => e.from # thread' /\ phase'[e.from] # "none"
                    /\ e.from # NoThread /\ e.what # "delete" =>
                         e.what # "start" /\ phase'[e.from] \in After(e.what)
  BY Zenon DEF EventsKept, After
<1>1. CASE e \in Posted(queue) /\ (e.what = "delete" => e.from # thread')
  <2>1. e.from \in Threads \cup {NoThread} /\ e.what \in Whats
    BY <1>1, SMT DEF Events
  <2>2. e.what = "delete" => e.from \in Threads
    <3>1. "delete" \notin {"success", "error", "start"}
      BY SMT
    <3> QED
      BY <1>1, <2>1, <3>1, Zenon DEF EventsKept
  <2>3. e.from # NoThread => e.from \in Threads
    BY <2>1, Zenon
  <2> QED
    BY <1>1, <2>1, <2>2, <2>3, Zenon DEF EventsKept, PhasesAdvance
<1> QED
  BY <1>1, Zenon

LEMMA PostedIn == ASSUME NEW S, NEW q \in Seq(S) PROVE \A e \in Posted(q) : e \in S
BY SMT DEF Posted

\* No event of a thread that was not created is in the queue.
LEMMA UnusedSilent ==
  ASSUME CoreOK, EventsKept, NEW t \in Unused, NEW e \in Posted(queue)
  PROVE  e.from # t
<1>1. t # NoThread /\ phase[t] = "none" /\ \A what : "none" \notin After(what)
  BY SMT DEF Unused, After, EndEvents, Threads, NoThread
<1> QED
  BY <1>1, Zenon DEF EventsKept

LEMMA CoreStep ==
  ASSUME CoreOK, SetsOK, EventsKept,
         Shape
  PROVE  CoreOK' /\ EventsKept'
<1>p. phase' \in [Threads -> Phases] /\ PhasesAdvance /\ phase \in [Threads -> Phases]
  BY Advance, Zenon DEF CoreOK
<1>q. /\ queue \in Seq(Events) /\ thread \in Threads \cup {NoThread}
      /\ thread # NoThread => phase[thread] \notin {"none", "deleted"}
      /\ NoThread \notin Threads
      /\ \A e \in Posted(queue) : e \in Events
  BY PostedIn, SMT DEF CoreOK, ThreadOK, Threads, NoThread
<1>e. \A e \in Posted(queue) : e.what = "delete" => e.from # thread /\ e.from # NoThread
  <2>1. "delete" \notin {"success", "error", "start"}
    BY SMT
  <2> QED
    BY <2>1, Zenon DEF EventsKept
<1>n. thread' = NoThread \/ UNCHANGED thread =>
        \A e \in Posted(queue) : e.what = "delete" => e.from # thread'
  BY <1>e, Zenon
<1>t. ASSUME queue # <<>>
      PROVE  /\ Tail(queue) \in Seq(Events) /\ Head(queue) \in Posted(queue)
             /\ Posted(Tail(queue)) \subseteq Posted(queue) /\ Head(queue) \in Events
  BY <1>q, <1>t, PostedTail, Zenon
<1>s. ASSUME queue' \in Seq(Events), Posted(queue') \subseteq Posted(queue),
             thread' = NoThread \/ UNCHANGED thread
      PROVE  EventsKept'
  BY <1>p, <1>q, <1>n, <1>s, EventsStep, Zenon
<1>k. ASSUME thread' = NoThread \/ (UNCHANGED thread /\ phase'[thread] \notin {"none", "deleted"}),
             queue' \in Seq(Events)
      PROVE  CoreOK'
  BY <1>p, <1>q, <1>k, Zenon DEF CoreOK, ThreadOK, Threads, Events
<1>u. UNCHANGED <<thread, phase>> => thread' = NoThread
          \/ (UNCHANGED thread /\ phase'[thread] \notin {"none", "deleted"})
  BY <1>q, Zenon
<1>1. CASE Quiet
  BY <1>1, <1>q, <1>s, <1>k, <1>u, Zenon DEF Quiet
<1>2. CASE Takes
  BY <1>2, <1>t, <1>s, <1>k, <1>u, Zenon DEF Takes
<1>d. thread # NoThread => LET e == Event(thread, "delete") IN
                             /\ e \in Events /\ e.from = thread /\ e.what = "delete"
                             /\ phase'[thread] # "none"
  <2>1. "delete" \in Whats
    BY SMT DEF Whats
  <2> QED
    BY <1>p, <1>q, <2>1, EventIs, Zenon DEF PhasesAdvance
<1>f. Created => /\ ThreadOK' /\ (thread' # thread \/ thread' = NoThread)
                 /\ \A e \in Posted(queue) : e.what = "delete" => e.from # thread'
  <2>1. CASE thread' = NoThread
    BY <2>1, <1>n, Zenon DEF ThreadOK
  <2>2. CASE \E t \in Unused, doing \in {"writing", "created"} : NewIs(t, doing)
    <3>1. PICK t \in Unused, doing \in {"writing", "created"} : NewIs(t, doing)
      BY <2>2, Zenon
    <3>2. /\ t \in Threads /\ phase[t] = "none" /\ thread' = t /\ phase'[t] = doing
      BY <1>p, <3>1, NewThreadIs
    <3>3. doing \notin {"none", "deleted"}
      BY SMT
    <3>4. ThreadOK'
      BY <3>2, <3>3, Zenon DEF ThreadOK
    <3>5. thread' # thread
      BY <1>q, <3>2, Zenon
    <3>6. \A e \in Posted(queue) : e.from # t
      BY UnusedSilent, Zenon
    <3> QED
      BY <3>2, <3>4, <3>5, <3>6, Zenon
  <2> QED
    BY <2>1, <2>2, Zenon DEF Created
<1>c. ASSUME ThreadOK', thread' # thread \/ thread' = NoThread, queue' \in Seq(Events),
             \A e \in Posted(queue) : e.what = "delete" => e.from # thread',
             \A e \in Posted(queue') :
               e \in Posted(queue) \/ (e = Event(thread, "delete") /\ thread # NoThread)
      PROVE  CoreOK' /\ EventsKept'
  <2>1. EventsKept'
    <3>1. ASSUME NEW e \in Posted(queue'), e = Event(thread, "delete"), thread # NoThread
          PROVE  /\ e \in Events
                 /\ e.from = NoThread => e.what \in {"success", "error", "start"}
                 /\ e.what = "delete" => e.from # thread' /\ phase'[e.from] # "none"
                 /\ e.from # NoThread /\ e.what # "delete" =>
                      e.what # "start" /\ phase'[e.from] \in After(e.what)
      BY <1>c, <1>d, <3>1, Zenon
    <3> QED
      BY <1>p, <1>q, <1>c, <3>1, EventsStep, Zenon
  <2> QED
    BY <1>p, <1>c, <2>1, Zenon DEF CoreOK, Events, Phases
<1>g. ASSUME thread' = NoThread PROVE ThreadOK' /\ \A e \in Posted(queue) : e.what = "delete"
                 => e.from # thread'
  BY <1>g, <1>n, Zenon DEF ThreadOK
<1>x. ASSUME CoreOK, NEW q \in Seq(Events), Posted(q) \subseteq Posted(queue), queue' = Discard(q)
      PROVE  /\ queue' \in Seq(Events)
             /\ \A e \in Posted(queue') :
                  e \in Posted(queue) \/ (e = Event(thread, "delete") /\ thread # NoThread)
  BY <1>x, PostedDiscard, Zenon
<1>3. CASE Continues
  <2>1. Created /\ queue' = queue
    BY <1>3, Zenon DEF Continues
  <2>2. queue' \in Seq(Events) /\ \A e \in Posted(queue') :
          e \in Posted(queue) \/ (e = Event(thread, "delete") /\ thread # NoThread)
    BY <1>q, <2>1, Zenon
  <2>3. /\ ThreadOK' /\ (thread' # thread \/ thread' = NoThread)
        /\ \A e \in Posted(queue) : e.what = "delete" => e.from # thread'
    BY <1>f, <2>1, Zenon
  <2> QED
    BY <1>c, <2>2, <2>3, Zenon
<1>4. CASE Starts
  <2>1. queue' = Discard(queue) /\ (Created \/ thread' = NoThread)
    BY <1>4, Zenon DEF Starts
  <2> QED
    BY <2>1, <1>q, <1>f, <1>g, <1>x, <1>c, Zenon
<1>5. CASE Forgets
  BY <1>5, <1>t, <1>g, <1>x, <1>c, Zenon DEF Forgets
<1>h. ASSUME UNCHANGED thread \/ thread' = NoThread, ThreadOK', NEW e \in Events,
             queue' \in Seq(Events), Posted(queue') \subseteq Posted(queue) \cup {e},
             /\ e.from = NoThread => e.what \in {"success", "error", "start"}
             /\ e.what = "delete" => e.from # thread' /\ phase'[e.from] # "none"
             /\ e.from # NoThread /\ e.what # "delete" =>
                  e.what # "start" /\ phase'[e.from] \in After(e.what)
      PROVE  CoreOK' /\ EventsKept'
  <2>1. EventsKept'
    BY <1>p, <1>q, <1>n, <1>h, EventsStep, Zenon
  <2> QED
    BY <1>p, <1>h, <2>1, Zenon DEF CoreOK, Events, Phases
<1>6. CASE Formatted
  <2>1. PICK what \in {"success", "start", "error"} : queue' = Append(queue, Event(NoThread, what))
    BY <1>6, Zenon DEF Formatted
  <2>2. what \in Whats /\ what # "delete" /\ what \in {"success", "error", "start"}
    BY SMT DEF Whats
  <2>3. /\ Event(NoThread, what) \in Events /\ Event(NoThread, what).from = NoThread
        /\ Event(NoThread, what).what = what
    BY <2>2, EventIs, Zenon
  <2>4. queue' \in Seq(Events) /\ Posted(queue') = Posted(queue) \cup {Event(NoThread, what)}
    BY <1>q, <2>1, <2>3, PostedAppend, ZenonT(60)
  <2>5. UNCHANGED <<thread, phase>>
    BY <1>6, Zenon DEF Formatted
  <2>6. ThreadOK'
    BY <2>5, Zenon DEF CoreOK, ThreadOK
  <2> QED
    BY <1>h, <2>2, <2>3, <2>4, <2>5, <2>6, Zenon
<1>b. ASSUME NEW t \in Threads, phase[t] \notin {"none", "deleted"}, thread' = thread, ThreadOK',
             phase'[t] \in {"ended", "deleted"}, NEW q \in Seq(Events),
                 Posted(q) \subseteq Posted(queue),
             queue' = q \o FinishedEvents(t)
      PROVE  CoreOK' /\ EventsKept'
  <2>1. /\ queue' \in Seq(Events)
        /\ Posted(queue') = Posted(q) \cup Posted(FinishedEvents(t))
        /\ \A e \in Posted(FinishedEvents(t)) : e.from = t /\ e.what \in EndEvents /\ e \in Events
    BY <1>b, PostedFinished, PostedConcat, PostedIn, Zenon
  <2>2. /\ \A what \in EndEvents : After(what) = {"ended", "deleted"}
            /\ what \notin {"start", "delete"}
        /\ t # NoThread
    BY SMT DEF After, EndEvents, Threads, NoThread
  <2>3. EventsKept'
    BY <1>p, <1>q, <1>n, <1>b, <2>1, <2>2, EventsStep, ZenonT(60)
  <2> QED
    BY <1>p, <1>b, <2>1, <2>3, Zenon DEF CoreOK, Events, Phases
<1>v. ASSUME UNCHANGED thread, thread # NoThread => phase'[thread] \notin {"none", "deleted"}
      PROVE  ThreadOK'
  BY <1>q, <1>v, Zenon DEF ThreadOK
<1>w. ASSUME UNCHANGED thread, PhasesAdvance, thread # NoThread => phase'[thread] # "deleted"
      PROVE  ThreadOK'
  BY <1>q, <1>v, <1>w, Zenon DEF PhasesAdvance
<1>7. CASE \E t \in Threads : Returns(t)
  <2>1. PICK t \in Threads : Returns(t)
    BY <1>7, Zenon
  <2>2. /\ phase[t] \notin {"none", "deleted"} /\ UNCHANGED thread
        /\ phase' = [phase EXCEPT ![t] = "ended"] /\ queue' = queue \o FinishedEvents(t)
    BY <2>1, SMT DEF Returns, Still
  <2>3. "ended" \in Phases /\ "ended" # "deleted"
    BY SMT DEF Phases
  <2>4. phase'[t] = "ended" /\ \A u \in Threads \ {t} : phase'[u] = phase[u]
    BY <1>p, <2>2, <2>3, PhaseMoves, Zenon
  <2>5. ThreadOK'
    BY <1>p, <1>q, <1>w, <2>2, <2>3, <2>4, Zenon
  <2> QED
    BY <1>q, <1>b, <2>2, <2>4, <2>5, Zenon
<1>8. CASE \E t \in Threads, doing \in Phases, what \in Whats : Works(t, doing, what)
  <2>1. PICK t \in Threads, doing \in Phases, what \in Whats : Works(t, doing, what)
    BY <1>8, Zenon
  <2>2. /\ phase[t] \notin Still /\ UNCHANGED thread /\ doing \in After(what)
        /\ phase' = [phase EXCEPT ![t] = doing]
        /\ queue' = queue \/ queue' = Append(queue, Event(t, what))
    BY <2>1, Zenon DEF Works
  <2>3. what \notin {"delete", "start"} /\ doing # "deleted"
    BY <2>1, SMT DEF Works, Still
  <2>4. phase'[t] = doing /\ \A u \in Threads \ {t} : phase'[u] = phase[u]
    BY <1>p, <2>2, PhaseMoves, Zenon
  <2>5. ThreadOK'
    BY <1>p, <1>q, <1>w, <2>2, <2>3, <2>4, Zenon
  <2>6. CASE queue' = queue
    BY <1>p, <1>q, <1>s, <2>2, <2>5, <2>6, Zenon DEF CoreOK, Events, Phases
  <2>7. CASE queue' = Append(queue, Event(t, what))
    <3>1. /\ Event(t, what) \in Events /\ Event(t, what).from = t /\ Event(t, what).what = what
      BY EventIs, Zenon
    <3>2. queue' \in Seq(Events) /\ Posted(queue') = Posted(queue) \cup {Event(t, what)}
      BY <1>q, <2>7, <3>1, PostedAppend, ZenonT(60)
    <3> QED
      BY <1>q, <1>h, <2>2, <2>3, <2>4, <2>5, <3>1, <3>2, ZenonT(60)
  <2> QED
    BY <2>2, <2>6, <2>7, Zenon
<1>9. CASE Collects
  <2> DEFINE t == Head(queue).from
  <2>1. /\ queue' = Append(Tail(queue), Event(t, "delete")) /\ Head(queue).what = "onCancelled"
        /\ thread' = IF thread = t THEN NoThread ELSE thread
        /\ UNCHANGED phase /\ queue # <<>>
    BY <1>9, Zenon DEF Collects
  <2>2. /\ "onCancelled" \notin {"success", "error", "start"} /\ "delete" \in Whats
        /\ \A what : "none" \notin After(what) /\ "onCancelled" # "delete"
    BY SMT DEF Whats, After, EndEvents
  <2>3. /\ t # NoThread /\ t \in Threads /\ phase[t] # "none"
    BY <1>t, <2>1, <2>2, Zenon DEF EventsKept, Events
  <2>4. Event(t, "delete") \in Events /\ Event(t, "delete").from = t
            /\ Event(t, "delete").what = "delete"
    BY <2>2, <2>3, EventIs, Zenon
  <2>5. queue' \in Seq(Events) /\ Posted(queue') \subseteq Posted(queue) \cup {Event(t, "delete")}
    <3>1. /\ queue' \in Seq(Events)
          /\ Posted(queue') = Posted(Tail(queue)) \cup {Event(t, "delete")}
      <4>1. Tail(queue) \in Seq(Events) /\ queue' = Append(Tail(queue), Event(t, "delete"))
        BY <1>t, <2>1, Zenon
      <4> QED
        BY <2>4, <4>1, PostedAppend, ZenonT(60)
    <3> QED
      BY <1>t, <2>1, <3>1, Zenon
  <2>6. thread' # t /\ (thread' = NoThread \/ UNCHANGED thread)
    BY <2>1, <2>3, Zenon
  <2>7. ThreadOK'
    BY <1>g, <1>q, <1>v, <2>1, <2>6, Zenon
  <2> QED
    BY <1>h, <2>1, <2>3, <2>4, <2>5, <2>6, <2>7, Zenon
<1>10. CASE Launches
  <2>1. /\ phase' = [t \in Threads |-> IF phase[t] = "created" THEN "extracting" ELSE phase[t]]
        /\ UNCHANGED thread /\ queue # <<>> /\ queue' = Tail(queue)
    BY <1>10, Zenon DEF Launches, StartCreated
  <2>2. thread # NoThread => phase'[thread] # "deleted"
    BY <1>q, <2>1, SMT
  <2>3. ThreadOK'
    BY <1>p, <1>w, <2>1, <2>2, Zenon
  <2> QED
    BY <1>p, <1>t, <1>s, <2>1, <2>3, Zenon DEF CoreOK, Events, Phases
<1>11. CASE Unblocks
  <2>1. /\ phase' = [phase EXCEPT ![Head(queue).from] = IF @ = "blocked" THEN "syncing" ELSE @]
        /\ UNCHANGED thread /\ queue # <<>> /\ queue' = Tail(queue)
    BY <1>11, Zenon DEF Unblocks
  <2>2. thread # NoThread => phase'[thread] # "deleted"
    BY <1>p, <1>q, <2>1, SMT
  <2>3. ThreadOK'
    BY <1>p, <1>w, <2>1, <2>2, Zenon
  <2> QED
    BY <1>p, <1>t, <1>s, <2>1, <2>3, Zenon DEF CoreOK, Events, Phases
<1>12. CASE Deletes
  <2> DEFINE t == Head(queue).from
  <2>1. /\ phase' = [phase EXCEPT ![t] = "deleted"] /\ queue # <<>> /\ Head(queue).what = "delete"
        /\ UNCHANGED thread
    BY <1>12, Zenon DEF Deletes
  <2>2. "deleted" \in Phases
    BY SMT DEF Phases
  <2>3. t \in Threads /\ t # thread
    BY <1>e, <1>t, <2>1, Zenon DEF Events
  <2>4. phase'[t] = "deleted" /\ \A u \in Threads \ {t} : phase'[u] = phase[u]
    BY <1>p, <2>1, <2>2, <2>3, PhaseMoves, Zenon
  <2>5. ThreadOK'
    BY <1>q, <1>v, <2>1, <2>3, <2>4, Zenon
  <2>6. CASE queue' = Tail(queue)
    BY <1>p, <1>t, <1>s, <2>1, <2>5, <2>6, Zenon DEF CoreOK, Events, Phases
  <2>7. CASE Running(t) /\ queue' = Tail(queue) \o FinishedEvents(t)
    <3>1. phase[t] \notin {"none", "deleted"}
      BY <2>7, SMT DEF Running, Still
    <3> QED
      BY <1>b, <1>t, <2>1, <2>3, <2>4, <2>5, <2>7, <3>1, Zenon
  <2> QED
    BY <1>12, <2>6, <2>7, Zenon DEF Deletes
<1> QED
  BY <1>1, <1>2, <1>3, <1>4, <1>5, <1>6, <1>7, <1>8, <1>9, <1>10, <1>11, <1>12, Zenon DEF Shape


LEMMA FlagsStep ==
  ASSUME FlagsOK, [Next]_vars
  PROVE  FlagsOK'
<1> USE DEF FlagsOK, envVars
<1>b. \A x, y : x \in BOOLEAN => (x /\ y) \in BOOLEAN
  BY Zenon
<1>1. CASE UserStarts
  BY <1>1, Zenon DEF UserStarts, StartWrite
<1>2. CASE UserChoosesDevice
  BY <1>2, Zenon DEF UserChoosesDevice
<1>3. CASE UserCancels
  BY <1>3, Zenon DEF UserCancels, CancelWrite
<1>4. CASE DeviceRemoved
  BY <1>4, Zenon DEF DeviceRemoved, CancelWrite
<1>5. CASE HardTimeout
  BY <1>5, Zenon DEF HardTimeout
<1>6. CASE RestartNeeded
  BY <1>6, Zenon DEF RestartNeeded
<1>7. CASE CacheVerified
  BY <1>7, Zenon DEF CacheVerified
<1>8. CASE FormatEnds
  BY <1>8, Zenon DEF FormatEnds
<1>9. CASE \E t \in Threads : ThreadStep(t)
  BY <1>9, Zenon DEF ThreadStep
<1>10. CASE HandleSignal(Head(queue))
  BY <1>10, <1>b, Zenon DEF HandleSignal
<1>11. CASE HandleFinished(Head(queue))
  BY <1>11, <1>b, Zenon DEF HandleFinished
<1>12. CASE HandleOnCancelled(Head(queue))
  BY <1>12, <1>b, Zenon DEF HandleOnCancelled
<1>13. CASE HandleRestart(Head(queue))
  BY <1>13, <1>b, Zenon DEF HandleRestart
<1>14. CASE HandleStart(Head(queue))
  BY <1>14, <1>b, Zenon DEF HandleStart
<1>15. CASE HandleFinalSync(Head(queue))
  BY <1>15, <1>b, Zenon DEF HandleFinalSync
<1>16. CASE HandleDelete(Head(queue))
  BY <1>16, <1>b, Zenon DEF HandleDelete
<1>17. CASE UNCHANGED sessions
  BY <1>17, Zenon DEF sessions
<1> QED
  BY <1>1, <1>2, <1>3, <1>4, <1>5, <1>6, <1>7, <1>8, <1>9, <1>10, <1>11, <1>12, <1>13, <1>14,
     <1>15, <1>16, <1>17, NextCases, Zenon

LEMMA StateIs ==
  ASSUME StateOK, NEW state \in Active \cup Stopped, SetWriteState(state)
  PROVE  writeState' \in Active \cup Stopped /\ polling' \in {"normal", "paused", "slow"}
BY Zenon DEF StateOK, SetWriteState, Polling

LEMMA StateStep ==
  ASSUME StateOK, [Next]_vars
  PROVE  StateOK'
<1> DEFINE Verdicts == {"none", "success", "error", "cancelled", "removed"}
<1> USE DEF envVars
<1>s. situation' \in Situations
  BY NextCases, Zenon DEF StateOK
<1>a. /\ {"Idle", "Failed", "Writing", "Preparing", "Cancelling", "Cancelled", "Verifying",
          "Finalizing", "Succeeded"} \subseteq Active \cup Stopped
      /\ {"none", "success", "error", "cancelled", "removed"} = Verdicts
      /\ {"drive", "files", "off"} \subseteq {"off", "drive", "files"}
  BY SMT DEF Active, Stopped
<1>k. UNCHANGED <<writeState, polling>> => writeState' \in Active \cup Stopped
          /\ polling' \in {"normal", "paused", "slow"}
  BY Zenon DEF StateOK
<1>v. UNCHANGED shown => shown' \in Verdicts
  BY Zenon DEF StateOK
<1>f. UNCHANGED format => format' \in {"off", "drive", "files"}
  BY Zenon DEF StateOK
<1>g. ASSUME writeState' \in Active \cup Stopped /\ polling' \in {"normal", "paused", "slow"},
                 shown' \in Verdicts,
             format' \in {"off", "drive", "files"}
      PROVE  StateOK'
  BY <1>s, <1>g, Zenon DEF StateOK
<1>c. CreateThread => /\ writeState' \in Active \cup Stopped
                          /\ polling' \in {"normal", "paused", "slow"}
                      /\ shown' \in Verdicts /\ format' \in {"off", "drive", "files"}
  BY <1>a, <1>f, StateIs, Zenon DEF CreateThread
<1>w. CancelWrite => /\ writeState' \in Active \cup Stopped
                         /\ polling' \in {"normal", "paused", "slow"}
                     /\ shown' \in Verdicts /\ format' \in {"off", "drive", "files"}
  BY <1>a, <1>c, <1>f, <1>v, StateIs, Zenon DEF CancelWrite
<1>e. OnError => /\ writeState' \in Active \cup Stopped /\ polling' \in {"normal", "paused", "slow"}
                 /\ shown' \in Verdicts
  BY <1>a, <1>k, <1>v, StateIs, Zenon DEF OnError, Ignored
<1>o. OnSuccess => /\ writeState' \in Active \cup Stopped
                       /\ polling' \in {"normal", "paused", "slow"}
                   /\ shown' \in Verdicts
  BY <1>a, <1>k, <1>v, StateIs, Zenon DEF OnSuccess, Ignored
<1> HIDE DEF Verdicts
<1>1. CASE UserStarts
  BY <1>1, <1>a, <1>c, <1>f, <1>g, StateIs, Zenon DEF UserStarts, StartWrite
<1>2. CASE UserChoosesDevice
  BY <1>2, <1>a, <1>f, <1>g, StateIs, Zenon DEF UserChoosesDevice
<1>3. CASE UserCancels
  BY <1>3, <1>w, <1>g, Zenon DEF UserCancels
<1>4. CASE DeviceRemoved
  BY <1>4, <1>w, <1>k, <1>v, <1>f, <1>g, Zenon DEF DeviceRemoved
<1>5. CASE HardTimeout
  BY <1>5, <1>e, <1>f, <1>g, Zenon DEF HardTimeout
<1>6. CASE RestartNeeded
  BY <1>6, <1>k, <1>v, <1>f, <1>g, Zenon DEF RestartNeeded
<1>7. CASE CacheVerified
  BY <1>7, <1>c, <1>g, Zenon DEF CacheVerified
<1>8. CASE FormatEnds
  BY <1>8, <1>a, <1>k, <1>v, <1>f, <1>g, Zenon DEF FormatEnds
<1>9. CASE \E t \in Threads : ThreadStep(t)
  BY <1>9, <1>k, <1>v, <1>f, <1>g, Zenon DEF ThreadStep
<1>10. CASE HandleSignal(Head(queue))
  BY <1>10, <1>a, <1>e, <1>o, <1>f, <1>k, <1>v, <1>g, StateIs, Zenon DEF HandleSignal, Ignored
<1>11. CASE HandleFinished(Head(queue))
  BY <1>11, <1>k, <1>v, <1>f, <1>g, Zenon DEF HandleFinished
<1>12. CASE HandleOnCancelled(Head(queue))
  BY <1>12, <1>a, <1>f, <1>g, StateIs, Zenon DEF HandleOnCancelled
<1>13. CASE HandleRestart(Head(queue))
  BY <1>13, <1>k, <1>v, <1>f, <1>g, Zenon DEF HandleRestart
<1>14. CASE HandleStart(Head(queue))
  BY <1>14, <1>k, <1>v, <1>f, <1>g, Zenon DEF HandleStart
<1>15. CASE HandleFinalSync(Head(queue))
  BY <1>15, <1>k, <1>v, <1>f, <1>g, Zenon DEF HandleFinalSync
<1>16. CASE HandleDelete(Head(queue))
  BY <1>16, <1>k, <1>v, <1>f, <1>g, Zenon DEF HandleDelete
<1>17. CASE UNCHANGED sessions
  BY <1>17, <1>k, <1>v, <1>f, <1>g, Zenon DEF sessions
<1> QED
  BY <1>1, <1>2, <1>3, <1>4, <1>5, <1>6, <1>7, <1>8, <1>9, <1>10, <1>11, <1>12, <1>13, <1>14,
     <1>15, <1>16, <1>17, NextCases, Zenon


\* A cancelled thread stays cancelled, and a thread ejects once its write is complete.
SetsGrow ==
  /\ cancelled \subseteq cancelled' /\ completed \subseteq completed'
      /\ completed' \subseteq Threads
  /\ \A t \in cancelled' \ cancelled : t \in Threads /\ phase[t] # "none"
  /\ \A t \in Threads : phase'[t] = "ejecting" => phase[t] = "ejecting"
      \/ t \in completed' \cup cancelled'

LEMMA SetsGrowStep ==
  ASSUME CoreOK, SetsOK, EventsKept,
         Shape
  PROVE  SetsGrow
<1>p. phase \in [Threads -> Phases]
  BY Zenon DEF CoreOK
<1>q. /\ queue \in Seq(Events) /\ thread \in Threads \cup {NoThread}
      /\ thread # NoThread => phase[thread] # "none"
      /\ \A e \in Posted(queue) : e \in Events
  BY PostedIn, SMT DEF CoreOK, ThreadOK
<1>e. \A e \in Posted(queue) : e.what = "delete" => e.from \in Threads /\ phase[e.from] # "none"
  <2>1. "delete" \notin {"success", "error", "start"}
    BY SMT
  <2> QED
    BY <1>q, <2>1, Zenon DEF EventsKept, Events
<1>m. completed \subseteq Threads
  BY Zenon DEF SetsOK
<1>u. ASSUME UNCHANGED completed, cancelled \subseteq cancelled',
             \A t \in cancelled' \ cancelled : t \in Threads /\ phase[t] # "none",
             \A t \in Threads : phase'[t] = "ejecting" => phase[t] = "ejecting"
      PROVE  SetsGrow
  BY <1>m, <1>u, Zenon DEF SetsGrow
<1>t. CancelsAtMost({thread} \ {NoThread}) =>
        /\ cancelled \subseteq cancelled'
        /\ \A t \in cancelled' \ cancelled : t \in Threads /\ phase[t] # "none"
  BY <1>q, Zenon DEF CancelsAtMost
<1>c. Created => \A t \in Threads : phase'[t] = "ejecting" => phase[t] = "ejecting"
  <2> SUFFICES ASSUME NEW t \in Unused, NEW doing \in {"writing", "created"}, NewIs(t, doing)
               PROVE  \A u \in Threads : phase'[u] = "ejecting" => phase[u] = "ejecting"
    BY Zenon DEF Created
  <2>1. phase'[t] = doing /\ \A u \in Threads \ {t} : phase'[u] = phase[u]
    BY <1>p, NewThreadIs
  <2>2. doing # "ejecting"
    BY SMT
  <2> QED
    BY <2>1, <2>2, Zenon
<1>1. CASE Quiet \/ Takes
  BY <1>1, <1>u, <1>t, Zenon DEF Quiet, Takes
<1>2. CASE Forgets \/ Collects \/ Formatted
  BY <1>2, <1>u, Zenon DEF Forgets, Collects, Formatted
<1>3. CASE Continues \/ Starts
  BY <1>3, <1>u, <1>c, Zenon DEF Continues, Starts
<1>4. CASE \E t \in Threads : Returns(t)
  <2>1. PICK t \in Threads : Returns(t)
    BY <1>4, Zenon
  <2>2. phase' = [phase EXCEPT ![t] = "ended"] /\ UNCHANGED <<completed, cancelled>>
    BY <2>1, Zenon DEF Returns
  <2>3. \A u \in Threads : phase'[u] = "ejecting" => phase[u] = "ejecting"
    BY <1>p, <2>2, SMT
  <2> QED
    BY <1>u, <2>2, <2>3, Zenon
<1>5. CASE \E t \in Threads, doing \in Phases, what \in Whats : Works(t, doing, what)
  <2>1. PICK t \in Threads, doing \in Phases, what \in Whats : Works(t, doing, what)
    BY <1>5, Zenon
  <2>2. /\ phase' = [phase EXCEPT ![t] = doing] /\ CancelsAtMost({t})
        /\ completed' \in {completed, completed \cup ({t} \ cancelled)}
        /\ doing = "ejecting" => completed' = completed \cup ({t} \ cancelled)
    BY <2>1, Zenon DEF Works
  <2>3. phase[t] # "none"
    BY <2>1, SMT DEF Works, Still
  <2>4. phase'[t] = doing /\ \A u \in Threads \ {t} : phase'[u] = phase[u]
    BY <1>p, <2>2, PhaseMoves, Zenon
  <2> QED
    BY <1>m, <2>2, <2>3, <2>4, Zenon DEF SetsGrow, CancelsAtMost
<1>6. CASE Launches
  <2>1. \A u \in Threads : phase'[u] = "ejecting" => phase[u] = "ejecting"
    BY <1>p, <1>6, SMT DEF Launches, StartCreated
  <2> QED
    BY <1>6, <1>u, <2>1, Zenon DEF Launches
<1>7. CASE Unblocks
  <2>1. \A u \in Threads : phase'[u] = "ejecting" => phase[u] = "ejecting"
    BY <1>p, <1>7, SMT DEF Unblocks
  <2> QED
    BY <1>7, <1>u, <2>1, Zenon DEF Unblocks
<1>8. CASE Deletes
  <2>1. \A u \in Threads : phase'[u] = "ejecting" => phase[u] = "ejecting"
    BY <1>p, <1>8, SMT DEF Deletes
  <2>2. Head(queue) \in Posted(queue)
    BY <1>8, <1>q, PostedTail, Zenon DEF Deletes
  <2> QED
    BY <1>8, <1>e, <1>u, <2>1, <2>2, Zenon DEF Deletes
<1> QED
  BY <1>1, <1>2, <1>3, <1>4, <1>5, <1>6, <1>7, <1>8, Zenon DEF Shape

LEMMA SetsStep ==
  ASSUME CoreOK, SetsOK, SetsGrow, [Next]_vars
  PROVE  SetsOK'
<1> USE DEF threadVars
<1>1. cancelled' \subseteq Threads /\ completed' \subseteq Threads
  BY Zenon DEF SetsOK, SetsGrow
<1>2. UNCHANGED muted \/ muted' = muted \cup ({thread} \ {NoThread})
  <2>1. (\E t \in Threads : ThreadStep(t)) => UNCHANGED muted
    BY Zenon DEF ThreadStep
  <2> QED
    BY <2>1, NextCases, Zenon DEF UserStarts, StartWrite, UserChoosesDevice, UserCancels,
       DeviceRemoved,
         HardTimeout, RestartNeeded, CacheVerified, FormatEnds, HandleSignal, HandleFinished,
         HandleOnCancelled, HandleRestart, HandleStart, HandleFinalSync, HandleDelete, sessions
<1>3. muted' \subseteq Threads
  BY <1>2, Zenon DEF SetsOK, CoreOK, ThreadOK
<1>w. CancelWrite => \/ UNCHANGED connected
                     \/ connected' = [connected EXCEPT ![thread] = Append(@, "onCancelled")]
  BY Zenon DEF CancelWrite, CancelThread
<1>4. \/ UNCHANGED connected
      \/ connected' = [connected EXCEPT ![thread] = Append(@, "onCancelled")]
      \/ connected' = [connected EXCEPT ![thread] = Append(@, "restart")]
  <2>1. (\E t \in Threads : ThreadStep(t)) => UNCHANGED connected
    BY Zenon DEF ThreadStep
  <2> QED
    BY <1>w, <2>1, NextCases, Zenon DEF UserStarts, StartWrite, UserChoosesDevice, UserCancels,
         DeviceRemoved, HardTimeout, RestartNeeded, CacheVerified, FormatEnds, HandleSignal,
         HandleFinished, HandleOnCancelled, HandleRestart, HandleStart, HandleFinalSync,
             HandleDelete,
         sessions
<1>5. connected' \in [Threads -> Seq(EndEvents)]
  <2>1. ASSUME NEW what \in EndEvents, connected' = [connected EXCEPT ![thread] = Append(@, what)]
        PROVE  connected' \in [Threads -> Seq(EndEvents)]
    <3>1. thread \in Threads => Append(connected[thread], what) \in Seq(EndEvents)
      BY <2>1, SMT DEF SetsOK
    <3>2. connected \in [Threads -> Seq(EndEvents)]
      BY Zenon DEF SetsOK
    <3> QED
      BY <2>1, <3>1, <3>2, Zenon
  <2>2. {"onCancelled", "restart"} \subseteq EndEvents
    BY SMT DEF EndEvents
  <2> QED
    BY <1>4, <2>1, <2>2, Zenon DEF SetsOK
<1> QED
  BY <1>1, <1>3, <1>5, Zenon DEF SetsOK, EndEvents

LEMMA BaseStep ==
  ASSUME Base, [Next]_vars
  PROVE  Base' /\ SetsGrow /\ PhasesAdvance
<1>1. FlagsOK /\ StateOK /\ SetsOK /\ CoreOK /\ EventsKept /\ ThreadsKept
  BY TypeParts, Zenon DEF Base
<1>2. CoreOK' /\ EventsKept' /\ PhasesAdvance /\ SetsGrow
  <2>1.Shape
    BY <1>1, Shapes
  <2> QED
    BY <1>1, <2>1, CoreStep, Advance, SetsGrowStep, Zenon
<1>3. FlagsOK' /\ StateOK' /\ SetsOK'
  BY <1>1, <1>2, FlagsStep, StateStep, SetsStep
<1>4. TypeOK'
  BY <1>2, <1>3, Zenon DEF TypeOK, FlagsOK, StateOK, SetsOK, CoreOK, ThreadOK, Phases, Events,
     Whats,
       EndEvents
<1>5. ThreadsKept'
  BY <1>1, <1>2, Zenon DEF ThreadsKept, SetsGrow, PhasesAdvance, SetsOK
<1> QED
  BY <1>2, <1>4, <1>5, Zenon DEF Base


-------------------------------------------------------------------------------
(***************************************************************************)
(* What the steps do to the queue and to the threads.                      *)
(***************************************************************************)
Dropped == {Event(thread, "delete")} \ {Event(NoThread, "delete")}
EndsOf(t) == {Event(t, what) : what \in EndEvents}

LEMMA EndsPosted ==
  ASSUME SetsOK, NEW t \in Threads
  PROVE  FinishedEvents(t) \in Seq(Events) /\ Posted(FinishedEvents(t)) \subseteq EndsOf(t)
<1>1. connected[t] \in Seq(EndEvents)
  BY Zenon DEF SetsOK
<1>2. FinishedEvents(t) = [i \in 1..Len(connected[t]) |-> Event(t, connected[t][i])]
  BY <1>1, SMT DEF FinishedEvents
<1>3. \A i \in 1..Len(connected[t]) : connected[t][i] \in EndEvents
  BY <1>1, SMT
<1>4. Len(FinishedEvents(t)) = Len(connected[t])
  BY <1>1, <1>2, PostedFinished, SMT
<1>5. \A i \in 1..Len(FinishedEvents(t)) : FinishedEvents(t)[i] \in EndsOf(t)
  BY <1>2, <1>3, <1>4, Zenon DEF EndsOf
<1> QED
  BY <1>5, PostedFinished, Zenon DEF Posted

LEMMA HeadIs ==
  ASSUME CoreOK, queue # <<>>
  PROVE  /\ Tail(queue) \in Seq(Events) /\ Head(queue) \in Events
         /\ Head(queue) \in Posted(queue) /\ Posted(queue) = {Head(queue)} \cup Posted(Tail(queue))
BY PostedTail, Zenon DEF CoreOK

LEMMA QueueSteps ==
  ASSUME CoreOK, SetsOK, EventsKept
  PROVE  /\ Starts => /\ Posted(queue') = Posted(queue) \cup Dropped
                      /\ queue # <<>> => Head(queue') = Head(queue)
         /\ Forgets => Posted(queue') = Posted(Tail(queue)) \cup Dropped
         /\ Collects => Posted(queue') = Posted(Tail(queue))
             \cup {Event(Head(queue).from, "delete")}
         /\ Deletes => /\ Posted(Tail(queue)) \subseteq Posted(queue')
                       /\ Posted(queue') \subseteq Posted(Tail(queue)) \cup EndsOf(Head(queue).from)
         /\ \A t \in Threads : Returns(t) =>
              /\ Posted(queue) \subseteq Posted(queue')
              /\ Posted(queue') \subseteq Posted(queue) \cup EndsOf(t)
              /\ queue # <<>> => Head(queue') = Head(queue)
         /\ \A t \in Threads, doing \in Phases, what \in Whats : Works(t, doing, what) =>
              /\ Posted(queue) \subseteq Posted(queue')
              /\ Posted(queue') \subseteq Posted(queue) \cup {Event(t, what)}
              /\ queue # <<>> => Head(queue') = Head(queue)
         /\ \A what \in Whats : queue' = Append(queue, Event(NoThread, what)) =>
              /\ Posted(queue') = Posted(queue) \cup {Event(NoThread, what)}
              /\ queue # <<>> => Head(queue') = Head(queue)
<1>q. queue \in Seq(Events)
  BY Zenon DEF CoreOK
<1>t. queue # <<>> => Tail(queue) \in Seq(Events) /\ Head(queue) \in Events
  BY HeadIs, Zenon
<1>1. Starts => /\ Posted(queue') = Posted(queue) \cup Dropped
                /\ queue # <<>> => Head(queue') = Head(queue)
  BY <1>q, PostedDiscard, Zenon DEF Starts, Dropped
<1>2. Forgets => Posted(queue') = Posted(Tail(queue)) \cup Dropped
  BY <1>t, PostedDiscard, Zenon DEF Forgets, Dropped
<1>3. Collects => Posted(queue') = Posted(Tail(queue)) \cup {Event(Head(queue).from, "delete")}
  <2> SUFFICES ASSUME Collects
               PROVE  Posted(queue') = Posted(Tail(queue)) \cup {Event(Head(queue).from, "delete")}
    OBVIOUS
  <2>1. "delete" \in Whats
    BY SMT DEF Whats
  <2>2. Tail(queue) \in Seq(Events) /\ Head(queue).from \in Threads \cup {NoThread}
    BY <1>t, Zenon DEF Collects, Events
  <2>3. Event(Head(queue).from, "delete") \in Events
    BY <2>1, <2>2, EventIs, Zenon
  <2>4. queue' = Append(Tail(queue), Event(Head(queue).from, "delete"))
    BY Zenon DEF Collects
  <2> QED
    BY <2>2, <2>3, <2>4, PostedAppend, ZenonT(60)
<1>4. Deletes => /\ Posted(Tail(queue)) \subseteq Posted(queue')
                 /\ Posted(queue') \subseteq Posted(Tail(queue)) \cup EndsOf(Head(queue).from)
  <2> SUFFICES ASSUME Deletes
               PROVE  /\ Posted(Tail(queue)) \subseteq Posted(queue')
                      /\ Posted(queue') \subseteq Posted(Tail(queue)) \cup EndsOf(Head(queue).from)
    OBVIOUS
  <2>1. /\ Tail(queue) \in Seq(Events) /\ Head(queue) \in Posted(queue)
        /\ Head(queue).from \in Threads \cup {NoThread} /\ Head(queue).what = "delete"
    BY <1>t, HeadIs, Zenon DEF Deletes, Events
  <2>2. "delete" \notin {"success", "error", "start"}
    BY SMT
  <2>3. Head(queue).from \in Threads
    BY <2>1, <2>2, Zenon DEF EventsKept
  <2>4. CASE queue' = Tail(queue)
    BY <2>4, Zenon
  <2>5. CASE queue' = Tail(queue) \o FinishedEvents(Head(queue).from)
    <3>1. Posted(queue') = Posted(Tail(queue)) \cup Posted(FinishedEvents(Head(queue).from))
      BY <2>1, <2>3, <2>5, EndsPosted, PostedConcat, ZenonT(60)
    <3> QED
      BY <2>3, <3>1, EndsPosted, Zenon
  <2> QED
    BY <2>4, <2>5, Zenon DEF Deletes
<1>5. ASSUME NEW t \in Threads, Returns(t)
      PROVE  /\ Posted(queue) \subseteq Posted(queue')
             /\ Posted(queue') \subseteq Posted(queue) \cup EndsOf(t)
             /\ queue # <<>> => Head(queue') = Head(queue)
  <2>1. queue' = queue \o FinishedEvents(t)
    BY <1>5, Zenon DEF Returns
  <2>2. FinishedEvents(t) \in Seq(Events) /\ Posted(FinishedEvents(t)) \subseteq EndsOf(t)
    BY EndsPosted, Zenon
  <2>3. /\ Posted(queue') = Posted(queue) \cup Posted(FinishedEvents(t))
        /\ queue # <<>> => Head(queue') = Head(queue)
    BY <1>q, <2>1, <2>2, PostedConcat, ZenonT(60)
  <2> QED
    BY <2>2, <2>3, Zenon
<1>a. ASSUME NEW t \in Threads \cup {NoThread}, NEW what \in Whats,
                 queue' = Append(queue, Event(t, what))
      PROVE  /\ Posted(queue') = Posted(queue) \cup {Event(t, what)}
             /\ queue # <<>> => Head(queue') = Head(queue)
  <2>1. Event(t, what) \in Events
    BY EventIs, Zenon
  <2> QED
    BY <1>q, <1>a, <2>1, PostedAppend
<1>6. ASSUME NEW t \in Threads, NEW doing \in Phases, NEW what \in Whats, Works(t, doing, what)
      PROVE  /\ Posted(queue) \subseteq Posted(queue')
             /\ Posted(queue') \subseteq Posted(queue) \cup {Event(t, what)}
             /\ queue # <<>> => Head(queue') = Head(queue)
  <2>1. queue' = queue \/ queue' = Append(queue, Event(t, what))
    BY <1>6, Zenon DEF Works
  <2> QED
    BY <1>a, <2>1, Zenon
<1> QED
  BY <1>1, <1>2, <1>3, <1>4, <1>5, <1>6, <1>a, Zenon

LEMMA PhaseSteps ==
  ASSUME CoreOK
  PROVE  /\ Created => \/ UNCHANGED phase /\ thread' = NoThread /\ writeState' = "Failed"
                           /\ UNCHANGED format
                       \/ /\ thread' \in Unused /\ phase'[thread'] \in {"writing", "created"}
                          /\ \A u \in Threads \ {thread'} : phase'[u] = phase[u]
                          /\ format' = IF phase'[thread'] = "created" THEN "files" ELSE format
                          /\ writeState' = "Writing"
         /\ \A t \in Threads : Returns(t) =>
              phase'[t] = "ended" /\ \A u \in Threads \ {t} : phase'[u] = phase[u]
         /\ \A t \in Threads, doing \in Phases, what \in Whats : Works(t, doing, what) =>
              phase'[t] = doing /\ \A u \in Threads \ {t} : phase'[u] = phase[u]
         /\ Launches => \A u \in Threads :
              phase'[u] = IF phase[u] = "created" THEN "extracting" ELSE phase[u]
         /\ Unblocks => \A u \in Threads :
              phase'[u] = phase[u] \/ (phase[u] = "blocked" /\ phase'[u] = "syncing")
         /\ Deletes => \A u \in Threads :
              phase'[u] = IF u = Head(queue).from THEN "deleted" ELSE phase[u]
<1>p. phase \in [Threads -> Phases]
  BY Zenon DEF CoreOK
<1>1. ASSUME Created
      PROVE  \/ UNCHANGED phase /\ thread' = NoThread /\ writeState' = "Failed" /\ UNCHANGED format
             \/ /\ thread' \in Unused /\ phase'[thread'] \in {"writing", "created"}
                /\ \A u \in Threads \ {thread'} : phase'[u] = phase[u]
                /\ format' = IF phase'[thread'] = "created" THEN "files" ELSE format
                /\ writeState' = "Writing"
  <2>1. CASE writeState' = "Writing" /\ \E t \in Unused, doing \in {"writing", "created"} :
                 NewIs(t, doing)
    <3>1. PICK t \in Unused, doing \in {"writing", "created"} : NewIs(t, doing)
      BY <2>1, Zenon
    <3>2. /\ thread' = t /\ phase'[t] = doing /\ \A u \in Threads \ {t} : phase'[u] = phase[u]
      BY <1>p, <3>1, NewThreadIs
    <3>3. format' = IF doing = "created" THEN "files" ELSE format
      BY <3>1, Zenon DEF NewIs
    <3> QED
      BY <2>1, <3>2, <3>3, Zenon
  <2> QED
    BY <1>1, <2>1, Zenon DEF Created
<1>2. ASSUME NEW t \in Threads, Returns(t)
      PROVE  phase'[t] = "ended" /\ \A u \in Threads \ {t} : phase'[u] = phase[u]
  BY <1>p, <1>2, SMT DEF Returns
<1>3. ASSUME NEW t \in Threads, NEW doing \in Phases, NEW what \in Whats, Works(t, doing, what)
      PROVE  phase'[t] = doing /\ \A u \in Threads \ {t} : phase'[u] = phase[u]
  BY <1>p, <1>3, Zenon DEF Works
<1>4. Launches => \A u \in Threads :
          phase'[u] = IF phase[u] = "created" THEN "extracting" ELSE phase[u]
  BY <1>p, Zenon DEF Launches, StartCreated
<1>5. Unblocks => \A u \in Threads : phase'[u] = phase[u]
          \/ (phase[u] = "blocked" /\ phase'[u] = "syncing")
  BY <1>p, SMT DEF Unblocks
<1>6. Deletes => \A u \in Threads : phase'[u] = IF u = Head(queue).from THEN "deleted" ELSE phase[u]
  BY <1>p, SMT DEF Deletes
<1> QED
  BY <1>1, <1>2, <1>3, <1>4, <1>5, <1>6, Zenon


-------------------------------------------------------------------------------
(***************************************************************************)
(* No thread is left alone.                                                *)
(***************************************************************************)
LEMMA LivePhases ==
  /\ \A t : Live(t) <=> phase[t] \notin {"none", "ended", "deleted"}
  /\ \A t : Live(t)' <=> phase'[t] \notin {"none", "ended", "deleted"}
BY Zenon DEF Live

LEMMA LiveStep ==
  ASSUME CoreOK, Shape
  PROVE  \A t \in Threads : Live(t)' => Live(t) \/ t = thread'
<1>u. UNCHANGED phase => \A t \in Threads : Live(t)' => Live(t)
  BY Zenon DEF Live
<1>c. Created => \A t \in Threads : Live(t)' => Live(t) \/ t = thread'
  BY <1>u, PhaseSteps, Zenon DEF Live
<1>1. CASE Quiet \/ Takes \/ Forgets \/ Collects \/ Formatted
  BY <1>1, <1>u, Zenon DEF Quiet, Takes, Forgets, Collects, Formatted
<1>2. CASE Continues \/ Starts
  BY <1>2, <1>u, <1>c, Zenon DEF Continues, Starts
<1>3. CASE \E t \in Threads : Returns(t)
  BY <1>3, PhaseSteps, Zenon DEF Live
<1>4. CASE \E t \in Threads, doing \in Phases, what \in Whats : Works(t, doing, what)
  <2>1. PICK t \in Threads, doing \in Phases, what \in Whats : Works(t, doing, what)
    BY <1>4, Zenon
  <2>2. Live(t)
    BY <2>1, SMT DEF Works, Live, Still
  <2> QED
    BY <2>1, <2>2, PhaseSteps, Zenon DEF Live
<1>5. CASE Launches
  <2>1. "created" \notin {"none", "ended", "deleted"}
    BY SMT
  <2> QED
    BY <1>5, <2>1, PhaseSteps, Zenon DEF Live
<1>6. CASE Unblocks
  <2>1. "blocked" \notin {"none", "ended", "deleted"}
    BY SMT
  <2> QED
    BY <1>6, <2>1, PhaseSteps, Zenon DEF Live
<1>7. CASE Deletes
  BY <1>7, PhaseSteps, Zenon DEF Live
<1> QED
  BY <1>1, <1>2, <1>3, <1>4, <1>5, <1>6, <1>7, Zenon DEF Shape

LEMMA OrphanStep ==
  ASSUME CoreOK, SetsOK, EventsKept, SetsGrow, Shape, OrphanKept, ~May("cacheWait")
  PROVE  OrphanKept'
<1>l. \A t \in Threads : Live(t)' => Live(t) \/ t = thread'
  BY LiveStep
<1>d. \A t \in Threads : t = thread => Event(t, "delete") \in Dropped
  BY SMT DEF Dropped, Event, Threads, NoThread
<1>w. ~waiting'
  BY Zenon DEF OrphanKept, Shape, Quiet, Continues, Starts, Formatted, Returns, Works, Takes,
     Forgets,
     Collects, Launches, Unblocks, Deletes
<1>e. \A t : Event(t, "delete").from = t /\ Event(t, "delete").what = "delete"
  BY EventIs
<1>g. ASSUME thread' = thread \/ Dropped \subseteq Posted(queue') \/ thread = NoThread,
             \A e \in Posted(queue) : e.what = "delete" => e \in Posted(queue')
                 \/ phase'[e.from] = "deleted"
      PROVE  OrphanKept'
  <2> SUFFICES ASSUME NEW t \in Threads, Live(t)', t # thread', t \notin cancelled'
               PROVE  Event(t, "delete") \in Posted(queue')
    BY <1>w, Zenon DEF OrphanKept
  <2>1. Live(t) /\ t \notin cancelled /\ t # NoThread
    BY <1>l, SMT DEF SetsGrow, Threads, NoThread
  <2>2. CASE t = thread
    BY <1>d, <1>g, <2>1, <2>2, Zenon
  <2>3. CASE Event(t, "delete") \in Posted(queue)
    BY <1>e, <1>g, <2>3, LivePhases, ZenonT(60)
  <2> QED
    BY <2>1, <2>2, <2>3, Zenon DEF OrphanKept
<1>t. queue # <<>> /\ Head(queue).what # "delete" =>
        \A e \in Posted(queue) : e.what = "delete" => e \in Posted(Tail(queue))
  BY HeadIs, Zenon
<1>1. CASE Quiet
  BY <1>1, <1>g, Zenon DEF Quiet
<1>2. CASE Continues
  BY <1>2, Zenon DEF Continues, OrphanKept
<1>3. CASE Starts
  BY <1>3, <1>g, QueueSteps, Zenon
<1>4. CASE Formatted
  <2>1. PICK what \in Whats : queue' = Append(queue, Event(NoThread, what))
    <3>1. {"success", "start", "error"} \subseteq Whats
      BY SMT DEF Whats
    <3> QED
      BY <1>4, <3>1, Zenon DEF Formatted
  <2> QED
    BY <1>4, <1>g, <2>1, QueueSteps, Zenon DEF Formatted
<1>5. CASE \E t \in Threads : Returns(t)
  <2>1. PICK t \in Threads : Returns(t)
    BY <1>5, Zenon
  <2> QED
    BY <1>g, <2>1, QueueSteps, Zenon DEF Returns
<1>6. CASE \E t \in Threads, doing \in Phases, what \in Whats : Works(t, doing, what)
  <2>1. PICK t \in Threads, doing \in Phases, what \in Whats : Works(t, doing, what)
    BY <1>6, Zenon
  <2> QED
    BY <1>g, <2>1, QueueSteps, Zenon DEF Works
<1>7. CASE Takes \/ Launches \/ Unblocks
  <2>1. queue # <<>> /\ queue' = Tail(queue) /\ thread' = thread
    BY <1>7, Zenon DEF Takes, Launches, Unblocks
  <2>2. Head(queue).what # "delete"
    BY <1>7, SMT DEF Takes, Launches, Unblocks
  <2> QED
    BY <1>g, <1>t, <2>1, <2>2, Zenon
<1>8. CASE Forgets
  <2>1. queue # <<>> /\ Head(queue).what # "delete"
    BY <1>8, SMT DEF Forgets
  <2> QED
    BY <1>8, <1>g, <1>t, <2>1, QueueSteps, Zenon
<1>9. CASE Collects
  <2>1. queue # <<>> /\ Head(queue).what # "delete"
    BY <1>9, SMT DEF Collects
  <2>2. thread' = thread \/ thread = Head(queue).from
    BY <1>9, Zenon DEF Collects
  <2>3. thread = Head(queue).from => Dropped \subseteq {Event(Head(queue).from, "delete")}
    BY Zenon DEF Dropped
  <2> QED
    BY <1>9, <1>g, <1>t, <2>1, <2>2, <2>3, QueueSteps, Zenon
<1>10. CASE Deletes
  <2>1. queue # <<>> /\ thread' = thread
    BY <1>10, Zenon DEF Deletes
  <2>2. Head(queue).what = "delete" => Head(queue).from \in Threads
    <3>1. "delete" \notin {"success", "error", "start"}
      BY SMT
    <3> QED
      BY <2>1, <3>1, HeadIs, Zenon DEF EventsKept, Events
  <2>3. Head(queue).what = "delete" => phase'[Head(queue).from] = "deleted"
    BY <1>10, <2>2, PhaseSteps, Zenon
  <2> QED
    BY <1>10, <1>g, <2>1, <2>3, HeadIs, QueueSteps, Zenon
<1> QED
  BY <1>1, <1>2, <1>3, <1>4, <1>5, <1>6, <1>7, <1>8, <1>9, <1>10, Zenon DEF Shape


-------------------------------------------------------------------------------
(***************************************************************************)
(* Results of the drive format thread.                                     *)
(***************************************************************************)
LEMMA OneResultTail ==
  ASSUME NEW q \in Seq(Events), q # <<>>, OneResult(q)
  PROVE  /\ OneResult(Tail(q))
         /\ Head(q).from = NoThread => NoResult(Tail(q))
<1>1. /\ Len(Tail(q)) = Len(q) - 1 /\ Len(q) \in Nat /\ Len(q) >= 1 /\ Head(q) = q[1]
      /\ \A i \in 1..Len(Tail(q)) : Tail(q)[i] = q[i + 1]
  BY SMT
<1>2. OneResult(Tail(q))
  BY <1>1, SMT DEF OneResult
<1>3. ASSUME Head(q).from = NoThread, NEW i \in 1..Len(Tail(q))
      PROVE  Tail(q)[i].from # NoThread
  BY <1>1, <1>3, SMT DEF OneResult
<1> QED
  BY <1>2, <1>3, Zenon DEF NoResult, Posted

LEMMA OneResultAppend ==
  ASSUME NEW q \in Seq(Events), NEW e \in Events, OneResult(q), e.from # NoThread \/ NoResult(q)
  PROVE  OneResult(Append(q, e))
<1>1. /\ Len(Append(q, e)) = Len(q) + 1 /\ Append(q, e)[Len(q) + 1] = e /\ Len(q) \in Nat
      /\ \A i \in 1..Len(q) : Append(q, e)[i] = q[i]
  BY SMT
<1>2. NoResult(q) => \A i \in 1..Len(q) : q[i].from # NoThread
  BY Zenon DEF NoResult, Posted
<1> QED
  BY <1>1, <1>2, SMT DEF OneResult

LEMMA OneResultConcat ==
  ASSUME NEW q \in Seq(Events), NEW r \in Seq(Events), OneResult(q), NoResult(r)
  PROVE  OneResult(q \o r)
<1>1. /\ Len(q \o r) = Len(q) + Len(r) /\ Len(q) \in Nat /\ Len(r) \in Nat
      /\ \A i \in 1..Len(q) : (q \o r)[i] = q[i]
      /\ \A i \in 1..Len(r) : (q \o r)[Len(q) + i] = r[i]
  BY SMT
<1>2. \A i \in 1..Len(r) : r[i].from # NoThread
  BY Zenon DEF NoResult, Posted
<1>3. \A i \in 1..Len(q \o r) : (q \o r)[i].from = NoThread => i \in 1..Len(q)
  <2> TAKE i \in 1..Len(q \o r)
  <2>1. i \in 1..Len(q) \/ (i - Len(q) \in 1..Len(r) /\ (q \o r)[i] = r[i - Len(q)])
    BY <1>1, SMT
  <2> QED
    BY <1>2, <2>1, Zenon
<1> QED
  BY <1>1, <1>3, SMT DEF OneResult

LEMMA OneResultNone ==
  ASSUME NEW q, NoResult(q) PROVE OneResult(q)
BY Zenon DEF NoResult, OneResult, Posted

LEMMA DroppedIs == \A e \in Dropped : e.from = thread /\ e.from # NoThread /\ e.what = "delete"
BY ZenonT(60), EventIs DEF Dropped

-------------------------------------------------------------------------------
(***************************************************************************)
(* A patient user.                                                         *)
(***************************************************************************)
LEMMA DeletesSomeone ==
  ASSUME EventsKept
  PROVE  \A e \in Posted(queue) : e.what = "delete" => e.from # NoThread /\ e.from # thread
<1>1. "delete" \notin {"success", "error", "start"}
  BY SMT
<1> QED
  BY <1>1, Zenon DEF EventsKept

LEMMA BusyIsLive ==
  \A t : /\ phase[t] \in Busy => Live(t) /\ phase[t] # "created"
         /\ phase[t] \notin Still => Live(t) /\ phase[t] # "created"
BY SMT DEF Busy, Live, Still

\* A running thread is the current one, and nobody waits.
LEMMA RunningIs ==
  ASSUME CurrentKept, WaitKept, NEW t \in Threads, phase[t] \notin Still
  PROVE  t = thread /\ ~waiting /\ thread # NoThread
<1>1. t # NoThread
  BY SMT DEF Threads, NoThread
<1> QED
  BY <1>1, BusyIsLive, Zenon DEF CurrentKept, WaitKept

LEMMA BusyRuns ==
  ASSUME NEW t \in Threads, phase[t] \in Busy
  PROVE  phase[t] \notin Still /\ Running(t)
BY SMT DEF Busy, Still, Running, Threads, NoThread

\* Whoever has said something is the current thread.
LEMMA HeadFacts ==
  ASSUME CoreOK, EventsKept, CurrentKept, WaitKept, FormatKept, queue # <<>>,
         Head(queue).what # "delete"
  PROVE  /\ ~waiting
         /\ \A t \in Threads : Live(t) => t = thread
         /\ Head(queue).from # NoThread => thread = NoThread \/ Head(queue).from = thread
         /\ Head(queue).what \in EndEvents => \A t \in Threads : ~Live(t)
         /\ Head(queue).what \in EndEvents \cup {"success", "error", "finalizing", "verify"} =>
              ~FilesPending /\ ~Current("extracting")
         /\ Head(queue).what = "success" => \A t \in Threads : phase[t] \notin Busy
<1> DEFINE e == Head(queue)
<1>1. e \in Posted(queue) /\ e \in Events /\ Posted(queue) = {e} \cup Posted(Tail(queue))
  BY HeadIs, Zenon
<1>2. ~waiting
  BY <1>1, Zenon DEF WaitKept
<1>3. \A t \in Threads : Live(t) => t = thread
  <2>1. \A t : Event(t, "delete").what = "delete"
    BY EventIs
  <2> QED
    BY <2>1, Zenon DEF CurrentKept
<1>4. e.from # NoThread => thread = NoThread \/ e.from = thread
  BY <1>1, Zenon DEF CurrentKept
<1>5. e.from # NoThread => phase[e.from] \in After(e.what)
  BY <1>1, Zenon DEF EventsKept
<1>6. e.from = NoThread => e.what \in {"success", "error", "start"}
  BY <1>1, Zenon DEF EventsKept
<1>w. /\ \A what \in EndEvents : After(what) = {"ended", "deleted"}
          /\ what \notin {"success", "error", "start"}
      /\ \A what \in {"success", "error", "finalizing", "verify"} :
            "created" \notin After(what) /\ "extracting" \notin After(what)
      /\ After("success") \cap Busy = {} /\ "created" \notin Busy
      /\ {"finalizing", "verify"} \cap {"success", "error", "start"} = {}
      /\ "created" \notin {"ended", "deleted"} /\ "extracting" \notin {"ended", "deleted"}
  BY SMT DEF After, EndEvents, Busy
<1>7. e.what \in EndEvents => \A t \in Threads : ~Live(t)
  <2> SUFFICES ASSUME e.what \in EndEvents, NEW t \in Threads, Live(t) PROVE FALSE
    OBVIOUS
  <2>1. t = thread /\ t # NoThread
    BY <1>3, SMT DEF Threads, NoThread
  <2>2. e.from # NoThread
    BY <1>6, <1>w, Zenon
  <2>3. phase[t] \in {"ended", "deleted"}
    BY <1>4, <1>5, <1>w, <2>1, <2>2, Zenon
  <2> QED
    BY <2>3, Zenon DEF Live
<1>8. e.what \in EndEvents \cup {"success", "error", "finalizing", "verify"} /\ e.from # NoThread =>
        ~FilesPending /\ ~Current("extracting")
  <2>1. ASSUME e.from # NoThread, e.what \in EndEvents
                   \cup {"success", "error", "finalizing", "verify"},
               Current("created") \/ Current("extracting")
        PROVE FALSE
    BY <1>4, <1>5, <1>w, <2>1, Zenon DEF Current
  <2> QED
    BY <2>1, Zenon DEF FormatKept
<1>9. e.from = NoThread /\ e.what = "success" => thread = NoThread
  <2>1. e.from = NoThread /\ e.what = "success" => e = Event(NoThread, "success")
    BY <1>1, SMT DEF Event, Events
  <2> QED
    BY <1>1, <2>1, Zenon DEF FormatKept, DrivePending
<1>10. e.from = NoThread => format = "off" /\ ~Current("extracting")
  BY <1>1, Zenon DEF FormatKept, NoResult
<1>11. e.from = NoThread /\ e.what = "error" => ~FilesPending
  <2>1. e.from = NoThread => NoResult(Tail(queue))
    BY OneResultTail, Zenon DEF CoreOK, FormatKept
  <2>2. /\ Event(NoThread, "start").from = NoThread /\ Event(NoThread, "start").what = "start"
        /\ "start" # "error" /\ "files" # "off"
    BY EventIs, SMT
  <2> QED
    BY <1>1, <1>10, <2>1, <2>2, Zenon DEF FilesPending, NoResult
<1>12. e.what \in EndEvents \cup {"success", "error", "finalizing", "verify"} =>
        ~FilesPending /\ ~Current("extracting")
  <2>1. CASE e.from # NoThread
    BY <1>8, <2>1
  <2>2. CASE e.from = NoThread /\ e.what = "success"
    BY <1>9, <2>2, Zenon DEF FormatKept, Current
  <2>3. CASE e.from = NoThread /\ e.what = "error"
    BY <1>10, <1>11, <2>3, Zenon
  <2> QED
    BY <1>6, <1>w, <2>1, <2>2, <2>3, Zenon
<1>13. e.what = "success" => \A t \in Threads : phase[t] \notin Busy
  <2> SUFFICES ASSUME e.what = "success", NEW t \in Threads, phase[t] \in Busy PROVE FALSE
    OBVIOUS
  <2>1. t = thread /\ t # NoThread
    BY <1>3, BusyIsLive, SMT DEF Threads, NoThread
  <2>2. e.from = thread
    BY <1>4, <1>9, <2>1, Zenon
  <2> QED
    BY <1>5, <1>w, <2>1, <2>2, Zenon
<1> QED
  BY <1>2, <1>3, <1>4, <1>7, <1>12, <1>13, Zenon


\* What holds before each step of a patient user's sessions.
Settled == /\ FlagsOK /\ CoreOK /\ SetsOK /\ EventsKept /\ ThreadsKept
           /\ Patient /\ CurrentKept /\ WaitKept /\ FormatKept

LEMMA StartFacts ==
  ASSUME Settled, Starts
  PROVE  /\ queue = <<>> /\ format = "off" /\ ~Running(thread) /\ ~waiting
         /\ ~FilesPending /\ ~DrivePending
         /\ Posted(queue') = Dropped /\ NoResult(queue')
<1>1. /\ queue = <<>> /\ format = "off" /\ ~Running(thread)
  BY Zenon DEF Settled, Starts, MayRetry, Patient
<1>2. Posted(queue) = {}
  BY <1>1, PostedEmpty, Zenon
<1>3. ~waiting
  <2>1. "Preparing" \in Active
    BY SMT DEF Active
  <2> QED
    BY <2>1, Zenon DEF Settled, Starts, WaitKept
<1>4. ~FilesPending /\ ~DrivePending
  <2>1. "off" # "files" /\ "off" # "drive"
    BY SMT
  <2> QED
    BY <1>1, <1>2, <2>1, Zenon DEF FilesPending, DrivePending
<1>5. Posted(queue') = Dropped
  BY <1>2, QueueSteps, Zenon DEF Settled
<1> QED
  BY <1>1, <1>3, <1>4, <1>5, DroppedIs, Zenon DEF NoResult

LEMMA ContinueFacts ==
  ASSUME Settled, Continues
  PROVE  /\ thread = NoThread /\ format = "off" /\ ~FilesPending /\ ~DrivePending
         /\ \A e \in Posted(queue) : e.what = "delete"
         /\ NoResult(queue)
<1>1. thread = NoThread /\ format = "off" /\ \A e \in Posted(queue) : e.what = "delete"
  BY Zenon DEF Settled, Continues, WaitKept
<1>2. NoResult(queue)
  BY <1>1, DeletesSomeone, Zenon DEF Settled, NoResult
<1>3. ~FilesPending /\ ~DrivePending
  <2>1. "off" # "files" /\ "off" # "drive" /\ \A what : Event(NoThread, what).from = NoThread
    BY EventIs, SMT
  <2> QED
    BY <1>1, <1>2, <2>1, Zenon DEF FilesPending, DrivePending, NoResult
<1> QED
  BY <1>1, <1>2, <1>3, Zenon

\* A thread that is deleted has ended, or was never started.
LEMMA DeleteFacts ==
  ASSUME Settled, Deletes
  PROVE  /\ queue' = Tail(queue) /\ UNCHANGED cancelled
         /\ Head(queue).from \in Threads /\ Head(queue).from # thread
<1>1. Head(queue).from \in Threads /\ Head(queue).from # thread
  BY HeadIs, DeletesSomeone, Zenon DEF Settled, Deletes, Events
<1>2. ~Running(Head(queue).from)
  BY <1>1, RunningIs, Zenon DEF Settled, Running
<1> QED
  BY <1>1, <1>2, Zenon DEF Deletes

LEMMA MoveFacts ==
  ASSUME Settled, NEW t \in Threads, phase[t] \notin Still
  PROVE  /\ t = thread /\ thread # NoThread /\ ~waiting
         /\ ~FilesPending /\ ~DrivePending
<1>1. t = thread /\ thread # NoThread /\ ~waiting /\ phase[t] # "created"
  BY RunningIs, BusyIsLive, Zenon DEF Settled
<1> QED
  BY <1>1, Zenon DEF Settled, FormatKept, Current

Extended ==
  /\ OneResult(queue') /\ UNCHANGED format
  /\ \A e \in Posted(queue') : e \in Posted(queue) \/ e.from # NoThread

LEMMA ExtendedStep ==
  ASSUME Settled,
         \/ Quiet \/ Takes \/ Forgets \/ Collects \/ Launches \/ Unblocks \/ Deletes
         \/ \E t \in Threads : Returns(t)
         \/ \E t \in Threads, doing \in Phases, what \in Whats : Works(t, doing, what)
  PROVE  Extended
<1>q. queue \in Seq(Events) /\ OneResult(queue)
  BY Zenon DEF Settled, CoreOK, FormatKept
<1>t. queue # <<>> => /\ Tail(queue) \in Seq(Events) /\ OneResult(Tail(queue))
                      /\ Posted(Tail(queue)) \subseteq Posted(queue)
                      /\ Head(queue) \in Events /\ Head(queue) \in Posted(queue)
  BY <1>q, OneResultTail, HeadIs, Zenon DEF Settled
<1>e. \A t \in Threads : t # NoThread
  BY SMT DEF Threads, NoThread
<1>n. \A t : \A e \in EndsOf(t) : e.from = t
  BY SMT DEF EndsOf, Event
<1>1. CASE Quiet
  BY <1>1, <1>q, Zenon DEF Quiet, Extended
<1>2. CASE Takes \/ Launches \/ Unblocks
  BY <1>2, <1>t, Zenon DEF Takes, Launches, Unblocks, Extended
<1>3. CASE Deletes
  BY <1>3, <1>t, DeleteFacts, Zenon DEF Deletes, Extended
<1>4. CASE \E t \in Threads : Returns(t)
  <2>1. PICK t \in Threads : Returns(t)
    BY <1>4, Zenon
  <2>2. FinishedEvents(t) \in Seq(Events) /\ NoResult(FinishedEvents(t))
    BY <1>e, <1>n, EndsPosted, Zenon DEF Settled, NoResult
  <2>3. OneResult(queue')
    BY <1>q, <2>1, <2>2, OneResultConcat, Zenon DEF Returns
  <2>4. Posted(queue') \subseteq Posted(queue) \cup EndsOf(t)
    BY <2>1, QueueSteps, Zenon DEF Settled
  <2> QED
    BY <1>e, <1>n, <2>1, <2>3, <2>4, Zenon DEF Returns, Extended
<1>5. CASE \E t \in Threads, doing \in Phases, what \in Whats : Works(t, doing, what)
  <2>1. PICK t \in Threads, doing \in Phases, what \in Whats : Works(t, doing, what)
    BY <1>5, Zenon
  <2>2. Event(t, what) \in Events /\ Event(t, what).from # NoThread
    BY <1>e, EventIs, Zenon
  <2>3. queue' = queue \/ queue' = Append(queue, Event(t, what))
    BY <2>1, Zenon DEF Works
  <2>4. OneResult(queue')
    BY <1>q, <2>2, <2>3, OneResultAppend, Zenon
  <2>5. Posted(queue') \subseteq Posted(queue) \cup {Event(t, what)}
    BY <2>1, QueueSteps, Zenon DEF Settled
  <2> QED
    BY <2>1, <2>2, <2>4, <2>5, Zenon DEF Works, Extended
<1>6. CASE Forgets
  <2>1. thread # NoThread => Event(thread, "delete") \in Events
            /\ Event(thread, "delete").from # NoThread
    <3>1. "delete" \in Whats
      BY SMT DEF Whats
    <3> QED
      BY <3>1, EventIs, Zenon DEF Settled, CoreOK, ThreadOK
  <2>2. OneResult(queue')
    BY <1>6, <1>t, <2>1, OneResultAppend, Zenon DEF Forgets, Discard
  <2>3. Posted(queue') = Posted(Tail(queue)) \cup Dropped
    BY <1>6, QueueSteps, Zenon DEF Settled
  <2> QED
    BY <1>6, <1>t, <2>2, <2>3, DroppedIs, Zenon DEF Forgets, Extended
<1>7. CASE Collects
  <2>1. Head(queue).from \in Threads
    <3>1. "onCancelled" \notin {"success", "error", "start"}
      BY SMT
    <3> QED
      BY <1>7, <1>t, <3>1, Zenon DEF Settled, EventsKept, Events, Collects
  <2>2. Event(Head(queue).from, "delete") \in Events
            /\ Event(Head(queue).from, "delete").from # NoThread
    <3>1. "delete" \in Whats
      BY SMT DEF Whats
    <3> QED
      BY <1>e, <2>1, <3>1, EventIs, Zenon
  <2>3. OneResult(queue')
    <3>1. Tail(queue) \in Seq(Events) /\ OneResult(Tail(queue))
      BY <1>7, <1>t, Zenon DEF Collects
    <3>2. queue' = Append(Tail(queue), Event(Head(queue).from, "delete"))
      BY <1>7, Zenon DEF Collects
    <3> QED
      BY <2>2, <3>1, <3>2, OneResultAppend, Zenon
  <2>4. Posted(queue') = Posted(Tail(queue)) \cup {Event(Head(queue).from, "delete")}
    BY <1>7, QueueSteps, Zenon DEF Settled
  <2> QED
    BY <1>7, <1>t, <2>2, <2>3, <2>4, Zenon DEF Collects, Extended
<1> QED
  BY <1>1, <1>2, <1>3, <1>4, <1>5, <1>6, <1>7, Zenon

LEMMA FormattedFacts ==
  ASSUME Settled, Formatted
  PROVE  /\ OneResult(queue') /\ format' = "off" /\ ~waiting
         /\ FilesPending' => FilesPending
         /\ DrivePending' => DrivePending
         /\ ~Current("extracting")
<1>1. PICK what \in {"success", "start", "error"} :
        /\ queue' = Append(queue, Event(NoThread, what))
        /\ what = "success" => format = "drive"
        /\ what = "start" => format = "files"
  BY Zenon DEF Formatted
<1>2. what \in Whats /\ "off" # "files" /\ "off" # "drive"
  BY SMT DEF Whats
<1>3. Event(NoThread, what) \in Events /\ Event(NoThread, what).what = what
  BY <1>2, EventIs, Zenon
<1>4. format # "off" /\ format' = "off" /\ NoResult(queue) /\ OneResult(queue)
          /\ queue \in Seq(Events)
  BY Zenon DEF Settled, Formatted, FormatKept, CoreOK
<1>5. OneResult(queue')
  BY <1>1, <1>3, <1>4, OneResultAppend, Zenon
<1>6. Posted(queue') = Posted(queue) \cup {Event(NoThread, what)}
  BY <1>1, <1>2, QueueSteps, Zenon DEF Settled
<1>7. \A w : Event(NoThread, w) = Event(NoThread, what) => w = what
  <2> TAKE w
  <2>1. Event(NoThread, w).what = w /\ Event(NoThread, what).what = what
    BY EventIs
  <2> QED
    BY <2>1
<1>8. /\ FilesPending' => FilesPending
      /\ DrivePending' => DrivePending
  BY <1>1, <1>2, <1>4, <1>6, <1>7, Zenon DEF FilesPending, DrivePending
<1>9. ~waiting /\ ~Current("extracting")
  BY <1>4, Zenon DEF Settled, WaitKept, FormatKept
<1> QED
  BY <1>4, <1>5, <1>8, <1>9, Zenon


LEMMA CurrentStep ==
  ASSUME Settled, Shape
  PROVE  CurrentKept'
<1> USE DEF Settled
<1>l. \A t \in Threads : Live(t)' => Live(t) \/ t = thread'
  BY LiveStep
<1>e. /\ \A t : Event(t, "delete").from = t /\ Event(t, "delete").what = "delete"
      /\ \A t \in Threads : t # NoThread
  BY EventIs, SMT DEF Threads, NoThread
\* Of the live threads only the current one remains ...
<1>a. ASSUME \A t \in Threads : Live(t) => t = thread, thread' = thread,
             \A e \in Posted(queue') : e.what = "delete" \/ e \in Posted(queue)
                 \/ e.from \in {thread, NoThread}
      PROVE  CurrentKept'
  BY <1>l, <1>a, Zenon DEF CurrentKept
\* ... or one at the head of the queue.
<1>b. ASSUME queue # <<>> => queue' # <<>> /\ Head(queue') = Head(queue), thread' = thread,
             \A t \in Threads : phase[t] = "created" => phase'[t] = "created",
             \A e \in Posted(queue') : e \in Posted(queue) \/ e.from \in {thread, NoThread}
      PROVE  CurrentKept'
  BY <1>l, <1>b, Zenon DEF CurrentKept
<1>h. queue # <<>> => Posted(Tail(queue)) \subseteq Posted(queue)
  BY HeadIs, Zenon
<1>1. CASE Quiet
  BY <1>1, <1>b, Zenon DEF Quiet
<1>2. CASE Continues
  <2>1. /\ thread = NoThread /\ queue' = queue /\ \A e \in Posted(queue) : e.what = "delete"
    BY <1>2, ContinueFacts, Zenon DEF Continues
  <2>2. \A t \in Threads : phase[t] = "created" => phase'[t] = "created"
    <3>1. Created /\ \A t \in Unused : phase[t] # "created"
      BY <1>2, SMT DEF Continues, Unused
    <3> QED
      BY <3>1, PhaseSteps, Zenon
  <2> QED
    BY <1>l, <1>e, <2>1, <2>2, Zenon DEF CurrentKept
<1>3. CASE Starts
  <2>1. queue = <<>> /\ ~Running(thread) /\ Posted(queue') = Dropped
    BY <1>3, StartFacts, Zenon
  <2>2. \A t \in Threads : Live(t) => t = thread /\ phase[t] = "created"
    <3>1. \A t \in Threads : Live(t) => t = thread
      BY <2>1, Zenon DEF CurrentKept
    <3>2. \A t \in Threads : t = thread /\ Live(t) => phase[t] = "created"
      BY <2>1, SMT DEF Running, Live, Still, Threads, NoThread
    <3> QED
      BY <3>1, <3>2, Zenon
  <2>3. thread # NoThread => queue' # <<>> /\ Head(queue') = Event(thread, "delete")
    BY <1>3, <2>1, SMT DEF Starts, Discard
  <2>4. \A t \in Threads : phase[t] = "created" => phase'[t] = "created"
    <3>1. Created \/ UNCHANGED phase
      BY <1>3, Zenon DEF Starts
    <3>2. \A t \in Unused : phase[t] # "created"
      BY SMT DEF Unused
    <3> QED
      BY <3>1, <3>2, PhaseSteps, Zenon
  <2>5. \A t \in Threads : Live(t)' => t = thread'
            \/ (phase'[t] = "created" /\ queue' # <<>> /\ Head(queue') = Event(t, "delete"))
    BY <1>l, <1>e, <2>2, <2>3, <2>4, Zenon
  <2> QED
    BY <2>1, <2>5, DroppedIs, Zenon DEF CurrentKept
<1>4. CASE Formatted
  <2>1. PICK what \in {"success", "start", "error"} : queue' = Append(queue, Event(NoThread, what))
    BY <1>4, Zenon DEF Formatted
  <2>2. what \in Whats
    BY SMT DEF Whats
  <2>3. /\ Posted(queue') = Posted(queue) \cup {Event(NoThread, what)}
        /\ queue # <<>> => Head(queue') = Head(queue)
    BY <2>1, <2>2, QueueSteps, Zenon
  <2>4. Event(NoThread, what).from = NoThread /\ queue' # <<>>
    <3>1. Event(NoThread, what).from = NoThread
      BY EventIs, Zenon
    <3>2. queue \in Seq(Events)
      BY Zenon DEF CoreOK
    <3> QED
      BY <2>1, <3>1, <3>2, SMT
  <2> QED
    BY <1>4, <1>b, <2>3, <2>4, Zenon DEF Formatted
<1>5. CASE \E t \in Threads : Returns(t)
  <2>1. PICK t \in Threads : Returns(t)
    BY <1>5, Zenon
  <2>2. t = thread
    BY <2>1, RunningIs, Zenon DEF Returns
  <2>3. /\ Posted(queue') \subseteq Posted(queue) \cup EndsOf(t)
        /\ queue # <<>> => Head(queue') = Head(queue)
    BY <2>1, QueueSteps, Zenon
  <2>4. queue # <<>> => queue' # <<>>
    <3>1. queue' = queue \o FinishedEvents(t) /\ queue \in Seq(Events)
              /\ FinishedEvents(t) \in Seq(Events)
      BY <2>1, EndsPosted, Zenon DEF Returns, CoreOK
    <3> QED
      BY <3>1, SMT
  <2>5. \A e \in EndsOf(t) : e.from = t
    BY SMT DEF EndsOf, Event
  <2>6. phase[t] # "created"
    BY <2>1, SMT DEF Returns, Still
  <2>7. \A u \in Threads : phase[u] = "created" => phase'[u] = "created"
    BY <2>1, <2>6, PhaseSteps, Zenon
  <2> QED
    BY <1>b, <2>1, <2>2, <2>3, <2>4, <2>5, <2>7, Zenon DEF Returns
<1>6. CASE \E t \in Threads, doing \in Phases, what \in Whats : Works(t, doing, what)
  <2>1. PICK t \in Threads, doing \in Phases, what \in Whats : Works(t, doing, what)
    BY <1>6, Zenon
  <2>2. t = thread
    BY <2>1, RunningIs, Zenon DEF Works
  <2>3. /\ Posted(queue') \subseteq Posted(queue) \cup {Event(t, what)}
        /\ queue # <<>> => Head(queue') = Head(queue)
    BY <2>1, QueueSteps, Zenon
  <2>4. queue # <<>> => queue' # <<>>
    <3>1. (queue' = queue \/ queue' = Append(queue, Event(t, what))) /\ queue \in Seq(Events)
      BY <2>1, Zenon DEF Works, CoreOK
    <3> QED
      BY <3>1, SMT
  <2>5. Event(t, what).from = t
    BY EventIs, Zenon
  <2>6. phase[t] # "created"
    BY <2>1, SMT DEF Works, Still
  <2>7. \A u \in Threads : phase[u] = "created" => phase'[u] = "created"
    BY <2>1, <2>6, PhaseSteps, Zenon
  <2> QED
    BY <1>b, <2>1, <2>2, <2>3, <2>4, <2>5, <2>7, Zenon DEF Works
<1>7. CASE Takes \/ Launches \/ Unblocks
  <2>1. queue # <<>> /\ queue' = Tail(queue) /\ thread' = thread
    BY <1>7, Zenon DEF Takes, Launches, Unblocks
  <2>2. Head(queue).what # "delete"
    BY <1>7, SMT DEF Takes, Launches, Unblocks
  <2>3. \A t \in Threads : Live(t) => t = thread
    BY <2>1, <2>2, HeadFacts, Zenon
  <2> QED
    BY <1>a, <1>h, <2>1, <2>3, Zenon
<1>8. CASE Forgets \/ Collects
  <2>1. /\ queue # <<>> /\ (thread' = NoThread \/ thread' = thread)
        /\ Head(queue).what \in EndEvents /\ Head(queue).what # "delete"
    BY <1>8, SMT DEF Forgets, Collects, EndEvents
  <2>2. \A t \in Threads : ~Live(t)
    BY <2>1, HeadFacts, Zenon
  <2>3. \A e \in Posted(queue') : e.what = "delete" \/ e \in Posted(queue)
    BY <1>8, <1>e, <1>h, <2>1, QueueSteps, DroppedIs, Zenon
  <2> QED
    BY <1>l, <2>1, <2>2, <2>3, Zenon DEF CurrentKept
<1>9. CASE Deletes
  <2>1. queue # <<>> /\ queue' = Tail(queue) /\ thread' = thread /\ Head(queue).from \in Threads
    BY <1>9, DeleteFacts, Zenon DEF Deletes
  <2>2. \A t \in Threads : Live(t)' => t = thread
    <3>1. \A t \in Threads : Live(t)' => Live(t) /\ t # Head(queue).from
      BY <1>9, <1>l, PhaseSteps, Zenon DEF Live
    <3>2. \A t \in Threads : Head(queue) = Event(t, "delete") => Head(queue).from = t
      BY <1>e
    <3> QED
      BY <3>1, <3>2, Zenon DEF CurrentKept
  <2> QED
    BY <1>h, <2>1, <2>2, Zenon DEF CurrentKept
<1> QED
  BY <1>1, <1>2, <1>3, <1>4, <1>5, <1>6, <1>7, <1>8, <1>9, Zenon DEF Shape


LEMMA WaitStep ==
  ASSUME Settled, StateOK, Shape
  PROVE  WaitKept'
<1> USE DEF Settled
<1>s. "Preparing" \in Active /\ "Preparing" \notin Stopped
  BY SMT DEF Active, Stopped
<1>h. queue # <<>> => Posted(Tail(queue)) \subseteq Posted(queue)
  BY HeadIs, Zenon
<1>1. CASE Quiet
  BY <1>1, <1>s, Zenon DEF Quiet, WaitKept, Running
<1>2. CASE Continues
  BY <1>2, Zenon DEF Continues, WaitKept
<1>3. CASE Starts
  <2>1. ~waiting /\ Posted(queue') = Dropped /\ format = "off"
    BY <1>3, StartFacts, Zenon
  <2>2. \/ ~waiting'
        \/ thread' = NoThread /\ writeState' = "Preparing" /\ format' = format
    BY <1>3, <2>1, Zenon DEF Starts
  <2> QED
    BY <2>1, <2>2, DroppedIs, Zenon DEF WaitKept
<1>4. CASE Formatted
  BY <1>4, FormattedFacts, Zenon DEF Formatted, WaitKept
<1>5. CASE \E t \in Threads : Returns(t)
  <2>1. PICK t \in Threads : Returns(t)
    BY <1>5, Zenon
  <2> QED
    BY <2>1, RunningIs, Zenon DEF Returns, WaitKept
<1>6. CASE \E t \in Threads, doing \in Phases, what \in Whats : Works(t, doing, what)
  <2>1. PICK t \in Threads, doing \in Phases, what \in Whats : Works(t, doing, what)
    BY <1>6, Zenon
  <2> QED
    BY <2>1, RunningIs, Zenon DEF Works, WaitKept
<1>7. CASE Takes \/ Forgets \/ Collects \/ Launches \/ Unblocks
  <2>1. queue # <<>> /\ waiting' = waiting
    BY <1>7, Zenon DEF Takes, Forgets, Collects, Launches, Unblocks
  <2>2. Head(queue).what # "delete"
    BY <1>7, SMT DEF Takes, Forgets, Collects, Launches, Unblocks
  <2> QED
    BY <2>1, <2>2, HeadFacts, Zenon DEF WaitKept
<1>8. CASE Deletes
  BY <1>8, <1>h, DeleteFacts, Zenon DEF Deletes, WaitKept
<1> QED
  BY <1>1, <1>2, <1>3, <1>4, <1>5, <1>6, <1>7, <1>8, Zenon DEF Shape

LEMMA FormatStep ==
  ASSUME Settled, Shape, SetsGrow
  PROVE  FormatKept'
<1> USE DEF Settled
<1>c. \A doing : Current(doing)' <=> thread' # NoThread /\ phase'[thread'] = doing
  BY Zenon DEF Current
\* No formatting for several files, and no extraction of them ...
<1>a. ASSUME ~FilesPending', ~Current("extracting")', OneResult(queue'),
             format' # "off" => NoResult(queue'), DrivePending' => thread' = NoThread
      PROVE  FormatKept'
  BY <1>a, Zenon DEF FormatKept
\* ... or as before.
<1>b. ASSUME Extended, thread' = thread, FilesPending => phase'[thread] = "created",
             phase'[thread] = "extracting" /\ thread # NoThread => Current("extracting"),
             FilesPending \/ Current("extracting") =>
                writeState' = IF thread \in cancelled' THEN "Cancelling" ELSE "Writing"
      PROVE  FormatKept'
  <2>1. /\ FilesPending' => FilesPending
        /\ DrivePending' => DrivePending
        /\ NoResult(queue) => NoResult(queue')
    BY <1>b, EventIs, Zenon DEF Extended, FilesPending, DrivePending, NoResult
  <2>2. OneResult(queue') /\ format' = format
    BY <1>b, Zenon DEF Extended
  <2>3. Current("extracting")' => Current("extracting")
    BY <1>b, <1>c, Zenon
  <2>4. FilesPending' => Current("created")'
    BY <1>b, <1>c, <2>1, Zenon DEF FormatKept, Current
  <2> QED
    BY <1>b, <2>1, <2>2, <2>3, <2>4, Zenon DEF FormatKept
<1>x. Extended => /\ OneResult(queue')
                  /\ format' # "off" => NoResult(queue')
                  /\ DrivePending' => DrivePending
                  /\ FilesPending' => FilesPending
                  /\ NoResult(queue) => NoResult(queue')
  <2> SUFFICES ASSUME Extended
               PROVE  /\ OneResult(queue')
                      /\ format' # "off" => NoResult(queue')
                      /\ DrivePending' => DrivePending
                      /\ FilesPending' => FilesPending
                      /\ NoResult(queue) => NoResult(queue')
    OBVIOUS
  <2>1. NoResult(queue) => NoResult(queue')
    BY Zenon DEF Extended, NoResult
  <2> QED
    BY <2>1, EventIs, Zenon DEF Extended, FormatKept, FilesPending, DrivePending
<1>1. CASE Quiet
  <2>1. Extended /\ thread' = thread /\ phase' = phase
    BY <1>1, Zenon DEF Quiet, Extended, FormatKept
  <2>2. FilesPending \/ Current("extracting") =>
          writeState' = IF thread \in cancelled' THEN "Cancelling" ELSE "Writing"
    <3> SUFFICES ASSUME FilesPending \/ Current("extracting")
                 PROVE  writeState' = IF thread \in cancelled' THEN "Cancelling" ELSE "Writing"
      OBVIOUS
    <3>1. /\ writeState = IF thread \in cancelled THEN "Cancelling" ELSE "Writing"
          /\ Current("created") \/ Current("extracting")
      BY Zenon DEF FormatKept
    <3>2. "Cancelling" \notin Stopped /\ "Writing" \notin Stopped
      BY SMT DEF Stopped
    <3>3. thread # NoThread /\ ~Watched
      BY <3>1, SMT DEF Current, Watched
    <3> QED
      BY <1>1, <3>1, <3>2, <3>3, Zenon DEF Quiet
  <2> QED
    BY <1>b, <2>1, <2>2, Zenon DEF FormatKept, Current
<1>n. ASSUME Created, UNCHANGED cancelled, OneResult(queue'), NoResult(queue'), format = "off"
      PROVE  FormatKept'
  <2>1. \A what : Event(NoThread, what).from = NoThread
    BY EventIs
  <2>2. FilesPending' => format' = "files"
    BY <1>n, <2>1, Zenon DEF FilesPending, NoResult
  <2>3. DrivePending' => format' = "drive"
    BY <1>n, <2>1, Zenon DEF DrivePending, NoResult
  <2>4. CASE UNCHANGED phase /\ thread' = NoThread /\ UNCHANGED format
    <3>1. "off" # "files" /\ "off" # "drive"
      BY SMT
    <3> QED
      BY <1>a, <1>c, <1>n, <2>2, <2>3, <2>4, <3>1, Zenon
  <2>5. CASE /\ thread' \in Unused /\ phase'[thread'] \in {"writing", "created"}
             /\ format' = IF phase'[thread'] = "created" THEN "files" ELSE format
             /\ writeState' = "Writing" /\ UNCHANGED cancelled
    <3>1. thread' \notin cancelled' /\ thread' # NoThread
      BY <2>5, SMT DEF ThreadsKept, Unused, Threads, NoThread
    <3>2. "off" # "files" /\ "off" # "drive" /\ "files" # "drive" /\ "writing" # "extracting"
              /\ "created" # "extracting"
      BY SMT
    <3>3. ~Current("extracting")' /\ ~DrivePending'
      BY <1>c, <1>n, <2>3, <2>5, <3>2, Zenon
    <3>4. FilesPending' => Current("created")'
      BY <1>c, <1>n, <2>2, <2>5, <3>1, <3>2, Zenon
    <3> QED
      BY <1>n, <2>5, <3>1, <3>3, <3>4, Zenon DEF FormatKept
  <2> QED
    BY <1>n, <2>4, <2>5, PhaseSteps, Zenon
<1>2. CASE Continues
  <2>1. Created /\ UNCHANGED cancelled /\ queue' = queue /\ NoResult(queue) /\ format = "off"
    BY <1>2, ContinueFacts, Zenon DEF Continues
  <2> QED
    BY <1>n, <2>1, OneResultNone, Zenon
<1>3. CASE Starts
  <2>1. NoResult(queue') /\ OneResult(queue') /\ format = "off" /\ UNCHANGED cancelled
    BY <1>3, StartFacts, OneResultNone, Zenon DEF Starts
  <2>2. CASE Created
    BY <1>n, <2>1, <2>2
  <2>3. CASE thread' = NoThread /\ format' \in {format, "drive"}
    <3>1. ~FilesPending'
      <4>1. "off" # "files" /\ "drive" # "files" /\ \A what : Event(NoThread, what).from = NoThread
        BY EventIs, SMT
      <4> QED
        BY <2>1, <2>3, <4>1, Zenon DEF FilesPending, NoResult
    <3> QED
      BY <1>a, <1>c, <2>1, <2>3, <3>1, Zenon
  <2> QED
    BY <1>3, <2>2, <2>3, Zenon DEF Starts
<1>4. CASE Formatted
  <2>1. UNCHANGED <<writeState, thread, phase, cancelled>>
    BY <1>4, Zenon DEF Formatted
  <2>2. /\ FilesPending' => Current("created")'
            /\ writeState' = IF thread' \in cancelled' THEN "Cancelling" ELSE "Writing"
        /\ ~Current("extracting")' /\ OneResult(queue') /\ format' = "off"
        /\ DrivePending' => thread' = NoThread
    BY <1>4, <1>c, <2>1, FormattedFacts, Zenon DEF FormatKept, Current
  <2> QED
    BY <2>2, Zenon DEF FormatKept
<1>5. CASE \E t \in Threads : Returns(t)
  <2>1. PICK t \in Threads : Returns(t)
    BY <1>5, Zenon
  <2>2. phase[t] \notin Still /\ thread' = thread
    BY <2>1, Zenon DEF Returns
  <2>3. phase'[thread] # "extracting" /\ t = thread /\ ~FilesPending /\ ~DrivePending
    <3>1. "ended" # "extracting"
      BY SMT
    <3> QED
      BY <2>1, <2>2, <3>1, MoveFacts, PhaseSteps, Zenon
  <2> QED
    BY <1>5, <1>a, <1>c, <1>x, <2>2, <2>3, ExtendedStep, Zenon
<1>6. CASE \E t \in Threads, doing \in Phases, what \in Whats : Works(t, doing, what)
  <2>1. PICK t \in Threads, doing \in Phases, what \in Whats : Works(t, doing, what)
    BY <1>6, Zenon
  <2>2. phase[t] \notin Still /\ thread' = thread /\ doing # "extracting"
    BY <2>1, Zenon DEF Works
  <2>3. phase'[thread] # "extracting" /\ t = thread /\ ~FilesPending /\ ~DrivePending
    <3>1. t = thread /\ ~FilesPending /\ ~DrivePending
      BY <2>2, MoveFacts, Zenon
    <3>2. phase'[t] = doing
      BY <2>1, PhaseSteps, Zenon
    <3> QED
      BY <2>2, <3>1, <3>2, Zenon
  <2> QED
    BY <1>6, <1>a, <1>c, <1>x, <2>2, <2>3, ExtendedStep, Zenon
<1>7. CASE Takes \/ Forgets \/ Collects
  <2>1. /\ queue # <<>> /\ UNCHANGED phase /\ (thread' = thread \/ thread' = NoThread)
        /\ Extended
    BY <1>7, ExtendedStep, Zenon DEF Takes, Forgets, Collects
  <2>2. /\ Head(queue).what # "delete"
        /\ Head(queue).what \in EndEvents \cup {"success", "error", "finalizing", "verify"}
    BY <1>7, SMT DEF Takes, Forgets, Collects, EndEvents
  <2>3. ~FilesPending /\ ~Current("extracting")
    BY <2>1, <2>2, HeadFacts, Zenon
  <2>4. DrivePending => thread = NoThread
    BY Zenon DEF FormatKept
  <2>5. ~Current("extracting")'
    BY <1>c, <2>1, <2>3, Zenon DEF Current
  <2> QED
    BY <1>a, <1>x, <2>1, <2>3, <2>4, <2>5, Zenon
<1>8. CASE Launches
  <2>1. /\ queue # <<>> /\ queue' = Tail(queue) /\ Extended
            /\ UNCHANGED <<writeState, thread, cancelled>>
        /\ Head(queue).what = "start"
    BY <1>8, ExtendedStep, Zenon DEF Launches
  <2>2. Head(queue) \in Posted(queue) /\ Head(queue) \in Events
    BY <2>1, HeadIs, Zenon
  <2>3. Head(queue).from = NoThread
    <3>1. "start" # "delete"
      BY SMT
    <3> QED
      BY <2>1, <2>2, <3>1, Zenon DEF EventsKept
  <2>4. Head(queue) = Event(NoThread, "start")
    BY <2>1, <2>2, <2>3, SMT DEF Event, Events
  <2>5. FilesPending /\ format = "off"
    BY <2>2, <2>3, <2>4, Zenon DEF FilesPending, FormatKept, NoResult
  <2>6. NoResult(queue')
    BY <2>1, <2>3, OneResultTail, Zenon DEF CoreOK, FormatKept
  <2>7. ~FilesPending'
    <3>1. "off" # "files" /\ Event(NoThread, "start").from = NoThread
      BY EventIs, SMT
    <3> QED
      BY <2>1, <2>5, <2>6, <3>1, Zenon DEF Extended, FilesPending, NoResult
  <2>8. writeState' = IF thread' \in cancelled' THEN "Cancelling" ELSE "Writing"
    BY <2>1, <2>5, Zenon DEF FormatKept
  <2> QED
    BY <1>x, <2>1, <2>5, <2>6, <2>7, <2>8, Zenon DEF FormatKept, Extended
<1>9. CASE Unblocks \/ Deletes
  <2>1. Extended /\ UNCHANGED <<writeState, thread, cancelled>>
    BY <1>9, ExtendedStep, DeleteFacts, Zenon DEF Unblocks, Deletes
  <2>2. \A doing \in {"created", "extracting"} : thread # NoThread =>
          (phase'[thread] = doing <=> phase[thread] = doing)
    <3>1. thread # NoThread => thread \in Threads
      BY Zenon DEF CoreOK, ThreadOK
    <3>2. /\ \A doing \in {"created", "extracting"} : doing # "syncing" /\ doing # "blocked"
      BY SMT
    <3> QED
      BY <1>9, <3>1, <3>2, PhaseSteps, DeleteFacts, Zenon
  <2>3. FilesPending => thread # NoThread /\ phase'[thread] = "created"
    BY <2>2, Zenon DEF FormatKept, Current
  <2> QED
    BY <1>b, <2>1, <2>2, <2>3, Zenon DEF FormatKept, Current
<1> QED
  BY <1>1, <1>2, <1>3, <1>4, <1>5, <1>6, <1>7, <1>8, <1>9, Zenon DEF Shape

LEMMA ReleaseStep ==
  ASSUME Settled, Shape, SetsGrow, DeviceReleased
  PROVE  DeviceReleased'
<1> USE DEF Settled
<1>d. /\ DeviceReleased <=> (writeState \in Stopped => \A t \in Threads : phase[t] \in Busy
          => t \in cancelled)
      /\ DeviceReleased' <=> (writeState' \in Stopped => \A t \in Threads : phase'[t] \in Busy
          => t \in cancelled')
  BY Zenon DEF DeviceReleased, Busy
<1>s. /\ {"Writing", "Preparing", "Cancelling", "Finalizing", "Verifying"} \cap Stopped = {}
      /\ "Failed" \in Stopped
      /\ {"writing", "created", "extracting", "syncing", "blocked"} \cap Busy
          = {"writing", "extracting", "syncing", "blocked"}
      /\ {"ended", "deleted"} \cap Busy = {}
  BY SMT DEF Stopped, Busy
<1>b. \A t \in Threads : phase[t] \in Busy => t = thread /\ Running(t) /\ ~waiting
  BY RunningIs, BusyRuns, Zenon
<1>k. ASSUME writeState' = writeState, \A t \in Threads : phase'[t] \in Busy => phase[t] \in Busy
      PROVE  DeviceReleased'
  BY <1>d, <1>k, Zenon DEF SetsGrow
<1>1. CASE Quiet
  BY <1>1, <1>b, <1>d, <1>s, Zenon DEF Quiet, SetsGrow
<1>c. ASSUME Created, \A t \in Threads : phase[t] \notin Busy
      PROVE  DeviceReleased'
  BY <1>c, <1>d, <1>s, PhaseSteps, Zenon
<1>2. CASE Continues
  BY <1>2, <1>b, <1>c, Zenon DEF Continues
<1>3. CASE Starts
  <2>1. \A t \in Threads : phase[t] \notin Busy
    BY <1>3, <1>b, StartFacts, Zenon
  <2> QED
    BY <1>3, <1>c, <1>d, <1>s, <2>1, Zenon DEF Starts
<1>4. CASE Formatted \/ Forgets
  BY <1>4, <1>k, Zenon DEF Formatted, Forgets
<1>5. CASE \E t \in Threads : Returns(t)
  BY <1>5, <1>k, <1>s, PhaseSteps, Zenon DEF Returns
<1>6. CASE \E t \in Threads, doing \in Phases, what \in Whats : Works(t, doing, what)
  <2>1. PICK t \in Threads, doing \in Phases, what \in Whats : Works(t, doing, what)
    BY <1>6, Zenon
  <2>2. \A u \in Threads : phase'[u] \in Busy => phase[u] \in Busy
    <3>1. phase'[t] = doing /\ \A u \in Threads \ {t} : phase'[u] = phase[u]
      BY <2>1, PhaseSteps, Zenon
    <3>2. doing \in Busy => phase[t] \in Busy
      BY <2>1, Zenon DEF Works
    <3> QED
      BY <3>1, <3>2, Zenon
  <2> QED
    BY <1>k, <2>1, <2>2, Zenon DEF Works
<1>7. CASE Takes
  <2>1. Head(queue).what # "delete"
    BY <1>7, SMT DEF Takes
  <2>2. Head(queue).what = "success" => \A t \in Threads : phase[t] \notin Busy
    BY <1>7, <2>1, HeadFacts, Zenon DEF Takes
  <2> QED
    BY <1>7, <1>b, <1>d, <1>s, <2>2, Zenon DEF Takes
<1>8. CASE Collects
  <2>1. Head(queue).what # "delete" /\ Head(queue).what \in EndEvents
    BY <1>8, SMT DEF Collects, EndEvents
  <2>2. \A t \in Threads : phase[t] \notin Busy
    BY <1>8, <2>1, HeadFacts, BusyIsLive, Zenon DEF Collects
  <2> QED
    BY <1>8, <1>d, <2>2, Zenon DEF Collects
<1>9. CASE Launches
  <2>2. FilesPending
    <3>1. Head(queue) \in Posted(queue) /\ Head(queue) \in Events /\ Head(queue).what = "start"
      BY <1>9, HeadIs, Zenon DEF Launches
    <3>2. Head(queue).from = NoThread
      <4>1. "start" # "delete"
        BY SMT
      <4> QED
        BY <3>1, <4>1, Zenon DEF EventsKept
    <3>3. Head(queue) = Event(NoThread, "start")
      BY <3>1, <3>2, SMT DEF Event, Events
    <3> QED
      BY <3>1, <3>3, Zenon DEF FilesPending
  <2>3. writeState' \in {"Writing", "Cancelling"}
    BY <1>9, <2>2, Zenon DEF FormatKept, Launches
  <2> QED
    BY <1>d, <1>s, <2>3, Zenon
<1>10. CASE Unblocks
  <2>1. \A u \in Threads : phase'[u] \in Busy => phase[u] \in Busy
    BY <1>10, <1>s, PhaseSteps, Zenon
  <2> QED
    BY <1>10, <1>k, <2>1, Zenon DEF Unblocks
<1>11. CASE Deletes
  <2>1. \A u \in Threads : phase'[u] \in Busy => phase[u] \in Busy
    BY <1>11, <1>s, PhaseSteps, Zenon
  <2> QED
    BY <1>11, <1>k, <2>1, Zenon DEF Deletes
<1> QED
  BY <1>1, <1>2, <1>3, <1>4, <1>5, <1>6, <1>7, <1>8, <1>9, <1>10, <1>11, Zenon DEF Shape



-------------------------------------------------------------------------------
(***************************************************************************)
(* The order of events, and what becomes of a stopped session.             *)
(***************************************************************************)
\* r is q and more.
Prefix(q, r) == Len(q) <= Len(r) /\ \A i \in 1..Len(q) : r[i] = q[i]

LEMMA PrefixAppend ==
  ASSUME NEW q \in Seq(Events), NEW e
  PROVE  Prefix(q, Append(q, e)) /\ Len(Append(q, e)) = Len(q) + 1 /\ Append(q, e)[Len(q) + 1] = e
BY SMT DEF Prefix

LEMMA PrefixConcat ==
  ASSUME NEW q \in Seq(Events), NEW r \in Seq(Events)
  PROVE  /\ Prefix(q, q \o r)
         /\ \A n \in (Len(q) + 1)..Len(q \o r) : (q \o r)[n] \in Posted(r)
<1>1. Prefix(q, q \o r)
  BY SMT DEF Prefix
<1>2. ASSUME NEW n \in (Len(q) + 1)..Len(q \o r)
      PROVE  (q \o r)[n] \in Posted(r)
  <2>1. n - Len(q) \in 1..Len(r) /\ (q \o r)[n] = r[n - Len(q)]
    BY <1>2, SMT
  <2> QED
    BY <2>1, Zenon DEF Posted
<1> QED
  BY <1>1, <1>2

LEMMA OrderedTail ==
  ASSUME NEW q \in Seq(Events), q # <<>>, Ordered(q)
  PROVE  /\ Ordered(Tail(q))
         /\ Head(q).what \in EndEvents /\ Head(q).from # NoThread =>
              \A e \in Posted(Tail(q)) : e.from = Head(q).from
                  => e.what \in EndEvents \cup {"delete"}
<1>1. /\ Len(Tail(q)) = Len(q) - 1 /\ Len(q) \in Nat /\ Len(q) >= 1 /\ Head(q) = q[1]
      /\ \A i \in 1..Len(Tail(q)) : Tail(q)[i] = q[i + 1] /\ i + 1 \in 1..Len(q) /\ 1 < i + 1
      /\ 1 \in 1..Len(q)
  BY SMT
<1>2. Ordered(Tail(q))
  <2> SUFFICES ASSUME NEW i \in 1..Len(Tail(q)), NEW j \in 1..Len(Tail(q)), i < j,
                      Tail(q)[i].from # NoThread, Tail(q)[i].from = Tail(q)[j].from,
                      Tail(q)[i].what \in EndEvents
               PROVE  Tail(q)[j].what \in EndEvents \cup {"delete"}
    BY Zenon DEF Ordered
  <2>1. i + 1 < j + 1
    BY SMT
  <2> QED
    BY <1>1, <2>1, ZenonT(60) DEF Ordered
<1>3. ASSUME Head(q).what \in EndEvents, Head(q).from # NoThread, NEW i \in 1..Len(Tail(q)),
             Tail(q)[i].from = Head(q).from
      PROVE  Tail(q)[i].what \in EndEvents \cup {"delete"}
  BY <1>1, <1>3, Zenon DEF Ordered
<1> QED
  BY <1>2, <1>3, Zenon DEF Posted

LEMMA OrderedMore ==
  ASSUME NEW q \in Seq(Events), NEW r \in Seq(Events), Ordered(q), Prefix(q, r),
         \A n \in (Len(q) + 1)..Len(r) :
            \/ r[n].from = NoThread \/ r[n].what \in EndEvents \cup {"delete"}
            \/ /\ Len(r) = Len(q) + 1
               /\ \A e \in Posted(q) : e.from = r[n].from => e.what \notin EndEvents
  PROVE  Ordered(r)
<1> SUFFICES ASSUME NEW i \in 1..Len(r), NEW j \in 1..Len(r), i < j,
                    r[i].from # NoThread, r[i].from = r[j].from, r[i].what \in EndEvents
             PROVE  r[j].what \in EndEvents \cup {"delete"}
  BY Zenon DEF Ordered
<1>1. CASE j \in 1..Len(q)
  <2>1. i \in 1..Len(q)
    BY <1>1, SMT
  <2> QED
    BY <1>1, <2>1, Zenon DEF Ordered, Prefix
<1>2. CASE j \in (Len(q) + 1)..Len(r)
  <2>1. Len(r) = Len(q) + 1 => i \in 1..Len(q)
    BY <1>2, SMT
  <2>2. i \in 1..Len(q) => r[i] \in Posted(q)
    BY Zenon DEF Posted, Prefix
  <2> QED
    BY <1>2, <2>1, <2>2, Zenon
<1> QED
  BY <1>1, <1>2, SMT

LEMMA ToldPrefix ==
  ASSUME NEW q \in Seq(Events), NEW r \in Seq(Events), Prefix(q, r), NEW t,
             NEW n \in 1..(Len(q) + 1)
  PROVE  /\ Clear(q, n) => Clear(r, n)
         /\ Told(q, t, n) => Told(r, t, n)
<1>1. Clear(q, n) => Clear(r, n)
  <2>1. \A j \in 1..(n - 1) : j \in 1..Len(q)
    BY SMT
  <2> QED
    BY <2>1, Zenon DEF Clear, Prefix
<1>2. ASSUME Told(q, t, n) PROVE Told(r, t, n)
  <2>1. PICK k \in 1..(n - 1) : /\ q[k] = Event(t, "error")
                                /\ \A j \in (k + 1)..(n - 1) : ~Reopens(q[j])
    BY <1>2, Zenon DEF Told
  <2>2. k \in 1..Len(q) /\ \A j \in (k + 1)..(n - 1) : j \in 1..Len(q)
    BY <2>1, SMT
  <2>3. r[k] = Event(t, "error") /\ \A j \in (k + 1)..(n - 1) : ~Reopens(r[j])
    BY <2>1, <2>2, Zenon DEF Prefix
  <2> QED
    BY <2>3, Zenon DEF Told
<1> QED
  BY <1>1, <1>2

\* What is appended and opens nothing changes nothing.
LEMMA ToldMore ==
  ASSUME NEW q \in Seq(Events), NEW e \in Events, NEW t, Told(q, t, Len(q) + 1), ~Reopens(e)
  PROVE  Told(Append(q, e), t, Len(Append(q, e)) + 1)
<1>1. PICK k \in 1..((Len(q) + 1) - 1) : /\ q[k] = Event(t, "error")
                                       /\ \A j \in (k + 1)..((Len(q) + 1) - 1) : ~Reopens(q[j])
  BY Zenon DEF Told
<1>2. /\ Len(Append(q, e)) = Len(q) + 1 /\ Append(q, e)[Len(q) + 1] = e /\ Len(q) \in Nat
      /\ \A i \in 1..Len(q) : Append(q, e)[i] = q[i]
  BY SMT
<1>3. k \in 1..((Len(Append(q, e)) + 1) - 1) /\ Append(q, e)[k] = q[k]
  BY <1>1, <1>2, SMT
<1>4. ASSUME NEW j \in (k + 1)..((Len(Append(q, e)) + 1) - 1)
      PROVE  ~Reopens(Append(q, e)[j])
  <2>1. j = Len(q) + 1 \/ (j \in (k + 1)..((Len(q) + 1) - 1) /\ Append(q, e)[j] = q[j])
    BY <1>1, <1>2, <1>4, SMT
  <2> QED
    BY <1>1, <1>2, <2>1, Zenon
<1> QED
  BY <1>1, <1>3, <1>4, Zenon DEF Told

LEMMA ToldNow ==
  ASSUME NEW q \in Seq(Events), NEW t
  PROVE  Told(Append(q, Event(t, "error")), t, Len(Append(q, Event(t, "error"))) + 1)
<1> DEFINE r == Append(q, Event(t, "error"))
<1>1. Len(r) = Len(q) + 1 /\ r[Len(q) + 1] = Event(t, "error") /\ Len(q) \in Nat
  BY SMT
<1>2. Len(q) + 1 \in 1..((Len(r) + 1) - 1) /\ (Len(q) + 2)..((Len(r) + 1) - 1) = {}
          /\ (Len(q) + 1) + 1 = Len(q) + 2
  BY <1>1, SMT
<1> QED
  BY <1>1, <1>2, Zenon DEF Told

LEMMA ToldTail ==
  ASSUME NEW q \in Seq(Events), q # <<>>, NEW t, NEW n \in 1..Len(q)
  PROVE  /\ Clear(q, n + 1) => ~Reopens(Head(q)) /\ Clear(Tail(q), n)
         /\ Told(q, t, n + 1) => Told(Tail(q), t, n)
             \/ (Head(q) = Event(t, "error") /\ Clear(Tail(q), n))
<1>1. /\ Len(Tail(q)) = Len(q) - 1 /\ Len(q) \in Nat /\ Len(q) >= 1 /\ Head(q) = q[1]
      /\ \A i \in 1..(n - 1) : Tail(q)[i] = q[i + 1]
  BY SMT
<1>2. Clear(q, n + 1) => ~Reopens(Head(q)) /\ Clear(Tail(q), n)
  <2>1. 1 \in 1..((n + 1) - 1) /\ \A i \in 1..(n - 1) : i + 1 \in 1..((n + 1) - 1)
    BY SMT
  <2> QED
    BY <1>1, <2>1, Zenon DEF Clear
<1>3. ASSUME Told(q, t, n + 1)
      PROVE  Told(Tail(q), t, n) \/ (Head(q) = Event(t, "error") /\ Clear(Tail(q), n))
  <2>1. PICK k \in 1..((n + 1) - 1) : /\ q[k] = Event(t, "error")
                                    /\ \A j \in (k + 1)..((n + 1) - 1) : ~Reopens(q[j])
    BY <1>3, Zenon DEF Told
  <2>2. CASE k = 1
    <3>1. \A i \in 1..(n - 1) : i + 1 \in (k + 1)..((n + 1) - 1)
      BY <2>2, SMT
    <3> QED
      BY <1>1, <2>1, <2>2, <3>1, Zenon DEF Clear
  <2>3. CASE k # 1
    <3>1. /\ k - 1 \in 1..(n - 1) /\ (k - 1) + 1 = k
          /\ \A j \in ((k - 1) + 1)..(n - 1) : j + 1 \in (k + 1)..((n + 1) - 1) /\ j \in 1..(n - 1)
      BY <2>1, <2>3, SMT
    <3>2. Tail(q)[k - 1] = Event(t, "error") /\ \A j \in ((k - 1) + 1)..(n - 1) :
              ~Reopens(Tail(q)[j])
      BY <1>1, <2>1, <3>1, Zenon
    <3> QED
      BY <3>1, <3>2, Zenon DEF Told
  <2> QED
    BY <2>2, <2>3
<1> QED
  BY <1>2, <1>3, Zenon

LEMMA EarnedNone ==
  ASSUME NEW q, NEW s, NEW c, \A e \in Posted(q) : e.what # "success"
  PROVE  Earned(q, s, c)
BY Zenon DEF Earned, Posted

LEMMA EarnedMore ==
  ASSUME NEW q \in Seq(Events), NEW r \in Seq(Events), Prefix(q, r), NEW s, NEW c, NEW s2, NEW c2,
         Earned(q, s, c), s => s2, c \subseteq c2,
         \A n \in (Len(q) + 1)..Len(r) :
            r[n].what = "success" => \/ r[n].from \in c2 \cup {NoThread}
                                     \/ (s2 /\ Clear(r, n)) \/ Told(r, r[n].from, n)
  PROVE  Earned(r, s2, c2)
<1> SUFFICES ASSUME NEW n \in 1..Len(r), r[n].what = "success", r[n].from \notin c2 \cup {NoThread}
             PROVE  (s2 /\ Clear(r, n)) \/ Told(r, r[n].from, n)
  BY Zenon DEF Earned
<1>1. CASE n \in 1..Len(q)
  <2>1. n \in 1..(Len(q) + 1)
    BY <1>1, SMT
  <2>2. r[n] = q[n] /\ r[n].from \notin c \cup {NoThread}
    BY <1>1, Zenon DEF Prefix
  <2>3. (s /\ Clear(q, n)) \/ Told(q, r[n].from, n)
    BY <1>1, <2>2, Zenon DEF Earned
  <2> QED
    BY <2>1, <2>3, ToldPrefix, Zenon
<1>2. CASE n \in (Len(q) + 1)..Len(r)
  BY <1>2, Zenon
<1>3. Len(q) \in Nat /\ Len(r) \in Nat
  BY SMT
<1>4. n \in 1..Len(q) \/ n \in (Len(q) + 1)..Len(r)
  BY <1>3, SMT
<1> QED
  BY <1>1, <1>2, <1>4

LEMMA EarnedSame ==
  ASSUME NEW q, NEW s, NEW c, NEW s2, NEW c2, Earned(q, s, c), s => s2, c \subseteq c2
  PROVE  Earned(q, s2, c2)
BY Zenon DEF Earned

LEMMA EarnedTail ==
  ASSUME NEW q \in Seq(Events), q # <<>>, NEW s, NEW c, NEW s2, NEW c2,
         Earned(q, s, c), c \subseteq c2,
         s /\ ~Reopens(Head(q)) => s2, Head(q).what = "error" => s2
  PROVE  Earned(Tail(q), s2, c2)
<1> SUFFICES ASSUME NEW n \in 1..Len(Tail(q)), Tail(q)[n].what = "success",
                    Tail(q)[n].from \notin c2 \cup {NoThread}
             PROVE  (s2 /\ Clear(Tail(q), n)) \/ Told(Tail(q), Tail(q)[n].from, n)
  BY Zenon DEF Earned
<1>1. Tail(q)[n] = q[n + 1] /\ n + 1 \in 1..Len(q) /\ n \in 1..Len(q)
  BY SMT
<1> DEFINE t == Tail(q)[n].from
<1>2. (s /\ Clear(q, n + 1)) \/ Told(q, t, n + 1)
  BY <1>1, Zenon DEF Earned
<1>3. Head(q) = Event(t, "error") => Head(q).what = "error"
  BY EventIs
<1> QED
  BY <1>1, <1>2, <1>3, ToldTail, Zenon


LEMMA RemovalStep ==
  ASSUME [Next]_vars, ~May("removal"), ~May("waitRemoval"), ~deviceRemoval, muted = {}
  PROVE  ~deviceRemoval' /\ muted' = {}
<1> USE DEF threadVars, envVars
<1>1. ~DeviceRemoved
  BY Zenon DEF DeviceRemoved
<1>2. ASSUME UNCHANGED <<deviceRemoval, muted>> PROVE ~deviceRemoval' /\ muted' = {}
  BY <1>2, Zenon
<1>3. CASE UserStarts \/ UserChoosesDevice \/ UserCancels
  BY <1>2, <1>3, Zenon DEF UserStarts, StartWrite, UserChoosesDevice, UserCancels
<1>4. CASE HardTimeout \/ RestartNeeded \/ CacheVerified \/ FormatEnds
  BY <1>2, <1>4, Zenon DEF HardTimeout, RestartNeeded, CacheVerified, FormatEnds
<1>5. CASE \E t \in Threads : ThreadStep(t)
  BY <1>2, <1>5, Zenon DEF ThreadStep
<1>6. CASE HandleSignal(Head(queue)) \/ HandleFinished(Head(queue)) \/ HandleRestart(Head(queue))
  BY <1>2, <1>6, Zenon DEF HandleSignal, HandleFinished, HandleRestart
<1>7. CASE HandleOnCancelled(Head(queue))
  BY <1>2, <1>7, Zenon DEF HandleOnCancelled
<1>8. CASE HandleStart(Head(queue)) \/ HandleFinalSync(Head(queue)) \/ HandleDelete(Head(queue))
  BY <1>2, <1>8, Zenon DEF HandleStart, HandleFinalSync, HandleDelete
<1>9. CASE UNCHANGED sessions
  BY <1>2, <1>9, Zenon DEF sessions
<1> QED
  BY <1>1, <1>3, <1>4, <1>5, <1>6, <1>7, <1>8, <1>9, NextCases, Zenon

\* The queue after a step, as an extension of it or of its tail.
LEMMA QueueGrows ==
  ASSUME Settled, Shape
  PROVE  /\ Quiet \/ Continues => queue' = queue
         /\ Takes \/ Launches \/ Unblocks \/ Deletes => queue # <<>> /\ queue' = Tail(queue)
         /\ Forgets \/ Collects =>
              /\ queue # <<>> /\ queue' \in Seq(Events) /\ Prefix(Tail(queue), queue')
              /\ \A n \in (Len(Tail(queue)) + 1)..Len(queue') : queue'[n].what = "delete"
         /\ Formatted => \E e \in Events : queue' = Append(queue, e) /\ e.from = NoThread
             /\ ~Reopens(e)
         /\ \A t \in Threads : Returns(t) =>
              /\ queue' \in Seq(Events) /\ Prefix(queue, queue')
              /\ \A n \in (Len(queue) + 1)..Len(queue') : queue'[n].what \in EndEvents
<1> USE DEF Settled
<1>1. Quiet \/ Continues => queue' = queue
  BY Zenon DEF Quiet, Continues
<1>2. Takes \/ Launches \/ Unblocks \/ Deletes => queue # <<>> /\ queue' = Tail(queue)
  BY DeleteFacts, Zenon DEF Takes, Launches, Unblocks, Deletes
<1>t. queue # <<>> => Tail(queue) \in Seq(Events) /\ Head(queue) \in Events
  BY HeadIs, Zenon
<1>a. ASSUME NEW t \in Threads, queue # <<>>, queue' = Append(Tail(queue), Event(t, "delete"))
      PROVE  /\ queue' \in Seq(Events) /\ Prefix(Tail(queue), queue')
             /\ \A n \in (Len(Tail(queue)) + 1)..Len(queue') : queue'[n].what = "delete"
  <2>1. "delete" \in Whats
    BY SMT DEF Whats
  <2>2. Event(t, "delete") \in Events /\ Event(t, "delete").what = "delete"
            /\ Tail(queue) \in Seq(Events)
    BY <1>a, <1>t, <2>1, EventIs, Zenon
  <2>3. /\ Prefix(Tail(queue), queue') /\ Len(queue') = Len(Tail(queue)) + 1
        /\ queue'[Len(Tail(queue)) + 1] = Event(t, "delete")
    BY <1>a, <2>2, PrefixAppend, Zenon
  <2>4. queue' \in Seq(Events)
    BY <1>a, <2>2, PostedAppend
  <2>5. \A n \in (Len(Tail(queue)) + 1)..Len(queue') : n = Len(Tail(queue)) + 1
    BY <2>2, <2>3, SMT
  <2> QED
    BY <2>2, <2>3, <2>4, <2>5, Zenon
<1>b. ASSUME queue # <<>>, queue' = Tail(queue)
      PROVE  /\ queue' \in Seq(Events) /\ Prefix(Tail(queue), queue')
             /\ \A n \in (Len(Tail(queue)) + 1)..Len(queue') : queue'[n].what = "delete"
  BY <1>b, <1>t, SMT DEF Prefix
<1>3. Forgets \/ Collects =>
        /\ queue # <<>> /\ queue' \in Seq(Events) /\ Prefix(Tail(queue), queue')
        /\ \A n \in (Len(Tail(queue)) + 1)..Len(queue') : queue'[n].what = "delete"
  <2>1. thread = NoThread \/ thread \in Threads
    BY Zenon DEF CoreOK, ThreadOK
  <2>2. Collects => Head(queue).from \in Threads
    <3>1. "onCancelled" \notin {"success", "error", "start"}
      BY SMT
    <3> QED
      BY <1>t, <3>1, HeadIs, Zenon DEF EventsKept, Events, Collects
  <2>3. CASE Forgets
    BY <1>a, <1>b, <2>1, <2>3, Zenon DEF Forgets, Discard
  <2>4. CASE Collects
    BY <1>a, <2>2, <2>4, Zenon DEF Collects
  <2> QED
    BY <2>3, <2>4
<1>4. Formatted => \E e \in Events : queue' = Append(queue, e) /\ e.from = NoThread /\ ~Reopens(e)
  <2> SUFFICES ASSUME Formatted
               PROVE  \E e \in Events : queue' = Append(queue, e) /\ e.from = NoThread
                          /\ ~Reopens(e)
    OBVIOUS
  <2>1. PICK what \in {"success", "start", "error"} : queue' = Append(queue, Event(NoThread, what))
    BY Zenon DEF Formatted
  <2>2. what \in Whats /\ what \notin {"finalizing", "verify"}
    BY SMT DEF Whats
  <2>3. Event(NoThread, what) \in Events /\ Event(NoThread, what).from = NoThread
            /\ Event(NoThread, what).what = what
    BY <2>2, EventIs, Zenon
  <2> QED
    BY <2>1, <2>2, <2>3, Zenon DEF Reopens
<1>5. ASSUME NEW t \in Threads, Returns(t)
      PROVE  /\ queue' \in Seq(Events) /\ Prefix(queue, queue')
             /\ \A n \in (Len(queue) + 1)..Len(queue') : queue'[n].what \in EndEvents
  <2>1. queue' = queue \o FinishedEvents(t) /\ queue \in Seq(Events)
    BY <1>5, Zenon DEF Returns, CoreOK
  <2>2. /\ FinishedEvents(t) \in Seq(Events)
        /\ \A e \in Posted(FinishedEvents(t)) : e.what \in EndEvents
    BY PostedFinished, Zenon
  <2>3. /\ Prefix(queue, queue')
        /\ \A n \in (Len(queue) + 1)..Len(queue') : queue'[n] \in Posted(FinishedEvents(t))
    BY <2>1, <2>2, PrefixConcat, Zenon
  <2>4. queue' \in Seq(Events)
    BY <2>1, <2>2, SMT
  <2> QED
    BY <2>2, <2>3, <2>4, Zenon
<1> QED
  BY <1>1, <1>2, <1>3, <1>4, <1>5, Zenon

LEMMA OrderStep ==
  ASSUME Settled, Shape, OrderKept
  PROVE  OrderKept'
<1> USE DEF Settled
<1>q. queue \in Seq(Events) /\ Ordered(queue)
  BY Zenon DEF CoreOK, OrderKept
<1>t. queue # <<>> => /\ Tail(queue) \in Seq(Events) /\ Ordered(Tail(queue))
                      /\ Posted(Tail(queue)) \subseteq Posted(queue)
  BY <1>q, OrderedTail, HeadIs, Zenon
<1>w. "delete" \in EndEvents \cup {"delete"}
  BY Zenon
<1>1. CASE Quiet
  BY <1>1, Zenon DEF Quiet, OrderKept
<1>2. CASE Continues
  BY <1>2, <1>q, <1>w, ContinueFacts, Zenon DEF Continues, OrderKept
<1>3. CASE Starts
  <2>1. Posted(queue') = Dropped /\ \A e \in Posted(queue') : e.what = "delete"
    BY <1>3, StartFacts, DroppedIs, Zenon
  <2>2. "delete" \notin EndEvents
    BY SMT DEF EndEvents
  <2>3. Ordered(queue')
    BY <2>1, <2>2, Zenon DEF Ordered, Posted
  <2> QED
    BY <1>w, <2>1, <2>3, Zenon DEF OrderKept
<1>4. CASE Formatted
  <2>1. PICK e \in Events : queue' = Append(queue, e) /\ e.from = NoThread
    BY <1>4, QueueGrows, Zenon
  <2>2. Prefix(queue, queue') /\ Len(queue') = Len(queue) + 1 /\ queue'[Len(queue) + 1] = e
    BY <1>q, <2>1, PrefixAppend, Zenon
  <2>3. queue' \in Seq(Events) /\ Posted(queue') = Posted(queue) \cup {e}
    BY <1>q, <2>1, PostedAppend
  <2>4. \A n \in (Len(queue) + 1)..Len(queue') : n = Len(queue) + 1
    BY <1>q, <2>2, SMT
  <2>5. Ordered(queue')
    BY <1>q, <2>1, <2>2, <2>3, <2>4, OrderedMore, Zenon
  <2> QED
    BY <1>4, <2>1, <2>3, <2>5, Zenon DEF Formatted, OrderKept
<1>5. CASE \E t \in Threads : Returns(t)
  <2>1. PICK t \in Threads : Returns(t)
    BY <1>5, Zenon
  <2>2. thread' # NoThread
    BY <2>1, MoveFacts, Zenon DEF Returns
  <2>3. /\ queue' \in Seq(Events) /\ Prefix(queue, queue')
        /\ \A n \in (Len(queue) + 1)..Len(queue') : queue'[n].what \in EndEvents
    BY <2>1, QueueGrows, Zenon
  <2>4. Ordered(queue')
    BY <1>q, <2>3, OrderedMore, Zenon
  <2> QED
    BY <2>2, <2>4, Zenon DEF OrderKept
<1>6. CASE \E t \in Threads, doing \in Phases, what \in Whats : Works(t, doing, what)
  <2>1. PICK t \in Threads, doing \in Phases, what \in Whats : Works(t, doing, what)
    BY <1>6, Zenon
  <2>2. thread' # NoThread /\ t # NoThread
    BY <2>1, MoveFacts, Zenon DEF Works
  <2>3. \A e \in Posted(queue) : e.from = t => e.what \notin EndEvents
    <3>1. /\ \A w \in EndEvents : After(w) = {"ended", "deleted"} /\ w # "delete"
          /\ phase[t] \notin {"ended", "deleted"}
      BY <2>1, SMT DEF After, EndEvents, Works, Still
    <3> QED
      BY <2>2, <3>1, Zenon DEF EventsKept
  <2>4. CASE queue' = queue
    BY <2>2, <2>4, Zenon DEF OrderKept
  <2>5. CASE queue' = Append(queue, Event(t, what))
    <3>1. Event(t, what) \in Events /\ Event(t, what).from = t
      BY EventIs, Zenon
    <3>2. Prefix(queue, queue') /\ Len(queue') = Len(queue) + 1
              /\ queue'[Len(queue) + 1] = Event(t, what)
      BY <1>q, <2>5, PrefixAppend, Zenon
    <3>3. queue' \in Seq(Events)
      BY <1>q, <2>5, <3>1, PostedAppend
    <3>4. \A n \in (Len(queue) + 1)..Len(queue') : n = Len(queue) + 1
      BY <1>q, <3>2, SMT
    <3>5. Ordered(queue')
      BY <1>q, <2>3, <3>1, <3>2, <3>3, <3>4, OrderedMore, Zenon
    <3> QED
      BY <2>2, <3>5, Zenon DEF OrderKept
  <2> QED
    BY <2>1, <2>4, <2>5, Zenon DEF Works
<1>7. CASE Takes \/ Launches \/ Unblocks \/ Deletes
  <2>1. queue # <<>> /\ queue' = Tail(queue) /\ thread' = thread
    BY <1>7, QueueGrows, Zenon DEF Takes, Launches, Unblocks, Deletes
  <2> QED
    BY <1>t, <2>1, Zenon DEF OrderKept
<1>8. CASE Forgets \/ Collects
  <2>1. /\ queue # <<>> /\ queue' \in Seq(Events) /\ Prefix(Tail(queue), queue')
        /\ \A n \in (Len(Tail(queue)) + 1)..Len(queue') : queue'[n].what = "delete"
    BY <1>8, QueueGrows, Zenon
  <2>2. Ordered(queue')
    BY <1>t, <1>w, <2>1, OrderedMore, Zenon
  <2>3. Head(queue).what \in EndEvents /\ Head(queue).what # "delete"
            /\ Head(queue).what \notin {"success", "error", "start"}
    BY <1>8, SMT DEF Forgets, Collects, EndEvents
  <2>4. Head(queue).from # NoThread /\ (thread = NoThread \/ Head(queue).from = thread)
    BY <2>1, <2>3, HeadFacts, HeadIs, Zenon DEF EventsKept
  <2>5. \A e \in Posted(Tail(queue)) : e.from = NoThread \/ e.what \in EndEvents \cup {"delete"}
    <3>1. CASE thread = NoThread
      BY <1>t, <2>1, <3>1, Zenon DEF OrderKept
    <3>2. CASE thread # NoThread
      <4>1. \A e \in Posted(Tail(queue)) : e.what = "delete" \/ e.from \in {thread, NoThread}
        BY <1>t, <2>1, <3>2, Zenon DEF CurrentKept
      <4>2. \A e \in Posted(Tail(queue)) : e.from = Head(queue).from
                => e.what \in EndEvents \cup {"delete"}
        BY <1>q, <2>1, <2>3, <2>4, OrderedTail, Zenon
      <4> QED
        BY <1>w, <2>4, <3>2, <4>1, <4>2, Zenon
    <3> QED
      BY <3>1, <3>2
  <2>6. \A e \in Posted(queue') : e \in Posted(Tail(queue)) \/ e.what = "delete"
    <3>1. Event(Head(queue).from, "delete").what = "delete"
      BY EventIs
    <3> QED
      BY <1>8, <3>1, DroppedIs, QueueSteps, Zenon
  <2> QED
    BY <1>w, <2>2, <2>5, <2>6, Zenon DEF OrderKept
<1> QED
  BY <1>1, <1>2, <1>3, <1>4, <1>5, <1>6, <1>7, <1>8, Zenon DEF Shape


LEMMA StatesApart ==
  /\ {"Idle", "Writing", "Preparing", "Succeeded", "Finalizing", "Verifying"}
       \cap {"Failed", "Cancelled", "Cancelling"} = {}
  /\ "Writing" # "Cancelling" /\ "error" \notin {"success", "finalizing", "verify"}
BY SMT

\* A running thread that was not cancelled has not been given up.
LEMMA TrustedStep ==
  ASSUME Settled, Shape, SetsGrow, ~deviceRemoval, VerdictKept
  PROVE  Running(thread)' /\ thread' \notin cancelled' => ~Doomed'
<1> USE DEF Settled
<1>v. Running(thread) /\ thread \notin cancelled => ~Doomed
  BY Zenon DEF VerdictKept
<1>d. Doomed' <=> writeState' \in {"Failed", "Cancelled", "Cancelling"}
  BY Zenon DEF Doomed
<1>k. ASSUME writeState' = writeState, thread' = thread,
             thread # NoThread /\ phase'[thread] \notin Still => phase[thread] \notin Still
      PROVE  Running(thread)' /\ thread' \notin cancelled' => ~Doomed'
  BY <1>v, <1>k, Zenon DEF Running, Doomed, SetsGrow
<1>n. thread' = NoThread => ~Running(thread)'
  BY Zenon DEF Running
<1>t. thread # NoThread => thread \in Threads
  BY Zenon DEF CoreOK, ThreadOK
<1>1. CASE Quiet
  <2>1. \/ writeState' = writeState
        \/ writeState' = "Idle"
        \/ writeState' = "Cancelling" /\ (thread # NoThread => thread \in cancelled')
        \/ thread \in cancelled'
    BY <1>1, Zenon DEF Quiet
  <2> QED
    BY <1>1, <1>d, <1>k, <1>n, <2>1, StatesApart, Zenon DEF Quiet
<1>2. CASE Continues \/ Starts
  <2>1. thread' = NoThread \/ writeState' = "Writing"
    BY <1>2, Zenon DEF Continues, Starts, Created
  <2> QED
    BY <1>d, <1>n, <2>1, StatesApart, Zenon
<1>3. CASE Formatted
  BY <1>3, <1>k, Zenon DEF Formatted
<1>4. CASE \E t \in Threads : Returns(t)
  <2>1. PICK t \in Threads : Returns(t)
    BY <1>4, Zenon
  <2> QED
    BY <1>k, <2>1, MoveFacts, Zenon DEF Returns
<1>5. CASE \E t \in Threads, doing \in Phases, what \in Whats : Works(t, doing, what)
  <2>1. PICK t \in Threads, doing \in Phases, what \in Whats : Works(t, doing, what)
    BY <1>5, Zenon
  <2> QED
    BY <1>k, <2>1, MoveFacts, Zenon DEF Works
<1>6. CASE Takes
  <2>1. \/ writeState' = writeState
        \/ writeState' \in {"Succeeded", "Finalizing", "Verifying"}
        \/ Running(thread) => thread \in cancelled'
    BY <1>6, Zenon DEF Takes
  <2>2. thread' = thread /\ phase' = phase
    BY <1>6, Zenon DEF Takes
  <2>3. Running(thread)' => Running(thread)
    BY <2>2, Zenon DEF Running
  <2> QED
    BY <1>d, <1>k, <2>1, <2>2, <2>3, StatesApart, Zenon
<1>7. CASE Forgets \/ Collects
  <2>1. /\ queue # <<>> /\ Head(queue).what \in EndEvents /\ Head(queue).what # "delete"
        /\ UNCHANGED phase /\ (thread' = NoThread \/ thread' = thread)
    BY <1>7, SMT DEF Forgets, Collects, EndEvents
  <2>2. \A t \in Threads : ~Live(t)
    BY <2>1, HeadFacts, Zenon
  <2>3. thread' # NoThread => phase[thread'] \in Still
    BY <1>t, <2>1, <2>2, BusyIsLive, Zenon
  <2> QED
    BY <2>1, <2>3, Zenon DEF Running
<1>8. CASE Launches
  <2>1. /\ writeState' = writeState /\ thread' = thread /\ UNCHANGED cancelled
    BY <1>8, Zenon DEF Launches
  <2>2. CASE thread # NoThread /\ phase[thread] = "created"
    <3>1. Current("extracting")'
      BY <1>8, <1>t, <2>1, <2>2, PhaseSteps, Zenon DEF Current
    <3>2. writeState' = IF thread' \in cancelled' THEN "Cancelling" ELSE "Writing"
      BY <3>1, FormatStep, Zenon DEF FormatKept
    <3> QED
      BY <1>d, <3>2, StatesApart, Zenon
  <2>3. CASE thread # NoThread /\ phase[thread] # "created"
    <3>1. phase'[thread] = phase[thread]
      BY <1>8, <1>t, <2>3, PhaseSteps, Zenon
    <3> QED
      BY <1>k, <2>1, <3>1, Zenon
  <2> QED
    BY <1>n, <2>1, <2>2, <2>3, Zenon
<1>9. CASE Unblocks
  <2>1. "blocked" \notin Still
    BY SMT DEF Still
  <2> QED
    BY <1>9, <1>k, <1>t, <2>1, PhaseSteps, Zenon DEF Unblocks
<1>10. CASE Deletes
  <2>1. "deleted" \in Still
    BY SMT DEF Still
  <2> QED
    <3>1. thread # NoThread /\ phase'[thread] \notin Still => phase'[thread] = phase[thread]
      BY <1>10, <1>t, <2>1, PhaseSteps, Zenon
    <3>2. writeState' = writeState /\ thread' = thread
      BY <1>10, Zenon DEF Deletes
    <3>3. thread # NoThread /\ phase'[thread] \notin Still => phase[thread] \notin Still
      BY <3>1, Zenon
    <3> QED
      BY <1>k, <3>2, <3>3
<1> QED
  BY <1>1, <1>2, <1>3, <1>4, <1>5, <1>6, <1>7, <1>8, <1>9, <1>10, Zenon DEF Shape

\* A thread that failed and was not cancelled has said so.
LEMMA FailureStep ==
  ASSUME Settled, Shape, SetsGrow, ~deviceRemoval, muted = {}, VerdictKept
  PROVE  \A t \in Threads \ cancelled' : phase'[t] = "failed" => Told(queue', t, Len(queue') + 1)
<1> USE DEF Settled
<1> SUFFICES ASSUME NEW t \in Threads \ cancelled', phase'[t] = "failed"
             PROVE  Told(queue', t, Len(queue') + 1)
  BY Zenon
<1>c. t \in Threads \ cancelled
  BY Zenon DEF SetsGrow
<1>v. phase[t] = "failed" => Told(queue, t, Len(queue) + 1)
  BY <1>c, Zenon DEF VerdictKept
<1>q. queue \in Seq(Events)
  BY Zenon DEF CoreOK
<1>f. phase[t] = "failed" => phase[t] \notin Still /\ Live(t) /\ t = thread /\ Running(thread)
  <2>1. ASSUME phase[t] = "failed" PROVE phase[t] \notin Still /\ Live(t) /\ t # NoThread
    BY <2>1, SMT DEF Still, Live, Threads, NoThread
  <2> QED
    BY <2>1, RunningIs, Zenon DEF Running
<1>s. "failed" \notin {"none", "created", "extracting", "writing", "syncing", "ended", "deleted"}
  BY SMT
<1>l. ASSUME queue # <<>>, queue' = Tail(queue), phase[t] = "failed",
             Head(queue) # Event(t, "error")
      PROVE  Told(queue', t, Len(queue') + 1)
  <2>1. Len(queue) = Len(queue') + 1 /\ Len(queue) \in 1..Len(queue)
    BY <1>q, <1>l, SMT
  <2> QED
    BY <1>q, <1>l, <1>v, <2>1, ToldTail, Zenon
<1>e. Event(t, "error").what = "error"
  BY EventIs
<1>1. CASE Quiet
  BY <1>1, <1>v, Zenon DEF Quiet
<1>2. CASE Continues
  <2>1. phase[t] = "failed"
    <3>1. "failed" \notin {"writing", "created"}
      BY SMT
    <3> QED
      BY <1>2, <3>1, PhaseSteps, Zenon DEF Continues
  <2> QED
    BY <1>2, <1>v, <2>1, Zenon DEF Continues
<1>3. CASE Starts
  <2>1. phase[t] = "failed"
    <3>1. "failed" \notin {"writing", "created"}
      BY SMT
    <3> QED
      BY <1>3, <3>1, PhaseSteps, Zenon DEF Starts
  <2> QED
    BY <1>3, <1>f, <2>1, StartFacts, Zenon
<1>4. CASE Formatted
  <2>1. PICK e \in Events : queue' = Append(queue, e) /\ ~Reopens(e)
    BY <1>4, QueueGrows, Zenon
  <2>2. Told(queue, t, Len(queue) + 1)
    BY <1>4, <1>v, Zenon DEF Formatted
  <2> QED
    BY <1>q, <2>1, <2>2, ToldMore, Zenon
<1>5. CASE \E u \in Threads : Returns(u)
  <2>1. PICK u \in Threads : Returns(u)
    BY <1>5, Zenon
  <2>2. phase'[u] = "ended" /\ \A w \in Threads \ {u} : phase'[w] = phase[w]
    BY <2>1, PhaseSteps, Zenon
  <2>3. t # u /\ phase[t] = "failed"
    BY <1>c, <1>s, <2>2, Zenon
  <2>4. u = thread
    BY <2>1, MoveFacts, Zenon DEF Returns
  <2> QED
    BY <1>f, <2>3, <2>4, Zenon
<1>6. CASE \E u \in Threads, doing \in Phases, what \in Whats : Works(u, doing, what)
  <2>1. PICK u \in Threads, doing \in Phases, what \in Whats : Works(u, doing, what)
    BY <1>6, Zenon
  <2>2. phase'[u] = doing /\ \A w \in Threads \ {u} : phase'[w] = phase[w]
    BY <2>1, PhaseSteps, Zenon
  <2>3. u = thread
    BY <2>1, MoveFacts, Zenon DEF Works
  <2>4. t = u /\ doing = "failed"
    BY <1>c, <1>f, <2>2, <2>3, Zenon
  <2>5. queue' = Append(queue, Event(t, "error"))
    BY <2>1, <2>4, Zenon DEF Works
  <2> QED
    BY <1>q, <2>5, ToldNow, Zenon
<1>7. CASE Takes
  <2>1. queue # <<>> /\ queue' = Tail(queue) /\ phase[t] = "failed"
    BY <1>7, Zenon DEF Takes
  <2>2. CASE Head(queue) = Event(t, "error")
    <3>1. thread \notin cancelled' /\ Running(thread) /\ thread \notin cancelled /\ t = thread
      BY <1>c, <1>f, <2>1, Zenon
    <3>2. ~Doomed
      BY <3>1, Zenon DEF VerdictKept
    <3>3. Head(queue).what = "error" /\ ~Reopens(Head(queue))
      BY <1>e, <2>2, StatesApart, Zenon DEF Reopens
    <3> QED
      BY <1>7, <3>1, <3>2, <3>3, StatesApart, Zenon DEF Takes
  <2> QED
    BY <1>l, <2>1, <2>2, Zenon
<1>8. CASE Forgets \/ Collects
  <2>1. /\ queue # <<>> /\ Head(queue).what \in EndEvents /\ Head(queue).what # "delete"
            /\ UNCHANGED phase
    BY <1>8, SMT DEF Forgets, Collects, EndEvents
  <2> QED
    BY <1>f, <2>1, HeadFacts, Zenon
<1>9. CASE Launches \/ Unblocks \/ Deletes
  <2>1. queue # <<>> /\ queue' = Tail(queue)
    BY <1>9, QueueGrows, Zenon
  <2>2. Head(queue).what # "error"
    <3>1. Head(queue).what = "start" \/ Head(queue).what = "finalSync"
              \/ Head(queue).what = "delete"
      BY <1>9, Zenon DEF Launches, Unblocks, Deletes
    <3> QED
      BY <3>1, SMT
  <2>3. phase[t] = "failed"
    BY <1>9, <1>s, PhaseSteps, Zenon
  <2> QED
    BY <1>e, <1>l, <2>1, <2>2, <2>3, Zenon
<1> QED
  BY <1>1, <1>2, <1>3, <1>4, <1>5, <1>6, <1>7, <1>8, <1>9, Zenon DEF Shape

\* A success() that is not one finds the session stopped.
LEMMA EarnedStep ==
  ASSUME Settled, Shape, SetsGrow, ~deviceRemoval, VerdictKept
  PROVE  Earned(queue', Doomed', completed')
<1> USE DEF Settled
<1>q. queue \in Seq(Events) /\ Earned(queue, Doomed, completed) /\ completed \subseteq completed'
  BY Zenon DEF CoreOK, VerdictKept, SetsGrow
<1>d. /\ Doomed <=> writeState \in {"Failed", "Cancelled", "Cancelling"}
      /\ Doomed' <=> writeState' \in {"Failed", "Cancelled", "Cancelling"}
  BY Zenon DEF Doomed
<1>u. writeState' = writeState => (Doomed => Doomed')
  BY <1>d, Zenon
<1>n. \A w \in EndEvents \cup {"delete"} : w # "success"
  BY SMT DEF EndEvents
<1>t. queue # <<>> => Tail(queue) \in Seq(Events)
  BY HeadIs, Zenon
<1>1. CASE Quiet
  <2>1. queue' = queue
    BY <1>1, Zenon DEF Quiet
  <2>2. CASE queue = <<>>
    BY <2>1, <2>2, PostedEmpty, EarnedNone, Zenon
  <2>3. CASE Doomed => Doomed'
    <3>1. Earned(queue, Doomed', completed')
      BY <1>q, <2>3, EarnedSame
    <3> QED
      BY <2>1, <3>1, Zenon
  <2>4. queue = <<>> \/ (Doomed => Doomed')
    BY <1>1, <1>d, Zenon DEF Quiet
  <2> QED
    BY <2>2, <2>3, <2>4, Zenon
<1>2. CASE Continues \/ Starts
  <2>1. \A e \in Posted(queue') : e.what = "delete"
    BY <1>2, ContinueFacts, StartFacts, DroppedIs, Zenon DEF Continues
  <2>2. "delete" # "success"
    BY SMT
  <2> QED
    BY <2>1, <2>2, EarnedNone, Zenon
<1>3. CASE Formatted
  <2>1. PICK e \in Events : queue' = Append(queue, e) /\ e.from = NoThread
    BY <1>3, QueueGrows, Zenon
  <2>2. Prefix(queue, queue') /\ Len(queue') = Len(queue) + 1 /\ queue'[Len(queue) + 1] = e
    BY <1>q, <2>1, PrefixAppend, Zenon
  <2>3. queue' \in Seq(Events)
    BY <1>q, <2>1, PostedAppend
  <2>4. \A n \in (Len(queue) + 1)..Len(queue') : n = Len(queue) + 1
    BY <1>q, <2>2, SMT
  <2>5. Doomed => Doomed'
    BY <1>3, <1>u, Zenon DEF Formatted
  <2>6. \A n \in (Len(queue) + 1)..Len(queue') :
          queue'[n].what = "success" => \/ queue'[n].from \in completed' \cup {NoThread}
                                        \/ (Doomed' /\ Clear(queue', n))
                                            \/ Told(queue', queue'[n].from, n)
    BY <2>1, <2>2, <2>4, Zenon
  <2> QED
    BY <1>q, <2>2, <2>3, <2>5, <2>6, EarnedMore, Zenon
<1>4. CASE \E t \in Threads : Returns(t)
  <2>1. PICK t \in Threads : Returns(t)
    BY <1>4, Zenon
  <2>2. /\ queue' \in Seq(Events) /\ Prefix(queue, queue')
        /\ \A n \in (Len(queue) + 1)..Len(queue') : queue'[n].what # "success"
    BY <1>n, <2>1, QueueGrows, Zenon
  <2>3. Doomed => Doomed'
    BY <1>u, <2>1, Zenon DEF Returns
  <2> QED
    BY <1>q, <2>2, <2>3, EarnedMore, Zenon
<1>5. CASE \E t \in Threads, doing \in Phases, what \in Whats : Works(t, doing, what)
  <2>1. PICK t \in Threads, doing \in Phases, what \in Whats : Works(t, doing, what)
    BY <1>5, Zenon
  <2>2. Doomed => Doomed'
    BY <1>u, <2>1, Zenon DEF Works
  <2>3. t = thread
    BY <2>1, MoveFacts, Zenon DEF Works
  <2>4. CASE queue' = queue
    <3>1. Earned(queue, Doomed', completed')
      BY <1>q, <2>2, EarnedSame
    <3> QED
      BY <2>4, <3>1, Zenon
  <2>5. CASE queue' = Append(queue, Event(t, what))
    <3>1. Event(t, what) \in Events /\ Event(t, what).from = t /\ Event(t, what).what = what
      BY EventIs, Zenon
    <3>2. Prefix(queue, queue') /\ Len(queue') = Len(queue) + 1
              /\ queue'[Len(queue) + 1] = Event(t, what)
      BY <1>q, <2>5, PrefixAppend, Zenon
    <3>3. queue' \in Seq(Events)
      BY <1>q, <2>5, <3>1, PostedAppend
    <3>4. /\ \A n \in (Len(queue) + 1)..Len(queue') : n = Len(queue) + 1
          /\ Len(queue) + 1 \in 1..(Len(queue) + 1)
      BY <1>q, <3>2, SMT
    <3>5. ASSUME what = "success", t \notin completed'
          PROVE  (Doomed' /\ Clear(queue', Len(queue) + 1)) \/ Told(queue', t, Len(queue) + 1)
      <4>1. CASE phase[t] = "extracting" /\ t \in cancelled
        <5>1. Current("extracting")
          BY <2>1, <2>3, <4>1, MoveFacts, Zenon DEF Works, Current
        <5>2. Doomed
          BY <1>d, <2>3, <4>1, <5>1, Zenon DEF FormatKept
        <5>3. \A e \in Posted(queue) : ~Reopens(e)
          <6> SUFFICES ASSUME NEW e \in Posted(queue), Reopens(e) PROVE FALSE
            OBVIOUS
          <6>1. e.what \notin {"delete", "success", "error", "start"}
            BY SMT DEF Reopens
          <6>2. e.from # NoThread
            BY <6>1, Zenon DEF EventsKept
          <6>3. e.from = t
            BY <2>3, <5>1, <6>1, <6>2, Zenon DEF CurrentKept, Current
          <6>4. phase[t] \in After(e.what)
            BY <6>1, <6>2, <6>3, Zenon DEF EventsKept
          <6>5. "extracting" \notin After(e.what)
            BY SMT DEF After, EndEvents
          <6> QED
            BY <4>1, <6>4, <6>5, Zenon
        <5>4. Clear(queue, Len(queue) + 1)
          <6>1. \A j \in 1..((Len(queue) + 1) - 1) : j \in 1..Len(queue)
            BY <1>q, SMT
          <6> QED
            BY <5>3, <6>1, Zenon DEF Clear, Posted
        <5> QED
          BY <1>q, <2>2, <3>2, <3>3, <3>4, <5>2, <5>4, ToldPrefix, Zenon
      <4>2. CASE phase[t] = "failed" /\ t \notin cancelled
        <5>1. Told(queue, t, Len(queue) + 1)
          BY <4>2, Zenon DEF VerdictKept
        <5> QED
          BY <1>q, <3>2, <3>3, <3>4, <5>1, ToldPrefix, Zenon
      <4>3. ~(phase[t] = "ejecting" /\ t \notin cancelled)
        BY <1>q, <3>5, Zenon DEF ThreadsKept
      <4> QED
        BY <2>1, <3>5, <4>1, <4>2, <4>3, Zenon DEF Works
    <3>6. \A n \in (Len(queue) + 1)..Len(queue') :
            queue'[n].what = "success" => \/ queue'[n].from \in completed' \cup {NoThread}
                                          \/ (Doomed' /\ Clear(queue', n))
                                              \/ Told(queue', queue'[n].from, n)
      BY <3>1, <3>2, <3>4, <3>5, Zenon
    <3> QED
      BY <1>q, <2>2, <3>2, <3>3, <3>6, EarnedMore, Zenon
  <2> QED
    BY <2>1, <2>4, <2>5, Zenon DEF Works
<1>6. CASE Takes
  <2>1. queue # <<>> /\ queue' = Tail(queue)
    BY <1>6, Zenon DEF Takes
  <2>2. Doomed /\ ~Reopens(Head(queue)) => Doomed'
    BY <1>6, <1>d, StatesApart, Zenon DEF Takes
  <2>3. Head(queue).what = "error" => Doomed'
    BY <1>6, <1>d, StatesApart, Zenon DEF Takes, Reopens
  <2> QED
    BY <1>q, <2>1, <2>2, <2>3, EarnedTail, Zenon
<1>7. CASE Launches \/ Unblocks \/ Deletes
  <2>1. queue # <<>> /\ queue' = Tail(queue)
    BY <1>7, QueueGrows, Zenon
  <2>2. Head(queue).what # "error"
    <3>1. Head(queue).what = "start" \/ Head(queue).what = "finalSync"
              \/ Head(queue).what = "delete"
      BY <1>7, Zenon DEF Launches, Unblocks, Deletes
    <3> QED
      BY <3>1, SMT
  <2>3. Doomed => Doomed'
    BY <1>7, <1>u, Zenon DEF Launches, Unblocks, Deletes
  <2> QED
    BY <1>q, <2>1, <2>2, <2>3, EarnedTail, Zenon
<1>8. CASE Forgets \/ Collects
  <2>1. /\ queue # <<>> /\ queue' \in Seq(Events) /\ Prefix(Tail(queue), queue')
        /\ \A n \in (Len(Tail(queue)) + 1)..Len(queue') : queue'[n].what # "success"
    BY <1>8, <1>n, QueueGrows, Zenon
  <2>2. Head(queue).what # "error"
    BY <1>8, SMT DEF Forgets, Collects
  <2>3. Doomed => Doomed'
    BY <1>8, <1>d, <1>u, Zenon DEF Forgets, Collects
  <2>4. Earned(Tail(queue), Doomed', completed')
    BY <1>q, <2>1, <2>2, <2>3, EarnedTail, Zenon
  <2> QED
    <3>1. Tail(queue) \in Seq(Events) /\ completed' \subseteq completed' /\ (Doomed' => Doomed')
      BY <1>t, <2>1, Zenon
    <3>2. \A n \in (Len(Tail(queue)) + 1)..Len(queue') :
            queue'[n].what = "success" => \/ queue'[n].from \in completed' \cup {NoThread}
                                          \/ (Doomed' /\ Clear(queue', n))
                                              \/ Told(queue', queue'[n].from, n)
      BY <2>1, Zenon
    <3> QED
      BY <2>1, <2>4, <3>1, <3>2, EarnedMore, Zenon
<1> QED
  BY <1>1, <1>2, <1>3, <1>4, <1>5, <1>6, <1>7, <1>8, Zenon DEF Shape

-------------------------------------------------------------------------------
(***************************************************************************)
(* The invariant, and what follows from it.                                *)
(***************************************************************************)
LEMMA IInvInit == Init => IInv
<1> SUFFICES ASSUME Init PROVE IInv
  BY Zenon
<1>1. Base
  BY BaseInit, Zenon
<1>2. /\ queue = <<>> /\ Posted(queue) = {} /\ thread = NoThread /\ ~waiting /\ format = "off"
      /\ \A t \in Threads : phase[t] = "none"
  BY PostedEmpty, SMT DEF Init
<1>3. \A t \in Threads : ~Live(t) /\ phase[t] \notin Busy /\ phase[t] # "failed"
  BY <1>2, SMT DEF Live, Busy
<1>4. OrphanKept /\ CurrentKept /\ WaitKept
  BY <1>2, <1>3, Zenon DEF OrphanKept, CurrentKept, WaitKept
<1>5. FormatKept
  <2>1. ~Current("created") /\ ~Current("extracting") /\ format # "files" /\ format # "drive"
    BY <1>2, SMT DEF Current
  <2>2. OneResult(queue) /\ NoResult(queue)
    BY <1>2, SMT DEF OneResult, NoResult
  <2> QED
    BY <1>2, <2>1, <2>2, Zenon DEF FormatKept, FilesPending, DrivePending
<1>6. DeviceReleased
  BY <1>3, Zenon DEF DeviceReleased, Busy
<1>7. OrderKept
  <2>1. Ordered(queue)
    BY <1>2, SMT DEF Ordered
  <2> QED
    BY <1>2, <2>1, Zenon DEF OrderKept
<1>8. VerdictKept
  <2>1. Earned(queue, Doomed, completed)
    BY <1>2, SMT DEF Earned
  <2> QED
    BY <1>2, <1>3, <2>1, Zenon DEF VerdictKept, Running
<1>9. ~deviceRemoval /\ muted = {}
  BY Zenon DEF Init
<1> QED
  BY <1>1, <1>4, <1>5, <1>6, <1>7, <1>8, <1>9, Zenon DEF IInv, PatientInv, SuccessInv

LEMMA IInvNext == IInv /\ [Next]_vars => IInv'
<1> SUFFICES ASSUME IInv, [Next]_vars PROVE IInv'
  BY Zenon
<1>1. Base /\ FlagsOK /\ StateOK /\ CoreOK /\ SetsOK /\ EventsKept /\ ThreadsKept
  BY TypeParts, Zenon DEF IInv, Base
<1>2. Shape
  BY <1>1, Shapes
<1>3. Base' /\ SetsGrow
  BY <1>1, BaseStep
<1>4. situation' = situation
  BY NextCases
<1>5. ~May("cacheWait")' => OrphanKept'
  <2>1. ASSUME ~May("cacheWait") PROVE OrphanKept'
    <3>1. OrphanKept
      BY <2>1, Zenon DEF IInv
    <3> QED
      BY <1>1, <1>2, <1>3, <2>1, <3>1, OrphanStep
  <2> QED
    BY <1>4, <2>1, Zenon DEF May
<1>6. (Patient' <=> Patient) /\ (Undisturbed' <=> Undisturbed)
  BY <1>4, Zenon DEF Undisturbed, Patient, May
<1>7. ASSUME Patient PROVE Settled /\ DeviceReleased
  BY <1>1, <1>7, Zenon DEF IInv, PatientInv, Settled
<1>8. Patient' => PatientInv'
  <2>1. ASSUME Patient PROVE PatientInv'
    <3>1. Settled /\ DeviceReleased
      BY <1>7, <2>1
    <3>2. CurrentKept'
      BY <1>2, <3>1, CurrentStep
    <3>3. WaitKept'
      BY <1>1, <1>2, <3>1, WaitStep
    <3>4. FormatKept'
      BY <1>2, <1>3, <3>1, FormatStep
    <3>5. DeviceReleased'
      BY <1>2, <1>3, <3>1, ReleaseStep
    <3> QED
      BY <3>2, <3>3, <3>4, <3>5, Zenon DEF PatientInv
  <2> QED
    BY <1>6, <2>1, Zenon
<1>9. Undisturbed' => SuccessInv'
  <2>1. ASSUME Undisturbed PROVE SuccessInv'
    <3>1. Settled /\ ~May("removal") /\ ~May("waitRemoval")
      BY <1>7, <2>1, Zenon DEF Undisturbed
    <3>2. ~deviceRemoval /\ muted = {} /\ OrderKept /\ VerdictKept
      BY <2>1, Zenon DEF IInv, SuccessInv
    <3>3. ~deviceRemoval' /\ muted' = {}
      BY <3>1, <3>2, RemovalStep
    <3>4. OrderKept'
      BY <1>2, <3>1, <3>2, OrderStep
    <3>5. Running(thread)' /\ thread' \notin cancelled' => ~Doomed'
      BY <1>2, <1>3, <3>1, <3>2, TrustedStep
    <3>6. \A t \in Threads \ cancelled' : phase'[t] = "failed" => Told(queue', t, Len(queue') + 1)
      BY <1>2, <1>3, <3>1, <3>2, FailureStep
    <3>7. Earned(queue', Doomed', completed')
      BY <1>2, <1>3, <3>1, <3>2, EarnedStep
    <3>8. VerdictKept'
      BY <3>5, <3>6, <3>7, Zenon DEF VerdictKept
    <3> QED
      BY <3>3, <3>4, <3>8, Zenon DEF SuccessInv
  <2> QED
    BY <1>6, <2>1, Zenon
<1> QED
  BY <1>3, <1>5, <1>8, <1>9, Zenon DEF IInv

LEMMA InvKept == Spec => []IInv
<1>1. Init => IInv
  BY IInvInit
<1>2. IInv /\ [Next]_vars => IInv'
  BY IInvNext
<1> QED
  BY <1>1, <1>2, PTL DEF Spec

LEMMA IInvOrphan == IInv => NoOrphan
<1> SUFFICES ASSUME IInv, Patient \/ ~May("cacheWait") PROVE NobodyOrphaned
  BY Zenon DEF NoOrphan
<1>1. queue \in Seq(Events)
  BY TypeParts, Zenon DEF IInv, Base, CoreOK
<1>2. \A t \in Threads : Running(t) => Live(t) /\ phase[t] # "created"
  BY BusyIsLive, Zenon DEF Running
<1>3. \A t \in Threads : Event(t, "delete") \in Posted(queue) =>
        \E i \in DOMAIN queue : queue[i] = Event(t, "delete")
  BY <1>1, SMT DEF Posted
<1>4. CASE Patient
  BY <1>2, <1>4, Zenon DEF IInv, PatientInv, CurrentKept, NobodyOrphaned
<1>5. CASE ~May("cacheWait")
  BY <1>2, <1>3, <1>5, Zenon DEF IInv, OrphanKept, NobodyOrphaned
<1> QED
  BY <1>4, <1>5, Zenon

\* A success is shown only in answer to a success().
LEMMA ShownIs ==
  ASSUME Shape, ShowsSuccess
  PROVE  queue # <<>> /\ Head(queue).what = "success" /\ ~Doomed
<1>1. "Succeeded" \notin {"Idle", "Failed", "Writing", "Preparing", "Cancelling",
                          "Cancelled", "Finalizing",
                          "Verifying"}
  BY SMT
<1> QED
  BY <1>1, Zenon DEF ShowsSuccess, Shape, Quiet, Continues, Created, Starts, Formatted,
     Returns, Works, Takes,
     Forgets, Collects, Launches, Unblocks, Deletes

\* What precedes a success() that counts.
LEMMA SuccessFacts ==
  ASSUME IInv, Undisturbed, queue # <<>>, Head(queue).what = "success", ~Doomed
  PROVE  OfThisWrite
<1> DEFINE e == Head(queue)
<1>1. queue \in Seq(Events) /\ CurrentKept /\ FormatKept /\ OrderKept
          /\ Earned(queue, Doomed, completed)
  BY TypeParts, Zenon DEF IInv, Base, CoreOK, Undisturbed, PatientInv, SuccessInv, VerdictKept
<1>2. e \in Posted(queue) /\ e \in Events /\ 1 \in 1..Len(queue) /\ queue[1] = e
  BY <1>1, SMT DEF Posted
<1>3. "success" \notin EndEvents \cup {"delete"}
  BY SMT DEF EndEvents
<1>4. CASE e.from = NoThread
  <2>1. e = Event(NoThread, "success")
    BY <1>2, <1>4, SMT DEF Events, Event
  <2> QED
    BY <1>1, <1>2, <1>4, <2>1, Zenon DEF FormatKept, DrivePending, OfThisWrite
<1>5. CASE e.from # NoThread
  <2>1. thread # NoThread
    BY <1>1, <1>2, <1>3, <1>5, Zenon DEF OrderKept
  <2>2. e.from = thread
    BY <1>1, <1>2, <1>3, <1>5, <2>1, Zenon DEF CurrentKept
  <2>3. ~Told(queue, thread, 1)
    BY SMT DEF Told
  <2>4. thread \in completed
    BY <1>1, <1>2, <2>1, <2>2, <2>3, Zenon DEF Earned
  <2> QED
    BY <2>2, <2>4, Zenon DEF OfThisWrite
<1> QED
  BY <1>4, <1>5, Zenon

-------------------------------------------------------------------------------
(***************************************************************************)
(* However many sessions there are, and whatever comes together in them:   *)
(* every variable keeps its type, and _thread (imagewriter.h) is null or   *)
(* an object that exists and has not been deleted.                         *)
(***************************************************************************)
THEOREM TypeCorrect == Spec => []TypeOK
<1>1. IInv => TypeOK
  BY Zenon DEF IInv, Base
<1> QED
  BY <1>1, InvKept, PTL

(***************************************************************************)
(* A download thread that runs is the current one, was told to stop, or    *)
(* has its deleteLater() posted: cancelWrite(), the destructor or the next *)
(* startWrite() reaches it.  It holds for a patient user, and without a    *)
(* wait for the cache for any.                                             *)
(***************************************************************************)
THEOREM ThreadsNeverOrphaned == Spec => []NoOrphan
BY InvKept, IInvOrphan, PTL

(***************************************************************************)
(* Once onError(), onSuccess() or onCancelled() has ended the session of a *)
(* user who waits for the last thread, no thread goes on writing to the    *)
(* device that was not told to stop (imagewriter.cpp:2379-2381).           *)
(***************************************************************************)
THEOREM DeviceIsReleased == Spec => []DeviceLeftAlone
<1>1. IInv => DeviceLeftAlone
  BY Zenon DEF IInv, PatientInv, DeviceLeftAlone
<1> QED
  BY <1>1, InvKept, PTL

(***************************************************************************)
(* onSuccess() shows a write as successful only for the success() of the   *)
(* session's own thread, and only if _writeComplete() succeeded: with a    *)
(* patient user whose device stays plugged in.                             *)
(***************************************************************************)
THEOREM SuccessShownIsReal == Spec => SuccessIsOfThisWrite
<1>1. IInv /\ [Next]_vars => [ShowsSuccess /\ Undisturbed => OfThisWrite]_vars
  <2> SUFFICES ASSUME IInv, [Next]_vars, ShowsSuccess, Undisturbed PROVE OfThisWrite
    BY Zenon
  <2>1. FlagsOK /\ StateOK
    BY TypeParts, Zenon DEF IInv, Base
  <2>2. Shape
    BY <2>1, Shapes
  <2>3. queue # <<>> /\ Head(queue).what = "success" /\ ~Doomed
    BY <2>2, ShownIs
  <2> QED
    BY <2>3, SuccessFacts
<1> QED
  BY <1>1, InvKept, PTL DEF Spec, SuccessIsOfThisWrite
===============================================================================
