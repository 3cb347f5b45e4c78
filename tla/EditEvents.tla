----------------------------- MODULE EditEvents -----------------------------
(* The daemon of the edit monitor (edit_monitor.py): the observer's thread *)
(* puts edits on a list, timer threads hand the list to the clearcut       *)
(* client, and the main thread flushes it when SIGTERM ends the process.   *)
(* flushall() reads and clears _scheduled_log_thread without the lock.     *)
EXTENDS Naturals, FiniteSets

CONSTANTS
  MaxEvents,   \* bound: file system events that the observer sees
  Threshold,   \* single_events_size_threshold
  MaxSignals   \* bound: times that SIGTERM is handled

ASSUME BoundsAssumption == {MaxEvents, Threshold, MaxSignals} \subseteq Nat

Events == 1..MaxEvents
Timers == 1..MaxEvents        \* an edit starts at most one timer
NoTimer == 0
MainThread == 0
Threads == Timers \cup {MainThread}

VARIABLES
  seen,      \* file system events so far
  accepted,  \* the edits among them that were put on the list
  pending,   \* pending_events
  scheduled, \* _scheduled_log_thread
  timer,     \* the timer threads
  batch,     \* edit_events, the local list of a thread that logs
  logged,    \* edits that the clearcut client has been given
  sent,      \* edits that it had when main flushed it
  lock,      \* _pending_events_lock
  obs,       \* the next step of the observer's thread
  main,      \* the next step of the main thread
  stopped,   \* observer.stop() was called
  signals,   \* how often SIGTERM was handled
  early      \* the edits accepted before the first time

edits == <<seen, accepted, early>>
vars == <<edits, pending, scheduled, timer, batch, logged, sent, lock, obs, main,
          stopped, signals>>

Init ==
  /\ seen = 0 /\ accepted = {} /\ early = {}
  /\ pending = {} /\ logged = {} /\ sent = {}
  /\ scheduled = NoTimer
  /\ timer = [t \in Timers |-> "new"]
  /\ batch = [t \in Threads |-> {}]
  /\ lock = "free"
  /\ obs = "idle" /\ main = "run"
  /\ stopped = FALSE
  /\ signals = 0

Alive == main # "gone"

-----------------------------------------------------------------------------
(* The observer's thread: on_moved, on_created, on_deleted, on_modified.   *)
(* Hidden files, files of no git project and failures are left out.        *)
Dispatch ==
  /\ Alive /\ obs = "idle" /\ ~stopped /\ seen < MaxEvents
  /\ seen' = seen + 1
  /\ obs' \in {"idle", "lock"}
  /\ UNCHANGED <<accepted, early, pending, scheduled, timer, batch, logged, sent, lock, main,
                 stopped, signals>>

Append ==
  /\ Alive /\ obs = "lock" /\ lock = "free"
  /\ lock' = "obs"
  /\ pending' = pending \cup {seen}
  /\ accepted' = accepted \cup {seen}
  /\ obs' = "schedule"
  /\ UNCHANGED <<seen, early, scheduled, timer, batch, logged, sent, main, stopped, signals>>

Schedule ==
  /\ Alive /\ obs = "schedule"
  /\ IF scheduled = NoTimer
       THEN /\ scheduled' = seen
            /\ timer' = [timer EXCEPT ![seen] = "made"]
            /\ obs' = "start"
            /\ UNCHANGED lock
       ELSE /\ obs' = "idle"
            /\ lock' = "free"
            /\ UNCHANGED <<scheduled, timer>>
  /\ UNCHANGED <<edits, pending, batch, logged, sent, main, stopped, signals>>

(* The attribute is read again; when flushall() has cleared it meanwhile,  *)
(* the exception is logged and the thread never starts.                    *)
StartTimer ==
  /\ Alive /\ obs = "start"
  /\ timer' = IF scheduled = NoTimer THEN timer
              ELSE [timer EXCEPT ![scheduled] = IF @ = "made" THEN "waiting" ELSE "done"]
  /\ obs' = "idle"
  /\ lock' = "free"
  /\ UNCHANGED <<edits, pending, scheduled, batch, logged, sent, main, stopped, signals>>

-----------------------------------------------------------------------------
(* _log_clearcut_events(), in a timer thread or in the main thread.        *)
Fire(t) ==
  /\ Alive /\ timer[t] = "waiting"
  /\ timer' = [timer EXCEPT ![t] = "lock"]
  /\ UNCHANGED <<edits, pending, scheduled, batch, logged, sent, lock, obs, main, stopped, signals>>

(* Mutant: the list is read, and cleared after the lock was given up.      *)
TakeKeeping(t) ==
  /\ lock = "free"
  /\ scheduled' = NoTimer
  /\ batch' = [batch EXCEPT ![t] = pending]
  /\ UNCHANGED pending

(* Mutant: the attribute keeps the thread that has run.                    *)
TakeStillScheduled(t) ==
  /\ lock = "free"
  /\ batch' = [batch EXCEPT ![t] = pending]
  /\ pending' = {}
  /\ UNCHANGED scheduled

Take(t) ==
  /\ lock = "free"
  /\ scheduled' = NoTimer
  /\ batch' = [batch EXCEPT ![t] = pending]
  /\ pending' = {}

(* More than Threshold edits are logged as one event that counts them.     *)
Logging == IF Cardinality(pending) > Threshold THEN "aggregate" ELSE "log"


Log(t, some) ==
  /\ logged' = logged \cup some
  /\ batch' = [batch EXCEPT ![t] = @ \ some]

LogNext(t, how) ==
  /\ batch[t] # {}
  /\ \/ how = "aggregate" /\ Log(t, batch[t])
     \/ how = "log" /\ \E e \in batch[t] : (\A f \in batch[t] : e <= f) /\ Log(t, {e})

TimerTake(t) ==
  /\ Alive /\ timer[t] = "lock"
  /\ Take(t)
  /\ timer' = [timer EXCEPT ![t] = Logging]
  /\ UNCHANGED <<edits, logged, sent, lock, obs, main, stopped, signals>>

TimerLog(t) ==
  /\ Alive /\ timer[t] \in {"log", "aggregate"}
  /\ \/ LogNext(t, timer[t]) /\ UNCHANGED timer
     \/ /\ batch[t] = {}
        /\ timer' = [timer EXCEPT ![t] = "done"]
        /\ UNCHANGED <<logged, batch>>
  /\ UNCHANGED <<edits, pending, scheduled, sent, lock, obs, main, stopped, signals>>

-----------------------------------------------------------------------------
(* The main thread sleeps until term_signal_handler raises SystemExit.     *)
(* When that happens again, flushall(), or the exit of the process, is     *)
(* left where it is.                                                       *)
Terminated ==
  /\ Alive /\ signals < MaxSignals
  /\ signals' = signals + 1
  /\ early' = IF main = "run" THEN accepted ELSE early
  /\ main' = CASE main = "run" -> "check"
               [] main = "exit" -> "gone"
               [] OTHER -> "exit"
  /\ batch' = [batch EXCEPT ![MainThread] = {}]
  /\ UNCHANGED <<seen, accepted, pending, scheduled, timer, logged, sent, lock, obs, stopped>>

(* flushall()                                                              *)
CheckTimer ==
  /\ main = "check"
  /\ main' = IF scheduled = NoTimer THEN "lock" ELSE "cancel"
  /\ UNCHANGED <<edits, pending, scheduled, timer, batch, logged, sent, lock, obs, stopped, signals>>

(* The attribute is read again: None when the thread has run meanwhile,    *)
(* and the AttributeError leaves flushall() and start().  A thread that    *)
(* has begun to log is not stopped.                                        *)
CancelTimer ==
  /\ main = "cancel"
  /\ main' = IF scheduled = NoTimer THEN "exit" ELSE "clear"
  /\ timer' = [t \in Timers |->
                 IF t # scheduled THEN timer[t]
                 ELSE CASE timer[t] = "made" -> "cancelled"
                        [] timer[t] = "waiting" -> "done"
                        [] OTHER -> timer[t]]
  /\ UNCHANGED <<edits, pending, scheduled, batch, logged, sent, lock, obs, stopped, signals>>

ClearTimer ==
  /\ main = "clear"
  /\ scheduled' = NoTimer
  /\ main' = "lock"
  /\ UNCHANGED <<edits, pending, timer, batch, logged, sent, lock, obs, stopped, signals>>

MainTake ==
  /\ main = "lock"
  /\ Take(MainThread)
  /\ main' = Logging
  /\ UNCHANGED <<edits, timer, logged, sent, lock, obs, stopped, signals>>

MainLog ==
  /\ main \in {"log", "aggregate"}
  /\ \/ LogNext(MainThread, main) /\ UNCHANGED main
     \/ /\ batch[MainThread] = {}
        /\ main' = "flush"
        /\ UNCHANGED <<logged, batch>>
  /\ UNCHANGED <<edits, pending, scheduled, timer, sent, lock, obs, stopped, signals>>

FlushEvents ==
  /\ main = "flush"
  /\ sent' = logged
  /\ main' = "stop"
  /\ UNCHANGED <<edits, pending, scheduled, timer, batch, logged, lock, obs, stopped, signals>>

(* The rest of the finally clause of start().                              *)
StopObserver ==
  /\ main = "stop"
  /\ stopped' = TRUE
  /\ main' = "join"
  /\ UNCHANGED <<edits, pending, scheduled, timer, batch, logged, sent, lock, obs, signals>>

(* Mutant: the observer's thread is not waited for.                        *)
JoinNothing ==
  /\ main = "join"
  /\ main' = "exit"
  /\ UNCHANGED <<edits, pending, scheduled, timer, batch, logged, sent, lock, obs, stopped, signals>>

JoinObserver ==
  /\ main = "join" /\ obs = "idle"
  /\ main' = "exit"
  /\ UNCHANGED <<edits, pending, scheduled, timer, batch, logged, sent, lock, obs, stopped, signals>>

(* The process ends once every timer thread that was started has ended;    *)
(* the observer's thread does not keep it.                                 *)
Exit ==
  /\ main = "exit"
  /\ \A t \in Timers : timer[t] \in {"new", "made", "cancelled", "done"}
  /\ main' = "gone"
  /\ UNCHANGED <<edits, pending, scheduled, timer, batch, logged, sent, lock, obs, stopped, signals>>

Observer == Append \/ Schedule \/ StartTimer
Timer(t) == Fire(t) \/ TimerTake(t) \/ TimerLog(t)
Main ==
  \/ CheckTimer \/ CancelTimer \/ ClearTimer \/ MainTake \/ MainLog
  \/ FlushEvents \/ StopObserver \/ JoinObserver \/ Exit

(* The process has ended.                                                  *)
Gone == main = "gone" /\ UNCHANGED vars

Next ==
  \/ Dispatch \/ Observer \/ (\E t \in Timers : Timer(t))
  \/ Terminated \/ Main \/ Gone

Spec == Init /\ [][Next]_vars

(* Threads run, and a timer's interval passes; no edit and no signal has   *)
(* to come.                                                                *)
FairSpec ==
  /\ Spec
  /\ WF_vars(Observer) /\ WF_vars(Main)
  /\ \A t \in Timers : WF_vars(Timer(t))

-----------------------------------------------------------------------------
(* The types; and the lock is held exactly in the critical section of the  *)
(* observer's thread.                                                      *)
TypeOK ==
  /\ seen \in 0..MaxEvents /\ signals \in 0..MaxSignals
  /\ {accepted, early, pending, logged, sent} \subseteq SUBSET Events
  /\ scheduled \in Timers \cup {NoTimer}
  /\ timer \in [Timers -> {"new", "made", "cancelled", "waiting", "lock", "log", "aggregate",
                           "done"}]
  /\ batch \in [Threads -> SUBSET Events]
  /\ lock = IF obs \in {"schedule", "start"} THEN "obs" ELSE "free"
  /\ obs \in {"idle", "lock", "schedule", "start"}
  /\ main \in {"run", "check", "cancel", "clear", "lock", "log", "aggregate", "flush", "stop",
               "join", "exit", "gone"}
  /\ stopped \in BOOLEAN

(* Every accepted edit is in exactly one place, on the list, with one      *)
(* thread that logs it, or logged, so that none is logged twice; only the  *)
(* second signal makes the main thread drop its edits.                     *)
InOnePlace ==
  /\ pending \cup logged \subseteq accepted
  /\ pending \cap logged = {}
  /\ \A t \in Threads : batch[t] \subseteq accepted \ (pending \cup logged)
  /\ \A t, u \in Threads : t # u => batch[t] \cap batch[u] = {}
  /\ signals < 2 =>
       \A e \in accepted : e \in pending \cup logged \/ \E t \in Threads : e \in batch[t]

(* An edit on the list never waits in vain: a timer will take the list, or *)
(* the observer is about to start one, or flushall() is on its way to it.  *)
SomeoneTakes ==
  Alive /\ pending # {} /\ signals < 2 =>
    \/ \E t \in Timers : timer[t] \in {"waiting", "lock"}
    \/ obs \in {"schedule", "start"}
    \/ main \in {"clear", "lock"}

(* When the process ends, the edits from before the signal are logged, and *)
(* all edits if flushall() has run to its end.                             *)
LoggedAtExit ==
  main = "gone" /\ signals = 1 =>
    /\ early \subseteq logged
    /\ stopped => accepted \subseteq logged

(* Every accepted edit is logged, unless the process ends first.           *)
EventuallyLogged ==
  \A e \in Events : e \in accepted ~> e \in logged \/ ~Alive

(* When the monitor is stopped, all events are flushed: those from before  *)
(* the signal have reached the client when it is flushed.                  *)
FlushesAll == ~Alive /\ signals = 1 => early \subseteq sent
=============================================================================
