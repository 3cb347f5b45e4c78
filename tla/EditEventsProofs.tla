-------------------------- MODULE EditEventsProofs --------------------------
(* Proofs about EditEvents, for any number of events, timer threads and    *)
(* signals and any threshold: no edit is logged twice, none waits in vain, *)
(* and none from before the signal is missing when the process ends.       *)
EXTENDS EditEvents, TLAPS

(* An edit that is about to be put on the list is not on it yet, and its   *)
(* timer thread does not exist yet.                                        *)
Fresh ==
  /\ accepted \subseteq 1..seen
  /\ obs # "idle" => seen \in Events
  /\ obs = "lock" => seen \notin accepted
  /\ \A t \in Timers : t > seen \/ (t = seen /\ obs \in {"lock", "schedule"}) => timer[t] = "new"

(* Only a thread that logs has edits of its own.                           *)
OwnEdits ==
  /\ \A t \in Timers : timer[t] \notin {"log", "aggregate"} => batch[t] = {}
  /\ main \notin {"log", "aggregate"} => batch[MainThread] = {}

(* The main thread leaves its loop by the first signal.                    *)
FirstSignal ==
  /\ main = "run" <=> signals = 0
  /\ early \subseteq accepted

(* The attribute names a thread that will take the list, except while      *)
(* flushall() is between cancelling it and clearing the attribute; and     *)
(* when it is cleared under the observer, flushall() waits for the lock.   *)
Attribute ==
  /\ obs = "start" /\ scheduled # NoTimer =>
       scheduled = seen /\ timer[scheduled] \in {"made", "cancelled"}
  /\ signals < 2 =>
       /\ scheduled # NoTimer /\ main # "clear" =>
            /\ timer[scheduled] \in {"made", "waiting", "lock"}
            /\ timer[scheduled] = "made" <=> obs = "start"
       /\ obs = "start" /\ scheduled = NoTimer => main = "lock"

(* Once flushall() has taken the list, or a timer has taken it just before *)
(* flushall() fails, no edit from before the signal is on it.              *)
EarlyTaken ==
  /\ signals < 2
  /\ \/ main \in {"log", "aggregate", "flush", "stop", "join", "exit", "gone"}
     \/ main = "cancel" /\ scheduled = NoTimer
  => pending \cap early = {}

(* The process ends in an orderly way only when the observer is idle.      *)
Joined ==
  stopped => /\ main \in {"join", "exit", "gone"}
             /\ main # "join" /\ signals < 2 => obs = "idle"

IInv ==
  /\ TypeOK /\ InOnePlace /\ SomeoneTakes /\ LoggedAtExit
  /\ Fresh /\ OwnEdits /\ FirstSignal /\ Attribute /\ EarlyTaken /\ Joined

(* Every initial state satisfies the inductive invariant.                  *)
LEMMA Initial == Init => IInv
  <1>1. SUFFICES ASSUME Init PROVE IInv
    OBVIOUS
  <1>2. TypeOK
    <2>1. MaxEvents \in Nat /\ MaxSignals \in Nat
      BY BoundsAssumption
    <2>2. /\ seen \in 0..MaxEvents /\ signals \in 0..MaxSignals
          /\ scheduled \in Timers \cup {NoTimer}
          /\ lock = IF obs \in {"schedule", "start"} THEN "obs" ELSE "free"
      BY <1>1, <2>1 DEF Init, NoTimer
    <2>3. /\ batch \in [Threads -> SUBSET Events]
          /\ {accepted, early, pending, logged, sent} \subseteq SUBSET Events
      BY <1>1 DEF Init
    <2>4. stopped \in BOOLEAN
      BY <1>1, Zenon DEF Init
    <2>5. QED
      BY <1>1, <2>2, <2>3, <2>4 DEF Init, TypeOK
  <1>3. InOnePlace
    BY <1>1, BoundsAssumption DEF Init, InOnePlace, Events, Timers, NoTimer, MainThread, Threads, edits, Alive
  <1>4. SomeoneTakes
    BY <1>1, BoundsAssumption DEF Init, SomeoneTakes, Events, Timers, NoTimer, MainThread, Threads, edits, Alive
  <1>5. LoggedAtExit
    BY <1>1, BoundsAssumption DEF Init, LoggedAtExit, Events, Timers, NoTimer, MainThread, Threads, edits, Alive
  <1>6. Fresh
    BY <1>1, BoundsAssumption DEF Init, Fresh, Events, Timers, NoTimer, MainThread, Threads, edits, Alive
  <1>7. OwnEdits
    BY <1>1, BoundsAssumption DEF Init, OwnEdits, Events, Timers, NoTimer, MainThread, Threads, edits, Alive
  <1>8. FirstSignal
    BY <1>1, BoundsAssumption DEF Init, FirstSignal, Events, Timers, NoTimer, MainThread, Threads, edits, Alive
  <1>9. Attribute
    BY <1>1, BoundsAssumption DEF Init, Attribute, Events, Timers, NoTimer, MainThread, Threads, edits, Alive
  <1>10. EarlyTaken
    BY <1>1, BoundsAssumption DEF Init, EarlyTaken, Events, Timers, NoTimer, MainThread, Threads, edits, Alive
  <1>11. Joined
    BY <1>1, BoundsAssumption DEF Init, Joined, Events, Timers, NoTimer, MainThread, Threads, edits, Alive
  <1>20. QED
    BY <1>2, <1>3, <1>4, <1>5, <1>6, <1>7, <1>8, <1>9, <1>10, <1>11 DEF IInv

(* Logging some of a thread's edits moves them, and nothing else.           *)
LEMMA LogMoves ==
  ASSUME TypeOK, InOnePlace, NEW t \in Threads, NEW some \in SUBSET batch[t], Log(t, some),
         UNCHANGED <<pending, accepted, signals>>
  PROVE InOnePlace'
  <1>1. batch' = [u \in Threads |-> IF u = t THEN batch[t] \ some ELSE batch[u]]
    BY DEF Log, TypeOK
  <1>2. logged' = logged \cup some /\ some \subseteq accepted /\ some \cap pending = {}
    BY DEF Log, InOnePlace
  <1>3. (pending \cup logged \subseteq accepted /\ pending \cap logged = {})'
    BY <1>2 DEF InOnePlace
  <1>4. ASSUME NEW u \in Threads, u # t PROVE some \cap batch[u] = {}
    BY <1>4 DEF InOnePlace
  <1>5. (\A u \in Threads : batch[u] \subseteq accepted \ (pending \cup logged))'
    BY <1>1, <1>2, <1>4 DEF InOnePlace
  <1>6. (\A u, v \in Threads : u # v => batch[u] \cap batch[v] = {})'
    BY <1>1 DEF InOnePlace
  <1>7. (signals < 2 =>
           \A e \in accepted : e \in pending \cup logged \/ \E u \in Threads : e \in batch[u])'
    BY <1>1, <1>2 DEF InOnePlace
  <1>8. QED
    BY <1>3, <1>5, <1>6, <1>7 DEF InOnePlace

(* Every step of every thread keeps the inductive invariant.               *)
LEMMA Preserved == IInv /\ [Next]_vars => IInv'
  <1>1. SUFFICES ASSUME IInv, [Next]_vars PROVE IInv'
    OBVIOUS
  <1>2. TypeOK /\ InOnePlace /\ SomeoneTakes /\ LoggedAtExit /\ Fresh /\ OwnEdits /\ FirstSignal /\ Attribute /\ EarlyTaken /\ Joined
    BY <1>1 DEF IInv
  <1>3. MaxEvents \in Nat /\ Threshold \in Nat /\ MaxSignals \in Nat
    BY BoundsAssumption
  <1>4. CASE Dispatch
    <2>1. TypeOK'
      BY <1>4, <1>2, <1>3 DEF Dispatch, TypeOK, Fresh, Events, Timers, NoTimer, MainThread, Threads, edits, Alive
    <2>2. InOnePlace'
      BY <1>4, <1>2, <1>3 DEF Dispatch, TypeOK, InOnePlace, Fresh, OwnEdits, FirstSignal, Events, Timers, NoTimer, MainThread, Threads, edits, Alive
    <2>3. SomeoneTakes'
      BY <1>4, <1>2, <1>3 DEF Dispatch, TypeOK, SomeoneTakes, Attribute, FirstSignal, Fresh, Events, Timers, NoTimer, MainThread, Threads, edits, Alive
    <2>4. LoggedAtExit'
      BY <1>4, <1>2, <1>3 DEF Dispatch, TypeOK, LoggedAtExit, InOnePlace, SomeoneTakes, OwnEdits, FirstSignal, EarlyTaken, Joined, Events, Timers, NoTimer, MainThread, Threads, edits, Alive
    <2>5. Fresh'
      BY <1>4, <1>2, <1>3 DEF Dispatch, TypeOK, Fresh, InOnePlace, Attribute, Events, Timers, NoTimer, MainThread, Threads, edits, Alive
    <2>6. OwnEdits'
      BY <1>4, <1>2, <1>3 DEF Dispatch, TypeOK, OwnEdits, Fresh, Attribute, Events, Timers, NoTimer, MainThread, Threads, edits, Alive
    <2>7. FirstSignal'
      BY <1>4, <1>2, <1>3 DEF Dispatch, TypeOK, FirstSignal, Events, Timers, NoTimer, MainThread, Threads, edits, Alive
    <2>8. Attribute'
      BY <1>4, <1>2, <1>3 DEF Dispatch, TypeOK, Attribute, Fresh, FirstSignal, Events, Timers, NoTimer, MainThread, Threads, edits, Alive
    <2>9. EarlyTaken'
      BY <1>4, <1>2, <1>3 DEF Dispatch, TypeOK, EarlyTaken, Fresh, FirstSignal, Events, Timers, NoTimer, MainThread, Threads, edits, Alive
    <2>10. Joined'
      BY <1>4, <1>2, <1>3 DEF Dispatch, TypeOK, Joined, FirstSignal, Events, Timers, NoTimer, MainThread, Threads, edits, Alive
    <2>20. QED
      BY <2>1, <2>2, <2>3, <2>4, <2>5, <2>6, <2>7, <2>8, <2>9, <2>10 DEF IInv
  <1>5. CASE Append
    <2>1. TypeOK'
      BY <1>5, <1>2, <1>3 DEF Append, TypeOK, Fresh, Events, Timers, NoTimer, MainThread, Threads, edits, Alive
    <2>2. InOnePlace'
      BY <1>5, <1>2, <1>3 DEF Append, TypeOK, InOnePlace, Fresh, OwnEdits, FirstSignal, Events, Timers, NoTimer, MainThread, Threads, edits, Alive
    <2>3. SomeoneTakes'
      BY <1>5, <1>2, <1>3 DEF Append, TypeOK, SomeoneTakes, Attribute, FirstSignal, Fresh, Events, Timers, NoTimer, MainThread, Threads, edits, Alive
    <2>4. LoggedAtExit'
      BY <1>5, <1>2, <1>3 DEF Append, TypeOK, LoggedAtExit, InOnePlace, SomeoneTakes, OwnEdits, FirstSignal, EarlyTaken, Joined, Events, Timers, NoTimer, MainThread, Threads, edits, Alive
    <2>5. Fresh'
      BY <1>5, <1>2, <1>3 DEF Append, TypeOK, Fresh, InOnePlace, Attribute, Events, Timers, NoTimer, MainThread, Threads, edits, Alive
    <2>6. OwnEdits'
      BY <1>5, <1>2, <1>3 DEF Append, TypeOK, OwnEdits, Fresh, Attribute, Events, Timers, NoTimer, MainThread, Threads, edits, Alive
    <2>7. FirstSignal'
      BY <1>5, <1>2, <1>3 DEF Append, TypeOK, FirstSignal, Events, Timers, NoTimer, MainThread, Threads, edits, Alive
    <2>8. Attribute'
      BY <1>5, <1>2, <1>3 DEF Append, TypeOK, Attribute, Fresh, FirstSignal, Events, Timers, NoTimer, MainThread, Threads, edits, Alive
    <2>9. EarlyTaken'
      BY <1>5, <1>2, <1>3 DEF Append, TypeOK, EarlyTaken, Fresh, FirstSignal, Events, Timers, NoTimer, MainThread, Threads, edits, Alive
    <2>10. Joined'
      BY <1>5, <1>2, <1>3 DEF Append, TypeOK, Joined, FirstSignal, Events, Timers, NoTimer, MainThread, Threads, edits, Alive
    <2>20. QED
      BY <2>1, <2>2, <2>3, <2>4, <2>5, <2>6, <2>7, <2>8, <2>9, <2>10 DEF IInv
  <1>6. CASE Schedule
    <2>1. TypeOK'
      BY <1>6, <1>2, <1>3 DEF Schedule, TypeOK, Fresh, Events, Timers, NoTimer, MainThread, Threads, edits, Alive
    <2>2. InOnePlace'
      BY <1>6, <1>2, <1>3 DEF Schedule, TypeOK, InOnePlace, Fresh, OwnEdits, FirstSignal, Events, Timers, NoTimer, MainThread, Threads, edits, Alive
    <2>3. SomeoneTakes'
      BY <1>6, <1>2, <1>3 DEF Schedule, TypeOK, SomeoneTakes, Attribute, FirstSignal, Fresh, Events, Timers, NoTimer, MainThread, Threads, edits, Alive
    <2>4. LoggedAtExit'
      BY <1>6, <1>2, <1>3 DEF Schedule, TypeOK, LoggedAtExit, InOnePlace, SomeoneTakes, OwnEdits, FirstSignal, EarlyTaken, Joined, Events, Timers, NoTimer, MainThread, Threads, edits, Alive
    <2>5. Fresh'
      BY <1>6, <1>2, <1>3 DEF Schedule, TypeOK, Fresh, InOnePlace, Attribute, Events, Timers, NoTimer, MainThread, Threads, edits, Alive
    <2>6. OwnEdits'
      BY <1>6, <1>2, <1>3 DEF Schedule, TypeOK, OwnEdits, Fresh, Attribute, Events, Timers, NoTimer, MainThread, Threads, edits, Alive
    <2>7. FirstSignal'
      BY <1>6, <1>2, <1>3 DEF Schedule, TypeOK, FirstSignal, Events, Timers, NoTimer, MainThread, Threads, edits, Alive
    <2>8. Attribute'
      BY <1>6, <1>2, <1>3 DEF Schedule, TypeOK, Attribute, Fresh, FirstSignal, Events, Timers, NoTimer, MainThread, Threads, edits, Alive
    <2>9. EarlyTaken'
      BY <1>6, <1>2, <1>3 DEF Schedule, TypeOK, EarlyTaken, Fresh, FirstSignal, Events, Timers, NoTimer, MainThread, Threads, edits, Alive
    <2>10. Joined'
      BY <1>6, <1>2, <1>3 DEF Schedule, TypeOK, Joined, FirstSignal, Events, Timers, NoTimer, MainThread, Threads, edits, Alive
    <2>20. QED
      BY <2>1, <2>2, <2>3, <2>4, <2>5, <2>6, <2>7, <2>8, <2>9, <2>10 DEF IInv
  <1>7. CASE StartTimer
    <2>1. TypeOK'
      BY <1>7, <1>2, <1>3 DEF StartTimer, TypeOK, Fresh, Events, Timers, NoTimer, MainThread, Threads, edits, Alive
    <2>2. InOnePlace'
      BY <1>7, <1>2, <1>3 DEF StartTimer, TypeOK, InOnePlace, Fresh, OwnEdits, FirstSignal, Events, Timers, NoTimer, MainThread, Threads, edits, Alive
    <2>3. SomeoneTakes'
      BY <1>7, <1>2, <1>3 DEF StartTimer, TypeOK, SomeoneTakes, Attribute, FirstSignal, Fresh, Events, Timers, NoTimer, MainThread, Threads, edits, Alive
    <2>4. LoggedAtExit'
      BY <1>7, <1>2, <1>3 DEF StartTimer, TypeOK, LoggedAtExit, InOnePlace, SomeoneTakes, OwnEdits, FirstSignal, EarlyTaken, Joined, Events, Timers, NoTimer, MainThread, Threads, edits, Alive
    <2>5. Fresh'
      BY <1>7, <1>2, <1>3 DEF StartTimer, TypeOK, Fresh, InOnePlace, Attribute, Events, Timers, NoTimer, MainThread, Threads, edits, Alive
    <2>6. OwnEdits'
      BY <1>7, <1>2, <1>3 DEF StartTimer, TypeOK, OwnEdits, Fresh, Attribute, Events, Timers, NoTimer, MainThread, Threads, edits, Alive
    <2>7. FirstSignal'
      BY <1>7, <1>2, <1>3 DEF StartTimer, TypeOK, FirstSignal, Events, Timers, NoTimer, MainThread, Threads, edits, Alive
    <2>8. Attribute'
      BY <1>7, <1>2, <1>3 DEF StartTimer, TypeOK, Attribute, Fresh, FirstSignal, Events, Timers, NoTimer, MainThread, Threads, edits, Alive
    <2>9. EarlyTaken'
      BY <1>7, <1>2, <1>3 DEF StartTimer, TypeOK, EarlyTaken, Fresh, FirstSignal, Events, Timers, NoTimer, MainThread, Threads, edits, Alive
    <2>10. Joined'
      BY <1>7, <1>2, <1>3 DEF StartTimer, TypeOK, Joined, FirstSignal, Events, Timers, NoTimer, MainThread, Threads, edits, Alive
    <2>20. QED
      BY <2>1, <2>2, <2>3, <2>4, <2>5, <2>6, <2>7, <2>8, <2>9, <2>10 DEF IInv
  <1>8. ASSUME NEW t \in Timers, Fire(t) PROVE IInv'
    <2>1. TypeOK'
      BY <1>8, <1>2, <1>3 DEF Fire, TypeOK, Fresh, Events, Timers, NoTimer, MainThread, Threads, edits, Alive
    <2>2. InOnePlace'
      BY <1>8, <1>2, <1>3 DEF Fire, TypeOK, InOnePlace, Fresh, OwnEdits, FirstSignal, Events, Timers, NoTimer, MainThread, Threads, edits, Alive
    <2>3. SomeoneTakes'
      BY <1>8, <1>2, <1>3 DEF Fire, TypeOK, SomeoneTakes, Attribute, FirstSignal, Fresh, Events, Timers, NoTimer, MainThread, Threads, edits, Alive
    <2>4. LoggedAtExit'
      BY <1>8, <1>2, <1>3 DEF Fire, TypeOK, LoggedAtExit, InOnePlace, SomeoneTakes, OwnEdits, FirstSignal, EarlyTaken, Joined, Events, Timers, NoTimer, MainThread, Threads, edits, Alive
    <2>5. Fresh'
      BY <1>8, <1>2, <1>3 DEF Fire, TypeOK, Fresh, InOnePlace, Attribute, Events, Timers, NoTimer, MainThread, Threads, edits, Alive
    <2>6. OwnEdits'
      BY <1>8, <1>2, <1>3 DEF Fire, TypeOK, OwnEdits, Fresh, Attribute, Events, Timers, NoTimer, MainThread, Threads, edits, Alive
    <2>7. FirstSignal'
      BY <1>8, <1>2, <1>3 DEF Fire, TypeOK, FirstSignal, Events, Timers, NoTimer, MainThread, Threads, edits, Alive
    <2>8. Attribute'
      BY <1>8, <1>2, <1>3 DEF Fire, TypeOK, Attribute, Fresh, FirstSignal, Events, Timers, NoTimer, MainThread, Threads, edits, Alive
    <2>9. EarlyTaken'
      BY <1>8, <1>2, <1>3 DEF Fire, TypeOK, EarlyTaken, Fresh, FirstSignal, Events, Timers, NoTimer, MainThread, Threads, edits, Alive
    <2>10. Joined'
      BY <1>8, <1>2, <1>3 DEF Fire, TypeOK, Joined, FirstSignal, Events, Timers, NoTimer, MainThread, Threads, edits, Alive
    <2>20. QED
      BY <2>1, <2>2, <2>3, <2>4, <2>5, <2>6, <2>7, <2>8, <2>9, <2>10 DEF IInv
  <1>9. ASSUME NEW t \in Timers, TimerTake(t) PROVE IInv'
    <2>1. TypeOK'
      BY <1>9, <1>2, <1>3 DEF TimerTake, Take, Logging, TypeOK, Fresh, Events, Timers, NoTimer, MainThread, Threads, edits, Alive
    <2>2. InOnePlace'
      BY <1>9, <1>2, <1>3 DEF TimerTake, Take, Logging, TypeOK, InOnePlace, Fresh, OwnEdits, FirstSignal, Events, Timers, NoTimer, MainThread, Threads, edits, Alive
    <2>3. SomeoneTakes'
      BY <1>9, <1>2, <1>3 DEF TimerTake, Take, Logging, TypeOK, SomeoneTakes, Attribute, FirstSignal, Fresh, Events, Timers, NoTimer, MainThread, Threads, edits, Alive
    <2>4. LoggedAtExit'
      BY <1>9, <1>2, <1>3 DEF TimerTake, Take, Logging, TypeOK, LoggedAtExit, InOnePlace, SomeoneTakes, OwnEdits, FirstSignal, EarlyTaken, Joined, Events, Timers, NoTimer, MainThread, Threads, edits, Alive
    <2>5. Fresh'
      BY <1>9, <1>2, <1>3 DEF TimerTake, Take, Logging, TypeOK, Fresh, InOnePlace, Attribute, Events, Timers, NoTimer, MainThread, Threads, edits, Alive
    <2>6. OwnEdits'
      BY <1>9, <1>2, <1>3 DEF TimerTake, Take, Logging, TypeOK, OwnEdits, Fresh, Attribute, Events, Timers, NoTimer, MainThread, Threads, edits, Alive
    <2>7. FirstSignal'
      BY <1>9, <1>2, <1>3 DEF TimerTake, Take, Logging, TypeOK, FirstSignal, Events, Timers, NoTimer, MainThread, Threads, edits, Alive
    <2>8. Attribute'
      BY <1>9, <1>2, <1>3 DEF TimerTake, Take, Logging, TypeOK, Attribute, Fresh, FirstSignal, Events, Timers, NoTimer, MainThread, Threads, edits, Alive
    <2>9. EarlyTaken'
      BY <1>9, <1>2, <1>3 DEF TimerTake, Take, Logging, TypeOK, EarlyTaken, Fresh, FirstSignal, Events, Timers, NoTimer, MainThread, Threads, edits, Alive
    <2>10. Joined'
      BY <1>9, <1>2, <1>3 DEF TimerTake, Take, Logging, TypeOK, Joined, FirstSignal, Events, Timers, NoTimer, MainThread, Threads, edits, Alive
    <2>20. QED
      BY <2>1, <2>2, <2>3, <2>4, <2>5, <2>6, <2>7, <2>8, <2>9, <2>10 DEF IInv
  <1>10. ASSUME NEW t \in Timers, TimerLog(t) PROVE IInv'
    <2>1. TypeOK'
      BY <1>10, <1>2, <1>3 DEF TimerLog, LogNext, Log, TypeOK, Fresh, Events, Timers, NoTimer, MainThread, Threads, edits, Alive
    <2>2. InOnePlace'
      <3>1. t \in Threads /\ UNCHANGED <<pending, accepted, signals>>
        BY <1>10 DEF TimerLog, Threads, edits
      <3>2. CASE UNCHANGED <<logged, batch>>
        BY <1>2, <3>1, <3>2 DEF InOnePlace
      <3>3. CASE \E some \in SUBSET batch[t] : Log(t, some)
        BY <1>2, <3>1, <3>3, LogMoves
      <3>4. QED
        BY <1>10, <3>2, <3>3 DEF TimerLog, LogNext
    <2>3. SomeoneTakes'
      BY <1>10, <1>2, <1>3 DEF TimerLog, LogNext, Log, TypeOK, SomeoneTakes, Attribute, FirstSignal, Fresh, Events, Timers, NoTimer, MainThread, Threads, edits, Alive
    <2>4. LoggedAtExit'
      BY <1>10, <1>2, <1>3 DEF TimerLog, LogNext, Log, TypeOK, LoggedAtExit, InOnePlace, SomeoneTakes, OwnEdits, FirstSignal, EarlyTaken, Joined, Events, Timers, NoTimer, MainThread, Threads, edits, Alive
    <2>5. Fresh'
      BY <1>10, <1>2, <1>3 DEF TimerLog, LogNext, Log, TypeOK, Fresh, InOnePlace, Attribute, Events, Timers, NoTimer, MainThread, Threads, edits, Alive
    <2>6. OwnEdits'
      BY <1>10, <1>2, <1>3 DEF TimerLog, LogNext, Log, TypeOK, OwnEdits, Fresh, Attribute, Events, Timers, NoTimer, MainThread, Threads, edits, Alive
    <2>7. FirstSignal'
      BY <1>10, <1>2, <1>3 DEF TimerLog, LogNext, Log, TypeOK, FirstSignal, Events, Timers, NoTimer, MainThread, Threads, edits, Alive
    <2>8. Attribute'
      BY <1>10, <1>2, <1>3 DEF TimerLog, LogNext, Log, TypeOK, Attribute, Fresh, FirstSignal, Events, Timers, NoTimer, MainThread, Threads, edits, Alive
    <2>9. EarlyTaken'
      BY <1>10, <1>2, <1>3 DEF TimerLog, LogNext, Log, TypeOK, EarlyTaken, Fresh, FirstSignal, Events, Timers, NoTimer, MainThread, Threads, edits, Alive
    <2>10. Joined'
      BY <1>10, <1>2, <1>3 DEF TimerLog, LogNext, Log, TypeOK, Joined, FirstSignal, Events, Timers, NoTimer, MainThread, Threads, edits, Alive
    <2>20. QED
      BY <2>1, <2>2, <2>3, <2>4, <2>5, <2>6, <2>7, <2>8, <2>9, <2>10 DEF IInv
  <1>11. CASE Terminated
    <2>1. TypeOK'
      BY <1>11, <1>2, <1>3 DEF Terminated, TypeOK, Fresh, Events, Timers, NoTimer, MainThread, Threads, edits, Alive
    <2>2. InOnePlace'
      BY <1>11, <1>2, <1>3 DEF Terminated, TypeOK, InOnePlace, Fresh, OwnEdits, FirstSignal, Events, Timers, NoTimer, MainThread, Threads, edits, Alive
    <2>3. SomeoneTakes'
      BY <1>11, <1>2, <1>3 DEF Terminated, TypeOK, SomeoneTakes, Attribute, FirstSignal, Fresh, Events, Timers, NoTimer, MainThread, Threads, edits, Alive
    <2>4. LoggedAtExit'
      BY <1>11, <1>2, <1>3 DEF Terminated, TypeOK, LoggedAtExit, InOnePlace, SomeoneTakes, OwnEdits, FirstSignal, EarlyTaken, Joined, Events, Timers, NoTimer, MainThread, Threads, edits, Alive
    <2>5. Fresh'
      BY <1>11, <1>2, <1>3 DEF Terminated, TypeOK, Fresh, InOnePlace, Attribute, Events, Timers, NoTimer, MainThread, Threads, edits, Alive
    <2>6. OwnEdits'
      BY <1>11, <1>2, <1>3 DEF Terminated, TypeOK, OwnEdits, Fresh, Attribute, Events, Timers, NoTimer, MainThread, Threads, edits, Alive
    <2>7. FirstSignal'
      BY <1>11, <1>2, <1>3 DEF Terminated, TypeOK, FirstSignal, Events, Timers, NoTimer, MainThread, Threads, edits, Alive
    <2>8. Attribute'
      BY <1>11, <1>2, <1>3 DEF Terminated, TypeOK, Attribute, Fresh, FirstSignal, Events, Timers, NoTimer, MainThread, Threads, edits, Alive
    <2>9. EarlyTaken'
      BY <1>11, <1>2, <1>3 DEF Terminated, TypeOK, EarlyTaken, Fresh, FirstSignal, Events, Timers, NoTimer, MainThread, Threads, edits, Alive
    <2>10. Joined'
      BY <1>11, <1>2, <1>3 DEF Terminated, TypeOK, Joined, FirstSignal, Events, Timers, NoTimer, MainThread, Threads, edits, Alive
    <2>20. QED
      BY <2>1, <2>2, <2>3, <2>4, <2>5, <2>6, <2>7, <2>8, <2>9, <2>10 DEF IInv
  <1>12. CASE CheckTimer
    <2>1. TypeOK'
      BY <1>12, <1>2, <1>3 DEF CheckTimer, TypeOK, Fresh, Events, Timers, NoTimer, MainThread, Threads, edits, Alive
    <2>2. InOnePlace'
      BY <1>12, <1>2, <1>3 DEF CheckTimer, TypeOK, InOnePlace, Fresh, OwnEdits, FirstSignal, Events, Timers, NoTimer, MainThread, Threads, edits, Alive
    <2>3. SomeoneTakes'
      BY <1>12, <1>2, <1>3 DEF CheckTimer, TypeOK, SomeoneTakes, Attribute, FirstSignal, Fresh, Events, Timers, NoTimer, MainThread, Threads, edits, Alive
    <2>4. LoggedAtExit'
      BY <1>12, <1>2, <1>3 DEF CheckTimer, TypeOK, LoggedAtExit, InOnePlace, SomeoneTakes, OwnEdits, FirstSignal, EarlyTaken, Joined, Events, Timers, NoTimer, MainThread, Threads, edits, Alive
    <2>5. Fresh'
      BY <1>12, <1>2, <1>3 DEF CheckTimer, TypeOK, Fresh, InOnePlace, Attribute, Events, Timers, NoTimer, MainThread, Threads, edits, Alive
    <2>6. OwnEdits'
      BY <1>12, <1>2, <1>3 DEF CheckTimer, TypeOK, OwnEdits, Fresh, Attribute, Events, Timers, NoTimer, MainThread, Threads, edits, Alive
    <2>7. FirstSignal'
      BY <1>12, <1>2, <1>3 DEF CheckTimer, TypeOK, FirstSignal, Events, Timers, NoTimer, MainThread, Threads, edits, Alive
    <2>8. Attribute'
      BY <1>12, <1>2, <1>3 DEF CheckTimer, TypeOK, Attribute, Fresh, FirstSignal, Events, Timers, NoTimer, MainThread, Threads, edits, Alive
    <2>9. EarlyTaken'
      BY <1>12, <1>2, <1>3 DEF CheckTimer, TypeOK, EarlyTaken, Fresh, FirstSignal, Events, Timers, NoTimer, MainThread, Threads, edits, Alive
    <2>10. Joined'
      BY <1>12, <1>2, <1>3 DEF CheckTimer, TypeOK, Joined, FirstSignal, Events, Timers, NoTimer, MainThread, Threads, edits, Alive
    <2>20. QED
      BY <2>1, <2>2, <2>3, <2>4, <2>5, <2>6, <2>7, <2>8, <2>9, <2>10 DEF IInv
  <1>13. CASE CancelTimer
    <2>1. TypeOK'
      BY <1>13, <1>2, <1>3 DEF CancelTimer, TypeOK, Fresh, Events, Timers, NoTimer, MainThread, Threads, edits, Alive
    <2>2. InOnePlace'
      BY <1>13, <1>2, <1>3 DEF CancelTimer, TypeOK, InOnePlace, Fresh, OwnEdits, FirstSignal, Events, Timers, NoTimer, MainThread, Threads, edits, Alive
    <2>3. SomeoneTakes'
      BY <1>13, <1>2, <1>3 DEF CancelTimer, TypeOK, SomeoneTakes, Attribute, FirstSignal, Fresh, Events, Timers, NoTimer, MainThread, Threads, edits, Alive
    <2>4. LoggedAtExit'
      BY <1>13, <1>2, <1>3 DEF CancelTimer, TypeOK, LoggedAtExit, InOnePlace, SomeoneTakes, OwnEdits, FirstSignal, EarlyTaken, Joined, Events, Timers, NoTimer, MainThread, Threads, edits, Alive
    <2>5. Fresh'
      BY <1>13, <1>2, <1>3 DEF CancelTimer, TypeOK, Fresh, InOnePlace, Attribute, Events, Timers, NoTimer, MainThread, Threads, edits, Alive
    <2>6. OwnEdits'
      BY <1>13, <1>2, <1>3 DEF CancelTimer, TypeOK, OwnEdits, Fresh, Attribute, Events, Timers, NoTimer, MainThread, Threads, edits, Alive
    <2>7. FirstSignal'
      BY <1>13, <1>2, <1>3 DEF CancelTimer, TypeOK, FirstSignal, Events, Timers, NoTimer, MainThread, Threads, edits, Alive
    <2>8. Attribute'
      BY <1>13, <1>2, <1>3 DEF CancelTimer, TypeOK, Attribute, Fresh, FirstSignal, Events, Timers, NoTimer, MainThread, Threads, edits, Alive
    <2>9. EarlyTaken'
      BY <1>13, <1>2, <1>3 DEF CancelTimer, TypeOK, EarlyTaken, Fresh, FirstSignal, Events, Timers, NoTimer, MainThread, Threads, edits, Alive
    <2>10. Joined'
      BY <1>13, <1>2, <1>3 DEF CancelTimer, TypeOK, Joined, FirstSignal, Events, Timers, NoTimer, MainThread, Threads, edits, Alive
    <2>20. QED
      BY <2>1, <2>2, <2>3, <2>4, <2>5, <2>6, <2>7, <2>8, <2>9, <2>10 DEF IInv
  <1>14. CASE ClearTimer
    <2>1. TypeOK'
      BY <1>14, <1>2, <1>3 DEF ClearTimer, TypeOK, Fresh, Events, Timers, NoTimer, MainThread, Threads, edits, Alive
    <2>2. InOnePlace'
      BY <1>14, <1>2, <1>3 DEF ClearTimer, TypeOK, InOnePlace, Fresh, OwnEdits, FirstSignal, Events, Timers, NoTimer, MainThread, Threads, edits, Alive
    <2>3. SomeoneTakes'
      BY <1>14, <1>2, <1>3 DEF ClearTimer, TypeOK, SomeoneTakes, Attribute, FirstSignal, Fresh, Events, Timers, NoTimer, MainThread, Threads, edits, Alive
    <2>4. LoggedAtExit'
      BY <1>14, <1>2, <1>3 DEF ClearTimer, TypeOK, LoggedAtExit, InOnePlace, SomeoneTakes, OwnEdits, FirstSignal, EarlyTaken, Joined, Events, Timers, NoTimer, MainThread, Threads, edits, Alive
    <2>5. Fresh'
      BY <1>14, <1>2, <1>3 DEF ClearTimer, TypeOK, Fresh, InOnePlace, Attribute, Events, Timers, NoTimer, MainThread, Threads, edits, Alive
    <2>6. OwnEdits'
      BY <1>14, <1>2, <1>3 DEF ClearTimer, TypeOK, OwnEdits, Fresh, Attribute, Events, Timers, NoTimer, MainThread, Threads, edits, Alive
    <2>7. FirstSignal'
      BY <1>14, <1>2, <1>3 DEF ClearTimer, TypeOK, FirstSignal, Events, Timers, NoTimer, MainThread, Threads, edits, Alive
    <2>8. Attribute'
      BY <1>14, <1>2, <1>3 DEF ClearTimer, TypeOK, Attribute, Fresh, FirstSignal, Events, Timers, NoTimer, MainThread, Threads, edits, Alive
    <2>9. EarlyTaken'
      BY <1>14, <1>2, <1>3 DEF ClearTimer, TypeOK, EarlyTaken, Fresh, FirstSignal, Events, Timers, NoTimer, MainThread, Threads, edits, Alive
    <2>10. Joined'
      BY <1>14, <1>2, <1>3 DEF ClearTimer, TypeOK, Joined, FirstSignal, Events, Timers, NoTimer, MainThread, Threads, edits, Alive
    <2>20. QED
      BY <2>1, <2>2, <2>3, <2>4, <2>5, <2>6, <2>7, <2>8, <2>9, <2>10 DEF IInv
  <1>15. CASE MainTake
    <2>1. TypeOK'
      BY <1>15, <1>2, <1>3 DEF MainTake, Take, Logging, TypeOK, Fresh, Events, Timers, NoTimer, MainThread, Threads, edits, Alive
    <2>2. InOnePlace'
      BY <1>15, <1>2, <1>3 DEF MainTake, Take, Logging, TypeOK, InOnePlace, Fresh, OwnEdits, FirstSignal, Events, Timers, NoTimer, MainThread, Threads, edits, Alive
    <2>3. SomeoneTakes'
      BY <1>15, <1>2, <1>3 DEF MainTake, Take, Logging, TypeOK, SomeoneTakes, Attribute, FirstSignal, Fresh, Events, Timers, NoTimer, MainThread, Threads, edits, Alive
    <2>4. LoggedAtExit'
      BY <1>15, <1>2, <1>3 DEF MainTake, Take, Logging, TypeOK, LoggedAtExit, InOnePlace, SomeoneTakes, OwnEdits, FirstSignal, EarlyTaken, Joined, Events, Timers, NoTimer, MainThread, Threads, edits, Alive
    <2>5. Fresh'
      BY <1>15, <1>2, <1>3 DEF MainTake, Take, Logging, TypeOK, Fresh, InOnePlace, Attribute, Events, Timers, NoTimer, MainThread, Threads, edits, Alive
    <2>6. OwnEdits'
      BY <1>15, <1>2, <1>3 DEF MainTake, Take, Logging, TypeOK, OwnEdits, Fresh, Attribute, Events, Timers, NoTimer, MainThread, Threads, edits, Alive
    <2>7. FirstSignal'
      BY <1>15, <1>2, <1>3 DEF MainTake, Take, Logging, TypeOK, FirstSignal, Events, Timers, NoTimer, MainThread, Threads, edits, Alive
    <2>8. Attribute'
      BY <1>15, <1>2, <1>3 DEF MainTake, Take, Logging, TypeOK, Attribute, Fresh, FirstSignal, Events, Timers, NoTimer, MainThread, Threads, edits, Alive
    <2>9. EarlyTaken'
      BY <1>15, <1>2, <1>3 DEF MainTake, Take, Logging, TypeOK, EarlyTaken, Fresh, FirstSignal, Events, Timers, NoTimer, MainThread, Threads, edits, Alive
    <2>10. Joined'
      BY <1>15, <1>2, <1>3 DEF MainTake, Take, Logging, TypeOK, Joined, FirstSignal, Events, Timers, NoTimer, MainThread, Threads, edits, Alive
    <2>20. QED
      BY <2>1, <2>2, <2>3, <2>4, <2>5, <2>6, <2>7, <2>8, <2>9, <2>10 DEF IInv
  <1>16. CASE MainLog
    <2>1. TypeOK'
      BY <1>16, <1>2, <1>3 DEF MainLog, LogNext, Log, TypeOK, Fresh, Events, Timers, NoTimer, MainThread, Threads, edits, Alive
    <2>2. InOnePlace'
      <3>1. MainThread \in Threads /\ UNCHANGED <<pending, accepted, signals>>
        BY <1>16 DEF MainLog, Threads, edits
      <3>2. CASE UNCHANGED <<logged, batch>>
        BY <1>2, <3>1, <3>2 DEF InOnePlace
      <3>3. CASE \E some \in SUBSET batch[MainThread] : Log(MainThread, some)
        BY <1>2, <3>1, <3>3, LogMoves
      <3>4. QED
        BY <1>16, <3>2, <3>3 DEF MainLog, LogNext
    <2>3. SomeoneTakes'
      BY <1>16, <1>2, <1>3 DEF MainLog, LogNext, Log, TypeOK, SomeoneTakes, Attribute, FirstSignal, Fresh, Events, Timers, NoTimer, MainThread, Threads, edits, Alive
    <2>4. LoggedAtExit'
      BY <1>16, <1>2, <1>3 DEF MainLog, LogNext, Log, TypeOK, LoggedAtExit, InOnePlace, SomeoneTakes, OwnEdits, FirstSignal, EarlyTaken, Joined, Events, Timers, NoTimer, MainThread, Threads, edits, Alive
    <2>5. Fresh'
      BY <1>16, <1>2, <1>3 DEF MainLog, LogNext, Log, TypeOK, Fresh, InOnePlace, Attribute, Events, Timers, NoTimer, MainThread, Threads, edits, Alive
    <2>6. OwnEdits'
      BY <1>16, <1>2, <1>3 DEF MainLog, LogNext, Log, TypeOK, OwnEdits, Fresh, Attribute, Events, Timers, NoTimer, MainThread, Threads, edits, Alive
    <2>7. FirstSignal'
      BY <1>16, <1>2, <1>3 DEF MainLog, LogNext, Log, TypeOK, FirstSignal, Events, Timers, NoTimer, MainThread, Threads, edits, Alive
    <2>8. Attribute'
      BY <1>16, <1>2, <1>3 DEF MainLog, LogNext, Log, TypeOK, Attribute, Fresh, FirstSignal, Events, Timers, NoTimer, MainThread, Threads, edits, Alive
    <2>9. EarlyTaken'
      BY <1>16, <1>2, <1>3 DEF MainLog, LogNext, Log, TypeOK, EarlyTaken, Fresh, FirstSignal, Events, Timers, NoTimer, MainThread, Threads, edits, Alive
    <2>10. Joined'
      BY <1>16, <1>2, <1>3 DEF MainLog, LogNext, Log, TypeOK, Joined, FirstSignal, Events, Timers, NoTimer, MainThread, Threads, edits, Alive
    <2>20. QED
      BY <2>1, <2>2, <2>3, <2>4, <2>5, <2>6, <2>7, <2>8, <2>9, <2>10 DEF IInv
  <1>17. CASE FlushEvents
    <2>1. TypeOK'
      BY <1>17, <1>2, <1>3 DEF FlushEvents, TypeOK, Fresh, Events, Timers, NoTimer, MainThread, Threads, edits, Alive
    <2>2. InOnePlace'
      BY <1>17, <1>2, <1>3 DEF FlushEvents, TypeOK, InOnePlace, Fresh, OwnEdits, FirstSignal, Events, Timers, NoTimer, MainThread, Threads, edits, Alive
    <2>3. SomeoneTakes'
      BY <1>17, <1>2, <1>3 DEF FlushEvents, TypeOK, SomeoneTakes, Attribute, FirstSignal, Fresh, Events, Timers, NoTimer, MainThread, Threads, edits, Alive
    <2>4. LoggedAtExit'
      BY <1>17, <1>2, <1>3 DEF FlushEvents, TypeOK, LoggedAtExit, InOnePlace, SomeoneTakes, OwnEdits, FirstSignal, EarlyTaken, Joined, Events, Timers, NoTimer, MainThread, Threads, edits, Alive
    <2>5. Fresh'
      BY <1>17, <1>2, <1>3 DEF FlushEvents, TypeOK, Fresh, InOnePlace, Attribute, Events, Timers, NoTimer, MainThread, Threads, edits, Alive
    <2>6. OwnEdits'
      BY <1>17, <1>2, <1>3 DEF FlushEvents, TypeOK, OwnEdits, Fresh, Attribute, Events, Timers, NoTimer, MainThread, Threads, edits, Alive
    <2>7. FirstSignal'
      BY <1>17, <1>2, <1>3 DEF FlushEvents, TypeOK, FirstSignal, Events, Timers, NoTimer, MainThread, Threads, edits, Alive
    <2>8. Attribute'
      BY <1>17, <1>2, <1>3 DEF FlushEvents, TypeOK, Attribute, Fresh, FirstSignal, Events, Timers, NoTimer, MainThread, Threads, edits, Alive
    <2>9. EarlyTaken'
      BY <1>17, <1>2, <1>3 DEF FlushEvents, TypeOK, EarlyTaken, Fresh, FirstSignal, Events, Timers, NoTimer, MainThread, Threads, edits, Alive
    <2>10. Joined'
      BY <1>17, <1>2, <1>3 DEF FlushEvents, TypeOK, Joined, FirstSignal, Events, Timers, NoTimer, MainThread, Threads, edits, Alive
    <2>20. QED
      BY <2>1, <2>2, <2>3, <2>4, <2>5, <2>6, <2>7, <2>8, <2>9, <2>10 DEF IInv
  <1>18. CASE StopObserver
    <2>1. TypeOK'
      BY <1>18, <1>2, <1>3 DEF StopObserver, TypeOK, Fresh, Events, Timers, NoTimer, MainThread, Threads, edits, Alive
    <2>2. InOnePlace'
      BY <1>18, <1>2, <1>3 DEF StopObserver, TypeOK, InOnePlace, Fresh, OwnEdits, FirstSignal, Events, Timers, NoTimer, MainThread, Threads, edits, Alive
    <2>3. SomeoneTakes'
      BY <1>18, <1>2, <1>3 DEF StopObserver, TypeOK, SomeoneTakes, Attribute, FirstSignal, Fresh, Events, Timers, NoTimer, MainThread, Threads, edits, Alive
    <2>4. LoggedAtExit'
      BY <1>18, <1>2, <1>3 DEF StopObserver, TypeOK, LoggedAtExit, InOnePlace, SomeoneTakes, OwnEdits, FirstSignal, EarlyTaken, Joined, Events, Timers, NoTimer, MainThread, Threads, edits, Alive
    <2>5. Fresh'
      BY <1>18, <1>2, <1>3 DEF StopObserver, TypeOK, Fresh, InOnePlace, Attribute, Events, Timers, NoTimer, MainThread, Threads, edits, Alive
    <2>6. OwnEdits'
      BY <1>18, <1>2, <1>3 DEF StopObserver, TypeOK, OwnEdits, Fresh, Attribute, Events, Timers, NoTimer, MainThread, Threads, edits, Alive
    <2>7. FirstSignal'
      BY <1>18, <1>2, <1>3 DEF StopObserver, TypeOK, FirstSignal, Events, Timers, NoTimer, MainThread, Threads, edits, Alive
    <2>8. Attribute'
      BY <1>18, <1>2, <1>3 DEF StopObserver, TypeOK, Attribute, Fresh, FirstSignal, Events, Timers, NoTimer, MainThread, Threads, edits, Alive
    <2>9. EarlyTaken'
      BY <1>18, <1>2, <1>3 DEF StopObserver, TypeOK, EarlyTaken, Fresh, FirstSignal, Events, Timers, NoTimer, MainThread, Threads, edits, Alive
    <2>10. Joined'
      BY <1>18, <1>2, <1>3 DEF StopObserver, TypeOK, Joined, FirstSignal, Events, Timers, NoTimer, MainThread, Threads, edits, Alive
    <2>20. QED
      BY <2>1, <2>2, <2>3, <2>4, <2>5, <2>6, <2>7, <2>8, <2>9, <2>10 DEF IInv
  <1>19. CASE JoinObserver
    <2>1. TypeOK'
      BY <1>19, <1>2, <1>3 DEF JoinObserver, TypeOK, Fresh, Events, Timers, NoTimer, MainThread, Threads, edits, Alive
    <2>2. InOnePlace'
      BY <1>19, <1>2, <1>3 DEF JoinObserver, TypeOK, InOnePlace, Fresh, OwnEdits, FirstSignal, Events, Timers, NoTimer, MainThread, Threads, edits, Alive
    <2>3. SomeoneTakes'
      BY <1>19, <1>2, <1>3 DEF JoinObserver, TypeOK, SomeoneTakes, Attribute, FirstSignal, Fresh, Events, Timers, NoTimer, MainThread, Threads, edits, Alive
    <2>4. LoggedAtExit'
      BY <1>19, <1>2, <1>3 DEF JoinObserver, TypeOK, LoggedAtExit, InOnePlace, SomeoneTakes, OwnEdits, FirstSignal, EarlyTaken, Joined, Events, Timers, NoTimer, MainThread, Threads, edits, Alive
    <2>5. Fresh'
      BY <1>19, <1>2, <1>3 DEF JoinObserver, TypeOK, Fresh, InOnePlace, Attribute, Events, Timers, NoTimer, MainThread, Threads, edits, Alive
    <2>6. OwnEdits'
      BY <1>19, <1>2, <1>3 DEF JoinObserver, TypeOK, OwnEdits, Fresh, Attribute, Events, Timers, NoTimer, MainThread, Threads, edits, Alive
    <2>7. FirstSignal'
      BY <1>19, <1>2, <1>3 DEF JoinObserver, TypeOK, FirstSignal, Events, Timers, NoTimer, MainThread, Threads, edits, Alive
    <2>8. Attribute'
      BY <1>19, <1>2, <1>3 DEF JoinObserver, TypeOK, Attribute, Fresh, FirstSignal, Events, Timers, NoTimer, MainThread, Threads, edits, Alive
    <2>9. EarlyTaken'
      BY <1>19, <1>2, <1>3 DEF JoinObserver, TypeOK, EarlyTaken, Fresh, FirstSignal, Events, Timers, NoTimer, MainThread, Threads, edits, Alive
    <2>10. Joined'
      BY <1>19, <1>2, <1>3 DEF JoinObserver, TypeOK, Joined, FirstSignal, Events, Timers, NoTimer, MainThread, Threads, edits, Alive
    <2>20. QED
      BY <2>1, <2>2, <2>3, <2>4, <2>5, <2>6, <2>7, <2>8, <2>9, <2>10 DEF IInv
  <1>20. CASE Exit
    <2>1. TypeOK'
      BY <1>20, <1>2, <1>3 DEF Exit, TypeOK, Fresh, Events, Timers, NoTimer, MainThread, Threads, edits, Alive
    <2>2. InOnePlace'
      BY <1>20, <1>2, <1>3 DEF Exit, TypeOK, InOnePlace, Fresh, OwnEdits, FirstSignal, Events, Timers, NoTimer, MainThread, Threads, edits, Alive
    <2>3. SomeoneTakes'
      BY <1>20, <1>2, <1>3 DEF Exit, TypeOK, SomeoneTakes, Attribute, FirstSignal, Fresh, Events, Timers, NoTimer, MainThread, Threads, edits, Alive
    <2>4. LoggedAtExit'
      BY <1>20, <1>2, <1>3 DEF Exit, TypeOK, LoggedAtExit, InOnePlace, SomeoneTakes, OwnEdits, FirstSignal, EarlyTaken, Joined, Events, Timers, NoTimer, MainThread, Threads, edits, Alive
    <2>5. Fresh'
      BY <1>20, <1>2, <1>3 DEF Exit, TypeOK, Fresh, InOnePlace, Attribute, Events, Timers, NoTimer, MainThread, Threads, edits, Alive
    <2>6. OwnEdits'
      BY <1>20, <1>2, <1>3 DEF Exit, TypeOK, OwnEdits, Fresh, Attribute, Events, Timers, NoTimer, MainThread, Threads, edits, Alive
    <2>7. FirstSignal'
      BY <1>20, <1>2, <1>3 DEF Exit, TypeOK, FirstSignal, Events, Timers, NoTimer, MainThread, Threads, edits, Alive
    <2>8. Attribute'
      BY <1>20, <1>2, <1>3 DEF Exit, TypeOK, Attribute, Fresh, FirstSignal, Events, Timers, NoTimer, MainThread, Threads, edits, Alive
    <2>9. EarlyTaken'
      BY <1>20, <1>2, <1>3 DEF Exit, TypeOK, EarlyTaken, Fresh, FirstSignal, Events, Timers, NoTimer, MainThread, Threads, edits, Alive
    <2>10. Joined'
      BY <1>20, <1>2, <1>3 DEF Exit, TypeOK, Joined, FirstSignal, Events, Timers, NoTimer, MainThread, Threads, edits, Alive
    <2>20. QED
      BY <2>1, <2>2, <2>3, <2>4, <2>5, <2>6, <2>7, <2>8, <2>9, <2>10 DEF IInv
  <1>21. CASE UNCHANGED vars
    <2>1. TypeOK'
      BY <1>21, <1>2 DEF vars, edits, Alive, TypeOK
    <2>2. InOnePlace'
      BY <1>21, <1>2 DEF vars, edits, Alive, InOnePlace
    <2>3. SomeoneTakes'
      BY <1>21, <1>2 DEF vars, edits, Alive, SomeoneTakes
    <2>4. LoggedAtExit'
      BY <1>21, <1>2 DEF vars, edits, Alive, LoggedAtExit
    <2>5. Fresh'
      BY <1>21, <1>2 DEF vars, edits, Alive, Fresh
    <2>6. OwnEdits'
      BY <1>21, <1>2 DEF vars, edits, Alive, OwnEdits
    <2>7. FirstSignal'
      BY <1>21, <1>2 DEF vars, edits, Alive, FirstSignal
    <2>8. Attribute'
      BY <1>21, <1>2 DEF vars, edits, Alive, Attribute
    <2>9. EarlyTaken'
      BY <1>21, <1>2 DEF vars, edits, Alive, EarlyTaken
    <2>10. Joined'
      BY <1>21, <1>2 DEF vars, edits, Alive, Joined
    <2>20. QED
      BY <2>1, <2>2, <2>3, <2>4, <2>5, <2>6, <2>7, <2>8, <2>9, <2>10 DEF IInv
  <1>22. QED
    BY <1>1, <1>4, <1>5, <1>6, <1>7, <1>8, <1>9, <1>10, <1>11, <1>12, <1>13, <1>14, <1>15, <1>16, <1>17, <1>18, <1>19, <1>20, <1>21 DEF Next, Observer, Timer, Main, Gone

(* The strengthened invariant of the three kinds of threads holds in every *)
(* state of the daemon.                                                    *)
THEOREM Inductive == Spec => []IInv
  <1>1. QED
    BY Initial, Preserved, PTL DEF Spec

(* Every accepted edit is in exactly one place: none is logged twice, and  *)
(* only a second SIGTERM makes the daemon drop edits.                      *)
THEOREM OnePlace == Spec => []InOnePlace
  <1>1. IInv => InOnePlace
    BY DEF IInv
  <1>2. QED
    BY <1>1, Inductive, PTL

(* Whatever flushall() reads and clears without the lock, an edit on the   *)
(* list always has a thread that will take it.                             *)
THEOREM NeverInVain == Spec => []SomeoneTakes
  <1>1. IInv => SomeoneTakes
    BY DEF IInv
  <1>2. QED
    BY <1>1, Inductive, PTL

(* A daemon that is stopped once logs all edits from before the signal.    *)
THEOREM NothingMissing == Spec => []LoggedAtExit
  <1>1. IInv => LoggedAtExit
    BY DEF IInv
  <1>2. QED
    BY <1>1, Inductive, PTL
=============================================================================
