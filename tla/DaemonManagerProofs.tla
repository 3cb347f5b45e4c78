------------------------ MODULE DaemonManagerProofs ------------------------
(* Proofs about the daemon managers of the edit monitor, for every number  *)
(* of managers.                                                            *)
EXTENDS DaemonManager, TLAPS

Entering == {"check", "flock"}
Locked   == {"exists", "read", "write", "fill", "fork", "record", "unlock"}
Ending   == {"term", "wait", "kill"}
Removing == {"rm_read", "rm_unlink"}

TypeOK ==
  /\ at \in [Pids -> {"none", "dead", "boot", "boot_cleanup", "monitor", "sample", "stop_wait",
                      "exec", "exit", "reap", "touch", "list", "next"}
                     \cup Entering \cup Locked \cup Ending \cup Removing]
  /\ ctx \in [Pids -> {"boot", "start", "monitor", "reboot", "stop", "exit", "cleanup"}]
  /\ victim \in [Pids -> {"manager", "daemon", "gone"} \X Pids]
  /\ todo \in [Pids -> SUBSET Procs]
  /\ known \in SUBSET Pids
  /\ outcome \in [Pids -> {"none", "declined", "busy", "started", "stopped", "cleaned", "error",
                           "interrupted"}]
  /\ signal \in SUBSET Pids
  /\ daemon \in [Pids -> {"none", "running", "stopping", "dead"}]
  /\ pidfile \in Pids \cup {NoPid, Empty}
  /\ lockers \in SUBSET Procs
  /\ sign \in BOOLEAN
  /\ killed \in SUBSET Pids

(* The statements of each method.                                          *)
ShapeOf(p) ==
  /\ at[p] \in {"none", "boot", "boot_cleanup"} => ctx[p] = "boot"
  /\ at[p] \in Entering \cup Locked => ctx[p] = "start"
  /\ at[p] \in {"monitor", "sample"} => ctx[p] = "monitor"
  /\ at[p] = "stop_wait" => ctx[p] \in {"stop", "reboot"}
  /\ at[p] = "exec" => ctx[p] = "reboot"
  /\ at[p] \in {"exit", "reap"} => ctx[p] = "exit"
  /\ at[p] \in {"touch", "list", "next"} => ctx[p] = "cleanup"
  /\ at[p] \in Ending => ctx[p] \in {"start", "monitor", "reboot", "stop", "cleanup"}
  /\ at[p] \in Removing => ctx[p] \in {"start", "reboot", "stop"}
Shape == \A p \in Pids : ShapeOf(p)

(* Whom a manager ends: the one in the pidfile, or its own daemon.         *)
VictimOf(p) ==
  at[p] \in Ending =>
    /\ ctx[p] = "start" => victim[p][1] = "manager" /\ victim[p][2] # p /\ at[victim[p][2]] # "none"
    /\ ctx[p] \in {"monitor", "reboot", "stop"} => victim[p] = Daemon(p)
Victims == \A p \in Pids : VictimOf(p)

(* A manager past flock() in start() has the setup lock.                   *)
Lock ==
  /\ \A p \in Pids : Starting(p) => Manager(p) \in lockers
  /\ \A p, q \in Pids : Manager(p) \in lockers /\ Manager(q) \in lockers => p = q

(* What a manager may rely on of the pidfile.                              *)
FileOf(p) ==
  /\ ctx[p] = "start" /\ at[p] \in Removing => at[victim[p][2]] = "dead"
  /\ at[p] = "rm_unlink" => pidfile = Expected(p)
  /\ at[p] = "fill" => pidfile = Empty
  /\ at[p] \in {"fork", "record", "unlock"} => pidfile = p
  /\ pidfile = p => at[p] # "none"
  /\ Running(p) /\ ctx[p] = "monitor" => pidfile = p
File == \A p \in Pids : FileOf(p)

(* A manager that has not written the pidfile is not in it.                *)
OwnOf(p) ==
  \/ ctx[p] = "boot" \/ at[p] = "exec"
  \/ ctx[p] = "start" /\ Running(p) /\ at[p] \notin {"fork", "record", "unlock"}
  => pidfile # p
Own == \A p \in Pids : OwnOf(p)

IInv == TypeOK /\ Shape /\ Victims /\ Lock /\ File /\ Own

-----------------------------------------------------------------------------
(* The steps of the managers and their daemons.                            *)
LEMMA NextCases ==
  ASSUME [Next]_vars
  PROVE  \/ UNCHANGED vars
         \/ \E p \in Pids :
              \/ Launch(p) \/ Begin(p) \/ CheckAllowed(p) \/ Flock(p) \/ PidfileExists(p)
              \/ ReadPidfile(p) \/ CreatePidfile(p) \/ FillPidfile(p) \/ Fork(p)
              \/ RecordDaemon(p) \/ Unlock(p) \/ SendTerm(p) \/ WaitTerminated(p)
              \/ SendKill(p) \/ RemoveRead(p) \/ RemoveUnlink(p) \/ MonitorLoop(p)
              \/ MonitorAct(p) \/ StopDaemon(p) \/ Exec(p) \/ Exit(p) \/ Reap(p)
              \/ PlaceSign(p) \/ FindInstances(p) \/ KillNext(p) \/ TakeSignal(p)
              \/ Crash(p) \/ Interrupt(p)
              \/ DaemonEnds(p, "running") \/ DaemonEnds(p, "stopping")
  BY DEF Next, Step, Start, Terminate, AllDead

(* Where a manager goes on when a call raised, and after _remove_pidfile() *)
(* has returned.                                                           *)
Failed(p) ==
  \/ ctx[p] = "cleanup" /\ Go(p, "next") /\ UNCHANGED <<ctx, lockers, outcome>>
  \/ ctx[p] = "stop" /\ Enter(p, "exit", "exit") /\ UNCHANGED <<lockers, outcome>>
  \/ ctx[p] \notin {"cleanup", "stop"} /\ Leave(p, "error")

Removed(p) ==
  \/ ctx[p] = "start" /\ Go(p, "write") /\ UNCHANGED ctx
  \/ ctx[p] = "reboot" /\ Go(p, "exec") /\ UNCHANGED ctx
  \/ ctx[p] = "stop" /\ Enter(p, "exit", "exit")

(* Raise as a disjunction.                                                 *)
LEMMA RaiseCases ==
  ASSUME NEW p \in Pids, Raise(p)
  PROVE  Failed(p)
  BY DEF Raise, Failed

(* _remove_pidfile(): the file is not there or not the expected one,       *)
(* cannot be read, or is about to be removed; ...                          *)
LEMMA RemoveReadCases ==
  ASSUME Shape, NEW p \in Pids, RemoveRead(p)
  PROVE  /\ at[p] = "rm_read" /\ UNCHANGED <<victim, todo, known, signal, daemon, pidfile, sign, killed>>
         /\ \/ pidfile = Expected(p) /\ Go(p, "rm_unlink") /\ UNCHANGED <<ctx, outcome, lockers>>
            \/ pidfile = Empty /\ Failed(p)
            \/ /\ pidfile # Expected(p) /\ pidfile # Empty
               /\ Removed(p) /\ UNCHANGED <<outcome, lockers>>
<1>1. at[p] = "rm_read" /\ ctx[p] \in {"start", "reboot", "stop"}
  BY DEF RemoveRead, Shape, ShapeOf, Removing
<1>2. AfterRemove(p) => Removed(p)
  BY <1>1 DEF AfterRemove, Removed
<1> QED  BY <1>1, <1>2, RaiseCases DEF RemoveRead, files

(* ... it is removed, or the system refuses.                               *)
LEMMA RemoveUnlinkCases ==
  ASSUME Shape, NEW p \in Pids, RemoveUnlink(p)
  PROVE  /\ at[p] = "rm_unlink" /\ UNCHANGED <<victim, todo, known, signal, daemon, sign, killed>>
         /\ \/ pidfile' = NoPid /\ Removed(p) /\ UNCHANGED <<outcome, lockers>>
            \/ "remove" \in Failures /\ pidfile' = pidfile /\ Failed(p)
<1>1. at[p] = "rm_unlink" /\ ctx[p] \in {"start", "reboot", "stop"}
  BY DEF RemoveUnlink, Shape, ShapeOf, Removing
<1>2. AfterRemove(p) => Removed(p)
  BY <1>1 DEF AfterRemove, Removed
<1> QED  BY <1>1, <1>2, RaiseCases DEF RemoveUnlink

(* Both leave the others alone.                                            *)
LEMMA RemoveMoves ==
  ASSUME TypeOK, Shape, NEW p \in Pids, RemoveRead(p) \/ RemoveUnlink(p)
  PROVE  /\ at[p] \in Removing /\ UNCHANGED <<daemon, killed>>
         /\ ctx' = ctx \/ ctx'[p] = "stop" \/ ctx'[p] = "exit"
         /\ \A q \in Pids : q # p => at'[q] = at[q] /\ ctx'[q] = ctx[q]
  BY RemoveReadCases, RemoveUnlinkCases DEF TypeOK, Removing, Removed, Failed, Go, Enter, Leave

(* Before any process has started.                                         *)
LEMMA InitIInv == Init => IInv
<1> SUFFICES ASSUME Init PROVE IInv
  OBVIOUS
<1>1. TypeOK
  BY DEF Init, TypeOK, Manager, Procs
<1>2. Shape /\ Victims /\ Lock
  BY DEF Init, Shape, ShapeOf, Victims, VictimOf, Lock, Starting, Running, Entering, Locked, Ending, Removing
<1>3. File /\ Own
  BY PidsAssumption DEF Init, File, FileOf, Own, OwnOf, Running, Entering, Locked, Ending, Removing
<1> QED  BY <1>1, <1>2, <1>3 DEF IInv

(* Every statement of every manager keeps the types.                       *)
LEMMA TypeStep ==
  ASSUME TypeOK, Shape, [Next]_vars
  PROVE  TypeOK'
<1> USE DEF TypeOK, Entering, Locked, Ending, Removing
<1>1. ASSUME NEW p \in Pids, Launch(p) PROVE TypeOK'
  BY <1>1 DEF Launch, Go, files
<1>2. ASSUME NEW p \in Pids, Begin(p) PROVE TypeOK'
  BY <1>2 DEF Begin, Enter, Go, files, Pids
<1>3. ASSUME NEW p \in Pids, CheckAllowed(p) PROVE TypeOK'
  BY <1>3 DEF CheckAllowed, Go, Enter, Leave, Unlocked, files
<1>4. ASSUME NEW p \in Pids, Flock(p) PROVE TypeOK'
  <2>1. Manager(p) \in Procs
    BY DEF Manager, Procs
  <2> QED  BY <1>4, <2>1 DEF Flock, Go, Enter, Leave, Unlocked, files
<1>5. ASSUME NEW p \in Pids, PidfileExists(p) PROVE TypeOK'
  BY <1>5 DEF PidfileExists, Go, files
<1>6. ASSUME NEW p \in Pids, ReadPidfile(p) PROVE TypeOK'
  BY <1>6 DEF ReadPidfile, Go, Enter, Leave, Unlocked, Raise, files, Manager
<1>7. ASSUME NEW p \in Pids, CreatePidfile(p) PROVE TypeOK'
  BY <1>7 DEF CreatePidfile, Go, Enter, Leave, Unlocked, Raise, files
<1>8. ASSUME NEW p \in Pids, FillPidfile(p) PROVE TypeOK'
  BY <1>8 DEF FillPidfile, Go, files
<1>9. ASSUME NEW p \in Pids, Fork(p) PROVE TypeOK'
  BY <1>9 DEF Fork, Go, Enter, Leave, Unlocked, Raise, files, Daemon, Procs
<1>10. ASSUME NEW p \in Pids, RecordDaemon(p) PROVE TypeOK'
  BY <1>10 DEF RecordDaemon, Go, files
<1>11. ASSUME NEW p \in Pids, Unlock(p) PROVE TypeOK'
  BY <1>11 DEF Unlock, Enter, Go, Unlocked, files
<1>12. ASSUME NEW p \in Pids, SendTerm(p) PROVE TypeOK'
  BY <1>12 DEF SendTerm, Go, Enter, Leave, Unlocked, Raise, AfterTerminate, files, Alive
<1>13. ASSUME NEW p \in Pids, WaitTerminated(p) PROVE TypeOK'
  BY <1>13 DEF WaitTerminated, Go, AfterTerminate, files
<1>14. ASSUME NEW p \in Pids, SendKill(p) PROVE TypeOK'
  BY <1>14 DEF SendKill, Go, Enter, Leave, Unlocked, Raise, AfterTerminate, files
<1>15. ASSUME NEW p \in Pids, RemoveRead(p) PROVE TypeOK'
  BY <1>15, RemoveReadCases DEF Removed, Failed, Go, Enter, Leave, Unlocked
<1>16. ASSUME NEW p \in Pids, RemoveUnlink(p) PROVE TypeOK'
  BY <1>16, RemoveUnlinkCases DEF Removed, Failed, Go, Enter, Leave, Unlocked
<1>17. ASSUME NEW p \in Pids, MonitorLoop(p) PROVE TypeOK'
  BY <1>17 DEF MonitorLoop, Go, Enter, Leave, Unlocked, files
<1>18. ASSUME NEW p \in Pids, MonitorAct(p) PROVE TypeOK'
  BY <1>18 DEF MonitorAct, Go, Enter, files, Daemon
<1>19. ASSUME NEW p \in Pids, StopDaemon(p) PROVE TypeOK'
  BY <1>19 DEF StopDaemon, Go, files, Daemon
<1>20. ASSUME NEW p \in Pids, Exec(p) PROVE TypeOK'
  <2>1. CASE Leave(p, "stopped") /\ UNCHANGED <<victim, todo, known, daemon, signal>>
    BY <1>20, <2>1 DEF Exec, Enter, Go, Leave, Unlocked, files
  <2>2. CASE NewImage(p)
    <3>1. Gone(p) \in {"manager", "daemon", "gone"} \X Pids
      BY DEF Gone
    <3>2. victim' \in [Pids -> {"manager", "daemon", "gone"} \X Pids] /\ todo' \in [Pids -> SUBSET Procs]
      BY <2>2, <3>1 DEF NewImage
    <3>3. at' \in [Pids -> {"boot"} \cup {at[q] : q \in Pids}] /\ ctx' = [ctx EXCEPT ![p] = "boot"]
      BY <2>2 DEF NewImage, Enter, Go
    <3>4. signal' \in SUBSET Pids /\ known' \in SUBSET Pids
      BY <2>2 DEF NewImage
    <3> QED  BY <1>20, <2>2, <3>2, <3>3, <3>4 DEF Exec, NewImage, Enter, Go, files
  <2> QED  BY <1>20, <2>1, <2>2 DEF Exec
<1>21. ASSUME NEW p \in Pids, Exit(p) PROVE TypeOK'
  BY <1>21 DEF Exit, Go, files
<1>22. ASSUME NEW p \in Pids, Reap(p) PROVE TypeOK'
  BY <1>22 DEF Reap, Go, files
<1>23. ASSUME NEW p \in Pids, PlaceSign(p) PROVE TypeOK'
  BY <1>23 DEF PlaceSign, Go, files
<1>24. ASSUME NEW p \in Pids, FindInstances(p) PROVE TypeOK'
  BY <1>24 DEF FindInstances, Go, files, Procs
<1>25. ASSUME NEW p \in Pids, KillNext(p) PROVE TypeOK'
  <2>1. CASE todo[p] = {}
    BY <1>25, <2>1 DEF KillNext, Go, Enter, Leave, Unlocked, files
  <2>2. ASSUME NEW x \in todo[p], victim' = [victim EXCEPT ![p] = x],
               todo' = [todo EXCEPT ![p] = @ \ {x}], Go(p, "term"), UNCHANGED <<ctx, outcome, lockers>>
        PROVE  TypeOK'
    <3>1. x \in {"manager", "daemon", "gone"} \X Pids
      BY <2>2 DEF Procs
    <3> QED  BY <1>25, <2>2, <3>1 DEF KillNext, Go, files
  <2> QED  BY <1>25, <2>1, <2>2 DEF KillNext
<1>26. ASSUME NEW p \in Pids, TakeSignal(p) PROVE TypeOK'
  BY <1>26 DEF TakeSignal, Go, Enter, Leave, Unlocked, files
<1>27. ASSUME NEW p \in Pids, Crash(p) PROVE TypeOK'
  BY <1>27 DEF Crash, Go, files
<1>28. ASSUME NEW p \in Pids, Interrupt(p) PROVE TypeOK'
  BY <1>28 DEF Interrupt, files, proc
<1>30. ASSUME NEW p \in Pids, DaemonEnds(p, "running") \/ DaemonEnds(p, "stopping") PROVE TypeOK'
  BY <1>30 DEF DaemonEnds, proc, files
<1>31. CASE UNCHANGED vars
  BY <1>31 DEF vars, proc, files
<1> QED
  BY NextCases, <1>1, <1>2, <1>3, <1>4, <1>5, <1>6, <1>7, <1>8, <1>9, <1>10,
     <1>11, <1>12, <1>13, <1>14, <1>15, <1>16, <1>17, <1>18, <1>19, <1>20, <1>21,
     <1>22, <1>23, <1>24, <1>25, <1>26, <1>27, <1>28, <1>30, <1>31

(* A statement belongs to its method.                                      *)
LEMMA ShapeStep ==
  ASSUME TypeOK, Shape, [Next]_vars
  PROVE  Shape'
<1> SUFFICES ASSUME NEW q \in Pids PROVE ShapeOf(q)'
  BY DEF Shape
<1>0. ShapeOf(q)
  BY DEF Shape
<1> USE DEF TypeOK, ShapeOf, Entering, Locked, Ending, Removing
<1>1. ASSUME NEW p \in Pids, Launch(p) PROVE ShapeOf(q)'
  BY <1>1, <1>0 DEF Launch, Go, files
<1>2. ASSUME NEW p \in Pids, Begin(p) PROVE ShapeOf(q)'
  BY <1>2, <1>0 DEF Begin, Enter, Go, files
<1>3. ASSUME NEW p \in Pids, CheckAllowed(p) PROVE ShapeOf(q)'
  BY <1>3, <1>0 DEF CheckAllowed, Go, Enter, Leave, Unlocked, files
<1>4. ASSUME NEW p \in Pids, Flock(p) PROVE ShapeOf(q)'
  BY <1>4, <1>0 DEF Flock, Go, Enter, Leave, Unlocked, files
<1>5. ASSUME NEW p \in Pids, PidfileExists(p) PROVE ShapeOf(q)'
  BY <1>5, <1>0 DEF PidfileExists, Go, files
<1>6. ASSUME NEW p \in Pids, ReadPidfile(p) PROVE ShapeOf(q)'
  BY <1>6, <1>0 DEF ReadPidfile, Go, Enter, Leave, Unlocked, Raise, files
<1>7. ASSUME NEW p \in Pids, CreatePidfile(p) PROVE ShapeOf(q)'
  BY <1>7, <1>0 DEF CreatePidfile, Go, Enter, Leave, Unlocked, Raise, files
<1>8. ASSUME NEW p \in Pids, FillPidfile(p) PROVE ShapeOf(q)'
  BY <1>8, <1>0 DEF FillPidfile, Go, files
<1>9. ASSUME NEW p \in Pids, Fork(p) PROVE ShapeOf(q)'
  BY <1>9, <1>0 DEF Fork, Go, Enter, Leave, Unlocked, Raise, files
<1>10. ASSUME NEW p \in Pids, RecordDaemon(p) PROVE ShapeOf(q)'
  BY <1>10, <1>0 DEF RecordDaemon, Go, files
<1>11. ASSUME NEW p \in Pids, Unlock(p) PROVE ShapeOf(q)'
  BY <1>11, <1>0 DEF Unlock, Enter, Go, Unlocked, files
<1>12. ASSUME NEW p \in Pids, SendTerm(p) PROVE ShapeOf(q)'
  <2>1. ShapeOf(p)
    BY DEF Shape
  <2> QED  BY <1>0, <1>12, <2>1 DEF SendTerm, Go, Enter, Leave, Raise, AfterTerminate
<1>13. ASSUME NEW p \in Pids, WaitTerminated(p) PROVE ShapeOf(q)'
  BY <1>13, <1>0 DEF WaitTerminated, Go, AfterTerminate, files
<1>14. ASSUME NEW p \in Pids, SendKill(p) PROVE ShapeOf(q)'
  <2>1. ShapeOf(p)
    BY DEF Shape
  <2> QED  BY <1>0, <1>14, <2>1 DEF SendKill, Go, Enter, Leave, Raise, AfterTerminate
<1>15. ASSUME NEW p \in Pids, RemoveRead(p) PROVE ShapeOf(q)'
  BY <1>15, RemoveReadCases, <1>0 DEF Removed, Failed, Go, Enter, Leave, Unlocked
<1>16. ASSUME NEW p \in Pids, RemoveUnlink(p) PROVE ShapeOf(q)'
  BY <1>16, RemoveUnlinkCases, <1>0 DEF Removed, Failed, Go, Enter, Leave, Unlocked
<1>17. ASSUME NEW p \in Pids, MonitorLoop(p) PROVE ShapeOf(q)'
  BY <1>17, <1>0 DEF MonitorLoop, Go, Enter, Leave, Unlocked, files
<1>18. ASSUME NEW p \in Pids, MonitorAct(p) PROVE ShapeOf(q)'
  BY <1>18, <1>0 DEF MonitorAct, Go, Enter, files
<1>19. ASSUME NEW p \in Pids, StopDaemon(p) PROVE ShapeOf(q)'
  BY <1>19, <1>0 DEF StopDaemon, Go, files
<1>20. ASSUME NEW p \in Pids, Exec(p) PROVE ShapeOf(q)'
  BY <1>20, <1>0 DEF Exec, NewImage, Enter, Go, Leave, Unlocked, files
<1>21. ASSUME NEW p \in Pids, Exit(p) PROVE ShapeOf(q)'
  BY <1>21, <1>0 DEF Exit, Go, files
<1>22. ASSUME NEW p \in Pids, Reap(p) PROVE ShapeOf(q)'
  BY <1>22, <1>0 DEF Reap, Go, files
<1>23. ASSUME NEW p \in Pids, PlaceSign(p) PROVE ShapeOf(q)'
  BY <1>23, <1>0 DEF PlaceSign, Go, files
<1>24. ASSUME NEW p \in Pids, FindInstances(p) PROVE ShapeOf(q)'
  BY <1>24, <1>0 DEF FindInstances, Go, files
<1>25. ASSUME NEW p \in Pids, KillNext(p) PROVE ShapeOf(q)'
  BY <1>25, <1>0 DEF KillNext, Go, Enter, Leave, Unlocked, files
<1>26. ASSUME NEW p \in Pids, TakeSignal(p) PROVE ShapeOf(q)'
  BY <1>26, <1>0 DEF TakeSignal, Go, Enter, Leave, Unlocked, files
<1>27. ASSUME NEW p \in Pids, Crash(p) PROVE ShapeOf(q)'
  BY <1>27, <1>0 DEF Crash, Go, files
<1>28. ASSUME NEW p \in Pids, Interrupt(p) PROVE ShapeOf(q)'
  BY <1>28, <1>0 DEF Interrupt, files, proc
<1>29. ASSUME NEW p \in Pids, DaemonEnds(p, "running") \/ DaemonEnds(p, "stopping") PROVE ShapeOf(q)'
  BY <1>29, <1>0 DEF DaemonEnds, proc, files
<1>30. CASE UNCHANGED vars
  BY <1>30, <1>0 DEF vars, proc, files
<1> QED
  BY NextCases, <1>1, <1>2, <1>3, <1>4, <1>5, <1>6, <1>7, <1>8, <1>9, <1>10, <1>11,
     <1>12, <1>13, <1>14, <1>15, <1>16, <1>17, <1>18, <1>19, <1>20, <1>21, <1>22,
     <1>23, <1>24, <1>25, <1>26, <1>27, <1>28, <1>29, <1>30

(* A process is launched once, and one that has ended does nothing more.   *)
LEMMA LifeStep ==
  ASSUME TypeOK, Shape, [Next]_vars, NEW q \in Pids
  PROVE  /\ at[q] # "none" => at'[q] # "none"
         /\ at[q] = "dead" => at'[q] = "dead" /\ ctx'[q] = ctx[q]
<1> DEFINE Goal == /\ at[q] # "none" => at'[q] # "none"
                   /\ at[q] = "dead" => at'[q] = "dead" /\ ctx'[q] = ctx[q]
<1> USE DEF TypeOK, Running, Entering, Locked, Ending, Removing
<1>1. ASSUME NEW p \in Pids, Launch(p) PROVE Goal
  BY <1>1 DEF Launch, Go, files
<1>2. ASSUME NEW p \in Pids, Begin(p) PROVE Goal
  BY <1>2 DEF Begin, Enter, Go, files
<1>3. ASSUME NEW p \in Pids, CheckAllowed(p) PROVE Goal
  BY <1>3 DEF CheckAllowed, Go, Enter, Leave, Unlocked, files
<1>4. ASSUME NEW p \in Pids, Flock(p) PROVE Goal
  BY <1>4 DEF Flock, Go, Enter, Leave, Unlocked, files
<1>5. ASSUME NEW p \in Pids, PidfileExists(p) PROVE Goal
  BY <1>5 DEF PidfileExists, Go, files
<1>6. ASSUME NEW p \in Pids, ReadPidfile(p) PROVE Goal
  BY <1>6 DEF ReadPidfile, Go, Enter, Leave, Unlocked, Raise, files
<1>7. ASSUME NEW p \in Pids, CreatePidfile(p) PROVE Goal
  BY <1>7 DEF CreatePidfile, Go, Enter, Leave, Unlocked, Raise, files
<1>8. ASSUME NEW p \in Pids, FillPidfile(p) PROVE Goal
  BY <1>8 DEF FillPidfile, Go, files
<1>9. ASSUME NEW p \in Pids, Fork(p) PROVE Goal
  BY <1>9 DEF Fork, Go, Enter, Leave, Unlocked, Raise, files
<1>10. ASSUME NEW p \in Pids, RecordDaemon(p) PROVE Goal
  BY <1>10 DEF RecordDaemon, Go, files
<1>11. ASSUME NEW p \in Pids, Unlock(p) PROVE Goal
  BY <1>11 DEF Unlock, Enter, Go, Unlocked, files
<1>12. ASSUME NEW p \in Pids, SendTerm(p) PROVE Goal
  BY <1>12 DEF SendTerm, Go, Enter, Leave, Unlocked, Raise, AfterTerminate, files
<1>13. ASSUME NEW p \in Pids, WaitTerminated(p) PROVE Goal
  BY <1>13 DEF WaitTerminated, Go, AfterTerminate, files
<1>14. ASSUME NEW p \in Pids, SendKill(p) PROVE Goal
  BY <1>14 DEF SendKill, Go, Enter, Leave, Unlocked, Raise, AfterTerminate, files
<1>15. ASSUME NEW p \in Pids, RemoveRead(p) PROVE Goal
  BY <1>15, RemoveReadCases DEF Removed, Failed, Go, Enter, Leave, Unlocked
<1>16. ASSUME NEW p \in Pids, RemoveUnlink(p) PROVE Goal
  BY <1>16, RemoveUnlinkCases DEF Removed, Failed, Go, Enter, Leave, Unlocked
<1>17. ASSUME NEW p \in Pids, MonitorLoop(p) PROVE Goal
  BY <1>17 DEF MonitorLoop, Go, Enter, Leave, Unlocked, files
<1>18. ASSUME NEW p \in Pids, MonitorAct(p) PROVE Goal
  BY <1>18 DEF MonitorAct, Go, Enter, files
<1>19. ASSUME NEW p \in Pids, StopDaemon(p) PROVE Goal
  BY <1>19 DEF StopDaemon, Go, files
<1>20. ASSUME NEW p \in Pids, Exec(p) PROVE Goal
  BY <1>20 DEF Exec, NewImage, Enter, Go, Leave, Unlocked, files
<1>21. ASSUME NEW p \in Pids, Exit(p) PROVE Goal
  BY <1>21 DEF Exit, Go, files
<1>22. ASSUME NEW p \in Pids, Reap(p) PROVE Goal
  BY <1>22 DEF Reap, Go, files
<1>23. ASSUME NEW p \in Pids, PlaceSign(p) PROVE Goal
  BY <1>23 DEF PlaceSign, Go, files
<1>24. ASSUME NEW p \in Pids, FindInstances(p) PROVE Goal
  BY <1>24 DEF FindInstances, Go, files
<1>25. ASSUME NEW p \in Pids, KillNext(p) PROVE Goal
  BY <1>25 DEF KillNext, Go, Enter, Leave, Unlocked, files
<1>26. ASSUME NEW p \in Pids, TakeSignal(p) PROVE Goal
  BY <1>26 DEF TakeSignal, Go, Enter, Leave, Unlocked, files
<1>27. ASSUME NEW p \in Pids, Crash(p) PROVE Goal
  BY <1>27 DEF Crash, Go, files
<1>28. ASSUME NEW p \in Pids, Interrupt(p) PROVE Goal
  BY <1>28 DEF Interrupt, files, proc
<1>29. ASSUME NEW p \in Pids, DaemonEnds(p, "running") \/ DaemonEnds(p, "stopping") PROVE Goal
  BY <1>29 DEF DaemonEnds, proc, files
<1>30. CASE UNCHANGED vars
  BY <1>30 DEF vars, proc, files
<1> QED
  BY NextCases, <1>1, <1>2, <1>3, <1>4, <1>5, <1>6, <1>7, <1>8, <1>9, <1>10, <1>11,
     <1>12, <1>13, <1>14, <1>15, <1>16, <1>17, <1>18, <1>19, <1>20, <1>21, <1>22,
     <1>23, <1>24, <1>25, <1>26, <1>27, <1>28, <1>29, <1>30

(* Whom a manager ends is settled when it begins to.                       *)
LEMMA VictimStep ==
  ASSUME TypeOK, Shape, Victims, File, Own, [Next]_vars
  PROVE  Victims'
<1> SUFFICES ASSUME NEW q \in Pids PROVE VictimOf(q)'
  BY DEF Victims
<1>0. ASSUME at'[q] \in Ending =>
               at[q] \in Ending /\ ctx'[q] = ctx[q] /\ victim'[q] = victim[q]
      PROVE  VictimOf(q)'
  <2>1. victim[q][2] \in Pids
    BY DEF TypeOK
  <2> QED  BY <1>0, <2>1, LifeStep DEF Victims, VictimOf, Daemon
<1> USE DEF TypeOK, Ending
<1>1. ASSUME NEW p \in Pids, Launch(p) PROVE VictimOf(q)'
  BY <1>1, <1>0 DEF Launch, Go, files
<1>2. ASSUME NEW p \in Pids, Begin(p) PROVE VictimOf(q)'
  BY <1>2, <1>0 DEF Begin, Enter, Go, files
<1>3. ASSUME NEW p \in Pids, CheckAllowed(p) PROVE VictimOf(q)'
  BY <1>3, <1>0 DEF CheckAllowed, Go, Enter, Leave, Unlocked, files
<1>4. ASSUME NEW p \in Pids, Flock(p) PROVE VictimOf(q)'
  BY <1>4, <1>0 DEF Flock, Go, Enter, Leave, Unlocked, files
<1>5. ASSUME NEW p \in Pids, PidfileExists(p) PROVE VictimOf(q)'
  BY <1>5, <1>0 DEF PidfileExists, Go, files
<1>6. ASSUME NEW p \in Pids, ReadPidfile(p) PROVE VictimOf(q)'
  <2>1. CASE q = p /\ at'[p] = "term"
    <3>1. victim' = [victim EXCEPT ![p] = Manager(pidfile)] /\ pidfile \in Pids
      BY <1>6, <2>1 DEF ReadPidfile, Raise, Leave, Enter, Go
    <3>0. pidfile # p
      BY <1>6 DEF ReadPidfile, Own, OwnOf, Shape, ShapeOf, Locked, Running
    <3>2. ctx'[p] = "start" /\ at[pidfile] # "none" /\ at'[pidfile] # "none"
      BY <1>6, <2>1, <3>1, LifeStep DEF ReadPidfile, Raise, Leave, Enter, Go, Shape, ShapeOf, Locked, File, FileOf
    <3> QED  BY <2>1, <3>0, <3>1, <3>2 DEF VictimOf, Manager
  <2>2. CASE ~(q = p /\ at'[p] = "term")
    BY <1>6, <1>0, <2>2 DEF ReadPidfile, Go, Enter, Leave, Raise
  <2> QED  BY <2>1, <2>2
<1>7. ASSUME NEW p \in Pids, CreatePidfile(p) PROVE VictimOf(q)'
  BY <1>7, <1>0 DEF CreatePidfile, Go, Enter, Leave, Unlocked, Raise, files
<1>8. ASSUME NEW p \in Pids, FillPidfile(p) PROVE VictimOf(q)'
  BY <1>8, <1>0 DEF FillPidfile, Go, files
<1>9. ASSUME NEW p \in Pids, Fork(p) PROVE VictimOf(q)'
  BY <1>9, <1>0 DEF Fork, Go, Enter, Leave, Unlocked, Raise, files
<1>10. ASSUME NEW p \in Pids, RecordDaemon(p) PROVE VictimOf(q)'
  BY <1>10, <1>0 DEF RecordDaemon, Go, files
<1>11. ASSUME NEW p \in Pids, Unlock(p) PROVE VictimOf(q)'
  BY <1>11, <1>0 DEF Unlock, Enter, Go, Unlocked, files
<1>12. ASSUME NEW p \in Pids, SendTerm(p) PROVE VictimOf(q)'
  BY <1>12, <1>0 DEF SendTerm, Go, Enter, Leave, Unlocked, Raise, AfterTerminate, files
<1>13. ASSUME NEW p \in Pids, WaitTerminated(p) PROVE VictimOf(q)'
  BY <1>13, <1>0 DEF WaitTerminated, Go, AfterTerminate, files
<1>14. ASSUME NEW p \in Pids, SendKill(p) PROVE VictimOf(q)'
  BY <1>14, <1>0 DEF SendKill, Go, Enter, Leave, Unlocked, Raise, AfterTerminate, files
<1>15. ASSUME NEW p \in Pids, RemoveRead(p) PROVE VictimOf(q)'
  BY <1>15, RemoveReadCases, <1>0 DEF Removed, Failed, Go, Enter, Leave, Unlocked
<1>16. ASSUME NEW p \in Pids, RemoveUnlink(p) PROVE VictimOf(q)'
  BY <1>16, RemoveUnlinkCases, <1>0 DEF Removed, Failed, Go, Enter, Leave, Unlocked
<1>17. ASSUME NEW p \in Pids, MonitorLoop(p) PROVE VictimOf(q)'
  BY <1>17, <1>0 DEF MonitorLoop, Go, Enter, Leave, Unlocked, files
<1>18. ASSUME NEW p \in Pids, MonitorAct(p) PROVE VictimOf(q)'
  <2>1. CASE q = p /\ at'[p] = "term"
    <3>1. ctx'[p] = "monitor" /\ victim'[p] = Daemon(p)
      BY <1>18, <2>1 DEF MonitorAct, Go, Enter, Shape, ShapeOf
    <3> QED  BY <2>1, <3>1 DEF VictimOf, Daemon
  <2>2. CASE ~(q = p /\ at'[p] = "term")
    BY <1>18, <1>0, <2>2 DEF MonitorAct, Go, Enter
  <2> QED  BY <2>1, <2>2
<1>19. ASSUME NEW p \in Pids, StopDaemon(p) PROVE VictimOf(q)'
  <2>1. CASE q = p /\ at'[p] = "term"
    <3>1. ctx'[p] \in {"stop", "reboot"} /\ victim'[p] = Daemon(p)
      BY <1>19, <2>1 DEF StopDaemon, Go, Shape, ShapeOf
    <3> QED  BY <2>1, <3>1 DEF VictimOf, Daemon
  <2>2. CASE ~(q = p /\ at'[p] = "term")
    BY <1>19, <1>0, <2>2 DEF StopDaemon, Go
  <2> QED  BY <2>1, <2>2
<1>20. ASSUME NEW p \in Pids, Exec(p) PROVE VictimOf(q)'
  <2>1. CASE NewImage(p) /\ q # p /\ at[q] \in Ending /\ victim[q] = Daemon(p)
    <3>1. victim[q] # Daemon(q) /\ victim[q][1] # "manager"
      BY <2>1 DEF Daemon
    <3>2. ctx[q] \notin {"start", "monitor", "reboot", "stop"} /\ ctx'[q] = ctx[q]
      BY <2>1, <3>1 DEF Victims, VictimOf, NewImage, Enter
    <3> QED  BY <3>2 DEF VictimOf
  <2>2. CASE ~(NewImage(p) /\ q # p /\ at[q] \in Ending /\ victim[q] = Daemon(p))
    BY <1>20, <1>0, <2>2 DEF Exec, NewImage, Go, Enter, Leave
  <2> QED  BY <2>1, <2>2
<1>21. ASSUME NEW p \in Pids, Exit(p) PROVE VictimOf(q)'
  BY <1>21, <1>0 DEF Exit, Go, files
<1>22. ASSUME NEW p \in Pids, Reap(p) PROVE VictimOf(q)'
  BY <1>22, <1>0 DEF Reap, Go, files
<1>23. ASSUME NEW p \in Pids, PlaceSign(p) PROVE VictimOf(q)'
  BY <1>23, <1>0 DEF PlaceSign, Go, files
<1>24. ASSUME NEW p \in Pids, FindInstances(p) PROVE VictimOf(q)'
  BY <1>24, <1>0 DEF FindInstances, Go, files
<1>25. ASSUME NEW p \in Pids, KillNext(p) PROVE VictimOf(q)'
  <2>1. CASE q = p /\ at'[p] = "term"
    <3>1. ctx'[p] = "cleanup"
      BY <1>25, <2>1 DEF KillNext, Leave, Enter, Go, Shape, ShapeOf
    <3> QED  BY <2>1, <3>1 DEF VictimOf
  <2>2. CASE ~(q = p /\ at'[p] = "term")
    BY <1>25, <1>0, <2>2 DEF KillNext, Leave, Go, Enter
  <2> QED  BY <2>1, <2>2
<1>26. ASSUME NEW p \in Pids, TakeSignal(p) PROVE VictimOf(q)'
  BY <1>26, <1>0 DEF TakeSignal, Go, Enter, Leave, Unlocked, files
<1>27. ASSUME NEW p \in Pids, Crash(p) PROVE VictimOf(q)'
  BY <1>27, <1>0 DEF Crash, Go, files
<1>28. ASSUME NEW p \in Pids, Interrupt(p) PROVE VictimOf(q)'
  BY <1>28, <1>0 DEF Interrupt, files, proc
<1>29. ASSUME NEW p \in Pids, DaemonEnds(p, "running") \/ DaemonEnds(p, "stopping") PROVE VictimOf(q)'
  BY <1>29, <1>0 DEF DaemonEnds, proc, files
<1>30. CASE UNCHANGED vars
  BY <1>30, <1>0 DEF vars, proc, files
<1> QED
  BY NextCases, <1>1, <1>2, <1>3, <1>4, <1>5, <1>6, <1>7, <1>8, <1>9, <1>10, <1>11,
     <1>12, <1>13, <1>14, <1>15, <1>16, <1>17, <1>18, <1>19, <1>20, <1>21, <1>22,
     <1>23, <1>24, <1>25, <1>26, <1>27, <1>28, <1>29, <1>30

(* The setup lock has one owner: whoever takes it has found it free.       *)
LEMMA OwnerStep ==
  ASSUME TypeOK, Shape, Lock, [Next]_vars, NEW q \in Pids, NEW r \in Pids,
         Manager(q) \in lockers', Manager(r) \in lockers'
  PROVE  q = r
<1>0. Manager(q) \in lockers /\ Manager(r) \in lockers => q = r
  BY DEF Lock
<1>a. Manager(q) # Daemon(q) /\ Manager(r) # Daemon(r) /\ (Manager(q) = Manager(r) => q = r)
  BY DEF Manager, Daemon
<1>1. ASSUME NEW p \in Pids, Launch(p) PROVE q = r
  BY <1>1, <1>0 DEF Launch, Go, files
<1>2. ASSUME NEW p \in Pids, Begin(p) PROVE q = r
  BY <1>2, <1>0 DEF Begin, Enter, Go, files
<1>3. ASSUME NEW p \in Pids, CheckAllowed(p) PROVE q = r
  BY <1>3, <1>0 DEF CheckAllowed, Go, Enter, Leave, Unlocked, files
<1>4. ASSUME NEW p \in Pids, Flock(p) PROVE q = r
  BY <1>0, <1>a, <1>4 DEF Flock, Leave, Unlocked
<1>5. ASSUME NEW p \in Pids, PidfileExists(p) PROVE q = r
  BY <1>5, <1>0 DEF PidfileExists, Go, files
<1>6. ASSUME NEW p \in Pids, ReadPidfile(p) PROVE q = r
  BY <1>6, <1>0 DEF ReadPidfile, Go, Enter, Leave, Unlocked, Raise, files
<1>7. ASSUME NEW p \in Pids, CreatePidfile(p) PROVE q = r
  BY <1>7, <1>0 DEF CreatePidfile, Go, Enter, Leave, Unlocked, Raise, files
<1>8. ASSUME NEW p \in Pids, FillPidfile(p) PROVE q = r
  BY <1>8, <1>0 DEF FillPidfile, Go, files
<1>9. ASSUME NEW p \in Pids, Fork(p) PROVE q = r
  <2>1. Manager(q) # Daemon(p) /\ Manager(r) # Daemon(p)
    BY DEF Manager, Daemon
  <2> QED  BY <1>0, <1>9, <2>1, RaiseCases DEF Fork, Failed, Leave, Unlocked
<1>10. ASSUME NEW p \in Pids, RecordDaemon(p) PROVE q = r
  BY <1>10, <1>0 DEF RecordDaemon, Go, files
<1>11. ASSUME NEW p \in Pids, Unlock(p) PROVE q = r
  BY <1>11, <1>0 DEF Unlock, Enter, Go, Unlocked, files
<1>12. ASSUME NEW p \in Pids, SendTerm(p) PROVE q = r
  BY <1>12, <1>0 DEF SendTerm, Go, Enter, Leave, Unlocked, Raise, AfterTerminate, files
<1>13. ASSUME NEW p \in Pids, WaitTerminated(p) PROVE q = r
  BY <1>13, <1>0 DEF WaitTerminated, Go, AfterTerminate, files
<1>14. ASSUME NEW p \in Pids, SendKill(p) PROVE q = r
  BY <1>14, <1>0 DEF SendKill, Go, Enter, Leave, Unlocked, Raise, AfterTerminate, files
<1>15. ASSUME NEW p \in Pids, RemoveRead(p) PROVE q = r
  BY <1>15, RemoveReadCases, <1>0 DEF Removed, Failed, Go, Enter, Leave, Unlocked
<1>16. ASSUME NEW p \in Pids, RemoveUnlink(p) PROVE q = r
  BY <1>16, RemoveUnlinkCases, <1>0 DEF Removed, Failed, Go, Enter, Leave, Unlocked
<1>17. ASSUME NEW p \in Pids, MonitorLoop(p) PROVE q = r
  BY <1>17, <1>0 DEF MonitorLoop, Go, Enter, Leave, Unlocked, files
<1>18. ASSUME NEW p \in Pids, MonitorAct(p) PROVE q = r
  BY <1>18, <1>0 DEF MonitorAct, Go, Enter, files
<1>19. ASSUME NEW p \in Pids, StopDaemon(p) PROVE q = r
  BY <1>19, <1>0 DEF StopDaemon, Go, files
<1>20. ASSUME NEW p \in Pids, Exec(p) PROVE q = r
  BY <1>20, <1>0 DEF Exec, NewImage, Enter, Go, Leave, Unlocked, files
<1>21. ASSUME NEW p \in Pids, Exit(p) PROVE q = r
  BY <1>21, <1>0 DEF Exit, Go, files
<1>22. ASSUME NEW p \in Pids, Reap(p) PROVE q = r
  BY <1>22, <1>0 DEF Reap, Go, files
<1>23. ASSUME NEW p \in Pids, PlaceSign(p) PROVE q = r
  BY <1>23, <1>0 DEF PlaceSign, Go, files
<1>24. ASSUME NEW p \in Pids, FindInstances(p) PROVE q = r
  BY <1>24, <1>0 DEF FindInstances, Go, files
<1>25. ASSUME NEW p \in Pids, KillNext(p) PROVE q = r
  BY <1>25, <1>0 DEF KillNext, Go, Enter, Leave, Unlocked, files
<1>26. ASSUME NEW p \in Pids, TakeSignal(p) PROVE q = r
  BY <1>26, <1>0 DEF TakeSignal, Go, Enter, Leave, Unlocked, files
<1>27. ASSUME NEW p \in Pids, Crash(p) PROVE q = r
  BY <1>27, <1>0 DEF Crash, Go, files
<1>28. ASSUME NEW p \in Pids, Interrupt(p) PROVE q = r
  BY <1>28, <1>0 DEF Interrupt, files, proc
<1>29. ASSUME NEW p \in Pids, DaemonEnds(p, "running") \/ DaemonEnds(p, "stopping") PROVE q = r
  BY <1>29, <1>0 DEF DaemonEnds, proc, files
<1>30. CASE UNCHANGED vars
  BY <1>30, <1>0 DEF vars, proc, files
<1> QED
  BY NextCases, <1>1, <1>2, <1>3, <1>4, <1>5, <1>6, <1>7, <1>8, <1>9, <1>10, <1>11,
     <1>12, <1>13, <1>14, <1>15, <1>16, <1>17, <1>18, <1>19, <1>20, <1>21, <1>22,
     <1>23, <1>24, <1>25, <1>26, <1>27, <1>28, <1>29, <1>30

(* A start keeps the lock until it ends: only its owner gives it up, or    *)
(* loses it with its life.                                                 *)
LEMMA HoldStep ==
  ASSUME TypeOK, Shape, Lock, [Next]_vars, NEW q \in Pids, Starting(q)'
  PROVE  Manager(q) \in lockers'
<1>0. Starting(q) => Manager(q) \in lockers /\ \A r \in Pids : Manager(r) \in lockers => r = q
  BY DEF Lock
<1> USE DEF TypeOK, Starting, Running, Entering, Locked, Ending, Removing
<1>1. ASSUME NEW p \in Pids, Launch(p) PROVE Manager(q) \in lockers'
  BY <1>1, <1>0 DEF Launch, Go, files, Shape, ShapeOf
<1>2. ASSUME NEW p \in Pids, Begin(p) PROVE Manager(q) \in lockers'
  BY <1>2, <1>0 DEF Begin, Enter, Go, files
<1>3. ASSUME NEW p \in Pids, CheckAllowed(p) PROVE Manager(q) \in lockers'
  BY <1>3, <1>0 DEF CheckAllowed, Go, Enter, Leave, Unlocked, files
<1>4. ASSUME NEW p \in Pids, Flock(p) PROVE Manager(q) \in lockers'
  BY <1>4, <1>0 DEF Flock, Go, Enter, Leave, Unlocked, files
<1>5. ASSUME NEW p \in Pids, PidfileExists(p) PROVE Manager(q) \in lockers'
  BY <1>5, <1>0 DEF PidfileExists, Go, files
<1>6. ASSUME NEW p \in Pids, ReadPidfile(p) PROVE Manager(q) \in lockers'
  BY <1>6, <1>0 DEF ReadPidfile, Go, Enter, Leave, Unlocked, Raise, files
<1>7. ASSUME NEW p \in Pids, CreatePidfile(p) PROVE Manager(q) \in lockers'
  BY <1>7, <1>0 DEF CreatePidfile, Go, Enter, Leave, Unlocked, Raise, files
<1>8. ASSUME NEW p \in Pids, FillPidfile(p) PROVE Manager(q) \in lockers'
  BY <1>8, <1>0 DEF FillPidfile, Go, files
<1>9. ASSUME NEW p \in Pids, Fork(p) PROVE Manager(q) \in lockers'
  BY <1>9, <1>0 DEF Fork, Go, Enter, Leave, Unlocked, Raise, files
<1>10. ASSUME NEW p \in Pids, RecordDaemon(p) PROVE Manager(q) \in lockers'
  BY <1>10, <1>0 DEF RecordDaemon, Go, files
<1>11. ASSUME NEW p \in Pids, Unlock(p) PROVE Manager(q) \in lockers'
  BY <1>11, <1>0 DEF Unlock, Enter, Go, Unlocked, files
<1>12. ASSUME NEW p \in Pids, SendTerm(p) PROVE Manager(q) \in lockers'
  BY <1>12, <1>0 DEF SendTerm, Go, Enter, Leave, Unlocked, Raise, AfterTerminate, files
<1>13. ASSUME NEW p \in Pids, WaitTerminated(p) PROVE Manager(q) \in lockers'
  BY <1>13, <1>0 DEF WaitTerminated, Go, AfterTerminate, files
<1>14. ASSUME NEW p \in Pids, SendKill(p) PROVE Manager(q) \in lockers'
  <2>1. CASE "kill" \in Failures /\ Failed(p)
    BY <1>0, <1>14, <2>1 DEF SendKill, Failed, Go, Enter, Leave, Unlocked
  <2>2. ASSUME at' = [at EXCEPT ![p] = AfterTerminate(p),
                         ![victim[p][2]] = IF Alive(victim[p]) /\ victim[p][1] = "manager" THEN "dead" ELSE @],
               lockers' = lockers \ {victim[p]}, ctx' = ctx
        PROVE  Manager(q) \in lockers'
    <3>1. Starting(q)
      BY <1>14, <2>2 DEF SendKill, Shape, ShapeOf
    <3>2. victim[p] # Manager(q)
      <4> SUFFICES ASSUME victim[p] = Manager(q) PROVE FALSE
        OBVIOUS
      <4>1. victim[p][1] = "manager" /\ victim[p][2] = q /\ Alive(victim[p])
        BY <3>1 DEF Manager, Alive
      <4>2. at'[q] = "dead"
        BY <2>2, <4>1
      <4> QED  BY <4>2
    <3> QED  BY <1>0, <2>2, <3>1, <3>2
  <2> QED  BY <1>14, <2>1, <2>2, RaiseCases DEF SendKill
<1>15. ASSUME NEW p \in Pids, RemoveRead(p) PROVE Manager(q) \in lockers'
  BY <1>15, RemoveReadCases, <1>0 DEF Removed, Failed, Go, Enter, Leave, Unlocked
<1>16. ASSUME NEW p \in Pids, RemoveUnlink(p) PROVE Manager(q) \in lockers'
  BY <1>16, RemoveUnlinkCases, <1>0 DEF Removed, Failed, Go, Enter, Leave, Unlocked
<1>17. ASSUME NEW p \in Pids, MonitorLoop(p) PROVE Manager(q) \in lockers'
  BY <1>17, <1>0 DEF MonitorLoop, Go, Enter, Leave, Unlocked, files
<1>18. ASSUME NEW p \in Pids, MonitorAct(p) PROVE Manager(q) \in lockers'
  BY <1>18, <1>0 DEF MonitorAct, Go, Enter, files
<1>19. ASSUME NEW p \in Pids, StopDaemon(p) PROVE Manager(q) \in lockers'
  BY <1>19, <1>0 DEF StopDaemon, Go, files
<1>20. ASSUME NEW p \in Pids, Exec(p) PROVE Manager(q) \in lockers'
  BY <1>20, <1>0 DEF Exec, NewImage, Enter, Go, Leave, Unlocked, files
<1>21. ASSUME NEW p \in Pids, Exit(p) PROVE Manager(q) \in lockers'
  BY <1>21, <1>0 DEF Exit, Go, files
<1>22. ASSUME NEW p \in Pids, Reap(p) PROVE Manager(q) \in lockers'
  BY <1>22, <1>0 DEF Reap, Go, files
<1>23. ASSUME NEW p \in Pids, PlaceSign(p) PROVE Manager(q) \in lockers'
  BY <1>23, <1>0 DEF PlaceSign, Go, files
<1>24. ASSUME NEW p \in Pids, FindInstances(p) PROVE Manager(q) \in lockers'
  BY <1>24, <1>0 DEF FindInstances, Go, files
<1>25. ASSUME NEW p \in Pids, KillNext(p) PROVE Manager(q) \in lockers'
  BY <1>25, <1>0 DEF KillNext, Go, Enter, Leave, Unlocked, files
<1>26. ASSUME NEW p \in Pids, TakeSignal(p) PROVE Manager(q) \in lockers'
  BY <1>26, <1>0 DEF TakeSignal, Go, Enter, Leave, Unlocked, files
<1>27. ASSUME NEW p \in Pids, Crash(p) PROVE Manager(q) \in lockers'
  BY <1>27, <1>0 DEF Crash, Go, files
<1>28. ASSUME NEW p \in Pids, Interrupt(p) PROVE Manager(q) \in lockers'
  BY <1>28, <1>0 DEF Interrupt, files, proc
<1>29. ASSUME NEW p \in Pids, DaemonEnds(p, "running") \/ DaemonEnds(p, "stopping") PROVE Manager(q) \in lockers'
  <2>1. Manager(q) # Daemon(p)
    BY DEF Manager, Daemon
  <2> QED  BY <1>0, <1>29, <2>1 DEF DaemonEnds, proc
<1>30. CASE UNCHANGED vars
  BY <1>30, <1>0 DEF vars, proc, files
<1> QED
  BY NextCases, <1>1, <1>2, <1>3, <1>4, <1>5, <1>6, <1>7, <1>8, <1>9, <1>10, <1>11,
     <1>12, <1>13, <1>14, <1>15, <1>16, <1>17, <1>18, <1>19, <1>20, <1>21, <1>22,
     <1>23, <1>24, <1>25, <1>26, <1>27, <1>28, <1>29, <1>30

(* The pidfile changes only in the hands of a manager that holds the lock, *)
(* or that removes its own.                                                *)
LEMMA PidfileStep ==
  ASSUME TypeOK, Shape, Lock, File, [Next]_vars
  PROVE  \/ UNCHANGED pidfile
         \/ \E p \in Pids : /\ Starting(p) /\ at[p] = "write" /\ at'[p] = "fill"
                            /\ pidfile = NoPid /\ pidfile' = Empty
         \/ \E p \in Pids : /\ Starting(p) /\ at[p] = "fill" /\ at'[p] = "fork"
                            /\ pidfile = Empty /\ pidfile' = p
         \/ \E p \in Pids : /\ at[p] = "rm_unlink" /\ pidfile = Expected(p) /\ pidfile' = NoPid
                            /\ Removed(p)
<1> DEFINE Goal ==
      \/ UNCHANGED pidfile
      \/ \E p \in Pids : /\ Starting(p) /\ at[p] = "write" /\ at'[p] = "fill"
                         /\ pidfile = NoPid /\ pidfile' = Empty
      \/ \E p \in Pids : /\ Starting(p) /\ at[p] = "fill" /\ at'[p] = "fork"
                         /\ pidfile = Empty /\ pidfile' = p
      \/ \E p \in Pids : /\ at[p] = "rm_unlink" /\ pidfile = Expected(p) /\ pidfile' = NoPid
                         /\ Removed(p)
<1>1. ASSUME NEW p \in Pids, Launch(p) PROVE Goal
  BY <1>1 DEF Launch, Go, files
<1>2. ASSUME NEW p \in Pids, Begin(p) PROVE Goal
  BY <1>2 DEF Begin, Enter, Go, files
<1>3. ASSUME NEW p \in Pids, CheckAllowed(p) PROVE Goal
  BY <1>3 DEF CheckAllowed, Go, Enter, Leave, Unlocked, files
<1>4. ASSUME NEW p \in Pids, Flock(p) PROVE Goal
  BY <1>4 DEF Flock, Go, Enter, Leave, Unlocked, files
<1>5. ASSUME NEW p \in Pids, PidfileExists(p) PROVE Goal
  BY <1>5 DEF PidfileExists, Go, files
<1>6. ASSUME NEW p \in Pids, ReadPidfile(p) PROVE Goal
  BY <1>6 DEF ReadPidfile, Go, Enter, Leave, Unlocked, Raise, files
<1>7. ASSUME NEW p \in Pids, CreatePidfile(p) PROVE Goal
  <2>1. at[p] = "write" /\ Starting(p)
    BY <1>7 DEF CreatePidfile, Starting, Running, Shape, ShapeOf, Locked
  <2> QED  BY <1>7, <2>1 DEF CreatePidfile, Go, TypeOK
<1>8. ASSUME NEW p \in Pids, FillPidfile(p) PROVE Goal
  <2>1. at[p] = "fill" /\ Starting(p) /\ pidfile = Empty
    BY <1>8 DEF FillPidfile, Starting, Running, Shape, ShapeOf, Locked, File, FileOf
  <2> QED  BY <1>8, <2>1 DEF FillPidfile, Go, TypeOK
<1>9. ASSUME NEW p \in Pids, Fork(p) PROVE Goal
  BY <1>9 DEF Fork, Go, Enter, Leave, Unlocked, Raise, files
<1>10. ASSUME NEW p \in Pids, RecordDaemon(p) PROVE Goal
  BY <1>10 DEF RecordDaemon, Go, files
<1>11. ASSUME NEW p \in Pids, Unlock(p) PROVE Goal
  BY <1>11 DEF Unlock, Enter, Go, Unlocked, files
<1>12. ASSUME NEW p \in Pids, SendTerm(p) PROVE Goal
  BY <1>12 DEF SendTerm, Go, Enter, Leave, Unlocked, Raise, AfterTerminate, files
<1>13. ASSUME NEW p \in Pids, WaitTerminated(p) PROVE Goal
  BY <1>13 DEF WaitTerminated, Go, AfterTerminate, files
<1>14. ASSUME NEW p \in Pids, SendKill(p) PROVE Goal
  BY <1>14 DEF SendKill, Go, Enter, Leave, Unlocked, Raise, AfterTerminate, files
<1>15. ASSUME NEW p \in Pids, RemoveRead(p) PROVE Goal
  BY <1>15 DEF RemoveRead, files
<1>16. ASSUME NEW p \in Pids, RemoveUnlink(p) PROVE Goal
  <2>1. at[p] = "rm_unlink" /\ pidfile = Expected(p)
    BY <1>16 DEF RemoveUnlink, File, FileOf
  <2> QED  BY <1>16, <2>1, RemoveUnlinkCases
<1>17. ASSUME NEW p \in Pids, MonitorLoop(p) PROVE Goal
  BY <1>17 DEF MonitorLoop, Go, Enter, Leave, Unlocked, files
<1>18. ASSUME NEW p \in Pids, MonitorAct(p) PROVE Goal
  BY <1>18 DEF MonitorAct, Go, Enter, files
<1>19. ASSUME NEW p \in Pids, StopDaemon(p) PROVE Goal
  BY <1>19 DEF StopDaemon, Go, files
<1>20. ASSUME NEW p \in Pids, Exec(p) PROVE Goal
  BY <1>20 DEF Exec, NewImage, Enter, Go, Leave, Unlocked, files
<1>21. ASSUME NEW p \in Pids, Exit(p) PROVE Goal
  BY <1>21 DEF Exit, Go, files
<1>22. ASSUME NEW p \in Pids, Reap(p) PROVE Goal
  BY <1>22 DEF Reap, Go, files
<1>23. ASSUME NEW p \in Pids, PlaceSign(p) PROVE Goal
  BY <1>23 DEF PlaceSign, Go, files
<1>24. ASSUME NEW p \in Pids, FindInstances(p) PROVE Goal
  BY <1>24 DEF FindInstances, Go, files
<1>25. ASSUME NEW p \in Pids, KillNext(p) PROVE Goal
  BY <1>25 DEF KillNext, Go, Enter, Leave, Unlocked, files
<1>26. ASSUME NEW p \in Pids, TakeSignal(p) PROVE Goal
  BY <1>26 DEF TakeSignal, Go, Enter, Leave, Unlocked, files
<1>27. ASSUME NEW p \in Pids, Crash(p) PROVE Goal
  BY <1>27 DEF Crash, Go, files
<1>28. ASSUME NEW p \in Pids, Interrupt(p) PROVE Goal
  BY <1>28 DEF Interrupt, files, proc
<1>29. ASSUME NEW p \in Pids, DaemonEnds(p, "running") \/ DaemonEnds(p, "stopping") PROVE Goal
  BY <1>29 DEF DaemonEnds, proc, files
<1>30. CASE UNCHANGED vars
  BY <1>30 DEF vars, proc, files
<1> QED
  BY NextCases, <1>1, <1>2, <1>3, <1>4, <1>5, <1>6, <1>7, <1>8, <1>9, <1>10, <1>11,
     <1>12, <1>13, <1>14, <1>15, <1>16, <1>17, <1>18, <1>19, <1>20, <1>21, <1>22,
     <1>23, <1>24, <1>25, <1>26, <1>27, <1>28, <1>29, <1>30

(* Nobody changes the pidfile under a manager that relies on it.           *)
LEMMA ReliedOn ==
  ASSUME TypeOK, Shape, Lock, File, [Next]_vars, NEW q \in Pids,
         \/ at[q] \in {"fill", "fork", "record", "unlock", "rm_unlink"}
         \/ Running(q) /\ ctx[q] = "monitor"
  PROVE  \/ UNCHANGED pidfile
         \/ at[q] = "fill" /\ at'[q] = "fork" /\ pidfile' = q
         \/ at[q] = "rm_unlink" /\ Removed(q)
<1> USE DEF TypeOK
<1>1. at[q] # "dead" /\ Expected(q) \in Pids /\ FileOf(q)
  BY DEF Running, Expected, File
<1>2. pidfile # NoPid /\ (pidfile = Empty => at[q] = "fill") /\ (at[q] = "fill" => pidfile = Empty)
  BY <1>1, PidsAssumption DEF FileOf
<1>3. ASSUME NEW p \in Pids, Starting(p), at[p] = "fill", at'[p] = "fork", pidfile = Empty, pidfile' = p
      PROVE  p = q
  <2>1. Starting(q)
    BY <1>2, <1>3 DEF Starting, Running, Shape, ShapeOf, Locked
  <2> QED  BY <1>3, <2>1 DEF Lock
<1>4. ASSUME NEW p \in Pids, at[p] = "rm_unlink", pidfile = Expected(p), p # q
      PROVE  FALSE
  <2>1. pidfile \in Pids /\ at[q] # "fill"
    BY <1>2, <1>4, PidsAssumption DEF Expected
  <2>2. ctx[p] = "start" => at[pidfile] = "dead"
    BY <1>4 DEF File, FileOf, Removing, Expected
  <2>3. ctx[p] # "start" => pidfile = p
    BY <1>4 DEF Expected
  <2>4. CASE pidfile = q
    BY <1>1, <1>4, <2>2, <2>3, <2>4
  <2>5. CASE pidfile # q
    <3>1. at[q] = "rm_unlink" /\ ctx[q] = "start" /\ pidfile = victim[q][2]
      BY <1>1, <2>1, <2>5 DEF FileOf, Expected
    <3>2. at[pidfile] = "dead"
      BY <1>1, <3>1 DEF FileOf, Removing
    <3>3. Starting(q) /\ Starting(p)
      BY <1>4, <2>3, <3>1, <3>2 DEF Starting, Running
    <3> QED  BY <1>4, <3>3 DEF Lock
  <2> QED  BY <2>4, <2>5
<1> QED  BY <1>2, <1>3, <1>4, PidfileStep

(* How a manager comes to rely on the pidfile.                             *)
LEMMA RelyStep ==
  ASSUME TypeOK, Shape, [Next]_vars, NEW q \in Pids
  PROVE  /\ at'[q] = "fill" => \/ at[q] = "fill"
                               \/ at[q] = "write" /\ pidfile' = Empty
         /\ at'[q] = "fork" => at[q] = "fork" \/ (at[q] = "fill" /\ (pidfile = Empty => pidfile' = q))
         /\ at'[q] \in {"record", "unlock"} => at[q] \in {"fork", "record", "unlock"}
         /\ at'[q] = "rm_unlink" => /\ ctx'[q] = ctx[q] /\ victim'[q][2] = victim[q][2]
                                    /\ \/ at[q] = "rm_unlink"
                                       \/ at[q] = "rm_read" /\ pidfile' = pidfile /\ pidfile = Expected(q)
         /\ ctx'[q] = "monitor" => ctx[q] = "monitor" \/ at[q] = "unlock"
<1> DEFINE Goal ==
      /\ at'[q] = "fill" => at[q] = "fill" \/ (at[q] = "write" /\ pidfile' = Empty)
      /\ at'[q] = "fork" => at[q] = "fork" \/ (at[q] = "fill" /\ (pidfile = Empty => pidfile' = q))
      /\ at'[q] \in {"record", "unlock"} => at[q] \in {"fork", "record", "unlock"}
      /\ at'[q] = "rm_unlink" => /\ ctx'[q] = ctx[q] /\ victim'[q][2] = victim[q][2]
                                 /\ \/ at[q] = "rm_unlink"
                                    \/ at[q] = "rm_read" /\ pidfile' = pidfile /\ pidfile = Expected(q)
      /\ ctx'[q] = "monitor" => ctx[q] = "monitor" \/ at[q] = "unlock"
<1> USE DEF TypeOK
<1>1. ASSUME NEW p \in Pids, Launch(p) PROVE Goal
  BY <1>1 DEF Launch, Go, files
<1>2. ASSUME NEW p \in Pids, Begin(p) PROVE Goal
  BY <1>2 DEF Begin, Enter, Go, files
<1>3. ASSUME NEW p \in Pids, CheckAllowed(p) PROVE Goal
  BY <1>3 DEF CheckAllowed, Go, Enter, Leave, Unlocked, files
<1>4. ASSUME NEW p \in Pids, Flock(p) PROVE Goal
  BY <1>4 DEF Flock, Go, Enter, Leave, Unlocked, files
<1>5. ASSUME NEW p \in Pids, PidfileExists(p) PROVE Goal
  BY <1>5 DEF PidfileExists, Go, files
<1>6. ASSUME NEW p \in Pids, ReadPidfile(p) PROVE Goal
  BY <1>6 DEF ReadPidfile, Go, Enter, Leave, Unlocked, Raise, files
<1>7. ASSUME NEW p \in Pids, CreatePidfile(p) PROVE Goal
  BY <1>7 DEF CreatePidfile, Go, Enter, Leave, Unlocked, Raise, files
<1>8. ASSUME NEW p \in Pids, FillPidfile(p) PROVE Goal
  BY <1>8 DEF FillPidfile, Go, files
<1>9. ASSUME NEW p \in Pids, Fork(p) PROVE Goal
  BY <1>9 DEF Fork, Go, Enter, Leave, Unlocked, Raise, files
<1>10. ASSUME NEW p \in Pids, RecordDaemon(p) PROVE Goal
  BY <1>10 DEF RecordDaemon, Go, files
<1>11. ASSUME NEW p \in Pids, Unlock(p) PROVE Goal
  BY <1>11 DEF Unlock, Enter, Go, Unlocked, files
<1>12. ASSUME NEW p \in Pids, SendTerm(p) PROVE Goal
  BY <1>12 DEF SendTerm, Go, Enter, Leave, Unlocked, Raise, AfterTerminate, files
<1>13. ASSUME NEW p \in Pids, WaitTerminated(p) PROVE Goal
  BY <1>13 DEF WaitTerminated, Go, AfterTerminate, files
<1>14. ASSUME NEW p \in Pids, SendKill(p) PROVE Goal
  BY <1>14 DEF SendKill, Go, Enter, Leave, Unlocked, Raise, AfterTerminate, files
<1>15. ASSUME NEW p \in Pids, RemoveRead(p) PROVE Goal
  BY <1>15, RemoveReadCases DEF Removed, Failed, Go, Enter, Leave, Unlocked
<1>16. ASSUME NEW p \in Pids, RemoveUnlink(p) PROVE Goal
  BY <1>16, RemoveUnlinkCases DEF Removed, Failed, Go, Enter, Leave, Unlocked
<1>17. ASSUME NEW p \in Pids, MonitorLoop(p) PROVE Goal
  BY <1>17 DEF MonitorLoop, Go, Enter, Leave, Unlocked, files
<1>18. ASSUME NEW p \in Pids, MonitorAct(p) PROVE Goal
  BY <1>18 DEF MonitorAct, Go, Enter, files
<1>19. ASSUME NEW p \in Pids, StopDaemon(p) PROVE Goal
  BY <1>19 DEF StopDaemon, Go, files
<1>20. ASSUME NEW p \in Pids, Exec(p) PROVE Goal
  <2>1. CASE NewImage(p)
    <3>1. q # p => victim'[q][2] = victim[q][2] /\ ctx'[q] = ctx[q] /\ at'[q] = at[q]
      BY <2>1 DEF NewImage, Enter, Go, Daemon, Gone
    <3>2. q = p => at'[q] = "boot" /\ ctx'[q] = "boot"
      BY <2>1 DEF NewImage, Enter, Go
    <3> QED  BY <3>1, <3>2
  <2>2. CASE Leave(p, "stopped") /\ UNCHANGED victim
    BY <2>2 DEF Leave, Enter, Go
  <2> QED  BY <1>20, <2>1, <2>2 DEF Exec
<1>21. ASSUME NEW p \in Pids, Exit(p) PROVE Goal
  BY <1>21 DEF Exit, Go, files
<1>22. ASSUME NEW p \in Pids, Reap(p) PROVE Goal
  BY <1>22 DEF Reap, Go, files
<1>23. ASSUME NEW p \in Pids, PlaceSign(p) PROVE Goal
  BY <1>23 DEF PlaceSign, Go, files
<1>24. ASSUME NEW p \in Pids, FindInstances(p) PROVE Goal
  BY <1>24 DEF FindInstances, Go, files
<1>25. ASSUME NEW p \in Pids, KillNext(p) PROVE Goal
  BY <1>25 DEF KillNext, Go, Enter, Leave, Unlocked, files
<1>26. ASSUME NEW p \in Pids, TakeSignal(p) PROVE Goal
  BY <1>26 DEF TakeSignal, Go, Enter, Leave, Unlocked, files
<1>27. ASSUME NEW p \in Pids, Crash(p) PROVE Goal
  BY <1>27 DEF Crash, Go, files
<1>28. ASSUME NEW p \in Pids, Interrupt(p) PROVE Goal
  BY <1>28 DEF Interrupt, files, proc
<1>29. ASSUME NEW p \in Pids, DaemonEnds(p, "running") \/ DaemonEnds(p, "stopping") PROVE Goal
  BY <1>29 DEF DaemonEnds, proc, files
<1>30. CASE UNCHANGED vars
  BY <1>30 DEF vars, proc, files
<1> QED
  BY NextCases, <1>1, <1>2, <1>3, <1>4, <1>5, <1>6, <1>7, <1>8, <1>9, <1>10, <1>11,
     <1>12, <1>13, <1>14, <1>15, <1>16, <1>17, <1>18, <1>19, <1>20, <1>21, <1>22,
     <1>23, <1>24, <1>25, <1>26, <1>27, <1>28, <1>29, <1>30

(* The old instance is dead before its pidfile is touched.                 *)
LEMMA DeadStep ==
  ASSUME TypeOK, Shape, Victims, File, [Next]_vars, NEW q \in Pids,
         ctx'[q] = "start", at'[q] \in Removing
  PROVE  at'[victim'[q][2]] = "dead"
<1>0. ASSUME ctx[q] = "start", at[q] \in Removing, victim'[q][2] = victim[q][2]
      PROVE  at'[victim'[q][2]] = "dead"
  BY <1>0, LifeStep DEF File, FileOf, TypeOK
<1>a. ASSUME ctx[q] = "start", at[q] \in Ending, victim'[q] = victim[q],
             ~Alive(victim[q]) \/ at'[victim[q][2]] = "dead"
      PROVE  at'[victim'[q][2]] = "dead"
  <2>1. victim[q][1] = "manager" /\ at[victim[q][2]] # "none" /\ victim[q][2] \in Pids
    BY <1>a DEF Victims, VictimOf, TypeOK
  <2> QED  BY <1>a, <2>1, LifeStep DEF Alive, Running
<1> USE DEF TypeOK, Removing
<1>1. ASSUME NEW p \in Pids, Launch(p) PROVE at'[victim'[q][2]] = "dead"
  BY <1>1, <1>0 DEF Launch, Go, files
<1>2. ASSUME NEW p \in Pids, Begin(p) PROVE at'[victim'[q][2]] = "dead"
  BY <1>2, <1>0 DEF Begin, Enter, Go, files
<1>3. ASSUME NEW p \in Pids, CheckAllowed(p) PROVE at'[victim'[q][2]] = "dead"
  BY <1>3, <1>0 DEF CheckAllowed, Go, Enter, Leave, Unlocked, files
<1>4. ASSUME NEW p \in Pids, Flock(p) PROVE at'[victim'[q][2]] = "dead"
  BY <1>4, <1>0 DEF Flock, Go, Enter, Leave, Unlocked, files
<1>5. ASSUME NEW p \in Pids, PidfileExists(p) PROVE at'[victim'[q][2]] = "dead"
  BY <1>5, <1>0 DEF PidfileExists, Go, files
<1>6. ASSUME NEW p \in Pids, ReadPidfile(p) PROVE at'[victim'[q][2]] = "dead"
  BY <1>6, <1>0 DEF ReadPidfile, Go, Enter, Leave, Unlocked, Raise, files
<1>7. ASSUME NEW p \in Pids, CreatePidfile(p) PROVE at'[victim'[q][2]] = "dead"
  BY <1>7, <1>0 DEF CreatePidfile, Go, Enter, Leave, Unlocked, Raise, files
<1>8. ASSUME NEW p \in Pids, FillPidfile(p) PROVE at'[victim'[q][2]] = "dead"
  BY <1>8, <1>0 DEF FillPidfile, Go, files
<1>9. ASSUME NEW p \in Pids, Fork(p) PROVE at'[victim'[q][2]] = "dead"
  BY <1>9, <1>0 DEF Fork, Go, Enter, Leave, Unlocked, Raise, files
<1>10. ASSUME NEW p \in Pids, RecordDaemon(p) PROVE at'[victim'[q][2]] = "dead"
  BY <1>10, <1>0 DEF RecordDaemon, Go, files
<1>11. ASSUME NEW p \in Pids, Unlock(p) PROVE at'[victim'[q][2]] = "dead"
  BY <1>11, <1>0 DEF Unlock, Enter, Go, Unlocked, files
<1>12. ASSUME NEW p \in Pids, SendTerm(p) PROVE at'[victim'[q][2]] = "dead"
  BY <1>12, <1>0, <1>a, RaiseCases DEF SendTerm, Failed, Go, Enter, Leave, Ending
<1>13. ASSUME NEW p \in Pids, WaitTerminated(p) PROVE at'[victim'[q][2]] = "dead"
  BY <1>13, <1>0, <1>a DEF WaitTerminated, Go, Ending
<1>14. ASSUME NEW p \in Pids, SendKill(p) PROVE at'[victim'[q][2]] = "dead"
  <2>1. CASE Failed(p) /\ UNCHANGED victim
    BY <2>1, <1>0 DEF Failed, Go, Enter, Leave
  <2>2. ASSUME at' = [at EXCEPT ![p] = AfterTerminate(p),
                         ![victim[p][2]] = IF Alive(victim[p]) /\ victim[p][1] = "manager" THEN "dead" ELSE @],
               UNCHANGED <<ctx, victim>>
        PROVE  at'[victim'[q][2]] = "dead"
    <3>1. CASE q # p
      <4>1. at'[q] = at[q] \/ at'[q] = "dead"
        BY <2>2, <3>1
      <4> QED  BY <1>0, <2>2, <4>1
    <3>2. CASE q = p
      <4>1. at[p] = "kill" /\ victim[p][1] = "manager"
        BY <1>14, <2>2, <3>2 DEF SendKill, Victims, VictimOf, Ending
      <4>2. victim[p][2] \in Pids /\ (Alive(victim[p]) => at'[victim[p][2]] = "dead")
        BY <2>2, <4>1
      <4> QED  BY <1>a, <2>2, <3>2, <4>1, <4>2 DEF Ending
    <3> QED  BY <3>1, <3>2
  <2> QED  BY <1>14, <2>1, <2>2, RaiseCases DEF SendKill
<1>15. ASSUME NEW p \in Pids, RemoveRead(p) PROVE at'[victim'[q][2]] = "dead"
  BY <1>15, RemoveReadCases, <1>0 DEF Removed, Failed, Go, Enter, Leave, Unlocked
<1>16. ASSUME NEW p \in Pids, RemoveUnlink(p) PROVE at'[victim'[q][2]] = "dead"
  BY <1>16, RemoveUnlinkCases, <1>0 DEF Removed, Failed, Go, Enter, Leave, Unlocked
<1>17. ASSUME NEW p \in Pids, MonitorLoop(p) PROVE at'[victim'[q][2]] = "dead"
  BY <1>17, <1>0 DEF MonitorLoop, Go, Enter, Leave, Unlocked, files
<1>18. ASSUME NEW p \in Pids, MonitorAct(p) PROVE at'[victim'[q][2]] = "dead"
  BY <1>18, <1>0 DEF MonitorAct, Go, Enter, files
<1>19. ASSUME NEW p \in Pids, StopDaemon(p) PROVE at'[victim'[q][2]] = "dead"
  BY <1>19, <1>0 DEF StopDaemon, Go, files, Shape, ShapeOf
<1>20. ASSUME NEW p \in Pids, Exec(p) PROVE at'[victim'[q][2]] = "dead"
  <2>1. CASE NewImage(p)
    BY <1>0, <2>1 DEF NewImage, Enter, Go, Daemon, Gone
  <2>2. CASE Leave(p, "stopped") /\ UNCHANGED victim
    BY <1>0, <2>2 DEF Leave, Enter, Go
  <2> QED  BY <1>20, <2>1, <2>2 DEF Exec
<1>21. ASSUME NEW p \in Pids, Exit(p) PROVE at'[victim'[q][2]] = "dead"
  BY <1>21, <1>0 DEF Exit, Go, files
<1>22. ASSUME NEW p \in Pids, Reap(p) PROVE at'[victim'[q][2]] = "dead"
  BY <1>22, <1>0 DEF Reap, Go, files
<1>23. ASSUME NEW p \in Pids, PlaceSign(p) PROVE at'[victim'[q][2]] = "dead"
  BY <1>23, <1>0 DEF PlaceSign, Go, files
<1>24. ASSUME NEW p \in Pids, FindInstances(p) PROVE at'[victim'[q][2]] = "dead"
  BY <1>24, <1>0 DEF FindInstances, Go, files
<1>25. ASSUME NEW p \in Pids, KillNext(p) PROVE at'[victim'[q][2]] = "dead"
  BY <1>25, <1>0 DEF KillNext, Go, Enter, Leave, Unlocked, files
<1>26. ASSUME NEW p \in Pids, TakeSignal(p) PROVE at'[victim'[q][2]] = "dead"
  BY <1>26, <1>0 DEF TakeSignal, Go, Enter, Leave, Unlocked, files
<1>27. ASSUME NEW p \in Pids, Crash(p) PROVE at'[victim'[q][2]] = "dead"
  BY <1>27, <1>0 DEF Crash, Go, files
<1>28. ASSUME NEW p \in Pids, Interrupt(p) PROVE at'[victim'[q][2]] = "dead"
  BY <1>28, <1>0 DEF Interrupt, files, proc
<1>29. ASSUME NEW p \in Pids, DaemonEnds(p, "running") \/ DaemonEnds(p, "stopping") PROVE at'[victim'[q][2]] = "dead"
  BY <1>29, <1>0 DEF DaemonEnds, proc, files
<1>30. CASE UNCHANGED vars
  BY <1>30, <1>0 DEF vars, proc, files
<1> QED
  BY NextCases, <1>1, <1>2, <1>3, <1>4, <1>5, <1>6, <1>7, <1>8, <1>9, <1>10, <1>11,
     <1>12, <1>13, <1>14, <1>15, <1>16, <1>17, <1>18, <1>19, <1>20, <1>21, <1>22,
     <1>23, <1>24, <1>25, <1>26, <1>27, <1>28, <1>29, <1>30

(* Every manager can go on relying on the pidfile.                         *)
LEMMA FileStep ==
  ASSUME IInv, [Next]_vars
  PROVE  File'
<1> SUFFICES ASSUME NEW q \in Pids PROVE FileOf(q)'
  BY DEF File
<1>0. TypeOK /\ Shape /\ Victims /\ Lock /\ File /\ FileOf(q) /\ ShapeOf(q)
  BY DEF IInv, File, Shape
<1>t. TypeOK' /\ Shape'
  BY <1>0, TypeStep, ShapeStep
<1>1. (ctx[q] = "start" /\ at[q] \in Removing => at[victim[q][2]] = "dead")'
  BY <1>0, DeadStep
<1>2. (at[q] = "fill" => pidfile = Empty)'
  BY <1>0, RelyStep, ReliedOn DEF FileOf, Removed, Go, TypeOK
<1>3. (at[q] = "fork" => pidfile = q)'
  <2>1. CASE at'[q] = "fork" /\ at[q] = "fork"
    BY <1>0, <2>1, ReliedOn DEF FileOf
  <2>2. CASE at'[q] = "fork" /\ at[q] = "fill"
    BY <1>0, <2>2, RelyStep DEF FileOf
  <2> QED  BY <1>0, <2>1, <2>2, RelyStep
<1>4. (at[q] \in {"record", "unlock"} => pidfile = q)'
  BY <1>0, RelyStep, ReliedOn DEF FileOf
<1>5. (at[q] = "rm_unlink" => pidfile = Expected(q))'
  <2> SUFFICES ASSUME at'[q] = "rm_unlink" PROVE pidfile' = Expected(q)'
    OBVIOUS
  <2>1. Expected(q)' = Expected(q)
    BY <1>0, RelyStep DEF Expected
  <2>2. ~Removed(q)
    BY <1>0 DEF Removed, Go, Enter, TypeOK
  <2>3. pidfile' = pidfile /\ pidfile = Expected(q)
    BY <1>0, <2>2, RelyStep, ReliedOn DEF FileOf
  <2> QED  BY <2>1, <2>3
<1>6. (pidfile = q => at[q] # "none")'
  <2>1. CASE UNCHANGED pidfile
    BY <1>0, <2>1, LifeStep DEF FileOf
  <2>2. CASE ~UNCHANGED pidfile
    <3>1. pidfile' = q => at'[q] = "fork"
      BY <1>0, <2>2, PidfileStep, PidsAssumption
    <3> QED  BY <3>1
  <2> QED  BY <2>1, <2>2
<1>7. (Running(q) /\ ctx[q] = "monitor" => pidfile = q)'
  <2> SUFFICES ASSUME Running(q)', ctx'[q] = "monitor" PROVE pidfile' = q
    OBVIOUS
  <2>1. Running(q)
    BY <1>0, RelyStep, LifeStep DEF Running, ShapeOf
  <2>2. ~Removed(q)
    BY <1>0 DEF Removed, Go, Enter, TypeOK, ShapeOf, Removing
  <2>3. at[q] # "fill" \/ pidfile' = q
    BY <1>0, <2>1, RelyStep DEF ShapeOf, Locked
  <2> QED  BY <1>0, <2>1, <2>2, <2>3, RelyStep, ReliedOn DEF FileOf
<1> QED  BY <1>1, <1>2, <1>3, <1>4, <1>5, <1>6, <1>7 DEF FileOf

(* A manager gets into the pidfile only when it forks its daemon next, and *)
(* it takes itself out before it reboots.                                  *)
LEMMA OwnStep ==
  ASSUME IInv, [Next]_vars
  PROVE  Own'
<1> SUFFICES ASSUME NEW q \in Pids PROVE OwnOf(q)'
  BY DEF Own
<1>0. TypeOK /\ Shape /\ Lock /\ File /\ OwnOf(q) /\ ShapeOf(q) /\ NoPid # q
  BY PidsAssumption DEF IInv, Own, Shape
<1>u. CASE ~UNCHANGED pidfile
  <2>1. pidfile' = q => at'[q] = "fork"
    BY <1>0, <1>u, PidfileStep, PidsAssumption
  <2>2. at'[q] = "fork" => ctx'[q] = "start"
    BY <1>0, ShapeStep DEF Shape, ShapeOf, Locked
  <2> QED  BY <2>1, <2>2 DEF OwnOf
<1> USE DEF OwnOf, ShapeOf, TypeOK, Running, Entering, Locked, Ending, Removing
<1>1. ASSUME NEW p \in Pids, Launch(p) PROVE OwnOf(q)'
  BY <1>1, <1>0 DEF Launch, Go, files
<1>2. ASSUME NEW p \in Pids, Begin(p) PROVE OwnOf(q)'
  BY <1>2, <1>0 DEF Begin, Enter, Go, files
<1>3. ASSUME NEW p \in Pids, CheckAllowed(p) PROVE OwnOf(q)'
  BY <1>3, <1>0 DEF CheckAllowed, Go, Enter, Leave, Unlocked, files
<1>4. ASSUME NEW p \in Pids, Flock(p) PROVE OwnOf(q)'
  BY <1>4, <1>0 DEF Flock, Go, Enter, Leave, Unlocked, files
<1>5. ASSUME NEW p \in Pids, PidfileExists(p) PROVE OwnOf(q)'
  BY <1>5, <1>0 DEF PidfileExists, Go, files
<1>6. ASSUME NEW p \in Pids, ReadPidfile(p) PROVE OwnOf(q)'
  BY <1>6, <1>0 DEF ReadPidfile, Go, Enter, Leave, Unlocked, Raise, files
<1>7. ASSUME NEW p \in Pids, CreatePidfile(p) PROVE OwnOf(q)'
  BY <1>7, <1>0, <1>u DEF CreatePidfile, Raise, Leave, Enter, Go
<1>8. ASSUME NEW p \in Pids, FillPidfile(p) PROVE OwnOf(q)'
  BY <1>8, <1>0, <1>u DEF FillPidfile, Go
<1>9. ASSUME NEW p \in Pids, Fork(p) PROVE OwnOf(q)'
  BY <1>9, <1>0 DEF Fork, Go, Enter, Leave, Unlocked, Raise, files
<1>10. ASSUME NEW p \in Pids, RecordDaemon(p) PROVE OwnOf(q)'
  BY <1>10, <1>0 DEF RecordDaemon, Go, files
<1>11. ASSUME NEW p \in Pids, Unlock(p) PROVE OwnOf(q)'
  BY <1>11, <1>0 DEF Unlock, Enter, Go, Unlocked, files
<1>12. ASSUME NEW p \in Pids, SendTerm(p) PROVE OwnOf(q)'
  BY <1>12, <1>0 DEF SendTerm, Go, Enter, Leave, Unlocked, Raise, AfterTerminate, files
<1>13. ASSUME NEW p \in Pids, WaitTerminated(p) PROVE OwnOf(q)'
  BY <1>13, <1>0 DEF WaitTerminated, Go, AfterTerminate, files
<1>14. ASSUME NEW p \in Pids, SendKill(p) PROVE OwnOf(q)'
  BY <1>14, <1>0 DEF SendKill, Go, Enter, Leave, Unlocked, Raise, AfterTerminate, files
<1>15. ASSUME NEW p \in Pids, RemoveRead(p) PROVE OwnOf(q)'
  BY <1>15, <1>0, RemoveReadCases DEF Removed, Failed, Expected, Go, Enter, Leave
<1>16. ASSUME NEW p \in Pids, RemoveUnlink(p) PROVE OwnOf(q)'
  BY <1>16, <1>0, <1>u, RemoveUnlinkCases DEF Removed, Failed, Go, Enter, Leave
<1>17. ASSUME NEW p \in Pids, MonitorLoop(p) PROVE OwnOf(q)'
  BY <1>17, <1>0 DEF MonitorLoop, Go, Enter, Leave, Unlocked, files
<1>18. ASSUME NEW p \in Pids, MonitorAct(p) PROVE OwnOf(q)'
  BY <1>18, <1>0 DEF MonitorAct, Go, Enter, files
<1>19. ASSUME NEW p \in Pids, StopDaemon(p) PROVE OwnOf(q)'
  BY <1>19, <1>0 DEF StopDaemon, Go, files
<1>20. ASSUME NEW p \in Pids, Exec(p) PROVE OwnOf(q)'
  BY <1>20, <1>0 DEF Exec, NewImage, Enter, Go, Leave, Unlocked, files
<1>21. ASSUME NEW p \in Pids, Exit(p) PROVE OwnOf(q)'
  BY <1>21, <1>0 DEF Exit, Go, files
<1>22. ASSUME NEW p \in Pids, Reap(p) PROVE OwnOf(q)'
  BY <1>22, <1>0 DEF Reap, Go, files
<1>23. ASSUME NEW p \in Pids, PlaceSign(p) PROVE OwnOf(q)'
  BY <1>23, <1>0 DEF PlaceSign, Go, files
<1>24. ASSUME NEW p \in Pids, FindInstances(p) PROVE OwnOf(q)'
  BY <1>24, <1>0 DEF FindInstances, Go, files
<1>25. ASSUME NEW p \in Pids, KillNext(p) PROVE OwnOf(q)'
  BY <1>25, <1>0 DEF KillNext, Go, Enter, Leave, Unlocked, files
<1>26. ASSUME NEW p \in Pids, TakeSignal(p) PROVE OwnOf(q)'
  BY <1>26, <1>0 DEF TakeSignal, Go, Enter, Leave, Unlocked, files
<1>27. ASSUME NEW p \in Pids, Crash(p) PROVE OwnOf(q)'
  BY <1>27, <1>0 DEF Crash, Go, files
<1>28. ASSUME NEW p \in Pids, Interrupt(p) PROVE OwnOf(q)'
  BY <1>28, <1>0 DEF Interrupt, files, proc
<1>29. ASSUME NEW p \in Pids, DaemonEnds(p, "running") \/ DaemonEnds(p, "stopping") PROVE OwnOf(q)'
  BY <1>29, <1>0 DEF DaemonEnds, proc, files
<1>30. CASE UNCHANGED vars
  BY <1>30, <1>0 DEF vars, proc, files
<1> QED
  BY NextCases, <1>1, <1>2, <1>3, <1>4, <1>5, <1>6, <1>7, <1>8, <1>9, <1>10, <1>11,
     <1>12, <1>13, <1>14, <1>15, <1>16, <1>17, <1>18, <1>19, <1>20, <1>21, <1>22,
     <1>23, <1>24, <1>25, <1>26, <1>27, <1>28, <1>29, <1>30

(* Every step of every process keeps the invariant.                        *)
LEMMA IInvStep ==
  ASSUME IInv, [Next]_vars
  PROVE  IInv'
<1>1. TypeOK /\ Shape /\ Victims /\ Lock /\ File /\ Own
  BY DEF IInv
<1>2. Lock'
  BY <1>1, OwnerStep, HoldStep DEF Lock
<1> QED  BY <1>1, <1>2, TypeStep, ShapeStep, VictimStep, FileStep, OwnStep DEF IInv

(* The inductive invariant, for any managers, crashes, signals and         *)
(* failures.                                                               *)
THEOREM Inductive == Spec => []IInv
<1>1. IInv /\ [Next]_vars => IInv'
  BY IInvStep
<1> QED  BY InitIInv, <1>1, PTL DEF Spec

(* Two managers are never in the part of start() that the setup lock       *)
(* protects.                                                               *)
THEOREM SetupIsExclusive == Spec => [](\A p, q \in Pids : Starting(p) /\ Starting(q) => p = q)
<1>1. IInv => \A p, q \in Pids : Starting(p) /\ Starting(q) => p = q
  BY DEF IInv, Lock
<1> QED  BY Inductive, <1>1, PTL

(* Whatever crashes, signals and failing calls do, the pidfile leads to    *)
(* every manager that watches its daemon.                                  *)
THEOREM MonitorIsRecorded == Spec => []MonitorRecorded
<1>1. IInv => MonitorRecorded
  BY DEF IInv, File, FileOf, MonitorRecorded
<1> QED  BY Inductive, <1>1, PTL

-----------------------------------------------------------------------------
(* Only a manager that was killed leaves its daemon behind.                *)
LEMMA OrphanStep ==
  ASSUME TypeOK, Shape, NoOrphan, [Next]_vars
  PROVE  NoOrphan'
<1> SUFFICES ASSUME NEW q \in Pids, q \notin killed', at'[q] = "dead" PROVE ~DaemonAlive(q)'
  BY DEF NoOrphan
<1>0. at[q] = "dead" /\ q \notin killed => ~DaemonAlive(q)
  BY DEF NoOrphan
<1> USE DEF TypeOK, DaemonAlive, Running, Entering, Locked, Ending, Removing
<1>1. ASSUME NEW p \in Pids, Launch(p) PROVE ~DaemonAlive(q)'
  BY <1>1, <1>0 DEF Launch, Go, files
<1>2. ASSUME NEW p \in Pids, Begin(p) PROVE ~DaemonAlive(q)'
  BY <1>2, <1>0 DEF Begin, Enter, Go, files
<1>3. ASSUME NEW p \in Pids, CheckAllowed(p) PROVE ~DaemonAlive(q)'
  BY <1>3, <1>0 DEF CheckAllowed, Go, Enter, Leave, Unlocked, files
<1>4. ASSUME NEW p \in Pids, Flock(p) PROVE ~DaemonAlive(q)'
  BY <1>4, <1>0 DEF Flock, Go, Enter, Leave, Unlocked, files
<1>5. ASSUME NEW p \in Pids, PidfileExists(p) PROVE ~DaemonAlive(q)'
  BY <1>5, <1>0 DEF PidfileExists, Go, files
<1>6. ASSUME NEW p \in Pids, ReadPidfile(p) PROVE ~DaemonAlive(q)'
  BY <1>6, <1>0 DEF ReadPidfile, Go, Enter, Leave, Unlocked, Raise, files
<1>7. ASSUME NEW p \in Pids, CreatePidfile(p) PROVE ~DaemonAlive(q)'
  BY <1>7, <1>0 DEF CreatePidfile, Go, Enter, Leave, Unlocked, Raise, files
<1>8. ASSUME NEW p \in Pids, FillPidfile(p) PROVE ~DaemonAlive(q)'
  BY <1>8, <1>0 DEF FillPidfile, Go, files
<1>9. ASSUME NEW p \in Pids, Fork(p) PROVE ~DaemonAlive(q)'
  BY <1>9, <1>0 DEF Fork, Go, Enter, Leave, Unlocked, Raise, files
<1>10. ASSUME NEW p \in Pids, RecordDaemon(p) PROVE ~DaemonAlive(q)'
  BY <1>10, <1>0 DEF RecordDaemon, Go, files
<1>11. ASSUME NEW p \in Pids, Unlock(p) PROVE ~DaemonAlive(q)'
  BY <1>11, <1>0 DEF Unlock, Enter, Go, Unlocked, files
<1>12. ASSUME NEW p \in Pids, SendTerm(p) PROVE ~DaemonAlive(q)'
  BY <1>12, <1>0 DEF SendTerm, Go, Enter, Leave, Unlocked, Raise, AfterTerminate, files, Alive
<1>13. ASSUME NEW p \in Pids, WaitTerminated(p) PROVE ~DaemonAlive(q)'
  BY <1>13, <1>0 DEF WaitTerminated, Go, AfterTerminate, files
<1>14. ASSUME NEW p \in Pids, SendKill(p) PROVE ~DaemonAlive(q)'
  BY <1>14, <1>0 DEF SendKill, Go, Enter, Leave, Unlocked, Raise, AfterTerminate, files
<1>15. ASSUME NEW p \in Pids, RemoveRead(p) PROVE ~DaemonAlive(q)'
  BY <1>15, RemoveReadCases, <1>0 DEF Removed, Failed, Go, Enter, Leave, Unlocked
<1>16. ASSUME NEW p \in Pids, RemoveUnlink(p) PROVE ~DaemonAlive(q)'
  BY <1>16, RemoveUnlinkCases, <1>0 DEF Removed, Failed, Go, Enter, Leave, Unlocked
<1>17. ASSUME NEW p \in Pids, MonitorLoop(p) PROVE ~DaemonAlive(q)'
  BY <1>17, <1>0 DEF MonitorLoop, Go, Enter, Leave, Unlocked, files
<1>18. ASSUME NEW p \in Pids, MonitorAct(p) PROVE ~DaemonAlive(q)'
  BY <1>18, <1>0 DEF MonitorAct, Go, Enter, files
<1>19. ASSUME NEW p \in Pids, StopDaemon(p) PROVE ~DaemonAlive(q)'
  BY <1>19, <1>0 DEF StopDaemon, Go, files
<1>20. ASSUME NEW p \in Pids, Exec(p) PROVE ~DaemonAlive(q)'
  BY <1>20, <1>0 DEF Exec, NewImage, Enter, Go, Leave, Unlocked, files
<1>21. ASSUME NEW p \in Pids, Exit(p) PROVE ~DaemonAlive(q)'
  BY <1>21, <1>0 DEF Exit, Go, files
<1>22. ASSUME NEW p \in Pids, Reap(p) PROVE ~DaemonAlive(q)'
  BY <1>22, <1>0 DEF Reap, Go, files
<1>23. ASSUME NEW p \in Pids, PlaceSign(p) PROVE ~DaemonAlive(q)'
  BY <1>23, <1>0 DEF PlaceSign, Go, files
<1>24. ASSUME NEW p \in Pids, FindInstances(p) PROVE ~DaemonAlive(q)'
  BY <1>24, <1>0 DEF FindInstances, Go, files
<1>25. ASSUME NEW p \in Pids, KillNext(p) PROVE ~DaemonAlive(q)'
  BY <1>25, <1>0 DEF KillNext, Go, Enter, Leave, Unlocked, files
<1>26. ASSUME NEW p \in Pids, TakeSignal(p) PROVE ~DaemonAlive(q)'
  BY <1>26, <1>0 DEF TakeSignal, Go, Enter, Leave, Unlocked, files
<1>27. ASSUME NEW p \in Pids, Crash(p) PROVE ~DaemonAlive(q)'
  BY <1>27, <1>0 DEF Crash, Go, files
<1>28. ASSUME NEW p \in Pids, Interrupt(p) PROVE ~DaemonAlive(q)'
  BY <1>28, <1>0 DEF Interrupt, files, proc
<1>29. ASSUME NEW p \in Pids, DaemonEnds(p, "running") \/ DaemonEnds(p, "stopping") PROVE ~DaemonAlive(q)'
  BY <1>29, <1>0 DEF DaemonEnds, proc, files
<1>30. CASE UNCHANGED vars
  BY <1>30, <1>0 DEF vars, proc, files
<1> QED
  BY NextCases, <1>1, <1>2, <1>3, <1>4, <1>5, <1>6, <1>7, <1>8, <1>9, <1>10, <1>11,
     <1>12, <1>13, <1>14, <1>15, <1>16, <1>17, <1>18, <1>19, <1>20, <1>21, <1>22,
     <1>23, <1>24, <1>25, <1>26, <1>27, <1>28, <1>29, <1>30

(* A manager that ends in an orderly way, whatever failed before, has seen *)
(* to its daemon.                                                          *)
THEOREM NoDaemonIsOrphaned == Spec => []NoOrphan
<1>1. Init => NoOrphan
  BY DEF Init, NoOrphan
<1>2. IInv /\ NoOrphan /\ [Next]_vars => NoOrphan'
  BY OrphanStep DEF IInv
<1> QED  BY <1>1, <1>2, Inductive, PTL DEF Spec

-----------------------------------------------------------------------------
(* What cleanup() has to stop: a manager that watches a daemon or that has *)
(* passed the check of the block sign, or that has a daemon all the same.  *)
Threat(p) ==
  \/ Running(p) /\ ctx[p] = "monitor"
  \/ Running(p) /\ ctx[p] = "start" /\ at[p] # "check"
  \/ DaemonAlive(p) /\ p \notin killed

Hunting(q) == ctx[q] = "cleanup" /\ at[q] \in Ending \cup {"next"}

(* Each of them is still on the list of a cleanup that is at work, and     *)
(* none is left when it is done.                                           *)
CleaningOf(q) ==
  /\ ctx[q] \in {"boot", "cleanup"} => ~DaemonAlive(q)
  /\ at[q] = "list" => sign
  /\ Hunting(q) =>
       /\ sign
       /\ \A p \in Pids : Threat(p) => \/ Manager(p) \in todo[q]
                                       \/ at[q] # "next" /\ victim[q] = Manager(p)
  /\ outcome[q] = "cleaned" => sign /\ \A p \in Pids : ~Threat(p)
Cleaning == \A q \in Pids : CleaningOf(q)

(* cleanup() gets to list and to signal the instances, and to place the    *)
(* sign before.                                                            *)
CleanupWorks == Failures \cap {"touch", "ps", "kill"} = {}

(* A threat is a process that runs.                                        *)
LEMMA ThreatRuns ==
  ASSUME Shape, NoOrphan, NEW p \in Pids, CleaningOf(p), Threat(p)
  PROVE  Running(p)
  BY DEF Shape, ShapeOf, NoOrphan, CleaningOf, Threat, Running

(* Under the block sign no process becomes a threat.                       *)
LEMMA ThreatStep ==
  ASSUME TypeOK, Shape, [Next]_vars, sign, NEW q \in Pids, Threat(q)'
  PROVE  Threat(q)
<1> USE DEF TypeOK, Threat, DaemonAlive, Running, Entering, Locked, Ending, Removing
<1>1. ASSUME NEW p \in Pids, Launch(p) PROVE Threat(q)
  BY <1>1 DEF Launch, Go, files, Shape, ShapeOf
<1>2. ASSUME NEW p \in Pids, Begin(p) PROVE Threat(q)
  BY <1>2 DEF Begin, Enter, Go, files, Shape, ShapeOf
<1>3. ASSUME NEW p \in Pids, CheckAllowed(p) PROVE Threat(q)
  BY <1>3 DEF CheckAllowed, Go, Enter, Leave, Unlocked, files
<1>4. ASSUME NEW p \in Pids, Flock(p) PROVE Threat(q)
  BY <1>4 DEF Flock, Go, Enter, Leave, Unlocked, files
<1>5. ASSUME NEW p \in Pids, PidfileExists(p) PROVE Threat(q)
  BY <1>5 DEF PidfileExists, Go, files
<1>6. ASSUME NEW p \in Pids, ReadPidfile(p) PROVE Threat(q)
  BY <1>6 DEF ReadPidfile, Go, Enter, Leave, Unlocked, Raise, files
<1>7. ASSUME NEW p \in Pids, CreatePidfile(p) PROVE Threat(q)
  BY <1>7 DEF CreatePidfile, Go, Enter, Leave, Unlocked, Raise, files
<1>8. ASSUME NEW p \in Pids, FillPidfile(p) PROVE Threat(q)
  BY <1>8 DEF FillPidfile, Go, files
<1>9. ASSUME NEW p \in Pids, Fork(p) PROVE Threat(q)
  BY <1>9 DEF Fork, Go, Enter, Leave, Unlocked, Raise, files, Shape, ShapeOf
<1>10. ASSUME NEW p \in Pids, RecordDaemon(p) PROVE Threat(q)
  BY <1>10 DEF RecordDaemon, Go, files
<1>11. ASSUME NEW p \in Pids, Unlock(p) PROVE Threat(q)
  BY <1>11 DEF Unlock, Enter, Go, Unlocked, files, Shape, ShapeOf
<1>12. ASSUME NEW p \in Pids, SendTerm(p) PROVE Threat(q)
  BY <1>12 DEF SendTerm, Go, Enter, Leave, Unlocked, Raise, AfterTerminate, files, Alive
<1>13. ASSUME NEW p \in Pids, WaitTerminated(p) PROVE Threat(q)
  BY <1>13 DEF WaitTerminated, Go, AfterTerminate, files
<1>14. ASSUME NEW p \in Pids, SendKill(p) PROVE Threat(q)
  BY <1>14 DEF SendKill, Go, Enter, Leave, Unlocked, Raise, AfterTerminate, files
<1>15. ASSUME NEW p \in Pids, RemoveRead(p) PROVE Threat(q)
  BY <1>15, RemoveMoves
<1>16. ASSUME NEW p \in Pids, RemoveUnlink(p) PROVE Threat(q)
  BY <1>16, RemoveMoves
<1>17. ASSUME NEW p \in Pids, MonitorLoop(p) PROVE Threat(q)
  BY <1>17 DEF MonitorLoop, Go, Enter, Leave, Unlocked, files
<1>18. ASSUME NEW p \in Pids, MonitorAct(p) PROVE Threat(q)
  BY <1>18 DEF MonitorAct, Go, Enter, files
<1>19. ASSUME NEW p \in Pids, StopDaemon(p) PROVE Threat(q)
  BY <1>19 DEF StopDaemon, Go, files
<1>20. ASSUME NEW p \in Pids, Exec(p) PROVE Threat(q)
  BY <1>20 DEF Exec, NewImage, Enter, Go, Leave, Unlocked, files
<1>21. ASSUME NEW p \in Pids, Exit(p) PROVE Threat(q)
  BY <1>21 DEF Exit, Go, files
<1>22. ASSUME NEW p \in Pids, Reap(p) PROVE Threat(q)
  BY <1>22 DEF Reap, Go, files
<1>23. ASSUME NEW p \in Pids, PlaceSign(p) PROVE Threat(q)
  BY <1>23 DEF PlaceSign, Go, files
<1>24. ASSUME NEW p \in Pids, FindInstances(p) PROVE Threat(q)
  BY <1>24 DEF FindInstances, Go, files
<1>25. ASSUME NEW p \in Pids, KillNext(p) PROVE Threat(q)
  BY <1>25 DEF KillNext, Go, Enter, Leave, Unlocked, files
<1>26. ASSUME NEW p \in Pids, TakeSignal(p) PROVE Threat(q)
  BY <1>26 DEF TakeSignal, Go, Enter, Leave, Unlocked, files
<1>27. ASSUME NEW p \in Pids, Crash(p) PROVE Threat(q)
  BY <1>27 DEF Crash, Go, files
<1>28. ASSUME NEW p \in Pids, Interrupt(p) PROVE Threat(q)
  BY <1>28 DEF Interrupt, files, proc
<1>29. ASSUME NEW p \in Pids, DaemonEnds(p, "running") \/ DaemonEnds(p, "stopping") PROVE Threat(q)
  BY <1>29 DEF DaemonEnds, proc, files
<1>30. CASE UNCHANGED vars
  BY <1>30 DEF vars, proc, files
<1> QED
  BY NextCases, <1>1, <1>2, <1>3, <1>4, <1>5, <1>6, <1>7, <1>8, <1>9, <1>10, <1>11,
     <1>12, <1>13, <1>14, <1>15, <1>16, <1>17, <1>18, <1>19, <1>20, <1>21, <1>22,
     <1>23, <1>24, <1>25, <1>26, <1>27, <1>28, <1>29, <1>30

(* The sign stays, and it is there when cleanup() lists the instances; a   *)
(* daemon has a manager that forked it.                                    *)
LEMMA SignStep ==
  ASSUME CleanupWorks, TypeOK, Shape, Cleaning, [Next]_vars, NEW q \in Pids
  PROVE  /\ sign => sign'
         /\ (ctx[q] \in {"boot", "cleanup"} => ~DaemonAlive(q))'
         /\ (at[q] = "list" => sign)'
<1> DEFINE Goal == /\ sign => sign'
                   /\ (ctx[q] \in {"boot", "cleanup"} => ~DaemonAlive(q))'
                   /\ (at[q] = "list" => sign)'
<1>0. /\ ctx[q] \in {"boot", "cleanup"} => ~DaemonAlive(q)
      /\ at[q] = "list" => sign
  BY DEF Cleaning, CleaningOf
<1> USE DEF TypeOK, DaemonAlive
<1>1. ASSUME NEW p \in Pids, Launch(p) PROVE Goal
  BY <1>1, <1>0 DEF Launch, Go, files
<1>2. ASSUME NEW p \in Pids, Begin(p) PROVE Goal
  BY <1>2, <1>0 DEF Begin, Enter, Go, files, Shape, ShapeOf
<1>3. ASSUME NEW p \in Pids, CheckAllowed(p) PROVE Goal
  BY <1>3, <1>0 DEF CheckAllowed, Go, Enter, Leave, Unlocked, files
<1>4. ASSUME NEW p \in Pids, Flock(p) PROVE Goal
  BY <1>4, <1>0 DEF Flock, Go, Enter, Leave, Unlocked, files
<1>5. ASSUME NEW p \in Pids, PidfileExists(p) PROVE Goal
  BY <1>5, <1>0 DEF PidfileExists, Go, files
<1>6. ASSUME NEW p \in Pids, ReadPidfile(p) PROVE Goal
  BY <1>6, <1>0 DEF ReadPidfile, Go, Enter, Leave, Unlocked, Raise, files
<1>7. ASSUME NEW p \in Pids, CreatePidfile(p) PROVE Goal
  BY <1>7, <1>0 DEF CreatePidfile, Go, Enter, Leave, Unlocked, Raise, files
<1>8. ASSUME NEW p \in Pids, FillPidfile(p) PROVE Goal
  BY <1>8, <1>0 DEF FillPidfile, Go, files
<1>9. ASSUME NEW p \in Pids, Fork(p) PROVE Goal
  BY <1>9, <1>0 DEF Fork, Go, Enter, Leave, Unlocked, Raise, files, Shape, ShapeOf, Locked
<1>10. ASSUME NEW p \in Pids, RecordDaemon(p) PROVE Goal
  BY <1>10, <1>0 DEF RecordDaemon, Go, files
<1>11. ASSUME NEW p \in Pids, Unlock(p) PROVE Goal
  BY <1>11, <1>0 DEF Unlock, Enter, Go, Unlocked, files
<1>12. ASSUME NEW p \in Pids, SendTerm(p) PROVE Goal
  BY <1>12, <1>0 DEF SendTerm, Go, Enter, Leave, Unlocked, Raise, AfterTerminate, files, Alive
<1>13. ASSUME NEW p \in Pids, WaitTerminated(p) PROVE Goal
  BY <1>13, <1>0 DEF WaitTerminated, Go, AfterTerminate, files
<1>14. ASSUME NEW p \in Pids, SendKill(p) PROVE Goal
  BY <1>14, <1>0 DEF SendKill, Go, Enter, Leave, Unlocked, Raise, AfterTerminate, files
<1>15. ASSUME NEW p \in Pids, RemoveRead(p) PROVE Goal
  BY <1>15, RemoveReadCases, <1>0 DEF Removed, Failed, Go, Enter, Leave, Unlocked
<1>16. ASSUME NEW p \in Pids, RemoveUnlink(p) PROVE Goal
  BY <1>16, RemoveUnlinkCases, <1>0 DEF Removed, Failed, Go, Enter, Leave, Unlocked
<1>17. ASSUME NEW p \in Pids, MonitorLoop(p) PROVE Goal
  BY <1>17, <1>0 DEF MonitorLoop, Go, Enter, Leave, Unlocked, files
<1>18. ASSUME NEW p \in Pids, MonitorAct(p) PROVE Goal
  BY <1>18, <1>0 DEF MonitorAct, Go, Enter, files
<1>19. ASSUME NEW p \in Pids, StopDaemon(p) PROVE Goal
  BY <1>19, <1>0 DEF StopDaemon, Go, files
<1>20. ASSUME NEW p \in Pids, Exec(p) PROVE Goal
  BY <1>20, <1>0 DEF Exec, NewImage, Enter, Go, Leave, Unlocked, files
<1>21. ASSUME NEW p \in Pids, Exit(p) PROVE Goal
  BY <1>21, <1>0 DEF Exit, Go, files
<1>22. ASSUME NEW p \in Pids, Reap(p) PROVE Goal
  BY <1>22, <1>0 DEF Reap, Go, files
<1>23. ASSUME NEW p \in Pids, PlaceSign(p) PROVE Goal
  BY <1>23, <1>0 DEF PlaceSign, Go, files, CleanupWorks
<1>24. ASSUME NEW p \in Pids, FindInstances(p) PROVE Goal
  BY <1>24, <1>0 DEF FindInstances, Go, files
<1>25. ASSUME NEW p \in Pids, KillNext(p) PROVE Goal
  BY <1>25, <1>0 DEF KillNext, Go, Enter, Leave, Unlocked, files
<1>26. ASSUME NEW p \in Pids, TakeSignal(p) PROVE Goal
  BY <1>26, <1>0 DEF TakeSignal, Go, Enter, Leave, Unlocked, files
<1>27. ASSUME NEW p \in Pids, Crash(p) PROVE Goal
  BY <1>27, <1>0 DEF Crash, Go, files
<1>28. ASSUME NEW p \in Pids, Interrupt(p) PROVE Goal
  BY <1>28, <1>0 DEF Interrupt, files, proc
<1>29. ASSUME NEW p \in Pids, DaemonEnds(p, "running") \/ DaemonEnds(p, "stopping") PROVE Goal
  BY <1>29, <1>0 DEF DaemonEnds, proc, files
<1>30. CASE UNCHANGED vars
  BY <1>30, <1>0 DEF vars, proc, files
<1> QED
  BY NextCases, <1>1, <1>2, <1>3, <1>4, <1>5, <1>6, <1>7, <1>8, <1>9, <1>10, <1>11,
     <1>12, <1>13, <1>14, <1>15, <1>16, <1>17, <1>18, <1>19, <1>20, <1>21, <1>22,
     <1>23, <1>24, <1>25, <1>26, <1>27, <1>28, <1>29, <1>30

(* A cleanup at work loses no threat from its list but by ending it.       *)
LEMMA HuntStep ==
  ASSUME CleanupWorks, IInv, NoOrphan, Cleaning, [Next]_vars, NEW q \in Pids, Hunting(q)'
  PROVE  /\ sign
         /\ \A p \in Pids : Threat(p)' => \/ Manager(p) \in todo'[q]
                                          \/ at'[q] # "next" /\ victim'[q] = Manager(p)
<1> DEFINE Goal == /\ sign
                   /\ \A r \in Pids : Threat(r)' => \/ Manager(r) \in todo'[q]
                                                    \/ at'[q] # "next" /\ victim'[q] = Manager(r)
<1>i. TypeOK /\ Shape /\ ShapeOf(q) /\ CleaningOf(q)
  BY DEF IInv, Shape, Cleaning
<1>r. \A r \in Pids : Threat(r) => Running(r)
  BY <1>i, ThreatRuns DEF Cleaning
<1>s. \A r \in Pids : Threat(r)' => Running(r)'
  <2>1. Shape' /\ NoOrphan'
    BY <1>i, ShapeStep, OrphanStep
  <2> QED  BY <1>i, <2>1, SignStep DEF Shape, ShapeOf, NoOrphan, Threat, Running
<1>0. ASSUME /\ Hunting(q)
             /\ todo'[q] = todo[q] /\ victim'[q] = victim[q] /\ (at'[q] = "next" => at[q] = "next")
      PROVE  Goal
  BY <1>0, <1>i, ThreatStep DEF CleaningOf
<1>e. ASSUME /\ Hunting(q)
             /\ todo'[q] = todo[q]
             /\ at[q] # "next" => victim[q][1] # "manager" \/ ~Running(victim[q][2]) \/ at'[victim[q][2]] = "dead"
      PROVE  Goal
  <2> SUFFICES ASSUME NEW r \in Pids, Threat(r)', Manager(r) \notin todo[q] PROVE FALSE
    BY <1>e, <1>i DEF CleaningOf
  <2>1. Threat(r) /\ sign
    BY <1>e, <1>i, ThreatStep DEF CleaningOf
  <2>2. at[q] # "next" /\ victim[q] = Manager(r)
    BY <1>e, <1>i, <2>1 DEF CleaningOf
  <2>3. Running(r) /\ at'[r] # "dead"
    BY <1>r, <1>s, <2>1 DEF Running
  <2> QED  BY <1>e, <2>2, <2>3 DEF Manager
<1> USE <1>i DEF TypeOK, Hunting, Ending, ShapeOf
<1>1. ASSUME NEW p \in Pids, Launch(p) PROVE Goal
  BY <1>1, <1>0 DEF Launch, Go, files
<1>2. ASSUME NEW p \in Pids, Begin(p) PROVE Goal
  BY <1>2, <1>0 DEF Begin, Enter, Go, files
<1>3. ASSUME NEW p \in Pids, CheckAllowed(p) PROVE Goal
  BY <1>3, <1>0 DEF CheckAllowed, Go, Enter, Leave, Unlocked, files
<1>4. ASSUME NEW p \in Pids, Flock(p) PROVE Goal
  BY <1>4, <1>0 DEF Flock, Go, Enter, Leave, Unlocked, files
<1>5. ASSUME NEW p \in Pids, PidfileExists(p) PROVE Goal
  BY <1>5, <1>0 DEF PidfileExists, Go, files
<1>6. ASSUME NEW p \in Pids, ReadPidfile(p) PROVE Goal
  BY <1>6, <1>0 DEF ReadPidfile, Go, Enter, Leave, Unlocked, Raise, files
<1>7. ASSUME NEW p \in Pids, CreatePidfile(p) PROVE Goal
  BY <1>7, <1>0 DEF CreatePidfile, Go, Enter, Leave, Unlocked, Raise, files
<1>8. ASSUME NEW p \in Pids, FillPidfile(p) PROVE Goal
  BY <1>8, <1>0 DEF FillPidfile, Go, files
<1>9. ASSUME NEW p \in Pids, Fork(p) PROVE Goal
  BY <1>9, <1>0 DEF Fork, Go, Enter, Leave, Unlocked, Raise, files
<1>10. ASSUME NEW p \in Pids, RecordDaemon(p) PROVE Goal
  BY <1>10, <1>0 DEF RecordDaemon, Go, files
<1>11. ASSUME NEW p \in Pids, Unlock(p) PROVE Goal
  BY <1>11, <1>0 DEF Unlock, Enter, Go, Unlocked, files
<1>12. ASSUME NEW p \in Pids, SendTerm(p) PROVE Goal
  <2>1. CASE q # p
    BY <1>12, <1>0, <2>1, RaiseCases DEF SendTerm, Failed, Go, Enter, Leave
  <2>2. CASE q = p /\ at'[q] = "next"
    <3>1. ~Alive(victim[p]) /\ UNCHANGED <<todo, victim, ctx>>
      BY <1>12, <2>2 DEF SendTerm, CleanupWorks, Go
    <3> QED  BY <1>12, <1>e, <2>2, <3>1 DEF Alive, SendTerm
  <2>3. CASE q = p /\ at'[q] # "next"
    BY <1>12, <1>0, <2>3 DEF SendTerm, CleanupWorks, Go
  <2> QED  BY <2>1, <2>2, <2>3
<1>13. ASSUME NEW p \in Pids, WaitTerminated(p) PROVE Goal
  <2>1. CASE q = p /\ at'[q] = "next"
    <3>1. ~Alive(victim[p]) /\ UNCHANGED <<todo, victim, ctx>>
      BY <1>13, <2>1 DEF WaitTerminated, Go
    <3> QED  BY <1>13, <1>e, <2>1, <3>1 DEF Alive, WaitTerminated
  <2>2. CASE ~(q = p /\ at'[q] = "next")
    BY <1>13, <1>0, <2>2 DEF WaitTerminated, Go
  <2> QED  BY <2>1, <2>2
<1>14. ASSUME NEW p \in Pids, SendKill(p) PROVE Goal
  <2>1. /\ at' = [at EXCEPT ![p] = AfterTerminate(p),
                    ![victim[p][2]] = IF Alive(victim[p]) /\ victim[p][1] = "manager" THEN "dead" ELSE @]
        /\ at[p] = "kill" /\ UNCHANGED <<todo, victim, ctx>> /\ victim[p][2] \in Pids
    BY <1>14 DEF SendKill, CleanupWorks
  <2>2. CASE q # p
    <3>1. at'[q] = at[q] \/ at'[q] = "dead"
      BY <2>1, <2>2
    <3> QED  BY <1>0, <2>1, <3>1
  <2>3. CASE q = p
    <3>1. victim[p][1] = "manager" => ~Running(victim[p][2]) \/ at'[victim[p][2]] = "dead"
      BY <2>1 DEF Alive, Running
    <3> QED  BY <1>e, <2>1, <2>3, <3>1
  <2> QED  BY <2>2, <2>3
<1>15. ASSUME NEW p \in Pids, RemoveRead(p) PROVE Goal
  BY <1>15, RemoveReadCases, <1>0 DEF Removed, Failed, Go, Enter, Leave, Unlocked
<1>16. ASSUME NEW p \in Pids, RemoveUnlink(p) PROVE Goal
  BY <1>16, RemoveUnlinkCases, <1>0 DEF Removed, Failed, Go, Enter, Leave, Unlocked
<1>17. ASSUME NEW p \in Pids, MonitorLoop(p) PROVE Goal
  BY <1>17, <1>0 DEF MonitorLoop, Go, Enter, Leave, Unlocked, files
<1>18. ASSUME NEW p \in Pids, MonitorAct(p) PROVE Goal
  BY <1>18, <1>0 DEF MonitorAct, Go, Enter, files
<1>19. ASSUME NEW p \in Pids, StopDaemon(p) PROVE Goal
  BY <1>19, <1>0 DEF StopDaemon, Go, files
<1>20. ASSUME NEW p \in Pids, Exec(p) PROVE Goal
  <2>1. \A r \in Pids : Manager(r) # Daemon(p)
    BY DEF Manager, Daemon
  <2>2. CASE NewImage(p)
    <3>1. Hunting(q) /\ at'[q] = at[q]
      BY <2>2 DEF NewImage, Enter, Go
    <3>2. \A r \in Pids : /\ Manager(r) \in todo[q] => Manager(r) \in todo'[q]
                          /\ victim[q] = Manager(r) => victim'[q] = Manager(r)
      BY <2>1, <2>2 DEF NewImage
    <3> QED  BY <3>1, <3>2, ThreatStep DEF CleaningOf
  <2>3. CASE Leave(p, "stopped") /\ UNCHANGED <<victim, todo>>
    BY <1>0, <2>3 DEF Leave, Enter, Go
  <2> QED  BY <1>20, <2>2, <2>3 DEF Exec
<1>21. ASSUME NEW p \in Pids, Exit(p) PROVE Goal
  BY <1>21, <1>0 DEF Exit, Go, files
<1>22. ASSUME NEW p \in Pids, Reap(p) PROVE Goal
  BY <1>22, <1>0 DEF Reap, Go, files
<1>23. ASSUME NEW p \in Pids, PlaceSign(p) PROVE Goal
  BY <1>23, <1>0 DEF PlaceSign, Go, files
<1>24. ASSUME NEW p \in Pids, FindInstances(p) PROVE Goal
  <2>1. CASE q # p
    BY <1>24, <1>0, <2>1 DEF FindInstances, Go
  <2>2. CASE q = p
    <3>1. /\ at[q] = "list" /\ ctx[q] = "cleanup" /\ sign
          /\ todo'[q] = {x \in Procs : Alive(x)} \ {Manager(q)}
      BY <1>24, <2>2 DEF FindInstances, CleanupWorks, CleaningOf
    <3>2. ~Threat(q)
      BY <3>1 DEF CleaningOf, Threat
    <3>3. ASSUME NEW r \in Pids, Threat(r)' PROVE Manager(r) \in todo'[q]
      <4>1. Threat(r) /\ r # q
        BY <3>1, <3>2, <3>3, ThreatStep
      <4>2. Running(r)
        BY <1>r, <4>1
      <4>3. Manager(r) \in Procs /\ Alive(Manager(r)) /\ Manager(r) # Manager(q)
        BY <4>1, <4>2 DEF Manager, Procs, Alive
      <4> QED  BY <3>1, <4>3
    <3> QED  BY <3>1, <3>3
  <2> QED  BY <2>1, <2>2
<1>25. ASSUME NEW p \in Pids, KillNext(p) PROVE Goal
  <2>1. CASE q # p
    BY <1>25, <1>0, <2>1 DEF KillNext, Go, Enter, Leave
  <2>2. CASE q = p
    <3>1. Hunting(q) /\ at[q] = "next"
      BY <1>25, <2>2 DEF KillNext
    <3>2. PICK x \in todo[q] : victim'[q] = x /\ todo'[q] = todo[q] \ {x} /\ at'[q] = "term"
      BY <1>25, <2>2 DEF KillNext, Leave, Enter, Go
    <3>3. sign /\ \A r \in Pids : Threat(r) => Manager(r) \in todo[q]
      BY <3>1 DEF CleaningOf
    <3>4. \A r \in Pids : Threat(r)' => Manager(r) \in todo[q]
      BY <3>3, ThreatStep
    <3> QED  BY <3>2, <3>3, <3>4
  <2> QED  BY <2>1, <2>2
<1>26. ASSUME NEW p \in Pids, TakeSignal(p) PROVE Goal
  BY <1>26, <1>0 DEF TakeSignal, Go, Enter, Leave, Unlocked, files
<1>27. ASSUME NEW p \in Pids, Crash(p) PROVE Goal
  BY <1>27, <1>0 DEF Crash, Go, files
<1>28. ASSUME NEW p \in Pids, Interrupt(p) PROVE Goal
  BY <1>28, <1>0 DEF Interrupt, files, proc
<1>29. ASSUME NEW p \in Pids, DaemonEnds(p, "running") \/ DaemonEnds(p, "stopping") PROVE Goal
  BY <1>29, <1>0 DEF DaemonEnds, proc, files
<1>30. CASE UNCHANGED vars
  BY <1>30, <1>0 DEF vars, proc, files
<1> QED
  BY NextCases, <1>1, <1>2, <1>3, <1>4, <1>5, <1>6, <1>7, <1>8, <1>9, <1>10, <1>11,
     <1>12, <1>13, <1>14, <1>15, <1>16, <1>17, <1>18, <1>19, <1>20, <1>21, <1>22,
     <1>23, <1>24, <1>25, <1>26, <1>27, <1>28, <1>29, <1>30

(* cleanup() reports that it is done only with an empty list.              *)
LEMMA DoneStep ==
  ASSUME TypeOK, Shape, Cleaning, [Next]_vars, NEW q \in Pids, outcome'[q] = "cleaned"
  PROVE  outcome[q] = "cleaned" \/ (sign /\ \A p \in Pids : ~Threat(p))
<1> DEFINE Goal == outcome[q] = "cleaned" \/ (sign /\ \A r \in Pids : ~Threat(r))
<1> USE DEF TypeOK
<1>1. ASSUME NEW p \in Pids, Launch(p) PROVE Goal
  BY <1>1 DEF Launch, Go, files
<1>2. ASSUME NEW p \in Pids, Begin(p) PROVE Goal
  BY <1>2 DEF Begin, Enter, Go, files
<1>3. ASSUME NEW p \in Pids, CheckAllowed(p) PROVE Goal
  BY <1>3 DEF CheckAllowed, Go, Enter, Leave, Unlocked, files
<1>4. ASSUME NEW p \in Pids, Flock(p) PROVE Goal
  BY <1>4 DEF Flock, Go, Enter, Leave, Unlocked, files
<1>5. ASSUME NEW p \in Pids, PidfileExists(p) PROVE Goal
  BY <1>5 DEF PidfileExists, Go, files
<1>6. ASSUME NEW p \in Pids, ReadPidfile(p) PROVE Goal
  BY <1>6 DEF ReadPidfile, Go, Enter, Leave, Unlocked, Raise, files
<1>7. ASSUME NEW p \in Pids, CreatePidfile(p) PROVE Goal
  BY <1>7 DEF CreatePidfile, Go, Enter, Leave, Unlocked, Raise, files
<1>8. ASSUME NEW p \in Pids, FillPidfile(p) PROVE Goal
  BY <1>8 DEF FillPidfile, Go, files
<1>9. ASSUME NEW p \in Pids, Fork(p) PROVE Goal
  BY <1>9 DEF Fork, Go, Enter, Leave, Unlocked, Raise, files
<1>10. ASSUME NEW p \in Pids, RecordDaemon(p) PROVE Goal
  BY <1>10 DEF RecordDaemon, Go, files
<1>11. ASSUME NEW p \in Pids, Unlock(p) PROVE Goal
  BY <1>11 DEF Unlock, Enter, Go, Unlocked, files
<1>12. ASSUME NEW p \in Pids, SendTerm(p) PROVE Goal
  BY <1>12 DEF SendTerm, Go, Enter, Leave, Unlocked, Raise, AfterTerminate, files
<1>13. ASSUME NEW p \in Pids, WaitTerminated(p) PROVE Goal
  BY <1>13 DEF WaitTerminated, Go, AfterTerminate, files
<1>14. ASSUME NEW p \in Pids, SendKill(p) PROVE Goal
  BY <1>14 DEF SendKill, Go, Enter, Leave, Unlocked, Raise, AfterTerminate, files
<1>15. ASSUME NEW p \in Pids, RemoveRead(p) PROVE Goal
  BY <1>15, RemoveReadCases DEF Removed, Failed, Go, Enter, Leave, Unlocked
<1>16. ASSUME NEW p \in Pids, RemoveUnlink(p) PROVE Goal
  BY <1>16, RemoveUnlinkCases DEF Removed, Failed, Go, Enter, Leave, Unlocked
<1>17. ASSUME NEW p \in Pids, MonitorLoop(p) PROVE Goal
  BY <1>17 DEF MonitorLoop, Go, Enter, Leave, Unlocked, files
<1>18. ASSUME NEW p \in Pids, MonitorAct(p) PROVE Goal
  BY <1>18 DEF MonitorAct, Go, Enter, files
<1>19. ASSUME NEW p \in Pids, StopDaemon(p) PROVE Goal
  BY <1>19 DEF StopDaemon, Go, files
<1>20. ASSUME NEW p \in Pids, Exec(p) PROVE Goal
  BY <1>20 DEF Exec, NewImage, Enter, Go, Leave, Unlocked, files
<1>21. ASSUME NEW p \in Pids, Exit(p) PROVE Goal
  BY <1>21 DEF Exit, Go, files
<1>22. ASSUME NEW p \in Pids, Reap(p) PROVE Goal
  BY <1>22 DEF Reap, Go, files
<1>23. ASSUME NEW p \in Pids, PlaceSign(p) PROVE Goal
  BY <1>23 DEF PlaceSign, Go, files
<1>24. ASSUME NEW p \in Pids, FindInstances(p) PROVE Goal
  BY <1>24 DEF FindInstances, Go, files
<1>25. ASSUME NEW p \in Pids, KillNext(p) PROVE Goal
  <2>1. CASE todo[p] = {} /\ q = p
    <3>1. Hunting(q) /\ at[q] = "next" /\ todo[q] = {}
      BY <1>25, <2>1 DEF KillNext, Hunting, Shape, ShapeOf
    <3> QED  BY <3>1 DEF Cleaning, CleaningOf
  <2>2. CASE ~(todo[p] = {} /\ q = p)
    BY <1>25, <2>2 DEF KillNext, Leave
  <2> QED  BY <2>1, <2>2
<1>26. ASSUME NEW p \in Pids, TakeSignal(p) PROVE Goal
  BY <1>26 DEF TakeSignal, Go, Enter, Leave, Unlocked, files
<1>27. ASSUME NEW p \in Pids, Crash(p) PROVE Goal
  BY <1>27 DEF Crash, Go, files
<1>28. ASSUME NEW p \in Pids, Interrupt(p) PROVE Goal
  BY <1>28 DEF Interrupt, files, proc
<1>29. ASSUME NEW p \in Pids, DaemonEnds(p, "running") \/ DaemonEnds(p, "stopping") PROVE Goal
  BY <1>29 DEF DaemonEnds, proc, files
<1>30. CASE UNCHANGED vars
  BY <1>30 DEF vars, proc, files
<1> QED
  BY NextCases, <1>1, <1>2, <1>3, <1>4, <1>5, <1>6, <1>7, <1>8, <1>9, <1>10, <1>11,
     <1>12, <1>13, <1>14, <1>15, <1>16, <1>17, <1>18, <1>19, <1>20, <1>21, <1>22,
     <1>23, <1>24, <1>25, <1>26, <1>27, <1>28, <1>29, <1>30

(* The invariant of cleanup() is inductive.                                *)
LEMMA CleaningStep ==
  ASSUME CleanupWorks, IInv, NoOrphan, Cleaning, [Next]_vars
  PROVE  Cleaning'
<1> SUFFICES ASSUME NEW q \in Pids PROVE CleaningOf(q)'
  BY DEF Cleaning
<1>0. TypeOK /\ Shape /\ CleaningOf(q)
  BY DEF IInv, Cleaning
<1>1. /\ sign => sign'
      /\ (ctx[q] \in {"boot", "cleanup"} => ~DaemonAlive(q))'
      /\ (at[q] = "list" => sign)'
  BY <1>0, SignStep
<1>2. Hunting(q)' => /\ sign
                     /\ \A p \in Pids : Threat(p)' => \/ Manager(p) \in todo'[q]
                                                      \/ at'[q] # "next" /\ victim'[q] = Manager(p)
  BY HuntStep
<1>3. outcome'[q] = "cleaned" => sign /\ \A p \in Pids : ~Threat(p)
  BY <1>0, DoneStep DEF CleaningOf
<1>4. outcome'[q] = "cleaned" => sign' /\ \A p \in Pids : ~Threat(p)'
  BY <1>0, <1>1, <1>3, ThreatStep
<1> QED  BY <1>1, <1>2, <1>4 DEF CleaningOf

(* A forced cleanup is final: once it is done no manager holds or gets a   *)
(* daemon, whichever managers crash or are signalled meanwhile and         *)
(* whatever fails in them, as long as the cleanup itself can place the     *)
(* sign, list the instances and signal them.                               *)
THEOREM CleanupIsFinal ==
  ASSUME CleanupWorks
  PROVE  Spec => []CleanupLasts
<1>1. Init => Cleaning
  <2> SUFFICES ASSUME Init, NEW q \in Pids PROVE CleaningOf(q)
    BY DEF Cleaning
  <2> QED  BY DEF Init, CleaningOf, DaemonAlive, Hunting, Ending
<1>2. IInv /\ NoOrphan /\ Cleaning /\ [Next]_vars => Cleaning'
  BY CleaningStep
<1>3. Cleaning => CleanupLasts
  BY DEF Cleaning, CleaningOf, CleanupLasts, Threat, Starting
<1> QED  BY <1>1, <1>2, <1>3, Inductive, NoDaemonIsOrphaned, PTL DEF Spec

-----------------------------------------------------------------------------
(* Managers that nobody kills, that get signals from each other only and   *)
(* whose signals arrive, before a cleanup has begun.                       *)
Undisturbed == CrashProne = {} /\ Interruptible = {} /\ Failures \cap {"touch", "kill"} = {}

(* Then a manager that is told to stop has been told so by the one that    *)
(* takes over, which waits for it; a manager whose daemon runs knows it,   *)
(* and is in the pidfile; and the pidfile of a start is free or the one of *)
(* the instance that it replaces.                                          *)
Told(p) ==
  /\ at[p] = "none" => p \notin signal
  /\ p \in signal /\ Running(p) =>
       \E s \in Pids : Starting(s) /\ at[s] \in {"wait", "kill"} /\ victim[s] = Manager(p)
Knows(p) ==
  /\ DaemonAlive(p) => p \in known \/ at[p] = "record"
  /\ ctx[p] \in {"reboot", "stop"} /\ at[p] \in Removing \cup {"exec"} => ~DaemonAlive(p)
Replaces(p) ==
  /\ at[p] = "write" => pidfile = NoPid
  /\ ctx[p] = "start" /\ at[p] \in Ending \cup Removing => pidfile \in {NoPid, victim[p][2]}
Waiting(p) == ctx[p] = "cleanup" => at[p] \in {"touch", "dead"}
Recorded(p) == p \notin killed /\ DaemonAlive(p) => pidfile = p

Peace ==
  /\ \A p \in Pids : Told(p) /\ Knows(p) /\ Replaces(p) /\ Waiting(p) /\ Recorded(p)
  /\ pidfile = Empty => \E p \in Pids : at[p] = "fill"

(* The sign stays, and nobody hunts before it is there.                    *)
LEMMA WaitingStep ==
  ASSUME Undisturbed, TypeOK, Shape, [Next]_vars, NEW q \in Pids, ~sign'
  PROVE  ~sign /\ (Waiting(q) => Waiting(q)')
<1> DEFINE Goal == ~sign /\ (Waiting(q) => Waiting(q)')
<1> USE DEF TypeOK, Waiting
<1>1. ASSUME NEW p \in Pids, Launch(p) PROVE Goal
  BY <1>1 DEF Launch, Go, files
<1>2. ASSUME NEW p \in Pids, Begin(p) PROVE Goal
  BY <1>2 DEF Begin, Enter, Go, files
<1>3. ASSUME NEW p \in Pids, CheckAllowed(p) PROVE Goal
  BY <1>3 DEF CheckAllowed, Go, Enter, Leave, Unlocked, files
<1>4. ASSUME NEW p \in Pids, Flock(p) PROVE Goal
  BY <1>4 DEF Flock, Go, Enter, Leave, Unlocked, files
<1>5. ASSUME NEW p \in Pids, PidfileExists(p) PROVE Goal
  BY <1>5 DEF PidfileExists, Go, files
<1>6. ASSUME NEW p \in Pids, ReadPidfile(p) PROVE Goal
  BY <1>6 DEF ReadPidfile, Go, Enter, Leave, Unlocked, Raise, files
<1>7. ASSUME NEW p \in Pids, CreatePidfile(p) PROVE Goal
  BY <1>7 DEF CreatePidfile, Go, Enter, Leave, Unlocked, Raise, files
<1>8. ASSUME NEW p \in Pids, FillPidfile(p) PROVE Goal
  BY <1>8 DEF FillPidfile, Go, files
<1>9. ASSUME NEW p \in Pids, Fork(p) PROVE Goal
  BY <1>9 DEF Fork, Go, Enter, Leave, Unlocked, Raise, files
<1>10. ASSUME NEW p \in Pids, RecordDaemon(p) PROVE Goal
  BY <1>10 DEF RecordDaemon, Go, files
<1>11. ASSUME NEW p \in Pids, Unlock(p) PROVE Goal
  BY <1>11 DEF Unlock, Enter, Go, Unlocked, files
<1>12. ASSUME NEW p \in Pids, SendTerm(p) PROVE Goal
  BY <1>12 DEF SendTerm, Go, Enter, Leave, Unlocked, Raise, AfterTerminate, files
<1>13. ASSUME NEW p \in Pids, WaitTerminated(p) PROVE Goal
  BY <1>13 DEF WaitTerminated, Go, AfterTerminate, files
<1>14. ASSUME NEW p \in Pids, SendKill(p) PROVE Goal
  BY <1>14 DEF SendKill, Go, Enter, Leave, Unlocked, Raise, AfterTerminate, files
<1>15. ASSUME NEW p \in Pids, RemoveRead(p) PROVE Goal
  BY <1>15, RemoveReadCases DEF Removed, Failed, Go, Enter, Leave, Unlocked
<1>16. ASSUME NEW p \in Pids, RemoveUnlink(p) PROVE Goal
  BY <1>16, RemoveUnlinkCases DEF Removed, Failed, Go, Enter, Leave, Unlocked
<1>17. ASSUME NEW p \in Pids, MonitorLoop(p) PROVE Goal
  BY <1>17 DEF MonitorLoop, Go, Enter, Leave, Unlocked, files
<1>18. ASSUME NEW p \in Pids, MonitorAct(p) PROVE Goal
  BY <1>18 DEF MonitorAct, Go, Enter, files
<1>19. ASSUME NEW p \in Pids, StopDaemon(p) PROVE Goal
  BY <1>19 DEF StopDaemon, Go, files
<1>20. ASSUME NEW p \in Pids, Exec(p) PROVE Goal
  BY <1>20 DEF Exec, NewImage, Enter, Go, Leave, Unlocked, files
<1>21. ASSUME NEW p \in Pids, Exit(p) PROVE Goal
  BY <1>21 DEF Exit, Go, files
<1>22. ASSUME NEW p \in Pids, Reap(p) PROVE Goal
  BY <1>22 DEF Reap, Go, files
<1>23. ASSUME NEW p \in Pids, PlaceSign(p) PROVE Goal
  BY <1>23 DEF PlaceSign, Go, files, Undisturbed
<1>24. ASSUME NEW p \in Pids, FindInstances(p) PROVE Goal
  BY <1>24 DEF FindInstances, Go, files
<1>25. ASSUME NEW p \in Pids, KillNext(p) PROVE Goal
  BY <1>25 DEF KillNext, Go, Enter, Leave, Unlocked, files
<1>26. ASSUME NEW p \in Pids, TakeSignal(p) PROVE Goal
  BY <1>26 DEF TakeSignal, Go, Enter, Leave, Unlocked, files
<1>27. ASSUME NEW p \in Pids, Crash(p) PROVE Goal
  BY <1>27 DEF Crash, Go, files
<1>28. ASSUME NEW p \in Pids, Interrupt(p) PROVE Goal
  BY <1>28 DEF Interrupt, files, proc
<1>29. ASSUME NEW p \in Pids, DaemonEnds(p, "running") \/ DaemonEnds(p, "stopping") PROVE Goal
  BY <1>29 DEF DaemonEnds, proc, files
<1>30. CASE UNCHANGED vars
  BY <1>30 DEF vars, proc, files
<1> QED
  BY NextCases, <1>1, <1>2, <1>3, <1>4, <1>5, <1>6, <1>7, <1>8, <1>9, <1>10, <1>11,
     <1>12, <1>13, <1>14, <1>15, <1>16, <1>17, <1>18, <1>19, <1>20, <1>21, <1>22,
     <1>23, <1>24, <1>25, <1>26, <1>27, <1>28, <1>29, <1>30

(* A start that holds the setup lock is not disturbed.                     *)
LEMMA Unhurt ==
  ASSUME Undisturbed, IInv, Peace, NEW q \in Pids, Starting(q)
  PROVE  /\ q \notin signal
         /\ \A p \in Pids : at[p] \in Ending => victim[p] # Manager(q)
<1>1. ASSUME NEW p \in Pids, at[p] \in Ending, victim[p] = Manager(q) PROVE FALSE
  <2>1. victim[p][1] = "manager" /\ victim[p][2] = q /\ victim[p] # Daemon(p)
    BY <1>1 DEF Manager, Daemon
  <2>2. ctx[p] \notin {"cleanup", "monitor", "reboot", "stop"}
    BY <1>1, <2>1 DEF Peace, Waiting, IInv, Victims, VictimOf, Ending
  <2>3. ctx[p] = "start"
    BY <1>1, <2>2 DEF IInv, Shape, ShapeOf
  <2>4. Starting(p)
    BY <1>1, <2>3 DEF Starting, Running, Ending
  <2>5. p = q
    BY <2>4 DEF IInv, Lock
  <2> QED  BY <1>1, <2>1, <2>3, <2>5 DEF IInv, Victims, VictimOf
<1>2. q \notin signal
  BY <1>1 DEF Peace, Told, Starting, Ending
<1> QED  BY <1>1, <1>2

(* Therefore it goes on from each of its statements to the next.           *)
LEMMA UnhurtStep ==
  ASSUME Undisturbed, IInv, Peace, [Next]_vars, NEW q \in Pids, Starting(q)
  PROVE  /\ at'[q] # "dead"
         /\ at[q] = "fill" => at'[q] = "fill" \/ pidfile' # Empty
         /\ at[q] = "record" => at'[q] = "record" \/ q \in known'
<1> DEFINE Goal == /\ at'[q] # "dead"
                   /\ at[q] = "fill" => at'[q] = "fill" \/ pidfile' # Empty
                   /\ at[q] = "record" => at'[q] = "record" \/ q \in known'
<1>0. /\ TypeOK /\ Shape /\ ShapeOf(q) /\ q \notin signal /\ q # Empty
      /\ at[q] # "dead" /\ ctx[q] = "start"
  BY Unhurt, PidsAssumption DEF IInv, Shape, Starting, Running
<1> USE DEF TypeOK, ShapeOf, Entering, Locked, Ending, Removing
<1>1. ASSUME NEW p \in Pids, Launch(p) PROVE Goal
  BY <1>1, <1>0 DEF Launch, Go, files
<1>2. ASSUME NEW p \in Pids, Begin(p) PROVE Goal
  BY <1>2, <1>0 DEF Begin, Enter, Go, files
<1>3. ASSUME NEW p \in Pids, CheckAllowed(p) PROVE Goal
  BY <1>3, <1>0 DEF CheckAllowed, Go, Enter, Leave, Unlocked, files
<1>4. ASSUME NEW p \in Pids, Flock(p) PROVE Goal
  BY <1>4, <1>0 DEF Flock, Go, Enter, Leave, Unlocked, files
<1>5. ASSUME NEW p \in Pids, PidfileExists(p) PROVE Goal
  BY <1>5, <1>0 DEF PidfileExists, Go, files
<1>6. ASSUME NEW p \in Pids, ReadPidfile(p) PROVE Goal
  BY <1>6, <1>0 DEF ReadPidfile, Go, Enter, Leave, Unlocked, Raise, files
<1>7. ASSUME NEW p \in Pids, CreatePidfile(p) PROVE Goal
  BY <1>7, <1>0 DEF CreatePidfile, Go, Enter, Leave, Unlocked, Raise, files
<1>8. ASSUME NEW p \in Pids, FillPidfile(p) PROVE Goal
  BY <1>8, <1>0 DEF FillPidfile, Go, files
<1>9. ASSUME NEW p \in Pids, Fork(p) PROVE Goal
  BY <1>9, <1>0 DEF Fork, Go, Enter, Leave, Unlocked, Raise, files
<1>10. ASSUME NEW p \in Pids, RecordDaemon(p) PROVE Goal
  BY <1>10, <1>0 DEF RecordDaemon, Go, files
<1>11. ASSUME NEW p \in Pids, Unlock(p) PROVE Goal
  BY <1>11, <1>0 DEF Unlock, Enter, Go, Unlocked, files
<1>12. ASSUME NEW p \in Pids, SendTerm(p) PROVE Goal
  BY <1>12, <1>0 DEF SendTerm, Go, Enter, Leave, Unlocked, Raise, AfterTerminate, files
<1>13. ASSUME NEW p \in Pids, WaitTerminated(p) PROVE Goal
  BY <1>13, <1>0 DEF WaitTerminated, Go, AfterTerminate, files
<1>14. ASSUME NEW p \in Pids, SendKill(p) PROVE Goal
  <2>1. at[p] = "kill" /\ victim[p] # Manager(q)
    BY <1>14, Unhurt DEF SendKill
  <2>2. /\ at' = [at EXCEPT ![p] = AfterTerminate(p),
                    ![victim[p][2]] = IF Alive(victim[p]) /\ victim[p][1] = "manager" THEN "dead" ELSE @]
        /\ UNCHANGED <<ctx, pidfile, known>> /\ victim[p] \in {"manager", "daemon", "gone"} \X Pids
    BY <1>0, <1>14 DEF SendKill, Undisturbed, files
  <2>3. at'[q] = IF q = p THEN AfterTerminate(p) ELSE at[q]
    BY <1>0, <2>1, <2>2 DEF Manager
  <2> QED  BY <1>0, <2>1, <2>2, <2>3 DEF AfterTerminate
<1>15. ASSUME NEW p \in Pids, RemoveRead(p) PROVE Goal
  BY <1>15, RemoveReadCases, <1>0 DEF Removed, Failed, Go, Enter, Leave, Unlocked
<1>16. ASSUME NEW p \in Pids, RemoveUnlink(p) PROVE Goal
  BY <1>16, RemoveUnlinkCases, <1>0 DEF Removed, Failed, Go, Enter, Leave, Unlocked
<1>17. ASSUME NEW p \in Pids, MonitorLoop(p) PROVE Goal
  BY <1>17, <1>0 DEF MonitorLoop, Go, Enter, Leave, Unlocked, files
<1>18. ASSUME NEW p \in Pids, MonitorAct(p) PROVE Goal
  BY <1>18, <1>0 DEF MonitorAct, Go, Enter, files
<1>19. ASSUME NEW p \in Pids, StopDaemon(p) PROVE Goal
  BY <1>19, <1>0 DEF StopDaemon, Go, files
<1>20. ASSUME NEW p \in Pids, Exec(p) PROVE Goal
  BY <1>20, <1>0 DEF Exec, NewImage, Enter, Go, Leave, Unlocked, files
<1>21. ASSUME NEW p \in Pids, Exit(p) PROVE Goal
  BY <1>21, <1>0 DEF Exit, Go, files
<1>22. ASSUME NEW p \in Pids, Reap(p) PROVE Goal
  BY <1>22, <1>0 DEF Reap, Go, files
<1>23. ASSUME NEW p \in Pids, PlaceSign(p) PROVE Goal
  BY <1>23, <1>0 DEF PlaceSign, Go, files
<1>24. ASSUME NEW p \in Pids, FindInstances(p) PROVE Goal
  BY <1>24, <1>0 DEF FindInstances, Go, files
<1>25. ASSUME NEW p \in Pids, KillNext(p) PROVE Goal
  BY <1>25, <1>0 DEF KillNext, Go, Enter, Leave, Unlocked, files
<1>26. ASSUME NEW p \in Pids, TakeSignal(p) PROVE Goal
  BY <1>26, <1>0 DEF TakeSignal, Go, Enter, Leave, Unlocked, files
<1>27. ASSUME NEW p \in Pids, Crash(p) PROVE Goal
  BY <1>27 DEF Crash, Undisturbed
<1>28. ASSUME NEW p \in Pids, Interrupt(p) PROVE Goal
  BY <1>28, <1>0 DEF Interrupt, files, proc
<1>29. ASSUME NEW p \in Pids, DaemonEnds(p, "running") \/ DaemonEnds(p, "stopping") PROVE Goal
  BY <1>29, <1>0 DEF DaemonEnds, proc, files
<1>30. CASE UNCHANGED vars
  BY <1>30, <1>0 DEF vars, proc, files
<1> QED
  BY NextCases, <1>1, <1>2, <1>3, <1>4, <1>5, <1>6, <1>7, <1>8, <1>9, <1>10, <1>11,
     <1>12, <1>13, <1>14, <1>15, <1>16, <1>17, <1>18, <1>19, <1>20, <1>21, <1>22,
     <1>23, <1>24, <1>25, <1>26, <1>27, <1>28, <1>29, <1>30

(* Signals between managers.                                               *)
LEMMA SignalStep ==
  ASSUME Undisturbed, TypeOK, Shape, [Next]_vars, NEW q \in signal', q \notin signal
  PROVE  \E p \in Pids : /\ at[p] = "term" /\ victim[p] = Manager(q) /\ Running(q) /\ q \in Pids
                         /\ at' = [at EXCEPT ![p] = "wait"] /\ UNCHANGED <<ctx, victim>>
<1> DEFINE Goal == \E p \in Pids : /\ at[p] = "term" /\ victim[p] = Manager(q) /\ Running(q) /\ q \in Pids
                                   /\ at' = [at EXCEPT ![p] = "wait"] /\ UNCHANGED <<ctx, victim>>
<1>1. ASSUME NEW p \in Pids, Launch(p) PROVE Goal
  BY <1>1 DEF Launch, Go, files
<1>2. ASSUME NEW p \in Pids, Begin(p) PROVE Goal
  BY <1>2 DEF Begin, Enter, Go, files
<1>3. ASSUME NEW p \in Pids, CheckAllowed(p) PROVE Goal
  BY <1>3 DEF CheckAllowed, Go, Enter, Leave, Unlocked, files
<1>4. ASSUME NEW p \in Pids, Flock(p) PROVE Goal
  BY <1>4 DEF Flock, Go, Enter, Leave, Unlocked, files
<1>5. ASSUME NEW p \in Pids, PidfileExists(p) PROVE Goal
  BY <1>5 DEF PidfileExists, Go, files
<1>6. ASSUME NEW p \in Pids, ReadPidfile(p) PROVE Goal
  BY <1>6 DEF ReadPidfile, Go, Enter, Leave, Unlocked, Raise, files
<1>7. ASSUME NEW p \in Pids, CreatePidfile(p) PROVE Goal
  BY <1>7 DEF CreatePidfile, Go, Enter, Leave, Unlocked, Raise, files
<1>8. ASSUME NEW p \in Pids, FillPidfile(p) PROVE Goal
  BY <1>8 DEF FillPidfile, Go, files
<1>9. ASSUME NEW p \in Pids, Fork(p) PROVE Goal
  BY <1>9 DEF Fork, Go, Enter, Leave, Unlocked, Raise, files
<1>10. ASSUME NEW p \in Pids, RecordDaemon(p) PROVE Goal
  BY <1>10 DEF RecordDaemon, Go, files
<1>11. ASSUME NEW p \in Pids, Unlock(p) PROVE Goal
  BY <1>11 DEF Unlock, Enter, Go, Unlocked, files
<1>12. ASSUME NEW p \in Pids, SendTerm(p) PROVE Goal
  <2>1. /\ at[p] = "term" /\ Alive(victim[p]) /\ victim[p][1] = "manager" /\ victim[p][2] = q
        /\ Go(p, "wait") /\ UNCHANGED <<ctx, victim>>
    BY <1>12 DEF SendTerm, Undisturbed
  <2>2. victim[p] = Manager(q) /\ Running(q) /\ q \in Pids
    BY <2>1 DEF TypeOK, Manager, Alive
  <2> QED  BY <2>1, <2>2 DEF Go
<1>13. ASSUME NEW p \in Pids, WaitTerminated(p) PROVE Goal
  BY <1>13 DEF WaitTerminated, Go, AfterTerminate, files
<1>14. ASSUME NEW p \in Pids, SendKill(p) PROVE Goal
  BY <1>14 DEF SendKill, Go, Enter, Leave, Unlocked, Raise, AfterTerminate, files
<1>15. ASSUME NEW p \in Pids, RemoveRead(p) PROVE Goal
  BY <1>15, RemoveReadCases DEF Removed, Failed, Go, Enter, Leave, Unlocked
<1>16. ASSUME NEW p \in Pids, RemoveUnlink(p) PROVE Goal
  BY <1>16, RemoveUnlinkCases DEF Removed, Failed, Go, Enter, Leave, Unlocked
<1>17. ASSUME NEW p \in Pids, MonitorLoop(p) PROVE Goal
  BY <1>17 DEF MonitorLoop, Go, Enter, Leave, Unlocked, files
<1>18. ASSUME NEW p \in Pids, MonitorAct(p) PROVE Goal
  BY <1>18 DEF MonitorAct, Go, Enter, files
<1>19. ASSUME NEW p \in Pids, StopDaemon(p) PROVE Goal
  BY <1>19 DEF StopDaemon, Go, files
<1>20. ASSUME NEW p \in Pids, Exec(p) PROVE Goal
  BY <1>20 DEF Exec, NewImage, Enter, Go, Leave, Unlocked, files
<1>21. ASSUME NEW p \in Pids, Exit(p) PROVE Goal
  BY <1>21 DEF Exit, Go, files
<1>22. ASSUME NEW p \in Pids, Reap(p) PROVE Goal
  BY <1>22 DEF Reap, Go, files
<1>23. ASSUME NEW p \in Pids, PlaceSign(p) PROVE Goal
  BY <1>23 DEF PlaceSign, Go, files
<1>24. ASSUME NEW p \in Pids, FindInstances(p) PROVE Goal
  BY <1>24 DEF FindInstances, Go, files
<1>25. ASSUME NEW p \in Pids, KillNext(p) PROVE Goal
  BY <1>25 DEF KillNext, Go, Enter, Leave, Unlocked, files
<1>26. ASSUME NEW p \in Pids, TakeSignal(p) PROVE Goal
  BY <1>26 DEF TakeSignal, Go, Enter, Leave, Unlocked, files
<1>27. ASSUME NEW p \in Pids, Crash(p) PROVE Goal
  BY <1>27 DEF Crash, Go, files
<1>28. ASSUME NEW p \in Pids, Interrupt(p) PROVE Goal
  BY <1>28 DEF Interrupt, Undisturbed
<1>29. ASSUME NEW p \in Pids, DaemonEnds(p, "running") \/ DaemonEnds(p, "stopping") PROVE Goal
  BY <1>29 DEF DaemonEnds, proc, files
<1>30. CASE UNCHANGED vars
  BY <1>30 DEF vars, proc, files
<1> QED
  BY NextCases, <1>1, <1>2, <1>3, <1>4, <1>5, <1>6, <1>7, <1>8, <1>9, <1>10, <1>11,
     <1>12, <1>13, <1>14, <1>15, <1>16, <1>17, <1>18, <1>19, <1>20, <1>21, <1>22,
     <1>23, <1>24, <1>25, <1>26, <1>27, <1>28, <1>29, <1>30

(* Whoever has told a manager to stop waits until it is gone.              *)
LEMMA ToldStep ==
  ASSUME Undisturbed, IInv, Peace, [Next]_vars, NEW q \in Pids
  PROVE  Told(q)'
<1>0. TypeOK /\ Shape /\ ShapeOf(q) /\ Told(q)
  BY DEF IInv, Shape, Peace
(* The one who waits goes on waiting as long as the other runs.            *)
<1>1. ASSUME NEW s \in Pids, Starting(s), at[s] \in {"wait", "kill"}, victim[s] = Manager(q), Running(q)'
      PROVE  Starting(s)' /\ at'[s] \in {"wait", "kill"} /\ victim'[s] = Manager(q)
  <2> DEFINE Goal == Starting(s)' /\ at'[s] \in {"wait", "kill"} /\ victim'[s] = Manager(q)
  <2>0. /\ s # q /\ s \notin signal /\ ctx[s] = "start" /\ at[q] \notin {"none", "dead"}
        /\ \A p \in Pids : at[p] \in Ending => victim[p] # Manager(s)
    <3>1. victim[s][2] # s /\ at[victim[s][2]] # "none"
      BY <1>1 DEF IInv, Victims, VictimOf, Starting, Ending
    <3>2. at[q] # "dead"
      BY <1>0, <1>1, LifeStep DEF Running
    <3> QED  BY <1>1, <3>1, <3>2, Unhurt DEF Starting, Manager
  <2>1. Alive(victim[s])
    BY <1>1, <2>0 DEF Alive, Manager, Running
  <2>2. CASE at'[s] = at[s] /\ ctx'[s] = ctx[s] /\ victim'[s] = victim[s]
    BY <1>1, <2>2 DEF Starting, Running
  <2>3. ASSUME NEW p \in Pids, SendTerm(p) \/ WaitTerminated(p) PROVE Goal
    BY <1>0, <1>1, <2>0, <2>1, <2>3 DEF SendTerm, WaitTerminated, Undisturbed, Go, TypeOK, Starting, Running
  <2>4. ASSUME NEW p \in Pids, SendKill(p) PROVE Goal
    <3>1. /\ at[p] = "kill" /\ victim[p] # Manager(s)
          /\ at' = [at EXCEPT ![p] = AfterTerminate(p),
                      ![victim[p][2]] = IF Alive(victim[p]) /\ victim[p][1] = "manager" THEN "dead" ELSE @]
          /\ UNCHANGED <<ctx, victim>> /\ victim[p] \in {"manager", "daemon", "gone"} \X Pids
      BY <1>0, <2>0, <2>4 DEF SendKill, Undisturbed, TypeOK, Ending
    <3>2. p # s
      <4> SUFFICES ASSUME p = s PROVE FALSE
        OBVIOUS
      <4>1. victim[s][1] = "manager" /\ victim[s][2] = q
        BY <1>1 DEF Manager
      <4>2. at'[q] = "dead"
        BY <1>0, <2>1, <3>1, <4>1 DEF TypeOK
      <4> QED  BY <1>1, <4>2 DEF Running
    <3>3. at'[s] = at[s]
      BY <1>0, <3>1, <3>2 DEF TypeOK, Manager
    <3> QED  BY <2>2, <3>1, <3>3
  <2>5. ASSUME NEW p \in Pids, Exec(p) PROVE Goal
    <3>1. p # s /\ victim[s] # Daemon(p)
      BY <1>1, <2>5 DEF Exec, Manager, Daemon
    <3> QED  BY <1>0, <2>2, <2>5, <3>1 DEF Exec, NewImage, Leave, Enter, Go, TypeOK
  <2>6. ASSUME NEW p \in Pids, TakeSignal(p) \/ Crash(p) PROVE Goal
    BY <1>0, <2>0, <2>2, <2>6 DEF TakeSignal, Crash, Undisturbed, Leave, Enter, Go, TypeOK
  <2>7. ASSUME NEW p \in Pids, RemoveRead(p) \/ RemoveUnlink(p) PROVE Goal
    BY <1>0, <1>1, <2>2, <2>7, RemoveReadCases, RemoveUnlinkCases, RemoveMoves DEF Removing
  <2>8. ASSUME NEW p \in Pids,
               \/ CheckAllowed(p) \/ Flock(p) \/ PidfileExists(p) \/ ReadPidfile(p) \/ CreatePidfile(p)
               \/ FillPidfile(p) \/ Fork(p) \/ RecordDaemon(p) \/ Unlock(p)
        PROVE  Goal
    BY <1>0, <1>1, <2>2, <2>8, RaiseCases DEF CheckAllowed, Flock, PidfileExists, ReadPidfile, CreatePidfile,
       FillPidfile, Fork, RecordDaemon, Unlock, Failed, Leave, Enter, Go, TypeOK
  <2>9. ASSUME NEW p \in Pids,
               \/ Launch(p) \/ Begin(p) \/ MonitorLoop(p) \/ MonitorAct(p) \/ StopDaemon(p) \/ Exit(p)
               \/ Reap(p) \/ PlaceSign(p) \/ FindInstances(p) \/ KillNext(p) \/ Interrupt(p)
        PROVE  Goal
    BY <1>0, <1>1, <2>0, <2>2, <2>9 DEF Launch, Begin, MonitorLoop, MonitorAct, StopDaemon, Exit, Reap,
       PlaceSign, FindInstances, KillNext, Interrupt, proc, Leave, Enter, Go, TypeOK
  <2>10. ASSUME NEW p \in Pids, DaemonEnds(p, "running") \/ DaemonEnds(p, "stopping") PROVE Goal
    BY <2>2, <2>10 DEF DaemonEnds, proc
  <2>11. CASE UNCHANGED vars
    BY <2>2, <2>11 DEF vars, proc
  <2> QED  BY NextCases, <2>3, <2>4, <2>5, <2>6, <2>7, <2>8, <2>9, <2>10, <2>11
<1>2. CASE q \in signal
  <2>1. Running(q)' => Running(q)
    BY <1>0, <1>2, LifeStep DEF Told, Running
  <2>2. at'[q] # "none"
    BY <1>0, <1>2, LifeStep DEF Told
  <2> QED  BY <1>0, <1>1, <1>2, <2>1, <2>2 DEF Told
<1>3. CASE q \in signal' /\ q \notin signal
  <2>1. PICK p \in Pids : /\ at[p] = "term" /\ victim[p] = Manager(q) /\ Running(q)
                          /\ at' = [at EXCEPT ![p] = "wait"] /\ UNCHANGED <<ctx, victim>>
    BY <1>0, <1>3, SignalStep
  <2>2. victim[p] # Daemon(p)
    BY <2>1 DEF Manager, Daemon
  <2>3. ctx[p] = "start"
    BY <2>1, <2>2 DEF IInv, Shape, ShapeOf, Victims, VictimOf, Peace, Waiting, Ending
  <2>4. Starting(p)' /\ at'[p] = "wait" /\ victim'[p] = Manager(q)
    BY <1>0, <2>1, <2>3 DEF Starting, Running, TypeOK
  <2>5. at'[q] # "none"
    BY <1>0, <2>1 DEF TypeOK, Running
  <2> QED  BY <2>4, <2>5 DEF Told
<1>4. CASE q \notin signal /\ q \notin signal'
  BY <1>4 DEF Told
<1> QED  BY <1>2, <1>3, <1>4

(* A manager stops the daemon it knows before it gives up its pidfile.     *)
LEMMA KnowsStep ==
  ASSUME Undisturbed, IInv, Peace, [Next]_vars, NEW q \in Pids
  PROVE  Knows(q)'
<1>0. TypeOK /\ Shape /\ ShapeOf(q) /\ Knows(q) /\ VictimOf(q)
  BY DEF IInv, Shape, Peace, Victims
<1>k. at[q] = "record" => at'[q] = "record" \/ q \in known'
  BY <1>0, UnhurtStep DEF Starting, Running, ShapeOf, Locked
<1> USE DEF TypeOK, DaemonAlive, Knows, ShapeOf, Removing, Entering, Locked, Ending
<1>1. ASSUME NEW p \in Pids, Launch(p) PROVE Knows(q)'
  BY <1>1, <1>0, <1>k DEF Launch, Go, files
<1>2. ASSUME NEW p \in Pids, Begin(p) PROVE Knows(q)'
  BY <1>2, <1>0, <1>k DEF Begin, Enter, Go, files
<1>3. ASSUME NEW p \in Pids, CheckAllowed(p) PROVE Knows(q)'
  BY <1>3, <1>0, <1>k DEF CheckAllowed, Go, Enter, Leave, Unlocked, files
<1>4. ASSUME NEW p \in Pids, Flock(p) PROVE Knows(q)'
  BY <1>4, <1>0, <1>k DEF Flock, Go, Enter, Leave, Unlocked, files
<1>5. ASSUME NEW p \in Pids, PidfileExists(p) PROVE Knows(q)'
  BY <1>5, <1>0, <1>k DEF PidfileExists, Go, files
<1>6. ASSUME NEW p \in Pids, ReadPidfile(p) PROVE Knows(q)'
  BY <1>6, <1>0, <1>k DEF ReadPidfile, Go, Enter, Leave, Unlocked, Raise, files
<1>7. ASSUME NEW p \in Pids, CreatePidfile(p) PROVE Knows(q)'
  BY <1>7, <1>0, <1>k DEF CreatePidfile, Go, Enter, Leave, Unlocked, Raise, files
<1>8. ASSUME NEW p \in Pids, FillPidfile(p) PROVE Knows(q)'
  BY <1>8, <1>0, <1>k DEF FillPidfile, Go, files
<1>9. ASSUME NEW p \in Pids, Fork(p) PROVE Knows(q)'
  BY <1>9, <1>0, <1>k DEF Fork, Go, Enter, Leave, Unlocked, Raise, files
<1>10. ASSUME NEW p \in Pids, RecordDaemon(p) PROVE Knows(q)'
  BY <1>10, <1>0, <1>k DEF RecordDaemon, Go, files
<1>11. ASSUME NEW p \in Pids, Unlock(p) PROVE Knows(q)'
  BY <1>11, <1>0, <1>k DEF Unlock, Enter, Go, Unlocked, files
<1>12. ASSUME NEW p \in Pids, SendTerm(p) PROVE Knows(q)'
  <2>1. DaemonAlive(q)' <=> DaemonAlive(q)
    BY <1>12, <1>0 DEF SendTerm, Alive, Undisturbed
  <2>2. q # p => at'[q] = at[q] /\ ctx'[q] = ctx[q]
    BY <1>12, <1>0 DEF SendTerm, Undisturbed, Go
  <2>3. at[p] = "term" /\ UNCHANGED <<known, ctx>> /\ at'[p] # "exec"
    BY <1>12, <1>0 DEF SendTerm, Undisturbed, Go, AfterTerminate
  <2>4. q = p /\ ctx[p] \in {"reboot", "stop"} /\ at'[p] \in Removing => ~DaemonAlive(p)
    BY <1>12, <1>0 DEF SendTerm, Undisturbed, Go, VictimOf, Alive, Daemon
  <2> QED  BY <1>0, <2>1, <2>2, <2>3, <2>4
<1>13. ASSUME NEW p \in Pids, WaitTerminated(p) PROVE Knows(q)'
  <2>1. q = p /\ ctx[p] \in {"reboot", "stop"} /\ at'[p] \in Removing => ~DaemonAlive(p)
    BY <1>13, <1>0 DEF WaitTerminated, Go, VictimOf, Alive, Daemon
  <2> QED  BY <1>13, <1>0, <2>1 DEF WaitTerminated, Go, AfterTerminate
<1>14. ASSUME NEW p \in Pids, SendKill(p) PROVE Knows(q)'
  <2>1. /\ at[p] = "kill" /\ UNCHANGED <<ctx, victim, known>>
        /\ at' = [at EXCEPT ![p] = AfterTerminate(p),
                    ![victim[p][2]] = IF Alive(victim[p]) /\ victim[p][1] = "manager" THEN "dead" ELSE @]
        /\ daemon' = IF victim[p][1] = "daemon" THEN [daemon EXCEPT ![victim[p][2]] = "dead"] ELSE daemon
    BY <1>14 DEF SendKill, Undisturbed
  <2>2. DaemonAlive(q)' => DaemonAlive(q)
    BY <1>0, <2>1
  <2>3. at[q] = "record" => at'[q] = "record" \/ q \in known
    BY <1>k, <2>1
  <2>4. q # p => at'[q] = at[q] \/ at'[q] = "dead"
    BY <1>0, <2>1
  <2>5. q = p /\ ctx[p] \in {"reboot", "stop"} => ~DaemonAlive(q)'
    BY <1>0, <2>1 DEF VictimOf, Daemon
  <2>6. q = p => at'[q] # "exec"
    BY <1>0, <2>1 DEF AfterTerminate
  <2> QED  BY <1>0, <2>1, <2>2, <2>3, <2>4, <2>5, <2>6
<1>15. ASSUME NEW p \in Pids, RemoveRead(p) PROVE Knows(q)'
  BY <1>15, RemoveReadCases, <1>0, <1>k DEF Removed, Failed, Go, Enter, Leave, Unlocked
<1>16. ASSUME NEW p \in Pids, RemoveUnlink(p) PROVE Knows(q)'
  BY <1>16, RemoveUnlinkCases, <1>0, <1>k DEF Removed, Failed, Go, Enter, Leave, Unlocked
<1>17. ASSUME NEW p \in Pids, MonitorLoop(p) PROVE Knows(q)'
  BY <1>17, <1>0, <1>k DEF MonitorLoop, Go, Enter, Leave, Unlocked, files
<1>18. ASSUME NEW p \in Pids, MonitorAct(p) PROVE Knows(q)'
  BY <1>18, <1>0, <1>k DEF MonitorAct, Go, Enter, files
<1>19. ASSUME NEW p \in Pids, StopDaemon(p) PROVE Knows(q)'
  BY <1>19, <1>0, <1>k DEF StopDaemon, Go, files
<1>20. ASSUME NEW p \in Pids, Exec(p) PROVE Knows(q)'
  BY <1>20, <1>0, <1>k DEF Exec, NewImage, Enter, Go, Leave, Unlocked, files
<1>21. ASSUME NEW p \in Pids, Exit(p) PROVE Knows(q)'
  BY <1>21, <1>0, <1>k DEF Exit, Go, files
<1>22. ASSUME NEW p \in Pids, Reap(p) PROVE Knows(q)'
  BY <1>22, <1>0, <1>k DEF Reap, Go, files
<1>23. ASSUME NEW p \in Pids, PlaceSign(p) PROVE Knows(q)'
  BY <1>23, <1>0, <1>k DEF PlaceSign, Go, files
<1>24. ASSUME NEW p \in Pids, FindInstances(p) PROVE Knows(q)'
  BY <1>24, <1>0, <1>k DEF FindInstances, Go, files
<1>25. ASSUME NEW p \in Pids, KillNext(p) PROVE Knows(q)'
  BY <1>25, <1>0, <1>k DEF KillNext, Go, Enter, Leave, Unlocked, files
<1>26. ASSUME NEW p \in Pids, TakeSignal(p) PROVE Knows(q)'
  BY <1>26, <1>0, <1>k DEF TakeSignal, Go, Enter, Leave, Unlocked, files
<1>27. ASSUME NEW p \in Pids, Crash(p) PROVE Knows(q)'
  BY <1>27 DEF Crash, Undisturbed
<1>28. ASSUME NEW p \in Pids, Interrupt(p) PROVE Knows(q)'
  BY <1>28, <1>0, <1>k DEF Interrupt, files, proc
<1>29. ASSUME NEW p \in Pids, DaemonEnds(p, "running") \/ DaemonEnds(p, "stopping") PROVE Knows(q)'
  BY <1>29, <1>0, <1>k DEF DaemonEnds, proc, files
<1>30. CASE UNCHANGED vars
  BY <1>30, <1>0, <1>k DEF vars, proc, files
<1> QED
  BY NextCases, <1>1, <1>2, <1>3, <1>4, <1>5, <1>6, <1>7, <1>8, <1>9, <1>10, <1>11,
     <1>12, <1>13, <1>14, <1>15, <1>16, <1>17, <1>18, <1>19, <1>20, <1>21, <1>22,
     <1>23, <1>24, <1>25, <1>26, <1>27, <1>28, <1>29, <1>30

(* A start writes its pidfile when there is none, and it removes the one   *)
(* that it has read.                                                       *)
LEMMA ReplaceMoves ==
  ASSUME TypeOK, Shape, NEW q \in Pids, Replaces(q), [Next]_vars
  PROVE  /\ at'[q] = "write" => at[q] = "write" \/ pidfile' = NoPid
         /\ ctx'[q] = "start" /\ at'[q] \in Ending \cup Removing =>
              \/ ctx[q] = "start" /\ at[q] \in Ending \cup Removing /\ victim'[q][2] = victim[q][2]
              \/ pidfile' = victim'[q][2]
<1> DEFINE Goal ==
      /\ at'[q] = "write" => at[q] = "write" \/ pidfile' = NoPid
      /\ ctx'[q] = "start" /\ at'[q] \in Ending \cup Removing =>
           \/ ctx[q] = "start" /\ at[q] \in Ending \cup Removing /\ victim'[q][2] = victim[q][2]
           \/ pidfile' = victim'[q][2]
<1> USE DEF TypeOK, Ending, Removing
<1>1. ASSUME NEW p \in Pids, Launch(p) PROVE Goal
  BY <1>1 DEF Launch, Go, files
<1>2. ASSUME NEW p \in Pids, Begin(p) PROVE Goal
  BY <1>2 DEF Begin, Enter, Go, files
<1>3. ASSUME NEW p \in Pids, CheckAllowed(p) PROVE Goal
  BY <1>3 DEF CheckAllowed, Go, Enter, Leave, Unlocked, files
<1>4. ASSUME NEW p \in Pids, Flock(p) PROVE Goal
  BY <1>4 DEF Flock, Go, Enter, Leave, Unlocked, files
<1>5. ASSUME NEW p \in Pids, PidfileExists(p) PROVE Goal
  BY <1>5 DEF PidfileExists, Go, files
<1>6. ASSUME NEW p \in Pids, ReadPidfile(p) PROVE Goal
  BY <1>6 DEF ReadPidfile, Go, Enter, Leave, Unlocked, Raise, files, Manager
<1>7. ASSUME NEW p \in Pids, CreatePidfile(p) PROVE Goal
  BY <1>7 DEF CreatePidfile, Go, Enter, Leave, Unlocked, Raise, files
<1>8. ASSUME NEW p \in Pids, FillPidfile(p) PROVE Goal
  BY <1>8 DEF FillPidfile, Go, files
<1>9. ASSUME NEW p \in Pids, Fork(p) PROVE Goal
  BY <1>9 DEF Fork, Go, Enter, Leave, Unlocked, Raise, files
<1>10. ASSUME NEW p \in Pids, RecordDaemon(p) PROVE Goal
  BY <1>10 DEF RecordDaemon, Go, files
<1>11. ASSUME NEW p \in Pids, Unlock(p) PROVE Goal
  BY <1>11 DEF Unlock, Enter, Go, Unlocked, files
<1>12. ASSUME NEW p \in Pids, SendTerm(p) PROVE Goal
  BY <1>12 DEF SendTerm, Go, Enter, Leave, Unlocked, Raise, AfterTerminate, files
<1>13. ASSUME NEW p \in Pids, WaitTerminated(p) PROVE Goal
  BY <1>13 DEF WaitTerminated, Go, AfterTerminate, files
<1>14. ASSUME NEW p \in Pids, SendKill(p) PROVE Goal
  BY <1>14 DEF SendKill, Go, Enter, Leave, Unlocked, Raise, AfterTerminate, files
<1>15. ASSUME NEW p \in Pids, RemoveRead(p) PROVE Goal
  <2>1. /\ at[p] = "rm_read" /\ UNCHANGED <<victim, pidfile>>
        /\ \A r \in Pids : r # p => at'[r] = at[r] /\ ctx'[r] = ctx[r]
        /\ ctx'[p] = "start" => ctx[p] = "start"
    BY <1>15, RemoveReadCases, RemoveMoves
  <2>2. at'[p] = "write" => ctx[p] = "start" /\ pidfile # Expected(p)
    BY <1>15, RemoveReadCases DEF Removed, Failed, Go, Enter, Leave
  <2>3. q = p /\ at'[p] = "write" => pidfile' = NoPid
    BY <2>1, <2>2 DEF Replaces, Expected
  <2> QED  BY <2>1, <2>3
<1>16. ASSUME NEW p \in Pids, RemoveUnlink(p) PROVE Goal
  BY <1>16, RemoveUnlinkCases DEF Removed, Failed, Go, Enter, Leave, Unlocked
<1>17. ASSUME NEW p \in Pids, MonitorLoop(p) PROVE Goal
  BY <1>17 DEF MonitorLoop, Go, Enter, Leave, Unlocked, files
<1>18. ASSUME NEW p \in Pids, MonitorAct(p) PROVE Goal
  BY <1>18 DEF MonitorAct, Go, Enter, files, Shape, ShapeOf
<1>19. ASSUME NEW p \in Pids, StopDaemon(p) PROVE Goal
  BY <1>19 DEF StopDaemon, Go, files, Shape, ShapeOf
<1>20. ASSUME NEW p \in Pids, Exec(p) PROVE Goal
  <2>1. CASE NewImage(p)
    <3>1. q # p => victim'[q][2] = victim[q][2] /\ ctx'[q] = ctx[q] /\ at'[q] = at[q]
      BY <2>1 DEF NewImage, Enter, Go, Daemon, Gone
    <3>2. q = p => at'[q] = "boot" /\ ctx'[q] = "boot"
      BY <2>1 DEF NewImage, Enter, Go
    <3> QED  BY <3>1, <3>2
  <2>2. CASE Leave(p, "stopped") /\ UNCHANGED victim
    BY <2>2 DEF Leave, Enter, Go
  <2> QED  BY <1>20, <2>1, <2>2 DEF Exec
<1>21. ASSUME NEW p \in Pids, Exit(p) PROVE Goal
  BY <1>21 DEF Exit, Go, files
<1>22. ASSUME NEW p \in Pids, Reap(p) PROVE Goal
  BY <1>22 DEF Reap, Go, files
<1>23. ASSUME NEW p \in Pids, PlaceSign(p) PROVE Goal
  BY <1>23 DEF PlaceSign, Go, files
<1>24. ASSUME NEW p \in Pids, FindInstances(p) PROVE Goal
  BY <1>24 DEF FindInstances, Go, files
<1>25. ASSUME NEW p \in Pids, KillNext(p) PROVE Goal
  BY <1>25 DEF KillNext, Go, Enter, Leave, Unlocked, files, Shape, ShapeOf
<1>26. ASSUME NEW p \in Pids, TakeSignal(p) PROVE Goal
  BY <1>26 DEF TakeSignal, Go, Enter, Leave, Unlocked, files
<1>27. ASSUME NEW p \in Pids, Crash(p) PROVE Goal
  BY <1>27 DEF Crash, Go, files
<1>28. ASSUME NEW p \in Pids, Interrupt(p) PROVE Goal
  BY <1>28 DEF Interrupt, files, proc
<1>29. ASSUME NEW p \in Pids, DaemonEnds(p, "running") \/ DaemonEnds(p, "stopping") PROVE Goal
  BY <1>29 DEF DaemonEnds, proc, files
<1>30. CASE UNCHANGED vars
  BY <1>30 DEF vars, proc, files
<1> QED
  BY NextCases, <1>1, <1>2, <1>3, <1>4, <1>5, <1>6, <1>7, <1>8, <1>9, <1>10, <1>11,
     <1>12, <1>13, <1>14, <1>15, <1>16, <1>17, <1>18, <1>19, <1>20, <1>21, <1>22,
     <1>23, <1>24, <1>25, <1>26, <1>27, <1>28, <1>29, <1>30

(* Nobody else writes a pidfile meanwhile.                                 *)
LEMMA ReplacesStep ==
  ASSUME IInv, Peace, [Next]_vars, NEW q \in Pids
  PROVE  Replaces(q)'
<1>0. TypeOK /\ Shape /\ Lock /\ File /\ Replaces(q)
  BY DEF IInv, Peace
<1>1. ASSUME NEW r \in Pids, Starting(r), at[r] \in {"write", "fill"},
             at[q] = "write" \/ (ctx[q] = "start" /\ at[q] \in Ending \cup Removing)
      PROVE  at[q] = "write" /\ r = q
  <2>1. Starting(q)
    BY <1>0, <1>1 DEF Shape, ShapeOf, Starting, Running, Locked, Ending, Removing
  <2> QED  BY <1>0, <1>1, <2>1 DEF Lock, Ending, Removing
<1>2. UNCHANGED pidfile \/ pidfile' = NoPid
      \/ \E r \in Pids : Starting(r) /\ at[r] \in {"write", "fill"} /\ at'[r] \in {"fill", "fork"}
  BY <1>0, PidfileStep
<1>3. (at[q] = "write" => pidfile = NoPid)'
  BY <1>0, <1>1, <1>2, ReplaceMoves DEF Replaces
<1>4. (ctx[q] = "start" /\ at[q] \in Ending \cup Removing => pidfile \in {NoPid, victim[q][2]})'
  BY <1>0, <1>1, <1>2, ReplaceMoves DEF Replaces, Ending, Removing
<1> QED  BY <1>3, <1>4 DEF Replaces

(* While its daemon runs a manager stays in the pidfile, unless it is      *)
(* killed.                                                                 *)
LEMMA AliveStep ==
  ASSUME TypeOK, Shape, [Next]_vars, NEW q \in Pids, DaemonAlive(q)', q \notin killed'
  PROVE  q \notin killed /\ (DaemonAlive(q) \/ (at[q] = "fork" /\ UNCHANGED pidfile))
<1> DEFINE Goal == q \notin killed /\ (DaemonAlive(q) \/ (at[q] = "fork" /\ UNCHANGED pidfile))
<1> USE DEF TypeOK, DaemonAlive
<1>1. ASSUME NEW p \in Pids, Launch(p) PROVE Goal
  BY <1>1 DEF Launch, Go, files
<1>2. ASSUME NEW p \in Pids, Begin(p) PROVE Goal
  BY <1>2 DEF Begin, Enter, Go, files
<1>3. ASSUME NEW p \in Pids, CheckAllowed(p) PROVE Goal
  BY <1>3 DEF CheckAllowed, Go, Enter, Leave, Unlocked, files
<1>4. ASSUME NEW p \in Pids, Flock(p) PROVE Goal
  BY <1>4 DEF Flock, Go, Enter, Leave, Unlocked, files
<1>5. ASSUME NEW p \in Pids, PidfileExists(p) PROVE Goal
  BY <1>5 DEF PidfileExists, Go, files
<1>6. ASSUME NEW p \in Pids, ReadPidfile(p) PROVE Goal
  BY <1>6 DEF ReadPidfile, Go, Enter, Leave, Unlocked, Raise, files
<1>7. ASSUME NEW p \in Pids, CreatePidfile(p) PROVE Goal
  BY <1>7 DEF CreatePidfile, Go, Enter, Leave, Unlocked, Raise, files
<1>8. ASSUME NEW p \in Pids, FillPidfile(p) PROVE Goal
  BY <1>8 DEF FillPidfile, Go, files
<1>9. ASSUME NEW p \in Pids, Fork(p) PROVE Goal
  BY <1>9 DEF Fork, Go, Enter, Leave, Unlocked, Raise, files
<1>10. ASSUME NEW p \in Pids, RecordDaemon(p) PROVE Goal
  BY <1>10 DEF RecordDaemon, Go, files
<1>11. ASSUME NEW p \in Pids, Unlock(p) PROVE Goal
  BY <1>11 DEF Unlock, Enter, Go, Unlocked, files
<1>12. ASSUME NEW p \in Pids, SendTerm(p) PROVE Goal
  BY <1>12 DEF SendTerm, Go, Enter, Leave, Unlocked, Raise, AfterTerminate, files, Alive
<1>13. ASSUME NEW p \in Pids, WaitTerminated(p) PROVE Goal
  BY <1>13 DEF WaitTerminated, Go, AfterTerminate, files
<1>14. ASSUME NEW p \in Pids, SendKill(p) PROVE Goal
  BY <1>14 DEF SendKill, Go, Enter, Leave, Unlocked, Raise, AfterTerminate, files
<1>15. ASSUME NEW p \in Pids, RemoveRead(p) PROVE Goal
  BY <1>15, RemoveReadCases DEF Removed, Failed, Go, Enter, Leave, Unlocked
<1>16. ASSUME NEW p \in Pids, RemoveUnlink(p) PROVE Goal
  BY <1>16, RemoveUnlinkCases DEF Removed, Failed, Go, Enter, Leave, Unlocked
<1>17. ASSUME NEW p \in Pids, MonitorLoop(p) PROVE Goal
  BY <1>17 DEF MonitorLoop, Go, Enter, Leave, Unlocked, files
<1>18. ASSUME NEW p \in Pids, MonitorAct(p) PROVE Goal
  BY <1>18 DEF MonitorAct, Go, Enter, files
<1>19. ASSUME NEW p \in Pids, StopDaemon(p) PROVE Goal
  BY <1>19 DEF StopDaemon, Go, files
<1>20. ASSUME NEW p \in Pids, Exec(p) PROVE Goal
  BY <1>20 DEF Exec, NewImage, Enter, Go, Leave, Unlocked, files
<1>21. ASSUME NEW p \in Pids, Exit(p) PROVE Goal
  BY <1>21 DEF Exit, Go, files
<1>22. ASSUME NEW p \in Pids, Reap(p) PROVE Goal
  BY <1>22 DEF Reap, Go, files
<1>23. ASSUME NEW p \in Pids, PlaceSign(p) PROVE Goal
  BY <1>23 DEF PlaceSign, Go, files
<1>24. ASSUME NEW p \in Pids, FindInstances(p) PROVE Goal
  BY <1>24 DEF FindInstances, Go, files
<1>25. ASSUME NEW p \in Pids, KillNext(p) PROVE Goal
  BY <1>25 DEF KillNext, Go, Enter, Leave, Unlocked, files
<1>26. ASSUME NEW p \in Pids, TakeSignal(p) PROVE Goal
  BY <1>26 DEF TakeSignal, Go, Enter, Leave, Unlocked, files
<1>27. ASSUME NEW p \in Pids, Crash(p) PROVE Goal
  BY <1>27 DEF Crash, Go, files
<1>28. ASSUME NEW p \in Pids, Interrupt(p) PROVE Goal
  BY <1>28 DEF Interrupt, files, proc
<1>29. ASSUME NEW p \in Pids, DaemonEnds(p, "running") \/ DaemonEnds(p, "stopping") PROVE Goal
  BY <1>29 DEF DaemonEnds, proc, files
<1>30. CASE UNCHANGED vars
  BY <1>30 DEF vars, proc, files
<1> QED
  BY NextCases, <1>1, <1>2, <1>3, <1>4, <1>5, <1>6, <1>7, <1>8, <1>9, <1>10, <1>11,
     <1>12, <1>13, <1>14, <1>15, <1>16, <1>17, <1>18, <1>19, <1>20, <1>21, <1>22,
     <1>23, <1>24, <1>25, <1>26, <1>27, <1>28, <1>29, <1>30

(* Nobody removes it: not the manager, nor one that replaces it.           *)
LEMMA RecordedStep ==
  ASSUME IInv, NoOrphan, Peace, [Next]_vars, NEW q \in Pids
  PROVE  Recorded(q)'
<1> SUFFICES ASSUME DaemonAlive(q)', q \notin killed' PROVE pidfile' = q
  BY DEF Recorded
<1>0. TypeOK /\ Shape /\ Lock /\ File /\ FileOf(q)
  BY DEF IInv, File
<1>1. CASE at[q] = "fork" /\ UNCHANGED pidfile
  BY <1>0, <1>1 DEF FileOf
<1>2. CASE DaemonAlive(q) /\ q \notin killed
  <2>1. pidfile = q /\ at[q] # "dead" /\ pidfile # NoPid /\ pidfile # Empty
    BY <1>2, PidsAssumption DEF Peace, Recorded, NoOrphan
  <2>2. ASSUME NEW p \in Pids, at[p] = "rm_unlink", pidfile = Expected(p) PROVE FALSE
    <3>1. ctx[p] # "start"
      BY <1>0, <2>1, <2>2 DEF File, FileOf, Removing, Expected
    <3>2. p = q
      BY <2>1, <2>2, <3>1 DEF Expected
    <3>3. ~DaemonAlive(p)
      BY <1>0, <2>2, <3>1 DEF Peace, Knows, Removing, Shape, ShapeOf
    <3> QED  BY <1>2, <3>2, <3>3
  <2> QED  BY <1>0, <2>1, <2>2, PidfileStep
<1> QED  BY <1>0, <1>1, <1>2, AliveStep

(* All this holds until a cleanup places the sign.                         *)
LEMMA PeaceStep ==
  ASSUME Undisturbed, IInv, NoOrphan, ~sign => Peace, [Next]_vars
  PROVE  (~sign => Peace)'
<1> SUFFICES ASSUME ~sign' PROVE Peace'
  OBVIOUS
<1>0. TypeOK /\ Shape /\ Lock /\ File
  BY DEF IInv
<1>1. ASSUME NEW q \in Pids PROVE ~sign /\ (Waiting(q) => Waiting(q)')
  BY <1>0, WaitingStep
<1>2. Peace
  <2>1. CASE Pids = {}
    BY <2>1, NextCases DEF vars, files
  <2>2. CASE Pids # {}
    BY <1>1, <2>2
  <2> QED  BY <2>1, <2>2
<1>3. ASSUME NEW q \in Pids
      PROVE  (Told(q) /\ Knows(q) /\ Replaces(q) /\ Waiting(q) /\ Recorded(q))'
  <2>1. Peace /\ Waiting(q)
    BY <1>2 DEF Peace
  <2> QED  BY <1>1, <2>1, ToldStep, KnowsStep, ReplacesStep, RecordedStep
<1>4. ASSUME pidfile' = Empty PROVE \E p \in Pids : at'[p] = "fill"
  <2>1. CASE UNCHANGED pidfile
    <3>1. PICK p \in Pids : at[p] = "fill"
      BY <1>2, <1>4, <2>1 DEF Peace
    <3>2. Starting(p)
      BY <1>0, <3>1 DEF Shape, ShapeOf, Starting, Running, Locked
    <3> QED  BY <1>2, <1>4, <3>1, <3>2, UnhurtStep
  <2>2. CASE ~UNCHANGED pidfile
    BY <1>0, <1>4, <2>2, PidfileStep, PidsAssumption
  <2> QED  BY <2>1, <2>2
<1> QED  BY <1>3, <1>4 DEF Peace

(* Before any process has started.                                         *)
LEMMA InitPeace == Init => Peace
<1> SUFFICES ASSUME Init PROVE Peace
  OBVIOUS
<1>1. ASSUME NEW p \in Pids PROVE Told(p) /\ Knows(p) /\ Replaces(p) /\ Waiting(p) /\ Recorded(p)
  BY <1>1 DEF Init, Told, Knows, Replaces, Waiting, Recorded, DaemonAlive, Running, Ending, Removing
<1> QED  BY <1>1, PidsAssumption DEF Init, Peace

(* Between managers that nobody disturbs, every one whose daemon runs is   *)
(* in the pidfile, and who is told to stop is waited for, until a cleanup. *)
THEOREM PeaceLasts ==
  ASSUME Undisturbed
  PROVE  Spec => [](~sign => Peace)
<1>1. IInv /\ NoOrphan /\ (~sign => Peace) /\ [Next]_vars => (~sign => Peace)'
  BY PeaceStep
<1> QED  BY InitPeace, <1>1, Inductive, NoDaemonIsOrphaned, PTL DEF Spec

(* However many managers start, replace each other and reboot, and even    *)
(* when the pidfile cannot be written or removed or a fork fails, no two   *)
(* daemons run at the same time, but those of managers that had to be      *)
(* killed.                                                                 *)
THEOREM OneDaemonAtATime ==
  ASSUME Undisturbed
  PROVE  Spec => []OneDaemon
<1>1. (~sign => Peace) => OneDaemon
  BY DEF Peace, Recorded, OneDaemon
<1> QED  BY PeaceLasts, <1>1, PTL

(* Only a failing write, removal or fork makes a start fail.               *)
LEMMA OutcomeStep ==
  ASSUME Undisturbed, Failures \cap {"write", "remove", "fork"} = {}, IInv, Peace, [Next]_vars,
         NEW q \in Pids, outcome[q] # "error"
  PROVE  outcome'[q] # "error"
<1>0. TypeOK /\ Shape
  BY DEF IInv
<1>1. ASSUME NEW p \in Pids, at[p] \in {"read", "rm_read"}, pidfile = Empty, ctx[p] = "start" PROVE FALSE
  <2>1. PICK r \in Pids : at[r] = "fill"
    BY <1>1 DEF Peace
  <2>2. Starting(r) /\ Starting(p)
    BY <1>0, <1>1, <2>1 DEF Starting, Running, Shape, ShapeOf, Locked
  <2> QED  BY <1>1, <2>1, <2>2 DEF IInv, Lock
<1> USE DEF TypeOK
<1>2. ASSUME NEW p \in Pids, Launch(p) PROVE outcome'[q] # "error"
  BY <1>2, <1>0 DEF Launch, Go, files
<1>3. ASSUME NEW p \in Pids, Begin(p) PROVE outcome'[q] # "error"
  BY <1>3, <1>0 DEF Begin, Enter, Go, files
<1>4. ASSUME NEW p \in Pids, CheckAllowed(p) PROVE outcome'[q] # "error"
  BY <1>4, <1>0 DEF CheckAllowed, Go, Enter, Leave, Unlocked, files
<1>5. ASSUME NEW p \in Pids, Flock(p) PROVE outcome'[q] # "error"
  BY <1>5, <1>0 DEF Flock, Go, Enter, Leave, Unlocked, files
<1>6. ASSUME NEW p \in Pids, PidfileExists(p) PROVE outcome'[q] # "error"
  BY <1>6, <1>0 DEF PidfileExists, Go, files
<1>7. ASSUME NEW p \in Pids, ReadPidfile(p) PROVE outcome'[q] # "error"
  <2>1. ctx[p] = "start" /\ at[p] = "read"
    BY <1>0, <1>7 DEF ReadPidfile, Shape, ShapeOf, Locked
  <2>2. pidfile # Empty
    BY <1>1, <2>1
  <2> QED  BY <1>7, <2>2 DEF ReadPidfile
<1>8. ASSUME NEW p \in Pids, CreatePidfile(p) PROVE outcome'[q] # "error"
  <2>1. pidfile = NoPid
    BY <1>8 DEF CreatePidfile, Peace, Replaces
  <2> QED  BY <1>8, <2>1 DEF CreatePidfile
<1>9. ASSUME NEW p \in Pids, FillPidfile(p) PROVE outcome'[q] # "error"
  BY <1>9, <1>0 DEF FillPidfile, Go, files
<1>10. ASSUME NEW p \in Pids, Fork(p) PROVE outcome'[q] # "error"
  BY <1>10 DEF Fork
<1>11. ASSUME NEW p \in Pids, RecordDaemon(p) PROVE outcome'[q] # "error"
  BY <1>11, <1>0 DEF RecordDaemon, Go, files
<1>12. ASSUME NEW p \in Pids, Unlock(p) PROVE outcome'[q] # "error"
  BY <1>12, <1>0 DEF Unlock, Enter, Go, Unlocked, files
<1>13. ASSUME NEW p \in Pids, SendTerm(p) PROVE outcome'[q] # "error"
  BY <1>13 DEF SendTerm, Undisturbed
<1>14. ASSUME NEW p \in Pids, WaitTerminated(p) PROVE outcome'[q] # "error"
  BY <1>14, <1>0 DEF WaitTerminated, Go, AfterTerminate, files
<1>15. ASSUME NEW p \in Pids, SendKill(p) PROVE outcome'[q] # "error"
  BY <1>15 DEF SendKill, Undisturbed
<1>16. ASSUME NEW p \in Pids, RemoveRead(p) PROVE outcome'[q] # "error"
  <2>1. CASE ctx[p] = "start"
    BY <1>0, <1>1, <1>16, <2>1, RemoveReadCases
  <2>2. CASE ctx[p] # "start"
    BY <1>0, <1>16, <2>2, RemoveReadCases DEF Failed, Leave, Shape, ShapeOf, Removing
  <2> QED  BY <2>1, <2>2
<1>17. ASSUME NEW p \in Pids, RemoveUnlink(p) PROVE outcome'[q] # "error"
  BY <1>0, <1>17, RemoveUnlinkCases
<1>18. ASSUME NEW p \in Pids, MonitorLoop(p) PROVE outcome'[q] # "error"
  BY <1>18, <1>0 DEF MonitorLoop, Go, Enter, Leave, Unlocked, files
<1>19. ASSUME NEW p \in Pids, MonitorAct(p) PROVE outcome'[q] # "error"
  BY <1>19, <1>0 DEF MonitorAct, Go, Enter, files
<1>20. ASSUME NEW p \in Pids, StopDaemon(p) PROVE outcome'[q] # "error"
  BY <1>20, <1>0 DEF StopDaemon, Go, files
<1>21. ASSUME NEW p \in Pids, Exec(p) PROVE outcome'[q] # "error"
  BY <1>21, <1>0 DEF Exec, NewImage, Enter, Go, Leave, Unlocked, files
<1>22. ASSUME NEW p \in Pids, Exit(p) PROVE outcome'[q] # "error"
  BY <1>22, <1>0 DEF Exit, Go, files
<1>23. ASSUME NEW p \in Pids, Reap(p) PROVE outcome'[q] # "error"
  BY <1>23, <1>0 DEF Reap, Go, files
<1>24. ASSUME NEW p \in Pids, PlaceSign(p) PROVE outcome'[q] # "error"
  BY <1>24, <1>0 DEF PlaceSign, Go, files
<1>25. ASSUME NEW p \in Pids, FindInstances(p) PROVE outcome'[q] # "error"
  BY <1>25, <1>0 DEF FindInstances, Go, files
<1>26. ASSUME NEW p \in Pids, KillNext(p) PROVE outcome'[q] # "error"
  BY <1>26, <1>0 DEF KillNext, Go, Enter, Leave, Unlocked, files
<1>27. ASSUME NEW p \in Pids, TakeSignal(p) PROVE outcome'[q] # "error"
  BY <1>27, <1>0 DEF TakeSignal, Go, Enter, Leave, Unlocked, files
<1>28. ASSUME NEW p \in Pids, Crash(p) PROVE outcome'[q] # "error"
  BY <1>28, <1>0 DEF Crash, Go, files
<1>29. ASSUME NEW p \in Pids, Interrupt(p) PROVE outcome'[q] # "error"
  BY <1>29, <1>0 DEF Interrupt, files, proc
<1>30. ASSUME NEW p \in Pids, DaemonEnds(p, "running") \/ DaemonEnds(p, "stopping") PROVE outcome'[q] # "error"
  BY <1>30, <1>0 DEF DaemonEnds, proc, files
<1>31. CASE UNCHANGED vars
  BY <1>31, <1>0 DEF vars, proc, files
<1> QED
  BY NextCases, <1>2, <1>3, <1>4, <1>5, <1>6, <1>7, <1>8, <1>9, <1>10, <1>11, <1>12,
     <1>13, <1>14, <1>15, <1>16, <1>17, <1>18, <1>19, <1>20, <1>21, <1>22, <1>23,
     <1>24, <1>25, <1>26, <1>27, <1>28, <1>29, <1>30, <1>31

(* However many managers start, replace each other and reboot, no start    *)
(* fails because of what an instance has left behind.                      *)
THEOREM StartsSucceed ==
  ASSUME Undisturbed, Failures \cap {"write", "remove", "fork"} = {}
  PROVE  Spec => []NoStartFails
<1>1. Init => NoStartFails
  BY DEF Init, NoStartFails
<1>2. ASSUME IInv, ~sign => Peace, NoStartFails, [Next]_vars PROVE NoStartFails'
  <2> SUFFICES ASSUME ~sign', NEW q \in Pids PROVE outcome'[q] # "error"
    BY DEF NoStartFails
  <2>1. ~sign
    BY <1>2, WaitingStep DEF IInv
  <2> QED  BY <1>2, <2>1, OutcomeStep DEF NoStartFails
<1>3. IInv /\ (~sign => Peace) /\ NoStartFails /\ [Next]_vars => NoStartFails'
  BY <1>2
<1> QED  BY <1>1, <1>3, Inductive, PeaceLasts, PTL DEF Spec
=============================================================================
