--------------------------- MODULE DaemonManager ---------------------------
(* The edit monitor's daemon managers (daemon_manager.py, main.py): the    *)
(* processes that were started from one binary, the daemon each one forks, *)
(* and what they share, which is the setup lock, the pidfile, the block    *)
(* sign and the signals they send each other.                              *)
EXTENDS Naturals, FiniteSets

CONSTANTS
  Starters,      \* pids of the processes that may run without --force_cleanup
  Cleaners,      \* pids of the processes that may run with --force_cleanup
  CrashProne,    \* managers that the system may kill (SIGKILL) at any time
  Interruptible, \* managers that a user may send SIGTERM
  Failures,      \* the calls that may raise: "kill", "write", "remove",
                 \* "fork", "touch", "ps"
  NoPid          \* no value

Pids == Starters \cup Cleaners
Empty == "empty"

ASSUME PidsAssumption == NoPid # Empty /\ Pids \cap {NoPid, Empty} = {}

VARIABLES
  at,       \* the statement a manager is about to run
  ctx,      \* the method of DaemonManager that main() is in
  victim,   \* the process that _terminate_process is called for
  todo,     \* the instances that cleanup has yet to kill
  known,    \* the managers that have set self.daemon_process
  outcome,  \* how start() or cleanup() ended
  signal,   \* managers with a pending SIGTERM
  daemon,   \* the state of the daemon that a manager forked
  pidfile,  \* NoPid: does not exist; Empty: created, nothing written yet
  lockers,  \* processes that share the locked open file; {}: not locked
  sign,     \* the block sign exists
  killed    \* managers that ended without running their cleanup

proc == <<at, ctx, victim, todo, known, outcome>>
files == <<pidfile, sign>>
vars == <<proc, signal, daemon, files, lockers, killed>>

Manager(p) == <<"manager", p>>
Daemon(p) == <<"daemon", p>>
Gone(p) == <<"gone", p>>     \* the daemon of an earlier image of process p
Procs == {"manager", "daemon"} \X Pids

Running(p) == at[p] \notin {"none", "dead"}
DaemonAlive(p) == daemon[p] \in {"running", "stopping"}
Alive(x) ==
  \/ x[1] = "manager" /\ Running(x[2])
  \/ x[1] = "daemon" /\ DaemonAlive(x[2])

Init ==
  /\ at = [p \in Pids |-> "none"]
  /\ ctx = [p \in Pids |-> "boot"]
  /\ victim = [p \in Pids |-> Manager(p)]
  /\ todo = [p \in Pids |-> {}]
  /\ known = {}
  /\ outcome = [p \in Pids |-> "none"]
  /\ signal = {}
  /\ daemon = [p \in Pids |-> "none"]
  /\ pidfile = NoPid
  /\ lockers = {}
  /\ sign = FALSE
  /\ killed = {}

-----------------------------------------------------------------------------
(* Moves of one manager.                                                   *)
Go(p, label) == at' = [at EXCEPT ![p] = label]
Enter(p, method, label) == ctx' = [ctx EXCEPT ![p] = method] /\ Go(p, label)

(* flock(f, LOCK_UN) by p: the lock belongs to the open file, which a      *)
(* forked daemon shares.                                                   *)
Unlocked(p) == IF Manager(p) \in lockers THEN {} ELSE lockers

(* The finally clause of main(), reached by return or by an exception.     *)
Leave(p, why) ==
  /\ Enter(p, "stop", "stop_wait")
  /\ lockers' = Unlocked(p)
  /\ outcome' = [outcome EXCEPT ![p] = IF ctx[p] \in {"start", "cleanup"} THEN why ELSE @]

(* An exception other than SystemExit.  In cleanup() it is caught for each *)
(* pid; in stop() it ends the process, in reboot() it leads to main().     *)
Raise(p) ==
  CASE ctx[p] = "cleanup" -> Go(p, "next") /\ UNCHANGED <<ctx, lockers, outcome>>
    [] ctx[p] = "stop" -> Enter(p, "exit", "exit") /\ UNCHANGED <<lockers, outcome>>
    [] OTHER -> Leave(p, "error")

-----------------------------------------------------------------------------
(* main(), up to the handler for SIGTERM and the manager's construction.   *)
Launch(p) ==
  /\ at[p] = "none"
  /\ \/ p \in Starters /\ Go(p, "boot")
     \/ p \in Cleaners /\ Go(p, "boot_cleanup")
  /\ UNCHANGED <<ctx, victim, todo, known, outcome, signal, daemon, files, lockers, killed>>

Begin(p) ==
  /\ \/ at[p] = "boot" /\ Enter(p, "start", "check")
     \/ at[p] = "boot_cleanup" /\ Enter(p, "cleanup", "touch")
  /\ UNCHANGED <<victim, todo, known, outcome, signal, daemon, files, lockers, killed>>

(* start()                                                                 *)
(* Mutant: the block sign is not looked at.                                *)
CheckAllowedIgnoringSign(p) ==
  /\ at[p] = "check"
  /\ Go(p, "flock")
  /\ UNCHANGED <<ctx, victim, todo, known, outcome, signal, daemon, files, lockers, killed>>

CheckAllowed(p) ==
  /\ at[p] = "check"
  /\ \/ Leave(p, "declined")                \* disabled, a cog path, or the sign
     \/ /\ ~sign
        /\ Go(p, "flock")
        /\ UNCHANGED <<ctx, outcome, lockers>>
  /\ UNCHANGED <<victim, todo, known, signal, daemon, files, killed>>

Flock(p) ==
  /\ at[p] = "flock"
  /\ IF lockers # {}
       THEN Leave(p, "busy")
       ELSE /\ lockers' = {Manager(p)}
            /\ Go(p, "exists")
            /\ UNCHANGED <<ctx, outcome>>
  /\ UNCHANGED <<victim, todo, known, signal, daemon, files, killed>>

PidfileExists(p) ==
  /\ at[p] = "exists"
  /\ Go(p, IF pidfile = NoPid THEN "write" ELSE "read")
  /\ UNCHANGED <<ctx, victim, todo, known, outcome, signal, daemon, files, lockers, killed>>

ReadPidfile(p) ==
  /\ at[p] = "read"
  /\ CASE pidfile = NoPid -> Go(p, "write") /\ UNCHANGED <<ctx, victim, outcome, lockers>>
       [] pidfile = Empty -> Raise(p) /\ UNCHANGED victim
       [] OTHER -> /\ victim' = [victim EXCEPT ![p] = Manager(pidfile)]
                   /\ Go(p, "term")
                   /\ UNCHANGED <<ctx, outcome, lockers>>
  /\ UNCHANGED <<todo, known, signal, daemon, files, killed>>

CreatePidfile(p) ==
  /\ at[p] = "write"
  /\ \/ /\ pidfile = NoPid
        /\ pidfile' = Empty
        /\ Go(p, "fill")
        /\ UNCHANGED <<ctx, outcome, lockers>>
     \/ /\ pidfile # NoPid \/ "write" \in Failures
        /\ Raise(p)
        /\ UNCHANGED pidfile
  /\ UNCHANGED <<victim, todo, known, signal, daemon, sign, killed>>

(* The pid goes to the file that this process created, whether or not the  *)
(* name still leads there.                                                 *)
FillPidfile(p) ==
  /\ at[p] = "fill"
  /\ pidfile' = IF pidfile = Empty THEN p ELSE pidfile
  /\ Go(p, "fork")
  /\ UNCHANGED <<ctx, victim, todo, known, outcome, signal, daemon, sign, lockers, killed>>

(* The daemon shares the open lock file.  A fork that fails with EAGAIN is *)
(* taken for a busy lock.                                                  *)
Fork(p) ==
  /\ at[p] = "fork"
  /\ \/ /\ daemon' = [daemon EXCEPT ![p] = "running"]
        /\ lockers' = lockers \cup {Daemon(p)}
        /\ Go(p, "record")
        /\ UNCHANGED <<ctx, outcome>>
     \/ /\ "fork" \in Failures
        /\ Leave(p, "busy") \/ Raise(p)
        /\ UNCHANGED daemon
  /\ UNCHANGED <<victim, todo, known, signal, files, killed>>

RecordDaemon(p) ==
  /\ at[p] = "record"
  /\ known' = known \cup {p}
  /\ Go(p, "unlock")
  /\ UNCHANGED <<ctx, victim, todo, outcome, signal, daemon, files, lockers, killed>>

Unlock(p) ==
  /\ at[p] = "unlock"
  /\ lockers' = Unlocked(p)
  /\ outcome' = [outcome EXCEPT ![p] = "started"]
  /\ Enter(p, "monitor", "monitor")
  /\ UNCHANGED <<victim, todo, known, signal, daemon, files, killed>>

-----------------------------------------------------------------------------
(* _terminate_process(), called from start, monitor_daemon, stop, cleanup. *)
(* Mutant: the pidfile of an instance that was ended is left to it.        *)
AfterTerminateKeep(p) ==
  CASE ctx[p] = "monitor" -> "monitor"
    [] ctx[p] = "cleanup" -> "next"
    [] ctx[p] = "start" -> "write"
    [] OTHER -> "rm_read"

AfterTerminate(p) ==
  CASE ctx[p] = "monitor" -> "monitor"
    [] ctx[p] = "cleanup" -> "next"
    [] OTHER -> "rm_read"

SendTerm(p) ==
  LET x == victim[p]
  IN /\ at[p] = "term"
     /\ \/ /\ Alive(x)
           /\ signal' = IF x[1] = "manager" THEN signal \cup {x[2]} ELSE signal
           /\ daemon' = IF x[1] = "daemon" THEN [daemon EXCEPT ![x[2]] = "stopping"] ELSE daemon
           /\ Go(p, "wait")
           /\ UNCHANGED <<ctx, outcome, lockers>>
        \/ /\ ~Alive(x)
           /\ Go(p, AfterTerminate(p))
           /\ UNCHANGED <<ctx, outcome, lockers, signal, daemon>>
        \/ /\ "kill" \in Failures
           /\ Raise(p)
           /\ UNCHANGED <<signal, daemon>>
     /\ UNCHANGED <<victim, todo, known, files, killed>>

(* Mutant: SIGTERM is taken to be enough.                                  *)
WaitTerminatedNot(p) ==
  /\ at[p] = "wait"
  /\ Go(p, AfterTerminate(p))
  /\ UNCHANGED <<ctx, victim, todo, known, outcome, signal, daemon, files, lockers, killed>>

(* Mutant: there is no timeout.                                            *)
WaitTerminatedForever(p) ==
  /\ at[p] = "wait"
  /\ ~Alive(victim[p]) /\ Go(p, AfterTerminate(p))
  /\ UNCHANGED <<ctx, victim, todo, known, outcome, signal, daemon, files, lockers, killed>>

(* The process is gone, or the timeout has passed.                         *)
WaitTerminated(p) ==
  /\ at[p] = "wait"
  /\ \/ ~Alive(victim[p]) /\ Go(p, AfterTerminate(p))
     \/ Alive(victim[p]) /\ Go(p, "kill")
  /\ UNCHANGED <<ctx, victim, todo, known, outcome, signal, daemon, files, lockers, killed>>

SendKill(p) ==
  LET x == victim[p]
      dead == Alive(x) /\ x[1] = "manager"
  IN /\ at[p] = "kill"
     /\ \/ /\ at' = [at EXCEPT ![p] = AfterTerminate(p), ![x[2]] = IF dead THEN "dead" ELSE @]
           /\ killed' = IF dead THEN killed \cup {x[2]} ELSE killed
           /\ daemon' = IF x[1] = "daemon" THEN [daemon EXCEPT ![x[2]] = "dead"] ELSE daemon
           /\ lockers' = lockers \ {x}
           /\ UNCHANGED <<ctx, outcome>>
        \/ /\ "kill" \in Failures
           /\ Raise(p)
           /\ UNCHANGED <<killed, daemon>>
     /\ UNCHANGED <<victim, todo, known, signal, files>>

-----------------------------------------------------------------------------
(* _remove_pidfile(), called from start for the pid of the old instance    *)
(* and from stop for the own pid.                                          *)
Expected(p) == IF ctx[p] = "start" THEN victim[p][2] ELSE p

AfterRemove(p) ==
  CASE ctx[p] = "start" -> Go(p, "write") /\ UNCHANGED ctx
    [] ctx[p] = "reboot" -> Go(p, "exec") /\ UNCHANGED ctx
    [] ctx[p] = "stop" -> Enter(p, "exit", "exit")

(* Mutant: the pid in the file is not compared.                            *)
RemoveReadAny(p) ==
  /\ at[p] = "rm_read"
  /\ CASE pidfile \in Pids -> Go(p, "rm_unlink") /\ UNCHANGED <<ctx, outcome, lockers>>
       [] pidfile = Empty -> Raise(p)
       [] OTHER -> AfterRemove(p) /\ UNCHANGED <<outcome, lockers>>
  /\ UNCHANGED <<victim, todo, known, signal, daemon, files, killed>>

RemoveRead(p) ==
  /\ at[p] = "rm_read"
  /\ CASE pidfile = Expected(p) -> Go(p, "rm_unlink") /\ UNCHANGED <<ctx, outcome, lockers>>
       [] pidfile = Empty -> Raise(p)
       [] OTHER -> AfterRemove(p) /\ UNCHANGED <<outcome, lockers>>
  /\ UNCHANGED <<victim, todo, known, signal, daemon, files, killed>>

RemoveUnlink(p) ==
  /\ at[p] = "rm_unlink"
  /\ \/ /\ pidfile' = NoPid
        /\ AfterRemove(p)
        /\ UNCHANGED <<outcome, lockers>>
     \/ /\ "remove" \in Failures
        /\ Raise(p)
        /\ UNCHANGED pidfile
  /\ UNCHANGED <<victim, todo, known, signal, daemon, sign, killed>>

-----------------------------------------------------------------------------
(* monitor_daemon(): the daemon's state is read at the top of the loop and *)
(* acted upon seconds later.                                               *)
MonitorLoop(p) ==
  /\ at[p] = "monitor"
  /\ IF DaemonAlive(p)
       THEN Go(p, "sample") /\ UNCHANGED <<ctx, outcome, lockers>>
       ELSE Leave(p, "stopped")
  /\ UNCHANGED <<victim, todo, known, signal, daemon, files, killed>>

MonitorAct(p) ==
  /\ at[p] = "sample"
  /\ \/ Go(p, "monitor") /\ UNCHANGED <<ctx, victim>>
     \/ Enter(p, "reboot", "stop_wait") /\ UNCHANGED victim       \* time or memory
     \/ /\ victim' = [victim EXCEPT ![p] = Daemon(p)]             \* cpu
        /\ Go(p, "term")
        /\ UNCHANGED ctx
  /\ UNCHANGED <<todo, known, outcome, signal, daemon, files, lockers, killed>>

(* stop()                                                                  *)
StopDaemon(p) ==
  /\ at[p] = "stop_wait"
  /\ IF p \in known /\ DaemonAlive(p)
       THEN Go(p, "term") /\ victim' = [victim EXCEPT ![p] = Daemon(p)]
       ELSE Go(p, "rm_read") /\ UNCHANGED victim
  /\ UNCHANGED <<ctx, todo, known, outcome, signal, daemon, files, lockers, killed>>

(* reboot(), after its stop(): the process keeps its pid; a SIGTERM that   *)
(* arrived but was not handled yet may be lost.                            *)
NewImage(p) ==
  /\ Enter(p, "boot", "boot")
  /\ known' = known \ {p}
  /\ daemon' = [daemon EXCEPT ![p] = "none"]
  /\ outcome' = [outcome EXCEPT ![p] = "none"]
  /\ victim' = [q \in Pids |-> IF victim[q] = Daemon(p) THEN Gone(p) ELSE victim[q]]
  /\ todo' = [q \in Pids |-> todo[q] \ {Daemon(p)}]
  /\ signal' \in {signal, signal \ {p}}
  /\ UNCHANGED lockers

Exec(p) ==
  /\ at[p] = "exec"
  /\ \/ NewImage(p)
     \/ Leave(p, "stopped") /\ UNCHANGED <<victim, todo, known, daemon, signal>> \* no binary, or OSError
  /\ UNCHANGED <<files, killed>>

(* The interpreter's exit: multiprocessing terminates a daemonic child     *)
(* that is still running and waits for it.                                 *)
Exit(p) ==
  /\ at[p] = "exit"
  /\ IF DaemonAlive(p)
       THEN /\ daemon' = [daemon EXCEPT ![p] = "stopping"]
            /\ Go(p, "reap")
       ELSE Go(p, "dead") /\ UNCHANGED daemon
  /\ UNCHANGED <<ctx, victim, todo, known, outcome, signal, files, lockers, killed>>

Reap(p) ==
  /\ at[p] = "reap" /\ ~DaemonAlive(p)
  /\ Go(p, "dead")
  /\ UNCHANGED <<ctx, victim, todo, known, outcome, signal, daemon, files, lockers, killed>>

(* cleanup()                                                               *)
PlaceSign(p) ==
  /\ at[p] = "touch"
  /\ sign' = TRUE \/ ("touch" \in Failures /\ UNCHANGED sign)
  /\ Go(p, "list")
  /\ UNCHANGED <<ctx, victim, todo, known, outcome, signal, daemon, pidfile, lockers, killed>>

FindInstances(p) ==
  /\ at[p] = "list"
  /\ \/ todo' = [todo EXCEPT ![p] = {x \in Procs : Alive(x)} \ {Manager(p)}]
     \/ "ps" \in Failures /\ UNCHANGED todo
  /\ Go(p, "next")
  /\ UNCHANGED <<ctx, victim, known, outcome, signal, daemon, files, lockers, killed>>

KillNext(p) ==
  /\ at[p] = "next"
  /\ IF todo[p] = {}
       THEN Leave(p, "cleaned") /\ UNCHANGED <<victim, todo>>
       ELSE \E x \in todo[p] :
              /\ victim' = [victim EXCEPT ![p] = x]
              /\ todo' = [todo EXCEPT ![p] = @ \ {x}]
              /\ Go(p, "term")
              /\ UNCHANGED <<ctx, outcome, lockers>>
  /\ UNCHANGED <<known, signal, daemon, files, killed>>

-----------------------------------------------------------------------------
(* Mutant: the handler ends the process at once.                           *)
TakeSignalAtOnce(p) ==
  /\ p \in signal /\ Running(p)
  /\ signal' = signal \ {p}
  /\ Go(p, "dead")
  /\ lockers' = lockers \ {Manager(p)}
  /\ UNCHANGED <<ctx, victim, todo, known, outcome, daemon, files, killed>>

(* term_signal_handler: SystemExit, from wherever the manager is.  Before  *)
(* the handler is set, and while the interpreter exits, SIGTERM just ends  *)
(* the process.                                                            *)
TakeSignal(p) ==
  /\ p \in signal /\ Running(p)
  /\ signal' = signal \ {p}
  /\ CASE ctx[p] \in {"boot", "exit"} ->
            /\ Go(p, "dead")
            /\ killed' = killed \cup {p}
            /\ UNCHANGED <<ctx, outcome, lockers>>
       [] ctx[p] = "stop" ->
            /\ Enter(p, "exit", "exit")
            /\ UNCHANGED <<killed, outcome, lockers>>
       [] OTHER -> Leave(p, "interrupted") /\ UNCHANGED killed
  /\ UNCHANGED <<victim, todo, known, daemon, files>>

(* The daemon ends: by itself, or by the SIGTERM it has received.          *)
DaemonEnds(p, from) ==
  /\ daemon[p] = from
  /\ daemon' = [daemon EXCEPT ![p] = "dead"]
  /\ lockers' = lockers \ {Daemon(p)}
  /\ UNCHANGED <<proc, signal, files, killed>>

(* The system kills a manager; a user sends it SIGTERM.                    *)
Crash(p) ==
  /\ p \in CrashProne /\ Running(p)
  /\ Go(p, "dead")
  /\ killed' = killed \cup {p}
  /\ lockers' = lockers \ {Manager(p)}
  /\ UNCHANGED <<ctx, victim, todo, known, outcome, signal, daemon, files>>

Interrupt(p) ==
  /\ p \in Interruptible /\ Running(p)
  /\ signal' = signal \cup {p}
  /\ UNCHANGED <<proc, daemon, files, lockers, killed>>

Start(p) ==
  \/ CheckAllowed(p) \/ Flock(p) \/ PidfileExists(p) \/ ReadPidfile(p)
  \/ CreatePidfile(p) \/ FillPidfile(p) \/ Fork(p) \/ RecordDaemon(p) \/ Unlock(p)

Terminate(p) == SendTerm(p) \/ WaitTerminated(p) \/ SendKill(p)

(* What the process does by itself once it runs.                           *)
Step(p) ==
  \/ Begin(p) \/ Start(p) \/ Terminate(p) \/ RemoveRead(p) \/ RemoveUnlink(p)
  \/ MonitorLoop(p) \/ MonitorAct(p) \/ StopDaemon(p) \/ Exec(p)
  \/ Exit(p) \/ Reap(p) \/ PlaceSign(p) \/ FindInstances(p) \/ KillNext(p)

(* Every process has ended, and nothing happens any more.                  *)
AllDead == (\A p \in Pids : at[p] = "dead" /\ ~DaemonAlive(p)) /\ UNCHANGED vars

Next ==
  \/ \E p \in Pids : \/ Launch(p) \/ Step(p) \/ TakeSignal(p)
                     \/ DaemonEnds(p, "running") \/ DaemonEnds(p, "stopping")
                     \/ Crash(p) \/ Interrupt(p)
  \/ AllDead

Spec == Init /\ [][Next]_vars

(* A manager runs and handles its signals.  Nobody has to start, crash or  *)
(* interrupt a manager, and a daemon that is told to stop may hang.        *)
FairSpec == Spec /\ \A p \in Pids : WF_vars(Step(p)) /\ WF_vars(TakeSignal(p))

-----------------------------------------------------------------------------
(* The managers that have got past flock() in start().                     *)
Starting(p) == Running(p) /\ ctx[p] = "start" /\ at[p] \notin {"check", "flock"}

(* At no time do two daemons run whose managers can still stop them: the   *)
(* manager that takes over waits until the old one, which stops its own    *)
(* daemon first, is gone.  A cleanup may cut that short with a second      *)
(* SIGTERM.                                                                *)
OneDaemon ==
  ~sign => \A p, q \in Pids \ killed : DaemonAlive(p) /\ DaemonAlive(q) => p = q

(* While a manager watches its daemon, the pidfile leads to it: nobody     *)
(* removes a pidfile that is not his own or that of a process he ended.    *)
MonitorRecorded == \A p \in Pids : Running(p) /\ ctx[p] = "monitor" => pidfile = p

(* A manager that ends in an orderly way leaves no daemon behind.          *)
NoOrphan == \A p \in Pids \ killed : at[p] = "dead" => ~DaemonAlive(p)

(* Once cleanup() has placed the block sign and finished, no manager holds *)
(* or gets a daemon, and only one that had to be killed has left one.      *)
CleanupLasts ==
  (\E q \in Pids : outcome[q] = "cleaned") /\ sign =>
      \A p \in Pids : /\ Running(p) => ctx[p] # "monitor" /\ ~Starting(p)
                      /\ DaemonAlive(p) => p \in killed

(* No start fails because of what an instance that is gone left behind.    *)
NoStartFails == ~sign => \A p \in Pids : outcome[p] # "error"

(* A start that got the setup lock does not keep it: it comes to monitor   *)
(* its daemon or ends with a reason, whatever fails and however long the   *)
(* instance that it replaces takes to stop, unless it is killed.           *)
StartEnds == \A p \in Pids : at[p] = "exists" ~> outcome[p] # "none" \/ ~Running(p)
=============================================================================
