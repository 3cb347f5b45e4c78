------------------------------ MODULE ReadGraph ------------------------------
(***************************************************************************)
(* The concurrent reader of license metadata of tools/compliance:          *)
(* ReadLicenseGraph, addDependencies and readFile of readgraph.go.         *)
(*                                                                         *)
(* Goroutine 0 is `readFiles`, goroutines 1..n are the readers that        *)
(* readFile has spawned, `closer` is the goroutine that waits for the      *)
(* WaitGroup and closes the channels, `main` is the caller.  One action is *)
(* one step between two operations on shared state: the mutex-guarded      *)
(* targets map, the task and results channels, the WaitGroup and the       *)
(* unguarded field recv.results, which `main` sets to nil while readers    *)
(* may still use it.                                                       *)
(*                                                                         *)
(* A file name is a model value.  Opening, reading and parsing a file is   *)
(* one question, whether the file is in `bad`: the three error paths of    *)
(* readFile do the same.  A dependency with an empty file name is a member *)
(* of `bad`, since opening "" fails.                                       *)
(***************************************************************************)
EXTENDS Integers, Sequences, FiniteSets

CONSTANTS Files,              \* names of license metadata files
          DepLists,           \* dependency lists a file may hold
          RootLists,          \* `files` arguments of the call
          ConcurrentReaders   \* size of the task pool (readgraph.go:33)

ASSUME FilesAssumption == /\ DepLists \subseteq Seq(Files)
                          /\ RootLists \subseteq Seq(Files)

ASSUME PoolAssumption == ConcurrentReaders \in Int

VARIABLES deps,           \* deps[f]: dependencies listed in f (file contents)
          bad,            \* the files that do not open, read or parse
          roots,          \* lg.rootFiles
          targets,        \* lg.targets: absent, nil (scheduled), or a node
          edges,          \* lg.edges, as pairs of files
          task,           \* tokens in the task channel
          taskClosed,     \* close(recv.task) was called
          results,        \* the results channel, oldest first
          resultsClosed,  \* close(recv.results) was called
          resultsNil,     \* recv.results = nil
          wg,             \* counter of recv.wg
          n,              \* readers spawned so far
          file,           \* file[g]: the file reader g reads
          pc,             \* where goroutine g is
          nxt,            \* index into the list goroutine g schedules
          closer,         \* where the closing goroutine is
          main,           \* where the caller is
          panic           \* the Go runtime has panicked

vars == <<deps, bad, roots, targets, edges, task, taskClosed, results,
          resultsClosed, resultsNil, wg, n, file, pc, nxt, closer, main, panic>>

disk  == <<deps, bad, roots>>
graph == <<targets, edges>>
chans == <<task, taskClosed, results, resultsClosed, resultsNil>>
procs == <<n, file, pc, nxt>>

Elems(s) == {s[i] : i \in 1..Len(s)}

(* What goroutine g schedules: readFiles the roots, a reader its file's    *)
(* dependencies.                                                           *)
ListOf(g) == IF g = 0 THEN roots ELSE deps[file[g]]

Current(g) == ListOf(g)[nxt[g]]

(* What a reader sends about a file it could, or could not, parse.         *)
ResultOf(f) == [file |-> f, kind |-> IF f \in bad THEN "error" ELSE "node"]

GoTo(g, label) == pc' = [pc EXCEPT ![g] = label]

-----------------------------------------------------------------------------
Init ==
  /\ deps \in [Files -> DepLists]
  /\ bad \in SUBSET Files
  /\ roots \in RootLists
  /\ targets = [f \in Files |-> "absent"]
  /\ edges = {}
  /\ task = 0 /\ taskClosed = FALSE
  /\ results = <<>> /\ resultsClosed = FALSE /\ resultsNil = FALSE
  /\ wg = 0
  /\ n = 0 /\ file = <<>>
  /\ pc = [g \in {0} |-> "unborn"]
  /\ nxt = [g \in {0} |-> 1]
  /\ closer = "unborn"
  /\ main = "start"
  /\ panic = FALSE

(* ReadLicenseGraph refuses an empty list and an empty pool.               *)
Refuse ==
  /\ main = "start"
  /\ roots = <<>> \/ ConcurrentReaders < 1
  /\ main' = "error"
  /\ UNCHANGED <<disk, graph, chans, wg, procs, closer, panic>>

(* It fills the pool and starts readFiles.                                 *)
Start ==
  /\ main = "start"
  /\ roots # <<>> /\ ConcurrentReaders >= 1
  /\ main' = "loop"
  /\ task' = ConcurrentReaders
  /\ GoTo(0, "mark")
  /\ UNCHANGED <<disk, graph, taskClosed, results, resultsClosed, resultsNil,
                 wg, n, file, nxt, closer, panic>>

(* readFiles enters all roots into the map in one critical section.        *)
MarkRoots ==
  /\ pc[0] = "mark"
  /\ targets' = [f \in Files |-> IF f \in Elems(roots) THEN "nil" ELSE targets[f]]
  /\ GoTo(0, "next")
  /\ UNCHANGED <<disk, edges, chans, wg, n, file, nxt, closer, main, panic>>

(* Mutant: `lg.targets[dependency] == nil` in place of the presence test.   *)
DecideByNil(g) ==
  /\ pc[g] = "next"
  /\ nxt[g] <= Len(ListOf(g))
  /\ IF g = 0 \/ targets[Current(g)] # "node"
       THEN /\ targets' = IF g = 0 THEN targets
                                   ELSE [targets EXCEPT ![Current(g)] = "nil"]
            /\ GoTo(g, "add")
            /\ nxt' = nxt
       ELSE /\ nxt' = [nxt EXCEPT ![g] = @ + 1]
            /\ UNCHANGED <<targets, pc>>
  /\ UNCHANGED <<disk, edges, chans, wg, n, file, closer, main, panic>>

(* readFiles schedules every root; a reader decides in a critical section  *)
(* whether its next dependency is already scheduled.                       *)
Decide(g) ==
  /\ pc[g] = "next"
  /\ nxt[g] <= Len(ListOf(g))
  /\ IF g = 0 \/ targets[Current(g)] = "absent"
       THEN /\ targets' = IF g = 0 THEN targets
                                   ELSE [targets EXCEPT ![Current(g)] = "nil"]
            /\ GoTo(g, "add")
            /\ nxt' = nxt
       ELSE /\ nxt' = [nxt EXCEPT ![g] = @ + 1]
            /\ UNCHANGED <<targets, pc>>
  /\ UNCHANGED <<disk, edges, chans, wg, n, file, closer, main, panic>>

(* readFile: recv.wg.Add(1).                                               *)
Add(g) ==
  /\ pc[g] = "add"
  /\ wg' = wg + 1
  /\ GoTo(g, "acquire")
  /\ UNCHANGED <<disk, graph, chans, n, file, nxt, closer, main, panic>>

(* Mutant: the reader is spawned without a token.                          *)
AcquireNothing(g) ==
  /\ pc[g] = "acquire"
  /\ n' = n + 1
  /\ file' = [h \in 1..n+1 |-> IF h = n + 1 THEN Current(g) ELSE file[h]]
  /\ pc' = [h \in 0..n+1 |-> IF h = n + 1 THEN "read"
                             ELSE IF h = g THEN "next" ELSE pc[h]]
  /\ nxt' = [h \in 0..n+1 |-> IF h = n + 1 THEN 1
                              ELSE IF h = g THEN nxt[g] + 1 ELSE nxt[h]]
  /\ UNCHANGED <<disk, graph, chans, wg, closer, main, panic>>

(* readFile: <-recv.task, then the new reader is spawned.  A closed        *)
(* channel never blocks a receiver.                                        *)
AcquireTask(g) ==
  /\ pc[g] = "acquire"
  /\ task > 0 \/ taskClosed
  /\ task' = IF task > 0 THEN task - 1 ELSE task
  /\ n' = n + 1
  /\ file' = [h \in 1..n+1 |-> IF h = n + 1 THEN Current(g) ELSE file[h]]
  /\ pc' = [h \in 0..n+1 |-> IF h = n + 1 THEN "read"
                             ELSE IF h = g THEN "next" ELSE pc[h]]
  /\ nxt' = [h \in 0..n+1 |-> IF h = n + 1 THEN 1
                              ELSE IF h = g THEN nxt[g] + 1 ELSE nxt[h]]
  /\ UNCHANGED <<disk, graph, taskClosed, results, resultsClosed, resultsNil,
                 wg, closer, main, panic>>

(* Mutant: an error path also calls wg.Done.                               *)
SendResultDoneOnError(g) ==
  /\ pc[g] = "read"
  /\ Len(results) < ConcurrentReaders \/ resultsClosed
  /\ panic' = (panic \/ resultsClosed)
  /\ results' = IF resultsClosed THEN results
                ELSE Append(results, ResultOf(file[g]))
  /\ wg' = IF file[g] \in bad THEN wg - 1 ELSE wg
  /\ GoTo(g, IF file[g] \in bad THEN "failed" ELSE "release")
  /\ UNCHANGED <<disk, graph, task, taskClosed, resultsClosed, resultsNil, n,
                 file, nxt, closer, main>>

(* Mutant: the parse error is not looked at.                               *)
SendResultUnchecked(g) ==
  /\ pc[g] = "read"
  /\ Len(results) < ConcurrentReaders \/ resultsClosed
  /\ panic' = (panic \/ resultsClosed)
  /\ results' = IF resultsClosed THEN results
                ELSE Append(results, [file |-> file[g], kind |-> "node"])
  /\ GoTo(g, "release")
  /\ UNCHANGED <<disk, graph, task, taskClosed, resultsClosed, resultsNil, wg,
                 n, file, nxt, closer, main>>

(* Mutant: an error path returns without a result.                         *)
SendResultSilent(g) ==
  /\ pc[g] = "read"
  /\ Len(results) < ConcurrentReaders \/ resultsClosed
  /\ panic' = (panic \/ resultsClosed)
  /\ results' = IF resultsClosed \/ file[g] \in bad THEN results
                ELSE Append(results, [file |-> file[g], kind |-> "node"])
  /\ GoTo(g, IF file[g] \in bad THEN "failed" ELSE "release")
  /\ UNCHANGED <<disk, graph, task, taskClosed, resultsClosed, resultsNil, wg,
                 n, file, nxt, closer, main>>

(* The reader opens, reads and parses its file and sends the result.  It   *)
(* blocks while the channel is full and panics on a closed channel.  When  *)
(* recv.results is nil the race decides which channel it uses: on the old  *)
(* one the step happens, on nil it waits forever (the step never happens). *)
(* After an error the reader returns: no token back, no wg.Done.           *)
SendResult(g) ==
  /\ pc[g] = "read"
  /\ Len(results) < ConcurrentReaders \/ resultsClosed
  /\ panic' = (panic \/ resultsClosed)
  /\ results' = IF resultsClosed THEN results
                ELSE Append(results, ResultOf(file[g]))
  /\ GoTo(g, IF file[g] \in bad THEN "failed" ELSE "release")
  /\ UNCHANGED <<disk, graph, task, taskClosed, resultsClosed, resultsNil, wg,
                 n, file, nxt, closer, main>>

(* recv.task <- true, before the dependencies are scheduled.               *)
ReleaseTask(g) ==
  /\ pc[g] = "release"
  /\ task < ConcurrentReaders \/ taskClosed
  /\ panic' = (panic \/ taskClosed)
  /\ task' = IF taskClosed THEN task ELSE task + 1
  /\ GoTo(g, "next")
  /\ UNCHANGED <<disk, graph, taskClosed, results, resultsClosed, resultsNil,
                 wg, n, file, nxt, closer, main>>

(* Everything is scheduled: readFiles starts the closing goroutine.        *)
StartCloser ==
  /\ pc[0] = "next"
  /\ nxt[0] > Len(roots)
  /\ closer' = "wait"
  /\ GoTo(0, "done")
  /\ UNCHANGED <<disk, graph, chans, wg, n, file, nxt, main, panic>>

(* Everything is scheduled: a reader calls wg.Done, which panics when the  *)
(* counter becomes negative.                                               *)
Done(g) ==
  /\ pc[g] = "next"
  /\ nxt[g] > Len(ListOf(g))
  /\ wg' = wg - 1
  /\ panic' = (panic \/ wg = 0)
  /\ GoTo(g, "done")
  /\ UNCHANGED <<disk, graph, chans, n, file, nxt, closer, main>>

Goroutine0 == MarkRoots \/ Decide(0) \/ Add(0) \/ AcquireTask(0) \/ StartCloser

Reader(g) == \/ SendResult(g) \/ ReleaseTask(g) \/ Decide(g)
             \/ Add(g) \/ AcquireTask(g) \/ Done(g)

-----------------------------------------------------------------------------
(* recv.wg.Wait().                                                         *)
WaitDone ==
  /\ closer = "wait"
  /\ wg = 0
  /\ closer' = "closeTask"
  /\ UNCHANGED <<disk, graph, chans, wg, procs, main, panic>>

CloseTask ==
  /\ closer = "closeTask"
  /\ taskClosed' = TRUE
  /\ closer' = "closeResults"
  /\ UNCHANGED <<disk, graph, task, results, resultsClosed, resultsNil, wg,
                 procs, main, panic>>

(* close(recv.results) panics when the field is already nil.               *)
CloseResults ==
  /\ closer = "closeResults"
  /\ panic' = (panic \/ resultsNil)
  /\ resultsClosed' = ~resultsNil
  /\ closer' = "done"
  /\ UNCHANGED <<disk, graph, task, taskClosed, results, resultsNil, wg, procs,
                 main>>

Closer == WaitDone \/ CloseTask \/ CloseResults

-----------------------------------------------------------------------------
(* The caller's loop receives a parsed file and records it.                *)
ReceiveNode ==
  /\ main = "loop"
  /\ results # <<>> /\ Head(results).kind = "node"
  /\ targets' = [targets EXCEPT ![Head(results).file] = "node"]
  /\ results' = Tail(results)
  /\ UNCHANGED <<disk, edges, task, taskClosed, resultsClosed, resultsNil, wg,
                 procs, closer, main, panic>>

(* It receives an error: lg and recv.results become nil, and the call      *)
(* returns while the readers are still running.                            *)
ReceiveError ==
  /\ main = "loop"
  /\ results # <<>> /\ Head(results).kind = "error"
  /\ results' = Tail(results)
  /\ resultsNil' = TRUE
  /\ main' = "error"
  /\ UNCHANGED <<disk, graph, task, taskClosed, resultsClosed, wg, procs,
                 closer, panic>>

(* It finds the channel closed and drained.                                *)
ReceiveClosed ==
  /\ main = "loop"
  /\ results = <<>> /\ resultsClosed
  /\ resultsNil' = TRUE
  /\ main' = "index"
  /\ UNCHANGED <<disk, graph, task, taskClosed, results, resultsClosed, wg,
                 procs, closer, panic>>

Targets == {f \in Files : targets[f] # "absent"}

EdgesOf(N) == {e \in N \X Files : e[2] \in Elems(deps[e[1]])}

(* The tail of ReadLicenseGraph, without the mutex: a nil node is          *)
(* dereferenced, an unknown dependency is an error of addDependencies.     *)
Index ==
  /\ main = "index"
  /\ panic' = (panic \/ \E f \in Targets : targets[f] = "nil")
  /\ edges' = EdgesOf(Targets)
  /\ main' = IF \A e \in EdgesOf(Targets) : e[2] \in Targets THEN "graph" ELSE "error"
  /\ UNCHANGED <<disk, targets, chans, wg, procs, closer>>

Main == Refuse \/ Start \/ ReceiveNode \/ ReceiveError \/ ReceiveClosed \/ Index

Returned == main \in {"graph", "error"}

(* After the call has returned the program may stop at any moment.         *)
Terminated == Returned /\ UNCHANGED vars

Next == Main \/ Closer \/ Goroutine0 \/ (\E g \in 1..n : Reader(g)) \/ Terminated

Spec == Init /\ [][Next]_vars

(* The Go scheduler eventually runs a goroutine that can run.  A call takes *)
(* finitely many steps, so fairness to the readers together is fairness to *)
(* each of them.                                                           *)
Fairness == /\ WF_vars(Main)
            /\ WF_vars(Closer)
            /\ WF_vars(Goroutine0)
            /\ WF_vars(\E g \in 1..n : Reader(g))

FairSpec == Spec /\ Fairness

-----------------------------------------------------------------------------
Result == [file : Files, kind : {"node", "error"}]

Labels == {"unborn", "mark", "next", "add", "acquire", "read", "release",
           "failed", "done"}

(* Every variable stays in its range; in particular the task channel never *)
(* holds more tokens than its capacity and the WaitGroup counter is never  *)
(* negative (readgraph.go: task, results and wg of receiver).              *)
TypeOK ==
  /\ deps \in [Files -> DepLists]
  /\ bad \in SUBSET Files
  /\ roots \in RootLists
  /\ targets \in [Files -> {"absent", "nil", "node"}]
  /\ edges \in SUBSET (Files \X Files)
  /\ task \in Nat /\ (task > 0 => task <= ConcurrentReaders)
  /\ taskClosed \in BOOLEAN
  /\ results \in Seq(Result)
  /\ resultsClosed \in BOOLEAN /\ resultsNil \in BOOLEAN
  /\ wg \in Nat
  /\ n \in Nat
  /\ file \in [1..n -> Files]
  /\ pc \in [0..n -> Labels]
  /\ nxt \in [0..n -> Nat \ {0}]
  /\ closer \in {"unborn", "wait", "closeTask", "closeResults", "done"}
  /\ main \in {"start", "loop", "index", "graph", "error"}
  /\ panic \in BOOLEAN

(* The Go runtime never panics: no send on a closed channel, no close of   *)
(* the channel field that the caller has already set to nil, no negative   *)
(* WaitGroup counter and no nil node met by the unlocked loops at the end  *)
(* of ReadLicenseGraph, even when readers outlive a call that failed.      *)
NoPanic == ~panic

(* Readers that hold a token of the task pool.                             *)
Holders == {g \in 1..n : pc[g] \in {"read", "release", "failed"}}

(* Tokens are conserved, so at most ConcurrentReaders files are ever open  *)
(* at a time ("task provides a fixed-size task pool to limit concurrent    *)
(* open files", readgraph.go:78), error paths included.                    *)
PoolConserved ==
  n > 0 => task + Cardinality(Holders) = ConcurrentReaders

(* readFile is called once per file, however many files depend on it and   *)
(* whoever decides first; only a root named twice by the caller is read    *)
(* as often as it is named.                                                *)
ReadOnce ==
  \A f \in Files :
    LET readers == Cardinality({g \in 1..n : file[g] = f})
        named   == Cardinality({i \in 1..Len(roots) : roots[i] = f})
    IN  readers <= IF named = 0 THEN 1 ELSE named

(* When the caller leaves its loop on a closed channel no goroutine is     *)
(* left that could touch lg.targets, which the rest of ReadLicenseGraph    *)
(* reads and changes without the mutex.                                    *)
QuietTail ==
  main \in {"index", "graph"} => /\ \A g \in 0..n : pc[g] = "done"
                                 /\ closer = "done"

(* Once Wait has returned the counter stays at zero and no reader is       *)
(* spawned: wg.Add never races with the closing goroutine.                 *)
WaitGroupSettled ==
  [][closer \notin {"unborn", "wait"} => UNCHANGED <<wg, n>>]_vars

Nodes == {f \in Files : targets[f] = "node"}

(* The abstract specification: the answer is the graph once the caller has *)
(* built it.                                                               *)
Abstract == INSTANCE LicenseGraphRead WITH
  answer <- IF main = "graph"
              THEN [kind |-> "graph", nodes |-> Nodes, edges |-> edges]
              ELSE [kind |-> IF main = "error" THEN "error" ELSE "none",
                    nodes |-> {}, edges |-> {}]

(* The call returns the graph only when every file reachable from the      *)
(* roots was read, with exactly those files as targets; it returns an      *)
(* error only when it refused the call or some reachable file is bad.      *)
AnswerSound ==
  /\ main = "graph" => /\ Nodes = Abstract!Reach
                       /\ Targets = Nodes
                       /\ Abstract!Reach \cap bad = {}
                       /\ edges = EdgesOf(Nodes)
  /\ main = "error" => Abstract!Refused \/ Abstract!Reach \cap bad # {}

(* The concurrent reader implements the one-step reader of                 *)
(* LicenseGraphRead: one answer, the right one, never taken back.          *)
AbstractSafe == Abstract!Init /\ [][Abstract!Answer]_(Abstract!avars)

(* Whatever the pool size, the shape of the graph (cycles included) and    *)
(* the files that fail, the call returns: no reader waits for a token that *)
(* only a reader waiting for the results channel could give back.          *)
Returns == <>Returned
=============================================================================
