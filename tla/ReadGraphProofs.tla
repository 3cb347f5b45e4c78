--------------------------- MODULE ReadGraphProofs ---------------------------
(* Proofs about the concurrent license metadata reader, for every set of   *)
(* files, every dependency graph and every pool size.                      *)
EXTENDS ReadGraph, FiniteSetTheorems, SequenceTheorems, TLAPS

(* A reader that has sent its result and not failed.                       *)
Past == {"release", "next", "add", "acquire", "done"}

(* Where a goroutine can be, and how far it is in its list.                *)
ShapeOf(g) ==
  /\ nxt[g] <= Len(ListOf(g)) + 1
  /\ pc[g] \in {"add", "acquire"} => nxt[g] <= Len(ListOf(g))
  /\ pc[g] = "done" => nxt[g] = Len(ListOf(g)) + 1
  /\ g = 0 => pc[g] \in {"unborn", "mark", "next", "add", "acquire", "done"}
  /\ g # 0 => /\ pc[g] \in Past \cup {"read", "failed"}
              /\ pc[g] \in {"read", "failed", "release"} => nxt[g] = 1
              /\ pc[g] \in Past => file[g] \notin bad
              /\ pc[g] = "failed" => file[g] \in bad

Shape == \A g \in 0..n : ShapeOf(g)

(* Before readFiles has marked the roots nothing has happened.             *)
Fresh ==
  /\ pc[0] = "unborn" => /\ closer = "unborn" /\ main \in {"start", "error"}
                         /\ main = "error" => Abstract!Refused
  /\ pc[0] # "unborn" => main # "start" /\ ~Abstract!Refused
  /\ pc[0] \in {"unborn", "mark"} => /\ n = 0 /\ wg = 0 /\ results = <<>>
                                     /\ nxt[0] = 1
                                     /\ \A f \in Files : targets[f] = "absent"
  /\ ~(pc[0] \in {"unborn", "mark"}) => \A i \in 1..Len(roots) : targets[roots[i]] # "absent"

(* The readers that have not called wg.Done, and the goroutines inside     *)
(* readFile between wg.Add and the spawn.                                  *)
Live     == {g \in 1..n : pc[g] # "done"}
Spawning == {g \in 0..n : pc[g] = "acquire"}

Counting == wg = Cardinality(Live) + Cardinality(Spawning)

(* The closing goroutine has passed Wait only when nothing runs any more.  *)
Closing ==
  /\ (closer = "unborn") <=> (pc[0] # "done")
  /\ closer \notin {"unborn", "wait"} => wg = 0
  /\ taskClosed => closer \in {"closeResults", "done"}
  /\ resultsClosed => closer = "done"

(* Where a result, and the caller's knowledge of it, comes from.           *)
Results ==
  /\ \A i \in 1..Len(results) :
       \E g \in 1..n : /\ file[g] = results[i].file
                       /\ IF results[i].kind = "node" THEN pc[g] \in Past
                                                      ELSE pc[g] = "failed"
  /\ \A f \in Files : targets[f] = "node" =>
       \E g \in 1..n : file[g] = f /\ pc[g] \in Past
  /\ resultsNil => \/ main \in {"index", "graph"}
                   \/ \E g \in 1..n : pc[g] = "failed"
  /\ main = "error" => \/ Abstract!Refused
                       \/ \E g \in 1..n : pc[g] = "failed"
  /\ main \in {"index", "graph"} => resultsClosed /\ results = <<>>

(* A file marked nil is still to be scheduled, being read, or its result   *)
(* is in the channel.                                                      *)
Pending(f) ==
  \/ \E i \in nxt[0]..Len(roots) : roots[i] = f
  \/ \E g \in 1..n : pc[g] \in {"add", "acquire"} /\ Current(g) = f
  \/ \E g \in 1..n : pc[g] \in {"read", "failed"} /\ file[g] = f
  \/ \E i \in 1..Len(results) : results[i].file = f

NilIsPending == main = "loop" =>
  \A f \in Files : targets[f] = "nil" => Pending(f)

(* The scheduled files are reachable, and the dependencies a reader has    *)
(* passed are scheduled.                                                   *)
Scheduling ==
  /\ \A f \in Files : targets[f] # "absent" => f \in Abstract!Reach
  /\ \A g \in 1..n : targets[file[g]] # "absent"
  /\ \A g \in 1..n : \A j \in 1..Len(deps[file[g]]) :
       (j < nxt[g] \/ (j = nxt[g] /\ pc[g] \in {"add", "acquire"}))
         => targets[deps[file[g]][j]] # "absent"

(* What the caller has built.                                              *)
Tail0 ==
  /\ main \in {"index", "graph"} => \A f \in Files : targets[f] # "nil"
  /\ main = "graph" => edges = EdgesOf(Targets)

IInv == /\ TypeOK /\ Shape /\ Fresh /\ Counting /\ Closing
        /\ Results /\ NilIsPending /\ Scheduling /\ Tail0 /\ NoPanic

-----------------------------------------------------------------------------
(* The sets counted by the WaitGroup are finite.                           *)
LEMMA CountedFinite ==
  ASSUME TypeOK
  PROVE  IsFiniteSet(Live) /\ IsFiniteSet(Spawning)
<1>1. IsFiniteSet(1..n) /\ IsFiniteSet(0..n)
  BY FS_Interval DEF TypeOK
<1>2. Live \subseteq 1..n /\ Spawning \subseteq 0..n
  BY DEF Live, Spawning
<1> QED  BY <1>1, <1>2, FS_Subset

(* A reader that has not called wg.Done keeps Wait from returning.         *)
LEMMA LiveBlocksWait ==
  ASSUME TypeOK, Counting, NEW g \in Live
  PROVE  wg > 0
<1>1. Cardinality(Live) \in Nat /\ Cardinality(Spawning) \in Nat
  BY CountedFinite, FS_CardinalityType
<1>2. Cardinality(Live) # 0
  BY CountedFinite, FS_EmptySet
<1> QED  BY <1>1, <1>2 DEF Counting

(* Once Wait has returned every goroutine that reads is done.              *)
LEMMA Quiet ==
  ASSUME TypeOK, Counting, Closing, closer \notin {"unborn", "wait"}
  PROVE  \A g \in 0..n : pc[g] = "done"
<1>1. wg = 0 /\ pc[0] = "done"
  BY DEF Closing, TypeOK
<1>2. Live = {}
  <2> SUFFICES ASSUME NEW g \in Live PROVE FALSE
    OBVIOUS
  <2> QED  BY LiveBlocksWait, <1>1
<1>3. n \in Nat
  BY DEF TypeOK
<1> SUFFICES ASSUME NEW g \in 0..n PROVE pc[g] = "done"
  OBVIOUS
<1>4. g = 0 \/ g \in 1..n
  BY <1>3
<1> QED  BY <1>1, <1>2, <1>4 DEF Live

(* The lists of files are sequences of files.                              *)
LEMMA Lists ==
  ASSUME TypeOK
  PROVE  /\ roots \in Seq(Files) /\ Len(roots) \in Nat
         /\ \A i \in 1..Len(roots) : roots[i] \in Files
         /\ \A f \in Files : /\ deps[f] \in Seq(Files) /\ Len(deps[f]) \in Nat
                             /\ \A j \in 1..Len(deps[f]) : deps[f][j] \in Files
         /\ \A g \in 0..n : /\ ListOf(g) \in Seq(Files) /\ Len(ListOf(g)) \in Nat
                            /\ \A j \in 1..Len(ListOf(g)) : ListOf(g)[j] \in Files
<1>1. roots \in Seq(Files) /\ \A f \in Files : deps[f] \in Seq(Files)
  BY FilesAssumption DEF TypeOK
<1>2. \A g \in 0..n : ListOf(g) \in Seq(Files)
  BY <1>1 DEF TypeOK, ListOf
<1> QED  BY <1>1, <1>2

(* A goroutine at work in its list is at one of its files.                 *)
LEMMA CurrentFile ==
  ASSUME TypeOK, NEW g \in 0..n, nxt[g] <= Len(ListOf(g))
  PROVE  nxt[g] \in 1..Len(ListOf(g)) /\ Current(g) \in Files
<1>1. nxt[g] \in Nat \ {0}
  BY DEF TypeOK
<1>2. Len(ListOf(g)) \in Nat /\ \A j \in 1..Len(ListOf(g)) : ListOf(g)[j] \in Files
  BY Lists
<1>3. nxt[g] \in 1..Len(ListOf(g))
  BY <1>1, <1>2
<1> QED  BY <1>2, <1>3 DEF Current

(* The roots are reachable.                                                *)
LEMMA RootReachable ==
  ASSUME TypeOK, NEW i \in 1..Len(roots)
  PROVE  roots[i] \in Abstract!Reach
BY Lists DEF Abstract!Reach, Abstract!Closed, Abstract!Elems

(* A dependency of a reachable file is reachable.                          *)
LEMMA DepReachable ==
  ASSUME TypeOK, NEW f \in Files, f \in Abstract!Reach,
         NEW j \in 1..Len(deps[f])
  PROVE  deps[f][j] \in Abstract!Reach
BY Lists DEF Abstract!Reach, Abstract!Closed, Abstract!Elems

(* A closed set of files holds every reachable file.                       *)
LEMMA ReachLeast ==
  ASSUME NEW S \in SUBSET Files, Abstract!Closed(S)
  PROVE  Abstract!Reach \subseteq S
BY DEF Abstract!Reach

(* The state in which the caller starts.                                   *)
LEMMA InitIInv == Init => IInv
<1> SUFFICES ASSUME Init PROVE IInv
  OBVIOUS
<1>1. TypeOK
  <2>1. file \in [1..n -> Files]
    BY DEF Init
  <2>2. results \in Seq(Result)
    BY DEF Init
  <2>3. n = 0 /\ 0..n = {0}
    BY DEF Init
  <2>4. pc \in [0..n -> Labels] /\ nxt \in [0..n -> Nat \ {0}]
    BY <2>3 DEF Init, Labels
  <2>5. /\ deps \in [Files -> DepLists] /\ bad \in SUBSET Files /\ roots \in RootLists
        /\ targets \in [Files -> {"absent", "nil", "node"}]
        /\ edges \in SUBSET (Files \X Files)
    BY DEF Init
  <2>6. task = 0 /\ wg = 0 /\ n = 0
    BY DEF Init
  <2>7. task \in Nat /\ (task > 0 => task <= ConcurrentReaders) /\ wg \in Nat /\ n \in Nat
    BY <2>6
  <2>8. /\ taskClosed \in BOOLEAN /\ resultsClosed \in BOOLEAN
        /\ resultsNil \in BOOLEAN /\ panic \in BOOLEAN
        /\ closer \in {"unborn", "wait", "closeTask", "closeResults", "done"}
        /\ main \in {"start", "loop", "index", "graph", "error"}
    BY Zenon DEF Init
  <2> QED  BY <2>1, <2>2, <2>4, <2>5, <2>7, <2>8, Zenon DEF TypeOK
<1>2. Shape
  BY <1>1, Lists DEF Init, TypeOK, Shape, ShapeOf, ListOf
<1>3. Fresh /\ Closing /\ Results /\ NilIsPending /\ Scheduling /\ Tail0 /\ NoPanic
  BY <1>1 DEF Init, Fresh, Closing, Results, NilIsPending, Scheduling, Tail0, NoPanic
<1>4. Counting
  <2>1. Live = {} /\ Spawning = {}
    BY DEF Init, Live, Spawning
  <2> QED  BY <2>1, FS_EmptySet DEF Counting, Init
<1> QED  BY <1>1, <1>2, <1>3, <1>4 DEF IInv

(* Receiving takes the oldest result and leaves the rest in order.         *)
LEMMA Received ==
  ASSUME TypeOK, results # <<>>
  PROVE  /\ Head(results) = results[1] /\ Head(results).file \in Files
         /\ Tail(results) \in Seq(Result)
         /\ Len(results) \in Nat /\ Len(results) > 0
         /\ Len(Tail(results)) = Len(results) - 1
         /\ \A i \in 1..Len(Tail(results)) : Tail(results)[i] = results[i+1]
<1>1. results \in Seq(Result)
  BY DEF TypeOK
<1>2. Head(results) \in Result /\ Head(results) = results[1]
  BY <1>1, HeadTailProperties
<1> QED  BY <1>1, <1>2, HeadTailProperties DEF Result

(* Sending appends to the channel.                                         *)
LEMMA Sent ==
  ASSUME TypeOK, NEW f \in Files
  PROVE  LET s == Append(results, ResultOf(f))
         IN  /\ s \in Seq(Result) /\ Len(results) \in Nat
             /\ Len(s) = Len(results) + 1
             /\ \A i \in 1..Len(results) : s[i] = results[i]
             /\ s[Len(results) + 1] = ResultOf(f)
<1>1. results \in Seq(Result) /\ ResultOf(f) \in Result
  BY DEF TypeOK, Result, ResultOf
<1> QED  BY <1>1, AppendProperties


(* The actions, as the proofs below split them.                            *)
LEMMA NextCases ==
  ASSUME TypeOK, [Next]_vars
  PROVE  \/ Refuse \/ Start \/ ReceiveNode \/ ReceiveError \/ ReceiveClosed
         \/ Index \/ WaitDone \/ CloseTask \/ CloseResults \/ MarkRoots
         \/ StartCloser \/ UNCHANGED vars
         \/ \E g \in 0..n : Decide(g) \/ Add(g) \/ AcquireTask(g)
         \/ \E g \in 1..n : SendResult(g) \/ ReleaseTask(g) \/ Done(g)
<1>1. n \in Nat
  BY DEF TypeOK
<1> QED  BY <1>1 DEF Next, Main, Closer, Goroutine0, Reader, Terminated

(* Every step keeps the types.                                             *)
LEMMA TypeStep ==
  ASSUME IInv, [Next]_vars
  PROVE  TypeOK'
<1>1. CASE Refuse
  BY <1>1 DEF IInv, Refuse, GoTo, disk, graph, chans, procs, TypeOK, Labels
<1>2. CASE Start
  BY <1>2, PoolAssumption DEF IInv, Start, GoTo, disk, graph, chans, procs, TypeOK, Labels
<1>3. CASE ReceiveNode
  BY <1>3, Received DEF IInv, ReceiveNode, GoTo, disk, graph, chans, procs, TypeOK
<1>4. CASE ReceiveError
  BY <1>4, Received DEF IInv, ReceiveError, GoTo, disk, graph, chans, procs, TypeOK
<1>5. CASE ReceiveClosed
  BY <1>5 DEF IInv, ReceiveClosed, GoTo, disk, graph, chans, procs, TypeOK, Labels
<1>6. CASE Index
  <2>1. panic' \in BOOLEAN
    BY <1>6, Zenon DEF Index
  <2>2. EdgesOf(Targets) \subseteq Files \X Files
    BY DEF EdgesOf, Targets
  <2> QED  BY <1>6, <2>1, <2>2 DEF IInv, Index, GoTo, disk, graph, chans, procs, TypeOK
<1>7. CASE WaitDone
  BY <1>7 DEF IInv, WaitDone, GoTo, disk, graph, chans, procs, TypeOK, Labels
<1>8. CASE CloseTask
  BY <1>8 DEF IInv, CloseTask, GoTo, disk, graph, chans, procs, TypeOK, Labels
<1>9. CASE CloseResults
  <2>1. panic' \in BOOLEAN
    BY <1>9, Zenon DEF CloseResults
  <2>2. resultsClosed' \in BOOLEAN
    BY <1>9, Zenon DEF CloseResults
  <2> QED  BY <1>9, <2>1, <2>2 DEF IInv, CloseResults, GoTo, disk, graph, chans, procs, TypeOK
<1>10. CASE MarkRoots
  BY <1>10 DEF IInv, MarkRoots, GoTo, disk, graph, chans, procs, TypeOK, Labels
<1>11. CASE StartCloser
  BY <1>11 DEF IInv, StartCloser, GoTo, disk, graph, chans, procs, TypeOK, Labels
<1>12. ASSUME NEW g \in 0..n, Decide(g) PROVE TypeOK'
  <2>1. targets' \in [Files -> {"absent", "nil", "node"}]
    BY <1>12 DEF IInv, TypeOK, Decide
  <2>2. pc' \in [0..n -> Labels]
    BY <1>12 DEF IInv, TypeOK, Decide, GoTo, Labels
  <2>3. nxt[g] + 1 \in Nat \ {0}
    BY <1>12 DEF IInv, TypeOK
  <2>4. nxt' \in [0..n -> Nat \ {0}]
    BY <1>12, <2>3 DEF IInv, TypeOK, Decide
  <2> QED  BY <1>12, <2>1, <2>2, <2>4 DEF IInv, Decide, GoTo, disk, graph, chans, procs, TypeOK
<1>13. ASSUME NEW g \in 0..n, Add(g) PROVE TypeOK'
  BY <1>13 DEF IInv, Add, GoTo, disk, graph, chans, procs, TypeOK, Labels
<1>14. ASSUME NEW g \in 0..n, AcquireTask(g) PROVE TypeOK'
  <2>1. n \in Nat /\ nxt[g] \in Nat \ {0} /\ g \in 0..n
    BY <1>14 DEF IInv, TypeOK
  <2>2. Current(g) \in Files
    BY <1>14, CurrentFile DEF IInv, Shape, ShapeOf, AcquireTask
  <2>3. file' \in [1..n' -> Files]
    BY <1>14, <2>1, <2>2 DEF IInv, TypeOK, AcquireTask
  <2>4. pc' \in [0..n' -> Labels] /\ nxt' \in [0..n' -> Nat \ {0}]
    BY <1>14, <2>1 DEF IInv, TypeOK, AcquireTask, Labels
  <2>5. task' \in Nat /\ (task' > 0 => task' <= ConcurrentReaders)
    BY <1>14, PoolAssumption DEF IInv, TypeOK, AcquireTask
  <2> QED  BY <1>14, <2>1, <2>3, <2>4, <2>5 DEF IInv, AcquireTask, GoTo, disk, graph, chans, procs, TypeOK
<1>15. ASSUME NEW g \in 1..n, SendResult(g) PROVE TypeOK'
  <2>1. panic' \in BOOLEAN
    BY <1>15, Zenon DEF SendResult
  <2>2. file[g] \in Files
    BY DEF IInv, TypeOK
  <2>3. results' \in Seq(Result)
    BY <1>15, <2>2, Sent DEF IInv, TypeOK, SendResult
  <2> QED  BY <1>15, <2>1, <2>3 DEF IInv, SendResult, GoTo, disk, graph, chans, procs, TypeOK, Labels
<1>16. ASSUME NEW g \in 1..n, ReleaseTask(g) PROVE TypeOK'
  <2>1. panic' \in BOOLEAN
    BY <1>16, Zenon DEF ReleaseTask
  <2>2. task' \in Nat /\ (task' > 0 => task' <= ConcurrentReaders)
    BY <1>16, PoolAssumption DEF IInv, TypeOK, ReleaseTask
  <2> QED  BY <1>16, <2>1, <2>2 DEF IInv, ReleaseTask, GoTo, disk, graph, chans, procs, TypeOK, Labels
<1>17. ASSUME NEW g \in 1..n, Done(g) PROVE TypeOK'
  <2>1. panic' \in BOOLEAN
    BY <1>17, Zenon DEF Done
  <2>2. g \in Live
    BY <1>17 DEF Done, Live
  <2>3. wg - 1 \in Nat
    BY <2>2, LiveBlocksWait DEF IInv, TypeOK
  <2> QED  BY <1>17, <2>1, <2>3 DEF IInv, Done, GoTo, disk, graph, chans, procs, TypeOK, Labels
<1>18. CASE UNCHANGED vars
  BY <1>18 DEF IInv, vars, TypeOK
<1> QED
  BY NextCases, <1>1, <1>2, <1>3, <1>4, <1>5, <1>6, <1>7, <1>8, <1>9, <1>10, <1>11, <1>12, <1>13, <1>14, <1>15, <1>16, <1>17, <1>18 DEF IInv

(* A step leaves the list of every goroutine that already runs alone.      *)
LEMMA ListsStay ==
  ASSUME IInv, [Next]_vars
  PROVE  /\ UNCHANGED disk
         /\ \A h \in 1..n : h \in 1..n' /\ file'[h] = file[h]
         /\ \A h \in 0..n : h \in 0..n' /\ ListOf(h)' = ListOf(h)
<1>1. UNCHANGED disk
  BY NextCases DEF IInv, Refuse, Start, ReceiveNode, ReceiveError, ReceiveClosed,
     Index, WaitDone, CloseTask, CloseResults, MarkRoots, StartCloser, vars,
     Decide, Add, AcquireTask, SendResult, ReleaseTask, Done, disk
<1>2. UNCHANGED <<n, file>> \/ \E g \in 0..n : AcquireTask(g)
  BY NextCases DEF IInv, Refuse, Start, ReceiveNode, ReceiveError, ReceiveClosed,
     Index, WaitDone, CloseTask, CloseResults, MarkRoots, StartCloser, vars,
     Decide, Add, SendResult, ReleaseTask, Done, procs
<1>3. \A h \in 1..n : h \in 1..n' /\ file'[h] = file[h]
  BY <1>2 DEF IInv, TypeOK, AcquireTask
<1>4. \A h \in 0..n : h \in 0..n'
  BY <1>2 DEF IInv, TypeOK, AcquireTask
<1>5. \A h \in 0..n : h = 0 \/ h \in 1..n
  BY DEF IInv, TypeOK
<1> QED  BY <1>1, <1>3, <1>4, <1>5 DEF ListOf, disk

(* readFiles is goroutine 0, the readers are the others.                   *)
LEMMA Ids ==
  ASSUME IInv
  PROVE  n \in Nat /\ 0 \in 0..n /\ \A h \in 1..n : h \in 0..n /\ h # 0
BY DEF IInv, TypeOK

(* A step of goroutine g moves no other goroutine.                         *)
LEMMA OthersStay ==
  ASSUME IInv, NEW g \in 0..n, NEW h \in 0..n, h # g,
         \/ Decide(g) \/ Add(g) \/ AcquireTask(g)
         \/ SendResult(g) \/ ReleaseTask(g) \/ Done(g)
         \/ g = 0 /\ (Start \/ MarkRoots \/ StartCloser)
  PROVE  pc'[h] = pc[h] /\ nxt'[h] = nxt[h]
<1>1. pc \in [0..n -> Labels] /\ nxt \in [0..n -> Nat \ {0}] /\ n \in Nat
  BY DEF IInv, TypeOK
<1> QED
  BY <1>1 DEF GoTo, Decide, Add, AcquireTask, SendResult, ReleaseTask, Done,
     Start, MarkRoots, StartCloser

(* A goroutine that does not move keeps its shape.                         *)
LEMMA ShapeStays ==
  ASSUME IInv, [Next]_vars, NEW h \in 0..n, pc'[h] = pc[h], nxt'[h] = nxt[h]
  PROVE  ShapeOf(h)'
<1>1. ShapeOf(h) /\ UNCHANGED bad /\ ListOf(h)' = ListOf(h)
  BY ListsStay DEF IInv, Shape, disk
<1>2. h # 0 => file'[h] = file[h]
  BY ListsStay DEF IInv, TypeOK
<1> QED  BY <1>1, <1>2 DEF ShapeOf

(* Every step keeps the control states in shape.                           *)
LEMMA ShapeStep ==
  ASSUME IInv, [Next]_vars
  PROVE  Shape'
<1>1. CASE Refuse
  BY <1>1, ListsStay DEF IInv, Refuse, GoTo, disk, graph, chans, procs, TypeOK, Shape, ShapeOf
<1>2. CASE Start
  <2> 0 \in 0..n
    BY DEF IInv, TypeOK
  <2>1. ShapeOf(0)'
    <3>a. ShapeOf(0)
      BY DEF IInv, Shape
    <3>b. nxt[0] \in Nat
      BY DEF IInv, TypeOK
    <3>c. Len(ListOf(0)) \in Nat
      BY Lists DEF IInv
    <3>1. ShapeOf(0) /\ nxt[0] \in Nat /\ Len(ListOf(0)) \in Nat
      BY <3>a, <3>b, <3>c
    <3>2. ListOf(0)' = ListOf(0) /\ UNCHANGED bad /\ (0 # 0 => file'[0] = file[0])
      BY ListsStay DEF IInv, TypeOK, disk
    <3> QED  BY <1>2, <3>1, <3>2 DEF IInv, TypeOK, Start, GoTo, procs, ShapeOf, Past, ListOf
  <2>2. \A h \in 0..n : h # 0 => ShapeOf(h)'
    BY <1>2, ShapeStays, OthersStay
  <2> QED  BY <1>2, <2>1, <2>2 DEF Start, Shape, procs
<1>3. CASE ReceiveNode
  BY <1>3, ListsStay DEF IInv, ReceiveNode, GoTo, disk, graph, chans, procs, TypeOK, Shape, ShapeOf
<1>4. CASE ReceiveError
  BY <1>4, ListsStay DEF IInv, ReceiveError, GoTo, disk, graph, chans, procs, TypeOK, Shape, ShapeOf
<1>5. CASE ReceiveClosed
  BY <1>5, ListsStay DEF IInv, ReceiveClosed, GoTo, disk, graph, chans, procs, TypeOK, Shape, ShapeOf
<1>6. CASE Index
  BY <1>6, ListsStay DEF IInv, Index, GoTo, disk, graph, chans, procs, TypeOK, Shape, ShapeOf
<1>7. CASE WaitDone
  BY <1>7, ListsStay DEF IInv, WaitDone, GoTo, disk, graph, chans, procs, TypeOK, Shape, ShapeOf
<1>8. CASE CloseTask
  BY <1>8, ListsStay DEF IInv, CloseTask, GoTo, disk, graph, chans, procs, TypeOK, Shape, ShapeOf
<1>9. CASE CloseResults
  BY <1>9, ListsStay DEF IInv, CloseResults, GoTo, disk, graph, chans, procs, TypeOK, Shape, ShapeOf
<1>10. CASE MarkRoots
  <2> 0 \in 0..n
    BY DEF IInv, TypeOK
  <2>1. ShapeOf(0)'
    <3>a. ShapeOf(0)
      BY DEF IInv, Shape
    <3>b. nxt[0] \in Nat
      BY DEF IInv, TypeOK
    <3>c. Len(ListOf(0)) \in Nat
      BY Lists DEF IInv
    <3>1. ShapeOf(0) /\ nxt[0] \in Nat /\ Len(ListOf(0)) \in Nat
      BY <3>a, <3>b, <3>c
    <3>2. ListOf(0)' = ListOf(0) /\ UNCHANGED bad /\ (0 # 0 => file'[0] = file[0])
      BY ListsStay DEF IInv, TypeOK, disk
    <3> QED  BY <1>10, <3>1, <3>2 DEF IInv, TypeOK, MarkRoots, GoTo, procs, ShapeOf, Past, ListOf
  <2>2. \A h \in 0..n : h # 0 => ShapeOf(h)'
    BY <1>10, ShapeStays, OthersStay
  <2> QED  BY <1>10, <2>1, <2>2 DEF MarkRoots, Shape, procs
<1>11. CASE StartCloser
  <2> 0 \in 0..n
    BY DEF IInv, TypeOK
  <2>1. ShapeOf(0)'
    <3>a. ShapeOf(0)
      BY DEF IInv, Shape
    <3>b. nxt[0] \in Nat
      BY DEF IInv, TypeOK
    <3>c. Len(ListOf(0)) \in Nat
      BY Lists DEF IInv
    <3>1. ShapeOf(0) /\ nxt[0] \in Nat /\ Len(ListOf(0)) \in Nat
      BY <3>a, <3>b, <3>c
    <3>2. ListOf(0)' = ListOf(0) /\ UNCHANGED bad /\ (0 # 0 => file'[0] = file[0])
      BY ListsStay DEF IInv, TypeOK, disk
    <3> QED  BY <1>11, <3>1, <3>2 DEF IInv, TypeOK, StartCloser, GoTo, procs, ShapeOf, Past, ListOf
  <2>2. \A h \in 0..n : h # 0 => ShapeOf(h)'
    BY <1>11, ShapeStays, OthersStay
  <2> QED  BY <1>11, <2>1, <2>2 DEF StartCloser, Shape, procs
<1>12. ASSUME NEW g \in 0..n, Decide(g) PROVE Shape'
  <2> g \in 0..n
    BY DEF IInv, TypeOK
  <2>1. ShapeOf(g)'
    <3>a. ShapeOf(g)
      BY DEF IInv, Shape
    <3>b. nxt[g] \in Nat
      BY DEF IInv, TypeOK
    <3>c. Len(ListOf(g)) \in Nat
      BY Lists DEF IInv
    <3>1. ShapeOf(g) /\ nxt[g] \in Nat /\ Len(ListOf(g)) \in Nat
      BY <3>a, <3>b, <3>c
    <3>2. ListOf(g)' = ListOf(g) /\ UNCHANGED bad /\ (g # 0 => file'[g] = file[g])
      BY ListsStay DEF IInv, TypeOK, disk
    <3> QED  BY <1>12, <3>1, <3>2 DEF IInv, TypeOK, Decide, GoTo, procs, ShapeOf, Past
  <2>2. \A h \in 0..n : h # g => ShapeOf(h)'
    BY <1>12, ShapeStays, OthersStay
  <2> QED  BY <1>12, <2>1, <2>2 DEF Decide, Shape, procs
<1>13. ASSUME NEW g \in 0..n, Add(g) PROVE Shape'
  <2> g \in 0..n
    BY DEF IInv, TypeOK
  <2>1. ShapeOf(g)'
    <3>a. ShapeOf(g)
      BY DEF IInv, Shape
    <3>b. nxt[g] \in Nat
      BY DEF IInv, TypeOK
    <3>c. Len(ListOf(g)) \in Nat
      BY Lists DEF IInv
    <3>1. ShapeOf(g) /\ nxt[g] \in Nat /\ Len(ListOf(g)) \in Nat
      BY <3>a, <3>b, <3>c
    <3>2. ListOf(g)' = ListOf(g) /\ UNCHANGED bad /\ (g # 0 => file'[g] = file[g])
      BY ListsStay DEF IInv, TypeOK, disk
    <3> QED  BY <1>13, <3>1, <3>2 DEF IInv, TypeOK, Add, GoTo, procs, ShapeOf, Past
  <2>2. \A h \in 0..n : h # g => ShapeOf(h)'
    BY <1>13, ShapeStays, OthersStay
  <2> QED  BY <1>13, <2>1, <2>2 DEF Add, Shape, procs
<1>14. ASSUME NEW g \in 0..n, AcquireTask(g) PROVE Shape'
  <2>1. ShapeOf(g)'
    <3>a. ShapeOf(g)
      BY DEF IInv, Shape
    <3>b. nxt[g] \in Nat
      BY DEF IInv, TypeOK
    <3>c. Len(ListOf(g)) \in Nat
      BY Lists DEF IInv
    <3>1. ShapeOf(g) /\ nxt[g] \in Nat /\ Len(ListOf(g)) \in Nat
      BY <3>a, <3>b, <3>c
    <3>2. ListOf(g)' = ListOf(g) /\ UNCHANGED bad /\ (g # 0 => file'[g] = file[g])
      BY ListsStay DEF IInv, TypeOK, disk
    <3>3. pc'[g] = "next" /\ nxt'[g] = nxt[g] + 1
      BY <1>14 DEF AcquireTask, IInv, TypeOK
    <3> QED  BY <1>14, <3>1, <3>2, <3>3 DEF AcquireTask, ShapeOf, Past
  <2>2. \A h \in 0..n : h # g => ShapeOf(h)'
    BY <1>14, ShapeStays, OthersStay
  <2>0. PICK m \in Nat : m = n + 1
    BY DEF IInv, TypeOK
  <2>3. m \in 0..n' /\ m # 0 /\ m \in 1..n'
    BY <1>14, <2>0 DEF IInv, TypeOK, AcquireTask
  <2>4. pc'[m] = "read" /\ nxt'[m] = 1
    BY <1>14, <2>0, <2>3 DEF AcquireTask
  <2>5. Len(ListOf(m)') \in Nat
    <3>1. ListOf(m)' = deps[Current(g)] /\ Current(g) \in Files
      <4>1. Current(g) \in Files
        BY <1>14, CurrentFile DEF IInv, Shape, ShapeOf, AcquireTask
      <4>2. file'[m] = Current(g) /\ deps' = deps
        BY <1>14, <2>0, <2>3 DEF AcquireTask, disk
      <4> QED  BY <2>3, <4>1, <4>2 DEF ListOf
    <3> QED  BY <3>1, Lists DEF IInv
  <2>6. ShapeOf(m)'
    BY <2>3, <2>4, <2>5 DEF ShapeOf, Past
  <2>7. \A h \in 0..n' : h \in 0..n \/ h = m
    BY <1>14, <2>0 DEF AcquireTask, IInv, TypeOK
  <2> QED  BY <2>1, <2>2, <2>6, <2>7 DEF Shape
<1>15. ASSUME NEW g \in 1..n, SendResult(g) PROVE Shape'
  <2> g \in 0..n
    BY DEF IInv, TypeOK
  <2>1. ShapeOf(g)'
    <3>a. ShapeOf(g)
      BY DEF IInv, Shape
    <3>b. nxt[g] \in Nat
      BY DEF IInv, TypeOK
    <3>c. Len(ListOf(g)) \in Nat
      BY Lists DEF IInv
    <3>1. ShapeOf(g) /\ nxt[g] \in Nat /\ Len(ListOf(g)) \in Nat
      BY <3>a, <3>b, <3>c
    <3>2. ListOf(g)' = ListOf(g) /\ UNCHANGED bad /\ (g # 0 => file'[g] = file[g])
      BY ListsStay DEF IInv, TypeOK, disk
    <3> QED  BY <1>15, <3>1, <3>2 DEF IInv, TypeOK, SendResult, GoTo, procs, ShapeOf, Past
  <2>2. \A h \in 0..n : h # g => ShapeOf(h)'
    BY <1>15, ShapeStays, OthersStay
  <2> QED  BY <1>15, <2>1, <2>2 DEF SendResult, Shape, procs
<1>16. ASSUME NEW g \in 1..n, ReleaseTask(g) PROVE Shape'
  <2> g \in 0..n
    BY DEF IInv, TypeOK
  <2>1. ShapeOf(g)'
    <3>a. ShapeOf(g)
      BY DEF IInv, Shape
    <3>b. nxt[g] \in Nat
      BY DEF IInv, TypeOK
    <3>c. Len(ListOf(g)) \in Nat
      BY Lists DEF IInv
    <3>1. ShapeOf(g) /\ nxt[g] \in Nat /\ Len(ListOf(g)) \in Nat
      BY <3>a, <3>b, <3>c
    <3>2. ListOf(g)' = ListOf(g) /\ UNCHANGED bad /\ (g # 0 => file'[g] = file[g])
      BY ListsStay DEF IInv, TypeOK, disk
    <3> QED  BY <1>16, <3>1, <3>2 DEF IInv, TypeOK, ReleaseTask, GoTo, procs, ShapeOf, Past
  <2>2. \A h \in 0..n : h # g => ShapeOf(h)'
    BY <1>16, ShapeStays, OthersStay
  <2> QED  BY <1>16, <2>1, <2>2 DEF ReleaseTask, Shape, procs
<1>17. ASSUME NEW g \in 1..n, Done(g) PROVE Shape'
  <2> g \in 0..n
    BY DEF IInv, TypeOK
  <2>1. ShapeOf(g)'
    <3>a. ShapeOf(g)
      BY DEF IInv, Shape
    <3>b. nxt[g] \in Nat
      BY DEF IInv, TypeOK
    <3>c. Len(ListOf(g)) \in Nat
      BY Lists DEF IInv
    <3>1. ShapeOf(g) /\ nxt[g] \in Nat /\ Len(ListOf(g)) \in Nat
      BY <3>a, <3>b, <3>c
    <3>2. ListOf(g)' = ListOf(g) /\ UNCHANGED bad /\ (g # 0 => file'[g] = file[g])
      BY ListsStay DEF IInv, TypeOK, disk
    <3> QED  BY <1>17, <3>1, <3>2 DEF IInv, TypeOK, Done, GoTo, procs, ShapeOf, Past
  <2>2. \A h \in 0..n : h # g => ShapeOf(h)'
    BY <1>17, ShapeStays, OthersStay
  <2> QED  BY <1>17, <2>1, <2>2 DEF Done, Shape, procs
<1>18. CASE UNCHANGED vars
  BY <1>18, ListsStay DEF IInv, vars, Shape, ShapeOf
<1> QED
  BY NextCases, <1>1, <1>2, <1>3, <1>4, <1>5, <1>6, <1>7, <1>8, <1>9, <1>10, <1>11, <1>12, <1>13, <1>14, <1>15, <1>16, <1>17, <1>18 DEF IInv

(* The WaitGroup counts the readers that are not done and the spawns.      *)
LEMMA CountingStep ==
  ASSUME IInv, [Next]_vars
  PROVE  Counting'
<1>1. CASE Refuse
  BY <1>1 DEF IInv, Refuse, procs, Counting, Live, Spawning
<1>2. CASE Start
  <2>0. pc[0] = "unborn" /\ n \in Nat /\ \A h \in 0..n : h # 0 => pc'[h] = pc[h]
    BY <1>2, OthersStay DEF IInv, TypeOK, Start, Fresh
  <2>1. Live' = Live /\ Spawning' = Spawning /\ wg' = wg
    <3>1. pc'[0] = "mark" /\ n' = n /\ wg' = wg
      BY <1>2, <2>0 DEF IInv, TypeOK, Start, GoTo
    <3> QED  BY <2>0, <3>1 DEF Live, Spawning
  <2> QED  BY <2>1 DEF IInv, Counting
<1>3. CASE ReceiveNode
  BY <1>3 DEF IInv, ReceiveNode, procs, Counting, Live, Spawning
<1>4. CASE ReceiveError
  BY <1>4 DEF IInv, ReceiveError, procs, Counting, Live, Spawning
<1>5. CASE ReceiveClosed
  BY <1>5 DEF IInv, ReceiveClosed, procs, Counting, Live, Spawning
<1>6. CASE Index
  BY <1>6 DEF IInv, Index, procs, Counting, Live, Spawning
<1>7. CASE WaitDone
  BY <1>7 DEF IInv, WaitDone, procs, Counting, Live, Spawning
<1>8. CASE CloseTask
  BY <1>8 DEF IInv, CloseTask, procs, Counting, Live, Spawning
<1>9. CASE CloseResults
  BY <1>9 DEF IInv, CloseResults, procs, Counting, Live, Spawning
<1>10. CASE MarkRoots
  <2>1. Live' = Live /\ Spawning' = Spawning /\ wg' = wg
    BY <1>10 DEF IInv, TypeOK, MarkRoots, GoTo, procs, Live, Spawning
  <2> QED  BY <2>1 DEF IInv, Counting
<1>11. CASE StartCloser
  <2>1. Live' = Live /\ Spawning' = Spawning /\ wg' = wg
    BY <1>11 DEF IInv, TypeOK, StartCloser, GoTo, procs, Live, Spawning
  <2> QED  BY <2>1 DEF IInv, Counting
<1>12. ASSUME NEW g \in 0..n, Decide(g) PROVE Counting'
  <2>1. Live' = Live /\ Spawning' = Spawning /\ wg' = wg
    <3>1. \A h \in 0..n : h # g => pc'[h] = pc[h]
      BY <1>12, OthersStay
    <3>2. pc[g] = "next" /\ pc'[g] \in {"next", "add"} /\ n' = n /\ wg' = wg
      BY <1>12 DEF IInv, TypeOK, Decide, GoTo
    <3> QED  BY <3>1, <3>2, Ids DEF Live, Spawning
  <2> QED  BY <2>1 DEF IInv, Counting
<1>13. ASSUME NEW g \in 0..n, Add(g) PROVE Counting'
  <2>1. IsFiniteSet(Live) /\ IsFiniteSet(Spawning)
    BY CountedFinite DEF IInv
  <2>2. Cardinality(Live) \in Nat /\ Cardinality(Spawning) \in Nat
    BY <2>1, FS_CardinalityType
  <2>3. g \notin Spawning /\ Live' = Live /\ Spawning' = Spawning \cup {g}
    BY <1>13 DEF IInv, TypeOK, Add, GoTo, Live, Spawning
  <2>4. Cardinality(Spawning') = Cardinality(Spawning) + 1
    BY <2>1, <2>3, FS_AddElement
  <2> QED  BY <1>13, <2>2, <2>3, <2>4 DEF IInv, Counting, Add
<1>14. ASSUME NEW g \in 0..n, AcquireTask(g) PROVE Counting'
  <2>1. IsFiniteSet(Live) /\ IsFiniteSet(Spawning)
    BY CountedFinite DEF IInv
  <2>2. Cardinality(Live) \in Nat /\ Cardinality(Spawning) \in Nat
    BY <2>1, FS_CardinalityType
  <2>3. g \in Spawning /\ Spawning' = Spawning \ {g}
    BY <1>14 DEF IInv, TypeOK, AcquireTask, Spawning
  <2>4. PICK m \in Nat : m = n + 1
    BY DEF IInv, TypeOK
  <2>5. m \notin Live /\ Live' = Live \cup {m}
    BY <1>14, <2>4 DEF IInv, TypeOK, AcquireTask, Live
  <2>6. Cardinality(Spawning') = Cardinality(Spawning) - 1
    BY <2>1, <2>3, FS_RemoveElement
  <2>7. Cardinality(Live') = Cardinality(Live) + 1
    BY <2>1, <2>5, FS_AddElement
  <2> QED  BY <1>14, <2>2, <2>6, <2>7 DEF IInv, Counting, AcquireTask
<1>15. ASSUME NEW g \in 1..n, SendResult(g) PROVE Counting'
  <2>1. Live' = Live /\ Spawning' = Spawning /\ wg' = wg
    BY <1>15 DEF IInv, TypeOK, SendResult, GoTo, procs, Live, Spawning
  <2> QED  BY <2>1 DEF IInv, Counting
<1>16. ASSUME NEW g \in 1..n, ReleaseTask(g) PROVE Counting'
  <2>1. Live' = Live /\ Spawning' = Spawning /\ wg' = wg
    BY <1>16 DEF IInv, TypeOK, ReleaseTask, GoTo, procs, Live, Spawning
  <2> QED  BY <2>1 DEF IInv, Counting
<1>17. ASSUME NEW g \in 1..n, Done(g) PROVE Counting'
  <2>1. IsFiniteSet(Live) /\ IsFiniteSet(Spawning)
    BY CountedFinite DEF IInv
  <2>2. Cardinality(Live) \in Nat /\ Cardinality(Spawning) \in Nat
    BY <2>1, FS_CardinalityType
  <2>3. g \in Live /\ Live' = Live \ {g} /\ Spawning' = Spawning
    BY <1>17 DEF IInv, TypeOK, Done, GoTo, Live, Spawning
  <2>4. Cardinality(Live') = Cardinality(Live) - 1
    BY <2>1, <2>3, FS_RemoveElement
  <2> QED  BY <1>17, <2>2, <2>3, <2>4 DEF IInv, Counting, Done
<1>18. CASE UNCHANGED vars
  BY <1>18 DEF IInv, vars, Counting, Live, Spawning
<1> QED
  BY NextCases, <1>1, <1>2, <1>3, <1>4, <1>5, <1>6, <1>7, <1>8, <1>9, <1>10, <1>11, <1>12, <1>13, <1>14, <1>15, <1>16, <1>17, <1>18 DEF IInv

(* Nothing happens before readFiles has marked the roots.                  *)
LEMMA FreshStep ==
  ASSUME IInv, [Next]_vars
  PROVE  Fresh'
<1>1. CASE Refuse
  BY <1>1 DEF IInv, Refuse, GoTo, disk, graph, chans, procs, TypeOK, Fresh, Abstract!Refused
<1>2. CASE Start
  <2>1. pc[0] = "unborn" /\ pc'[0] = "mark" /\ ~Abstract!Refused'
    <3>1. pc[0] = "unborn"
      BY <1>2 DEF IInv, Start, Fresh
    <3>2. pc'[0] = "mark"
      BY <1>2 DEF IInv, TypeOK, Start, GoTo
    <3>3. ~Abstract!Refused'
      BY <1>2, PoolAssumption DEF Start, disk, Abstract!Refused
    <3> QED  BY <3>1, <3>2, <3>3
  <2>2. main' = "loop" /\ UNCHANGED <<n, wg, results, nxt, targets>>
    BY <1>2 DEF Start, graph
  <2> QED  BY <2>1, <2>2 DEF IInv, Fresh
<1>3. CASE ReceiveNode
  BY <1>3 DEF IInv, ReceiveNode, GoTo, disk, graph, chans, procs, TypeOK, Fresh, Abstract!Refused
<1>4. CASE ReceiveError
  BY <1>4 DEF IInv, ReceiveError, GoTo, disk, graph, chans, procs, TypeOK, Fresh, Abstract!Refused
<1>5. CASE ReceiveClosed
  BY <1>5 DEF IInv, ReceiveClosed, GoTo, disk, graph, chans, procs, TypeOK, Fresh, Abstract!Refused
<1>6. CASE Index
  BY <1>6 DEF IInv, Index, GoTo, disk, graph, chans, procs, TypeOK, Fresh, Abstract!Refused
<1>7. CASE WaitDone
  BY <1>7 DEF IInv, WaitDone, GoTo, disk, graph, chans, procs, TypeOK, Fresh, Abstract!Refused
<1>8. CASE CloseTask
  BY <1>8 DEF IInv, CloseTask, GoTo, disk, graph, chans, procs, TypeOK, Fresh, Abstract!Refused
<1>9. CASE CloseResults
  BY <1>9 DEF IInv, CloseResults, GoTo, disk, graph, chans, procs, TypeOK, Fresh, Abstract!Refused
<1>10. CASE MarkRoots
  <2>1. pc[0] = "mark" /\ pc'[0] = "next" /\ UNCHANGED <<main, roots>>
    BY <1>10 DEF IInv, TypeOK, MarkRoots, GoTo, disk
  <2>2. \A i \in 1..Len(roots) : roots[i] \in Files /\ roots[i] \in Elems(roots)
    BY Lists DEF IInv, Elems
  <2>3. \A i \in 1..Len(roots) : targets'[roots[i]] # "absent"
    BY <1>10, <2>2 DEF MarkRoots
  <2> QED  BY <2>1, <2>3 DEF IInv, Fresh, Abstract!Refused
<1>11. CASE StartCloser
  BY <1>11 DEF IInv, StartCloser, GoTo, disk, graph, chans, procs, TypeOK, Fresh, Abstract!Refused
<1>12. ASSUME NEW g \in 0..n, Decide(g) PROVE Fresh'
  <2>1. n \in Nat /\ pc[0] \notin {"unborn", "mark"}
    BY <1>12 DEF IInv, TypeOK, Decide, Fresh
  <2>2. pc'[0] \notin {"unborn", "mark"} /\ pc'[0] # "unborn"
    BY <1>12, <2>1 DEF IInv, TypeOK, Decide, GoTo
  <2>3. \A i \in 1..Len(roots) : targets'[roots[i]] # "absent"
    BY <1>12, <2>1, Lists DEF IInv, TypeOK, Decide, Fresh
  <2> QED  BY <1>12, <2>1, <2>2, <2>3 DEF IInv, Decide, disk, Fresh, Abstract!Refused
<1>13. ASSUME NEW g \in 0..n, Add(g) PROVE Fresh'
  BY <1>13 DEF IInv, Add, GoTo, disk, graph, chans, procs, TypeOK, Fresh, Abstract!Refused
<1>14. ASSUME NEW g \in 0..n, AcquireTask(g) PROVE Fresh'
  BY <1>14 DEF IInv, AcquireTask, GoTo, disk, graph, chans, procs, TypeOK, Fresh, Abstract!Refused
<1>15. ASSUME NEW g \in 1..n, SendResult(g) PROVE Fresh'
  BY <1>15 DEF IInv, SendResult, GoTo, disk, graph, chans, procs, TypeOK, Fresh, Abstract!Refused
<1>16. ASSUME NEW g \in 1..n, ReleaseTask(g) PROVE Fresh'
  BY <1>16 DEF IInv, ReleaseTask, GoTo, disk, graph, chans, procs, TypeOK, Fresh, Abstract!Refused
<1>17. ASSUME NEW g \in 1..n, Done(g) PROVE Fresh'
  BY <1>17 DEF IInv, Done, GoTo, disk, graph, chans, procs, TypeOK, Fresh, Abstract!Refused
<1>18. CASE UNCHANGED vars
  BY <1>18 DEF IInv, vars, Fresh, Abstract!Refused
<1> QED
  BY NextCases, <1>1, <1>2, <1>3, <1>4, <1>5, <1>6, <1>7, <1>8, <1>9, <1>10, <1>11, <1>12, <1>13, <1>14, <1>15, <1>16, <1>17, <1>18 DEF IInv

(* The closing goroutine waits for all readers.                            *)
LEMMA ClosingStep ==
  ASSUME IInv, [Next]_vars
  PROVE  Closing'
<1>1. CASE Refuse
  BY <1>1 DEF IInv, Refuse, GoTo, disk, graph, chans, procs, TypeOK, Closing
<1>2. CASE Start
  BY <1>2 DEF IInv, Start, GoTo, disk, graph, chans, procs, TypeOK, Closing, Fresh
<1>3. CASE ReceiveNode
  BY <1>3 DEF IInv, ReceiveNode, GoTo, disk, graph, chans, procs, TypeOK, Closing
<1>4. CASE ReceiveError
  BY <1>4 DEF IInv, ReceiveError, GoTo, disk, graph, chans, procs, TypeOK, Closing
<1>5. CASE ReceiveClosed
  BY <1>5 DEF IInv, ReceiveClosed, GoTo, disk, graph, chans, procs, TypeOK, Closing
<1>6. CASE Index
  BY <1>6 DEF IInv, Index, GoTo, disk, graph, chans, procs, TypeOK, Closing
<1>7. CASE WaitDone
  BY <1>7 DEF IInv, WaitDone, GoTo, disk, graph, chans, procs, TypeOK, Closing
<1>8. CASE CloseTask
  BY <1>8 DEF IInv, CloseTask, GoTo, disk, graph, chans, procs, TypeOK, Closing
<1>9. CASE CloseResults
  BY <1>9 DEF IInv, CloseResults, GoTo, disk, graph, chans, procs, TypeOK, Closing
<1>10. CASE MarkRoots
  BY <1>10 DEF IInv, MarkRoots, GoTo, disk, graph, chans, procs, TypeOK, Closing
<1>11. CASE StartCloser
  BY <1>11 DEF IInv, StartCloser, GoTo, disk, graph, chans, procs, TypeOK, Closing
<1>12. ASSUME NEW g \in 0..n, Decide(g) PROVE Closing'
  BY <1>12 DEF IInv, Decide, GoTo, disk, graph, chans, procs, TypeOK, Closing
<1>13. ASSUME NEW g \in 0..n, Add(g) PROVE Closing'
  <2>0. g \in 0..n /\ pc[g] # "done"
    BY <1>13 DEF IInv, TypeOK, Add
  <2>1. closer \in {"unborn", "wait"}
    BY <2>0, Quiet DEF IInv, TypeOK
  <2> QED  BY <1>13, <2>1 DEF IInv, Add, GoTo, disk, graph, chans, procs, TypeOK, Closing
<1>14. ASSUME NEW g \in 0..n, AcquireTask(g) PROVE Closing'
  BY <1>14 DEF IInv, AcquireTask, GoTo, disk, graph, chans, procs, TypeOK, Closing
<1>15. ASSUME NEW g \in 1..n, SendResult(g) PROVE Closing'
  BY <1>15 DEF IInv, SendResult, GoTo, disk, graph, chans, procs, TypeOK, Closing
<1>16. ASSUME NEW g \in 1..n, ReleaseTask(g) PROVE Closing'
  BY <1>16 DEF IInv, ReleaseTask, GoTo, disk, graph, chans, procs, TypeOK, Closing
<1>17. ASSUME NEW g \in 1..n, Done(g) PROVE Closing'
  <2>0. g \in 0..n /\ pc[g] # "done"
    BY <1>17 DEF IInv, TypeOK, Done
  <2>1. closer \in {"unborn", "wait"}
    BY <2>0, Quiet DEF IInv, TypeOK
  <2> QED  BY <1>17, <2>1 DEF IInv, Done, GoTo, disk, graph, chans, procs, TypeOK, Closing
<1>18. CASE UNCHANGED vars
  BY <1>18 DEF IInv, vars, Closing
<1> QED
  BY NextCases, <1>1, <1>2, <1>3, <1>4, <1>5, <1>6, <1>7, <1>8, <1>9, <1>10, <1>11, <1>12, <1>13, <1>14, <1>15, <1>16, <1>17, <1>18 DEF IInv

(* The files do not change under the reader.                               *)
LEMMA ReachStays ==
  ASSUME IInv, [Next]_vars
  PROVE  Abstract!Reach' = Abstract!Reach /\ Abstract!Refused' = Abstract!Refused
BY ListsStay DEF disk, Abstract!Reach, Abstract!Refused, Abstract!Closed, Abstract!Elems

(* A reader that has delivered its result, or failed, stays so.            *)
LEMMA PastStays ==
  ASSUME IInv, [Next]_vars, NEW h \in 1..n
  PROVE  /\ h \in 1..n' /\ file'[h] = file[h]
         /\ pc[h] \in Past => pc'[h] \in Past
         /\ pc[h] = "failed" => pc'[h] = "failed"
<1>1. h \in 1..n' /\ file'[h] = file[h]
  BY ListsStay
<1>2. h \in 0..n /\ h # 0 /\ pc \in [0..n -> Labels] /\ n \in Nat /\ 0 \in 0..n
  BY DEF IInv, TypeOK
<1>3. \/ UNCHANGED pc
      \/ \E g \in 0..n : /\ \/ Decide(g) \/ Add(g) \/ AcquireTask(g)
                            \/ SendResult(g) \/ ReleaseTask(g) \/ Done(g)
                            \/ g = 0 /\ (Start \/ MarkRoots \/ StartCloser)
  <2>1. Refuse \/ ReceiveNode \/ ReceiveError \/ ReceiveClosed \/ Index \/ WaitDone
          \/ CloseTask \/ CloseResults \/ UNCHANGED vars => UNCHANGED pc
    BY DEF Refuse, ReceiveNode, ReceiveError, ReceiveClosed, Index, WaitDone,
       CloseTask, CloseResults, vars, procs
  <2>2. \A g \in 1..n : g \in 0..n
    BY <1>2
  <2> QED  BY NextCases, <1>2, <2>1, <2>2 DEF IInv
<1>4. ASSUME NEW g \in 0..n, g # h,
             \/ Decide(g) \/ Add(g) \/ AcquireTask(g)
             \/ SendResult(g) \/ ReleaseTask(g) \/ Done(g)
             \/ g = 0 /\ (Start \/ MarkRoots \/ StartCloser)
      PROVE  pc'[h] = pc[h]
  BY <1>2, <1>4, OthersStay
<1>5. ASSUME \/ Decide(h) \/ Add(h) \/ AcquireTask(h)
             \/ SendResult(h) \/ ReleaseTask(h) \/ Done(h)
      PROVE  /\ pc[h] \in Past => pc'[h] \in Past
             /\ pc[h] # "failed"
  BY <1>2, <1>5 DEF Decide, Add, AcquireTask, SendResult, ReleaseTask, Done, GoTo, Past
<1> QED  BY <1>1, <1>2, <1>3, <1>4, <1>5

(* A scheduled file stays scheduled.                                       *)
LEMMA ScheduledStays ==
  ASSUME IInv, [Next]_vars, NEW f \in Files, targets[f] # "absent"
  PROVE  targets'[f] # "absent"
<1>1. targets \in [Files -> {"absent", "nil", "node"}]
  BY DEF IInv, TypeOK
<1> QED
  BY <1>1, NextCases DEF IInv, Refuse, Start, ReceiveNode, ReceiveError,
     ReceiveClosed, Index, WaitDone, CloseTask, CloseResults, MarkRoots,
     StartCloser, vars, Decide, Add, AcquireTask, SendResult, ReleaseTask, Done,
     graph

(* A reader that is not done runs before the channels are closed, and the  *)
(* caller is not past its loop.                                            *)
LEMMA RunsBeforeClose ==
  ASSUME IInv, NEW g \in 0..n, pc[g] # "done"
  PROVE  /\ closer \in {"unborn", "wait"}
         /\ ~taskClosed /\ ~resultsClosed /\ main \notin {"index", "graph"}
<1>1. closer \in {"unborn", "wait"}
  BY Quiet DEF IInv, TypeOK
<1> QED  BY <1>1 DEF IInv, TypeOK, Closing, Results

(* When the caller indexes, every dependency of a target is a target.      *)
LEMMA IndexClosed ==
  ASSUME IInv, main \in {"index", "graph"}
  PROVE  /\ \A e \in EdgesOf(Targets) : e[2] \in Targets
         /\ Targets = Nodes /\ Abstract!Closed(Nodes) /\ Nodes \cap bad = {}
<1>1. \A g \in 0..n : pc[g] = "done"
  BY RunsBeforeClose
<1>2. Targets = Nodes
  BY DEF IInv, Tail0, Targets, Nodes, TypeOK
<1>3. \A f \in Nodes : f \notin bad /\ Elems(deps[f]) \subseteq Nodes
  <2> SUFFICES ASSUME NEW f \in Nodes PROVE f \notin bad /\ Elems(deps[f]) \subseteq Nodes
    OBVIOUS
  <2>1. PICK g \in 1..n : file[g] = f
    BY DEF IInv, Results, Nodes
  <2>2. g \in 0..n /\ g # 0 /\ pc[g] = "done" /\ ShapeOf(g)
    BY <1>1 DEF IInv, TypeOK, Shape
  <2>3. f \notin bad /\ nxt[g] = Len(deps[f]) + 1 /\ f \in Files
    BY <2>1, <2>2 DEF ShapeOf, Past, ListOf, Nodes
  <2>4. \A j \in 1..Len(deps[f]) : deps[f][j] \in Nodes
    <3>1. Len(deps[f]) \in Nat /\ \A j \in 1..Len(deps[f]) : deps[f][j] \in Files
      BY <2>3, Lists DEF IInv
    <3>2. \A j \in 1..Len(deps[f]) : targets[deps[f][j]] # "absent"
      BY <2>1, <2>3, <3>1 DEF IInv, Scheduling
    <3> QED  BY <1>2, <3>1, <3>2 DEF Targets
  <2> QED  BY <2>3, <2>4 DEF Elems
<1>4. Elems(roots) \subseteq Nodes
  <2>1. 0 \in 0..n /\ pc[0] = "done"
    BY <1>1 DEF IInv, TypeOK
  <2> QED  BY <1>2, <2>1, Lists DEF IInv, Fresh, Elems, Targets
<1>5. Abstract!Closed(Nodes)
  BY <1>3, <1>4 DEF Abstract!Closed, Abstract!Elems, Elems
<1>6. \A e \in EdgesOf(Targets) : e[2] \in Targets
  BY <1>2, <1>3 DEF EdgesOf
<1> QED  BY <1>2, <1>3, <1>5, <1>6

(* A step that sends, receives and closes nothing keeps the origins.       *)
LEMMA ResultsStay ==
  ASSUME IInv, [Next]_vars, UNCHANGED <<results, resultsNil, resultsClosed, main>>,
         \A f \in Files : targets'[f] = "node" => targets[f] = "node"
  PROVE  Results'
<1>1. ASSUME NEW i \in 1..Len(results)
      PROVE  \E h \in 1..n' : /\ file'[h] = results[i].file
                              /\ IF results[i].kind = "node" THEN pc'[h] \in Past ELSE pc'[h] = "failed"
  <2>1. PICK h \in 1..n : /\ file[h] = results[i].file
                          /\ IF results[i].kind = "node" THEN pc[h] \in Past ELSE pc[h] = "failed"
    BY DEF IInv, Results
  <2> QED  BY <2>1, PastStays
<1>2. \A f \in Files : targets'[f] = "node" => \E h \in 1..n' : file'[h] = f /\ pc'[h] \in Past
  BY PastStays DEF IInv, Results
<1>3. (\E h \in 1..n : pc[h] = "failed") => (\E h \in 1..n' : pc'[h] = "failed")
  BY PastStays
<1> QED  BY <1>1, <1>2, <1>3, ReachStays DEF IInv, Results

(* Results come from readers.                                              *)
LEMMA ResultsStep ==
  ASSUME IInv, [Next]_vars
  PROVE  Results'
<1>1. CASE Refuse
  BY <1>1, PastStays, ReachStays DEF IInv, Refuse, graph, chans, procs, Results, Fresh, Abstract!Refused
<1>2. CASE Start
  BY <1>2, PastStays, ReachStays DEF IInv, TypeOK, Start, graph, Results, Fresh
<1>3. CASE ReceiveNode
  <2>0. Head(results) = results[1] /\ 1 \in 1..Len(results)
    BY <1>3, Received DEF IInv, ReceiveNode
  <2>1. PICK h \in 1..n : file[h] = Head(results).file /\ pc[h] \in Past
    BY <1>3, <2>0 DEF IInv, Results, ReceiveNode
  <2>2. \A f \in Files : targets'[f] = "node" => \E g \in 1..n' : file'[g] = f /\ pc'[g] \in Past
    <3>1. \A f \in Files : targets'[f] = "node" => f = Head(results).file \/ targets[f] = "node"
      BY <1>3 DEF IInv, TypeOK, ReceiveNode
    <3> QED  BY <2>1, <3>1, PastStays DEF IInv, Results
  <2>3. \A i \in 1..Len(results') : i + 1 \in 1..Len(results) /\ results'[i] = results[i + 1]
    BY <1>3, Received DEF IInv, ReceiveNode
  <2>4. \A i \in 1..Len(results') :
           \E g \in 1..n' : /\ file'[g] = results'[i].file
                            /\ IF results'[i].kind = "node" THEN pc'[g] \in Past ELSE pc'[g] = "failed"
    <3> SUFFICES ASSUME NEW i \in 1..Len(results')
                 PROVE  \E g \in 1..n' : /\ file'[g] = results'[i].file
                            /\ IF results'[i].kind = "node" THEN pc'[g] \in Past ELSE pc'[g] = "failed"
      OBVIOUS
    <3>1. PICK k \in 1..n : /\ file[k] = results[i + 1].file
                            /\ IF results[i + 1].kind = "node" THEN pc[k] \in Past ELSE pc[k] = "failed"
      BY <2>3 DEF IInv, Results
    <3> QED  BY <2>3, <3>1, PastStays
  <2> QED  BY <1>3, <2>2, <2>4, PastStays, ReachStays DEF IInv, Results, ReceiveNode
<1>4. CASE ReceiveError
  <2>1. PICK h \in 1..n : pc[h] = "failed"
    BY <1>4, Received DEF IInv, Results, ReceiveError
  <2>3. \A i \in 1..Len(results') : i + 1 \in 1..Len(results) /\ results'[i] = results[i + 1]
    BY <1>4, Received DEF IInv, ReceiveError
  <2>4. \A i \in 1..Len(results') :
           \E g \in 1..n' : /\ file'[g] = results'[i].file
                            /\ IF results'[i].kind = "node" THEN pc'[g] \in Past ELSE pc'[g] = "failed"
    <3> SUFFICES ASSUME NEW i \in 1..Len(results')
                 PROVE  \E g \in 1..n' : /\ file'[g] = results'[i].file
                            /\ IF results'[i].kind = "node" THEN pc'[g] \in Past ELSE pc'[g] = "failed"
      OBVIOUS
    <3>1. PICK k \in 1..n : /\ file[k] = results[i + 1].file
                            /\ IF results[i + 1].kind = "node" THEN pc[k] \in Past ELSE pc[k] = "failed"
      BY <2>3 DEF IInv, Results
    <3> QED  BY <2>3, <3>1, PastStays
  <2> QED  BY <1>4, <2>1, <2>4, PastStays DEF IInv, Results, ReceiveError, graph
<1>5. CASE ReceiveClosed
  BY <1>5, PastStays, ReachStays DEF IInv, ReceiveClosed, graph, procs, Results
<1>6. CASE Index
  <2>1. \A e \in EdgesOf(Targets) : e[2] \in Targets
    BY IndexClosed, <1>6 DEF Index
  <2> QED  BY <1>6, <2>1, PastStays, ReachStays DEF IInv, Index, chans, Results
<1>7. CASE WaitDone
  BY <1>7, ResultsStay DEF IInv, TypeOK, WaitDone, graph, chans
<1>8. CASE CloseTask
  BY <1>8, ResultsStay DEF IInv, TypeOK, CloseTask, graph, chans
<1>9. CASE CloseResults
  BY <1>9, PastStays, ReachStays DEF IInv, CloseResults, graph, procs, Results, Closing
<1>10. CASE MarkRoots
  <2>1. \A f \in Files : targets'[f] = "node" => targets[f] = "node"
    BY <1>10 DEF IInv, TypeOK, MarkRoots, graph
  <2>2. UNCHANGED <<results, resultsNil, resultsClosed, main>>
    BY <1>10 DEF MarkRoots, chans
  <2> QED  BY <2>1, <2>2, ResultsStay
<1>11. CASE StartCloser
  BY <1>11, ResultsStay DEF IInv, TypeOK, StartCloser, graph, chans
<1>12. ASSUME NEW g \in 0..n, Decide(g) PROVE Results'
  <2>1. \A f \in Files : targets'[f] = "node" => targets[f] = "node"
    BY <1>12 DEF IInv, TypeOK, Decide, graph
  <2>2. UNCHANGED <<results, resultsNil, resultsClosed, main>>
    BY <1>12 DEF Decide, chans
  <2> QED  BY <2>1, <2>2, ResultsStay
<1>13. ASSUME NEW g \in 0..n, Add(g) PROVE Results'
  <2>1. \A f \in Files : targets'[f] = "node" => targets[f] = "node"
    BY <1>13 DEF IInv, TypeOK, Add, graph
  <2>2. UNCHANGED <<results, resultsNil, resultsClosed, main>>
    BY <1>13 DEF Add, chans
  <2> QED  BY <2>1, <2>2, ResultsStay
<1>14. ASSUME NEW g \in 0..n, AcquireTask(g) PROVE Results'
  <2>1. \A f \in Files : targets'[f] = "node" => targets[f] = "node"
    BY <1>14 DEF IInv, TypeOK, AcquireTask, graph
  <2>2. UNCHANGED <<results, resultsNil, resultsClosed, main>>
    BY <1>14 DEF AcquireTask, chans
  <2> QED  BY <2>1, <2>2, ResultsStay
<1>15. ASSUME NEW g \in 1..n, SendResult(g) PROVE Results'
  <2>1. file[g] \in Files /\ g \in 1..n'
    BY <1>15 DEF IInv, TypeOK, SendResult
  <2>2. pc'[g] = IF file[g] \in bad THEN "failed" ELSE "release"
    BY <1>15 DEF SendResult, GoTo, IInv, TypeOK
  <2>3. main \notin {"index", "graph"} /\ ~resultsClosed
    BY <1>15, RunsBeforeClose DEF SendResult
  <2>4. \A i \in 1..Len(results') :
           \E h \in 1..n' : /\ file'[h] = results'[i].file
                            /\ IF results'[i].kind = "node" THEN pc'[h] \in Past ELSE pc'[h] = "failed"
    <3> SUFFICES ASSUME NEW i \in 1..Len(results')
                 PROVE  \E h \in 1..n' : /\ file'[h] = results'[i].file
                            /\ IF results'[i].kind = "node" THEN pc'[h] \in Past ELSE pc'[h] = "failed"
      OBVIOUS
    <3>1. CASE i \in 1..Len(results)
      <4>1. results'[i] = results[i]
        BY <1>15, <2>1, <2>3, <3>1, Sent DEF IInv, SendResult
      <4> QED  BY <3>1, <4>1, PastStays DEF IInv, Results
    <3>2. CASE i = Len(results) + 1
      <4>1. results'[i] = ResultOf(file[g])
        BY <1>15, <2>1, <2>3, <3>2, Sent DEF IInv, SendResult
      <4>2. file'[g] = file[g] /\ results'[i].file = file[g] /\ (results'[i].kind = "node" <=> file[g] \notin bad)
        BY <4>1, PastStays DEF ResultOf
      <4> QED  BY <2>1, <2>2, <4>2 DEF Past
    <3>3. Len(results') = Len(results) + 1 /\ Len(results) \in Nat
      BY <1>15, <2>1, <2>3, Sent DEF IInv, SendResult
    <3> QED  BY <3>1, <3>2, <3>3
  <2> QED  BY <1>15, <2>3, <2>4, PastStays, ReachStays DEF IInv, Results, SendResult, graph
<1>16. ASSUME NEW g \in 1..n, ReleaseTask(g) PROVE Results'
  BY <1>16, ResultsStay DEF IInv, TypeOK, ReleaseTask, graph, chans
<1>17. ASSUME NEW g \in 1..n, Done(g) PROVE Results'
  BY <1>17, ResultsStay DEF IInv, TypeOK, Done, graph, chans
<1>18. CASE UNCHANGED vars
  BY <1>18, ResultsStay DEF vars
<1> QED
  BY NextCases, <1>1, <1>2, <1>3, <1>4, <1>5, <1>6, <1>7, <1>8, <1>9, <1>10, <1>11, <1>12, <1>13, <1>14, <1>15, <1>16, <1>17, <1>18 DEF IInv

(* What keeps a marked file pending: an unscheduled root, a goroutine that *)
(* is spawning its reader, its reader, or its result.                      *)
LEMMA PendingStays ==
  ASSUME IInv, [Next]_vars, NEW f \in Files,
         \A i \in nxt[0]..Len(roots) : roots[i] = f => i \in nxt'[0]..Len(roots),
         \A h \in 1..n : pc[h] \in {"add", "acquire"} /\ Current(h) = f
                          => pc'[h] \in {"add", "acquire"} /\ nxt'[h] = nxt[h],
         \A h \in 1..n : pc[h] \in {"read", "failed"} /\ file[h] = f
                          => pc'[h] \in {"read", "failed"},
         \A i \in 1..Len(results) : results[i].file = f
                          => \E j \in 1..Len(results') : results'[j].file = f,
         Pending(f)
  PROVE  Pending(f)'
<1>1. roots' = roots
  BY ListsStay DEF disk
<1>2. \A h \in 1..n : h \in 1..n' /\ h \in 0..n /\ file'[h] = file[h] /\ ListOf(h)' = ListOf(h)
  BY ListsStay DEF IInv, TypeOK
<1>3. CASE \E i \in nxt[0]..Len(roots) : roots[i] = f
  BY <1>1, <1>3 DEF Pending
<1>4. CASE \E h \in 1..n : pc[h] \in {"add", "acquire"} /\ Current(h) = f
  BY <1>2, <1>4 DEF Pending, Current
<1>5. CASE \E h \in 1..n : pc[h] \in {"read", "failed"} /\ file[h] = f
  BY <1>2, <1>5 DEF Pending
<1>6. CASE \E i \in 1..Len(results) : results[i].file = f
  BY <1>6 DEF Pending
<1> QED  BY <1>3, <1>4, <1>5, <1>6 DEF Pending

(* Every file marked nil is pending while the caller loops.                *)
LEMMA NilStep ==
  ASSUME IInv, [Next]_vars
  PROVE  NilIsPending'
<1>1. CASE Refuse
  BY <1>1 DEF Refuse, NilIsPending
<1>2. CASE Start
  BY <1>2 DEF IInv, TypeOK, Start, graph, NilIsPending, Fresh
<1>3. CASE ReceiveNode
  <2> SUFFICES ASSUME NEW f \in Files, main = "loop", targets'[f] = "nil"
               PROVE  Pending(f)'
    BY <1>3 DEF ReceiveNode, NilIsPending
  <2>1. targets[f] = "nil" /\ f # Head(results).file /\ UNCHANGED <<nxt, pc>>
    BY <1>3, Received DEF IInv, TypeOK, ReceiveNode, procs
  <2>2. \A i \in 1..Len(results) : results[i].file = f
           => i - 1 \in 1..Len(results') /\ results'[i - 1] = results[i]
    BY <1>3, <2>1, Received DEF IInv, ReceiveNode
  <2> QED  BY <2>1, <2>2, PendingStays DEF IInv, NilIsPending
<1>4. CASE ReceiveError
  BY <1>4 DEF ReceiveError, NilIsPending
<1>5. CASE ReceiveClosed
  BY <1>5 DEF ReceiveClosed, NilIsPending
<1>6. CASE Index
  <2>1. main' # "loop"
    BY <1>6 DEF Index
  <2> QED  BY <2>1 DEF NilIsPending
<1>7. CASE WaitDone
  <2>1. UNCHANGED <<targets, roots, nxt, pc, n, results, main>>
    BY <1>7 DEF WaitDone, graph, chans, procs, disk
  <2>2. ASSUME NEW f \in Files, Pending(f) PROVE Pending(f)'
    BY <2>1, <2>2, PendingStays
  <2> QED  BY <2>1, <2>2 DEF IInv, NilIsPending
<1>8. CASE CloseTask
  <2>1. UNCHANGED <<targets, roots, nxt, pc, n, results, main>>
    BY <1>8 DEF CloseTask, graph, chans, procs, disk
  <2>2. ASSUME NEW f \in Files, Pending(f) PROVE Pending(f)'
    BY <2>1, <2>2, PendingStays
  <2> QED  BY <2>1, <2>2 DEF IInv, NilIsPending
<1>9. CASE CloseResults
  <2>1. UNCHANGED <<targets, roots, nxt, pc, n, results, main>>
    BY <1>9 DEF CloseResults, graph, chans, procs, disk
  <2>2. ASSUME NEW f \in Files, Pending(f) PROVE Pending(f)'
    BY <2>1, <2>2, PendingStays
  <2> QED  BY <2>1, <2>2 DEF IInv, NilIsPending
<1>10. CASE MarkRoots
  <2> SUFFICES ASSUME NEW f \in Files, targets'[f] = "nil" PROVE Pending(f)'
    BY DEF NilIsPending
  <2>1. PICK i \in 1..Len(roots) : roots[i] = f
    BY <1>10 DEF IInv, TypeOK, MarkRoots, Fresh, Elems
  <2>2. nxt'[0] = 1 /\ roots' = roots
    BY <1>10 DEF IInv, MarkRoots, Fresh, disk
  <2> QED  BY <2>1, <2>2 DEF Pending
<1>11. CASE StartCloser
  <2> SUFFICES ASSUME NEW f \in Files, main = "loop", targets'[f] = "nil"
               PROVE  Pending(f)'
    BY <1>11 DEF StartCloser, NilIsPending
  <2>1. targets[f] = "nil" /\ UNCHANGED <<nxt, results>>
    BY <1>11 DEF StartCloser, graph, chans
  <2>2. \A h \in 1..n : pc'[h] = pc[h]
    BY <1>11, OthersStay, Ids
  <2> QED  BY <2>1, <2>2, PendingStays DEF IInv, NilIsPending
<1>12. ASSUME NEW g \in 0..n, Decide(g) PROVE NilIsPending'
  <2> SUFFICES ASSUME NEW f \in Files, main = "loop", targets'[f] = "nil"
               PROVE  Pending(f)'
    BY <1>12 DEF Decide, NilIsPending
  <2>0. n \in Nat /\ 0 \in 0..n /\ pc[g] = "next" /\ UNCHANGED <<results, roots, deps, n, file>>
    BY <1>12 DEF IInv, TypeOK, Decide, chans, disk
  <2>2. \A h \in 0..n : h # g => pc'[h] = pc[h] /\ nxt'[h] = nxt[h]
    BY <1>12, OthersStay
  <2>3. g = 0 => nxt'[0] = nxt[0]
    BY <1>12 DEF Decide
  <2>4. CASE targets[f] = "nil"
    BY <2>0, <2>2, <2>3, <2>4, PendingStays DEF IInv, NilIsPending
  <2>5. CASE targets[f] # "nil"
    <3>1. g \in 1..n /\ Current(g) = f /\ pc'[g] = "add" /\ nxt'[g] = nxt[g]
      BY <1>12, <2>0, <2>5 DEF IInv, TypeOK, Decide, GoTo
    <3>2. Current(g)' = f
      BY <2>0, <3>1 DEF Current, ListOf
    <3> QED  BY <2>0, <3>1, <3>2 DEF Pending
  <2> QED  BY <2>4, <2>5
<1>13. ASSUME NEW g \in 0..n, Add(g) PROVE NilIsPending'
  <2> SUFFICES ASSUME NEW f \in Files, main = "loop", targets'[f] = "nil"
               PROVE  Pending(f)'
    BY <1>13 DEF Add, NilIsPending
  <2>1. targets[f] = "nil" /\ UNCHANGED <<nxt, results>> /\ pc[g] = "add" /\ pc'[g] = "acquire"
    BY <1>13 DEF IInv, TypeOK, Add, GoTo, graph, chans
  <2>2. \A h \in 1..n : h # g => pc'[h] = pc[h]
    BY <1>13, OthersStay, Ids
  <2> QED  BY <2>1, <2>2, PendingStays DEF IInv, NilIsPending
<1>14. ASSUME NEW g \in 0..n, AcquireTask(g) PROVE NilIsPending'
  <2> SUFFICES ASSUME NEW f \in Files, main = "loop", targets'[f] = "nil"
               PROVE  Pending(f)'
    BY <1>14 DEF AcquireTask, NilIsPending
  <2>0. n \in Nat /\ 0 \in 0..n /\ pc[g] = "acquire" /\ UNCHANGED <<results, targets>>
    BY <1>14 DEF IInv, TypeOK, AcquireTask, graph
  <2>2. \A h \in 0..n : h # g => pc'[h] = pc[h] /\ nxt'[h] = nxt[h]
    BY <1>14, OthersStay
  <2>3. nxt'[g] = nxt[g] + 1 /\ nxt[g] \in Nat /\ Len(roots) \in Nat
    BY <1>14, Lists DEF AcquireTask, IInv, TypeOK
  <2>4. CASE Current(g) = f
    <3>1. PICK m \in Nat : m = n + 1
      BY <2>0
    <3>2. m \in 1..n' /\ pc'[m] = "read" /\ file'[m] = f
      BY <1>14, <2>0, <2>4, <3>1 DEF AcquireTask
    <3> QED  BY <3>2 DEF Pending
  <2>5. CASE Current(g) # f
    <3>1. \A i \in nxt[0]..Len(roots) : roots[i] = f => i \in nxt'[0]..Len(roots)
      BY <2>0, <2>2, <2>3, <2>5 DEF Current, ListOf, IInv, TypeOK
    <3> QED  BY <2>0, <2>2, <2>5, <3>1, PendingStays DEF IInv, NilIsPending
  <2> QED  BY <2>4, <2>5
<1>15. ASSUME NEW g \in 1..n, SendResult(g) PROVE NilIsPending'
  <2> SUFFICES ASSUME NEW f \in Files, main = "loop", targets'[f] = "nil"
               PROVE  Pending(f)'
    BY <1>15 DEF SendResult, NilIsPending
  <2>1. targets[f] = "nil" /\ UNCHANGED nxt /\ pc[g] = "read" /\ g \in 0..n
    BY <1>15 DEF IInv, TypeOK, SendResult, graph
  <2>2. \A h \in 1..n : h # g => pc'[h] = pc[h]
    BY <1>15, OthersStay, Ids
  <2>3. results' = Append(results, ResultOf(file[g])) /\ file[g] \in Files
    BY <1>15, <2>1, RunsBeforeClose DEF SendResult, IInv, TypeOK
  <2>4. /\ Len(results) \in Nat /\ Len(results') = Len(results) + 1
        /\ \A i \in 1..Len(results) : results'[i] = results[i]
        /\ results'[Len(results) + 1].file = file[g]
    BY <2>3, Sent DEF IInv, ResultOf
  <2>5. CASE file[g] = f
    BY <2>4, <2>5 DEF Pending
  <2>6. CASE file[g] # f
    BY <2>1, <2>2, <2>4, <2>6, PendingStays DEF IInv, NilIsPending
  <2> QED  BY <2>5, <2>6
<1>16. ASSUME NEW g \in 1..n, ReleaseTask(g) PROVE NilIsPending'
  <2> SUFFICES ASSUME NEW f \in Files, main = "loop", targets'[f] = "nil"
               PROVE  Pending(f)'
    BY <1>16 DEF ReleaseTask, NilIsPending
  <2>1. targets[f] = "nil" /\ UNCHANGED <<nxt, results>> /\ pc[g] \notin {"add", "acquire", "read", "failed"}
    BY <1>16 DEF ReleaseTask, graph, chans
  <2>2. \A h \in 1..n : h # g => pc'[h] = pc[h]
    BY <1>16, OthersStay, Ids
  <2> QED  BY <2>1, <2>2, PendingStays DEF IInv, NilIsPending
<1>17. ASSUME NEW g \in 1..n, Done(g) PROVE NilIsPending'
  <2> SUFFICES ASSUME NEW f \in Files, main = "loop", targets'[f] = "nil"
               PROVE  Pending(f)'
    BY <1>17 DEF Done, NilIsPending
  <2>1. targets[f] = "nil" /\ UNCHANGED <<nxt, results>> /\ pc[g] \notin {"add", "acquire", "read", "failed"}
    BY <1>17 DEF Done, graph, chans
  <2>2. \A h \in 1..n : h # g => pc'[h] = pc[h]
    BY <1>17, OthersStay, Ids
  <2> QED  BY <2>1, <2>2, PendingStays DEF IInv, NilIsPending
<1>18. CASE UNCHANGED vars
  <2>1. UNCHANGED <<targets, roots, nxt, pc, n, results, main>>
  BY <1>18 DEF vars
  <2>2. ASSUME NEW f \in Files, Pending(f) PROVE Pending(f)'
    BY <2>1, <2>2, PendingStays
  <2> QED  BY <2>1, <2>2 DEF IInv, NilIsPending
<1> QED
  BY NextCases, <1>1, <1>2, <1>3, <1>4, <1>5, <1>6, <1>7, <1>8, <1>9, <1>10, <1>11, <1>12, <1>13, <1>14, <1>15, <1>16, <1>17, <1>18 DEF IInv

(* A step that schedules no file and moves no reader forward keeps what is *)
(* known of the schedule.                                                  *)
LEMMA SchedulingStays ==
  ASSUME IInv, [Next]_vars, n' = n,
         \A f \in Files : targets'[f] # "absent" => f \in Abstract!Reach,
         \A h \in 1..n : \A j \in 1..Len(deps[file[h]]) :
           (j < nxt'[h] \/ (j = nxt'[h] /\ pc'[h] \in {"add", "acquire"}))
             => targets'[deps[file[h]][j]] # "absent"
  PROVE  Scheduling'
<1>1. \A h \in 1..n : file'[h] = file[h] /\ file[h] \in Files
  BY ListsStay DEF IInv, TypeOK
<1>2. deps' = deps
  BY ListsStay DEF disk
<1>3. \A h \in 1..n : targets'[file[h]] # "absent"
  BY <1>1, ScheduledStays DEF IInv, Scheduling
<1> QED  BY <1>1, <1>2, <1>3, ReachStays DEF Scheduling

(* The dependencies already scheduled stay scheduled.                      *)
LEMMA DepsStay ==
  ASSUME IInv, [Next]_vars, NEW h \in 1..n, NEW j \in 1..Len(deps[file[h]]),
         j < nxt[h] \/ (j = nxt[h] /\ pc[h] \in {"add", "acquire"})
  PROVE  targets'[deps[file[h]][j]] # "absent"
<1>1. deps[file[h]][j] \in Files
  BY Lists DEF IInv, TypeOK
<1> QED  BY <1>1, ScheduledStays DEF IInv, Scheduling

(* Scheduled files are reachable, and dependencies get scheduled.          *)
LEMMA SchedulingStep ==
  ASSUME IInv, [Next]_vars
  PROVE  Scheduling'
<1>1. CASE Refuse
  <2>1. n' = n /\ UNCHANGED <<targets, pc, nxt>>
    BY <1>1 DEF Refuse, graph, procs
  <2>2. \A f \in Files : targets'[f] # "absent" => f \in Abstract!Reach
    BY <2>1 DEF IInv, Scheduling
  <2> QED  BY <2>1, <2>2, DepsStay, SchedulingStays
<1>2. CASE Start
  <2>1. n' = n /\ UNCHANGED <<targets, nxt>>
    BY <1>2 DEF Start, graph
  <2>2. \A f \in Files : targets'[f] # "absent" => f \in Abstract!Reach
    BY <2>1 DEF IInv, Scheduling
  <2>3. \A h \in 1..n : pc'[h] = pc[h]
    BY <1>2, OthersStay, Ids
  <2> QED  BY <2>1, <2>2, <2>3, DepsStay, SchedulingStays
<1>3. CASE ReceiveNode
  <2>1. n' = n /\ UNCHANGED <<pc, nxt>>
    BY <1>3 DEF ReceiveNode, procs
  <2>2. PICK h \in 1..n : file[h] = Head(results).file
    BY <1>3, Received DEF IInv, Results, ReceiveNode
  <2>3. \A f \in Files : targets'[f] # "absent" => f = file[h] \/ targets[f] # "absent"
    BY <1>3, <2>2 DEF IInv, TypeOK, ReceiveNode
  <2>4. \A f \in Files : targets'[f] # "absent" => f \in Abstract!Reach
    BY <2>3 DEF IInv, Scheduling
  <2> QED  BY <2>1, <2>4, DepsStay, SchedulingStays
<1>4. CASE ReceiveError
  <2>1. n' = n /\ UNCHANGED <<targets, pc, nxt>>
    BY <1>4 DEF ReceiveError, graph, procs
  <2>2. \A f \in Files : targets'[f] # "absent" => f \in Abstract!Reach
    BY <2>1 DEF IInv, Scheduling
  <2> QED  BY <2>1, <2>2, DepsStay, SchedulingStays
<1>5. CASE ReceiveClosed
  <2>1. n' = n /\ UNCHANGED <<targets, pc, nxt>>
    BY <1>5 DEF ReceiveClosed, graph, procs
  <2>2. \A f \in Files : targets'[f] # "absent" => f \in Abstract!Reach
    BY <2>1 DEF IInv, Scheduling
  <2> QED  BY <2>1, <2>2, DepsStay, SchedulingStays
<1>6. CASE Index
  <2>1. n' = n /\ UNCHANGED <<targets, pc, nxt>>
    BY <1>6 DEF Index, graph, procs
  <2>2. \A f \in Files : targets'[f] # "absent" => f \in Abstract!Reach
    BY <2>1 DEF IInv, Scheduling
  <2> QED  BY <2>1, <2>2, DepsStay, SchedulingStays
<1>7. CASE WaitDone
  <2>1. n' = n /\ UNCHANGED <<targets, pc, nxt>>
    BY <1>7 DEF WaitDone, graph, procs
  <2>2. \A f \in Files : targets'[f] # "absent" => f \in Abstract!Reach
    BY <2>1 DEF IInv, Scheduling
  <2> QED  BY <2>1, <2>2, DepsStay, SchedulingStays
<1>8. CASE CloseTask
  <2>1. n' = n /\ UNCHANGED <<targets, pc, nxt>>
    BY <1>8 DEF CloseTask, graph, procs
  <2>2. \A f \in Files : targets'[f] # "absent" => f \in Abstract!Reach
    BY <2>1 DEF IInv, Scheduling
  <2> QED  BY <2>1, <2>2, DepsStay, SchedulingStays
<1>9. CASE CloseResults
  <2>1. n' = n /\ UNCHANGED <<targets, pc, nxt>>
    BY <1>9 DEF CloseResults, graph, procs
  <2>2. \A f \in Files : targets'[f] # "absent" => f \in Abstract!Reach
    BY <2>1 DEF IInv, Scheduling
  <2> QED  BY <2>1, <2>2, DepsStay, SchedulingStays
<1>10. CASE MarkRoots
  <2>1. n' = n /\ n = 0 /\ 1..n = {}
    BY <1>10 DEF IInv, MarkRoots, Fresh
  <2>2. \A f \in Files : targets'[f] # "absent" => f \in Abstract!Reach
    BY <1>10, RootReachable DEF IInv, TypeOK, MarkRoots, Scheduling, Elems
  <2> QED  BY <2>1, <2>2, SchedulingStays
<1>11. CASE StartCloser
  <2>1. n' = n /\ UNCHANGED <<targets, nxt>>
    BY <1>11 DEF StartCloser, graph
  <2>2. \A f \in Files : targets'[f] # "absent" => f \in Abstract!Reach
    BY <2>1 DEF IInv, Scheduling
  <2>3. \A h \in 1..n : pc'[h] = pc[h]
    BY <1>11, OthersStay, Ids
  <2> QED  BY <2>1, <2>2, <2>3, DepsStay, SchedulingStays
<1>12. ASSUME NEW g \in 0..n, Decide(g) PROVE Scheduling'
  <2>1. n' = n /\ n \in Nat /\ pc[g] = "next" /\ \A h \in 1..n : h \in 0..n
    BY <1>12 DEF Decide, IInv, TypeOK
  <2>2. \A h \in 0..n : h # g => pc'[h] = pc[h] /\ nxt'[h] = nxt[h]
    BY <1>12, OthersStay
  <2>3. \A f \in Files : targets'[f] # "absent" => f \in Abstract!Reach
    <3>1. \A f \in Files : targets'[f] # "absent" => targets[f] # "absent" \/ (g # 0 /\ f = Current(g))
      BY <1>12 DEF Decide, IInv, TypeOK
    <3>2. g # 0 => Current(g) \in Abstract!Reach
      <4> SUFFICES ASSUME g # 0 PROVE Current(g) \in Abstract!Reach
        OBVIOUS
      <4>1. g \in 1..n /\ file[g] \in Files /\ file[g] \in Abstract!Reach
        BY <2>1 DEF IInv, TypeOK, Scheduling
      <4>2. nxt[g] \in 1..Len(deps[file[g]]) /\ Current(g) = deps[file[g]][nxt[g]]
        BY <1>12, <4>1, Lists DEF Decide, Current, ListOf, IInv, TypeOK
      <4> QED  BY <4>1, <4>2, DepReachable DEF IInv
    <3> QED  BY <3>1, <3>2 DEF IInv, Scheduling
  <2>4. ASSUME NEW h \in 1..n, NEW j \in 1..Len(deps[file[h]]),
               j < nxt'[h] \/ (j = nxt'[h] /\ pc'[h] \in {"add", "acquire"})
        PROVE  targets'[deps[file[h]][j]] # "absent"
    <3>1. CASE h # g
      BY <2>1, <2>2, <2>4, <3>1, DepsStay
    <3>2. CASE h = g /\ j < nxt[g]
      BY <3>2, DepsStay
    <3>3. CASE h = g /\ ~(j < nxt[g])
      <4>1. nxt[g] \in Nat /\ nxt'[g] \in {nxt[g], nxt[g] + 1} /\ (nxt'[g] = nxt[g] + 1 => pc'[g] = "next")
        <5>1. nxt \in [0..n -> Nat \ {0}] /\ nxt[g] \in Nat
          BY DEF IInv, TypeOK
        <5>2. CASE nxt' = nxt
          BY <5>1, <5>2
        <5>3. CASE nxt' = [nxt EXCEPT ![g] = @ + 1] /\ pc' = pc
          BY <2>1, <5>1, <5>3
        <5> QED  BY <1>12, <5>2, <5>3 DEF Decide
      <4>2. j = nxt[g]
        BY <2>4, <3>3, <4>1
      <4>3. Current(g) = deps[file[g]][j] /\ Current(g) \in Files
        <5>1. Current(g) = deps[file[g]][j]
          BY <3>3, <4>2, Ids DEF Current, ListOf
        <5>2. nxt[g] <= Len(ListOf(g))
          BY <1>12 DEF Decide
        <5> QED  BY <5>1, <5>2, CurrentFile DEF IInv
      <4> QED  BY <1>12, <3>3, <4>2, <4>3 DEF Decide, IInv, TypeOK
    <3> QED  BY <3>1, <3>2, <3>3
  <2> QED  BY <2>1, <2>3, <2>4, SchedulingStays
<1>13. ASSUME NEW g \in 0..n, Add(g) PROVE Scheduling'
  <2>1. n' = n /\ UNCHANGED <<targets, nxt>> /\ g \in 0..n
    BY <1>13 DEF Add, graph, IInv, TypeOK
  <2>2. \A f \in Files : targets'[f] # "absent" => f \in Abstract!Reach
    BY <2>1 DEF IInv, Scheduling
  <2>3. \A h \in 1..n : pc'[h] \in {"add", "acquire"} => pc[h] \in {"add", "acquire"}
    <3>1. \A h \in 1..n : h # g => pc'[h] = pc[h]
      BY <1>13, <2>1, OthersStay, Ids
    <3>2. pc'[g] \in {"add", "acquire"} => pc[g] \in {"add", "acquire"}
      BY <1>13 DEF Add, GoTo, IInv, TypeOK
    <3> QED  BY <3>1, <3>2
  <2> QED  BY <2>1, <2>2, <2>3, DepsStay, SchedulingStays
<1>14. ASSUME NEW g \in 0..n, AcquireTask(g) PROVE Scheduling'
  <2>1. n \in Nat /\ n' = n + 1 /\ targets' = targets /\ deps' = deps
    BY <1>14 DEF AcquireTask, graph, disk, IInv, TypeOK
  <2>2. \A h \in 0..n : h # g => pc'[h] = pc[h] /\ nxt'[h] = nxt[h]
    BY <1>14, OthersStay
  <2>3. nxt[g] \in Nat /\ nxt'[g] = nxt[g] + 1 /\ pc[g] = "acquire" /\ pc'[g] = "next"
    BY <1>14 DEF AcquireTask, IInv, TypeOK
  <2>4. PICK m \in Nat : m = n + 1
    BY <2>1
  <2>5. m \in 0..n' /\ file'[m] = Current(g) /\ nxt'[m] = 1 /\ pc'[m] = "read"
    BY <1>14, <2>1, <2>4 DEF AcquireTask
  <2>6. \A h \in 1..n' : h = m \/ h \in 1..n
    BY <2>1, <2>4
  <2>7. \A h \in 1..n : h \in 0..n /\ file'[h] = file[h] /\ file[h] \in Files
    BY <2>1, ListsStay DEF IInv, TypeOK
  <2>8. targets[Current(g)] # "absent"
    <3>1. CASE g = 0
      BY <2>3, <3>1 DEF IInv, TypeOK, Fresh, Shape, ShapeOf, Current, ListOf
    <3>2. CASE g # 0
      <4>1. g \in 1..n /\ nxt[g] \in 1..Len(deps[file[g]])
        BY <2>1, <2>3, <3>2, Lists DEF IInv, TypeOK, Shape, ShapeOf, ListOf
      <4> QED  BY <2>3, <3>2, <4>1 DEF IInv, Scheduling, Current, ListOf
    <3> QED  BY <3>1, <3>2
  <2>9. ASSUME NEW h \in 1..n', NEW j \in 1..Len(deps[file'[h]]),
               j < nxt'[h] \/ (j = nxt'[h] /\ pc'[h] \in {"add", "acquire"})
        PROVE  targets[deps[file'[h]][j]] # "absent"
    <3>1. h # m
      BY <2>5, <2>9
    <3>2. h \in 1..n /\ file'[h] = file[h] /\ h \in 0..n
      BY <2>6, <2>7, <3>1
    <3>3. j < nxt[h] \/ (j = nxt[h] /\ pc[h] \in {"add", "acquire"})
      BY <2>2, <2>3, <2>9, <3>2
    <3> QED  BY <3>2, <3>3 DEF IInv, Scheduling
  <2>10. \A h \in 1..n' : targets[file'[h]] # "absent"
    BY <2>5, <2>6, <2>7, <2>8 DEF IInv, Scheduling
  <2> QED  BY <2>1, <2>9, <2>10, ReachStays DEF IInv, Scheduling
<1>15. ASSUME NEW g \in 1..n, SendResult(g) PROVE Scheduling'
  <2>1. n' = n /\ UNCHANGED <<targets, nxt>> /\ g \in 0..n
    BY <1>15 DEF SendResult, graph, IInv, TypeOK
  <2>2. \A f \in Files : targets'[f] # "absent" => f \in Abstract!Reach
    BY <2>1 DEF IInv, Scheduling
  <2>3. \A h \in 1..n : pc'[h] \in {"add", "acquire"} => pc[h] \in {"add", "acquire"}
    <3>1. \A h \in 1..n : h # g => pc'[h] = pc[h]
      BY <1>15, <2>1, OthersStay, Ids
    <3>2. pc'[g] \in {"add", "acquire"} => pc[g] \in {"add", "acquire"}
      BY <1>15 DEF SendResult, GoTo, IInv, TypeOK
    <3> QED  BY <3>1, <3>2
  <2> QED  BY <2>1, <2>2, <2>3, DepsStay, SchedulingStays
<1>16. ASSUME NEW g \in 1..n, ReleaseTask(g) PROVE Scheduling'
  <2>1. n' = n /\ UNCHANGED <<targets, nxt>> /\ g \in 0..n
    BY <1>16 DEF ReleaseTask, graph, IInv, TypeOK
  <2>2. \A f \in Files : targets'[f] # "absent" => f \in Abstract!Reach
    BY <2>1 DEF IInv, Scheduling
  <2>3. \A h \in 1..n : pc'[h] \in {"add", "acquire"} => pc[h] \in {"add", "acquire"}
    <3>1. \A h \in 1..n : h # g => pc'[h] = pc[h]
      BY <1>16, <2>1, OthersStay, Ids
    <3>2. pc'[g] \in {"add", "acquire"} => pc[g] \in {"add", "acquire"}
      BY <1>16 DEF ReleaseTask, GoTo, IInv, TypeOK
    <3> QED  BY <3>1, <3>2
  <2> QED  BY <2>1, <2>2, <2>3, DepsStay, SchedulingStays
<1>17. ASSUME NEW g \in 1..n, Done(g) PROVE Scheduling'
  <2>1. n' = n /\ UNCHANGED <<targets, nxt>> /\ g \in 0..n
    BY <1>17 DEF Done, graph, IInv, TypeOK
  <2>2. \A f \in Files : targets'[f] # "absent" => f \in Abstract!Reach
    BY <2>1 DEF IInv, Scheduling
  <2>3. \A h \in 1..n : pc'[h] \in {"add", "acquire"} => pc[h] \in {"add", "acquire"}
    <3>1. \A h \in 1..n : h # g => pc'[h] = pc[h]
      BY <1>17, <2>1, OthersStay, Ids
    <3>2. pc'[g] \in {"add", "acquire"} => pc[g] \in {"add", "acquire"}
      BY <1>17 DEF Done, GoTo, IInv, TypeOK
    <3> QED  BY <3>1, <3>2
  <2> QED  BY <2>1, <2>2, <2>3, DepsStay, SchedulingStays
<1>18. CASE UNCHANGED vars
  <2>1. n' = n /\ UNCHANGED <<targets, pc, nxt>>
    BY <1>18 DEF vars
  <2>2. \A f \in Files : targets'[f] # "absent" => f \in Abstract!Reach
    BY <2>1 DEF IInv, Scheduling
  <2> QED  BY <2>1, <2>2, DepsStay, SchedulingStays
<1> QED
  BY NextCases, <1>1, <1>2, <1>3, <1>4, <1>5, <1>6, <1>7, <1>8, <1>9, <1>10, <1>11, <1>12, <1>13, <1>14, <1>15, <1>16, <1>17, <1>18 DEF IInv

(* The caller leaves its loop without a nil target.                        *)
LEMMA TailStep ==
  ASSUME IInv, [Next]_vars
  PROVE  Tail0'
<1>1. CASE Refuse
  BY <1>1 DEF Refuse, Tail0
<1>2. CASE Start
  BY <1>2 DEF Start, Tail0
<1>3. CASE ReceiveNode
  BY <1>3 DEF ReceiveNode, Tail0
<1>4. CASE ReceiveError
  BY <1>4 DEF ReceiveError, Tail0
<1>5. CASE ReceiveClosed
  <2>1. closer = "done" /\ results = <<>> /\ UNCHANGED <<targets, edges>> /\ main = "loop" /\ main' = "index"
    BY <1>5 DEF IInv, ReceiveClosed, Closing, graph
  <2>2. n \in Nat /\ 0 \in 0..n /\ \A g \in 0..n : pc[g] = "done"
    BY <2>1, Quiet DEF IInv, TypeOK
  <2>3. nxt[0] = Len(roots) + 1 /\ Len(roots) \in Nat
    BY <2>2, Lists DEF IInv, Shape, ShapeOf, ListOf
  <2>4. \A f \in Files : ~Pending(f)
    BY <2>1, <2>2, <2>3 DEF Pending
  <2> QED  BY <2>1, <2>4 DEF IInv, NilIsPending, Tail0
<1>6. CASE Index
  <2>1. UNCHANGED <<targets, deps>> /\ edges' = EdgesOf(Targets)
    BY <1>6 DEF Index, disk
  <2> QED  BY <1>6, <2>1 DEF IInv, Index, Tail0, Targets, EdgesOf
<1>7. CASE WaitDone
  <2>1. UNCHANGED <<main, targets, deps, edges>>
    BY <1>7 DEF WaitDone, graph, disk
  <2> QED  BY <2>1 DEF IInv, Tail0, Targets, EdgesOf
<1>8. CASE CloseTask
  <2>1. UNCHANGED <<main, targets, deps, edges>>
    BY <1>8 DEF CloseTask, graph, disk
  <2> QED  BY <2>1 DEF IInv, Tail0, Targets, EdgesOf
<1>9. CASE CloseResults
  <2>1. UNCHANGED <<main, targets, deps, edges>>
    BY <1>9 DEF CloseResults, graph, disk
  <2> QED  BY <2>1 DEF IInv, Tail0, Targets, EdgesOf
<1>10. CASE MarkRoots
  <2>1. main \notin {"index", "graph"} /\ main' = main
    BY <1>10, RunsBeforeClose DEF MarkRoots, IInv, TypeOK
  <2> QED  BY <2>1 DEF Tail0
<1>11. CASE StartCloser
  <2>1. UNCHANGED <<main, targets, deps, edges>>
    BY <1>11 DEF StartCloser, graph, disk
  <2> QED  BY <2>1 DEF IInv, Tail0, Targets, EdgesOf
<1>12. ASSUME NEW g \in 0..n, Decide(g) PROVE Tail0'
  <2>1. main \notin {"index", "graph"} /\ main' = main
    BY <1>12, RunsBeforeClose DEF Decide
  <2> QED  BY <2>1 DEF Tail0
<1>13. ASSUME NEW g \in 0..n, Add(g) PROVE Tail0'
  <2>1. UNCHANGED <<main, targets, deps, edges>>
    BY <1>13 DEF Add, graph, disk
  <2> QED  BY <2>1 DEF IInv, Tail0, Targets, EdgesOf
<1>14. ASSUME NEW g \in 0..n, AcquireTask(g) PROVE Tail0'
  <2>1. UNCHANGED <<main, targets, deps, edges>>
    BY <1>14 DEF AcquireTask, graph, disk
  <2> QED  BY <2>1 DEF IInv, Tail0, Targets, EdgesOf
<1>15. ASSUME NEW g \in 1..n, SendResult(g) PROVE Tail0'
  <2>1. UNCHANGED <<main, targets, deps, edges>>
    BY <1>15 DEF SendResult, graph, disk
  <2> QED  BY <2>1 DEF IInv, Tail0, Targets, EdgesOf
<1>16. ASSUME NEW g \in 1..n, ReleaseTask(g) PROVE Tail0'
  <2>1. UNCHANGED <<main, targets, deps, edges>>
    BY <1>16 DEF ReleaseTask, graph, disk
  <2> QED  BY <2>1 DEF IInv, Tail0, Targets, EdgesOf
<1>17. ASSUME NEW g \in 1..n, Done(g) PROVE Tail0'
  <2>1. UNCHANGED <<main, targets, deps, edges>>
    BY <1>17 DEF Done, graph, disk
  <2> QED  BY <2>1 DEF IInv, Tail0, Targets, EdgesOf
<1>18. CASE UNCHANGED vars
  BY <1>18 DEF vars, IInv, Tail0, Targets, EdgesOf
<1> QED
  BY NextCases, <1>1, <1>2, <1>3, <1>4, <1>5, <1>6, <1>7, <1>8, <1>9, <1>10, <1>11, <1>12, <1>13, <1>14, <1>15, <1>16, <1>17, <1>18 DEF IInv

(* No step panics.                                                         *)
LEMMA NoPanicStep ==
  ASSUME IInv, [Next]_vars
  PROVE  NoPanic'
<1>1. CASE Refuse
  BY <1>1 DEF IInv, NoPanic, Refuse
<1>2. CASE Start
  BY <1>2 DEF IInv, NoPanic, Start
<1>3. CASE ReceiveNode
  BY <1>3 DEF IInv, NoPanic, ReceiveNode
<1>4. CASE ReceiveError
  BY <1>4 DEF IInv, NoPanic, ReceiveError
<1>5. CASE ReceiveClosed
  BY <1>5 DEF IInv, NoPanic, ReceiveClosed
<1>6. CASE Index
  <2>1. ~ \E f \in Targets : targets[f] = "nil"
    BY <1>6 DEF Index, IInv, Tail0, Targets
  <2> QED  BY <1>6, <2>1, Zenon DEF IInv, NoPanic, Index
<1>7. CASE WaitDone
  BY <1>7 DEF IInv, NoPanic, WaitDone
<1>8. CASE CloseTask
  BY <1>8 DEF IInv, NoPanic, CloseTask
<1>9. CASE CloseResults
  <2>1. \A g \in 0..n : pc[g] = "done"
    BY <1>9, Quiet DEF CloseResults, IInv
  <2>2. ~resultsNil
    BY <1>9, <2>1 DEF CloseResults, IInv, TypeOK, Closing, Results
  <2> QED  BY <1>9, <2>2, Zenon DEF IInv, NoPanic, CloseResults
<1>10. CASE MarkRoots
  BY <1>10 DEF IInv, NoPanic, MarkRoots
<1>11. CASE StartCloser
  BY <1>11 DEF IInv, NoPanic, StartCloser
<1>12. ASSUME NEW g \in 0..n, Decide(g) PROVE NoPanic'
  BY <1>12 DEF IInv, NoPanic, Decide
<1>13. ASSUME NEW g \in 0..n, Add(g) PROVE NoPanic'
  BY <1>13 DEF IInv, NoPanic, Add
<1>14. ASSUME NEW g \in 0..n, AcquireTask(g) PROVE NoPanic'
  BY <1>14 DEF IInv, NoPanic, AcquireTask
<1>15. ASSUME NEW g \in 1..n, SendResult(g) PROVE NoPanic'
  <2>1. ~resultsClosed /\ ~taskClosed
    BY <1>15, RunsBeforeClose DEF SendResult, IInv, TypeOK
  <2> QED  BY <1>15, <2>1, Zenon DEF IInv, NoPanic, SendResult
<1>16. ASSUME NEW g \in 1..n, ReleaseTask(g) PROVE NoPanic'
  <2>1. ~resultsClosed /\ ~taskClosed
    BY <1>16, RunsBeforeClose DEF ReleaseTask, IInv, TypeOK
  <2> QED  BY <1>16, <2>1, Zenon DEF IInv, NoPanic, ReleaseTask
<1>17. ASSUME NEW g \in 1..n, Done(g) PROVE NoPanic'
  <2>1. wg # 0
    <3>1. g \in Live
      BY <1>17 DEF Done, Live
    <3> QED  BY <3>1, LiveBlocksWait DEF IInv, TypeOK
  <2> QED  BY <1>17, <2>1, Zenon DEF IInv, NoPanic, Done
<1>18. CASE UNCHANGED vars
  BY <1>18 DEF vars, IInv, NoPanic
<1> QED
  BY NextCases, <1>1, <1>2, <1>3, <1>4, <1>5, <1>6, <1>7, <1>8, <1>9, <1>10, <1>11, <1>12, <1>13, <1>14, <1>15, <1>16, <1>17, <1>18 DEF IInv

(* IInv is an inductive invariant of the reader.                           *)
THEOREM Inductive == Spec => []IInv
<1>1. IInv /\ [Next]_vars => IInv'
  BY TypeStep, ShapeStep, FreshStep, CountingStep, ClosingStep, ResultsStep,
     NilStep, SchedulingStep, TailStep, NoPanicStep DEF IInv
<1> QED  BY InitIInv, <1>1, PTL DEF Spec

(* For every graph of files, every set of unreadable files and every pool  *)
(* size the variables of the reader keep their types.                      *)
THEOREM TypeCorrect == Spec => []TypeOK
BY Inductive, PTL DEF IInv

(* readgraph.go never panics: no send on a closed channel, no close of a   *)
(* nil channel, no negative WaitGroup counter, no nil target at the end.   *)
THEOREM PanicFree == Spec => []NoPanic
BY Inductive, PTL DEF IInv

(* The unlocked tail of ReadLicenseGraph runs after every goroutine that   *)
(* uses the map has ended.                                                 *)
THEOREM TailIsQuiet == Spec => []QuietTail
<1>1. IInv => QuietTail
  BY RunsBeforeClose DEF QuietTail, IInv, Results, Closing
<1> QED  BY Inductive, <1>1, PTL

(* Wait returns once and for all: afterwards nothing is added or spawned.  *)
THEOREM WaitGroupSettles == Spec => WaitGroupSettled
<1>1. IInv /\ [Next]_vars => [closer \notin {"unborn", "wait"} => UNCHANGED <<wg, n>>]_vars
  <2> SUFFICES ASSUME IInv, [Next]_vars, closer \notin {"unborn", "wait"}
               PROVE  UNCHANGED <<wg, n>>
    OBVIOUS
  <2>1. \A g \in 0..n : pc[g] = "done"
    BY Quiet DEF IInv
  <2>2. \A g \in 1..n : g \in 0..n
    BY DEF IInv, TypeOK
  <2>3. 0 \in 0..n
    BY DEF IInv, TypeOK
  <2> QED
    BY <2>1, <2>2, <2>3, NextCases DEF IInv, Refuse, Start, ReceiveNode, ReceiveError,
       ReceiveClosed, Index, WaitDone, CloseTask, CloseResults, MarkRoots,
       StartCloser, vars, Decide, Add, AcquireTask, SendResult, ReleaseTask,
       Done, procs
<1> QED  BY Inductive, <1>1, PTL DEF Spec, WaitGroupSettled

(* The returned graph holds exactly the reachable files, all of them       *)
(* readable; an error is returned only for a refused call or a reachable   *)
(* file that cannot be read.                                               *)
THEOREM AnswerIsSound == Spec => []AnswerSound
<1>1. IInv => AnswerSound
  <2> SUFFICES ASSUME IInv PROVE AnswerSound
    OBVIOUS
  <2>1. ASSUME main = "graph"
        PROVE  /\ Nodes = Abstract!Reach /\ Targets = Nodes
               /\ Abstract!Reach \cap bad = {} /\ edges = EdgesOf(Nodes)
    <3>1. Targets = Nodes /\ Abstract!Closed(Nodes) /\ Nodes \cap bad = {}
      BY <2>1, IndexClosed
    <3>2. Abstract!Reach \subseteq Nodes
      BY <3>1, ReachLeast DEF Nodes
    <3>3. Nodes \subseteq Abstract!Reach
      BY DEF IInv, Scheduling, Nodes
    <3> QED  BY <2>1, <3>1, <3>2, <3>3 DEF IInv, Tail0
  <2>2. ASSUME main = "error", ~Abstract!Refused
        PROVE  Abstract!Reach \cap bad # {}
    <3>1. PICK g \in 1..n : pc[g] = "failed"
      BY <2>2 DEF IInv, Results
    <3>2. file[g] \in bad
      BY <3>1 DEF IInv, TypeOK, Shape, ShapeOf
    <3>3. file[g] \in Abstract!Reach
      BY DEF IInv, TypeOK, Scheduling
    <3> QED  BY <3>2, <3>3
  <2> QED  BY <2>1, <2>2 DEF AnswerSound
<1> QED  BY Inductive, <1>1, PTL

(* What the caller has answered so far, as LicenseGraphRead sees it.       *)
Shown == IF main = "graph"
           THEN [kind |-> "graph", nodes |-> Nodes, edges |-> edges]
           ELSE [kind |-> IF main = "error" THEN "error" ELSE "none",
                 nodes |-> {}, edges |-> {}]

(* The concurrent reader implements the one-step reader: the answer        *)
(* appears in one step, is the one LicenseGraphRead gives, and stays.      *)
THEOREM Refines == Spec => AbstractSafe
<1>1. Init => Abstract!Init
  BY DEF Init, Abstract!Init, Abstract!NoGraph
<1>2. IInv /\ [Next]_vars /\ IInv' /\ AnswerSound' => [Abstract!Answer]_(Abstract!avars)
  <2> SUFFICES ASSUME IInv, [Next]_vars, IInv', AnswerSound'
               PROVE  Abstract!Answer \/ UNCHANGED <<disk, Shown>>
    BY DEF Abstract!avars, disk, Shown
  <2>1. UNCHANGED disk /\ UNCHANGED <<deps, bad, roots>>
    BY ListsStay DEF disk
  <2>2. CASE main = "graph"
    <3>1. \A g \in 0..n : pc[g] = "done"
      BY <2>2, RunsBeforeClose
    <3>2. closer = "done" /\ \A g \in 1..n : g \in 0..n
      BY <2>2 DEF IInv, TypeOK, Results, Closing
    <3>3. UNCHANGED <<main, targets, edges>>
      BY <2>2, <3>1, <3>2, NextCases DEF IInv, TypeOK, Refuse, Start, ReceiveNode,
         ReceiveError, ReceiveClosed, Index, WaitDone, CloseTask, CloseResults,
         MarkRoots, StartCloser, vars, Decide, Add, AcquireTask, SendResult,
         ReleaseTask, Done, graph
    <3> QED  BY <2>1, <3>3 DEF Shown, Nodes
  <2>3. CASE main = "error"
    <3>1. main' = "error"
      BY <2>3, NextCases DEF IInv, Refuse, Start, ReceiveNode, ReceiveError,
         ReceiveClosed, Index, WaitDone, CloseTask, CloseResults, MarkRoots,
         StartCloser, vars, Decide, Add, AcquireTask, SendResult, ReleaseTask,
         Done
    <3> QED  BY <2>1, <2>3, <3>1 DEF Shown
  <2>4. CASE main \notin {"graph", "error"} /\ main' \notin {"graph", "error"}
    BY <2>1, <2>4 DEF Shown
  <2>5. CASE main \notin {"graph", "error"} /\ main' = "graph"
    <3>1. Abstract!Reach' = Abstract!Reach /\ Abstract!Refused' = Abstract!Refused
      BY ReachStays
    <3>2. ~Abstract!Refused
      <4>1. Index
        BY <2>5, NextCases DEF IInv, Refuse, Start, ReceiveNode, ReceiveError,
           ReceiveClosed, WaitDone, CloseTask, CloseResults, MarkRoots,
           StartCloser, vars, Decide, Add, AcquireTask, SendResult, ReleaseTask,
           Done
      <4> QED  BY <4>1 DEF Index, IInv, Fresh
    <3>3. Nodes' = Abstract!Reach /\ Abstract!Reach \cap bad = {} /\ edges' = EdgesOf(Nodes)'
      BY <2>1, <2>5, <3>1 DEF AnswerSound
    <3>4. edges' = {e \in Abstract!Reach \X Files : e[2] \in Abstract!Elems(deps[e[1]])}
      BY <2>1, <3>3 DEF EdgesOf, Elems, Abstract!Elems
    <3>5. Shown' = [kind |-> "graph", nodes |-> Abstract!Reach, edges |-> edges']
      BY <2>5, <3>3 DEF Shown
    <3>6. Shown = [kind |-> "none", nodes |-> {}, edges |-> {}]
      BY <2>5 DEF Shown
    <3> QED  BY <2>1, <3>2, <3>3, <3>4, <3>5, <3>6
             DEF Abstract!Answer, Abstract!NoGraph, Abstract!GraphOf, Shown
  <2>6. CASE main \notin {"graph", "error"} /\ main' = "error"
    <3>1. Abstract!Refused \/ Abstract!Reach \cap bad # {}
      BY <2>1, <2>6, ReachStays DEF AnswerSound
    <3>2. /\ Shown' = [kind |-> "error", nodes |-> {}, edges |-> {}]
          /\ Shown = [kind |-> "none", nodes |-> {}, edges |-> {}]
      BY <2>6 DEF Shown
    <3> QED  BY <2>1, <3>1, <3>2 DEF Abstract!Answer, Abstract!NoGraph, Shown
  <2> QED  BY <2>2, <2>3, <2>4, <2>5, <2>6 DEF IInv, TypeOK
<1> QED  BY <1>1, <1>2, Inductive, AnswerIsSound, PTL DEF Spec, AbstractSafe

-----------------------------------------------------------------------------
(* Counting.  From the moment the pool is filled its tokens are in the     *)
(* channel or with a reader.                                               *)
Pool == pc[0] # "unborn" => task + Cardinality(Holders) = ConcurrentReaders

(* A root is a file that the caller names; reader g is about to have f     *)
(* read.                                                                   *)
Rooted(f)  == \E i \in 1..Len(roots) : roots[i] = f
Asks(g, f) == pc[g] \in {"add", "acquire"} /\ Current(g) = f

(* A file that is no root has one reader at most, or one goroutine that    *)
(* asks for it; nobody but readFiles asks for a root, ...                  *)
Once ==
  /\ \A f \in Files : ~Rooted(f) =>
       /\ \A g, h \in 1..n : file[g] = f /\ file[h] = f => g = h
       /\ \A g, h \in 1..n : Asks(g, f) /\ Asks(h, f) => g = h
       /\ \A g, h \in 1..n : Asks(g, f) => file[h] # f
  /\ \A g \in 1..n, f \in Files : Asks(g, f) => ~Rooted(f)

(* ... which does so once for each place of the root in the list.          *)
Readers(f) == {g \in 1..n : file[g] = f}
Places(f)  == {i \in 1..Len(roots) : i < nxt[0] /\ roots[i] = f}
AsNamed == \A f \in Files : Rooted(f) => Cardinality(Readers(f)) = Cardinality(Places(f))

(* The tokens of the pool are conserved by every step.                     *)
LEMMA PoolStep ==
  ASSUME IInv, Pool, [Next]_vars
  PROVE  Pool'
<1>0. IsFiniteSet(Holders) /\ Cardinality(Holders) \in Nat /\ task \in Nat
  <2>1. IsFiniteSet(1..n) /\ Holders \subseteq 1..n
    BY FS_Interval DEF IInv, TypeOK, Holders
  <2> QED  BY <2>1, FS_Subset, FS_CardinalityType DEF IInv, TypeOK
<1>1. CASE Start
  <2>1. n = 0 /\ n' = 0 /\ task' = ConcurrentReaders
    BY <1>1, PoolAssumption DEF Start, IInv, Fresh
  <2>2. Holders' = {}
    BY <2>1 DEF Holders
  <2> QED  BY <2>1, <2>2, FS_EmptySet, PoolAssumption DEF Pool
<1>2. ASSUME NEW g \in 0..n, AcquireTask(g) PROVE Pool'
  <2>1. ~taskClosed /\ pc[0] # "unborn"
    BY <1>2, RunsBeforeClose DEF AcquireTask, IInv, Fresh, TypeOK
  <2>2. task' = task - 1
    BY <1>2, <2>1, <1>0 DEF AcquireTask
  <2>3. PICK m \in Nat : m = n + 1
    BY DEF IInv, TypeOK
  <2>4. m \notin Holders /\ Holders' = Holders \cup {m}
    BY <1>2, <2>3 DEF IInv, TypeOK, AcquireTask, Holders
  <2>5. Cardinality(Holders') = Cardinality(Holders) + 1
    BY <1>0, <2>4, FS_AddElement
  <2> QED  BY <1>0, <2>1, <2>2, <2>5, PoolAssumption DEF Pool
<1>3. ASSUME NEW g \in 1..n, SendResult(g) PROVE Pool'
  <2>1. Holders' = Holders /\ task' = task /\ pc'[0] = pc[0]
    BY <1>3 DEF IInv, TypeOK, SendResult, GoTo, Holders
  <2> QED  BY <2>1 DEF Pool
<1>4. ASSUME NEW g \in 1..n, ReleaseTask(g) PROVE Pool'
  <2>0. g \in 0..n
    BY Ids
  <2>1. ~taskClosed /\ pc'[0] = pc[0]
    BY <1>4, <2>0, RunsBeforeClose DEF ReleaseTask, GoTo, IInv, TypeOK
  <2>2. task' = task + 1
    BY <1>4, <2>1 DEF ReleaseTask
  <2>3. g \in Holders /\ Holders' = Holders \ {g}
    BY <1>4 DEF IInv, TypeOK, ReleaseTask, GoTo, Holders
  <2>4. Cardinality(Holders') = Cardinality(Holders) - 1
    BY <1>0, <2>3, FS_RemoveElement
  <2> QED  BY <1>0, <2>1, <2>2, <2>4, PoolAssumption DEF Pool
<1>5. CASE /\ task' = task /\ n' = n
           /\ \A h \in 1..n : (pc'[h] \in {"read", "release", "failed"}) <=> (pc[h] \in {"read", "release", "failed"})
           /\ pc'[0] = "unborn" \/ pc[0] # "unborn"
  <2>1. Holders' = Holders
    BY <1>5 DEF Holders
  <2> QED  BY <1>5, <2>1 DEF Pool
<1>6. CASE MarkRoots \/ StartCloser \/ \E g \in 0..n : Decide(g) \/ Add(g)
  BY <1>5, <1>6 DEF IInv, TypeOK, MarkRoots, StartCloser, Decide, Add, GoTo, chans
<1>7. ASSUME NEW g \in 1..n, Done(g) PROVE Pool'
  BY <1>5, <1>7 DEF IInv, TypeOK, Done, GoTo, chans
<1>8. CASE \/ Refuse \/ ReceiveNode \/ ReceiveError \/ ReceiveClosed \/ Index
           \/ WaitDone \/ CloseTask \/ CloseResults \/ UNCHANGED vars
  BY <1>5, <1>8 DEF Refuse, ReceiveNode, ReceiveError, ReceiveClosed, Index,
     WaitDone, CloseTask, CloseResults, vars, procs, chans
<1> QED
  BY NextCases, <1>1, <1>2, <1>3, <1>4, <1>6, <1>7, <1>8 DEF IInv

(* A reader is spawned only by the goroutine that asks for its file.       *)
LEMMA SpawnStep ==
  ASSUME IInv, [Next]_vars
  PROVE  \/ UNCHANGED <<n, file>> /\ nxt'[0] = nxt[0]
         \/ \E g \in 0..n : /\ AcquireTask(g) /\ n' = n + 1
                            /\ file'[n + 1] = Current(g) /\ Current(g) \in Files
                            /\ nxt'[0] = IF g = 0 THEN nxt[0] + 1 ELSE nxt[0]
<1>1. ASSUME NEW g \in 0..n, AcquireTask(g)
      PROVE  /\ n' = n + 1 /\ file'[n + 1] = Current(g) /\ Current(g) \in Files
             /\ nxt'[0] = IF g = 0 THEN nxt[0] + 1 ELSE nxt[0]
  <2>1. nxt[g] <= Len(ListOf(g))
    BY <1>1 DEF AcquireTask, IInv, Shape, ShapeOf
  <2>2. Current(g) \in Files
    BY <2>1, CurrentFile DEF IInv
  <2> QED  BY <1>1, <2>2 DEF IInv, TypeOK, AcquireTask
<1>2. CASE MarkRoots \/ StartCloser \/ \E g \in 0..n : Decide(g) \/ Add(g)
  BY <1>2 DEF IInv, TypeOK, MarkRoots, StartCloser, Decide, Add
<1>3. CASE \E g \in 1..n : SendResult(g) \/ ReleaseTask(g) \/ Done(g)
  BY <1>3 DEF SendResult, ReleaseTask, Done
<1>4. CASE \/ Refuse \/ Start \/ ReceiveNode \/ ReceiveError \/ ReceiveClosed \/ Index
           \/ WaitDone \/ CloseTask \/ CloseResults \/ UNCHANGED vars
  BY <1>4 DEF Refuse, Start, ReceiveNode, ReceiveError, ReceiveClosed, Index,
     WaitDone, CloseTask, CloseResults, vars, procs
<1> QED  BY NextCases, <1>1, <1>2, <1>3, <1>4 DEF IInv

(* A reader that asks for a file did so before, or decides it in this step *)
(* because the file was not in the map.                                    *)
LEMMA AskStep ==
  ASSUME IInv, [Next]_vars, NEW f \in Files, NEW h \in 1..n', Asks(h, f)'
  PROVE  /\ h \in 1..n
         /\ \/ Asks(h, f) /\ ~AcquireTask(h)
            \/ Decide(h) /\ targets[f] = "absent"
<1>1. h \in 1..n
  <2> SUFFICES ASSUME h \notin 1..n PROVE FALSE
    OBVIOUS
  <2>1. PICK g \in 0..n : AcquireTask(g) /\ n' = n + 1
    BY SpawnStep DEF IInv, TypeOK
  <2>2. h = n + 1
    BY <2>1 DEF IInv, TypeOK
  <2> QED  BY <2>1, <2>2 DEF AcquireTask, Asks, IInv, TypeOK
<1>2. h \in 0..n /\ h # 0 /\ ListOf(h)' = ListOf(h)
  BY <1>1, Ids, ListsStay
<1>3. CASE pc'[h] = pc[h] /\ nxt'[h] = nxt[h]
  <2>1. Asks(h, f)
    BY <1>2, <1>3 DEF Asks, Current
  <2>2. ~AcquireTask(h)
    BY <1>1, <1>2, <1>3 DEF AcquireTask, IInv, TypeOK
  <2> QED  BY <1>1, <2>1, <2>2
<1>4. CASE Decide(h)
  <2>1. pc[h] = "next" /\ targets[Current(h)] = "absent" /\ nxt' = nxt
    BY <1>2, <1>4 DEF Decide, Asks, IInv, TypeOK
  <2> QED  BY <1>1, <1>2, <1>4, <2>1 DEF Asks, Current
<1>5. CASE Add(h)
  <2>1. pc[h] = "add" /\ nxt'[h] = nxt[h] /\ pc'[h] = "acquire"
    BY <1>2, <1>5 DEF Add, GoTo, IInv, TypeOK
  <2>2. Asks(h, f)
    BY <1>2, <2>1 DEF Asks, Current
  <2>3. ~AcquireTask(h)
    BY <2>1 DEF AcquireTask
  <2> QED  BY <1>1, <2>2, <2>3
<1>6. CASE AcquireTask(h) \/ SendResult(h) \/ ReleaseTask(h) \/ Done(h)
  <2>1. pc'[h] \notin {"add", "acquire"}
    BY <1>1, <1>2, <1>6 DEF AcquireTask, SendResult, ReleaseTask, Done, GoTo, IInv, TypeOK
  <2> QED  BY <2>1 DEF Asks
<1>7. \/ pc'[h] = pc[h] /\ nxt'[h] = nxt[h]
      \/ Decide(h) \/ Add(h) \/ AcquireTask(h) \/ SendResult(h) \/ ReleaseTask(h) \/ Done(h)
  <2>1. CASE Start \/ MarkRoots \/ StartCloser
    BY <1>2, <2>1, OthersStay, Ids
  <2>2. ASSUME NEW g \in 0..n, Decide(g) \/ Add(g) \/ AcquireTask(g) PROVE <1>7
    BY <1>2, <2>2, OthersStay
  <2>3. ASSUME NEW g \in 1..n, SendResult(g) \/ ReleaseTask(g) \/ Done(g) PROVE <1>7
    BY <1>2, <2>3, OthersStay, Ids
  <2>4. CASE \/ Refuse \/ ReceiveNode \/ ReceiveError \/ ReceiveClosed \/ Index
             \/ WaitDone \/ CloseTask \/ CloseResults \/ UNCHANGED vars
    BY <2>4 DEF Refuse, ReceiveNode, ReceiveError, ReceiveClosed, Index,
       WaitDone, CloseTask, CloseResults, vars, procs
  <2> QED  BY NextCases, <2>1, <2>2, <2>3, <2>4 DEF IInv
<1> QED  BY <1>3, <1>4, <1>5, <1>6, <1>7

(* The files that a reader asks for, and those that are read, are in the   *)
(* map.                                                                    *)
LEMMA AskedIsMapped ==
  ASSUME IInv, NEW f \in Files, NEW h \in 1..n, Asks(h, f) \/ file[h] = f
  PROVE  targets[f] # "absent"
<1>1. CASE file[h] = f
  BY <1>1 DEF IInv, Scheduling
<1>2. CASE Asks(h, f)
  <2>1. nxt[h] <= Len(ListOf(h)) /\ h \in 0..n /\ h # 0
    BY <1>2, Ids DEF IInv, Shape, ShapeOf, Asks
  <2>2. nxt[h] \in 1..Len(deps[file[h]]) /\ deps[file[h]][nxt[h]] = f
    BY <1>2, <2>1, CurrentFile DEF IInv, ListOf, Current, Asks
  <2> QED  BY <1>2, <2>2 DEF IInv, Scheduling, Asks
<1> QED  BY <1>1, <1>2

(* No second reader: a reader takes over the file of the goroutine that    *)
(* asked for it, and a goroutine asks only for a file that is not mapped.  *)
LEMMA OnceStep ==
  ASSUME IInv, Once, [Next]_vars
  PROVE  Once'
<1>0. \A f \in Files : Rooted(f)' = Rooted(f)
  BY ListsStay DEF Rooted, disk
<1>1. ASSUME NEW f \in Files, NEW h \in 1..n', Asks(h, f)' PROVE ~Rooted(f)
  <2>1. CASE Asks(h, f)
    BY <1>1, <2>1, AskStep DEF Once
  <2>2. CASE Decide(h) /\ targets[f] = "absent"
    <3>1. h \in 1..n /\ pc[0] \notin {"unborn", "mark"}
      BY <1>1, AskStep DEF IInv, TypeOK, Fresh
    <3>2. \A i \in 1..Len(roots) : targets[roots[i]] # "absent"
      BY <3>1 DEF IInv, Fresh
    <3> QED  BY <2>2, <3>2 DEF Rooted
  <2> QED  BY <1>1, <2>1, <2>2, AskStep
<1>2. ASSUME NEW f \in Files, ~Rooted(f), NEW a \in 1..n', NEW b \in 1..n', a # b,
             Asks(a, f)', Asks(b, f)'
      PROVE  FALSE
  <2>1. a \in 1..n /\ b \in 1..n /\ a \in 0..n /\ b \in 0..n
    BY <1>2, AskStep, Ids
  <2>2. ASSUME Decide(a), targets[f] = "absent" PROVE FALSE
    <3>1. ~Asks(b, f)
      BY <2>1, <2>2, AskedIsMapped
    <3>2. Decide(b)
      BY <1>2, <3>1, AskStep
    <3>3. pc[b] = "next" /\ pc'[b] = pc[b]
      BY <1>2, <2>1, <2>2, <3>2, OthersStay DEF Decide
    <3> QED  BY <1>2, <3>3 DEF Asks
  <2>3. ASSUME Decide(b), targets[f] = "absent" PROVE FALSE
    <3>1. ~Asks(a, f)
      BY <2>1, <2>3, AskedIsMapped
    <3>2. Decide(a)
      BY <1>2, <3>1, AskStep
    <3> QED  BY <2>2, <2>3, <3>2
  <2>4. Asks(a, f) /\ Asks(b, f)
    BY <1>2, <2>2, <2>3, AskStep
  <2> QED  BY <1>2, <2>1, <2>4 DEF Once
<1>3. ASSUME NEW g \in 0..n, AcquireTask(g), ~Rooted(Current(g))
      PROVE  g \in 1..n /\ Asks(g, Current(g)) /\ ~Asks(g, Current(g))'
  <2>1. g # 0
    <3> SUFFICES ASSUME g = 0 PROVE FALSE
      OBVIOUS
    <3>1. nxt[0] <= Len(ListOf(0)) /\ 0 \in 0..n
      BY <1>3, Ids DEF AcquireTask, IInv, Shape, ShapeOf
    <3>2. nxt[0] \in 1..Len(roots) /\ Current(0) = roots[nxt[0]]
      BY <3>1, CurrentFile DEF IInv, ListOf, Current
    <3> QED  BY <1>3, <3>2 DEF Rooted
  <2>2. pc[g] = "acquire" /\ pc'[g] = "next"
    BY <1>3 DEF AcquireTask, IInv, TypeOK
  <2> QED  BY <2>1, <2>2, Ids DEF Asks
<1>4. ASSUME NEW f \in Files, ~Rooted(f), NEW a \in 1..n', NEW b \in 1..n',
             Asks(a, f)', file'[b] = f
      PROVE  FALSE
  <2>1. a \in 1..n
    BY <1>4, AskStep
  <2>2. CASE b \in 1..n
    <3>1. file[b] = f
      BY <1>4, <2>2, ListsStay
    <3>2. targets[f] # "absent"
      BY <2>2, <3>1, AskedIsMapped
    <3>3. Asks(a, f)
      BY <1>4, <3>2, AskStep
    <3> QED  BY <1>4, <2>1, <2>2, <3>1, <3>3 DEF Once
  <2>3. CASE b \notin 1..n
    <3>1. PICK g \in 0..n : AcquireTask(g) /\ n' = n + 1 /\ file'[n + 1] = Current(g)
      BY <2>3, SpawnStep DEF IInv, TypeOK
    <3>2. b = n + 1 /\ Current(g) = f
      <4>1. n \in Nat /\ b \in 1..(n + 1)
        BY <1>4, <3>1 DEF IInv, TypeOK
      <4>2. b = n + 1
        BY <2>3, <4>1
      <4> QED  BY <1>4, <3>1, <4>2
    <3>3. g \in 1..n /\ Asks(g, f)
      BY <1>3, <1>4, <3>1, <3>2
    <3>4. Asks(a, f) \/ Decide(a)
      BY <1>4, AskStep
    <3>5. ~Decide(a)
      BY <3>1 DEF Decide, IInv, TypeOK
    <3>6. a = g
      BY <1>4, <2>1, <3>3, <3>4, <3>5 DEF Once
    <3>7. pc'[g] = "next"
      BY <3>1 DEF AcquireTask, IInv, TypeOK
    <3> QED  BY <1>4, <3>6, <3>7 DEF Asks
  <2> QED  BY <2>2, <2>3
<1>5. ASSUME NEW f \in Files, ~Rooted(f), NEW a \in 1..n', NEW b \in 1..n', a # b,
             file'[a] = f, file'[b] = f
      PROVE  FALSE
  <2>1. CASE a \in 1..n /\ b \in 1..n
    BY <1>5, <2>1, ListsStay DEF Once
  <2>2. CASE UNCHANGED n
    BY <1>5, <2>1, <2>2
  <2>3. ASSUME NEW g \in 0..n, AcquireTask(g), n' = n + 1, file'[n + 1] = Current(g),
               NEW c \in 1..n, NEW d \in 1..n', d = n + 1, file'[c] = f, file'[d] = f
        PROVE  FALSE
    <3>1. g \in 1..n /\ Asks(g, f)
      BY <1>3, <1>5, <2>3
    <3>2. file[c] = f
      BY <2>3, ListsStay
    <3> QED  BY <1>5, <3>1, <3>2 DEF Once
  <2>4. CASE ~(a \in 1..n /\ b \in 1..n)
    <3>1. PICK g \in 0..n : AcquireTask(g) /\ n' = n + 1 /\ file'[n + 1] = Current(g)
      BY <2>4, SpawnStep DEF IInv, TypeOK
    <3>2. (a = n + 1 /\ b \in 1..n) \/ (b = n + 1 /\ a \in 1..n)
      BY <1>5, <2>4, <3>1 DEF IInv, TypeOK
    <3> QED  BY <1>5, <2>3, <3>1, <3>2
  <2> QED  BY <2>1, <2>4
<1>6. ASSUME NEW f \in Files, ~Rooted(f)
      PROVE  /\ \A g, h \in 1..n' : file'[g] = f /\ file'[h] = f => g = h
             /\ \A g, h \in 1..n' : Asks(g, f)' /\ Asks(h, f)' => g = h
             /\ \A g, h \in 1..n' : Asks(g, f)' => file'[h] # f
  BY <1>2, <1>4, <1>5, <1>6
<1>7. \A g \in 1..n', f \in Files : Asks(g, f)' => ~Rooted(f)'
  BY <1>0, <1>1
<1>8. \A f \in Files : ~Rooted(f)' =>
        /\ \A g, h \in 1..n' : file'[g] = f /\ file'[h] = f => g = h
        /\ \A g, h \in 1..n' : Asks(g, f)' /\ Asks(h, f)' => g = h
        /\ \A g, h \in 1..n' : Asks(g, f)' => file'[h] # f
  BY <1>0, <1>6
<1> QED  BY <1>7, <1>8 DEF Once

(* A root gets one more reader with each of its places that readFiles      *)
(* passes.                                                                 *)
LEMMA AsNamedStep ==
  ASSUME IInv, Once, AsNamed, [Next]_vars
  PROVE  AsNamed'
<1> SUFFICES ASSUME NEW f \in Files, Rooted(f)'
             PROVE  Cardinality(Readers(f)') = Cardinality(Places(f)')
  BY DEF AsNamed
<1>0. UNCHANGED roots /\ Rooted(f) /\ \A h \in 1..n : file'[h] = file[h]
  BY ListsStay DEF Rooted, disk
<1>1. IsFiniteSet(Readers(f)) /\ IsFiniteSet(Places(f))
  <2>1. IsFiniteSet(1..n) /\ IsFiniteSet(1..Len(roots))
    BY FS_Interval, Lists DEF IInv, TypeOK
  <2>2. Readers(f) \subseteq 1..n /\ Places(f) \subseteq 1..Len(roots)
    BY DEF Readers, Places
  <2> QED  BY <2>1, <2>2, FS_Subset
<1>2. Cardinality(Readers(f)) = Cardinality(Places(f)) /\ Cardinality(Places(f)) \in Nat
  BY <1>0, <1>1, FS_CardinalityType DEF AsNamed
<1>3. CASE UNCHANGED <<n, file>> /\ nxt'[0] = nxt[0]
  BY <1>0, <1>2, <1>3 DEF Readers, Places
<1>4. ASSUME NEW g \in 0..n, AcquireTask(g), n' = n + 1, file'[n + 1] = Current(g),
             Current(g) \in Files, nxt'[0] = IF g = 0 THEN nxt[0] + 1 ELSE nxt[0]
      PROVE  Cardinality(Readers(f)') = Cardinality(Places(f)')
  <2>1. n \in Nat /\ nxt[0] \in Nat
    BY DEF IInv, TypeOK
  <2>2. CASE g # 0
    <3>1. Asks(g, Current(g)) /\ g \in 1..n
      BY <1>4, <2>2 DEF AcquireTask, Asks, IInv, TypeOK
    <3>2. Current(g) # f
      BY <1>0, <1>4, <3>1 DEF Once
    <3>3. Readers(f)' = Readers(f) /\ Places(f)' = Places(f)
      BY <1>0, <1>4, <2>1, <2>2, <3>2 DEF Readers, Places
    <3> QED  BY <1>2, <3>3
  <2>3. CASE g = 0
    <3>1. nxt[0] <= Len(ListOf(0)) /\ 0 \in 0..n
      BY <1>4, <2>3, Ids DEF AcquireTask, IInv, Shape, ShapeOf
    <3>2. nxt[0] \in 1..Len(roots) /\ Current(0) = roots[nxt[0]]
      BY <3>1, CurrentFile DEF IInv, ListOf, Current
    <3>3. Len(roots) \in Nat
      BY Lists DEF IInv
    <3>4. CASE Current(0) = f
      <4>1. PICK m \in Nat : m = n + 1
        BY <2>1
      <4>2. m \notin Readers(f) /\ Readers(f)' = Readers(f) \cup {m}
        BY <1>0, <1>4, <2>1, <2>3, <3>4, <4>1 DEF Readers
      <4>3. nxt[0] \notin Places(f) /\ Places(f)' = Places(f) \cup {nxt[0]}
        BY <1>0, <1>4, <2>1, <2>3, <3>2, <3>3, <3>4 DEF Places
      <4>4. Cardinality(Readers(f)') = Cardinality(Readers(f)) + 1
        BY <1>1, <4>2, FS_AddElement
      <4>5. Cardinality(Places(f)') = Cardinality(Places(f)) + 1
        BY <1>1, <4>3, FS_AddElement
      <4> QED  BY <1>2, <4>4, <4>5
    <3>5. CASE Current(0) # f
      <4>1. Readers(f)' = Readers(f)
        BY <1>0, <1>4, <2>1, <2>3, <3>5 DEF Readers
      <4>2. Places(f)' = Places(f)
        BY <1>0, <1>4, <2>1, <2>3, <3>2, <3>3, <3>5 DEF Places
      <4> QED  BY <1>2, <4>1, <4>2
    <3> QED  BY <3>4, <3>5
  <2> QED  BY <2>2, <2>3
<1> QED  BY <1>3, <1>4, SpawnStep

(* Tokens and readers are counted right from the start.                    *)
LEMMA InitCounts == Init => Pool /\ Once /\ AsNamed
<1> SUFFICES ASSUME Init PROVE Pool /\ Once /\ AsNamed
  OBVIOUS
<1>1. n = 0 /\ nxt[0] = 1 /\ pc[0] = "unborn"
  BY DEF Init
<1>2. \A f : Readers(f) = {} /\ Places(f) = {}
  <2>1. Len(roots) \in Nat
    BY InitIInv, Lists DEF IInv
  <2> QED  BY <1>1, <2>1 DEF Readers, Places
<1> QED  BY <1>1, <1>2 DEF Pool, Once, AsNamed

(* The counts hold throughout a run of readFiles, beside what is proved    *)
(* above.                                                                  *)
THEOREM CountsInductive == Spec => [](IInv /\ Pool /\ Once /\ AsNamed)
<1>1. IInv /\ Pool /\ Once /\ AsNamed /\ [Next]_vars => Pool' /\ Once' /\ AsNamed'
  BY PoolStep, OnceStep, AsNamedStep
<1> QED  BY InitCounts, <1>1, Inductive, PTL DEF Spec

(* However readers fail and whoever outlives the call, the tokens of the   *)
(* pool are neither lost nor multiplied: no more than ConcurrentReaders    *)
(* files are open at a time.                                               *)
THEOREM PoolIsConserved == Spec => []PoolConserved
<1>1. IInv /\ Pool => PoolConserved
  BY DEF IInv, TypeOK, Fresh, Pool, PoolConserved
<1> QED  BY CountsInductive, <1>1, PTL

(* Every file is read once, a root as often as the caller names it.        *)
THEOREM EachReadOnce == Spec => []ReadOnce
<1>1. IInv /\ Once /\ AsNamed => ReadOnce
  <2> SUFFICES ASSUME IInv, Once, AsNamed, NEW f \in Files
               PROVE  LET named == Cardinality({i \in 1..Len(roots) : roots[i] = f})
                      IN  Cardinality(Readers(f)) <= IF named = 0 THEN 1 ELSE named
    BY DEF ReadOnce, Readers
  <2> DEFINE Named == {i \in 1..Len(roots) : roots[i] = f}
  <2>0. IsFiniteSet(1..n) /\ IsFiniteSet(1..Len(roots))
    BY FS_Interval, Lists DEF IInv, TypeOK
  <2>1. IsFiniteSet(Named) /\ Named \subseteq 1..Len(roots)
    BY <2>0, FS_Subset
  <2>2. CASE Rooted(f)
    <3>1. Named # {}
      BY <2>2 DEF Rooted
    <3>2. Places(f) \subseteq Named
      BY DEF Places
    <3>3. Cardinality(Places(f)) <= Cardinality(Named) /\ Cardinality(Named) # 0
      BY <2>1, <3>1, <3>2, FS_Subset, FS_EmptySet
    <3> QED  BY <2>2, <3>3 DEF AsNamed
  <2>3. CASE ~Rooted(f)
    <3>1. Named = {}
      BY <2>3 DEF Rooted
    <3>2. \A g, h \in Readers(f) : g = h
      BY <2>3 DEF Once, Readers
    <3>0. Cardinality(Named) = 0
      BY <3>1, FS_EmptySet
    <3>3. CASE Readers(f) = {}
      <4>1. Cardinality(Readers(f)) = 0
        BY <3>3, FS_EmptySet
      <4> HIDE DEF Named
      <4>2. Cardinality(Readers(f)) <= IF Cardinality(Named) = 0 THEN 1 ELSE Cardinality(Named)
        BY <3>0, <4>1
      <4> QED  BY <4>2 DEF Named
    <3>4. ASSUME NEW g \in Readers(f) PROVE Cardinality(Readers(f)) = 1
      <4>1. Readers(f) = {g}
        BY <3>2
      <4> QED  BY <4>1, FS_Singleton
    <3>5. CASE Readers(f) # {}
      <4>1. Cardinality(Readers(f)) = 1
        BY <3>4, <3>5
      <4> HIDE DEF Named
      <4>2. Cardinality(Readers(f)) <= IF Cardinality(Named) = 0 THEN 1 ELSE Cardinality(Named)
        BY <3>0, <4>1
      <4> QED  BY <4>2 DEF Named
    <3> QED  BY <3>3, <3>5
  <2> QED  BY <2>2, <2>3
<1> QED  BY CountsInductive, <1>1, PTL
=============================================================================
