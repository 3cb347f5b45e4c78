---------------------------- MODULE TransferOrder ----------------------------
(***************************************************************************)
(* FindSequenceForTransfers of releasetools/blockimgdiff.py: the graph of  *)
(* order dependencies (GenerateDigraph), a heuristic sequence that keeps   *)
(* most of them (FindVertexSequence), stashes for the others               *)
(* (ReverseBackwardEdges) and a topological sort that saves stash space    *)
(* (ImproveVertexSequence).  One action is one of these passes or one      *)
(* iteration of its loop.                                                  *)
(*                                                                         *)
(* goes_before is the set of edges `before` and goes_after its inverse.    *)
(* The deques s1 and s2 are the positions they will give: the i-th element *)
(* of s1 gets i, the i-th from the right of s2 gets N-1-i.  The order in   *)
(* which an OrderedDict is walked, and the order of equal scores in a      *)
(* heap, is left open.                                                     *)
(***************************************************************************)
EXTENDS Integers, FiniteSets, FiniteSetsExt

CONSTANTS Transfers,   \* the transfers of the update
          Blocks,      \* block numbers
          TgtChoices,  \* what FindTransfers may let the transfers write
          SrcChoices,  \* and read
          ZeroChoices  \* which of them may be __ZERO transfers

ASSUME TransfersAssumption == IsFiniteSet(Transfers) /\ IsFiniteSet(Blocks)

(* FindTransfers leaves no two transfers that write the same block:        *)
(* AssertSequenceGood checks it on its result.                             *)
ASSUME TgtAssumption ==
  /\ TgtChoices \subseteq [Transfers -> SUBSET Blocks]
  /\ \A t \in TgtChoices : \A u, x \in Transfers :
       u # x => t[u] \cap t[x] = {}

ASSUME SrcAssumption == /\ SrcChoices \subseteq [Transfers -> SUBSET Blocks]
                        /\ ZeroChoices \subseteq SUBSET Transfers

VARIABLES tgt,         \* xf.tgt_ranges
          src,         \* xf.src_ranges
          zero,        \* the transfers with src_name "__ZERO"
          again,       \* the second call of FindSequenceForTransfers
          phase,       \* the pass that runs next
          before,      \* <<b, a>>: b.goes_before has a
          inc, out,    \* xf.incoming, xf.outgoing
          score,       \* xf.score
          G,           \* vertices not yet in s1 or s2
          sinks, newSinks, sources, newSources,
          n1, n2,      \* lengths of s1 and s2
          order,       \* xf.order
          stash,       \* <<u, x>>: in u.stash_before and x.use_stash
          ready,       \* the heap S of ImproveVertexSequence
          placed,      \* the transfers in its list L
          rank         \* and their positions there

input == <<tgt, src, zero, again>>
graph == <<before, stash>>
walk  == <<inc, out, score>>
ends  == <<G, sinks, newSinks, sources, newSources, n1, n2, order>>
sort  == <<ready, placed, rank>>

vars == <<input, phase, graph, walk, ends, sort>>

N == Cardinality(Transfers)

Overlap(u, x) == src[x] \cap tgt[u]

(* If the blocks written by a are read by b, then b needs to go before a.  *)
Edges == {p \in Transfers \X Transfers :
            p[1] # p[2] /\ Overlap(p[2], p[1]) # {}}

(* What it costs to violate the edge <<b, a>>.                             *)
Cost(b, a) == IF b \in zero THEN 0 ELSE Cardinality(Overlap(a, b))

Incoming(edges, u) == {b \in Transfers : <<b, u>> \in edges}
Outgoing(edges, u) == {a \in Transfers : <<u, a>> \in edges}

(* The sum of the costs of a set of edges: each is about the blocks of its *)
(* overlap.                                                                *)
Load(edges) == {q \in edges \X Blocks :
                  q[1][1] \notin zero /\ q[2] \in Overlap(q[1][2], q[1][1])}
Weight(edges) == Cardinality(Load(edges))

(* Mutant: the two sums exchanged.                                         *)
NetScoreSwapped(u, succs, preds) == Weight(preds \X {u}) - Weight({u} \X succs)

NetScore(u, succs, preds) == Weight({u} \X succs) - Weight(preds \X {u})

(* The blocks that u stashes less the stashed blocks it consumes.          *)
NetStashChange(u) ==
  MapThenSumSet(LAMBDA x : Cardinality(Overlap(u, x)), Outgoing(stash, u))
    - MapThenSumSet(LAMBDA d : Cardinality(Overlap(d, u)), Incoming(stash, u))

-----------------------------------------------------------------------------
Init ==
  /\ tgt \in TgtChoices /\ src \in SrcChoices /\ zero \in ZeroChoices
  /\ again = FALSE
  /\ phase = "digraph"
  /\ before = {} /\ stash = {}
  /\ inc = [u \in Transfers |-> {}]
  /\ out = [u \in Transfers |-> {}]
  /\ score = [u \in Transfers |-> 0]
  /\ G = {} /\ sinks = {} /\ newSinks = {} /\ sources = {} /\ newSources = {}
  /\ n1 = 0 /\ n2 = 0
  /\ order = [u \in Transfers |-> 0]
  /\ ready = {} /\ placed = {}
  /\ rank = [u \in Transfers |-> 0]

(* The dependencies and stashes of an earlier call are dropped, then the   *)
(* edges are found.                                                        *)
GenerateDigraph ==
  /\ phase = "digraph"
  /\ before' = Edges
  /\ stash' = {}
  /\ phase' = "sequence"
  /\ UNCHANGED <<input, walk, ends, sort>>

BeginSequence ==
  /\ phase = "sequence"
  /\ inc' = [u \in Transfers |-> Incoming(before, u)]
  /\ out' = [u \in Transfers |-> Outgoing(before, u)]
  /\ score' = [u \in Transfers |->
                 NetScore(u, Outgoing(before, u), Incoming(before, u))]
  /\ G' = Transfers
  /\ sinks' = {u \in Transfers : Outgoing(before, u) = {}}
  /\ sources' = {u \in Transfers : Incoming(before, u) = {}}
  /\ newSinks' = {} /\ newSources' = {}
  /\ n1' = 0 /\ n2' = 0
  /\ phase' = "place"
  /\ UNCHANGED <<input, graph, order, sort>>

(* u leaves the graph; its predecessors, its successors, forget it.        *)
PopFromOut(u) == out' = [v \in Transfers |->
                           IF v \in inc[u] THEN out[v] \ {u} ELSE out[v]]
PopFromInc(u) == inc' = [v \in Transfers |->
                           IF v \in out[u] THEN inc[v] \ {u} ELSE inc[v]]
LoseOut(u, v) == IF v \in inc[u] THEN Cost(v, u) ELSE 0

(* Mutant: a placed source keeps counting for its successors.              *)
LoseIncNothing(u, v) == 0

LoseInc(u, v) == IF v \in out[u] THEN Cost(u, v) ELSE 0
LastOut(u) == {v \in inc[u] : out[v] = {u}}
LastInc(u) == {v \in out[u] : inc[v] = {u}}

AppendLeft(u)  == /\ G' = G \ {u}
                  /\ n1' = n1 + 1 /\ n2' = n2
                  /\ order' = [order EXCEPT ![u] = n1]

AppendRight(u) == /\ G' = G \ {u}
                  /\ n2' = n2 + 1 /\ n1' = n1
                  /\ order' = [order EXCEPT ![u] = N - 1 - n2]

(* The round of sinks (sources) in which u is placed: those that became    *)
(* sinks meanwhile are the next round.                                     *)
PlaceSink(u) ==
  LET rest == (sinks \cap G) \ {u}
      new  == newSinks \cup LastOut(u)
  IN /\ phase = "place"
     /\ u \in sinks \cap G
     /\ AppendRight(u)
     /\ PopFromOut(u)
     /\ score' = [v \in Transfers |-> score[v] - LoseOut(u, v)]
     /\ sinks' = IF rest = {} THEN new ELSE rest
     /\ newSinks' = IF rest = {} THEN {} ELSE new
     /\ UNCHANGED <<input, phase, graph, inc, sources, newSources, sort>>

PlaceSource(u) ==
  LET rest == (sources \cap G) \ {u}
      new  == newSources \cup LastInc(u)
  IN /\ phase = "place"
     /\ sinks \cap G = {}
     /\ u \in sources \cap G
     /\ AppendLeft(u)
     /\ PopFromInc(u)
     /\ score' = [v \in Transfers |-> score[v] + LoseInc(u, v)]
     /\ sources' = IF rest = {} THEN new ELSE rest
     /\ newSources' = IF rest = {} THEN {} ELSE new
     /\ UNCHANGED <<input, phase, graph, out, sinks, newSinks, sort>>

(* No sink and no source is left: the vertex with the best score is put    *)
(* next as if it were a source, and its incoming edges are given up.       *)
PlaceBest(u) ==
  /\ phase = "place"
  /\ sinks \cap G = {} /\ sources \cap G = {}
  /\ u \in G
  /\ \A v \in G : score[v] <= score[u]
  /\ AppendLeft(u)
  /\ PopFromInc(u) /\ PopFromOut(u)
  /\ score' = [v \in Transfers |-> score[v] + LoseInc(u, v) - LoseOut(u, v)]
  /\ sources' = LastInc(u)
  /\ sinks' = LastOut(u)
  /\ UNCHANGED <<input, phase, graph, newSinks, newSources, sort>>

FinishSequence ==
  /\ phase = "place"
  /\ G = {}
  /\ phase' = "reverse"
  /\ UNCHANGED <<input, graph, walk, ends, sort>>

(* Edges <<x, u>> that the sequence violates: u stashes what x reads, and  *)
(* the edge is turned round.                                               *)
ReverseBackwardEdges ==
  LET violated == {p \in before : ~(order[p[1]] < order[p[2]])}
      turned   == {<<p[2], p[1]>> : p \in violated}
  IN /\ phase = "reverse"
     /\ stash' = stash \cup turned
     /\ before' = (before \ violated) \cup turned
     /\ phase' = "improve"
     /\ UNCHANGED <<input, walk, ends, sort>>

BeginImprove ==
  /\ phase = "improve"
  /\ inc' = [u \in Transfers |-> Incoming(before, u)]
  /\ out' = [u \in Transfers |-> Outgoing(before, u)]
  /\ ready' = {u \in Transfers : Incoming(before, u) = {}}
  /\ placed' = {}
  /\ phase' = "sort"
  /\ UNCHANGED <<input, graph, score, ends, rank>>

(* Mutant: the transfer is read from the heap but not popped.              *)
ImproveStepPeek(u) ==
  /\ phase = "sort"
  /\ u \in ready
  /\ \A v \in ready \ {u} :
       \/ NetStashChange(u) < NetStashChange(v)
       \/ NetStashChange(u) = NetStashChange(v) /\ order[u] < order[v]
  /\ rank' = [rank EXCEPT ![u] = Cardinality(placed \ {u})]
  /\ placed' = placed \cup {u}
  /\ PopFromInc(u)
  /\ ready' = ready \cup LastInc(u)
  /\ UNCHANGED <<input, phase, graph, out, score, ends>>

(* The ready transfer that leaves the least stashed data goes next.        *)
ImproveStep(u) ==
  /\ phase = "sort"
  /\ u \in ready
  /\ \A v \in ready \ {u} :
       \/ NetStashChange(u) < NetStashChange(v)
       \/ NetStashChange(u) = NetStashChange(v) /\ order[u] < order[v]
  /\ rank' = [rank EXCEPT ![u] = Cardinality(placed)]
  /\ placed' = placed \cup {u}
  /\ PopFromInc(u)
  /\ ready' = (ready \ {u}) \cup LastInc(u)
  /\ UNCHANGED <<input, phase, graph, out, score, ends>>

(* "if this fails then our graph had a cycle"                              *)
ImproveDone ==
  /\ phase = "sort"
  /\ ready = {}
  /\ IF placed = Transfers
       THEN phase' = "done" /\ order' = rank
       ELSE phase' = "assertion failed" /\ order' = order
  /\ UNCHANGED <<input, graph, walk, G, sinks, newSinks, sources, newSources,
                 n1, n2, sort>>

(* Mutant: the style of a transfer is not asked.                           *)
ConvertAnyStyle(chosen) ==
  /\ phase = "done" /\ ~again
  /\ again' = TRUE
  /\ src' = [u \in Transfers |-> IF u \in chosen \cup zero THEN {} ELSE src[u]]
  /\ phase' = "digraph"
  /\ UNCHANGED <<tgt, zero, graph, walk, ends, sort>>

(* Compute turns diff transfers into "new" ones, which read nothing, and   *)
(* asks for a sequence again.                                              *)
Convert(chosen) ==
  /\ phase = "done" /\ ~again
  /\ again' = TRUE
  /\ src' = [u \in Transfers |-> IF u \in chosen THEN {} ELSE src[u]]
  /\ phase' = "digraph"
  /\ UNCHANGED <<tgt, zero, graph, walk, ends, sort>>

(* Compute goes on with the sequence it has.                               *)
Finished == phase = "done" /\ UNCHANGED vars

Step ==
  \/ GenerateDigraph
  \/ BeginSequence
  \/ \E u \in Transfers : PlaceSink(u) \/ PlaceSource(u) \/ PlaceBest(u)
  \/ FinishSequence
  \/ ReverseBackwardEdges
  \/ BeginImprove
  \/ \E u \in Transfers : ImproveStep(u)
  \/ ImproveDone

Next == \/ Step
        \/ \E chosen \in SUBSET (Transfers \ zero) : Convert(chosen)
        \/ Finished

Spec == Init /\ [][Next]_vars

FairSpec == Spec /\ WF_vars(Step)

-----------------------------------------------------------------------------
(* The destructive copies that FindVertexSequence works on stay the degree *)
(* sets and the scores of the graph that is left, however placements of    *)
(* sinks, sources and best vertices follow one another: no pop() of a key  *)
(* that is not there, no sink or source that is missed or taken wrongly,   *)
(* no stale score in the heap.                                             *)
BookkeepingExact ==
  phase = "place" =>
    /\ \A u \in G :
         /\ inc[u] = Incoming(before, u) \cap G
         /\ out[u] = Outgoing(before, u) \cap G
         /\ score[u] = NetScore(u, out[u], inc[u])
    /\ (sinks \cup newSinks) \cap G = {u \in G : out[u] = {}}
    /\ (sources \cup newSources) \cap G = {u \in G : inc[u] = {}}

(* The result of FindSequenceForTransfers: every transfer has a position   *)
(* of its own, a block that is overwritten before a later transfer reads   *)
(* it is stashed for that transfer, and nothing else is stashed; also when *)
(* the sequence is found for the second time.                              *)
StashExact ==
  phase = "done" =>
    /\ \A u, x \in Transfers : u # x => order[u] # order[x]
    /\ stash = {p \in Transfers \X Transfers :
                  order[p[1]] < order[p[2]] /\ Overlap(p[1], p[2]) # {}}

(* The assertion of ImproveVertexSequence, "if this fails then our graph   *)
(* had a cycle", does not fail.                                            *)
NoCycleLeft == phase # "assertion failed"

(* The heuristic of FindVertexSequence gives up at most half of the source *)
(* blocks that the dependencies are worth: the vertex it takes when no     *)
(* sink and no source is left loses no more than it saves.                 *)
HalfKept ==
  phase = "improve" =>
    2 * Weight({<<p[2], p[1]>> : p \in stash}) <= Weight(Edges)

(* The passes together do what TransferSequence does in one step.          *)
Abstract ==
  INSTANCE TransferSequence
    WITH answer <- IF phase = "done"
                     THEN {[order |-> order, stash |-> stash]} ELSE {}

ImplementsTransferSequence == Abstract!ASpec

(* Every call of FindSequenceForTransfers ends: G shrinks with every       *)
(* placement and the heap of ImproveVertexSequence runs empty.             *)
Terminates == [](phase = "digraph" => <>(phase = "done"))
=============================================================================
