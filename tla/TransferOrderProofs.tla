------------------------- MODULE TransferOrderProofs -------------------------
(***************************************************************************)
(* Proofs about TransferOrder, for any finite set of transfers and any     *)
(* blocks they read and write: the assertion of ImproveVertexSequence      *)
(* never fails, the stashes are exactly those the final order needs, and   *)
(* the passes implement the one-step specification TransferSequence.       *)
(*                                                                         *)
(* The inductive invariant follows the passes.  While vertices are placed, *)
(* the left part of the sequence holds positions below n1 and the right    *)
(* part positions from N - n2, so no two vertices share one (Positions);   *)
(* reversing the backward edges leaves a graph whose edges all go up in    *)
(* the first order (Oriented), hence a nonempty set of unplaced transfers  *)
(* has a source, the one that is first in that order (Sorting and lemma    *)
(* SomeReady); and an edge that is respected by both orders is stashed by  *)
(* both or by none.  For all of that the sums of costs play no part: they  *)
(* only choose among placements that are all correct.                      *)
(*                                                                         *)
(* They matter for the second half of the module.  Rounds, Degrees and     *)
(* Scores say that the walk keeps the degree sets and scores of the graph  *)
(* that is left; Half, that the edges it violates are worth at most half   *)
(* of the edges it has decided.  The one placement that violates edges     *)
(* takes the best score, which is not negative: every edge leaves one      *)
(* vertex and enters one, so not every vertex can lose more than it saves  *)
(* (lemma Losses, by a smallest set that does).                            *)
(***************************************************************************)
EXTENDS TransferOrder, FiniteSetTheorems, WellFoundedInduction, TLAPS

(* A nonempty set of naturals has a smallest element.                      *)
LEMMA Smallest ==
  ASSUME NEW S, S \subseteq Nat, S # {}
  PROVE  \E m \in S : \A k \in S : m <= k
<1> DEFINE less == {p \in Nat \X Nat : p[1] < p[2]}
<1>1. IsWellFoundedOn(less, Nat)
  BY NatLessThanWellFounded DEF OpToRel
<1>2. PICK m \in S : \A k \in S : ~(<<k, m>> \in less)
  <2> HIDE DEF less
  <2> QED BY <1>1, WFMin
<1>3. ASSUME NEW k \in S PROVE m <= k
  <2>1. k \in Nat /\ m \in Nat /\ <<k, m>> \notin less
    BY <1>2
  <2>2. QED
    BY <2>1
<1>4. QED
  BY <1>3

-----------------------------------------------------------------------------
Phases == {"digraph", "sequence", "place", "reverse", "improve", "sort",
           "done", "assertion failed"}

Types ==
  /\ tgt \in TgtChoices /\ zero \in ZeroChoices
  /\ src \in [Transfers -> SUBSET Blocks]
  /\ again \in BOOLEAN
  /\ phase \in Phases
  /\ before \subseteq Transfers \X Transfers
  /\ stash \subseteq Transfers \X Transfers
  /\ inc \in [Transfers -> SUBSET Transfers]
  /\ out \in [Transfers -> SUBSET Transfers]
  /\ G \subseteq Transfers
  /\ sinks \subseteq Transfers /\ newSinks \subseteq Transfers
  /\ sources \subseteq Transfers /\ newSources \subseteq Transfers
  /\ n1 \in Nat /\ n2 \in Nat
  /\ order \in [Transfers -> 0..(N - 1)]
  /\ ready \subseteq Transfers /\ placed \subseteq Transfers
  /\ rank \in [Transfers -> 0..(N - 1)]

Distinct(f, S) == \A u, x \in S : u # x => f[u] # f[x]

(* Two transfers of which one overwrites what the other reads.             *)
Clash(u, x) == u # x /\ (Overlap(u, x) # {} \/ Overlap(x, u) # {})

Positions ==
  phase = "place" =>
    /\ n1 + n2 + Cardinality(G) = N
    /\ \A u \in Transfers \ G : order[u] < n1 \/ order[u] >= N - n2
    /\ Distinct(order, Transfers \ G)

Unreversed ==
  phase \in {"sequence", "place", "reverse"} => before = Edges /\ stash = {}

Oriented ==
  phase \in {"improve", "sort"} =>
    /\ \A u, x \in Transfers :
         <<u, x>> \in before <=> order[u] < order[x] /\ Clash(u, x)
    /\ \A u, x \in Transfers :
         <<u, x>> \in stash <=> order[u] < order[x] /\ Overlap(u, x) # {}

OrderDistinct ==
  phase \in {"reverse", "improve", "sort", "done"} => Distinct(order, Transfers)

Sorting ==
  phase = "sort" =>
    /\ \A v \in Transfers \ placed :
         inc[v] = {w \in Transfers \ placed : <<w, v>> \in before}
    /\ \A v \in Transfers : out[v] = Outgoing(before, v)
    /\ ready = {v \in Transfers \ placed : inc[v] = {}}
    /\ \A w, v \in Transfers :
         <<w, v>> \in before /\ v \in placed => w \in placed /\ rank[w] < rank[v]
    /\ \A u \in placed : rank[u] < Cardinality(placed)
    /\ Distinct(rank, placed)

Finally ==
  phase = "done" =>
    \A u, x \in Transfers :
      <<u, x>> \in stash <=> order[u] < order[x] /\ Overlap(u, x) # {}

IInv == /\ Types /\ Positions /\ Unreversed /\ Oriented /\ OrderDistinct
        /\ Sorting /\ Finally /\ NoCycleLeft

-----------------------------------------------------------------------------

(* Sets of transfers are finite and count at most N.                       *)
LEMMA Counting ==
  /\ N \in Nat
  /\ \A S \in SUBSET Transfers :
       IsFiniteSet(S) /\ Cardinality(S) \in Nat /\ Cardinality(S) <= N
<1>1. N \in Nat
  BY TransfersAssumption, FS_CardinalityType DEF N
<1>2. ASSUME NEW S \in SUBSET Transfers
      PROVE  IsFiniteSet(S) /\ Cardinality(S) \in Nat /\ Cardinality(S) <= N
  <2>1. IsFiniteSet(S) /\ Cardinality(S) <= Cardinality(Transfers)
    BY TransfersAssumption, FS_Subset
  <2>2. QED
    BY <2>1, FS_CardinalityType DEF N
<1>3. QED
  BY <1>1, <1>2

(* One transfer fewer.                                                     *)
LEMMA CountRemove ==
  ASSUME NEW S \in SUBSET Transfers, NEW u \in S
  PROVE  Cardinality(S \ {u}) = Cardinality(S) - 1 /\ Cardinality(S) >= 1
<1>1. IsFiniteSet(S) /\ Cardinality(S) \in Nat
  BY Counting
<1>2. Cardinality(S \ {u}) = Cardinality(S) - 1
  BY <1>1, FS_RemoveElement
<1>3. Cardinality(S \ {u}) \in Nat
  BY Counting, S \ {u} \in SUBSET Transfers
<1>4. QED
  BY <1>1, <1>2, <1>3

(* One transfer more.                                                      *)
LEMMA CountAdd ==
  ASSUME NEW S \in SUBSET Transfers, NEW u \in Transfers, u \notin S
  PROVE  Cardinality(S \cup {u}) = Cardinality(S) + 1 /\ Cardinality(S) < N
<1>1. IsFiniteSet(S) /\ Cardinality(S) \in Nat
  BY Counting
<1>2. Cardinality(S \cup {u}) = Cardinality(S) + 1
  BY <1>1, FS_AddElement
<1>3. Cardinality(S \cup {u}) <= N
  BY Counting, S \cup {u} \in SUBSET Transfers
<1>4. QED
  BY <1>1, <1>2, <1>3, Counting

(* The transfers' initial state.                                           *)
LEMMA InitOK ==
  ASSUME Init
  PROVE  IInv
<1>1. \A u \in Transfers : 0 \in 0..(N - 1)
  <2>1. TAKE u \in Transfers
  <2>2. Cardinality(Transfers) >= 1
    BY CountRemove
  <2>3. QED
    BY <2>2, Counting DEF N
<1>2. Types
  <2>1. src \in [Transfers -> SUBSET Blocks]
    BY SrcAssumption DEF Init
  <2>2. order \in [Transfers -> 0..(N - 1)] /\ rank \in [Transfers -> 0..(N - 1)]
    BY <1>1 DEF Init
  <2>3. QED
    BY <2>1, <2>2 DEF Types, Init, Phases
<1>3. QED
  BY <1>2 DEF IInv, Init, Positions, Unreversed, Oriented, OrderDistinct,
              Sorting, Finally, NoCycleLeft

(* GenerateDigraph: the graph of an earlier call is gone.                  *)
LEMMA DigraphOK ==
  ASSUME IInv, GenerateDigraph
  PROVE  IInv'
<1>1. Types'
  BY DEF IInv, Types, GenerateDigraph, input, walk, ends, sort, Phases, Edges
<1>2. Unreversed'
  BY DEF GenerateDigraph, input, Unreversed, Edges, Overlap
<1>3. QED
  BY <1>1, <1>2 DEF IInv, GenerateDigraph, Positions, Oriented, OrderDistinct,
                    Sorting, Finally, NoCycleLeft

(* The copies that FindVertexSequence walks.                               *)
LEMMA BeginOK ==
  ASSUME IInv, BeginSequence
  PROVE  IInv'
<1>1. Types'
  BY DEF IInv, Types, BeginSequence, input, graph, sort, Phases, Incoming, Outgoing
<1>2. Positions'
  BY Counting DEF Positions, BeginSequence, Distinct, N
<1>3. Unreversed'
  BY DEF IInv, BeginSequence, input, graph, Unreversed, Edges, Overlap
<1>4. QED
  BY <1>1, <1>2, <1>3 DEF IInv, BeginSequence, Oriented, OrderDistinct,
                          Sorting, Finally, NoCycleLeft

(* A placement at the left end keeps the positions apart.                  *)
LEMMA LeftOK ==
  ASSUME IInv, phase = "place", phase' = phase, NEW u \in G, AppendLeft(u)
  PROVE  Positions' /\ order' \in [Transfers -> 0..(N - 1)] /\ G' \subseteq Transfers
<1>1. /\ Cardinality(G \ {u}) = Cardinality(G) - 1 /\ Cardinality(G) >= 1
      /\ Cardinality(G) \in Nat
  BY CountRemove, Counting DEF IInv, Types
<1>2. /\ n1 \in Nat /\ n2 \in Nat /\ N \in Nat /\ u \in Transfers
      /\ G \subseteq Transfers
      /\ order \in [Transfers -> 0..(N - 1)]
      /\ n1 + n2 + Cardinality(G) = N
      /\ \A v \in Transfers \ G : order[v] < n1 \/ order[v] >= N - n2
      /\ Distinct(order, Transfers \ G)
  BY Counting DEF IInv, Types, Positions
<1>3. n1 < N - n2
  BY <1>1, <1>2
<1>4. order' \in [Transfers -> 0..(N - 1)]
  BY <1>2, <1>3 DEF AppendLeft
<1>5. n1' + n2' + Cardinality(G') = N
  BY <1>1, <1>2 DEF AppendLeft
<1>6. ASSUME NEW v \in Transfers \ G'
      PROVE  order'[v] < n1' \/ order'[v] >= N - n2'
  <2>1. CASE v = u
    BY <2>1, <1>2 DEF AppendLeft
  <2>2. CASE v # u
    <3>1. v \in Transfers \ G /\ order'[v] = order[v] /\ order[v] \in Int
      BY <2>2, <1>2, <1>6 DEF AppendLeft
    <3>2. QED
      BY <3>1, <1>2 DEF AppendLeft
  <2>3. QED
    BY <2>1, <2>2
<1>7. ASSUME NEW v \in Transfers \ G', NEW w \in Transfers \ G', v # w
      PROVE  order'[v] # order'[w]
  <2>1. ASSUME NEW z \in Transfers \ G', z # u
        PROVE  z \in Transfers \ G /\ order'[z] = order[z] /\ order'[z] # n1
    BY <2>1, <1>2, <1>3 DEF AppendLeft
  <2>2. order'[u] = n1
    BY <1>2 DEF AppendLeft
  <2>3. CASE v # u /\ w # u
    BY <2>1, <2>3, <1>2, <1>7 DEF Distinct
  <2>4. QED
    BY <2>1, <2>2, <2>3, <1>7
<1>8. Positions'
  <2>1. N' = N
    BY DEF N
  <2>2. QED
    BY <1>5, <1>6, <1>7, <2>1 DEF Positions, Distinct
<1>9. QED
  BY <1>4, <1>8, <1>2 DEF AppendLeft

(* And so does one at the right end.                                       *)
LEMMA RightOK ==
  ASSUME IInv, phase = "place", phase' = phase, NEW u \in G, AppendRight(u)
  PROVE  Positions' /\ order' \in [Transfers -> 0..(N - 1)] /\ G' \subseteq Transfers
<1>1. /\ Cardinality(G \ {u}) = Cardinality(G) - 1 /\ Cardinality(G) >= 1
      /\ Cardinality(G) \in Nat
  BY CountRemove, Counting DEF IInv, Types
<1>2. /\ n1 \in Nat /\ n2 \in Nat /\ N \in Nat /\ u \in Transfers
      /\ G \subseteq Transfers
      /\ order \in [Transfers -> 0..(N - 1)]
      /\ n1 + n2 + Cardinality(G) = N
      /\ \A v \in Transfers \ G : order[v] < n1 \/ order[v] >= N - n2
      /\ Distinct(order, Transfers \ G)
  BY Counting DEF IInv, Types, Positions
<1>3. n1 <= N - 1 - n2
  BY <1>1, <1>2
<1>4. order' \in [Transfers -> 0..(N - 1)]
  BY <1>2, <1>3 DEF AppendRight
<1>5. n1' + n2' + Cardinality(G') = N
  BY <1>1, <1>2 DEF AppendRight
<1>6. ASSUME NEW v \in Transfers \ G'
      PROVE  order'[v] < n1' \/ order'[v] >= N - n2'
  <2>1. CASE v = u
    BY <2>1, <1>2 DEF AppendRight
  <2>2. CASE v # u
    <3>1. v \in Transfers \ G /\ order'[v] = order[v] /\ order[v] \in Int
      BY <2>2, <1>2, <1>6 DEF AppendRight
    <3>2. QED
      BY <3>1, <1>2 DEF AppendRight
  <2>3. QED
    BY <2>1, <2>2
<1>7. ASSUME NEW v \in Transfers \ G', NEW w \in Transfers \ G', v # w
      PROVE  order'[v] # order'[w]
  <2>1. ASSUME NEW z \in Transfers \ G', z # u
        PROVE  z \in Transfers \ G /\ order'[z] = order[z] /\ order'[z] # N - 1 - n2
    BY <2>1, <1>2, <1>3 DEF AppendRight
  <2>2. order'[u] = N - 1 - n2
    BY <1>2 DEF AppendRight
  <2>3. CASE v # u /\ w # u
    BY <2>1, <2>3, <1>2, <1>7 DEF Distinct
  <2>4. QED
    BY <2>1, <2>2, <2>3, <1>7
<1>8. Positions'
  <2>1. N' = N
    BY DEF N
  <2>2. QED
    BY <1>5, <1>6, <1>7, <2>1 DEF Positions, Distinct
<1>9. QED
  BY <1>4, <1>8, <1>2 DEF AppendRight

(* The three placements of FindVertexSequence.                             *)
LEMMA PlaceOK ==
  ASSUME IInv, NEW u \in Transfers, PlaceSink(u) \/ PlaceSource(u) \/ PlaceBest(u)
  PROVE  IInv'
<1>1. /\ phase = "place" /\ phase' = phase /\ u \in G
      /\ UNCHANGED <<input, graph, sort>>
      /\ AppendLeft(u) \/ AppendRight(u)
  BY DEF PlaceSink, PlaceSource, PlaceBest
<1>2. Positions' /\ order' \in [Transfers -> 0..(N - 1)] /\ G' \subseteq Transfers
  BY <1>1, LeftOK, RightOK
<1>3. n1' \in Nat /\ n2' \in Nat
  BY <1>1 DEF AppendLeft, AppendRight, IInv, Types
<1>4. inc' \in [Transfers -> SUBSET Transfers]
  BY DEF PlaceSink, PlaceSource, PlaceBest, PopFromInc, IInv, Types
<1>5. out' \in [Transfers -> SUBSET Transfers]
  BY DEF PlaceSink, PlaceSource, PlaceBest, PopFromOut, IInv, Types
<1>6. /\ sinks' \subseteq Transfers /\ newSinks' \subseteq Transfers
      /\ sources' \subseteq Transfers /\ newSources' \subseteq Transfers
  BY DEF PlaceSink, PlaceSource, PlaceBest, LastOut, LastInc, IInv, Types
<1>7. Types'
  BY <1>1, <1>2, <1>3, <1>4, <1>5, <1>6 DEF IInv, Types, input, graph, sort, N
<1>8. Unreversed'
  BY <1>1 DEF IInv, Unreversed, Edges, Overlap, input, graph
<1>9. QED
  BY <1>1, <1>2, <1>7, <1>8
     DEF IInv, Oriented, OrderDistinct, Sorting, Finally, NoCycleLeft

(* The sequence is complete: every transfer has a position.                *)
LEMMA FinishOK ==
  ASSUME IInv, FinishSequence
  PROVE  IInv'
<1>1. Types'
  BY DEF IInv, Types, FinishSequence, input, graph, walk, ends, sort, Phases
<1>2. OrderDistinct'
  BY DEF IInv, Positions, FinishSequence, ends, OrderDistinct, Distinct
<1>3. Unreversed'
  BY DEF IInv, FinishSequence, input, graph, Unreversed, Edges, Overlap
<1>4. QED
  BY <1>1, <1>2, <1>3 DEF IInv, FinishSequence, Positions, Oriented, Sorting,
                          Finally, NoCycleLeft

(* Every edge goes up in the order, every overlap that went down is        *)
(* stashed.                                                                *)
LEMMA ReverseOK ==
  ASSUME IInv, ReverseBackwardEdges
  PROVE  IInv'
<1> DEFINE violated == {p \in before : ~(order[p[1]] < order[p[2]])}
           turned   == {<<p[2], p[1]>> : p \in violated}
<1>1. /\ phase = "reverse" /\ phase' = "improve"
      /\ stash' = stash \cup turned
      /\ before' = (before \ violated) \cup turned
      /\ UNCHANGED <<input, walk, ends, sort>>
  BY DEF ReverseBackwardEdges
<1>2. /\ before = Edges /\ stash = {}
      /\ order \in [Transfers -> Int]
      /\ Distinct(order, Transfers)
  BY <1>1, Counting DEF IInv, Types, Unreversed, OrderDistinct
<1>3. \A b, a \in Transfers : <<b, a>> \in before <=> b # a /\ Overlap(a, b) # {}
  BY <1>2 DEF Edges
<1>4. before \subseteq Transfers \X Transfers
  BY DEF IInv, Types
<1>5. ASSUME NEW u \in Transfers, NEW x \in Transfers
      PROVE  <<u, x>> \in turned <=> order[u] < order[x] /\ Overlap(u, x) # {}
  <2>1. <<u, x>> \in turned <=> <<x, u>> \in violated
    BY <1>4
  <2>2. <<x, u>> \in violated <=> <<x, u>> \in before /\ ~(order[x] < order[u])
    OBVIOUS
  <2>3. u # x => order[u] # order[x]
    BY <1>2 DEF Distinct
  <2>4. QED
    BY <2>1, <2>2, <2>3, <1>2, <1>3
<1>6. ASSUME NEW u \in Transfers, NEW x \in Transfers
      PROVE  <<u, x>> \in before' <=> order[u] < order[x] /\ Clash(u, x)
  <2>1. <<u, x>> \in before \ violated <=> <<u, x>> \in before /\ order[u] < order[x]
    OBVIOUS
  <2>2. <<u, x>> \in before' <=> <<u, x>> \in before \ violated \/ <<u, x>> \in turned
    BY <1>1
  <2>3. order[u] < order[x] => u # x
    BY <1>2
  <2> HIDE DEF violated, turned
  <2>4. QED
    BY <2>1, <2>2, <2>3, <1>3, <1>5 DEF Clash
<1>7. turned \subseteq Transfers \X Transfers
  BY <1>4
<1>8. Oriented'
  <2> HIDE DEF violated, turned
  <2>1. ASSUME NEW u \in Transfers, NEW x \in Transfers
        PROVE  <<u, x>> \in stash' <=> order[u] < order[x] /\ Overlap(u, x) # {}
    BY <1>1, <1>2, <1>5
  <2>2. /\ order' = order /\ \A u, x \in Transfers : Overlap(u, x)' = Overlap(u, x)
        /\ \A u, x \in Transfers : Clash(u, x)' = Clash(u, x)
    BY <1>1 DEF ends, input, Overlap, Clash
  <2>3. QED
    BY <1>6, <2>1, <2>2 DEF Oriented
<1>9. Types'
  <2> HIDE DEF violated, turned
  <2> QED BY <1>1, <1>7 DEF IInv, Types, input, walk, ends, sort, Phases, N
<1>10. OrderDistinct'
  BY <1>1, <1>2 DEF OrderDistinct, Distinct, ends
<1> HIDE DEF violated, turned
<1>11. QED
  BY <1>1, <1>8, <1>9, <1>10 DEF IInv, Positions, Unreversed, Sorting,
                                 Finally, NoCycleLeft

(* What does not depend on the pass: neither order nor stashes change      *)
(* while ImproveVertexSequence sorts.                                      *)
LEMMA OrientedKept ==
  ASSUME IInv, phase \in {"improve", "sort"}, phase' = "sort",
         UNCHANGED <<input, graph, order>>
  PROVE  Oriented' /\ OrderDistinct'
<1>1. /\ \A u, x \in Transfers : Overlap(u, x)' = Overlap(u, x)
      /\ \A u, x \in Transfers : Clash(u, x)' = Clash(u, x)
  BY DEF input, Overlap, Clash
<1>2. Oriented'
  BY <1>1 DEF IInv, Oriented, graph
<1>3. OrderDistinct'
  BY DEF IInv, OrderDistinct, Distinct
<1>4. QED
  BY <1>2, <1>3

(* The sort starts with nothing placed.                                    *)
LEMMA BeginImproveOK ==
  ASSUME IInv, BeginImprove
  PROVE  IInv'
<1>1. Types'
  BY DEF IInv, Types, BeginImprove, input, graph, ends, Phases, Incoming, Outgoing, N
<1>2. Oriented' /\ OrderDistinct'
  BY OrientedKept DEF BeginImprove, ends
<1>3. Sorting'
  BY DEF BeginImprove, graph, Sorting, Incoming, Outgoing, Distinct
<1>4. QED
  BY <1>1, <1>2, <1>3 DEF IInv, BeginImprove, Positions, Unreversed,
                          Finally, NoCycleLeft

(* One more transfer in the list L: its predecessors are there already,    *)
(* and whoever waited for it alone is ready.                               *)
LEMMA ImproveStepOK ==
  ASSUME IInv, NEW u \in Transfers, ImproveStep(u)
  PROVE  IInv'
<1>1. /\ phase = "sort" /\ phase' = "sort" /\ u \in ready
      /\ rank' = [rank EXCEPT ![u] = Cardinality(placed)]
      /\ placed' = placed \cup {u}
      /\ PopFromInc(u)
      /\ ready' = (ready \ {u}) \cup LastInc(u)
      /\ UNCHANGED <<input, graph, out, ends>>
  BY DEF ImproveStep
<1>2. /\ placed \in SUBSET Transfers /\ rank \in [Transfers -> 0..(N - 1)]
      /\ ready \subseteq Transfers /\ N \in Nat
      /\ inc \in [Transfers -> SUBSET Transfers]
      /\ out \in [Transfers -> SUBSET Transfers]
  BY Counting DEF IInv, Types
<1>3. /\ \A v \in Transfers \ placed :
           inc[v] = {w \in Transfers \ placed : <<w, v>> \in before}
      /\ \A v \in Transfers : out[v] = Outgoing(before, v)
      /\ ready = {v \in Transfers \ placed : inc[v] = {}}
      /\ \A w, v \in Transfers :
           <<w, v>> \in before /\ v \in placed => w \in placed /\ rank[w] < rank[v]
      /\ \A v \in placed : rank[v] < Cardinality(placed)
      /\ Distinct(rank, placed)
  BY <1>1 DEF IInv, Sorting
<1>4. u \notin placed /\ inc[u] = {}
  BY <1>1, <1>3
<1>5. /\ Cardinality(placed \cup {u}) = Cardinality(placed) + 1
      /\ Cardinality(placed) < N /\ Cardinality(placed) \in Nat
  BY <1>2, <1>4, CountAdd, Counting
<1>6. rank' \in [Transfers -> 0..(N - 1)] /\ rank'[u] = Cardinality(placed)
  BY <1>1, <1>2, <1>5
<1>7. \A v \in Transfers : v # u => rank'[v] = rank[v]
  BY <1>1, <1>2
<1>8. inc' \in [Transfers -> SUBSET Transfers]
  BY <1>1, <1>2 DEF PopFromInc
<1>9. Types'
  <2>1. ready' \subseteq Transfers /\ placed' \subseteq Transfers
    BY <1>1, <1>2 DEF LastInc
  <2>2. QED
    BY <1>1, <1>6, <1>8, <2>1 DEF IInv, Types, input, graph, ends, Phases, N
<1>10. ASSUME NEW v \in Transfers \ placed'
       PROVE  inc'[v] = {w \in Transfers \ placed' : <<w, v>> \in before'}
  <2>1. v \in Transfers \ placed /\ before' = before
    BY <1>1, <1>10 DEF graph
  <2>2. v \in out[u] <=> <<u, v>> \in before
    BY <1>3, <2>1 DEF Outgoing
  <2>3. inc'[v] = IF <<u, v>> \in before THEN inc[v] \ {u} ELSE inc[v]
    BY <1>1, <2>1, <2>2 DEF PopFromInc
  <2>4. inc[v] = {w \in Transfers \ placed : <<w, v>> \in before}
    BY <1>3, <2>1
  <2>5. QED
    BY <1>1, <2>1, <2>3, <2>4
<1>11. ready' = {v \in Transfers \ placed' : inc'[v] = {}}
  <2>1. ASSUME NEW v \in Transfers
        PROVE  v \in ready' <=> v \notin placed' /\ inc'[v] = {}
    <3>1. v \in LastInc(u) <=> v \in out[u] /\ inc[v] = {u}
      BY <1>2 DEF LastInc
    <3>2. inc'[v] = IF v \in out[u] THEN inc[v] \ {u} ELSE inc[v]
      BY <1>1 DEF PopFromInc
    <3>3. v \in ready <=> v \notin placed /\ inc[v] = {}
      BY <1>3
    <3>4. v \in out[u] <=> <<u, v>> \in before
      BY <1>3 DEF Outgoing
    <3>5. v \in placed => <<u, v>> \notin before
      BY <1>3, <1>4
    <3>6. <<u, u>> \notin before
      BY <1>3, <1>4
    <3>7. v \in placed' <=> v \in placed \/ v = u
      BY <1>1
    <3>8. v \in ready' <=> (v \in ready /\ v # u) \/ v \in LastInc(u)
      <4>1. v \in LastInc(u) => v # u
        BY <3>1, <3>4, <3>6
      <4>2. QED
        BY <1>1, <4>1
    <3>9. CASE v \in out[u]
      <4>1. v # u /\ v \notin placed
        BY <3>9, <3>4, <3>5, <3>6
      <4>2. u \in inc[v]
        BY <1>3, <1>4, <3>4, <3>9, <4>1
      <4>3. v \in ready' <=> inc[v] = {u}
        BY <3>1, <3>3, <3>8, <3>9, <4>2
      <4>4. inc'[v] = {} <=> inc[v] = {u}
        BY <3>2, <3>9, <4>2
      <4>5. QED
        BY <4>1, <4>3, <4>4, <3>7
    <3>10. CASE v \notin out[u]
      BY <3>1, <3>2, <3>3, <3>7, <3>8, <3>10
    <3>11. QED
      BY <3>9, <3>10
  <2>2. ready' \subseteq Transfers
    BY <1>9 DEF Types
  <2>3. QED
    BY <2>1, <2>2
<1>12. ASSUME NEW w \in Transfers, NEW v \in Transfers,
              <<w, v>> \in before', v \in placed'
       PROVE  w \in placed' /\ rank'[w] < rank'[v]
  <2>1. before' = before
    BY <1>1 DEF graph
  <2>2. CASE v = u
    <3>1. w \in placed
      BY <1>3, <1>4, <1>12, <2>1, <2>2
    <3>2. w # u /\ rank[w] < Cardinality(placed)
      BY <3>1, <1>3, <1>4
    <3>3. QED
      BY <3>1, <3>2, <1>1, <1>6, <1>7, <2>2
  <2>3. CASE v # u
    <3>1. v \in placed
      BY <1>1, <1>12, <2>3
    <3>2. w \in placed /\ rank[w] < rank[v]
      BY <3>1, <1>3, <1>12, <2>1
    <3>3. QED
      BY <3>2, <1>1, <1>4, <1>7, <2>3
  <2>4. QED
    BY <2>2, <2>3
<1>13. ASSUME NEW v \in placed'
       PROVE  rank'[v] < Cardinality(placed')
  <2>1. CASE v = u
    BY <1>1, <1>5, <1>6, <2>1
  <2>2. CASE v # u
    <3>1. v \in placed /\ v \in Transfers /\ rank'[v] = rank[v]
      BY <1>1, <1>2, <1>7, <1>13, <2>2
    <3>2. rank[v] < Cardinality(placed) /\ rank[v] \in Int
      BY <1>2, <1>3, <3>1
    <3>3. QED
      BY <3>1, <3>2, <1>1, <1>5
  <2>3. QED
    BY <2>1, <2>2
<1>14. Distinct(rank', placed')
  <2>1. ASSUME NEW v \in placed', NEW w \in placed', v # w
        PROVE  rank'[v] # rank'[w]
    <3>1. ASSUME NEW z \in placed', z # u
          PROVE  z \in placed /\ rank'[z] = rank[z] /\ rank'[z] # Cardinality(placed)
      <4>1. z \in placed /\ z \in Transfers
        BY <1>1, <1>2, <3>1
      <4>2. rank[z] \in Int /\ rank[z] < Cardinality(placed)
        BY <4>1, <1>2, <1>3
      <4>3. QED
        BY <4>1, <4>2, <1>5, <1>7, <3>1
    <3>2. CASE v # u /\ w # u
      BY <3>1, <3>2, <2>1, <1>3 DEF Distinct
    <3>3. QED
      BY <3>1, <3>2, <2>1, <1>6
  <2>2. QED
    BY <2>1 DEF Distinct
<1>15. \A v \in Transfers : out'[v] = Outgoing(before', v)
  BY <1>1, <1>3 DEF graph
<1>16. Sorting'
  BY <1>10, <1>11, <1>12, <1>13, <1>14, <1>15 DEF Sorting, Outgoing, Distinct
<1>17. Oriented' /\ OrderDistinct'
  BY <1>1, OrientedKept DEF ends
<1>18. QED
  BY <1>1, <1>9, <1>16, <1>17 DEF IInv, Positions, Unreversed, Finally, NoCycleLeft

(* Among the transfers that are not placed, the one that is first in the   *)
(* order of FindVertexSequence waits for nobody: an empty heap means that  *)
(* all are placed.                                                         *)
LEMMA SomeReady ==
  ASSUME IInv, phase = "sort", ready = {}
  PROVE  placed = Transfers
<1>1. SUFFICES ASSUME Transfers \ placed # {}
               PROVE  FALSE
  BY DEF IInv, Types
<1>2. order \in [Transfers -> Nat]
  BY DEF IInv, Types
<1> DEFINE S == {order[v] : v \in Transfers \ placed}
<1>3. S \subseteq Nat /\ S # {}
  BY <1>1, <1>2
<1>4. PICK m \in S : \A k \in S : m <= k
  <2> HIDE DEF S
  <2> QED BY <1>3, Smallest
<1>5. PICK v \in Transfers \ placed : order[v] = m
  BY <1>4
<1>6. ASSUME NEW w \in Transfers \ placed
      PROVE  <<w, v>> \notin before
  <2>1. order[v] <= order[w]
    BY <1>4, <1>5
  <2>2. <<w, v>> \in before => order[w] < order[v]
    BY <1>5 DEF IInv, Oriented
  <2>3. QED
    BY <2>1, <2>2, <1>2
<1>7. inc[v] = {}
  BY <1>5, <1>6 DEF IInv, Sorting
<1>8. v \in ready
  BY <1>5, <1>7 DEF IInv, Sorting
<1>9. QED
  BY <1>8

(* The new order needs the stashes of the old one.                         *)
LEMMA ImproveDoneOK ==
  ASSUME IInv, ImproveDone
  PROVE  IInv'
<1>1. phase = "sort" /\ ready = {}
  BY DEF ImproveDone
<1>2. placed = Transfers
  BY <1>1, SomeReady
<1>3. /\ phase' = "done" /\ order' = rank
      /\ UNCHANGED <<input, graph, walk, G, sinks, newSinks, sources, newSources,
                     n1, n2, sort>>
  BY <1>2 DEF ImproveDone
<1>4. /\ rank \in [Transfers -> 0..(N - 1)] /\ N \in Nat
      /\ order \in [Transfers -> 0..(N - 1)]
      /\ Distinct(rank, Transfers) /\ Distinct(order, Transfers)
  BY <1>1, <1>2, Counting DEF IInv, Types, Sorting, OrderDistinct
<1>5. Types'
  BY <1>3, <1>4 DEF IInv, Types, input, graph, walk, sort, Phases, N
<1>6. OrderDistinct'
  BY <1>3, <1>4 DEF OrderDistinct, Distinct
<1>7. ASSUME NEW u \in Transfers, NEW x \in Transfers
      PROVE  <<u, x>> \in stash <=> rank[u] < rank[x] /\ Overlap(u, x) # {}
  <2>1. <<u, x>> \in stash <=> order[u] < order[x] /\ Overlap(u, x) # {}
    BY <1>1 DEF IInv, Oriented
  <2>2. <<u, x>> \in before <=> order[u] < order[x] /\ Clash(u, x)
    BY <1>1 DEF IInv, Oriented
  <2>3. <<x, u>> \in before <=> order[x] < order[u] /\ Clash(x, u)
    BY <1>1 DEF IInv, Oriented
  <2>4. /\ <<u, x>> \in before => rank[u] < rank[x]
        /\ <<x, u>> \in before => rank[x] < rank[u]
    BY <1>1, <1>2 DEF IInv, Sorting
  <2>5. /\ rank[u] \in Int /\ rank[x] \in Int
        /\ order[u] \in Int /\ order[x] \in Int
    BY <1>4
  <2>6. CASE u = x
    BY <2>1, <2>5, <2>6
  <2>7. CASE u # x
    <3>1. order[u] # order[x]
      BY <2>7, <1>4 DEF Distinct
    <3>2. CASE Overlap(u, x) # {}
      <4>1. Clash(u, x) /\ Clash(x, u)
        BY <2>7, <3>2 DEF Clash
      <4>2. QED
        BY <4>1, <3>1, <3>2, <2>1, <2>2, <2>3, <2>4, <2>5
    <3>3. QED
      BY <3>2, <2>1
  <2>8. QED
    BY <2>6, <2>7
<1>8. Finally'
  <2>1. \A u, x \in Transfers : Overlap(u, x)' = Overlap(u, x)
    BY <1>3 DEF input, Overlap
  <2>2. QED
    BY <1>3, <1>7, <2>1 DEF Finally, graph
<1>9. QED
  BY <1>3, <1>5, <1>6, <1>8 DEF IInv, Positions, Unreversed, Oriented, Sorting,
                                NoCycleLeft

(* The second call starts afresh.                                          *)
LEMMA ConvertOK ==
  ASSUME IInv, NEW chosen \in SUBSET (Transfers \ zero), Convert(chosen)
  PROVE  IInv'
<1>1. Types'
  BY DEF IInv, Types, Convert, graph, walk, ends, sort, Phases, N
<1>2. QED
  BY <1>1 DEF IInv, Convert, Positions, Unreversed, Oriented, OrderDistinct,
              Sorting, Finally, NoCycleLeft

(* Steps that change nothing.                                              *)
LEMMA StutterOK ==
  ASSUME IInv, UNCHANGED vars
  PROVE  IInv'
<1>1. /\ UNCHANGED <<tgt, src, zero, again, phase, before, stash, inc, out>>
      /\ UNCHANGED <<G, sinks, newSinks, sources, newSources, n1, n2, order>>
      /\ UNCHANGED <<ready, placed, rank>>
  BY DEF vars, input, graph, walk, ends, sort
<1>2. Types'
  BY <1>1 DEF IInv, Types, N
<1>3. Positions' /\ OrderDistinct' /\ NoCycleLeft'
  BY <1>1 DEF IInv, Positions, OrderDistinct, NoCycleLeft, Distinct, N
<1>4. Unreversed'
  BY <1>1 DEF IInv, Unreversed, Edges, Overlap
<1>5. Oriented' /\ Finally'
  BY <1>1 DEF IInv, Oriented, Finally, Clash, Overlap
<1>6. Sorting'
  BY <1>1 DEF IInv, Sorting, Outgoing, Distinct
<1>7. QED
  BY <1>2, <1>3, <1>4, <1>5, <1>6 DEF IInv

-----------------------------------------------------------------------------
(* The strengthened invariant holds in every state of the passes of        *)
(* FindSequenceForTransfers.                                               *)
THEOREM Inductive == Spec => []IInv
<1>1. Init => IInv
  BY InitOK
<1>2. IInv /\ [Next]_vars => IInv'
  BY DigraphOK, BeginOK, PlaceOK, FinishOK, ReverseOK, BeginImproveOK,
     ImproveStepOK, ImproveDoneOK, ConvertOK, StutterOK
     DEF Next, Step, Finished
<1>3. QED
  BY <1>1, <1>2, PTL DEF Spec

(* The assertion of ImproveVertexSequence holds for every set of           *)
(* transfers: reversing the backward edges removes every cycle.            *)
THEOREM AssertionHolds == Spec => []NoCycleLeft
<1>1. IInv => NoCycleLeft
  BY DEF IInv
<1>2. QED
  BY <1>1, Inductive, PTL

(* FindSequenceForTransfers stashes exactly the blocks that its order      *)
(* overwrites before they are read, whatever the transfers are.            *)
THEOREM SequenceGood == Spec => []StashExact
<1>1. IInv => StashExact
  <2>1. SUFFICES ASSUME IInv, phase = "done"
                 PROVE  StashExact
    BY DEF StashExact
  <2>2. /\ stash \subseteq Transfers \X Transfers
        /\ Distinct(order, Transfers)
        /\ \A u, x \in Transfers :
             <<u, x>> \in stash <=> order[u] < order[x] /\ Overlap(u, x) # {}
    BY <2>1 DEF IInv, Types, OrderDistinct, Finally
  <2>3. stash = {p \in Transfers \X Transfers :
                   order[p[1]] < order[p[2]] /\ Overlap(p[1], p[2]) # {}}
    BY <2>2
  <2>4. QED
    BY <2>2, <2>3 DEF StashExact, Distinct
<1>2. QED
  BY <1>1, Inductive, PTL

(* A step of a pass is a step, or no step, of TransferSequence.            *)
LEMMA StepRefines ==
  ASSUME IInv, IInv', [Next]_vars
  PROVE  [Abstract!ANext]_(Abstract!avars)
<1> DEFINE ans == IF phase = "done"
                    THEN {[order |-> order, stash |-> stash]} ELSE {}
<1>1. CASE Step
  <2>1. UNCHANGED input /\ phase # "done"
    BY <1>1 DEF Step, GenerateDigraph, BeginSequence, PlaceSink, PlaceSource,
                PlaceBest, FinishSequence, ReverseBackwardEdges, BeginImprove,
                ImproveStep, ImproveDone
  <2>2. CASE phase' # "done"
    <3>1. ans' = ans
      BY <2>1, <2>2
    <3>2. QED
      BY <2>1, <3>1 DEF Abstract!avars, input
  <2>3. CASE phase' = "done"
    <3>1. order' \in Abstract!Orders
      <4>1. N' = N /\ Abstract!N = N
        BY DEF N, Abstract!N, Abstract!Cardinality, Cardinality
      <4>2. order' \in [Transfers -> 0..(N - 1)]
        BY <4>1 DEF IInv, Types
      <4>3. \A u, x \in Transfers : u # x => order'[u] # order'[x]
        BY <2>3 DEF IInv, OrderDistinct, Distinct
      <4>4. QED
        BY <4>1, <4>2, <4>3 DEF Abstract!Orders
    <3>2. stash' = Abstract!StashFor(order')
      <4>1. \A u, x \in Transfers : Overlap(u, x)' = Abstract!Overlap(u, x)
        BY <2>1 DEF Overlap, Abstract!Overlap, input
      <4>2. /\ stash' \subseteq Transfers \X Transfers
            /\ \A u, x \in Transfers :
                 <<u, x>> \in stash'
                   <=> order'[u] < order'[x] /\ Abstract!Overlap(u, x) # {}
        BY <2>3, <4>1 DEF IInv, Types, Finally
      <4>3. QED
        BY <4>2 DEF Abstract!StashFor
    <3>3. ans = {} /\ ans' = {[order |-> order', stash |-> stash']}
      BY <2>1, <2>3
    <3>4. Abstract!FindSequence
      <4> HIDE DEF ans
      <4> QED BY <2>1, <3>1, <3>2, <3>3 DEF Abstract!FindSequence, input, ans
    <3>5. QED
      BY <3>4 DEF Abstract!ANext
  <2>4. QED
    BY <2>2, <2>3
<1>2. CASE \E chosen \in SUBSET (Transfers \ zero) : Convert(chosen)
  <2>1. PICK chosen \in SUBSET (Transfers \ zero) : Convert(chosen)
    BY <1>2
  <2>2. ans # {} /\ ans' = {}
    BY <2>1 DEF Convert
  <2>3. Abstract!Convert(chosen)
    <3> HIDE DEF ans
    <3> QED BY <2>1, <2>2 DEF Convert, Abstract!Convert, ans
  <2>4. QED
    BY <2>3 DEF Abstract!ANext
<1>3. CASE UNCHANGED vars
  BY <1>3 DEF vars, input, graph, ends, Abstract!avars
<1>4. QED
  BY <1>1, <1>2, <1>3 DEF Next, Finished

(* The passes implement the one-step specification of                      *)
(* FindSequenceForTransfers.                                               *)
THEOREM Refinement == Spec => ImplementsTransferSequence
<1>1. Init => Abstract!AInit
  BY DEF Init, Abstract!AInit
<1>2. IInv /\ IInv' /\ [Next]_vars => [Abstract!ANext]_(Abstract!avars)
  BY StepRefines
<1>3. QED
  BY <1>1, <1>2, Inductive, PTL DEF Spec, ImplementsTransferSequence, Abstract!ASpec

-----------------------------------------------------------------------------
(* Sums of costs.                                                          *)

(* A weight is a number.                                                   *)
LEMMA WeightType ==
  ASSUME NEW E \in SUBSET (Transfers \X Transfers)
  PROVE  IsFiniteSet(Load(E)) /\ Weight(E) \in Nat
<1>1. IsFiniteSet(Transfers \X Transfers)
  BY TransfersAssumption, FS_Product
<1>2. IsFiniteSet((Transfers \X Transfers) \X Blocks)
  BY <1>1, TransfersAssumption, FS_Product
<1>3. Load(E) \subseteq (Transfers \X Transfers) \X Blocks
  BY DEF Load
<1>4. IsFiniteSet(Load(E))
  BY <1>2, <1>3, FS_Subset
<1> QED  BY <1>4, FS_CardinalityType DEF Weight

(* Disjoint sets of edges: the weights add up.                             *)
LEMMA WeightSum ==
  ASSUME NEW E \in SUBSET (Transfers \X Transfers), NEW F \in SUBSET (Transfers \X Transfers),
         E \cap F = {}
  PROVE  Weight(E \cup F) = Weight(E) + Weight(F)
<1>1. Load(E \cup F) = Load(E) \cup Load(F) /\ Load(E) \cap Load(F) = {}
  BY DEF Load
<1>2. Cardinality(Load(E) \cup Load(F)) = Cardinality(Load(E)) + Cardinality(Load(F)) - Cardinality({})
  BY <1>1, WeightType, FS_Union
<1>3. Cardinality({}) = 0
  BY FS_EmptySet
<1>4. Weight(E) \in Nat /\ Weight(F) \in Nat
  BY WeightType
<1>5. Weight(E \cup F) = Weight(E) + Weight(F) - 0
  BY <1>1, <1>2, <1>3 DEF Weight
<1> QED  BY <1>4, <1>5

(* No edges weigh nothing.                                                 *)
LEMMA WeightEmpty == Weight({}) = 0
<1>1. Load({}) = {}
  BY DEF Load
<1> QED  BY <1>1, FS_EmptySet DEF Weight

(* The weight of one edge is its cost.                                     *)
LEMMA WeightOne ==
  ASSUME Types, NEW b \in Transfers, NEW a \in Transfers
  PROVE  Weight({<<b, a>>}) = Cost(b, a)
<1>1. CASE b \in zero
  <2>1. Load({<<b, a>>}) = {}
    BY <1>1 DEF Load
  <2> QED  BY <1>1, <2>1, FS_EmptySet DEF Weight, Cost
<1>2. CASE b \notin zero
  <2>1. Overlap(a, b) \subseteq Blocks /\ IsFiniteSet(Overlap(a, b))
    <3>1. Overlap(a, b) \subseteq Blocks
      BY DEF Types, Overlap
    <3> QED  BY <3>1, TransfersAssumption, FS_Subset
  <2>2. Load({<<b, a>>}) = {<<b, a>>} \X Overlap(a, b)
    BY <1>2, <2>1 DEF Load
  <2>3. IsFiniteSet({<<b, a>>}) /\ Cardinality({<<b, a>>}) = 1
    BY FS_Singleton
  <2>4. Cardinality({<<b, a>>} \X Overlap(a, b)) = 1 * Cardinality(Overlap(a, b))
    BY <2>1, <2>3, FS_Product
  <2>5. Cardinality(Overlap(a, b)) \in Nat
    BY <2>1, FS_CardinalityType
  <2>6. Weight({<<b, a>>}) = 1 * Cardinality(Overlap(a, b))
    BY <2>2, <2>4 DEF Weight
  <2>7. Cost(b, a) = Cardinality(Overlap(a, b))
    BY <1>2 DEF Cost
  <2> QED  BY <2>5, <2>6, <2>7
<1> QED  BY <1>1, <1>2

(* One edge fewer at u.                                                    *)
LEMMA LoseEdge ==
  ASSUME Types, NEW E \in SUBSET (Transfers \X Transfers), NEW p \in E
  PROVE  Weight(E \ {p}) = Weight(E) - Cost(p[1], p[2])
<1>1. /\ E \ {p} \in SUBSET (Transfers \X Transfers) /\ {p} \in SUBSET (Transfers \X Transfers)
      /\ (E \ {p}) \cap {p} = {} /\ (E \ {p}) \cup {p} = E
      /\ p = <<p[1], p[2]>> /\ p[1] \in Transfers /\ p[2] \in Transfers
  OBVIOUS
<1>2. Weight(E) = Weight(E \ {p}) + Weight({p})
  BY <1>1, WeightSum
<1>3. Weight({p}) = Cost(p[1], p[2])
  BY <1>1, WeightOne
<1> QED  BY <1>1, <1>2, <1>3, WeightType

-----------------------------------------------------------------------------
(* The walk of FindVertexSequence.                                         *)

(* A round of sinks is over when no vertex that became a sink meanwhile is *)
(* left out, and sources are placed only when there are no sinks.          *)
Rounds ==
  phase = "place" =>
    /\ sinks \cap G = {} => newSinks \cap G = {}
    /\ sources \cap G = {} => newSources \cap G = {}
    /\ sinks \cap G # {} => newSources \cap G = {}

(* The degree sets of the graph that is left.                              *)
Degrees ==
  phase = "place" =>
    /\ \A u \in G : inc[u] = Incoming(before, u) \cap G /\ out[u] = Outgoing(before, u) \cap G
    /\ (sinks \cup newSinks) \cap G = {u \in G : out[u] = {}}
    /\ (sources \cup newSources) \cap G = {u \in G : inc[u] = {}}

(* The scores.                                                             *)
Scores == phase = "place" => \A u \in G : score[u] = NetScore(u, out[u], inc[u])

(* A placed sink: its predecessors forget it, the last round is complete.  *)
LEMMA SinkDegrees ==
  ASSUME IInv, Rounds, Degrees, NEW u \in Transfers, PlaceSink(u)
  PROVE  Rounds' /\ Degrees' /\ \A v \in G \ {u} : u \notin inc[v] /\ (u \in out[v] <=> v \in inc[u])
<1>0. /\ Types /\ phase = "place" /\ u \in G /\ u \in sinks /\ G' = G \ {u} /\ UNCHANGED before
      /\ inc' = inc /\ UNCHANGED <<sources, newSources>> /\ phase' = "place"
      /\ out' = [v \in Transfers |-> IF v \in inc[u] THEN out[v] \ {u} ELSE out[v]]
  BY DEF IInv, PlaceSink, AppendRight, PopFromOut, graph
<1>1. out[u] = {}
  BY <1>0 DEF Degrees
<1>2. \A v \in G : inc[v] = Incoming(before, v) \cap G /\ out[v] = Outgoing(before, v) \cap G
  BY <1>0 DEF Degrees
<1>3. \A v \in G : u \in out[v] <=> v \in inc[u]
  BY <1>0, <1>2 DEF Incoming, Outgoing, Types
<1>4. \A v \in G : u \notin inc[v]
  BY <1>0, <1>1, <1>2 DEF Incoming, Outgoing, Types
<1>5. \A v \in G' : inc'[v] = Incoming(before, v)' \cap G'
  BY <1>0, <1>2, <1>4 DEF Incoming
<1>6. \A v \in G' : out'[v] = Outgoing(before, v)' \cap G'
  BY <1>0, <1>2, <1>3 DEF Outgoing, Types
<1>7. (sources \cup newSources)' \cap G' = {v \in G' : inc'[v] = {}}
  <2>1. (sources \cup newSources) \cap G = {v \in G : inc[v] = {}}
    BY <1>0 DEF Degrees
  <2> QED  BY <1>0, <2>1
<1>8. (sinks \cup newSinks)' \cap G' = {v \in G' : out'[v] = {}}
  <2>1. (sinks \cup newSinks) \cap G = {v \in G : out[v] = {}}
    BY <1>0 DEF Degrees
  <2>2. (sinks \cup newSinks)' = ((sinks \cap G) \ {u}) \cup newSinks \cup LastOut(u)
    BY DEF PlaceSink
  <2>3. \A v \in G' : out'[v] = {} <=> (out[v] = {} \/ v \in LastOut(u))
    BY <1>0, <1>3 DEF LastOut, Types
  <2>4. \A v \in G' : v \in (sinks \cup newSinks)' <=> (v \in sinks \/ v \in newSinks \/ v \in LastOut(u))
    BY <1>0, <2>2
  <2> QED  BY <1>0, <2>1, <2>3, <2>4
<1>9. Rounds'
  <2>1. newSources \cap G = {}
    BY <1>0 DEF Rounds
  <2>2. \/ newSinks' = {}
        \/ sinks' = (sinks \cap G) \ {u} /\ sinks' # {}
    BY DEF PlaceSink
  <2> QED  BY <1>0, <2>1, <2>2 DEF Rounds
<1> QED  BY <1>0, <1>3, <1>4, <1>5, <1>6, <1>7, <1>8, <1>9 DEF Degrees

(* A placed source: its successors forget it.                              *)
LEMMA SourceDegrees ==
  ASSUME IInv, Rounds, Degrees, NEW u \in Transfers, PlaceSource(u)
  PROVE  Rounds' /\ Degrees' /\ \A v \in G \ {u} : u \notin out[v] /\ (u \in inc[v] <=> v \in out[u])
<1>0. /\ Types /\ phase = "place" /\ u \in G /\ u \in sources /\ G' = G \ {u} /\ UNCHANGED before
      /\ out' = out /\ UNCHANGED <<sinks, newSinks>> /\ phase' = "place" /\ sinks \cap G = {}
      /\ inc' = [v \in Transfers |-> IF v \in out[u] THEN inc[v] \ {u} ELSE inc[v]]
  BY DEF IInv, PlaceSource, AppendLeft, PopFromInc, graph
<1>1. inc[u] = {}
  BY <1>0 DEF Degrees
<1>2. \A v \in G : inc[v] = Incoming(before, v) \cap G /\ out[v] = Outgoing(before, v) \cap G
  BY <1>0 DEF Degrees
<1>3. \A v \in G : u \in inc[v] <=> v \in out[u]
  BY <1>0, <1>2 DEF Incoming, Outgoing, Types
<1>4. \A v \in G : u \notin out[v]
  BY <1>0, <1>1, <1>2 DEF Incoming, Outgoing, Types
<1>5. \A v \in G' : out'[v] = Outgoing(before, v)' \cap G'
  BY <1>0, <1>2, <1>4 DEF Outgoing
<1>6. \A v \in G' : inc'[v] = Incoming(before, v)' \cap G'
  BY <1>0, <1>2, <1>3 DEF Incoming, Types
<1>7. (sinks \cup newSinks)' \cap G' = {v \in G' : out'[v] = {}}
  <2>1. (sinks \cup newSinks) \cap G = {v \in G : out[v] = {}}
    BY <1>0 DEF Degrees
  <2> QED  BY <1>0, <2>1
<1>8. (sources \cup newSources)' \cap G' = {v \in G' : inc'[v] = {}}
  <2>1. (sources \cup newSources) \cap G = {v \in G : inc[v] = {}}
    BY <1>0 DEF Degrees
  <2>2. (sources \cup newSources)' = ((sources \cap G) \ {u}) \cup newSources \cup LastInc(u)
    BY DEF PlaceSource
  <2>3. \A v \in G' : inc'[v] = {} <=> (inc[v] = {} \/ v \in LastInc(u))
    BY <1>0, <1>3 DEF LastInc, Types
  <2>4. \A v \in G' : v \in (sources \cup newSources)' <=> (v \in sources \/ v \in newSources \/ v \in LastInc(u))
    BY <1>0, <2>2
  <2> QED  BY <1>0, <2>1, <2>3, <2>4
<1>9. Rounds'
  <2>1. \/ newSources' = {}
        \/ sources' = (sources \cap G) \ {u} /\ sources' # {}
    BY DEF PlaceSource
  <2> QED  BY <1>0, <2>1 DEF Rounds
<1> QED  BY <1>0, <1>3, <1>4, <1>5, <1>6, <1>7, <1>8, <1>9 DEF Degrees

(* A best vertex is forgotten on both sides; both rounds were empty.       *)
LEMMA BestDegrees ==
  ASSUME IInv, Rounds, Degrees, NEW u \in Transfers, PlaceBest(u)
  PROVE  Rounds' /\ Degrees' /\ \A v \in G \ {u} : (u \in out[v] <=> v \in inc[u]) /\ (u \in inc[v] <=> v \in out[u])
<1>0. /\ Types /\ phase = "place" /\ u \in G /\ G' = G \ {u} /\ UNCHANGED before
      /\ UNCHANGED <<newSources, newSinks>> /\ phase' = "place" /\ sinks \cap G = {} /\ sources \cap G = {}
      /\ inc' = [v \in Transfers |-> IF v \in out[u] THEN inc[v] \ {u} ELSE inc[v]]
      /\ out' = [v \in Transfers |-> IF v \in inc[u] THEN out[v] \ {u} ELSE out[v]]
      /\ sinks' = LastOut(u) /\ sources' = LastInc(u)
  BY DEF IInv, PlaceBest, AppendLeft, PopFromInc, PopFromOut, graph
<1>1. newSinks \cap G = {} /\ newSources \cap G = {}
  BY <1>0 DEF Rounds
<1>2. \A v \in G : inc[v] = Incoming(before, v) \cap G /\ out[v] = Outgoing(before, v) \cap G
  BY <1>0 DEF Degrees
<1>3. \A v \in G : (u \in inc[v] <=> v \in out[u]) /\ (u \in out[v] <=> v \in inc[u])
  BY <1>0, <1>2 DEF Incoming, Outgoing, Types
<1>4. \A v \in G : inc[v] # {} /\ out[v] # {}
  BY <1>0, <1>1 DEF Degrees
<1>5. \A v \in G' : out'[v] = Outgoing(before, v)' \cap G'
  BY <1>0, <1>2, <1>3 DEF Outgoing, Types
<1>6. \A v \in G' : inc'[v] = Incoming(before, v)' \cap G'
  BY <1>0, <1>2, <1>3 DEF Incoming, Types
<1>7. \A v \in G' : out'[v] = {} <=> v \in LastOut(u)
  BY <1>0, <1>3, <1>4 DEF LastOut, Types
<1>8. \A v \in G' : inc'[v] = {} <=> v \in LastInc(u)
  BY <1>0, <1>3, <1>4 DEF LastInc, Types
<1>9. /\ (sinks \cup newSinks)' \cap G' = {v \in G' : out'[v] = {}}
      /\ (sources \cup newSources)' \cap G' = {v \in G' : inc'[v] = {}}
  BY <1>0, <1>1, <1>7, <1>8
<1>10. Rounds'
  BY <1>0, <1>1 DEF Rounds
<1> QED  BY <1>0, <1>3, <1>5, <1>6, <1>9, <1>10 DEF Degrees

(* Costs are those of the transfers, which a walk leaves alone.            *)
LEMMA SameCosts ==
  ASSUME UNCHANGED input
  PROVE  \A v \in Transfers : NetScore(v, out[v], inc[v])' = NetScore(v, out'[v], inc'[v])
  BY DEF NetScore, Weight, Load, Overlap, input

(* What popping u leaves of the score of v.                                *)
LEMMA PopOut ==
  ASSUME Types, NEW u \in Transfers, NEW v \in Transfers,
         u \in out[v] <=> v \in inc[u]
  PROVE  Weight({v} \X (IF v \in inc[u] THEN out[v] \ {u} ELSE out[v]))
           = Weight({v} \X out[v]) - LoseOut(u, v)
<1>1. {v} \X out[v] \in SUBSET (Transfers \X Transfers)
  BY DEF Types
<1>2. CASE v \in inc[u]
  <2>1. {v} \X (out[v] \ {u}) = ({v} \X out[v]) \ {<<v, u>>} /\ <<v, u>> \in {v} \X out[v]
    BY <1>2
  <2>2. Weight(({v} \X out[v]) \ {<<v, u>>}) = Weight({v} \X out[v]) - Cost(v, u)
    BY <1>1, <2>1, LoseEdge
  <2> QED  BY <1>2, <2>1, <2>2 DEF LoseOut
<1>3. CASE v \notin inc[u]
  BY <1>1, <1>3, WeightType DEF LoseOut
<1> QED  BY <1>2, <1>3

(* The same on the incoming side.                                          *)
LEMMA PopInc ==
  ASSUME Types, NEW u \in Transfers, NEW v \in Transfers,
         u \in inc[v] <=> v \in out[u]
  PROVE  Weight((IF v \in out[u] THEN inc[v] \ {u} ELSE inc[v]) \X {v})
           = Weight(inc[v] \X {v}) - LoseInc(u, v)
<1>1. inc[v] \X {v} \in SUBSET (Transfers \X Transfers)
  BY DEF Types
<1>2. CASE v \in out[u]
  <2>1. (inc[v] \ {u}) \X {v} = (inc[v] \X {v}) \ {<<u, v>>} /\ <<u, v>> \in inc[v] \X {v}
    BY <1>2
  <2>2. Weight((inc[v] \X {v}) \ {<<u, v>>}) = Weight(inc[v] \X {v}) - Cost(u, v)
    BY <1>1, <2>1, LoseEdge
  <2> QED  BY <1>2, <2>1, <2>2 DEF LoseInc
<1>3. CASE v \notin out[u]
  BY <1>1, <1>3, WeightType DEF LoseInc
<1> QED  BY <1>2, <1>3

(* What is added to or taken from a score is a number.                     *)
LEMMA CostType ==
  ASSUME Types, NEW u \in Transfers, NEW v \in Transfers
  PROVE  /\ LoseOut(u, v) \in Nat /\ LoseInc(u, v) \in Nat
         /\ Weight({v} \X out[v]) \in Nat /\ Weight(inc[v] \X {v}) \in Nat
<1>1. {<<u, v>>} \in SUBSET (Transfers \X Transfers) /\ {<<v, u>>} \in SUBSET (Transfers \X Transfers)
  OBVIOUS
<1>2. Cost(u, v) \in Nat /\ Cost(v, u) \in Nat
  BY <1>1, WeightOne, WeightType
<1>3. {v} \X out[v] \in SUBSET (Transfers \X Transfers) /\ inc[v] \X {v} \in SUBSET (Transfers \X Transfers)
  BY DEF Types
<1> QED  BY <1>2, <1>3, WeightType DEF LoseOut, LoseInc

(* A placement adjusts the scores of the neighbours, and only those.       *)
LEMMA ScoresStep ==
  ASSUME IInv, Rounds, Degrees, Scores, NEW u \in Transfers,
         PlaceSink(u) \/ PlaceSource(u) \/ PlaceBest(u)
  PROVE  Scores'
<1>0. Types /\ phase = "place" /\ u \in G /\ G' = G \ {u} /\ UNCHANGED input
  BY DEF IInv, PlaceSink, PlaceSource, PlaceBest, AppendLeft, AppendRight
<1> SUFFICES ASSUME NEW v \in G \ {u} PROVE score'[v] = NetScore(v, out'[v], inc'[v])
  BY <1>0, SameCosts DEF Scores, Types
<1>1. v \in Transfers /\ score[v] = NetScore(v, out[v], inc[v])
  BY <1>0 DEF Scores, Types
<1>2. /\ LoseOut(u, v) \in Nat /\ LoseInc(u, v) \in Nat
      /\ Weight({v} \X out[v]) \in Nat /\ Weight(inc[v] \X {v}) \in Nat
  BY <1>0, <1>1, CostType
<1>3. score[v] = Weight({v} \X out[v]) - Weight(inc[v] \X {v})
  BY <1>1 DEF NetScore
<1>4. CASE PlaceSink(u)
  <2>1. /\ score'[v] = score[v] - LoseOut(u, v) /\ inc' = inc
        /\ out'[v] = IF v \in inc[u] THEN out[v] \ {u} ELSE out[v]
    BY <1>1, <1>4 DEF PlaceSink, PopFromOut
  <2>2. Weight({v} \X out'[v]) = Weight({v} \X out[v]) - LoseOut(u, v)
    BY <1>0, <1>1, <1>4, <2>1, PopOut, SinkDegrees
  <2>3. NetScore(v, out'[v], inc'[v]) = Weight({v} \X out'[v]) - Weight(inc[v] \X {v})
    BY <2>1 DEF NetScore
  <2> QED  BY <1>2, <1>3, <2>1, <2>2, <2>3
<1>5. CASE PlaceSource(u)
  <2>1. /\ score'[v] = score[v] + LoseInc(u, v) /\ out' = out
        /\ inc'[v] = IF v \in out[u] THEN inc[v] \ {u} ELSE inc[v]
    BY <1>1, <1>5 DEF PlaceSource, PopFromInc
  <2>2. Weight(inc'[v] \X {v}) = Weight(inc[v] \X {v}) - LoseInc(u, v)
    BY <1>0, <1>1, <1>5, <2>1, PopInc, SourceDegrees
  <2>3. NetScore(v, out'[v], inc'[v]) = Weight({v} \X out[v]) - Weight(inc'[v] \X {v})
    BY <2>1 DEF NetScore
  <2> QED  BY <1>2, <1>3, <2>1, <2>2, <2>3
<1>6. CASE PlaceBest(u)
  <2>1. /\ score'[v] = score[v] + LoseInc(u, v) - LoseOut(u, v)
        /\ out'[v] = IF v \in inc[u] THEN out[v] \ {u} ELSE out[v]
        /\ inc'[v] = IF v \in out[u] THEN inc[v] \ {u} ELSE inc[v]
    BY <1>1, <1>6 DEF PlaceBest, PopFromInc, PopFromOut
  <2>2. Weight(inc'[v] \X {v}) = Weight(inc[v] \X {v}) - LoseInc(u, v)
    BY <1>0, <1>1, <1>6, <2>1, PopInc, BestDegrees
  <2>3. Weight({v} \X out'[v]) = Weight({v} \X out[v]) - LoseOut(u, v)
    BY <1>0, <1>1, <1>6, <2>1, PopOut, BestDegrees
  <2>4. NetScore(v, out'[v], inc'[v]) = Weight({v} \X out'[v]) - Weight(inc'[v] \X {v})
    BY DEF NetScore
  <2> QED  BY <1>2, <1>3, <2>1, <2>2, <2>3, <2>4
<1> QED  BY <1>4, <1>5, <1>6

(* The copies and the first round are those of the whole graph.            *)
LEMMA BeginWalk ==
  ASSUME IInv, BeginSequence
  PROVE  Rounds' /\ Degrees' /\ Scores'
<1>1. Types /\ UNCHANGED before /\ UNCHANGED input
  BY DEF IInv, BeginSequence, graph
<1>2. Rounds'
  BY DEF Rounds, BeginSequence
<1>3. Degrees'
  BY <1>1 DEF Degrees, BeginSequence, Incoming, Outgoing
<1>4. Scores'
  <2> SUFFICES ASSUME NEW v \in Transfers PROVE score'[v] = NetScore(v, out'[v], inc'[v])
    BY <1>1, SameCosts DEF Scores, BeginSequence
  <2>1. /\ out'[v] = Outgoing(before, v) /\ inc'[v] = Incoming(before, v)
        /\ score'[v] = NetScore(v, Outgoing(before, v), Incoming(before, v))
    BY DEF BeginSequence
  <2> QED  BY <2>1
<1> QED  BY <1>2, <1>3, <1>4

(* Everything else leaves the walk alone.                                  *)
LEMMA WalkStep ==
  ASSUME IInv, Rounds, Degrees, Scores, [Next]_vars
  PROVE  Rounds' /\ Degrees' /\ Scores'
<1>1. CASE BeginSequence
  BY <1>1, BeginWalk
<1>2. ASSUME NEW u \in Transfers, PlaceSink(u) \/ PlaceSource(u) \/ PlaceBest(u)
      PROVE  Rounds' /\ Degrees' /\ Scores'
  BY <1>2, ScoresStep, SinkDegrees, SourceDegrees, BestDegrees
<1>3. CASE \/ GenerateDigraph \/ FinishSequence \/ ReverseBackwardEdges \/ BeginImprove \/ ImproveDone
           \/ \E u \in Transfers : ImproveStep(u)
           \/ \E chosen \in SUBSET (Transfers \ zero) : Convert(chosen)
  <2>1. phase' # "place"
    BY <1>3 DEF GenerateDigraph, FinishSequence, ReverseBackwardEdges, BeginImprove, ImproveDone,
                ImproveStep, Convert
  <2> QED  BY <2>1 DEF Rounds, Degrees, Scores
<1>4. CASE UNCHANGED vars
  <2>1. UNCHANGED <<phase, G, sinks, newSinks, sources, newSources, inc, out, score, before>> /\ UNCHANGED input
    BY <1>4 DEF vars, graph, walk, ends
  <2>2. Rounds' /\ Degrees'
    BY <2>1 DEF Rounds, Degrees, Incoming, Outgoing
  <2>3. Scores'
    <3>1. IInv => G \subseteq Transfers
      BY DEF IInv, Types
    <3> QED  BY <2>1, <3>1, SameCosts DEF Scores
  <2> QED  BY <2>2, <2>3
<1> QED  BY <1>1, <1>2, <1>3, <1>4 DEF Next, Step, Finished

(* The bookkeeping of FindVertexSequence is exact for any graph of         *)
(* transfers, in whatever order sinks, sources and best vertices are       *)
(* taken: the degree sets, the scores and the two rounds.                  *)
THEOREM WalkIsExact == Spec => []BookkeepingExact
<1>1. Init => Rounds /\ Degrees /\ Scores
  BY DEF Init, Rounds, Degrees, Scores
<1>2. IInv /\ Rounds /\ Degrees /\ Scores /\ [Next]_vars => (Rounds /\ Degrees /\ Scores)'
  BY WalkStep
<1>3. Degrees /\ Scores => BookkeepingExact
  BY DEF Degrees, Scores, BookkeepingExact
<1> QED  BY <1>1, <1>2, <1>3, Inductive, PTL DEF Spec

-----------------------------------------------------------------------------
(* How much the sequence gives up.                                         *)

(* Vertices that are not placed yet come between s1 and s2.                *)
Pos(v)   == IF v \in G THEN n1 ELSE order[v]
Violated == {p \in Edges : Pos(p[1]) > Pos(p[2])}
Decided  == {p \in Edges : p[1] \notin G \/ p[2] \notin G}

(* Of the edges with an end in the sequence, those it violates are worth   *)
(* at most half.                                                           *)
Half ==
  phase \in {"place", "reverse"} =>
    2 * Weight(Violated) <= Weight(Decided) /\ (phase = "reverse" => G = {})

(* The sets of edges of this section.                                      *)
LEMMA EdgeSets ==
  ASSUME Types
  PROVE  /\ Edges \in SUBSET (Transfers \X Transfers)
         /\ Violated \in SUBSET (Transfers \X Transfers) /\ Decided \in SUBSET (Transfers \X Transfers)
  BY DEF Edges, Violated, Decided

(* The edges of the graph that is left, by their ends.                     *)
OutOf(S) == {p \in Edges : p[1] \in S /\ p[2] \in G}
IntoOf(S) == {p \in Edges : p[2] \in S /\ p[1] \in G}

(* Every edge leaves one vertex and enters one, so if every vertex of S    *)
(* lost more than it saved, so would S.                                    *)
LEMMA Losses ==
  ASSUME IInv, Degrees, phase = "place",
         \A v \in G : Weight({v} \X out[v]) + 1 <= Weight(inc[v] \X {v})
  PROVE  \A S \in SUBSET G : Weight(OutOf(S)) + Cardinality(S) <= Weight(IntoOf(S))
<1> DEFINE Good(S) == Weight(OutOf(S)) + Cardinality(S) <= Weight(IntoOf(S))
           Bad == {Cardinality(S) : S \in {R \in SUBSET G : ~Good(R)}}
<1>0. /\ Types /\ G \subseteq Transfers /\ before = Edges
      /\ Edges \in SUBSET (Transfers \X Transfers)
      /\ inc \in [Transfers -> SUBSET Transfers] /\ out \in [Transfers -> SUBSET Transfers]
  BY EdgeSets DEF IInv, Types, Unreversed
<1>1. \A S \in SUBSET G : IsFiniteSet(S) /\ Cardinality(S) \in Nat
  BY <1>0, Counting
<1>2. SUFFICES ASSUME NEW S0 \in SUBSET G, ~Good(S0) PROVE FALSE
  OBVIOUS
<1>3. Bad \subseteq Nat /\ Bad # {}
  <2> HIDE DEF Good
  <2> QED  BY <1>1, <1>2
<1>4. PICK m \in Bad : \A k \in Bad : m <= k
  <2> HIDE DEF Bad
  <2> QED  BY <1>3, Smallest
<1>5. PICK S \in SUBSET G : ~Good(S) /\ m = Cardinality(S)
  <2> HIDE DEF Good
  <2> QED  BY <1>4
<1>6. \A R \in SUBSET G : Cardinality(R) < Cardinality(S) => Good(R)
  <2> SUFFICES ASSUME NEW R \in SUBSET G, Cardinality(R) < Cardinality(S), ~Good(R) PROVE FALSE
    OBVIOUS
  <2>1. Cardinality(R) \in Bad
    <3> HIDE DEF Good
    <3> QED  OBVIOUS
  <2>2. m <= Cardinality(R)
    <3> HIDE DEF Bad
    <3> QED  BY <1>4, <2>1
  <2>3. Cardinality(R) \in Nat /\ Cardinality(S) \in Nat
    BY <1>1
  <2> HIDE DEF Bad, Good
  <2> QED  BY <1>5, <2>2, <2>3
<1>7. S # {}
  <2> SUFFICES ASSUME S = {} PROVE FALSE
    OBVIOUS
  <2>1. OutOf(S) = {} /\ IntoOf(S) = {}
    BY DEF OutOf, IntoOf
  <2>2. Weight(OutOf(S)) = 0 /\ Weight(IntoOf(S)) = 0 /\ Cardinality(S) = 0
    BY <2>1, WeightEmpty, FS_EmptySet
  <2> QED  BY <1>5, <2>2
<1>8. PICK v \in S : TRUE
  BY <1>7
<1> DEFINE R == S \ {v}
<1>9. R \in SUBSET G /\ Cardinality(R) = Cardinality(S) - 1 /\ Cardinality(R) \in Nat /\ Cardinality(S) \in Nat
  BY <1>0, <1>1, <1>8, CountRemove
<1>10. Weight(OutOf(R)) + Cardinality(R) <= Weight(IntoOf(R))
  <2>1. Good(R)
    <3> HIDE DEF Good, R
    <3> QED  BY <1>6, <1>9
  <2> QED  BY <2>1
<1>11. inc[v] = Incoming(before, v) \cap G /\ out[v] = Outgoing(before, v) \cap G /\ v \in G
  BY <1>8 DEF Degrees
<1>12. /\ OutOf(S) = OutOf(R) \cup ({v} \X out[v]) /\ OutOf(R) \cap ({v} \X out[v]) = {}
       /\ OutOf(R) \in SUBSET (Transfers \X Transfers) /\ {v} \X out[v] \in SUBSET (Transfers \X Transfers)
  <2>1. \A p \in Edges : p = <<p[1], p[2]>> /\ p[1] \in Transfers /\ p[2] \in Transfers
    BY <1>0
  <2>2. {v} \X out[v] = {p \in Edges : p[1] = v /\ p[2] \in G}
    BY <1>0, <1>11, <2>1 DEF Outgoing
  <2> QED  BY <1>0, <1>8, <2>2 DEF OutOf
<1>13. /\ IntoOf(S) = IntoOf(R) \cup (inc[v] \X {v}) /\ IntoOf(R) \cap (inc[v] \X {v}) = {}
       /\ IntoOf(R) \in SUBSET (Transfers \X Transfers) /\ inc[v] \X {v} \in SUBSET (Transfers \X Transfers)
  <2>1. \A p \in Edges : p = <<p[1], p[2]>> /\ p[1] \in Transfers /\ p[2] \in Transfers
    BY <1>0
  <2>2. inc[v] \X {v} = {p \in Edges : p[2] = v /\ p[1] \in G}
    BY <1>0, <1>11, <2>1 DEF Incoming
  <2> QED  BY <1>0, <1>8, <2>2 DEF IntoOf
<1>14. Weight(OutOf(S)) = Weight(OutOf(R)) + Weight({v} \X out[v])
  <2> HIDE DEF R
  <2> QED  BY <1>12, WeightSum
<1>15. Weight(IntoOf(S)) = Weight(IntoOf(R)) + Weight(inc[v] \X {v})
  <2> HIDE DEF R
  <2> QED  BY <1>13, WeightSum
<1>16. /\ Weight(OutOf(R)) \in Nat /\ Weight(IntoOf(R)) \in Nat
       /\ Weight({v} \X out[v]) \in Nat /\ Weight(inc[v] \X {v}) \in Nat
  <2> HIDE DEF R
  <2> QED  BY <1>12, <1>13, WeightType
<1>17. Weight({v} \X out[v]) + 1 <= Weight(inc[v] \X {v})
  BY <1>11
<1>18. ~(Weight(OutOf(S)) + Cardinality(S) <= Weight(IntoOf(S)))
  BY <1>5
<1> HIDE DEF R
<1> QED  BY <1>9, <1>10, <1>14, <1>15, <1>16, <1>17, <1>18

(* The best vertex saves at least what it gives up.                        *)
LEMMA BestIsWorthIt ==
  ASSUME IInv, Degrees, Scores, NEW u \in Transfers, PlaceBest(u)
  PROVE  Weight(inc[u] \X {u}) <= Weight({u} \X out[u])
<1>0. /\ Types /\ phase = "place" /\ u \in G /\ G \subseteq Transfers
      /\ \A v \in G : score[v] <= score[u]
  BY DEF IInv, Types, PlaceBest
<1>1. \A v \in G : /\ score[v] = Weight({v} \X out[v]) - Weight(inc[v] \X {v})
                   /\ Weight({v} \X out[v]) \in Nat /\ Weight(inc[v] \X {v}) \in Nat
  BY <1>0, CostType DEF Scores, NetScore
<1> SUFFICES ASSUME ~(Weight(inc[u] \X {u}) <= Weight({u} \X out[u])) PROVE FALSE
  OBVIOUS
<1>2. \A v \in G : Weight({v} \X out[v]) + 1 <= Weight(inc[v] \X {v})
  <2> SUFFICES ASSUME NEW v \in G PROVE Weight({v} \X out[v]) + 1 <= Weight(inc[v] \X {v})
    OBVIOUS
  <2>1. score[v] <= score[u]
    BY <1>0
  <2>2. /\ score[v] = Weight({v} \X out[v]) - Weight(inc[v] \X {v})
        /\ Weight({v} \X out[v]) \in Nat /\ Weight(inc[v] \X {v}) \in Nat
        /\ score[u] = Weight({u} \X out[u]) - Weight(inc[u] \X {u})
        /\ Weight({u} \X out[u]) \in Nat /\ Weight(inc[u] \X {u}) \in Nat
    BY <1>0, <1>1
  <2> QED  BY <2>1, <2>2
<1>3. Weight(OutOf(G)) + Cardinality(G) <= Weight(IntoOf(G))
  BY <1>0, <1>2, Losses
<1>4. OutOf(G) = IntoOf(G) /\ OutOf(G) \in SUBSET (Transfers \X Transfers)
  BY <1>0, EdgeSets DEF OutOf, IntoOf
<1>5. Weight(OutOf(G)) \in Nat /\ Weight(IntoOf(G)) = Weight(OutOf(G))
  BY <1>4, WeightType
<1>6. Cardinality(G) >= 1 /\ Cardinality(G) \in Nat
  BY <1>0, CountRemove, Counting
<1> QED  BY <1>3, <1>5, <1>6

(* Where the parts of the sequence lie.                                    *)
LEMMA Layout ==
  ASSUME IInv, phase = "place", NEW u \in G
  PROVE  /\ n1 \in Nat /\ n2 \in Nat /\ N \in Nat /\ n1 <= N - 1 - n2
         /\ \A v \in Transfers \ G : order[v] \in Nat /\ (order[v] < n1 \/ order[v] >= N - n2)
         /\ \A v \in G \ {u} : n1 + 1 <= N - 1 - n2
<1>0. /\ Types /\ G \subseteq Transfers /\ n1 \in Nat /\ n2 \in Nat /\ N \in Nat
      /\ order \in [Transfers -> 0..(N - 1)]
      /\ n1 + n2 + Cardinality(G) = N
      /\ \A v \in Transfers \ G : order[v] < n1 \/ order[v] >= N - n2
  BY Counting DEF IInv, Types, Positions
<1>1. /\ Cardinality(G \ {u}) = Cardinality(G) - 1 /\ Cardinality(G) >= 1 /\ Cardinality(G) \in Nat
      /\ G \ {u} \in SUBSET Transfers
  BY <1>0, CountRemove, Counting
<1>2. \A v \in G \ {u} : Cardinality(G \ {u}) >= 1
  BY <1>1, CountRemove
<1>3. ASSUME NEW v \in G \ {u} PROVE n1 + 1 <= N - 1 - n2
  <2>1. Cardinality(G \ {u}) >= 1
    BY <1>2
  <2> HIDE DEF N
  <2> QED  BY <1>0, <1>1, <2>1
<1>4. \A v \in Transfers \ G : order[v] \in Nat
  BY <1>0
<1> QED  BY <1>0, <1>1, <1>3, <1>4

(* A placement at the left end violates the edges that enter u.            *)
LEMMA LeftViolates ==
  ASSUME IInv, phase = "place", NEW u \in G, AppendLeft(u), UNCHANGED input
  PROVE  Violated' = Violated \cup IntoOf({u}) /\ Violated \cap IntoOf({u}) = {}
<1>0. /\ n1 \in Nat /\ n2 \in Nat /\ N \in Nat /\ n1 <= N - 1 - n2
      /\ \A v \in Transfers \ G : order[v] \in Nat /\ (order[v] < n1 \/ order[v] >= N - n2)
      /\ \A v \in G \ {u} : n1 + 1 <= N - 1 - n2
  BY Layout
<1>1. /\ G \subseteq Transfers /\ order \in [Transfers -> 0..(N - 1)]
      /\ G' = G \ {u} /\ n1' = n1 + 1 /\ order' = [order EXCEPT ![u] = n1]
  BY DEF IInv, Types, AppendLeft
<1>2. Edges' = Edges
  BY DEF Edges, Overlap, input
<1>3. /\ Pos(u) = n1 /\ Pos(u)' = n1
      /\ \A v \in G \ {u} : Pos(v) = n1 /\ Pos(v)' = n1 + 1
      /\ \A v \in Transfers \ G : Pos(v) = order[v] /\ Pos(v)' = order[v]
  BY <1>1 DEF Pos
<1>4. ASSUME NEW b \in Transfers, NEW a \in Transfers, b # a
      PROVE  /\ Pos(b)' > Pos(a)' <=> Pos(b) > Pos(a) \/ (a = u /\ b \in G)
             /\ Pos(b) > Pos(a) => ~(a = u /\ b \in G)
  <2>1. CASE a = u
    <3>1. CASE b \in G
      BY <1>0, <1>3, <1>4, <2>1, <3>1
    <3>2. CASE b \notin G
      BY <1>0, <1>3, <1>4, <2>1, <3>2
    <3> QED  BY <3>1, <3>2
  <2>2. CASE b = u
    <3>1. CASE a \in G
      BY <1>0, <1>3, <1>4, <2>2, <3>1
    <3>2. CASE a \notin G
      BY <1>0, <1>3, <1>4, <2>2, <3>2
    <3> QED  BY <3>1, <3>2
  <2>3. CASE a # u /\ b # u
    <3>1. CASE a \in G /\ b \in G
      BY <1>0, <1>3, <1>4, <2>3, <3>1
    <3>2. CASE a \in G /\ b \notin G
      BY <1>0, <1>3, <1>4, <2>3, <3>2
    <3>3. CASE a \notin G /\ b \in G
      BY <1>0, <1>3, <1>4, <2>3, <3>3
    <3>4. CASE a \notin G /\ b \notin G
      BY <1>0, <1>3, <1>4, <2>3, <3>4
    <3> QED  BY <3>1, <3>2, <3>3, <3>4
  <2> QED  BY <2>1, <2>2, <2>3
<1>5. \A p \in Edges : p[1] \in Transfers /\ p[2] \in Transfers /\ p[1] # p[2]
  BY DEF Edges
<1>6. Violated' = {p \in Edges : Pos(p[1])' > Pos(p[2])'}
  BY <1>2 DEF Violated
<1> QED  BY <1>4, <1>5, <1>6 DEF Violated, IntoOf

(* A sink at the right end violates nothing new.                           *)
LEMMA RightViolates ==
  ASSUME IInv, phase = "place", NEW u \in G, AppendRight(u), UNCHANGED input, OutOf({u}) = {}
  PROVE  Violated' = Violated
<1>0. /\ n1 \in Nat /\ n2 \in Nat /\ N \in Nat /\ n1 <= N - 1 - n2
      /\ \A v \in Transfers \ G : order[v] \in Nat /\ (order[v] < n1 \/ order[v] >= N - n2)
  BY Layout
<1>1. /\ G \subseteq Transfers /\ order \in [Transfers -> 0..(N - 1)]
      /\ G' = G \ {u} /\ n1' = n1 /\ order' = [order EXCEPT ![u] = N - 1 - n2]
  BY DEF IInv, Types, AppendRight
<1>2. Edges' = Edges
  BY DEF Edges, Overlap, input
<1>3. /\ Pos(u) = n1 /\ Pos(u)' = N - 1 - n2
      /\ \A v \in G \ {u} : Pos(v) = n1 /\ Pos(v)' = n1
      /\ \A v \in Transfers \ G : Pos(v) = order[v] /\ Pos(v)' = order[v]
  BY <1>1 DEF Pos
<1>4. ASSUME NEW b \in Transfers, NEW a \in Transfers, b # a, ~(b = u /\ a \in G)
      PROVE  Pos(b)' > Pos(a)' <=> Pos(b) > Pos(a)
  <2>1. CASE a = u
    <3>1. CASE b \in G
      BY <1>0, <1>3, <1>4, <2>1, <3>1
    <3>2. CASE b \notin G
      BY <1>0, <1>3, <1>4, <2>1, <3>2
    <3> QED  BY <3>1, <3>2
  <2>2. CASE b = u
    BY <1>0, <1>3, <1>4, <2>2
  <2>3. CASE a # u /\ b # u
    BY <1>3, <2>3
  <2> QED  BY <2>1, <2>2, <2>3
<1>5. \A p \in Edges : p[1] \in Transfers /\ p[2] \in Transfers /\ p[1] # p[2] /\ ~(p[1] = u /\ p[2] \in G)
  BY DEF Edges, OutOf
<1>6. Violated' = {p \in Edges : Pos(p[1])' > Pos(p[2])'}
  BY <1>2 DEF Violated
<1> QED  BY <1>4, <1>5, <1>6 DEF Violated

(* A placement decides the edges of u in the graph that is left.           *)
LEMMA Decides ==
  ASSUME IInv, NEW u \in G, G' = G \ {u}, UNCHANGED input
  PROVE  /\ Decided' = Decided \cup (IntoOf({u}) \cup OutOf({u}))
         /\ Decided \cap (IntoOf({u}) \cup OutOf({u})) = {}
         /\ IntoOf({u}) \cap OutOf({u}) = {}
<1>1. Edges' = Edges
  BY DEF Edges, Overlap, input
<1>2. \A p \in Edges : p[1] # p[2]
  BY DEF Edges
<1> QED  BY <1>1, <1>2 DEF Decided, IntoOf, OutOf

(* Weights depend on the transfers alone.                                  *)
LEMMA SameWeight ==
  ASSUME UNCHANGED input
  PROVE  \A E : Weight(E)' = Weight(E)
  BY DEF Weight, Load, Overlap, input

(* The edges of one vertex are those of its degree sets.                   *)
LEMMA EndsOf ==
  ASSUME IInv, Degrees, phase = "place", NEW u \in G
  PROVE  /\ IntoOf({u}) = inc[u] \X {u} /\ OutOf({u}) = {u} \X out[u]
         /\ IntoOf({u}) \in SUBSET (Transfers \X Transfers) /\ OutOf({u}) \in SUBSET (Transfers \X Transfers)
<1>1. /\ Types /\ before = Edges /\ Edges \in SUBSET (Transfers \X Transfers)
  BY EdgeSets DEF IInv, Unreversed
<1>2. inc[u] = Incoming(before, u) \cap G /\ out[u] = Outgoing(before, u) \cap G
  BY DEF Degrees
<1>3. \A p \in Edges : p = <<p[1], p[2]>> /\ p[1] \in Transfers /\ p[2] \in Transfers
  BY <1>1
<1>4. IntoOf({u}) = inc[u] \X {u}
  BY <1>1, <1>2, <1>3 DEF IntoOf, Incoming
<1>5. OutOf({u}) = {u} \X out[u]
  BY <1>1, <1>2, <1>3 DEF OutOf, Outgoing
<1> QED  BY <1>1, <1>4, <1>5 DEF IntoOf, OutOf

(* A placement keeps the balance: only a best vertex violates edges.       *)
LEMMA HalfPlaced ==
  ASSUME IInv, Degrees, Scores, Half, NEW u \in Transfers,
         PlaceSink(u) \/ PlaceSource(u) \/ PlaceBest(u)
  PROVE  Half'
<1>0. /\ Types /\ phase = "place" /\ phase' = "place" /\ u \in G /\ G' = G \ {u} /\ UNCHANGED input
  BY DEF IInv, PlaceSink, PlaceSource, PlaceBest, AppendLeft, AppendRight
<1>1. /\ Edges \in SUBSET (Transfers \X Transfers)
      /\ Violated \in SUBSET (Transfers \X Transfers) /\ Decided \in SUBSET (Transfers \X Transfers)
      /\ IntoOf({u}) \in SUBSET (Transfers \X Transfers) /\ OutOf({u}) \in SUBSET (Transfers \X Transfers)
      /\ IntoOf({u}) \cup OutOf({u}) \in SUBSET (Transfers \X Transfers)
  BY <1>0, EdgeSets, EndsOf
<1>2. 2 * Weight(Violated) <= Weight(Decided)
  BY <1>0 DEF Half
<1>3. Weight(Decided') = Weight(Decided) + (Weight(IntoOf({u})) + Weight(OutOf({u})))
  <2>1. Weight(IntoOf({u}) \cup OutOf({u})) = Weight(IntoOf({u})) + Weight(OutOf({u}))
    BY <1>0, <1>1, Decides, WeightSum
  <2>2. Weight(Decided \cup (IntoOf({u}) \cup OutOf({u}))) = Weight(Decided) + Weight(IntoOf({u}) \cup OutOf({u}))
    BY <1>0, <1>1, Decides, WeightSum
  <2> QED  BY <1>0, <2>1, <2>2, Decides
<1>4. /\ Weight(Violated) \in Nat /\ Weight(Decided) \in Nat /\ Weight(IntoOf({u})) \in Nat
      /\ Weight(OutOf({u})) \in Nat
  BY <1>1, WeightType
<1>5. 2 * Weight(Violated') <= Weight(Decided')
  <2>1. CASE PlaceSink(u)
    <3>1. out[u] = {} /\ AppendRight(u)
      BY <1>0, <2>1 DEF Degrees, PlaceSink
    <3>2. OutOf({u}) = {}
      BY <1>0, <3>1, EndsOf
    <3>3. Violated' = Violated
      BY <1>0, <3>1, <3>2, RightViolates
    <3> QED  BY <1>2, <1>3, <1>4, <3>3
  <2>2. CASE PlaceSource(u)
    <3>1. inc[u] = {} /\ AppendLeft(u)
      BY <1>0, <2>2 DEF Degrees, PlaceSource
    <3>2. IntoOf({u}) = {}
      BY <1>0, <3>1, EndsOf
    <3>3. Violated' = Violated
      BY <1>0, <3>1, <3>2, LeftViolates
    <3> QED  BY <1>2, <1>3, <1>4, <3>3
  <2>3. CASE PlaceBest(u)
    <3>1. AppendLeft(u)
      BY <2>3 DEF PlaceBest
    <3>2. Violated' = Violated \cup IntoOf({u}) /\ Violated \cap IntoOf({u}) = {}
      BY <1>0, <3>1, LeftViolates
    <3>3. Weight(Violated') = Weight(Violated) + Weight(IntoOf({u}))
      BY <1>1, <3>2, WeightSum
    <3>4. Weight(IntoOf({u})) <= Weight(OutOf({u}))
      BY <1>0, <2>3, BestIsWorthIt, EndsOf
    <3> QED  BY <1>2, <1>3, <1>4, <3>3, <3>4
  <2> QED  BY <2>1, <2>2, <2>3
<1>6. Weight(Violated)' = Weight(Violated') /\ Weight(Decided)' = Weight(Decided')
  BY <1>0, SameWeight
<1> QED  BY <1>0, <1>5, <1>6 DEF Half

(* At the beginning nothing is decided.                                    *)
LEMMA HalfBegun ==
  ASSUME IInv, BeginSequence
  PROVE  Half'
<1>1. phase' = "place" /\ G' = Transfers /\ UNCHANGED input /\ n1' = 0
  BY DEF BeginSequence
<1>2. Violated' = {}
  BY <1>1 DEF Violated, Pos, Edges
<1>3. Decided' = {}
  BY <1>1 DEF Decided, Edges
<1>4. Weight(Violated)' = Weight({}) /\ Weight(Decided)' = Weight({})
  BY <1>1, <1>2, <1>3, SameWeight
<1> QED  BY <1>1, <1>4, WeightEmpty DEF Half

(* The balance is kept by every step.                                      *)
LEMMA HalfStep ==
  ASSUME IInv, Degrees, Scores, Half, [Next]_vars
  PROVE  Half'
<1>1. CASE BeginSequence
  BY <1>1, HalfBegun
<1>2. ASSUME NEW u \in Transfers, PlaceSink(u) \/ PlaceSource(u) \/ PlaceBest(u)
      PROVE  Half'
  BY <1>2, HalfPlaced
<1>3. CASE \/ GenerateDigraph \/ ReverseBackwardEdges \/ BeginImprove \/ ImproveDone
           \/ \E u \in Transfers : ImproveStep(u)
           \/ \E chosen \in SUBSET (Transfers \ zero) : Convert(chosen)
  <2>1. phase' \notin {"place", "reverse"}
    BY <1>3 DEF GenerateDigraph, ReverseBackwardEdges, BeginImprove, ImproveDone, ImproveStep, Convert
  <2> QED  BY <2>1 DEF Half
<1>4. CASE FinishSequence \/ UNCHANGED vars
  <2>1. UNCHANGED <<G, n1, order>> /\ UNCHANGED input
    BY <1>4 DEF FinishSequence, vars, ends
  <2>2. Violated' = Violated /\ Decided' = Decided
    BY <2>1 DEF Violated, Decided, Pos, Edges, Overlap, input
  <2>3. Weight(Violated)' = Weight(Violated) /\ Weight(Decided)' = Weight(Decided)
    BY <2>1, <2>2, SameWeight
  <2>4. phase' = phase \/ (phase = "place" /\ phase' = "reverse" /\ G = {})
    BY <1>4 DEF FinishSequence, vars
  <2> QED  BY <2>1, <2>3, <2>4 DEF Half
<1> QED  BY <1>1, <1>2, <1>3, <1>4 DEF Next, Step, Finished

(* The stashes of ReverseBackwardEdges are the violated edges.             *)
LEMMA HalfReversed ==
  ASSUME IInv, Half, ReverseBackwardEdges
  PROVE  HalfKept'
<1> DEFINE violated == {p \in before : ~(order[p[1]] < order[p[2]])}
           turned   == {<<p[2], p[1]>> : p \in violated}
           back     == {<<p[2], p[1]>> : p \in turned}
<1>0. /\ phase = "reverse" /\ stash' = stash \cup turned /\ UNCHANGED input
  BY DEF ReverseBackwardEdges
<1>1. /\ before = Edges /\ stash = {} /\ Types /\ order \in [Transfers -> Int] /\ Distinct(order, Transfers)
      /\ G = {} /\ 2 * Weight(Violated) <= Weight(Decided)
  BY <1>0, Counting DEF IInv, Types, Unreversed, OrderDistinct, Half
<1>2. \A p \in Edges : /\ p = <<p[1], p[2]>> /\ p[1] \in Transfers /\ p[2] \in Transfers /\ p[1] # p[2]
  BY DEF Edges
<1>3. violated = Violated
  <2>1. \A p \in Edges : ~(order[p[1]] < order[p[2]]) <=> order[p[1]] > order[p[2]]
    BY <1>1, <1>2 DEF Distinct
  <2> QED  BY <1>1, <2>1 DEF Violated, Pos
<1>4. back = Violated
  <2>1. \A p \in Violated : p = <<p[1], p[2]>>
    BY <1>2 DEF Violated
  <2>2. turned = {<<p[2], p[1]>> : p \in Violated}
    BY <1>3
  <2> HIDE DEF turned
  <2>3. \A q \in back : q \in Violated
    BY <2>1, <2>2
  <2>4. \A q \in Violated : q \in back
    <3> SUFFICES ASSUME NEW q \in Violated PROVE q \in back
      OBVIOUS
    <3>1. <<q[2], q[1]>> \in turned
      BY <2>2
    <3>2. q = <<q[1], q[2]>>
      BY <2>1
    <3>3. <<<<q[2], q[1]>>[2], <<q[2], q[1]>>[1]>> = <<q[1], q[2]>>
      OBVIOUS
    <3> QED  BY <3>1, <3>2, <3>3
  <2> QED  BY <2>3, <2>4
<1>5. Decided = Edges
  BY <1>1 DEF Decided
<1>6. {<<p[2], p[1]>> : p \in stash}' = Violated
  BY <1>0, <1>1, <1>4
<1>7. Edges' = Edges
  BY <1>0 DEF Edges, Overlap, input
<1>8. Weight({<<p[2], p[1]>> : p \in stash})' = Weight(Violated) /\ Weight(Edges)' = Weight(Edges)
  BY <1>0, <1>6, <1>7, SameWeight
<1> QED  BY <1>1, <1>5, <1>8 DEF HalfKept

(* Only the reversal leads to ImproveVertexSequence.                       *)
LEMMA HalfKeptStep ==
  ASSUME IInv, Half, HalfKept, [Next]_vars
  PROVE  HalfKept'
<1>1. CASE ReverseBackwardEdges
  BY <1>1, HalfReversed
<1>2. CASE UNCHANGED vars
  <2>1. UNCHANGED <<phase, stash>> /\ UNCHANGED input
    BY <1>2 DEF vars, graph
  <2>2. Edges' = Edges /\ {<<p[2], p[1]>> : p \in stash}' = {<<p[2], p[1]>> : p \in stash}
    BY <2>1 DEF Edges, Overlap, input
  <2>3. /\ Weight({<<p[2], p[1]>> : p \in stash})' = Weight({<<p[2], p[1]>> : p \in stash})
        /\ Weight(Edges)' = Weight(Edges)
    BY <2>1, <2>2, SameWeight
  <2> QED  BY <2>1, <2>3 DEF HalfKept
<1>3. CASE Next /\ ~ReverseBackwardEdges /\ ~UNCHANGED vars
  <2>1. phase' # "improve"
    BY <1>3 DEF Next, Step, Finished, GenerateDigraph, BeginSequence, PlaceSink, PlaceSource, PlaceBest,
                FinishSequence, BeginImprove, ImproveStep, ImproveDone, Convert
  <2> QED  BY <2>1 DEF HalfKept
<1> QED  BY <1>1, <1>2, <1>3

(* The heuristic of FindVertexSequence gives up at most half of what the   *)
(* dependencies are worth, for any transfers and any costs: whenever no    *)
(* sink and no source is left, some vertex saves at least what it loses,   *)
(* and the best score is such a one.                                       *)
THEOREM HeuristicKeepsHalf == Spec => []HalfKept
<1>1. Init => Rounds /\ Degrees /\ Scores /\ Half /\ HalfKept
  BY DEF Init, Rounds, Degrees, Scores, Half, HalfKept
<1>2. /\ IInv /\ Rounds /\ Degrees /\ Scores /\ Half /\ HalfKept /\ [Next]_vars
      => (Rounds /\ Degrees /\ Scores /\ Half /\ HalfKept)'
  BY WalkStep, HalfStep, HalfKeptStep
<1> QED  BY <1>1, <1>2, Inductive, PTL DEF Spec
=============================================================================
