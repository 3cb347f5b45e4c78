--------------------------- MODULE TransferOrderMC ---------------------------
(* Small instances of TransferOrder: each transfer writes blocks of its    *)
(* own and reads any of a family of sets.                                  *)
EXTENDS TransferOrder, TLC

CONSTANTS t1, t2, t3, t4

(* Four transfers that write a block each, t1 two of them.                 *)
MCTransfers == {t1, t2, t3, t4}
MCTgt == {(t1 :> {1, 5}) @@ (t2 :> {2}) @@ (t3 :> {3}) @@ (t4 :> {4})}
MCZero == {{}, {t2}}

(* Every digraph in which t3 and t4 each read what at most one other       *)
(* transfer writes.  The edges into t1 weigh 2.                            *)
MCDigraphs ==
  {s \in [MCTransfers -> SUBSET (1..5)] :
     \A u \in MCTransfers : /\ 1 \in s[u] <=> 5 \in s[u]
                            /\ \A t \in MCTgt : s[u] \cap t[u] = {}
                            /\ u \in {t3, t4} => s[u] \in {{}, {1, 5}, {2}, {3}, {4}}}

(* Edges of weight 1 and 2 into the same transfer, and transfers that read *)
(* what they write themselves.                                             *)
MCOverlaps ==
  {s \in [MCTransfers -> {{}, {1}, {2}, {2, 3}, {1, 3, 5}}] : s[t4] = {}}

MCSrc == MCDigraphs \cup MCOverlaps
=============================================================================
