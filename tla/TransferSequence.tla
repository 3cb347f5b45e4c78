--------------------------- MODULE TransferSequence ---------------------------
(***************************************************************************)
(* What BlockImageDiff.FindSequenceForTransfers promises its caller        *)
(* Compute: in one step, an order of the transfers and, for that order,    *)
(* exactly the stashes it needs.  Compute asks once and, when it turns     *)
(* some transfers into "new" ones to save stash space, once more.          *)
(*                                                                         *)
(* A transfer is a model value; tgt[u] and src[u] are the sets of blocks   *)
(* it writes and reads.  A stash is a pair <<u, x>>: the blocks u writes   *)
(* and x reads are saved before u runs and handed to x.                    *)
(***************************************************************************)
EXTENDS Integers, FiniteSets

CONSTANTS Transfers,   \* the transfers of the update
          Blocks,      \* block numbers
          TgtChoices,  \* what FindTransfers may let the transfers write
          SrcChoices,  \* and read
          ZeroChoices  \* which of them may be __ZERO transfers

VARIABLES tgt,    \* xf.tgt_ranges
          src,    \* xf.src_ranges
          zero,   \* the transfers with src_name "__ZERO"
          again,  \* Compute has asked for the second time
          answer  \* {}, or the set that holds the order and its stashes

avars == <<tgt, src, zero, again, answer>>

N == Cardinality(Transfers)

(* The blocks that u overwrites and x reads.                               *)
Overlap(u, x) == src[x] \cap tgt[u]

(* Positions 0..N-1 of the transfers, one each.                            *)
Orders ==
  {o \in [Transfers -> 0..(N - 1)] :
     \A u, x \in Transfers : u # x => o[u] # o[x]}

(* The pairs that run in the wrong order: u overwrites what x, later,      *)
(* reads.                                                                  *)
StashFor(o) ==
  {p \in Transfers \X Transfers :
     o[p[1]] < o[p[2]] /\ Overlap(p[1], p[2]) # {}}

AInit == /\ tgt \in TgtChoices
         /\ src \in SrcChoices
         /\ zero \in ZeroChoices
         /\ again = FALSE
         /\ answer = {}

FindSequence ==
  /\ answer = {}
  /\ \E o \in Orders : answer' = {[order |-> o, stash |-> StashFor(o)]}
  /\ UNCHANGED <<tgt, src, zero, again>>

(* SelectAndConvertDiffTransfersToNew on the transfers in chosen.          *)
Convert(chosen) ==
  /\ answer # {} /\ ~again
  /\ again' = TRUE
  /\ src' = [u \in Transfers |-> IF u \in chosen THEN {} ELSE src[u]]
  /\ answer' = {}
  /\ UNCHANGED <<tgt, zero>>

ANext == FindSequence \/ \E chosen \in SUBSET (Transfers \ zero) : Convert(chosen)

ASpec == AInit /\ [][ANext]_avars
=============================================================================
