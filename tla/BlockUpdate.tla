----------------------------- MODULE BlockUpdate -----------------------------
(***************************************************************************)
(* BlockImageDiff.Compute of releasetools/blockimgdiff.py, from the        *)
(* transfers that FindTransfers has made to the transfer list that         *)
(* WriteTransfers writes, and the device that runs this list.              *)
(*                                                                         *)
(* FindSequenceForTransfers is the one step of TransferSequence, which     *)
(* TransferOrder implements.  ReviseStashSize runs twice, first only to    *)
(* measure; each of its iterations is a step per stash (ReviseStash, in    *)
(* any order) and one for the rest of the loop body (ReviseTransfer).      *)
(* WriteTransfers takes one step per transfer.  The device is external: it *)
(* runs the commands in order, and refuses a read that does not give the   *)
(* blocks of the source image, as their hash would tell.                   *)
(*                                                                         *)
(* A range set is a set of blocks and its SHA-1 the sequence of its        *)
(* blocks' contents (no collisions).  A stash is a pair <<u, x>>, in       *)
(* u.stash_before and x.use_stash, whose range is Overlap(u, x).  Sizes    *)
(* are in blocks: `limit` is cache_size * stash_threshold / blocksize.     *)
(* Splitting "new" and "zero" commands at 1024 blocks is left out, and so  *)
(* is the content of patches.                                              *)
(***************************************************************************)
EXTENDS Integers, Sequences, FiniteSets, FiniteSetsExt, SequencesExt

CONSTANTS Transfers, Blocks, TgtChoices, SrcChoices, ZeroChoices,
          TotalBlocks,   \* range(tgt.total_blocks); the source may be larger
          Extended,      \* tgt.extended, written by no transfer
          SrcImages,     \* contents of the source image, per block
          TgtImages,     \* and of the target image
          Zero,          \* the content of a block of zeros
          Limits,        \* values of max_allowed_blocks
          Slack          \* the 1024 of Compute

ASSUME BlocksAssumption ==
  /\ IsFiniteSet(Transfers) /\ IsFiniteSet(Blocks) /\ Blocks \subseteq Nat

(* FindTransfers leaves no two transfers that write the same block.        *)
ASSUME RangesAssumption ==
  /\ TgtChoices \subseteq [Transfers -> SUBSET Blocks]
  /\ SrcChoices \subseteq [Transfers -> SUBSET Blocks]
  /\ ZeroChoices \subseteq SUBSET Transfers
  /\ \A t \in TgtChoices : \A u, x \in Transfers : u # x => t[u] \cap t[x] = {}

ASSUME LimitsAssumption == Limits \subseteq Nat /\ Slack \in Nat

ASSUME TargetAssumption ==
  /\ Extended \subseteq TotalBlocks /\ TotalBlocks \subseteq Blocks
  /\ \A t \in TgtChoices : \A u \in Transfers :
       t[u] # {} /\ t[u] \subseteq TotalBlocks \ Extended

VARIABLES tgt, src, zero, srcImg, tgtImg, limit,   \* the inputs; src shrinks
          phase,      \* the call Compute is in
          fault,      \* the assertion that has failed, or "none"
          again,      \* FindSequenceForTransfers has run twice
          style,      \* xf.style
          order,      \* xf.order
          stash,      \* stash_before and use_stash
          ignore,     \* ignore_stash_limit
          i,          \* the position of the loop over self.transfers
          pend,       \* users of the stashes of xf.stash_before to come
          replaced,   \* replaced_cmds
          stashes,    \* hash |-> reference count
          stashed,    \* stashed_blocks
          maxStashed, \* max_stashed_blocks
          measured,   \* what the two runs of ReviseStashSize returned
          revised,
          touched,    \* touched_src_ranges
          cmds,       \* out, and what the device still has to run
          dev,        \* contents of the device's blocks
          slots       \* hashes of the stashes on the device

image == <<tgt, zero, srcImg, tgtImg, limit>>
plan  == <<src, style, order, stash, again>>
pass  == <<ignore, i, pend, replaced>>
usage == <<stashes, stashed, maxStashed>>
past  == <<measured, revised>>
list  == <<touched, cmds>>
phone == <<dev, slots>>

vars == <<image, plan, pass, usage, past, list, phone, phase, fault>>

Sequencing == INSTANCE TransferSequence WITH answer <- {}

N == Cardinality(Transfers)
Overlap(u, x) == src[x] \cap tgt[u]

(* The place of block b in a range, and the block at place k.              *)
Place(r, b) == Cardinality({d \in r : d <= b})
Nth(r, k) == CHOOSE b \in r : Place(r, b) = k

(* RangeSha1: the contents of the blocks of r, in block order.             *)
Sha1(img, r) == [k \in 1..Cardinality(r) |-> img[Nth(r, k)]]

StashSha1(u, x) == Sha1(srcImg, Overlap(u, x))

(* The hashes a stash can have: it is a part of what one transfer writes.  *)
Hashes == {Sha1(srcImg, r) : r \in UNION {SUBSET tgt[u] : u \in Transfers}} \ {<<>>}

NoStash == [h \in Hashes |-> 0]

Xf == CHOOSE u \in Transfers : order[u] = i
DefinedBy(u) == {x \in Transfers : <<u, x>> \in stash}
UsedBy(x) == {u \in Transfers : <<u, x>> \in stash}

Identical(u) == Sha1(srcImg, src[u]) = Sha1(tgtImg, tgt[u])

CareMap == UNION {tgt[u] : u \in Transfers}

-----------------------------------------------------------------------------
(* What FindTransfers may have made: a transfer that reads nothing is      *)
(* "new", a __ZERO transfer reads and writes blocks of zeros, another one  *)
(* is a "diff".                                                            *)
Init ==
  /\ tgt \in TgtChoices /\ src \in SrcChoices /\ zero \in ZeroChoices
  /\ srcImg \in SrcImages /\ tgtImg \in TgtImages
  /\ limit \in Limits
  /\ \A u \in zero : /\ \A b \in src[u] : srcImg[b] = Zero
                     /\ \A b \in tgt[u] : tgtImg[b] = Zero
  /\ style = [u \in Transfers |-> IF u \in zero THEN "zero"
                                  ELSE IF src[u] = {} THEN "new" ELSE "diff"]
  /\ phase = "sequence" /\ fault = "none" /\ again = FALSE
  /\ order = [u \in Transfers |-> 0] /\ stash = {}
  /\ ignore = TRUE /\ i = 0 /\ pend = {} /\ replaced = {}
  /\ stashes = NoStash /\ stashed = 0 /\ maxStashed = 0
  /\ measured = 0 /\ revised = 0
  /\ touched = {} /\ cmds = <<>>
  /\ dev = srcImg /\ slots = {}

(* The loops over self.transfers start with empty accounts.                *)
BeginPass(users) == /\ i' = 0 /\ pend' = users /\ replaced' = {}
                    /\ stashes' = NoStash /\ stashed' = 0 /\ maxStashed' = 0

(* Only the first sequence is measured against the limit.                  *)
Measures == ~again

FindSequenceForTransfers ==
  /\ phase = "sequence"
  /\ \E o \in Sequencing!Orders :
       /\ order' = o
       /\ stash' = Sequencing!StashFor(o)
       /\ BeginPass({x \in Transfers :
                       \E u \in Transfers : o[u] = 0 /\ <<u, x>> \in stash'})
  /\ ignore' = Measures
  /\ phase' = "revise"
  /\ UNCHANGED <<image, src, style, again, past, list, phone, fault>>

(* "if max_allowed_blocks and ...": a limit of 0 is no limit.              *)
Exceeds(blocks) == ~ignore /\ limit # 0 /\ blocks > limit

(* A stash that would exceed the limit costs its user the conversion to    *)
(* "new".                                                                  *)
ReviseStash(x) ==
  LET h     == StashSha1(Xf, x)
      after == stashed + (IF stashes[h] = 0 THEN Len(h) ELSE 0)
  IN /\ phase = "revise" /\ i < N
     /\ x \in pend
     /\ pend' = pend \ {x}
     /\ IF Exceeds(after)
          THEN replaced' = replaced \cup {x} /\ UNCHANGED usage
          ELSE /\ stashes' = [stashes EXCEPT ![h] = @ + 1]
               /\ stashed' = after
               /\ maxStashed' = Max({maxStashed, after})
               /\ UNCHANGED replaced
     /\ UNCHANGED <<image, plan, ignore, i, past, list, phone, phase, fault>>

(* ConvertToNew on the transfers in cmdset.                                *)
ConvertToNew(cmdset) ==
  /\ style' = [u \in Transfers |-> IF u \in cmdset THEN "new" ELSE style[u]]
  /\ src' = [u \in Transfers |-> IF u \in cmdset THEN {} ELSE src[u]]

(* How often hash h is among the stashes that xf uses, or defines.         *)
Uses(pairs, xf, h) == Cardinality({u \in Transfers :
                         <<u, xf>> \in pairs /\ StashSha1(u, xf) = h})
Defs(pairs, xf, h) == Cardinality({x \in Transfers :
                         <<xf, x>> \in pairs /\ StashSha1(xf, x) = h})

(* Mutant: never freed.                                                    *)
FreedNever(counts, pairs, xf) == {}

(* The hashes whose count drops to 0.                                      *)
Freed(counts, pairs, xf) ==
  {h \in Hashes : counts[h] > 0 /\ counts[h] = Uses(pairs, xf, h)}

Release(counts, pairs, xf) ==
  [h \in Hashes |-> counts[h] - Uses(pairs, xf, h)]

(* How many blocks the stashes with these hashes hold together.            *)
SizeOf(hs) == Cardinality(UNION {{h} \X DOMAIN h : h \in hs})

(* Mutant: a move is taken not to need the stash.                          *)
ImplicitForPatches(xf) ==
  style[xf] = "diff" /\ src[xf] \cap tgt[xf] # {} /\ ~Identical(xf)

(* A diff that overwrites its own source is stashed implicitly.            *)
Implicit(xf) == style[xf] = "diff" /\ src[xf] \cap tgt[xf] # {}

(* The implicit stash, the conversions, and the stashes that xf frees.     *)
ReviseTransfer ==
  LET implicit == Implicit(Xf)
      peak     == stashed + Cardinality(src[Xf])
      out      == replaced \cup (IF implicit /\ Exceeds(peak) THEN {Xf} ELSE {})
      kept     == {p \in stash : p[2] \notin out}
      next     == CHOOSE u \in Transfers : order[u] = i + 1
  IN /\ phase = "revise" /\ i < N
     /\ pend = {}
     /\ maxStashed' = IF implicit /\ ~Exceeds(peak)
                        THEN Max({maxStashed, peak}) ELSE maxStashed
     /\ ConvertToNew(out)
     /\ stash' = kept
     /\ stashes' = Release(stashes, kept, Xf)
     /\ stashed' = stashed - SizeOf(Freed(stashes, kept, Xf))
     /\ fault' = IF \E u \in out : style[u] = "new" THEN "converted twice"
                 ELSE IF \E h \in Hashes : stashes'[h] < 0 THEN "stash unknown"
                 ELSE "none"
     /\ i' = i + 1
     /\ pend' = IF i + 1 = N THEN {}
                ELSE {x \in Transfers : <<next, x>> \in kept}
     /\ replaced' = {}
     /\ UNCHANGED <<image, order, again, ignore, past, list, phone, phase>>

(* The measuring run is over: either enough transfers are converted and    *)
(* the sequence is found again, or the transfers are revised as they are.  *)
MeasureDone ==
  /\ phase = "revise" /\ ignore /\ i = N
  /\ measured' = maxStashed
  /\ IF maxStashed > limit + Slack
       THEN phase' = "select" /\ UNCHANGED <<pass, usage>>
       ELSE /\ phase' = "revise" /\ ignore' = FALSE
            /\ BeginPass({x \in Transfers :
                 \E u \in Transfers : order[u] = 0 /\ <<u, x>> \in stash})
  /\ UNCHANGED <<image, plan, revised, list, phone, fault>>

(* SelectAndConvertDiffTransfersToNew: which transfers are smaller as      *)
(* "new" data depends on the patches, so `cheap` is any set of them.  They *)
(* are converted first, in any order, then those that use a stash, until   *)
(* enough stashed blocks are gone.                                         *)
UsedBlocks(S) ==
  MapThenSumSet(LAMBDA x : MapThenSumSet(LAMBDA u : Cardinality(Overlap(u, x)),
                                         UsedBy(x)), S)

SelectAndConvert(cheap, chosen) ==
  LET diffs      == {u \in Transfers : style[u] = "diff" /\ ~Identical(u)}
      candidates == {u \in diffs : u \in cheap \/ UsedBy(u) # {}}
      enough(S)  == UsedBlocks(S) >= measured - limit
  IN /\ phase = "select"
     /\ cheap \subseteq diffs /\ chosen \subseteq candidates
     /\ chosen \subseteq cheap \/ cheap \subseteq chosen
     /\ chosen = candidates \/ enough(chosen)
     /\ chosen # {} =>
          \E last \in IF chosen \subseteq cheap THEN chosen ELSE chosen \ cheap :
            ~enough(chosen \ {last})
     /\ ConvertToNew(chosen)
     /\ again' = TRUE
     /\ phase' = "sequence"
     /\ UNCHANGED <<image, order, stash, pass, usage, past, list, phone, fault>>

(* AssertSequenceGood: no transfer reads, unless from a stash, what is     *)
(* written before, and every block of the care map is written once.        *)
SequenceGood ==
  \A x \in Transfers :
    LET written  == UNION {tgt[u] : u \in {v \in Transfers : order[v] < order[x]}}
        unstashed == src[x] \ UNION {Overlap(u, x) : u \in UsedBy(x)}
    IN /\ unstashed \cap TotalBlocks \cap written = {}
       /\ tgt[x] \cap written = {}

(* ReviseStashSize is over; ComputePatches turns a diff into a "move" when *)
(* source and target are identical, and into a patch otherwise.            *)
ReviseDone ==
  /\ phase = "revise" /\ ~ignore /\ i = N
  /\ revised' = maxStashed
  /\ fault' = IF SequenceGood THEN "none" ELSE "sequence"
  /\ style' = [u \in Transfers |-> IF style[u] # "diff" THEN style[u]
                                   ELSE IF Identical(u) THEN "move" ELSE "patch"]
  /\ BeginPass({})
  /\ phase' = "write"
  /\ UNCHANGED <<image, src, order, stash, again, ignore, measured, list, phone>>

-----------------------------------------------------------------------------
(* Commands of the transfer list.                                          *)
StashCmd(h, r)  == [op |-> "stash", id |-> h, tgt |-> {}, src |-> r, refs |-> {}]
FreeCmd(h)      == [op |-> "free", id |-> h, tgt |-> {}, src |-> {}, refs |-> {}]
WriteCmd(o, r)  == [op |-> o, id |-> <<>>, tgt |-> r, src |-> {}, refs |-> {}]
CopyCmd(o, t, s, refs) ==
  [op |-> o, id |-> <<>>, tgt |-> t, src |-> s, refs |-> refs]

(* Some commands in no particular order.                                   *)
Listed(S) == SetToSeq(S)

(* Mutant: without the automatic stash.                                    *)
PeakExplicit(xf, held) == held

(* "automatic stashing of overlapping blocks"                              *)
Peak(xf, held) ==
  IF src[xf] \cap tgt[xf] # {} THEN held + Cardinality(src[xf]) ELSE held

(* Before Xf a stash is written for each content that is not held yet, of  *)
(* one of the ranges that have it; all the stashes count.                  *)
Unheld == {h \in Hashes : stashes[h] = 0 /\ Defs(stash, Xf, h) > 0}
StashRange(h) == Overlap(Xf, CHOOSE x \in DefinedBy(Xf) : StashSha1(Xf, x) = h)
Counts == [h \in Hashes |-> stashes[h] + Defs(stash, Xf, h)]

(* A move onto itself is no command.                                       *)
Copies == \/ style[Xf] = "move" /\ src[Xf] # tgt[Xf]
          \/ style[Xf] = "patch"

Refs == {[range |-> Overlap(u, Xf), id |-> StashSha1(u, Xf)] : u \in UsedBy(Xf)}

Command ==
  LET toZero == tgt[Xf] \ src[Xf]
  IN IF style[Xf] = "new" THEN <<WriteCmd("new", tgt[Xf])>>
     ELSE IF style[Xf] = "zero" /\ toZero # {} THEN <<WriteCmd("zero", toZero)>>
     ELSE IF Copies THEN <<CopyCmd(style[Xf], tgt[Xf], src[Xf], Refs)>>
     ELSE <<>>

(* The stashes that xf uses are disjoint; the rest of its source is what   *)
(* they leave.                                                             *)
AssertPartition(xf) ==
  \A u, v \in UsedBy(xf) : u # v => Overlap(u, xf) \cap Overlap(v, xf) = {}

(* The implicit stash counts, and what Xf has used for the last time is    *)
(* freed after it.                                                         *)
WriteTransfer ==
  LET held == stashed + SizeOf(Unheld)
      peak == IF Copies THEN Peak(Xf, held) ELSE held
      gone == Freed(Counts, stash, Xf)
  IN /\ phase = "write" /\ i < N
     /\ stashes' = Release(Counts, stash, Xf)
     /\ stashed' = held - SizeOf(gone)
     /\ maxStashed' = Max({maxStashed, held, peak})
     /\ touched' = touched \cup (UNION {StashRange(h) : h \in Unheld})
                           \cup (IF Copies THEN src[Xf] ELSE {})
     /\ cmds' = cmds \o Listed({StashCmd(h, StashRange(h)) : h \in Unheld})
                     \o Command \o Listed({FreeCmd(h) : h \in gone})
     /\ fault' = IF \E h \in Hashes : stashes'[h] < 0 THEN "stash unknown"
                 ELSE IF maxStashed' > limit THEN "stash limit"
                 ELSE IF style[Xf] = "move" /\ Cardinality(src[Xf]) # Cardinality(tgt[Xf])
                   THEN "move size"
                 ELSE IF ~AssertPartition(Xf) THEN "partition"
                 ELSE "none"
     /\ i' = i + 1
     /\ UNCHANGED <<image, plan, ignore, pend, replaced, past, phone, phase>>

(* Mutant: all of them first.                                              *)
EraseFirstAll(dontcare) == dontcare

(* What the update does not read can be erased before it starts.           *)
EraseFirst(dontcare) == dontcare \ touched

(* The blocks without useful data are erased: those that the update does   *)
(* not read first, the others last.                                        *)
WriteEnd ==
  LET dontcare == (TotalBlocks \ Extended) \ CareMap
      first    == EraseFirst(dontcare)
      last     == dontcare \ first
      Cmd(op, r) == IF r = {} THEN <<>> ELSE <<WriteCmd(op, r)>>
  IN /\ phase = "write" /\ i = N
     /\ cmds' = Cmd("erase", first) \o cmds \o Cmd("zero", Extended)
                  \o Cmd("erase", last)
     /\ phase' = "device"
     /\ UNCHANGED <<image, plan, pass, usage, past, touched, phone, fault>>

-----------------------------------------------------------------------------
(* The device.  A block of the source comes from the stash that the        *)
(* command names for it, or from the partition.                            *)
Loads(cmd, b) ==
  LET refs == {r \in cmd.refs : b \in r.range}
  IN IF refs = {} THEN dev[b]
     ELSE LET r == CHOOSE r \in refs : TRUE
          IN IF r.id \in slots
               THEN r.id[Place(r.range, b)]
               ELSE "missing"

Erased == "erased"

RunCommand ==
  LET cmd == Head(cmds)
      good == \A b \in cmd.src : Loads(cmd, b) = srcImg[b]
  IN /\ phase = "device" /\ cmds # <<>>
     /\ cmds' = Tail(cmds)
     /\ fault' = IF ~good THEN "bad source"
                 ELSE IF cmd.op = "free" /\ cmd.id \notin slots THEN "bad free"
                 ELSE "none"
     /\ dev' = [b \in Blocks |->
                  IF b \notin cmd.tgt THEN dev[b]
                  ELSE IF cmd.op = "zero" THEN Zero
                  ELSE IF cmd.op = "erase" THEN Erased
                  ELSE tgtImg[b]]
     /\ slots' = IF cmd.op = "stash" THEN slots \cup {cmd.id}
                 ELSE IF cmd.op = "free" THEN slots \ {cmd.id}
                 ELSE slots
     /\ UNCHANGED <<image, plan, pass, usage, past, touched, phase>>

DeviceDone ==
  /\ phase = "device" /\ cmds = <<>>
  /\ phase' = "done"
  /\ UNCHANGED <<image, plan, pass, usage, past, list, phone, fault>>

(* A failed assertion ends the program, a bad read the update.             *)
Step ==
  /\ fault = "none"
  /\ \/ FindSequenceForTransfers
     \/ \E x \in Transfers : ReviseStash(x)
     \/ ReviseTransfer
     \/ MeasureDone
     \/ \E cheap, chosen \in SUBSET Transfers : SelectAndConvert(cheap, chosen)
     \/ ReviseDone
     \/ WriteTransfer
     \/ WriteEnd
     \/ RunCommand
     \/ DeviceDone

Stopped == (phase = "done" \/ fault # "none") /\ UNCHANGED vars

Next == Step \/ Stopped

Spec == Init /\ [][Next]_vars /\ WF_vars(Step)

-----------------------------------------------------------------------------
(* When the list is through, every block of the care map has the target's  *)
(* content and no stash is left on the device.                             *)
Updated ==
  phase = "done" => /\ \A b \in CareMap : dev[b] = tgtImg[b]
                    /\ \A b \in Extended : dev[b] = Zero
                    /\ slots = {}

(* The size that the header of the list announces covers the stash slots   *)
(* on the device at any time, with the implicit stash of a command that    *)
(* overwrites its own source.                                              *)
AnnouncedSizeCovers ==
  phase = "device" =>
    /\ SizeOf(slots) <= maxStashed
    /\ cmds # <<>> =>
         LET cmd == Head(cmds)
         IN cmd.src \cap cmd.tgt # {} => SizeOf(slots) + Cardinality(cmd.src) <= maxStashed

(* The accounts of ReviseStashSize are never below those of WriteTransfers *)
(* for the transfers it leaves.                                            *)
RevisedCovers == phase \in {"write", "device", "done"} => maxStashed <= revised

(* Every update is written and installed: none of the assertions of        *)
(* ReviseStashSize, ConvertToNew, AssertSequenceGood and WriteTransfers    *)
(* fails, the one on the stash limit included (ReviseStashSize counts the  *)
(* stashes of converted transfers to the end, WriteTransfers does not      *)
(* write them), and no command on the device reads a block or a stash that *)
(* was overwritten, erased or freed before.                                *)
Installed == <>(phase = "done")
=============================================================================
