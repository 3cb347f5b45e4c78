-------------------------- MODULE BlockUpdateProofs --------------------------
(***************************************************************************)
(* The inductive invariant of BlockUpdate, its proof, and the theorems.    *)
(*                                                                         *)
(* The invariant relates three accounts of the same stashes: the reference *)
(* counts of ReviseStashSize and WriteTransfers (Accounts), what is alive  *)
(* at each transfer (Peaks), and the slots of the device at each command   *)
(* of the list (Runnable, Fits).  First the steps of Compute that come     *)
(* before WriteTransfers, then WriteTransfers and the device: the transfer *)
(* list can be run there.                                                  *)
(***************************************************************************)
EXTENDS BlockUpdate, FiniteSetTheorems, FunctionTheorems, SequenceTheorems, TLAPS

(* Calls in which the sequence of transfers stands, and in which the       *)
(* transfers are revised.                                                  *)
Planned == {"revise", "write", "device", "done"}
Made    == {"write", "device", "done"}

Commands ==
  [op : {"stash", "free", "new", "zero", "move", "patch", "erase"}, id : Hashes \cup {<<>>},
   tgt : SUBSET Blocks, src : SUBSET Blocks, refs : SUBSET [range : SUBSET Blocks, id : Hashes]]

(* What the variables hold.                                                *)
Types ==
  /\ tgt \in TgtChoices /\ src \in [Transfers -> SUBSET Blocks] /\ zero \subseteq Transfers
  /\ limit \in Nat
  /\ phase \in Planned \cup {"sequence", "select"}
  /\ ignore \in BOOLEAN /\ again \in BOOLEAN
  /\ style \in [Transfers -> {"new", "zero", "diff", "move", "patch"}]
  /\ order \in [Transfers -> 0..(N - 1)]
  /\ stash \subseteq Transfers \X Transfers
  /\ i \in 0..N /\ pend \subseteq Transfers /\ replaced \subseteq Transfers
  /\ stashes \in [Hashes -> Nat]
  /\ stashed \in Nat /\ maxStashed \in Nat /\ measured \in Nat /\ revised \in Nat
  /\ touched \subseteq Blocks
  /\ cmds \in Seq(Commands)
  /\ slots \subseteq Hashes

(* The sequence and its stashes, also after conversions.                   *)
Ordered ==
  phase \in Planned =>
    /\ \A u, x \in Transfers : u # x => order[u] # order[x]
    /\ \A u, x \in Transfers : <<u, x>> \in stash <=> order[u] < order[x] /\ Overlap(u, x) # {}

(* What the style says of a transfer; ComputePatches leaves no "diff".     *)
Styled ==
  /\ \A u \in Transfers : /\ style[u] = "zero" => u \in zero
                          /\ style[u] = "new" => src[u] = {}
                          /\ phase \notin Made => style[u] \in {"new", "zero", "diff"}
                          /\ phase \in Made => style[u] # "diff"
                          /\ style[u] = "move" => Identical(u)
  /\ \A u \in zero : /\ \A b \in src[u] : srcImg[b] = Zero
                     /\ \A b \in tgt[u] : tgtImg[b] = Zero

(* The hash of the stash p.                                                *)
PairSha1(p) == StashSha1(p[1], p[2])

(* Stashes that a pass over the transfers has counted and not released.    *)
Counted ==
  {p \in stash : /\ i <= order[p[2]]
                 /\ order[p[1]] < i \/ (phase = "revise" /\ order[p[1]] = i /\ p[2] \notin pend \cup replaced)}
CountedAs(h) == {p \in Counted : PairSha1(p) = h}

Held == {h \in Hashes : stashes[h] > 0}

(* stashed_blocks is the size of the hashes with a positive count, and the *)
(* count of a hash is at least the number of its stashes: ReviseStashSize  *)
(* goes on counting those of converted transfers, WriteTransfers is exact. *)
Accounts ==
  /\ phase \in {"revise", "write"} =>
       /\ stashed = SizeOf(Held) /\ stashed <= maxStashed
       /\ \A h \in Hashes : Cardinality(CountedAs(h)) <= stashes[h]
  /\ phase = "write" => \A h \in Hashes : stashes[h] = Cardinality(CountedAs(h))
  /\ phase = "revise" =>
       /\ \A x \in pend \cup replaced : \E u \in Transfers : order[u] = i /\ <<u, x>> \in stash
       /\ pend \cap replaced = {}
       /\ i = N => replaced = {}

(* What WriteTransfers holds while it is at u.                             *)
Alive(u) == {h \in Hashes : \E p \in stash : /\ order[p[1]] <= order[u] /\ order[u] <= order[p[2]]
                                             /\ PairSha1(p) = h}
Copying(u) == style[u] \in {"diff", "move", "patch"} /\ src[u] \cap tgt[u] # {}
Needs(u, size) == /\ SizeOf(Alive(u)) <= size
                  /\ Copying(u) => SizeOf(Alive(u)) + Cardinality(src[u]) <= size

(* What a pass has seen bounds what is needed at each transfer behind it,  *)
(* also after later conversions; once revised it is within a limit # 0.    *)
Peaks ==
  /\ phase = "revise" => \A u \in Transfers : order[u] < i => Needs(u, maxStashed)
  /\ phase = "revise" /\ ~ignore /\ limit # 0 => maxStashed <= limit
  /\ phase \in Made => /\ \A u \in Transfers : Needs(u, revised)
                       /\ limit # 0 => revised <= limit
                       /\ maxStashed <= revised

Frees(cmd, h) == cmd.op = "free" /\ cmd.id = h
Stores(cmd, h) == cmd.op = "stash" /\ cmd.id = h
(* The slots when k commands of s have run.                                *)
HeldIn(s, start, k) ==
  {h \in Hashes : \/ h \in start /\ \A m \in 1..k : ~Frees(s[m], h)
                  \/ \E j \in 1..k : Stores(s[j], h) /\ \A m \in (j + 1)..k : ~Frees(s[m], h)}
HeldAt(k) == HeldIn(cmds, slots, k)

(* Nothing is written, or run, too early.                                  *)
Before ==
  /\ phase \notin {"device", "done"} => dev = srcImg /\ slots = {}
  /\ phase \notin Made => cmds = <<>> /\ touched = {}

(* Every command finds what it reads, frees and overwrites.                *)
ReadsOK(k) ==
  \A b \in cmds[k].src :
    /\ \A r \in cmds[k].refs : b \in r.range => r.id \in HeldAt(k - 1) /\ r.id = Sha1(srcImg, r.range)
    /\ (\A r \in cmds[k].refs : b \notin r.range) =>
         dev[b] = srcImg[b] /\ \A j \in 1..(k - 1) : b \notin cmds[j].tgt
Runnable ==
  \A k \in 1..Len(cmds) :
    /\ ReadsOK(k)
    /\ cmds[k].op = "stash" => cmds[k].id \in Hashes
    /\ cmds[k].op = "free" => cmds[k].id \in HeldAt(k - 1)

(* At each command the slots fit into what is announced, and the slots     *)
(* after the last command are the hashes that WriteTransfers counts.       *)
Fits ==
  phase \in Made =>
    /\ \A k \in 0..Len(cmds) : SizeOf(HeldAt(k)) <= maxStashed
    /\ \A k \in 1..Len(cmds) : cmds[k].src \cap cmds[k].tgt # {} =>
         SizeOf(HeldAt(k - 1)) + Cardinality(cmds[k].src) <= maxStashed
    /\ \A h \in Hashes : h \in HeldAt(Len(cmds)) <=> phase = "write" /\ stashes[h] > 0

(* Which blocks the commands write, and that every block of the target is  *)
(* on the device or still to be written.                                   *)
Written ==
  /\ phase = "write" =>
       \A k \in 1..Len(cmds) :
         /\ cmds[k].src \subseteq touched
         /\ \A b \in cmds[k].tgt : \E u \in Transfers : order[u] < i /\ b \in tgt[u]
  /\ \A k \in 1..Len(cmds) : \A b \in cmds[k].tgt :
         /\ b \in CareMap => cmds[k].op # "erase" /\ (cmds[k].op = "zero" => tgtImg[b] = Zero)
         /\ b \in Extended => cmds[k].op = "zero"
  /\ phase \in Made =>
       \A u \in Transfers : phase # "write" \/ order[u] < i =>
         \A b \in tgt[u] : dev[b] = tgtImg[b] \/ \E k \in 1..Len(cmds) : b \in cmds[k].tgt
  /\ phase \in {"device", "done"} =>
       \A b \in Extended : dev[b] = Zero \/ \E k \in 1..Len(cmds) : b \in cmds[k].tgt
  /\ phase = "done" => cmds = <<>>

(* No assertion has failed, and the device has refused no command, except  *)
(* for "max_stashed_size <= max_allowed" of WriteTransfers with a limit of *)
(* 0 blocks, which ReviseStashSize takes for no limit.                     *)
NoFault == fault # "none" => fault = "stash limit" /\ limit = 0

IInv == /\ Types /\ Ordered /\ Styled /\ Accounts /\ Peaks /\ Before
        /\ Runnable /\ Fits /\ Written /\ NoFault

-----------------------------------------------------------------------------
(* Ranges are finite sets of numbers.                                      *)
LEMMA Ranges ==
  ASSUME NEW r \in SUBSET Blocks
  PROVE  /\ IsFiniteSet(r) /\ Cardinality(r) \in Nat /\ r \subseteq Nat
         /\ \A b \in r : Place(r, b) \in 1..Cardinality(r)
<1>1. IsFiniteSet(r) /\ r \subseteq Nat
  BY BlocksAssumption, FS_Subset
<1>2. Cardinality(r) \in Nat
  BY <1>1, FS_CardinalityType
<1>3. ASSUME NEW b \in r PROVE Place(r, b) \in 1..Cardinality(r)
  <2> DEFINE T == {d \in r : d <= b}
  <2>1. T \in SUBSET r /\ b \in T
    BY <1>1
  <2>2. IsFiniteSet(T) /\ Cardinality(T) <= Cardinality(r)
    BY <1>1, <2>1, FS_Subset
  <2>3. Cardinality(T) \in Nat
    BY <2>2, FS_CardinalityType
  <2>4. Cardinality(T) # 0
    BY <2>1, <2>2, FS_EmptySet
  <2> QED  BY <1>2, <2>2, <2>3, <2>4 DEF Place
<1> QED  BY <1>1, <1>2, <1>3

(* The place tells the block.                                              *)
LEMMA Places ==
  ASSUME NEW r \in SUBSET Blocks, NEW b \in r
  PROVE  Nth(r, Place(r, b)) = b
<1> DEFINE T(d) == {e \in r : e <= d}
<1>1. IsFiniteSet(r) /\ r \subseteq Nat
  BY Ranges
<1>2. ASSUME NEW c \in r, NEW d \in r, c < d
      PROVE  Place(r, c) # Place(r, d)
  <2>1. T(c) \in SUBSET T(d) /\ d \in T(d) /\ d \notin T(c)
    <3>1. c \in Nat /\ d \in Nat
      BY <1>1
    <3>2. \A e \in r : e \in Nat /\ (e <= c => e <= d)
      BY <1>1, <1>2, <3>1
    <3>3. d <= d /\ ~(d <= c)
      BY <1>2, <3>1
    <3> QED  BY <3>2, <3>3
  <2>2. IsFiniteSet(T(d))
    BY <1>1, FS_Subset, T(d) \in SUBSET r
  <2>3. Cardinality(T(d)) # Cardinality(T(c))
    <3> HIDE DEF T
    <3> QED  BY <2>1, <2>2, FS_Subset
  <2> QED  BY <2>3 DEF Place
<1>3. \A c \in r : Place(r, c) = Place(r, b) => c = b
  <2> SUFFICES ASSUME NEW c \in r, c # b PROVE Place(r, c) # Place(r, b)
    OBVIOUS
  <2>1. c < b \/ b < c
    BY <1>1
  <2> QED  BY <1>2, <2>1
<1> QED  BY <1>3 DEF Nth

(* RangeSha1 has one content per block of the range, at the place of this  *)
(* block.                                                                  *)
LEMMA Sha1Type ==
  ASSUME NEW img, NEW r \in SUBSET Blocks
  PROVE  /\ DOMAIN Sha1(img, r) = 1..Cardinality(r)
         /\ Len(Sha1(img, r)) = Cardinality(r)
         /\ \A b \in r : Sha1(img, r)[Place(r, b)] = img[b]
         /\ r # {} => Sha1(img, r) # <<>>
<1>0. Cardinality(r) \in Nat /\ IsFiniteSet(r)
  BY Ranges
<1>1. DOMAIN Sha1(img, r) = 1..Cardinality(r)
  BY DEF Sha1
<1>2. Len(Sha1(img, r)) = Cardinality(r)
  <2>1. Sha1(img, r) \in Seq({img[Nth(r, k)] : k \in 1..Cardinality(r)})
    <3>1. Sha1(img, r) \in [1..Cardinality(r) -> {img[Nth(r, k)] : k \in 1..Cardinality(r)}]
      BY DEF Sha1
    <3> QED  BY <1>0, <3>1, SeqDef
  <2>2. DOMAIN Sha1(img, r) = 1..Len(Sha1(img, r)) /\ Len(Sha1(img, r)) \in Nat
    BY <2>1, LenProperties
  <2> QED  BY <1>0, <1>1, <2>2
<1>3. \A b \in r : Sha1(img, r)[Place(r, b)] = img[b]
  BY Ranges, Places DEF Sha1
<1>4. r # {} => Sha1(img, r) # <<>>
  <2> SUFFICES ASSUME r # {}, Sha1(img, r) = <<>> PROVE FALSE
    OBVIOUS
  <2>1. Cardinality(r) = 0
    BY <1>2
  <2> QED  BY <1>0, <2>1, FS_EmptySet
<1> QED  BY <1>1, <1>2, <1>3, <1>4

(* The hashes of stashes: there are finitely many.                         *)
LEMMA HashesType ==
  ASSUME Types
  PROVE  /\ IsFiniteSet(Hashes)
         /\ \A h \in Hashes : /\ Len(h) \in 1..Cardinality(Blocks) /\ DOMAIN h = 1..Len(h)
                              /\ Len(h) \in Nat /\ h # <<>>
<1>1. \A u \in Transfers : tgt[u] \in SUBSET Blocks
  BY RangesAssumption DEF Types
<1> DEFINE S == UNION {SUBSET tgt[u] : u \in Transfers}
           f == [r \in S |-> Sha1(srcImg, r)]
           T == {Sha1(srcImg, r) : r \in S}
<1>2. S \in SUBSET (SUBSET Blocks)
  BY <1>1
<1>3. IsFiniteSet(S)
  BY <1>2, BlocksAssumption, FS_SUBSET, FS_Subset
<1>4. f \in Surjection(S, T)
  BY Fun_IsSurj
<1>5. IsFiniteSet(T)
  <2> HIDE DEF f, S, T
  <2> QED  BY <1>3, <1>4, FS_Surjection
<1>6. IsFiniteSet(Hashes)
  <2>1. Hashes \in SUBSET T
    BY DEF Hashes
  <2> HIDE DEF T
  <2> QED  BY <1>5, <2>1, FS_Subset
<1>7. ASSUME NEW h \in Hashes
      PROVE  /\ Len(h) \in 1..Cardinality(Blocks) /\ DOMAIN h = 1..Len(h) /\ Len(h) \in Nat /\ h # <<>>
  <2>1. PICK r \in S : h = Sha1(srcImg, r) /\ h # <<>>
    BY DEF Hashes
  <2>2. r \in SUBSET Blocks
    <3> HIDE DEF S
    <3> QED  BY <1>2
  <2>3. Len(h) = Cardinality(r) /\ DOMAIN h = 1..Len(h)
    BY <2>1, <2>2, Sha1Type
  <2>4. Cardinality(r) \in Nat /\ IsFiniteSet(r) /\ Cardinality(r) <= Cardinality(Blocks)
    BY <2>2, Ranges, BlocksAssumption, FS_Subset
  <2>5. Cardinality(Blocks) \in Nat
    BY BlocksAssumption, FS_CardinalityType
  <2>6. Cardinality(r) # 0
    <3> SUFFICES ASSUME Cardinality(r) = 0 PROVE FALSE
      OBVIOUS
    <3>1. DOMAIN h = {}
      BY <2>3
    <3>2. h = [k \in {} |-> srcImg[Nth(r, k)]]
      BY <2>1, <3>1, 1..0 = {} DEF Sha1
    <3>3. h = <<>>
      BY <3>2
    <3> QED  BY <2>1, <3>3
  <2> QED  BY <2>1, <2>3, <2>4, <2>5, <2>6
<1> QED  BY <1>6, <1>7

(* The stashes with given hashes hold finitely many blocks.                *)
LEMMA SizeType ==
  ASSUME Types, NEW A \in SUBSET Hashes
  PROVE  IsFiniteSet(UNION {{h} \X DOMAIN h : h \in A}) /\ SizeOf(A) \in Nat
<1>1. Cardinality(Blocks) \in Nat
  BY BlocksAssumption, FS_CardinalityType
<1>2. IsFiniteSet(Hashes \X (1..Cardinality(Blocks)))
  <2>1. IsFiniteSet(Hashes)
    BY HashesType
  <2>2. IsFiniteSet(1..Cardinality(Blocks))
    BY <1>1, FS_Interval
  <2> QED  BY <2>1, <2>2, FS_Product
<1>3. UNION {{h} \X DOMAIN h : h \in A} \in SUBSET (Hashes \X (1..Cardinality(Blocks)))
  <2>1. \A h \in A : DOMAIN h \subseteq 1..Cardinality(Blocks)
    <3> SUFFICES ASSUME NEW h \in A PROVE DOMAIN h \subseteq 1..Cardinality(Blocks)
      OBVIOUS
    <3>1. Len(h) \in 1..Cardinality(Blocks) /\ DOMAIN h = 1..Len(h)
      BY HashesType
    <3> QED  BY <1>1, <3>1
  <2> QED  BY <2>1
<1>4. IsFiniteSet(UNION {{h} \X DOMAIN h : h \in A})
  BY <1>2, <1>3, FS_Subset
<1> QED  BY <1>4, FS_CardinalityType DEF SizeOf

(* More stashes hold no fewer blocks.                                      *)
LEMMA SizeMono ==
  ASSUME Types, NEW B \in SUBSET Hashes, NEW A \in SUBSET B
  PROVE  SizeOf(A) <= SizeOf(B)
<1>1. UNION {{h} \X DOMAIN h : h \in A} \in SUBSET UNION {{h} \X DOMAIN h : h \in B}
  OBVIOUS
<1> QED  BY <1>1, SizeType, FS_Subset DEF SizeOf

(* The blocks that two disjoint sets of stashes hold together, as          *)
(* stashed_blocks adds them up.                                            *)
LEMMA SizeSum ==
  ASSUME Types, NEW A \in SUBSET Hashes, NEW B \in SUBSET Hashes, A \cap B = {}
  PROVE  SizeOf(A \cup B) = SizeOf(A) + SizeOf(B)
<1> DEFINE L(C) == UNION {{h} \X DOMAIN h : h \in C}
<1>1. L(A \cup B) = L(A) \cup L(B) /\ L(A) \cap L(B) = {}
  OBVIOUS
<1>2. IsFiniteSet(L(A)) /\ IsFiniteSet(L(B)) /\ SizeOf(A) \in Nat /\ SizeOf(B) \in Nat
  BY SizeType
<1>3. SizeOf(A) = Cardinality(L(A)) /\ SizeOf(B) = Cardinality(L(B)) /\ SizeOf(A \cup B) = Cardinality(L(A \cup B))
  BY DEF SizeOf
<1> HIDE DEF L
<1>4. Cardinality(L(A) \cup L(B)) = Cardinality(L(A)) + Cardinality(L(B)) - Cardinality({})
  BY <1>1, <1>2, FS_Union
<1>5. Cardinality({}) = 0
  BY FS_EmptySet
<1>6. SizeOf(A \cup B) = SizeOf(A) + SizeOf(B) - 0
  BY <1>1, <1>3, <1>4, <1>5
<1> QED  BY <1>2, <1>6

(* One stash holds as many blocks as its range has.                        *)
LEMMA SizeOne ==
  ASSUME Types, NEW h \in Hashes
  PROVE  SizeOf({h}) = Len(h)
<1>1. DOMAIN h = 1..Len(h) /\ Len(h) \in Nat
  BY HashesType
<1>2. UNION {{g} \X DOMAIN g : g \in {h}} = {h} \X (1..Len(h))
  BY <1>1
<1>3. /\ IsFiniteSet({h}) /\ Cardinality({h}) = 1 /\ IsFiniteSet(1..Len(h))
      /\ Cardinality(1..Len(h)) = IF 1 > Len(h) THEN 0 ELSE Len(h) - 1 + 1
  <2>1. IsFiniteSet({h}) /\ Cardinality({h}) = 1
    BY FS_Singleton
  <2>2. 1 \in Int /\ Len(h) \in Int
    BY <1>1
  <2>3. /\ IsFiniteSet(1..Len(h))
        /\ Cardinality(1..Len(h)) = IF 1 > Len(h) THEN 0 ELSE Len(h) - 1 + 1
    BY <2>2, FS_Interval
  <2> QED  BY <2>1, <2>3
<1>4. Cardinality({h} \X (1..Len(h))) = 1 * Cardinality(1..Len(h))
  BY <1>3, FS_Product
<1>5. SizeOf({h}) = 1 * Cardinality(1..Len(h))
  BY <1>2, <1>4 DEF SizeOf
<1> QED  BY <1>1, <1>3, <1>5

(* No stashes hold no blocks: stashed_blocks starts with 0.                *)
LEMMA SizeEmpty == SizeOf({}) = 0
<1>1. UNION {{h} \X DOMAIN h : h \in {}} = {}
  OBVIOUS
<1> QED  BY <1>1, FS_EmptySet DEF SizeOf

(* "if stashed_blocks > max_stashed_blocks" keeps the larger one.          *)
LEMMA MaxTwo ==
  ASSUME NEW a \in Nat, NEW b \in Nat
  PROVE  Max({a, b}) \in Nat /\ Max({a, b}) \in {a, b} /\ Max({a, b}) >= a /\ Max({a, b}) >= b
<1>1. \E x \in {a, b} : \A y \in {a, b} : x >= y
  <2>1. CASE a >= b
    BY <2>1
  <2>2. CASE ~(a >= b)
    BY <2>2
  <2> QED  BY <2>1, <2>2
<1>2. Max({a, b}) \in {a, b} /\ \A y \in {a, b} : Max({a, b}) >= y
  BY <1>1 DEF Max
<1> QED  BY <1>2

(* The same where WriteTransfers compares twice for one transfer.          *)
LEMMA MaxThree ==
  ASSUME NEW a \in Nat, NEW b \in Nat, NEW c \in Nat
  PROVE  /\ Max({a, b, c}) \in Nat /\ Max({a, b, c}) \in {a, b, c}
         /\ Max({a, b, c}) >= a /\ Max({a, b, c}) >= b /\ Max({a, b, c}) >= c
<1>1. \E x \in {a, b, c} : \A y \in {a, b, c} : x >= y
  <2>1. CASE a >= b /\ a >= c
    BY <2>1
  <2>2. CASE b >= a /\ b >= c
    BY <2>2
  <2>3. CASE c >= a /\ c >= b
    BY <2>3
  <2> QED  BY <2>1, <2>2, <2>3
<1>2. Max({a, b, c}) \in {a, b, c} /\ \A y \in {a, b, c} : Max({a, b, c}) >= y
  BY <1>1 DEF Max
<1> QED  BY <1>2

(* SetToSeq lists each element once.                                       *)
LEMMA ListedType ==
  ASSUME NEW S, IsFiniteSet(S)
  PROVE  /\ Cardinality(S) \in Nat
         /\ Listed(S) \in Seq(S) /\ Len(Listed(S)) = Cardinality(S)
         /\ \A k, m \in 1..Len(Listed(S)) : Listed(S)[k] = Listed(S)[m] => k = m
         /\ \A x \in S : \E k \in 1..Len(Listed(S)) : Listed(S)[k] = x
<1>1. Cardinality(S) \in Nat /\ ExistsBijection(1..Cardinality(S), S)
  BY FS_CardinalityType
<1>2. \E f \in [1..Cardinality(S) -> S] : IsInjective(f)
  <2>1. PICK f : f \in Bijection(1..Cardinality(S), S)
    BY <1>1, Fun_ExistsBij
  <2> QED  BY <2>1 DEF Bijection, Injection
<1>3. Listed(S) \in [1..Cardinality(S) -> S] /\ IsInjective(Listed(S))
  BY <1>2 DEF Listed, SetToSeq
<1>4. Listed(S) \in Injection(1..Cardinality(S), S)
  BY <1>3 DEF Injection
<1>5. Cardinality(1..Cardinality(S)) = Cardinality(S)
  <2>1. Cardinality(1..Cardinality(S)) = IF 1 > Cardinality(S) THEN 0 ELSE Cardinality(S) - 1 + 1
    BY <1>1, FS_Interval
  <2> QED  BY <1>1, <2>1
<1>6. Listed(S) \in Surjection(1..Cardinality(S), S)
  BY <1>4, <1>5, FS_Injection
<1>7. Listed(S) \in Seq(S)
  BY <1>1, <1>3, SeqDef
<1>8. Len(Listed(S)) = Cardinality(S)
  BY <1>1, <1>3, <1>7, LenProperties
<1> QED  BY <1>1, <1>3, <1>6, <1>7, <1>8 DEF IsInjective, Surjection

-----------------------------------------------------------------------------
-----------------------------------------------------------------------------
(* Transfers, positions, stashes.                                          *)

(* Sets of transfers and of stashes can be counted.                        *)
LEMMA Counting ==
  /\ N \in Nat /\ IsFiniteSet(Transfers \X Transfers)
  /\ \A S \in SUBSET Transfers : IsFiniteSet(S) /\ Cardinality(S) \in Nat
  /\ \A S \in SUBSET (Transfers \X Transfers) : IsFiniteSet(S) /\ Cardinality(S) \in Nat
<1>1. N \in Nat
  BY BlocksAssumption, FS_CardinalityType DEF N
<1>2. IsFiniteSet(Transfers \X Transfers)
  BY BlocksAssumption, FS_Product
<1>3. \A S \in SUBSET Transfers : IsFiniteSet(S)
  BY BlocksAssumption, FS_Subset
<1>4. \A S \in SUBSET (Transfers \X Transfers) : IsFiniteSet(S)
  BY <1>2, FS_Subset
<1> QED  BY <1>1, <1>2, <1>3, <1>4, FS_CardinalityType

(* Every position is taken, by one transfer.                               *)
LEMMA Position ==
  ASSUME Types, Ordered, phase \in Planned, NEW k \in 0..(N - 1)
  PROVE  /\ \E u \in Transfers : order[u] = k
         /\ (CHOOSE u \in Transfers : order[u] = k) \in Transfers
         /\ order[CHOOSE u \in Transfers : order[u] = k] = k
         /\ \A u \in Transfers : order[u] = k <=> u = (CHOOSE v \in Transfers : order[v] = k)
<1>0. N \in Nat /\ order \in [Transfers -> 0..(N - 1)]
  BY Counting DEF Types
<1>1. order \in Injection(Transfers, 0..(N - 1))
  BY <1>0, Fun_IsInj DEF Ordered
<1>2. IsFiniteSet(0..(N - 1)) /\ Cardinality(0..(N - 1)) = N
  <2>1. 0 \in Int /\ N - 1 \in Int
    BY <1>0
  <2>2. /\ IsFiniteSet(0..(N - 1))
        /\ Cardinality(0..(N - 1)) = IF 0 > N - 1 THEN 0 ELSE N - 1 - 0 + 1
    BY <2>1, FS_Interval
  <2> QED  BY <1>0, <2>2
<1>3. order \in Surjection(Transfers, 0..(N - 1))
  BY <1>1, <1>2, FS_Injection DEF N
<1>4. \E u \in Transfers : order[u] = k
  BY <1>3 DEF Surjection
<1>5. \A u, x \in Transfers : order[u] = order[x] => u = x
  BY DEF Ordered
<1> QED  BY <1>4, <1>5

(* While a loop over self.transfers is not through, exactly one transfer   *)
(* is at position i.                                                       *)
LEMMA XfType ==
  ASSUME Types, Ordered, phase \in Planned, i < N
  PROVE  Xf \in Transfers /\ order[Xf] = i /\ \A u \in Transfers : order[u] = i <=> u = Xf
<1>1. i \in 0..(N - 1)
  BY Counting DEF Types
<1> QED  BY <1>1, Position DEF Xf

(* A stash is a range of blocks, and its hash is one of Hashes unless it   *)
(* is empty.                                                               *)
LEMMA OverlapType ==
  ASSUME Types, NEW u \in Transfers, NEW x \in Transfers
  PROVE  /\ tgt[u] \in SUBSET Blocks /\ src[x] \in SUBSET Blocks /\ Overlap(u, x) \in SUBSET Blocks
         /\ Cardinality(src[x]) \in Nat
         /\ Overlap(u, x) # {} => StashSha1(u, x) \in Hashes
         /\ Len(StashSha1(u, x)) = Cardinality(Overlap(u, x))
<1>1. tgt[u] \in SUBSET Blocks /\ src[x] \in SUBSET Blocks
  BY RangesAssumption DEF Types
<1>2. Overlap(u, x) \in SUBSET Blocks /\ Overlap(u, x) \in SUBSET tgt[u]
  BY <1>1 DEF Overlap
<1>3. Overlap(u, x) # {} => StashSha1(u, x) # <<>>
  BY <1>2, Sha1Type DEF StashSha1
<1>4. Overlap(u, x) # {} => StashSha1(u, x) \in Hashes
  BY <1>2, <1>3 DEF Hashes, StashSha1
<1>5. Len(StashSha1(u, x)) = Cardinality(Overlap(u, x))
  BY <1>2, Sha1Type DEF StashSha1
<1> QED  BY <1>1, <1>2, <1>4, <1>5, Ranges

(* The transfer that defines a stash is before the one that uses it.       *)
LEMMA PairType ==
  ASSUME Types, Ordered, phase \in Planned, NEW p \in stash
  PROVE  /\ p[1] \in Transfers /\ p[2] \in Transfers /\ p = <<p[1], p[2]>>
         /\ order[p[1]] \in Nat /\ order[p[2]] \in Nat /\ order[p[1]] < order[p[2]]
         /\ order[p[2]] < N /\ PairSha1(p) \in Hashes
<1>1. p[1] \in Transfers /\ p[2] \in Transfers /\ p = <<p[1], p[2]>>
  BY DEF Types
<1>2. order[p[1]] < order[p[2]] /\ Overlap(p[1], p[2]) # {}
  BY <1>1 DEF Ordered
<1>3. order[p[1]] \in 0..(N - 1) /\ order[p[2]] \in 0..(N - 1) /\ N \in Nat
  BY <1>1, Counting DEF Types
<1> QED  BY <1>1, <1>2, <1>3, OverlapType DEF PairSha1

(* The images do not change, nor do the hashes.                            *)
LEMMA SameImage ==
  ASSUME UNCHANGED image
  PROVE  /\ Hashes' = Hashes /\ UNCHANGED <<tgt, zero, srcImg, tgtImg, limit>>
         /\ N' = N /\ CareMap' = CareMap
  BY DEF image, Hashes, N, CareMap

(* Cardinality of the stashes that one transfer uses, or defines.          *)
LEMMA UsesCount ==
  ASSUME NEW S \in SUBSET Transfers, NEW u \in Transfers
  PROVE  /\ S \X {u} \in SUBSET (Transfers \X Transfers) /\ Cardinality(S \X {u}) = Cardinality(S)
         /\ {u} \X S \in SUBSET (Transfers \X Transfers) /\ Cardinality({u} \X S) = Cardinality(S)
<1>1. IsFiniteSet(S) /\ Cardinality(S) \in Nat
  BY Counting
<1>2. IsFiniteSet({u}) /\ Cardinality({u}) = 1
  BY FS_Singleton
<1>3. Cardinality(S \X {u}) = Cardinality(S) * 1
  BY <1>1, <1>2, FS_Product
<1>4. Cardinality({u} \X S) = 1 * Cardinality(S)
  BY <1>1, <1>2, FS_Product
<1> QED  BY <1>1, <1>3, <1>4

(* Reference counts of two disjoint sets of stashes add up.                *)
LEMMA PairsSum ==
  ASSUME NEW A \in SUBSET (Transfers \X Transfers), NEW B \in SUBSET (Transfers \X Transfers), A \cap B = {}
  PROVE  Cardinality(A \cup B) = Cardinality(A) + Cardinality(B)
<1>1. IsFiniteSet(A) /\ IsFiniteSet(B) /\ Cardinality(A) \in Nat /\ Cardinality(B) \in Nat
  BY Counting
<1>2. Cardinality(A \cup B) = Cardinality(A) + Cardinality(B) - Cardinality(A \cap B)
  BY <1>1, FS_Union
<1>3. Cardinality(A \cap B) = 0
  BY FS_EmptySet
<1>4. Cardinality(A \cup B) = Cardinality(A) + Cardinality(B) - 0
  BY <1>2, <1>3
<1> QED  BY <1>1, <1>4

(* More stashes have no lower reference count.                             *)
LEMMA PairsMono ==
  ASSUME NEW B \in SUBSET (Transfers \X Transfers), NEW A \in SUBSET B
  PROVE  Cardinality(A) <= Cardinality(B)
  BY Counting, FS_Subset

(* A reference count is 0 only where no stash is left.                     *)
LEMMA PairsPositive ==
  ASSUME NEW A \in SUBSET (Transfers \X Transfers)
  PROVE  Cardinality(A) \in Nat /\ (A # {} <=> Cardinality(A) > 0)
<1>1. IsFiniteSet(A) /\ Cardinality(A) \in Nat
  BY Counting
<1>2. Cardinality(A) = 0 <=> A = {}
  BY <1>1, FS_EmptySet
<1> QED  BY <1>1, <1>2

-----------------------------------------------------------------------------
(* Sequences of commands.                                                  *)

(* No command of a plan that is not made yet.                              *)
LEMMA NothingMade ==
  ASSUME phase' \notin Made, cmds' = <<>>
  PROVE  Runnable' /\ Fits' /\ Written'
<1>1. Len(cmds)' = 0 /\ \A k \in 1..Len(cmds)' : FALSE
  BY EmptySeq
<1>2. Runnable'
  BY <1>1 DEF Runnable
<1>3. Fits'
  BY DEF Fits
<1>4. Written'
  BY <1>1 DEF Written, Made
<1> QED  BY <1>2, <1>3, <1>4

(* The accounts of a pass that begins.                                     *)
LEMMA FreshPass ==
  ASSUME Types', Ordered', phase' = "revise", i' = 0, replaced' = {}, stashed' = 0, maxStashed' = 0,
         stashes' = [h \in Hashes' |-> 0],
         pend' = {x \in Transfers : \E u \in Transfers : order'[u] = 0 /\ <<u, x>> \in stash'}
  PROVE  Accounts' /\ Peaks'
<1>0. /\ N \in Nat /\ N' = N /\ order' \in [Transfers -> 0..(N - 1)] /\ stash' \subseteq Transfers \X Transfers
      /\ limit' \in Nat
  BY Counting DEF Types, N
<1>1. Counted' = {}
  <2> SUFFICES ASSUME NEW p \in Counted' PROVE FALSE
    OBVIOUS
  <2>0. /\ p \in stash'
        /\ order'[p[1]] < i' \/ (order'[p[1]] = i' /\ p[2] \notin pend' \cup replaced')
    BY DEF Counted
  <2>1. /\ p \in stash' /\ p[1] \in Transfers /\ p[2] \in Transfers /\ p = <<p[1], p[2]>>
        /\ order'[p[1]] < 0 \/ (order'[p[1]] = 0 /\ p[2] \notin pend')
    <3>1. p[1] \in Transfers /\ p[2] \in Transfers /\ p = <<p[1], p[2]>>
      BY <1>0, <2>0
    <3>2. pend' \cup replaced' = pend'
      OBVIOUS
    <3> QED  BY <2>0, <3>1, <3>2
  <2>2. order'[p[1]] \in 0..(N - 1)
    BY <1>0, <2>1
  <2>3. order'[p[1]] = 0 /\ p[2] \notin pend'
    <3>1. order'[p[1]] \in Nat
      BY <1>0, <2>2
    <3> QED  BY <2>1, <3>1
  <2>4. p[2] \in pend'
    BY <2>1, <2>3
  <2> QED  BY <2>3, <2>4
<1>2. \A h \in Hashes' : Cardinality(CountedAs(h))' = 0
  <2>1. \A h \in Hashes' : CountedAs(h)' = {}
    BY <1>1 DEF CountedAs
  <2> QED  BY <2>1, FS_EmptySet
<1>3. Held' = {}
  BY DEF Held
<1>4. Accounts'
  <2>1. SizeOf(Held)' = 0
    BY <1>3, SizeEmpty
  <2>2. \A h \in Hashes' : stashes'[h] = 0 /\ Cardinality(CountedAs(h))' <= stashes'[h]
    BY <1>2
  <2>3. \A x \in pend' \cup replaced' : \E u \in Transfers : order'[u] = i' /\ <<u, x>> \in stash'
    OBVIOUS
  <2>4. stashed' = SizeOf(Held)' /\ stashed' <= maxStashed' /\ pend' \cap replaced' = {}
    BY <2>1
  <2> QED  BY <2>2, <2>3, <2>4 DEF Accounts
<1>5. Peaks'
  <2>1. \A u \in Transfers : ~(order'[u] < 0)
    BY <1>0
  <2>2. 0 <= limit'
    BY <1>0
  <2> QED  BY <2>1, <2>2 DEF Peaks, Made
<1> QED  BY <1>4, <1>5

-----------------------------------------------------------------------------
-----------------------------------------------------------------------------
(* The initial state, and the steps that make no command.                  *)

(* What FindTransfers has made satisfies the invariant.                    *)
LEMMA InitIInv ==
  ASSUME Init
  PROVE  IInv
<1>0. N \in Nat /\ (Transfers # {} => 0 \in 0..(N - 1))
  <2>1. Transfers # {} => N # 0
    BY BlocksAssumption, FS_EmptySet DEF N
  <2> QED  BY <2>1, Counting
<1>1. Types
  <2>1. order \in [Transfers -> 0..(N - 1)]
    BY <1>0 DEF Init
  <2>2. cmds \in Seq(Commands)
    BY EmptySeq DEF Init
  <2>3. style \in [Transfers -> {"new", "zero", "diff", "move", "patch"}]
    BY DEF Init
  <2>4. stashes \in [Hashes -> Nat]
    BY DEF Init, NoStash
  <2>5. tgt \in TgtChoices /\ src \in [Transfers -> SUBSET Blocks] /\ zero \subseteq Transfers /\ limit \in Nat
    BY RangesAssumption, LimitsAssumption DEF Init
  <2>6. /\ phase \in Planned \cup {"sequence", "select"} /\ ignore \in BOOLEAN /\ again \in BOOLEAN
        /\ stash \subseteq Transfers \X Transfers
    BY DEF Init
  <2>8. i \in 0..N
    BY <1>0 DEF Init
  <2>7. /\ pend \subseteq Transfers /\ replaced \subseteq Transfers /\ touched \subseteq Blocks /\ slots \subseteq Hashes
        /\ stashed \in Nat /\ maxStashed \in Nat /\ measured \in Nat /\ revised \in Nat
    BY DEF Init
  <2> QED  BY <2>1, <2>2, <2>3, <2>4, <2>5, <2>6, <2>7, <2>8 DEF Types
<1>2. Ordered /\ Accounts /\ Peaks /\ Fits
  BY DEF Init, Ordered, Accounts, Peaks, Fits, Planned, Made
<1>3. Styled
  <2>1. \A u \in Transfers : /\ style[u] = "zero" => u \in zero
                             /\ style[u] = "new" => src[u] = {}
                             /\ style[u] \in {"new", "zero", "diff"}
    BY DEF Init
  <2>2. phase \notin Made
    BY DEF Init, Made
  <2>3. \A u \in zero : (\A b \in src[u] : srcImg[b] = Zero) /\ (\A b \in tgt[u] : tgtImg[b] = Zero)
    BY DEF Init
  <2> QED  BY <2>1, <2>2, <2>3 DEF Styled
<1>4. Before /\ NoFault
  BY DEF Init, Before, NoFault, Made
<1>5. Runnable /\ Written
  <2>1. cmds = <<>> /\ phase = "sequence" /\ Len(cmds) = 0
    BY EmptySeq DEF Init
  <2>2. \A k \in 1..Len(cmds) : FALSE
    BY <2>1
  <2> QED  BY <2>1, <2>2 DEF Runnable, Written, Made
<1> QED  BY <1>1, <1>2, <1>3, <1>4, <1>5 DEF IInv

(* Before WriteTransfers there is no command, and the device has the       *)
(* source image.                                                           *)
LEMMA StillPlanning ==
  ASSUME IInv, phase \notin Made, phase' \notin Made, UNCHANGED image, UNCHANGED list, UNCHANGED phone
  PROVE  Before' /\ Runnable' /\ Fits' /\ Written' /\ cmds' \in Seq(Commands') /\ slots' \subseteq Hashes' /\ touched' \subseteq Blocks
<1>1. /\ cmds = <<>> /\ touched = {} /\ dev = srcImg /\ slots = {}
      /\ cmds' = <<>> /\ touched' = {} /\ dev' = srcImg' /\ slots' = {}
  BY DEF IInv, Before, Made, list, phone, image
<1>2. Before'
  BY <1>1 DEF Before
<1>3. Runnable' /\ Fits' /\ Written'
  BY <1>1, NothingMade
<1>4. cmds' \in Seq(Commands')
  BY <1>1, EmptySeq
<1> QED  BY <1>1, <1>2, <1>3, <1>4

(* FindSequenceForTransfers orders the transfers and stashes what is       *)
(* overwritten too early.                                                  *)
LEMMA FindSequenceStep ==
  ASSUME IInv, fault = "none", FindSequenceForTransfers
  PROVE  IInv'
<1>0. /\ UNCHANGED image /\ UNCHANGED list /\ UNCHANGED phone /\ phase = "sequence" /\ phase' = "revise"
      /\ phase \notin Made /\ phase' \notin Made
      /\ src' = src /\ style' = style /\ again' = again /\ measured' = measured /\ revised' = revised
      /\ fault' = "none" /\ ignore' = Measures
  BY DEF FindSequenceForTransfers, Made, past
<1>1. /\ Hashes' = Hashes /\ N' = N /\ UNCHANGED <<tgt, zero, srcImg, tgtImg, limit>> /\ N \in Nat
  BY <1>0, SameImage, Counting
<1>2. PICK o \in Sequencing!Orders :
        /\ order' = o /\ stash' = Sequencing!StashFor(o)
        /\ i' = 0 /\ replaced' = {} /\ stashes' = NoStash /\ stashed' = 0 /\ maxStashed' = 0
        /\ pend' = {x \in Transfers : \E u \in Transfers : o[u] = 0 /\ <<u, x>> \in stash'}
  BY DEF FindSequenceForTransfers, BeginPass
<1>3. /\ o \in [Transfers -> 0..(N - 1)] /\ \A u, x \in Transfers : u # x => o[u] # o[x]
      /\ stash' = {p \in Transfers \X Transfers : o[p[1]] < o[p[2]] /\ Overlap(p[1], p[2]) # {}}
  <2>1. o \in [Transfers -> 0..(N - 1)] /\ \A u, x \in Transfers : u # x => o[u] # o[x]
    <3>1. Sequencing!N = N
      BY DEF N, Sequencing!N, Sequencing!Cardinality, Cardinality
    <3>2. o \in {q \in [Transfers -> 0..(N - 1)] : \A u, x \in Transfers : u # x => q[u] # q[x]}
      BY <1>2, <3>1 DEF Sequencing!Orders
    <3> QED  BY <3>2
  <2>2. \A u, x : Sequencing!Overlap(u, x) = Overlap(u, x)
    BY DEF Sequencing!Overlap, Overlap
  <2>3. Sequencing!StashFor(o) = {p \in Transfers \X Transfers : o[p[1]] < o[p[2]] /\ Sequencing!Overlap(p[1], p[2]) # {}}
    BY DEF Sequencing!StashFor
  <2> QED  BY <1>2, <2>1, <2>2, <2>3
<1>4. Before' /\ Runnable' /\ Fits' /\ Written' /\ cmds' \in Seq(Commands') /\ slots' \subseteq Hashes' /\ touched' \subseteq Blocks
  BY <1>0, StillPlanning
<1>5. Types'
  <2>1. order' \in [Transfers -> 0..(N' - 1)] /\ stash' \subseteq Transfers \X Transfers /\ i' \in 0..N'
    BY <1>1, <1>2, <1>3
  <2>2. stashes' \in [Hashes' -> Nat] /\ stashed' \in Nat /\ maxStashed' \in Nat /\ pend' \subseteq Transfers /\ replaced' \subseteq Transfers
    BY <1>1, <1>2 DEF NoStash
  <2>3. ignore' \in BOOLEAN /\ again' \in BOOLEAN
    BY <1>0 DEF Measures, IInv, Types
  <2>4. phase' \in Planned \cup {"sequence", "select"}
    BY <1>0 DEF Planned
  <2> QED  BY <1>0, <1>1, <1>4, <2>1, <2>2, <2>3, <2>4 DEF IInv, Types
<1>6. Ordered'
  <2>1. \A u, x \in Transfers : Overlap(u, x)' = Overlap(u, x)
    BY <1>0, <1>1 DEF Overlap
  <2>2. \A u, x \in Transfers : <<u, x>> \in stash' <=> order'[u] < order'[x] /\ Overlap(u, x)' # {}
    BY <1>2, <1>3, <2>1
  <2> QED  BY <1>2, <1>3, <2>2 DEF Ordered
<1>7. Styled'
  BY <1>0, <1>1 DEF IInv, Styled, Identical
<1>8. Accounts' /\ Peaks'
  <2>1. stashes' = [h \in Hashes' |-> 0]
    BY <1>1, <1>2 DEF NoStash
  <2> QED  BY <1>0, <1>2, <1>5, <1>6, <2>1, FreshPass
<1>9. NoFault'
  BY <1>0 DEF NoFault
<1> QED  BY <1>4, <1>5, <1>6, <1>7, <1>8, <1>9 DEF IInv

(* The end of the first run of ReviseStashSize preserves the invariant.    *)
LEMMA MeasureDoneStep ==
  ASSUME IInv, fault = "none", MeasureDone
  PROVE  IInv'
<1>0. /\ UNCHANGED image /\ UNCHANGED list /\ UNCHANGED phone /\ phase = "revise" /\ phase' \in {"select", "revise"}
      /\ phase \notin Made /\ phase' \notin Made /\ phase \in Planned
      /\ src' = src /\ style' = style /\ order' = order /\ stash' = stash /\ again' = again
      /\ measured' = maxStashed /\ revised' = revised /\ fault' = "none"
  BY DEF MeasureDone, Made, Planned, plan
<1>1. /\ Hashes' = Hashes /\ N' = N /\ UNCHANGED <<tgt, zero, srcImg, tgtImg, limit>> /\ N \in Nat
  BY <1>0, SameImage, Counting
<1>2. \/ phase' = "select" /\ UNCHANGED <<ignore, i, pend, replaced, stashes, stashed, maxStashed>>
      \/ /\ phase' = "revise" /\ ignore' = FALSE /\ i' = 0 /\ replaced' = {} /\ stashes' = NoStash
         /\ stashed' = 0 /\ maxStashed' = 0
         /\ pend' = {x \in Transfers : \E u \in Transfers : order[u] = 0 /\ <<u, x>> \in stash}
  BY DEF MeasureDone, BeginPass, pass, usage
<1>4. Before' /\ Runnable' /\ Fits' /\ Written' /\ cmds' \in Seq(Commands') /\ slots' \subseteq Hashes' /\ touched' \subseteq Blocks
  BY <1>0, StillPlanning
<1>5. Types'
  <2>1. /\ i' \in 0..N' /\ stashes' \in [Hashes' -> Nat] /\ stashed' \in Nat /\ maxStashed' \in Nat
        /\ pend' \subseteq Transfers /\ replaced' \subseteq Transfers /\ ignore' \in BOOLEAN
    <3>1. CASE phase' = "select"
      BY <1>1, <1>2, <3>1 DEF IInv, Types
    <3>2. CASE phase' = "revise"
      <4>1. /\ ignore' = FALSE /\ i' = 0 /\ replaced' = {} /\ stashes' = NoStash
            /\ stashed' = 0 /\ maxStashed' = 0 /\ pend' \subseteq Transfers
        BY <1>2, <3>2
      <4>2. stashes' \in [Hashes' -> Nat]
        BY <1>1, <4>1 DEF NoStash
      <4>3. ignore' \in BOOLEAN /\ replaced' \subseteq Transfers
        BY <4>1, Zenon
      <4>4. i' \in 0..N' /\ stashed' \in Nat /\ maxStashed' \in Nat
        BY <1>1, <4>1
      <4> QED  BY <4>1, <4>2, <4>3, <4>4
    <3> QED  BY <1>0, <3>1, <3>2
  <2>2. phase' \in Planned \cup {"sequence", "select"}
    BY <1>0 DEF Planned
  <2> QED  BY <1>0, <1>1, <1>4, <2>1, <2>2 DEF IInv, Types
<1>6. Ordered'
  <2>1. \A u, x \in Transfers : Overlap(u, x)' = Overlap(u, x)
    BY <1>0, <1>1 DEF Overlap
  <2> QED  BY <1>0, <2>1 DEF IInv, Ordered
<1>7. Styled'
  BY <1>0, <1>1 DEF IInv, Styled, Identical
<1>8. Accounts' /\ Peaks'
  <2>1. CASE phase' = "select"
    BY <2>1 DEF Accounts, Peaks, Made
  <2>2. CASE phase' = "revise"
    <3>1. stashes' = [h \in Hashes' |-> 0]
      BY <1>1, <1>2, <2>2 DEF NoStash
    <3>2. pend' = {x \in Transfers : \E u \in Transfers : order'[u] = 0 /\ <<u, x>> \in stash'}
      BY <1>0, <1>2, <2>2
    <3>3. i' = 0 /\ replaced' = {} /\ stashed' = 0 /\ maxStashed' = 0
      BY <1>2, <2>2
    <3> QED  BY <1>5, <1>6, <2>2, <3>1, <3>2, <3>3, FreshPass
  <2> QED  BY <1>0, <2>1, <2>2
<1>9. NoFault'
  BY <1>0 DEF NoFault
<1> QED  BY <1>4, <1>5, <1>6, <1>7, <1>8, <1>9 DEF IInv

(* SelectAndConvertDiffTransfersToNew preserves the invariant.             *)
LEMMA SelectStep ==
  ASSUME IInv, fault = "none", NEW cheap \in SUBSET Transfers, NEW chosen \in SUBSET Transfers,
         SelectAndConvert(cheap, chosen)
  PROVE  IInv'
<1>0. /\ UNCHANGED image /\ UNCHANGED list /\ UNCHANGED phone /\ phase = "select" /\ phase' = "sequence"
      /\ phase \notin Made /\ phase' \notin Made /\ phase' \notin Planned
      /\ order' = order /\ stash' = stash /\ again' = TRUE
      /\ UNCHANGED <<ignore, i, pend, replaced, stashes, stashed, maxStashed, measured, revised>> /\ fault' = "none"
      /\ style' = [u \in Transfers |-> IF u \in chosen THEN "new" ELSE style[u]]
      /\ src' = [u \in Transfers |-> IF u \in chosen THEN {} ELSE src[u]]
  BY DEF SelectAndConvert, Made, Planned, ConvertToNew, pass, usage, past
<1>1. /\ Hashes' = Hashes /\ N' = N /\ UNCHANGED <<tgt, zero, srcImg, tgtImg, limit>> /\ N \in Nat
  BY <1>0, SameImage, Counting
<1>4. Before' /\ Runnable' /\ Fits' /\ Written' /\ cmds' \in Seq(Commands') /\ slots' \subseteq Hashes' /\ touched' \subseteq Blocks
  BY <1>0, StillPlanning
<1>5. Types'
  <2>1. style' \in [Transfers -> {"new", "zero", "diff", "move", "patch"}] /\ src' \in [Transfers -> SUBSET Blocks]
    BY <1>0 DEF IInv, Types
  <2>2. again' \in BOOLEAN /\ phase' \in Planned \cup {"sequence", "select"}
    BY <1>0
  <2> QED  BY <1>0, <1>1, <1>4, <2>1, <2>2 DEF IInv, Types
<1>7. Styled'
  <2>1. \A u \in Transfers : /\ style'[u] = "zero" => u \in zero
                             /\ style'[u] = "new" => src'[u] = {}
                             /\ style'[u] \in {"new", "zero", "diff"}
    BY <1>0 DEF IInv, Styled
  <2>2. zero \subseteq Transfers /\ \A u \in Transfers : src'[u] \subseteq src[u]
    BY <1>0 DEF IInv, Types
  <2>3. \A u \in zero : (\A b \in src'[u] : srcImg[b] = Zero) /\ (\A b \in tgt[u] : tgtImg[b] = Zero)
    BY <2>2 DEF IInv, Styled
  <2> QED  BY <1>0, <1>1, <2>1, <2>3 DEF Styled
<1>8. Ordered' /\ Accounts' /\ Peaks' /\ NoFault'
  BY <1>0 DEF Ordered, Accounts, Peaks, Made, NoFault
<1> QED  BY <1>4, <1>5, <1>7, <1>8 DEF IInv

-----------------------------------------------------------------------------
(* More room is enough as well.                                            *)
LEMMA NeedsMore ==
  ASSUME Types, NEW u \in Transfers, NEW a \in Nat, NEW b \in Nat, a <= b, Needs(u, a)
  PROVE  Needs(u, b)
<1>1. SizeOf(Alive(u)) \in Nat
  BY SizeType DEF Alive
<1>2. Cardinality(src[u]) \in Nat
  BY OverlapType
<1> QED  BY <1>1, <1>2 DEF Needs

(* One stash of ReviseStashSize: it is counted, or its user is converted.  *)
LEMMA ReviseStashStep ==
  ASSUME IInv, fault = "none", NEW x \in Transfers, ReviseStash(x)
  PROVE  IInv'
<1> DEFINE sha   == StashSha1(Xf, x)
           after == stashed + (IF stashes[sha] = 0 THEN Len(sha) ELSE 0)
<1>0. /\ UNCHANGED image /\ UNCHANGED list /\ UNCHANGED phone /\ phase = "revise" /\ phase' = "revise"
      /\ phase \notin Made /\ phase' \notin Made /\ phase \in Planned
      /\ src' = src /\ style' = style /\ order' = order /\ stash' = stash /\ again' = again
      /\ ignore' = ignore /\ i' = i /\ i < N /\ measured' = measured /\ revised' = revised /\ fault' = "none"
      /\ x \in pend /\ pend' = pend \ {x}
  BY DEF ReviseStash, Made, Planned, plan, past
<1>1. /\ Hashes' = Hashes /\ N' = N /\ UNCHANGED <<tgt, zero, srcImg, tgtImg, limit>> /\ N \in Nat
  BY <1>0, SameImage, Counting
<1>2. \/ Exceeds(after) /\ replaced' = replaced \cup {x} /\ UNCHANGED <<stashes, stashed, maxStashed>>
      \/ /\ ~Exceeds(after) /\ stashes' = [stashes EXCEPT ![sha] = @ + 1]
         /\ stashed' = after /\ maxStashed' = Max({maxStashed, after}) /\ replaced' = replaced
  BY DEF ReviseStash, usage
<1>3. Types /\ Ordered /\ Styled /\ Accounts /\ Peaks
  BY DEF IInv
<1>4. Before' /\ Runnable' /\ Fits' /\ Written' /\ cmds' \in Seq(Commands') /\ slots' \subseteq Hashes' /\ touched' \subseteq Blocks
  BY <1>0, StillPlanning
<1>5. Xf \in Transfers /\ order[Xf] = i /\ \A u \in Transfers : order[u] = i <=> u = Xf
  BY <1>0, <1>3, XfType
<1>6. <<Xf, x>> \in stash
  <2>1. \E u \in Transfers : order[u] = i /\ <<u, x>> \in stash
    BY <1>0, <1>3 DEF Accounts
  <2> QED  BY <1>5, <2>1
<1>7. sha \in Hashes /\ PairSha1(<<Xf, x>>) = sha /\ order[x] \in Nat /\ i < order[x] /\ i \in Nat
  <2>1. PairSha1(<<Xf, x>>) \in Hashes /\ order[Xf] < order[x] /\ order[Xf] \in Nat /\ order[x] \in Nat
    <3> DEFINE p == <<Xf, x>>
    <3>1. order[p[1]] < order[p[2]] /\ PairSha1(p) \in Hashes /\ order[p[1]] \in Nat /\ order[p[2]] \in Nat
      <4> HIDE DEF p
      <4> QED  BY <1>0, <1>3, <1>6, PairType DEF p
    <3> QED  BY <3>1
  <2> QED  BY <1>5, <2>1 DEF PairSha1
<1>70. PICK h \in Hashes : h = sha
  BY <1>7
<1>8. stashes[h] \in Nat /\ Len(h) \in Nat /\ after \in Nat /\ stashed \in Nat /\ maxStashed \in Nat /\ limit \in Nat
  BY <1>3, <1>7, <1>70, HashesType DEF Types
<1>9. \A u, v \in Transfers : Overlap(u, v)' = Overlap(u, v) /\ StashSha1(u, v)' = StashSha1(u, v)
  BY <1>0, <1>1 DEF Overlap, StashSha1
<1>10. \A p \in stash : PairSha1(p)' = PairSha1(p)
  BY <1>3, <1>9 DEF PairSha1, Types
<1>81. after = stashed + (IF stashes[h] = 0 THEN Len(h) ELSE 0) /\ PairSha1(<<Xf, x>>) = h
  BY <1>7, <1>70
<1> HIDE DEF sha, after
<1>11. Types'
  <2>1. CASE Exceeds(after)
    <3>1. replaced' \subseteq Transfers /\ UNCHANGED <<stashes, stashed, maxStashed>>
      BY <1>2, <1>3, <2>1 DEF Types
    <3>2. pend' \subseteq Transfers
      BY <1>0, <1>3 DEF Types
    <3> QED  BY <1>0, <1>1, <1>3, <1>4, <3>1, <3>2 DEF Types
  <2>2. CASE ~Exceeds(after)
    <3>1. stashes' \in [Hashes -> Nat] /\ stashed' \in Nat /\ replaced' \subseteq Transfers
      <4>1. stashes' = [stashes EXCEPT ![h] = @ + 1] /\ stashed' = after /\ replaced' = replaced
        BY <1>2, <1>70, <2>2
      <4>2. stashes \in [Hashes -> Nat] /\ replaced \subseteq Transfers
        BY <1>3 DEF Types
      <4> QED  BY <1>8, <4>1, <4>2
    <3>2. maxStashed' \in Nat
      BY <1>2, <1>8, <2>2, MaxTwo
    <3>3. pend' \subseteq Transfers
      BY <1>0, <1>3 DEF Types
    <3> QED  BY <1>0, <1>1, <1>3, <1>4, <3>1, <3>2, <3>3 DEF Types
  <2> QED  BY <2>1, <2>2
<1>12. Ordered' /\ Styled'
  BY <1>0, <1>1, <1>3, <1>9 DEF Ordered, Styled, Identical
<1>13. /\ \A y \in pend' \cup replaced' : \E u \in Transfers : order'[u] = i' /\ <<u, y>> \in stash'
       /\ pend' \cap replaced' = {} /\ i' # N'
  <2>1. pend' \cup replaced' \subseteq pend \cup replaced /\ pend' \cap replaced' = {}
    BY <1>0, <1>2, <1>3 DEF Accounts
  <2>2. \A y \in pend \cup replaced : \E u \in Transfers : order[u] = i /\ <<u, y>> \in stash
    BY <1>0, <1>3 DEF Accounts
  <2> QED  BY <1>0, <1>1, <1>7, <2>1, <2>2
<1>14. maxStashed <= maxStashed' /\ (~ignore /\ limit # 0 => maxStashed' <= limit)
  <2>1. ~ignore /\ limit # 0 => maxStashed <= limit
    BY <1>0, <1>3 DEF Peaks
  <2>2. CASE Exceeds(after)
    BY <1>2, <1>8, <2>1, <2>2
  <2>3. CASE ~Exceeds(after)
    <3>1. maxStashed' \in {maxStashed, after} /\ maxStashed' >= maxStashed
      BY <1>2, <1>8, <2>3, MaxTwo
    <3>2. ~ignore /\ limit # 0 => after <= limit
      BY <1>8, <2>3 DEF Exceeds
    <3> QED  BY <1>8, <2>1, <3>1, <3>2
  <2> QED  BY <2>2, <2>3
<1>15. Peaks'
  <2>1. \A u \in Transfers : order[u] < i => Needs(u, maxStashed')
    <3>1. maxStashed' \in Nat
      BY <1>11 DEF Types
    <3> QED  BY <1>0, <1>3, <1>8, <1>14, <3>1, NeedsMore DEF Peaks
  <2>2. \A u \in Transfers : Alive(u)' = Alive(u) /\ Copying(u)' = Copying(u)
    BY <1>0, <1>1, <1>10 DEF Alive, Copying
  <2>3. \A u \in Transfers : order'[u] < i' => Needs(u, maxStashed)'
    BY <1>0, <2>1, <2>2 DEF Needs
  <2> QED  BY <1>0, <1>1, <1>14, <2>3 DEF Peaks
<1>16. Counted = {p \in stash : i <= order[p[2]] /\ (order[p[1]] < i \/ (order[p[1]] = i /\ p[2] \notin pend \cup replaced))}
  BY <1>0 DEF Counted
<1>17. Counted' = {p \in stash : i <= order[p[2]] /\ (order[p[1]] < i \/ (order[p[1]] = i /\ p[2] \notin pend' \cup replaced'))}
  BY <1>0 DEF Counted
<1>18. stashed = SizeOf(Held) /\ stashed <= maxStashed /\ \A g \in Hashes : Cardinality(CountedAs(g)) <= stashes[g]
  BY <1>0, <1>3 DEF Accounts
<1>19. CASE Exceeds(after)
  <2>1. pend' \cup replaced' = pend \cup replaced
    BY <1>0, <1>2, <1>19
  <2>2. Counted' = Counted
    BY <1>16, <1>17, <2>1
  <2>3. \A g \in Hashes : CountedAs(g)' = CountedAs(g)
    BY <1>10, <2>2 DEF CountedAs, Counted
  <2>4. Held' = Held /\ stashed' = stashed /\ maxStashed' = maxStashed /\ stashes' = stashes
    BY <1>1, <1>2, <1>19 DEF Held
  <2>5. Accounts'
    BY <1>0, <1>1, <1>13, <1>18, <2>3, <2>4 DEF Accounts
  <2> QED  BY <1>0, <1>4, <1>11, <1>12, <1>15, <2>5 DEF IInv, NoFault
<1>20. CASE ~Exceeds(after)
  <2>1. stashes' = [stashes EXCEPT ![h] = @ + 1] /\ stashed' = after /\ maxStashed' = Max({maxStashed, after}) /\ replaced' = replaced
    BY <1>2, <1>20, <1>70
  <2>2. pend \cup replaced = (pend' \cup replaced') \cup {x} /\ x \notin pend' \cup replaced'
    BY <1>0, <1>3, <2>1 DEF Accounts
  <2> DEFINE P == <<Xf, x>>
  <2>3. Counted' = Counted \cup {P} /\ P \notin Counted
    <3>1. \A p \in stash : order[p[1]] = i => (p = P <=> p[2] = x)
      BY <1>3, <1>5 DEF Types
    <3>2. P \in stash /\ P[1] = Xf /\ P[2] = x /\ order[P[1]] = i /\ i <= order[P[2]] /\ ~(order[P[1]] < i)
      BY <1>5, <1>6, <1>7
    <3> HIDE DEF P
    <3>3. \A p \in stash : p \in Counted' <=> p \in Counted \/ p = P
      BY <1>16, <1>17, <2>2, <3>1, <3>2
    <3>4. Counted \subseteq stash /\ Counted' \subseteq stash /\ P \notin Counted
      BY <1>16, <1>17, <2>2, <3>2
    <3> QED  BY <3>2, <3>3, <3>4
  <2>4. CountedAs(h)' = CountedAs(h) \cup {P} /\ P \notin CountedAs(h)
    BY <1>6, <1>81, <1>10, <2>3, <1>16 DEF CountedAs
  <2>5. \A g \in Hashes \ {h} : CountedAs(g)' = CountedAs(g)
    BY <1>6, <1>81, <1>10, <2>3, <1>16 DEF CountedAs
  <2>6. \A g \in Hashes : Cardinality(CountedAs(g))' <= stashes'[g]
    <3>1. ASSUME NEW g \in Hashes, g # h PROVE Cardinality(CountedAs(g)') <= stashes'[g]
      BY <1>3, <1>18, <2>1, <2>5, <3>1 DEF Types
    <3>2. Cardinality(CountedAs(h)') <= stashes'[h]
      <4>1. IsFiniteSet(CountedAs(h)) /\ Cardinality(CountedAs(h)) \in Nat
        <5>1. CountedAs(h) \in SUBSET (Transfers \X Transfers)
          BY <1>3, <1>16 DEF CountedAs, Types
        <5> QED  BY <5>1, Counting
      <4>2. Cardinality(CountedAs(h)') = Cardinality(CountedAs(h)) + 1
        BY <2>4, <4>1, FS_AddElement
      <4>3. stashes'[h] = stashes[h] + 1
        BY <1>3, <1>7, <2>1 DEF Types
      <4> QED  BY <1>7, <1>8, <1>18, <4>1, <4>2, <4>3
    <3> QED  BY <3>1, <3>2
  <2>7. Held' = Held \cup {h} /\ Held \subseteq Hashes
    <3>1. \A g \in Hashes : stashes'[g] = IF g = h THEN stashes[g] + 1 ELSE stashes[g]
      BY <1>3, <2>1 DEF Types
    <3>2. \A g \in Hashes : stashes'[g] > 0 <=> stashes[g] > 0 \/ g = h
      BY <1>7, <1>8, <3>1
    <3> QED  BY <1>1, <1>7, <3>2 DEF Held
  <2>8. SizeOf(Held') = after
    <3>1. CASE stashes[h] = 0
      <4>1. h \notin Held
        BY <3>1 DEF Held
      <4>2. SizeOf(Held \cup {h}) = SizeOf(Held) + SizeOf({h})
        BY <1>3, <1>7, <2>7, <4>1, SizeSum
      <4>3. SizeOf({h}) = Len(h)
        BY <1>3, <1>7, SizeOne
      <4> QED  BY <1>18, <2>7, <3>1, <4>2, <4>3, <1>81
    <3>2. CASE stashes[h] # 0
      <4>1. h \in Held
        BY <1>7, <1>8, <3>2 DEF Held
      <4>2. Held' = Held
        BY <2>7, <4>1
      <4> QED  BY <1>8, <1>18, <3>2, <4>2, <1>81
    <3> QED  BY <3>1, <3>2
  <2>9. stashed' <= maxStashed'
    BY <1>8, <2>1, MaxTwo
  <2>10. Accounts'
    BY <1>0, <1>1, <1>13, <2>1, <2>6, <2>8, <2>9 DEF Accounts
  <2> QED  BY <1>0, <1>4, <1>11, <1>12, <1>15, <2>10 DEF IInv, NoFault
<1> QED  BY <1>19, <1>20

-----------------------------------------------------------------------------
(* Uses as a set of stashes.                                               *)
LEMMA UsesPairs ==
  ASSUME Types, NEW pairs \in SUBSET (Transfers \X Transfers), NEW xf \in Transfers, NEW h \in Hashes
  PROVE  /\ Uses(pairs, xf, h) = Cardinality({p \in pairs : p[2] = xf /\ PairSha1(p) = h})
         /\ Defs(pairs, xf, h) = Cardinality({p \in pairs : p[1] = xf /\ PairSha1(p) = h})
         /\ Uses(pairs, xf, h) \in Nat /\ Defs(pairs, xf, h) \in Nat
<1> DEFINE U == {u \in Transfers : <<u, xf>> \in pairs /\ StashSha1(u, xf) = h}
           D == {x \in Transfers : <<xf, x>> \in pairs /\ StashSha1(xf, x) = h}
<1>1. U \X {xf} = {p \in pairs : p[2] = xf /\ PairSha1(p) = h}
  BY DEF PairSha1
<1>2. {xf} \X D = {p \in pairs : p[1] = xf /\ PairSha1(p) = h}
  BY DEF PairSha1
<1>3. Uses(pairs, xf, h) = Cardinality(U) /\ Defs(pairs, xf, h) = Cardinality(D)
  BY DEF Uses, Defs
<1>4. U \in SUBSET Transfers /\ D \in SUBSET Transfers
  OBVIOUS
<1> HIDE DEF U, D
<1> QED  BY <1>1, <1>2, <1>3, <1>4, UsesCount, Counting

Positive(counts) == {h \in Hashes : counts[h] > 0}

(* A hash that a transfer frees is no longer held, the others still are.   *)
LEMMA ReleaseHeld ==
  ASSUME Types, NEW counts \in [Hashes -> Nat], NEW pairs \in SUBSET (Transfers \X Transfers), NEW xf \in Transfers,
         \A h \in Hashes : Uses(pairs, xf, h) <= counts[h]
  PROVE  /\ Release(counts, pairs, xf) \in [Hashes -> Nat]
         /\ Positive(counts) = Positive(Release(counts, pairs, xf)) \cup Freed(counts, pairs, xf)
         /\ Positive(Release(counts, pairs, xf)) = Positive(counts) \ Freed(counts, pairs, xf)
         /\ SizeOf(Positive(Release(counts, pairs, xf))) = SizeOf(Positive(counts)) - SizeOf(Freed(counts, pairs, xf))
         /\ SizeOf(Positive(Release(counts, pairs, xf))) \in Nat /\ SizeOf(Positive(counts)) \in Nat
         /\ SizeOf(Positive(Release(counts, pairs, xf))) <= SizeOf(Positive(counts))
<1> DEFINE gone  == Freed(counts, pairs, xf)
           held  == Positive(counts)
           after == Positive(Release(counts, pairs, xf))
<1>1. \A h \in Hashes : Uses(pairs, xf, h) \in Nat /\ counts[h] \in Nat
  BY UsesPairs
<1>2. Release(counts, pairs, xf) \in [Hashes -> Nat]
  <2>1. \A h \in Hashes : counts[h] - Uses(pairs, xf, h) \in Nat
    BY <1>1
  <2> QED  BY <2>1 DEF Release
<1>3. \A h \in Hashes : Release(counts, pairs, xf)[h] = counts[h] - Uses(pairs, xf, h)
  BY DEF Release
<1>5. held \subseteq Hashes /\ after \subseteq Hashes /\ gone \subseteq Hashes
  BY DEF Freed, Positive
<1>4. held = after \cup gone /\ after \cap gone = {}
  <2>1. \A h \in Hashes : h \in held <=> counts[h] > 0
    BY DEF Positive
  <2>2. \A h \in Hashes : h \in after <=> counts[h] - Uses(pairs, xf, h) > 0
    BY <1>3 DEF Positive
  <2>3. \A h \in Hashes : h \in gone <=> counts[h] > 0 /\ counts[h] = Uses(pairs, xf, h)
    BY DEF Freed
  <2> HIDE DEF held, after, gone
  <2>5. \A h \in Hashes : (h \in held <=> h \in after \/ h \in gone) /\ ~(h \in after /\ h \in gone)
    BY <1>1, <2>1, <2>2, <2>3
  <2> QED  BY <1>5, <2>5
<1> HIDE DEF held, after, gone
<1>6. SizeOf(held) = SizeOf(after) + SizeOf(gone) /\ SizeOf(held) \in Nat /\ SizeOf(after) \in Nat /\ SizeOf(gone) \in Nat
  BY <1>4, <1>5, SizeSum, SizeType
<1>7. SizeOf(after) = SizeOf(held) - SizeOf(gone) /\ SizeOf(after) <= SizeOf(held)
  BY <1>6
<1>8. after = held \ gone
  BY <1>4
<1> QED  BY <1>2, <1>4, <1>6, <1>7, <1>8 DEF held, after, gone

(* The rest of an iteration of ReviseStashSize: the implicit stash, the    *)
(* conversions, and the stashes that are released.  A converted transfer   *)
(* leaves its stashes counted, so that the accounts stay above what        *)
(* WriteTransfers will hold.                                               *)
LEMMA ReviseTransferStep ==
  ASSUME IInv, fault = "none", ReviseTransfer
  PROVE  IInv'
<1> DEFINE peak == stashed + Cardinality(src[Xf])
           outs == replaced \cup (IF Implicit(Xf) /\ Exceeds(peak) THEN {Xf} ELSE {})
           nxt  == CHOOSE u \in Transfers : order[u] = i + 1
<1>0. /\ UNCHANGED image /\ UNCHANGED list /\ UNCHANGED phone /\ phase = "revise" /\ phase' = "revise"
      /\ phase \notin Made /\ phase' \notin Made /\ phase \in Planned
      /\ order' = order /\ again' = again
      /\ ignore' = ignore /\ i' = i + 1 /\ i < N /\ measured' = measured /\ revised' = revised
      /\ pend = {} /\ replaced' = {}
  BY DEF ReviseTransfer, Made, Planned, past
<1>1. /\ Hashes' = Hashes /\ N' = N /\ UNCHANGED <<tgt, zero, srcImg, tgtImg, limit>> /\ N \in Nat
  BY <1>0, SameImage, Counting
<1>2. Types /\ Ordered /\ Styled /\ Accounts /\ Peaks
  BY DEF IInv
<1>3. Xf \in Transfers /\ order[Xf] = i /\ \A u \in Transfers : order[u] = i <=> u = Xf
  BY <1>0, <1>2, XfType
<1>4. PICK X \in Transfers : X = Xf
  BY <1>3
<1>5. PICK out \in SUBSET Transfers : out = outs
  <2>1. outs \in SUBSET Transfers
    BY <1>2, <1>3 DEF Types
  <2> QED  BY <2>1
<1>6. PICK kept \in SUBSET stash : kept = {p \in stash : p[2] \notin out}
  OBVIOUS
<1>7. /\ maxStashed' = IF Implicit(X) /\ ~Exceeds(peak) THEN Max({maxStashed, peak}) ELSE maxStashed
      /\ style' = [u \in Transfers |-> IF u \in out THEN "new" ELSE style[u]]
      /\ src' = [u \in Transfers |-> IF u \in out THEN {} ELSE src[u]]
      /\ stash' = kept
      /\ stashes' = Release(stashes, kept, X)
      /\ stashed' = stashed - SizeOf(Freed(stashes, kept, X))
      /\ fault' = IF \E u \in out : style[u] = "new" THEN "converted twice"
                  ELSE IF \E h \in Hashes : stashes'[h] < 0 THEN "stash unknown" ELSE "none"
      /\ pend' = IF i + 1 = N THEN {} ELSE {x \in Transfers : <<nxt, x>> \in kept}
  BY <1>4, <1>5, <1>6 DEF ReviseTransfer, ConvertToNew
<1>8. /\ out = replaced \cup (IF Implicit(X) /\ Exceeds(peak) THEN {X} ELSE {})
      /\ peak = stashed + Cardinality(src[X]) /\ peak \in Nat /\ Cardinality(src[X]) \in Nat
      /\ stashed \in Nat /\ maxStashed \in Nat /\ limit \in Nat /\ i \in Nat
      /\ order[X] = i /\ \A u \in Transfers : order[u] = i <=> u = X
  BY <1>2, <1>3, <1>4, <1>5, OverlapType DEF Types
<1>9. i + 1 # N => nxt \in Transfers /\ order[nxt] = i + 1 /\ \A u \in Transfers : order[u] = i + 1 <=> u = nxt
  <2>1. i + 1 # N => i + 1 \in 0..(N - 1)
    BY <1>0, <1>1, <1>8
  <2> QED  BY <1>0, <1>2, <2>1, Position
<1>10. kept \in SUBSET (Transfers \X Transfers)
  BY <1>2 DEF Types
<1> HIDE DEF peak, outs, nxt
<1>11. \A p \in stash : /\ p[1] \in Transfers /\ p[2] \in Transfers /\ p = <<p[1], p[2]>>
                        /\ order[p[1]] \in Nat /\ order[p[2]] \in Nat /\ order[p[1]] < order[p[2]]
                        /\ order[p[2]] < N /\ PairSha1(p) \in Hashes
  BY <1>0, <1>2, PairType
<1>12. /\ \A u, x \in Transfers : Overlap(u, x)' = IF x \in out THEN {} ELSE Overlap(u, x)
       /\ \A u, x \in Transfers : x \notin out => StashSha1(u, x)' = StashSha1(u, x)
       /\ \A p \in kept : PairSha1(p)' = PairSha1(p)
  <2>1. \A u, x \in Transfers : Overlap(u, x)' = IF x \in out THEN {} ELSE Overlap(u, x)
    BY <1>1, <1>7 DEF Overlap
  <2>2. \A u, x \in Transfers : x \notin out => StashSha1(u, x)' = StashSha1(u, x)
    BY <1>1, <2>1 DEF StashSha1
  <2>3. \A p \in kept : p[1] \in Transfers /\ p[2] \in Transfers /\ p[2] \notin out
    BY <1>6, <1>11
  <2> QED  BY <2>1, <2>2, <2>3 DEF PairSha1
<1>13. Ordered'
  <2>1. \A u, x \in Transfers : <<u, x>> \in kept <=> <<u, x>> \in stash /\ x \notin out
    BY <1>6
  <2>2. \A u, x \in Transfers : <<u, x>> \in stash <=> order[u] < order[x] /\ Overlap(u, x) # {}
    BY <1>0, <1>2 DEF Ordered
  <2>3. \A u, x \in Transfers : <<u, x>> \in stash' <=> order'[u] < order'[x] /\ Overlap(u, x)' # {}
    BY <1>0, <1>7, <1>12, <2>1, <2>2
  <2> QED  BY <1>0, <1>2, <2>3 DEF Ordered
<1>14. \A u \in out : style[u] \in {"zero", "diff"}
  <2>1. \A u \in replaced : u \in Transfers /\ src[u] # {}
    <3> SUFFICES ASSUME NEW x \in replaced PROVE x \in Transfers /\ src[x] # {}
      OBVIOUS
    <3>1. PICK u \in Transfers : <<u, x>> \in stash
      BY <1>0, <1>2 DEF Accounts
    <3>2. x \in Transfers
      BY <1>2 DEF Types
    <3> QED  BY <1>0, <1>2, <3>1, <3>2 DEF Ordered, Overlap
  <2>2. \A u \in Transfers : style[u] \in {"new", "zero", "diff"} /\ (style[u] = "new" => src[u] = {})
    BY <1>0, <1>2 DEF Styled
  <2>3. Implicit(X) => style[X] = "diff"
    BY DEF Implicit
  <2> QED  BY <1>8, <2>1, <2>2, <2>3
<1>15. Styled'
  <2>1. \A u \in Transfers : /\ style'[u] = "zero" => u \in zero
                             /\ style'[u] = "new" => src'[u] = {}
                             /\ style'[u] \in {"new", "zero", "diff"}
    BY <1>0, <1>2, <1>7 DEF Styled
  <2>2. zero \subseteq Transfers /\ \A u \in Transfers : src'[u] \subseteq src[u]
    BY <1>2, <1>7 DEF Types
  <2>3. \A u \in zero : (\A b \in src'[u] : srcImg[b] = Zero) /\ (\A b \in tgt[u] : tgtImg[b] = Zero)
    BY <1>2, <2>2 DEF Styled
  <2> QED  BY <1>0, <1>1, <2>1, <2>3 DEF Styled
<1>16. Counted = {p \in stash : i <= order[p[2]] /\ (order[p[1]] < i \/ (order[p[1]] = i /\ p[2] \notin replaced))}
  BY <1>0 DEF Counted
<1>17. Counted' = {p \in kept : order[p[1]] <= i /\ i < order[p[2]]}
  <2>1. Counted' = {p \in kept : i + 1 <= order[p[2]] /\ (order[p[1]] < i + 1 \/ (order[p[1]] = i + 1 /\ p[2] \notin pend'))}
    BY <1>0, <1>7 DEF Counted
  <2>2. ASSUME NEW p \in kept, order[p[1]] = i + 1
        PROVE  p[2] \in pend'
    <3>1. i + 1 # N
      BY <1>1, <1>11, <2>2
    <3>2. p[1] = nxt /\ p = <<p[1], p[2]>> /\ p[2] \in Transfers
      BY <1>9, <1>11, <2>2, <3>1
    <3> QED  BY <1>7, <3>1, <3>2
  <2>3. \A p \in kept : (i + 1 <= order[p[2]] <=> i < order[p[2]]) /\ (order[p[1]] < i + 1 <=> order[p[1]] <= i)
    BY <1>8, <1>11
  <2> QED  BY <2>1, <2>2, <2>3
<1>18. /\ stashed = SizeOf(Held) /\ stashed <= maxStashed /\ \A h \in Hashes : Cardinality(CountedAs(h)) <= stashes[h]
       /\ stashes \in [Hashes -> Nat]
  BY <1>0, <1>2 DEF Accounts, Types
<1>19. ASSUME NEW h \in Hashes
       PROVE  /\ CountedAs(h)' \in SUBSET (Transfers \X Transfers)
              /\ Cardinality(CountedAs(h)') + Uses(kept, X, h) <= stashes[h]
  <2> DEFINE A == CountedAs(h)'
             B == {p \in kept : p[2] = X /\ PairSha1(p) = h}
             C == CountedAs(h)
  <2>1. A = {p \in kept : order[p[1]] <= i /\ i < order[p[2]] /\ PairSha1(p) = h}
    BY <1>12, <1>17 DEF CountedAs
  <2>2. C = {p \in stash : i <= order[p[2]] /\ (order[p[1]] < i \/ (order[p[1]] = i /\ p[2] \notin replaced)) /\ PairSha1(p) = h}
    BY <1>16 DEF CountedAs
  <2>3. \A p \in kept : p \in stash /\ p[2] \notin replaced
    BY <1>6, <1>8
  <2>4. A \subseteq C
    BY <1>8, <1>11, <2>1, <2>2, <2>3
  <2>5. B \subseteq C /\ A \cap B = {}
    BY <1>8, <1>11, <2>1, <2>2, <2>3
  <2>6. A \in SUBSET (Transfers \X Transfers) /\ B \in SUBSET (Transfers \X Transfers) /\ C \in SUBSET (Transfers \X Transfers)
    BY <1>2, <1>10, <2>1, <2>2 DEF Types
  <2>7. Uses(kept, X, h) = Cardinality(B)
    BY <1>2, <1>10, UsesPairs
  <2> HIDE DEF A, B, C
  <2>8. Cardinality(A \cup B) = Cardinality(A) + Cardinality(B)
    BY <2>5, <2>6, PairsSum
  <2>9. Cardinality(A \cup B) <= Cardinality(C)
    BY <2>4, <2>5, <2>6, PairsMono
  <2>10. Cardinality(C) <= stashes[h]
    BY <1>18 DEF C
  <2>11. Cardinality(A) \in Nat /\ Cardinality(B) \in Nat /\ Cardinality(C) \in Nat /\ stashes[h] \in Nat
    BY <1>18, <2>6, Counting
  <2>12. Cardinality(A) + Uses(kept, X, h) <= stashes[h]
    BY <2>7, <2>8, <2>9, <2>10, <2>11
  <2> QED  BY <2>6, <2>12 DEF A
<1>20. \A h \in Hashes : /\ Cardinality(CountedAs(h)') \in Nat /\ Uses(kept, X, h) \in Nat
                         /\ Uses(kept, X, h) <= stashes[h]
  <2> SUFFICES ASSUME NEW h \in Hashes
               PROVE  Cardinality(CountedAs(h)') \in Nat /\ Uses(kept, X, h) \in Nat /\ Uses(kept, X, h) <= stashes[h]
    OBVIOUS
  <2>1. Cardinality(CountedAs(h)') \in Nat
    BY <1>19, Counting
  <2>2. Uses(kept, X, h) \in Nat
    BY <1>2, <1>10, UsesPairs
  <2> QED  BY <1>18, <1>19, <2>1, <2>2
<1>21. /\ stashes' \in [Hashes -> Nat]
       /\ Held' = {h \in Hashes : Release(stashes, kept, X)[h] > 0}
       /\ SizeOf(Held') = SizeOf(Held) - SizeOf(Freed(stashes, kept, X))
       /\ SizeOf(Held') \in Nat /\ SizeOf(Held') <= SizeOf(Held)
  <2>1. Held' = {h \in Hashes : Release(stashes, kept, X)[h] > 0}
    BY <1>1, <1>7 DEF Held
  <2>2. Held' = Positive(Release(stashes, kept, X)) /\ Held = Positive(stashes)
    BY <2>1 DEF Held, Positive
  <2>3. \A h \in Hashes : Uses(kept, X, h) <= stashes[h]
    BY <1>20
  <2>4. /\ Release(stashes, kept, X) \in [Hashes -> Nat]
        /\ SizeOf(Positive(Release(stashes, kept, X))) = SizeOf(Positive(stashes)) - SizeOf(Freed(stashes, kept, X))
        /\ SizeOf(Positive(Release(stashes, kept, X))) \in Nat
        /\ SizeOf(Positive(Release(stashes, kept, X))) <= SizeOf(Positive(stashes))
    BY <1>2, <1>10, <1>18, <2>3, ReleaseHeld
  <2> QED  BY <1>7, <2>1, <2>2, <2>4
<1>22. stashed' = SizeOf(Held') /\ stashed' \in Nat /\ stashed' <= stashed
  BY <1>7, <1>18, <1>21
<1>23. /\ maxStashed' \in Nat /\ maxStashed' >= maxStashed
       /\ Implicit(X) /\ ~Exceeds(peak) => maxStashed' >= peak
       /\ ~ignore /\ limit # 0 => maxStashed' <= limit
  <2>1. ~ignore /\ limit # 0 => maxStashed <= limit
    BY <1>0, <1>2 DEF Peaks
  <2>2. CASE Implicit(X) /\ ~Exceeds(peak)
    <3>1. maxStashed' = Max({maxStashed, peak})
      BY <1>7, <2>2
    <3>2. maxStashed' \in Nat /\ maxStashed' \in {maxStashed, peak} /\ maxStashed' >= maxStashed /\ maxStashed' >= peak
      BY <1>8, <3>1, MaxTwo
    <3>3. ~ignore /\ limit # 0 => peak <= limit
      BY <1>8, <2>2 DEF Exceeds
    <3> QED  BY <2>1, <3>2, <3>3
  <2>3. CASE ~(Implicit(X) /\ ~Exceeds(peak))
    <3>1. maxStashed' = maxStashed
      BY <1>7, <2>3
    <3> QED  BY <1>8, <2>1, <2>3, <3>1
  <2> QED  BY <2>2, <2>3
<1>24. fault' = "none"
  <2>1. ~ \E u \in out : style[u] = "new"
    BY <1>14
  <2>2. ~ \E h \in Hashes : stashes'[h] < 0
    <3>1. \A h \in Hashes : stashes'[h] \in Nat
      BY <1>21
    <3> QED  BY <3>1
  <2> QED  BY <1>7, <2>1, <2>2
<1>25. Before' /\ Runnable' /\ Fits' /\ Written' /\ cmds' \in Seq(Commands') /\ slots' \subseteq Hashes' /\ touched' \subseteq Blocks
  BY <1>0, StillPlanning
<1>26. Types'
  <2>1. style' \in [Transfers -> {"new", "zero", "diff", "move", "patch"}] /\ src' \in [Transfers -> SUBSET Blocks]
    BY <1>2, <1>7 DEF Types
  <2>2. stash' \subseteq Transfers \X Transfers /\ replaced' \subseteq Transfers /\ pend' \subseteq Transfers
    <3>1. pend' \subseteq Transfers
      BY <1>7
    <3> QED  BY <1>0, <1>7, <1>10, <3>1
  <2>3. i' \in 0..N'
    BY <1>0, <1>1, <1>8
  <2>4. stashes' \in [Hashes' -> Nat]
    BY <1>1, <1>21
  <2> QED  BY <1>0, <1>1, <1>2, <1>22, <1>23, <1>25, <2>1, <2>2, <2>3, <2>4 DEF Types
<1>27. Accounts'
  <2>1. \A h \in Hashes' : Cardinality(CountedAs(h))' <= stashes'[h]
    <3> SUFFICES ASSUME NEW h \in Hashes PROVE Cardinality(CountedAs(h)') <= stashes'[h]
      BY <1>1
    <3>1. stashes'[h] = stashes[h] - Uses(kept, X, h)
      BY <1>7 DEF Release
    <3>2. stashes[h] \in Nat
      BY <1>18
    <3> QED  BY <1>19, <1>20, <3>1, <3>2
  <2>2. \A x \in pend' : \E u \in Transfers : order'[u] = i' /\ <<u, x>> \in stash'
    BY <1>0, <1>7, <1>9
  <2>3. stashed' <= maxStashed'
    BY <1>8, <1>18, <1>22, <1>23
  <2> QED  BY <1>0, <1>22, <2>1, <2>2, <2>3 DEF Accounts
<1>28. Peaks'
  <2>1. \A u \in Transfers : Copying(u)' => Copying(u) /\ src'[u] = src[u] /\ u \notin out
    <3>1. \A u \in Transfers : u \in out => style'[u] = "new"
      BY <1>7
    <3>2. \A u \in Transfers : u \notin out => style'[u] = style[u] /\ src'[u] = src[u]
      BY <1>7
    <3>3. \A u \in Transfers : Copying(u)' => u \notin out
      BY <3>1 DEF Copying
    <3> QED  BY <1>1, <3>2, <3>3 DEF Copying
  <2>2. \A u \in Transfers : Alive(u)' = {h \in Hashes : \E p \in kept : order[p[1]] <= order[u] /\ order[u] <= order[p[2]] /\ PairSha1(p) = h}
    BY <1>0, <1>1, <1>7, <1>12 DEF Alive
  <2>3. ASSUME NEW u \in Transfers, order[u] < i + 1
        PROVE  Needs(u, maxStashed)'
    <3>0. order[u] \in Nat /\ Cardinality(src[u]) \in Nat
      BY <1>2, OverlapType DEF Types
    <3>1. CASE order[u] < i
      <4>1. Needs(u, maxStashed)
        BY <1>0, <1>2, <3>1 DEF Peaks
      <4>2. Alive(u)' \subseteq Alive(u) /\ Alive(u) \subseteq Hashes
        BY <1>6, <2>2 DEF Alive
      <4>3. SizeOf(Alive(u)') <= SizeOf(Alive(u)) /\ SizeOf(Alive(u)') \in Nat /\ SizeOf(Alive(u)) \in Nat
        BY <1>2, <4>2, SizeMono, SizeType
      <4>4. SizeOf(Alive(u)') <= maxStashed'
        BY <1>8, <1>23, <4>1, <4>3 DEF Needs
      <4>5. Copying(u)' => SizeOf(Alive(u)') + Cardinality(src'[u]) <= maxStashed'
        BY <1>8, <1>23, <2>1, <3>0, <4>1, <4>3 DEF Needs
      <4> QED  BY <4>4, <4>5 DEF Needs
    <3>2. CASE u = X
      <4>1. Alive(u)' \subseteq Held
        <5> SUFFICES ASSUME NEW h \in Alive(u)' PROVE h \in Held
          OBVIOUS
        <5>1. PICK p \in kept : order[p[1]] <= i /\ i <= order[p[2]] /\ PairSha1(p) = h
          BY <1>8, <2>2, <3>2
        <5>2. p \in CountedAs(h) /\ h \in Hashes
          <6>1. p \in stash /\ p[2] \notin replaced
            BY <1>6, <1>8
          <6>2. order[p[1]] < i \/ order[p[1]] = i
            BY <1>8, <1>11, <5>1, <6>1
          <6>3. p \in Counted
            BY <1>16, <5>1, <6>1, <6>2
          <6> QED  BY <2>2, <5>1, <6>3 DEF CountedAs
        <5>3. CountedAs(h) \in SUBSET (Transfers \X Transfers)
          BY <1>2 DEF CountedAs, Counted, Types
        <5>4. Cardinality(CountedAs(h)) \in Nat /\ Cardinality(CountedAs(h)) > 0
          BY <5>2, <5>3, PairsPositive
        <5>5. stashes[h] \in Nat /\ Cardinality(CountedAs(h)) <= stashes[h]
          BY <1>18, <5>2
        <5>6. stashes[h] > 0
          BY <5>4, <5>5
        <5> QED  BY <5>2, <5>6 DEF Held
      <4>2. Held \subseteq Hashes
        BY DEF Held
      <4>3. SizeOf(Alive(u)') <= stashed /\ SizeOf(Alive(u)') \in Nat
        BY <1>2, <1>18, <4>1, <4>2, SizeMono, SizeType
      <4>4. SizeOf(Alive(u)') <= maxStashed'
        BY <1>8, <1>18, <1>23, <4>3
      <4>5. Copying(u)' => SizeOf(Alive(u)') + Cardinality(src'[u]) <= maxStashed'
        <5> SUFFICES ASSUME Copying(u)' PROVE SizeOf(Alive(u)') + Cardinality(src'[u]) <= maxStashed'
          OBVIOUS
        <5>1. Copying(X) /\ src'[X] = src[X] /\ X \notin out
          BY <2>1, <3>2
        <5>2. style[X] \in {"new", "zero", "diff"}
          BY <1>0, <1>2 DEF Styled
        <5>3. Implicit(X)
          BY <5>1, <5>2 DEF Copying, Implicit
        <5>4. maxStashed' >= peak
          BY <1>8, <1>23, <5>1, <5>3
        <5> QED  BY <1>8, <1>23, <3>2, <4>3, <5>1, <5>4
      <4> QED  BY <4>4, <4>5 DEF Needs
    <3> QED  BY <1>8, <2>3, <3>0, <3>1, <3>2
  <2> QED  BY <1>0, <1>1, <1>23, <2>3 DEF Peaks
<1> QED  BY <1>13, <1>15, <1>24, <1>25, <1>26, <1>27, <1>28 DEF IInv, NoFault

-----------------------------------------------------------------------------
(* Nothing runs, nothing is stored.                                        *)
LEMMA HeldNone ==
  ASSUME NEW s, NEW start \in SUBSET Hashes
  PROVE  HeldIn(s, start, 0) = start
<1>1. \A m \in 1..0 : FALSE
  OBVIOUS
<1> QED  BY <1>1 DEF HeldIn

(* AssertSequenceGood holds for every sequence with its stashes.           *)
LEMMA SequenceIsGood ==
  ASSUME Types, Ordered, phase \in Planned
  PROVE  SequenceGood
<1> SUFFICES ASSUME NEW x \in Transfers,
                    NEW written, written = UNION {tgt[u] : u \in {v \in Transfers : order[v] < order[x]}},
                    NEW unstashed, unstashed = src[x] \ UNION {Overlap(u, x) : u \in UsedBy(x)}
             PROVE  unstashed \cap TotalBlocks \cap written = {} /\ tgt[x] \cap written = {}
  BY DEF SequenceGood
<1>1. \A b \in written : \E u \in Transfers : order[u] < order[x] /\ b \in tgt[u]
  OBVIOUS
<1>2. ASSUME NEW b \in unstashed, b \in written PROVE FALSE
  <2>1. PICK u \in Transfers : order[u] < order[x] /\ b \in tgt[u]
    BY <1>1, <1>2
  <2>2. b \in Overlap(u, x)
    BY <2>1 DEF Overlap
  <2>3. <<u, x>> \in stash
    BY <2>1, <2>2 DEF Ordered
  <2> QED  BY <2>2, <2>3 DEF UsedBy
<1>3. ASSUME NEW b \in tgt[x], b \in written PROVE FALSE
  <2>1. PICK u \in Transfers : order[u] < order[x] /\ b \in tgt[u]
    BY <1>1, <1>3
  <2>2. order[x] \in Nat /\ u # x
    BY <2>1 DEF Types
  <2> QED  BY <2>1, <2>2, RangesAssumption DEF Types
<1> QED  BY <1>2, <1>3

(* The end of ReviseStashSize: AssertSequenceGood holds, and the peak      *)
(* found bounds what WriteTransfers needs at each transfer.                *)
LEMMA ReviseDoneStep ==
  ASSUME IInv, fault = "none", ReviseDone
  PROVE  IInv'
<1>0. /\ UNCHANGED image /\ UNCHANGED list /\ UNCHANGED phone /\ phase = "revise" /\ phase' = "write"
      /\ phase \notin Made /\ phase' \in Made /\ phase \in Planned /\ phase' \in Planned
      /\ order' = order /\ stash' = stash /\ src' = src /\ again' = again /\ ignore' = ignore /\ ~ignore
      /\ i = N /\ i' = 0 /\ measured' = measured /\ revised' = maxStashed
      /\ pend' = {} /\ replaced' = {} /\ stashes' = NoStash /\ stashed' = 0 /\ maxStashed' = 0
      /\ fault' = (IF SequenceGood THEN "none" ELSE "sequence")
      /\ style' = [u \in Transfers |-> IF style[u] # "diff" THEN style[u]
                                       ELSE IF Identical(u) THEN "move" ELSE "patch"]
  BY DEF ReviseDone, BeginPass, Made, Planned
<1>1. /\ Hashes' = Hashes /\ N' = N /\ UNCHANGED <<tgt, zero, srcImg, tgtImg, limit>> /\ N \in Nat
  BY <1>0, SameImage, Counting
<1>2. Types /\ Ordered /\ Styled /\ Accounts /\ Peaks
  BY DEF IInv
<1>3. fault' = "none"
  BY <1>0, <1>2, SequenceIsGood
<1>4. /\ cmds = <<>> /\ touched = {} /\ dev = srcImg /\ slots = {}
      /\ cmds' = <<>> /\ touched' = {} /\ dev' = srcImg' /\ slots' = {} /\ Len(cmds') = 0
  BY <1>0, EmptySeq DEF IInv, Before, list, phone, image, Made
<1>5. Types'
  <2>1. style' \in [Transfers -> {"new", "zero", "diff", "move", "patch"}]
    BY <1>0, <1>2 DEF Types
  <2>2. stashes' \in [Hashes' -> Nat] /\ i' \in 0..N' /\ stashed' \in Nat /\ maxStashed' \in Nat /\ revised' \in Nat
    BY <1>0, <1>1, <1>2 DEF Types, NoStash
  <2>3. cmds' \in Seq(Commands') /\ touched' \subseteq Blocks /\ slots' \subseteq Hashes'
    BY <1>4, EmptySeq
  <2>4. phase' \in Planned \cup {"sequence", "select"} /\ pend' \subseteq Transfers /\ replaced' \subseteq Transfers
    BY <1>0
  <2> QED  BY <1>0, <1>1, <1>2, <2>1, <2>2, <2>3, <2>4 DEF Types
<1>6. \A u, v \in Transfers : Overlap(u, v)' = Overlap(u, v) /\ StashSha1(u, v)' = StashSha1(u, v)
  BY <1>0, <1>1 DEF Overlap, StashSha1
<1>7. \A p \in stash : PairSha1(p)' = PairSha1(p)
  BY <1>2, <1>6 DEF PairSha1, Types
<1>8. Ordered'
  BY <1>0, <1>1, <1>2, <1>6 DEF Ordered
<1>9. \A u \in Transfers : /\ style[u] \in {"new", "zero", "diff"}
                           /\ style'[u] = IF style[u] # "diff" THEN style[u] ELSE IF Identical(u) THEN "move" ELSE "patch"
  BY <1>0, <1>2 DEF Styled
<1>10. Styled'
  <2>1. \A u \in Transfers : Identical(u)' = Identical(u)
    BY <1>0, <1>1 DEF Identical
  <2>2. \A u \in Transfers : /\ style'[u] = "zero" => u \in zero
                             /\ style'[u] = "new" => src[u] = {}
                             /\ style'[u] # "diff"
                             /\ style'[u] = "move" => Identical(u)
    BY <1>2, <1>9 DEF Styled
  <2> QED  BY <1>0, <1>1, <1>2, <2>1, <2>2 DEF Styled
<1>11. Accounts'
  <2>1. Counted' = {}
    <3>1. \A p \in stash : order[p[1]] \in Nat
      BY <1>0, <1>2, PairType
    <3>2. Counted' = {p \in stash : 0 <= order[p[2]] /\ order[p[1]] < 0}
      BY <1>0 DEF Counted
    <3> QED  BY <3>1, <3>2
  <2>2. \A h \in Hashes' : Cardinality(CountedAs(h)') = 0
    BY <2>1, FS_EmptySet DEF CountedAs
  <2>3. \A h \in Hashes' : stashes'[h] = 0
    BY <1>0, <1>1 DEF NoStash
  <2>4. Held' = {}
    BY <2>3 DEF Held
  <2>5. stashed' = SizeOf(Held)' /\ stashed' <= maxStashed'
    BY <1>0, <2>4, SizeEmpty
  <2>6. \A h \in Hashes' : Cardinality(CountedAs(h)') <= stashes'[h] /\ stashes'[h] = Cardinality(CountedAs(h)')
    BY <2>2, <2>3
  <2> QED  BY <1>0, <2>5, <2>6 DEF Accounts
<1>12. Peaks'
  <2>1. \A u \in Transfers : Alive(u)' = Alive(u) /\ (Copying(u)' => Copying(u))
    <3>1. \A u \in Transfers : Alive(u)' = Alive(u)
      BY <1>0, <1>1, <1>7 DEF Alive
    <3>2. \A u \in Transfers : Copying(u)' => Copying(u)
      BY <1>0, <1>1, <1>9 DEF Copying
    <3> QED  BY <3>1, <3>2
  <2>2. \A u \in Transfers : Needs(u, maxStashed)
    <3>1. \A u \in Transfers : order[u] < N
      BY <1>1, <1>2 DEF Types
    <3> QED  BY <1>0, <1>2, <3>1 DEF Peaks
  <2>3. \A u \in Transfers : Needs(u, revised)'
    BY <1>0, <2>1, <2>2 DEF Needs
  <2>4. limit' # 0 => revised' <= limit'
    BY <1>0, <1>1, <1>2 DEF Peaks
  <2>5. maxStashed' <= revised'
    BY <1>0, <1>2 DEF Types
  <2> QED  BY <1>0, <2>3, <2>4, <2>5 DEF Peaks
<1>13. Before'
  BY <1>0, <1>4 DEF Before
<1>14. \A k \in 1..Len(cmds') : FALSE
  BY <1>4
<1>15. Runnable' /\ Written'
  <2>1. \A u \in Transfers : ~(order'[u] < i')
    BY <1>0, <1>1, <1>2 DEF Types
  <2>2. Runnable'
    BY <1>14 DEF Runnable
  <2>3. Written'
    BY <1>0, <1>14, <2>1 DEF Written
  <2> QED  BY <2>2, <2>3
<1>16. Fits'
  <2>1. HeldAt(0)' = {}
    <3>1. \A j \in 1..0 : FALSE
      OBVIOUS
    <3> QED  BY <1>4, <3>1 DEF HeldAt, HeldIn
  <2>2. \A h \in Hashes' : stashes'[h] = 0
    BY <1>0, <1>1 DEF NoStash
  <2>3. \A k \in 0..Len(cmds') : k = 0
    BY <1>4
  <2>4. SizeOf(HeldAt(0)') <= maxStashed'
    BY <1>0, <2>1, SizeEmpty
  <2>5. \A k \in 0..Len(cmds') : SizeOf(HeldAt(k)') <= maxStashed'
    BY <2>3, <2>4
  <2>6. HeldAt(Len(cmds))' = {}
    BY <1>4, <2>1 DEF HeldAt
  <2> QED  BY <1>0, <1>14, <2>2, <2>5, <2>6 DEF Fits
<1> QED  BY <1>3, <1>5, <1>8, <1>10, <1>11, <1>12, <1>13, <1>15, <1>16 DEF IInv, NoFault


-----------------------------------------------------------------------------
(* The slots along a list of commands.                                     *)

(* The slots depend only on the commands that have run.                    *)
LEMMA HeldSame ==
  ASSUME NEW s, NEW t, NEW start, NEW k \in Nat, \A m \in 1..k : s[m] = t[m]
  PROVE  HeldIn(s, start, k) = HeldIn(t, start, k)
<1>1. \A m \in 1..k : \A h : (Frees(s[m], h) <=> Frees(t[m], h)) /\ (Stores(s[m], h) <=> Stores(t[m], h))
  OBVIOUS
<1>2. \A n \in 1..k : \A m \in (n + 1)..k : m \in 1..k
  OBVIOUS
<1> HIDE DEF Frees, Stores
<1>3. \A h \in Hashes : h \in HeldIn(s, start, k) <=> h \in HeldIn(t, start, k)
  BY <1>1, <1>2 DEF HeldIn
<1> QED  BY <1>3 DEF HeldIn

(* Commands that free nothing add what they stash.                         *)
LEMMA HeldNoFree ==
  ASSUME NEW s, NEW start, NEW k \in Nat, NEW n \in Nat, k <= n,
         \A m \in (k + 1)..n : \A h \in Hashes : ~Frees(s[m], h)
  PROVE  \A h \in Hashes :
           h \in HeldIn(s, start, n) <=> h \in HeldIn(s, start, k) \/ \E m \in (k + 1)..n : Stores(s[m], h)
<1>1. ASSUME NEW h \in Hashes
      PROVE  h \in HeldIn(s, start, n) <=> h \in HeldIn(s, start, k) \/ \E m \in (k + 1)..n : Stores(s[m], h)
  <2>1. ASSUME h \in HeldIn(s, start, n)
        PROVE  h \in HeldIn(s, start, k) \/ \E m \in (k + 1)..n : Stores(s[m], h)
    <3>1. CASE h \in start /\ \A m \in 1..n : ~Frees(s[m], h)
      BY <3>1 DEF HeldIn
    <3>2. CASE \E j \in 1..n : Stores(s[j], h) /\ \A m \in (j + 1)..n : ~Frees(s[m], h)
      <4>1. PICK j \in 1..n : Stores(s[j], h) /\ \A m \in (j + 1)..n : ~Frees(s[m], h)
        BY <3>2
      <4>2. CASE j <= k
        <5>1. j \in 1..k /\ \A m \in (j + 1)..k : m \in (j + 1)..n
          BY <4>2
        <5> QED  BY <4>1, <5>1 DEF HeldIn
      <4>3. CASE ~(j <= k)
        BY <4>1, <4>3
      <4> QED  BY <4>2, <4>3
    <3> QED  BY <2>1, <3>1, <3>2 DEF HeldIn
  <2>2. ASSUME h \in HeldIn(s, start, k)
        PROVE  h \in HeldIn(s, start, n)
    <3>0. \A m \in 1..n : m \in 1..k \/ m \in (k + 1)..n
      OBVIOUS
    <3>1. CASE h \in start /\ \A m \in 1..k : ~Frees(s[m], h)
      BY <3>0, <3>1 DEF HeldIn
    <3>2. CASE \E j \in 1..k : Stores(s[j], h) /\ \A m \in (j + 1)..k : ~Frees(s[m], h)
      <4>1. PICK j \in 1..k : Stores(s[j], h) /\ \A m \in (j + 1)..k : ~Frees(s[m], h)
        BY <3>2
      <4>2. j \in 1..n /\ \A m \in (j + 1)..n : m \in (j + 1)..k \/ m \in (k + 1)..n
        OBVIOUS
      <4> QED  BY <4>1, <4>2 DEF HeldIn
    <3> QED  BY <2>2, <3>1, <3>2 DEF HeldIn
  <2>3. ASSUME NEW j \in (k + 1)..n, Stores(s[j], h)
        PROVE  h \in HeldIn(s, start, n)
    <3>1. j \in 1..n /\ \A m \in (j + 1)..n : m \in (k + 1)..n
      OBVIOUS
    <3> QED  BY <2>3, <3>1 DEF HeldIn
  <2> QED  BY <2>1, <2>2, <2>3
<1> QED  BY <1>1

(* Commands that stash nothing remove what they free.                      *)
LEMMA HeldNoStore ==
  ASSUME NEW s, NEW start, NEW k \in Nat, NEW n \in Nat, k <= n,
         \A m \in (k + 1)..n : \A h \in Hashes : ~Stores(s[m], h)
  PROVE  \A h \in Hashes :
           h \in HeldIn(s, start, n) <=> h \in HeldIn(s, start, k) /\ \A m \in (k + 1)..n : ~Frees(s[m], h)
<1>1. ASSUME NEW h \in Hashes
      PROVE  h \in HeldIn(s, start, n) <=> h \in HeldIn(s, start, k) /\ \A m \in (k + 1)..n : ~Frees(s[m], h)
  <2>1. ASSUME h \in HeldIn(s, start, n)
        PROVE  h \in HeldIn(s, start, k) /\ \A m \in (k + 1)..n : ~Frees(s[m], h)
    <3>1. CASE h \in start /\ \A m \in 1..n : ~Frees(s[m], h)
      <4>1. \A m \in (k + 1)..n : m \in 1..n
        OBVIOUS
      <4>2. \A m \in 1..k : m \in 1..n
        OBVIOUS
      <4> QED  BY <3>1, <4>1, <4>2 DEF HeldIn
    <3>2. CASE \E j \in 1..n : Stores(s[j], h) /\ \A m \in (j + 1)..n : ~Frees(s[m], h)
      <4>1. PICK j \in 1..n : Stores(s[j], h) /\ \A m \in (j + 1)..n : ~Frees(s[m], h)
        BY <3>2
      <4>2. j \in 1..k
        BY <4>1
      <4>3. (\A m \in (j + 1)..k : m \in (j + 1)..n) /\ (\A m \in (k + 1)..n : m \in (j + 1)..n)
        BY <4>2
      <4> QED  BY <4>1, <4>2, <4>3 DEF HeldIn
    <3> QED  BY <2>1, <3>1, <3>2 DEF HeldIn
  <2>2. ASSUME h \in HeldIn(s, start, k), \A m \in (k + 1)..n : ~Frees(s[m], h)
        PROVE  h \in HeldIn(s, start, n)
    <3>1. CASE h \in start /\ \A m \in 1..k : ~Frees(s[m], h)
      <4>1. \A m \in 1..n : m \in 1..k \/ m \in (k + 1)..n
        OBVIOUS
      <4> QED  BY <2>2, <3>1, <4>1 DEF HeldIn
    <3>2. CASE \E j \in 1..k : Stores(s[j], h) /\ \A m \in (j + 1)..k : ~Frees(s[m], h)
      <4>1. PICK j \in 1..k : Stores(s[j], h) /\ \A m \in (j + 1)..k : ~Frees(s[m], h)
        BY <3>2
      <4>2. j \in 1..n /\ \A m \in (j + 1)..n : m \in (j + 1)..k \/ m \in (k + 1)..n
        OBVIOUS
      <4> QED  BY <2>2, <4>1, <4>2 DEF HeldIn
    <3> QED  BY <2>2, <3>1, <3>2 DEF HeldIn
  <2> QED  BY <2>1, <2>2
<1> QED  BY <1>1

(* Where the commands of three lists in a row are.                         *)
LEMMA Concatenated ==
  ASSUME NEW T, NEW a \in Seq(T), NEW b \in Seq(T), NEW c \in Seq(T), NEW d \in Seq(T),
         NEW s, s = a \o b \o c \o d
  PROVE  /\ s \in Seq(T) /\ Len(a) \in Nat /\ Len(b) \in Nat /\ Len(c) \in Nat /\ Len(d) \in Nat
         /\ Len(s) = Len(a) + Len(b) + Len(c) + Len(d)
         /\ \A k \in 1..Len(a) : s[k] = a[k]
         /\ \A k \in 1..Len(b) : s[Len(a) + k] = b[k]
         /\ \A k \in 1..Len(c) : s[Len(a) + Len(b) + k] = c[k]
         /\ \A k \in 1..Len(d) : s[Len(a) + Len(b) + Len(c) + k] = d[k]
<1> DEFINE e == a \o b
           f == e \o c
<1>1. Len(a) \in Nat /\ Len(b) \in Nat /\ Len(c) \in Nat /\ Len(d) \in Nat
  BY LenProperties
<1>2. /\ e \in Seq(T) /\ Len(e) = Len(a) + Len(b)
      /\ \A k \in 1..(Len(a) + Len(b)) : e[k] = IF k <= Len(a) THEN a[k] ELSE b[k - Len(a)]
  BY ConcatProperties
<1>3. /\ f \in Seq(T) /\ Len(f) = Len(e) + Len(c)
      /\ \A k \in 1..(Len(e) + Len(c)) : f[k] = IF k <= Len(e) THEN e[k] ELSE c[k - Len(e)]
  <2>1. f = e \o c
    OBVIOUS
  <2> HIDE DEF e, f
  <2>2. e \in Seq(T)
    BY <1>2
  <2>3. e \o c \in Seq(T) /\ Len(e \o c) = Len(e) + Len(c)
    BY <2>2, ConcatProperties
  <2>4. \A k \in 1..(Len(e) + Len(c)) : (e \o c)[k] = IF k <= Len(e) THEN e[k] ELSE c[k - Len(e)]
    BY <2>2, ConcatProperties
  <2> QED  BY <2>1, <2>3, <2>4
<1>4. /\ s \in Seq(T) /\ Len(s) = Len(f) + Len(d)
      /\ \A k \in 1..(Len(f) + Len(d)) : s[k] = IF k <= Len(f) THEN f[k] ELSE d[k - Len(f)]
  <2>1. s = f \o d
    OBVIOUS
  <2> HIDE DEF f
  <2> QED  BY <1>3, <2>1, ConcatProperties
<1> HIDE DEF e, f
<1>5. Len(s) = Len(a) + Len(b) + Len(c) + Len(d)
  BY <1>1, <1>2, <1>3, <1>4
<1>6. \A k \in 1..Len(a) : s[k] = a[k]
  BY <1>1, <1>2, <1>3, <1>4
<1>7. ASSUME NEW k \in 1..Len(b) PROVE s[Len(a) + k] = b[k]
  <2>1. e[Len(a) + k] = b[k]
    <3>1. Len(a) + k \in 1..(Len(a) + Len(b)) /\ ~(Len(a) + k <= Len(a)) /\ (Len(a) + k) - Len(a) = k
      BY <1>1
    <3> QED  BY <1>2, <3>1
  <2>2. f[Len(a) + k] = b[k]
    BY <1>1, <1>2, <1>3, <2>1
  <2> QED  BY <1>1, <1>2, <1>3, <1>4, <2>2
<1>8. ASSUME NEW k \in 1..Len(c) PROVE s[Len(a) + Len(b) + k] = c[k]
  <2>1. f[Len(e) + k] = c[k]
    BY <1>1, <1>2, <1>3
  <2> QED  BY <1>1, <1>2, <1>3, <1>4, <2>1
<1>9. ASSUME NEW k \in 1..Len(d) PROVE s[Len(a) + Len(b) + Len(c) + k] = d[k]
  <2>1. s[Len(f) + k] = d[k]
    BY <1>1, <1>2, <1>3, <1>4
  <2> QED  BY <1>1, <1>2, <1>3, <2>1
<1> QED  BY <1>1, <1>4, <1>5, <1>6, <1>7, <1>8, <1>9

-----------------------------------------------------------------------------
-----------------------------------------------------------------------------
(* WriteTransfers at X.                                                    *)

(* What is held at X is what X defines, uses or only passes by.            *)
LEMMA WriteCounts ==
  ASSUME IInv, phase = "write", i < N, NEW X \in Transfers, X = Xf
  PROVE  /\ Counts \in [Hashes -> Nat]
         /\ \A h \in Hashes :
              /\ Uses(stash, X, h) <= Counts[h]
              /\ Counts[h] - Uses(stash, X, h) =
                   Cardinality({p \in stash : order[p[1]] <= i /\ i < order[p[2]] /\ PairSha1(p) = h})
         /\ Alive(X) = {h \in Hashes : Counts[h] > 0}
         /\ Alive(X) = Held \cup Unheld /\ Held \cap Unheld = {}
         /\ SizeOf(Alive(X)) = stashed + SizeOf(Unheld) /\ SizeOf(Unheld) \in Nat
<1>1. Types /\ Ordered /\ Accounts /\ phase \in Planned
  BY DEF IInv, Planned
<1>2. order[X] = i /\ i \in Nat /\ \A u \in Transfers : order[u] = i <=> u = X
  BY <1>1, XfType DEF Types
<1>3. \A p \in stash : /\ p[1] \in Transfers /\ p[2] \in Transfers
                       /\ order[p[1]] \in Nat /\ order[p[2]] \in Nat /\ order[p[1]] < order[p[2]]
                       /\ PairSha1(p) \in Hashes
  BY <1>1, PairType
<1> DEFINE D(h) == {p \in stash : order[p[1]] <= i /\ i <= order[p[2]] /\ PairSha1(p) = h}
           P(h) == {p \in stash : order[p[1]] <= i /\ i < order[p[2]] /\ PairSha1(p) = h}
           B(h) == {p \in stash : p[1] = X /\ PairSha1(p) = h}
           U(h) == {p \in stash : p[2] = X /\ PairSha1(p) = h}
<1>4. ASSUME NEW h \in Hashes
      PROVE  /\ CountedAs(h) \cup B(h) = D(h) /\ CountedAs(h) \cap B(h) = {}
             /\ P(h) \cup U(h) = D(h) /\ P(h) \cap U(h) = {}
             /\ {CountedAs(h), B(h), P(h), U(h), D(h)} \subseteq SUBSET (Transfers \X Transfers)
  <2>1. CountedAs(h) = {p \in stash : order[p[1]] < i /\ i <= order[p[2]] /\ PairSha1(p) = h}
    BY DEF CountedAs, Counted
  <2>2. \A p \in stash : /\ p[1] = X <=> order[p[1]] = i
                         /\ p[2] = X <=> order[p[2]] = i
    BY <1>2, <1>3
  <2>3. CountedAs(h) \cup B(h) = D(h) /\ CountedAs(h) \cap B(h) = {}
    BY <1>2, <1>3, <2>1, <2>2
  <2>4. P(h) \cup U(h) = D(h) /\ P(h) \cap U(h) = {}
    BY <1>2, <1>3, <2>2
  <2>5. stash \subseteq Transfers \X Transfers
    BY <1>1 DEF Types
  <2> QED  BY <2>1, <2>3, <2>4, <2>5
<1>5. stash \in SUBSET (Transfers \X Transfers) /\ stashes \in [Hashes -> Nat]
  BY <1>1 DEF Types
<1>6. \A h \in Hashes : /\ Counts[h] = stashes[h] + Cardinality(B(h)) /\ Defs(stash, X, h) = Cardinality(B(h))
                        /\ Uses(stash, X, h) = Cardinality(U(h)) /\ stashes[h] = Cardinality(CountedAs(h))
  <2> SUFFICES ASSUME NEW h \in Hashes
               PROVE  /\ Counts[h] = stashes[h] + Cardinality(B(h)) /\ Defs(stash, X, h) = Cardinality(B(h))
                      /\ Uses(stash, X, h) = Cardinality(U(h)) /\ stashes[h] = Cardinality(CountedAs(h))
    OBVIOUS
  <2>1. Defs(stash, X, h) = Cardinality(B(h)) /\ Uses(stash, X, h) = Cardinality(U(h))
    BY <1>1, <1>5, UsesPairs
  <2>2. Counts[h] = stashes[h] + Defs(stash, X, h)
    BY DEF Counts
  <2>3. stashes[h] = Cardinality(CountedAs(h))
    BY <1>1 DEF Accounts
  <2> HIDE DEF B, U
  <2> QED  BY <2>1, <2>2, <2>3
<1>7. DOMAIN Counts = Hashes /\ Counts = [h \in Hashes |-> Counts[h]]
  BY DEF Counts
<1> HIDE DEF D, P, B, U
<1>8. ASSUME NEW h \in Hashes
      PROVE  /\ Counts[h] = Cardinality(D(h)) /\ Counts[h] \in Nat
             /\ Uses(stash, X, h) <= Counts[h] /\ Counts[h] - Uses(stash, X, h) = Cardinality(P(h))
             /\ D(h) # {} <=> Counts[h] > 0
  <2>1. /\ CountedAs(h) \in SUBSET (Transfers \X Transfers) /\ B(h) \in SUBSET (Transfers \X Transfers)
        /\ P(h) \in SUBSET (Transfers \X Transfers) /\ U(h) \in SUBSET (Transfers \X Transfers)
        /\ D(h) \in SUBSET (Transfers \X Transfers)
    BY <1>4
  <2>2. Cardinality(D(h)) = Cardinality(CountedAs(h)) + Cardinality(B(h))
    BY <1>4, <2>1, PairsSum
  <2>3. Cardinality(D(h)) = Cardinality(P(h)) + Cardinality(U(h))
    BY <1>4, <2>1, PairsSum
  <2>4. Cardinality(P(h)) \in Nat /\ Cardinality(U(h)) \in Nat /\ Cardinality(D(h)) \in Nat
    BY <2>1, Counting
  <2>5. D(h) # {} <=> Cardinality(D(h)) > 0
    BY <2>1, PairsPositive
  <2> QED  BY <1>6, <2>2, <2>3, <2>4, <2>5
<1>9. Counts \in [Hashes -> Nat]
  BY <1>7, <1>8
<1>10. Alive(X) = {h \in Hashes : Counts[h] > 0}
  <2>1. \A h \in Hashes : h \in Alive(X) <=> D(h) # {}
    BY <1>2 DEF Alive, D
  <2> QED  BY <1>8, <2>1 DEF Alive
<1>11. Alive(X) = Held \cup Unheld /\ Held \cap Unheld = {}
  <2>1. \A h \in Hashes : stashes[h] \in Nat /\ Cardinality(B(h)) \in Nat
    BY <1>4, <1>5, Counting
  <2>2. \A h \in Hashes : Counts[h] > 0 <=> stashes[h] > 0 \/ (stashes[h] = 0 /\ Cardinality(B(h)) > 0)
    BY <1>6, <2>1
  <2>3. Unheld = {h \in Hashes : stashes[h] = 0 /\ Cardinality(B(h)) > 0}
    BY <1>6 DEF Unheld
  <2> QED  BY <1>10, <2>1, <2>2, <2>3 DEF Held
<1>12. SizeOf(Alive(X)) = stashed + SizeOf(Unheld) /\ SizeOf(Unheld) \in Nat
  <2>1. Held \subseteq Hashes /\ Unheld \subseteq Hashes
    BY DEF Held, Unheld
  <2>2. SizeOf(Held \cup Unheld) = SizeOf(Held) + SizeOf(Unheld) /\ SizeOf(Unheld) \in Nat
    BY <1>1, <1>11, <2>1, SizeSum, SizeType
  <2>3. stashed = SizeOf(Held)
    BY <1>1 DEF Accounts
  <2> QED  BY <1>11, <2>2, <2>3
<1> QED  BY <1>8, <1>9, <1>10, <1>11, <1>12 DEF P

(* What X frees, and the accounts after it.                                *)
LEMMA WriteAccounts ==
  ASSUME IInv, WriteTransfer, NEW X \in Transfers, X = Xf
  PROVE  /\ stashes' \in [Hashes -> Nat]
         /\ \A h \in Hashes : stashes'[h] = Cardinality({p \in stash : order[p[1]] <= i /\ i < order[p[2]] /\ PairSha1(p) = h})
         /\ Freed(Counts, stash, X) \subseteq Alive(X)
         /\ {h \in Hashes : stashes'[h] > 0} = Alive(X) \ Freed(Counts, stash, X)
         /\ stashed' = SizeOf({h \in Hashes : stashes'[h] > 0}) /\ stashed' \in Nat /\ stashed' <= SizeOf(Alive(X))
         /\ maxStashed' \in Nat /\ maxStashed' >= maxStashed /\ SizeOf(Alive(X)) <= maxStashed'
         /\ Copies /\ src[X] \cap tgt[X] # {} => SizeOf(Alive(X)) + Cardinality(src[X]) <= maxStashed'
         /\ maxStashed' <= revised
<1>0. phase = "write" /\ i < N /\ phase \in Made
  BY DEF WriteTransfer, Made
<1>1. Types /\ Ordered /\ Accounts /\ Peaks /\ Styled
  BY DEF IInv
<1>2. PICK counts \in [Hashes -> Nat] : counts = Counts
  BY <1>0, WriteCounts
<1>5. /\ \A h \in Hashes : /\ Uses(stash, X, h) <= counts[h]
                           /\ counts[h] - Uses(stash, X, h) =
                                Cardinality({p \in stash : order[p[1]] <= i /\ i < order[p[2]] /\ PairSha1(p) = h})
      /\ Alive(X) = Positive(counts) /\ SizeOf(Alive(X)) = stashed + SizeOf(Unheld)
  BY <1>0, <1>2, WriteCounts DEF Positive
<1>6. stash \in SUBSET (Transfers \X Transfers)
  BY <1>1 DEF Types
<1>7. /\ Release(counts, stash, X) \in [Hashes -> Nat]
      /\ Positive(counts) = Positive(Release(counts, stash, X)) \cup Freed(counts, stash, X)
      /\ Positive(Release(counts, stash, X)) = Positive(counts) \ Freed(counts, stash, X)
      /\ SizeOf(Positive(Release(counts, stash, X))) = SizeOf(Positive(counts)) - SizeOf(Freed(counts, stash, X))
      /\ SizeOf(Positive(Release(counts, stash, X))) \in Nat /\ SizeOf(Positive(counts)) \in Nat
      /\ SizeOf(Positive(Release(counts, stash, X))) <= SizeOf(Positive(counts))
  <2>1. \A h \in Hashes : Uses(stash, X, h) <= counts[h]
    BY <1>5
  <2>2. /\ Release(counts, stash, X) \in [Hashes -> Nat]
        /\ Positive(counts) = Positive(Release(counts, stash, X)) \cup Freed(counts, stash, X)
        /\ Positive(Release(counts, stash, X)) = Positive(counts) \ Freed(counts, stash, X)
    BY <1>1, <1>6, <2>1, ReleaseHeld
  <2>3. /\ SizeOf(Positive(Release(counts, stash, X))) = SizeOf(Positive(counts)) - SizeOf(Freed(counts, stash, X))
        /\ SizeOf(Positive(Release(counts, stash, X))) \in Nat
    BY <1>1, <1>6, <2>1, ReleaseHeld
  <2>4. /\ SizeOf(Positive(counts)) \in Nat
        /\ SizeOf(Positive(Release(counts, stash, X))) <= SizeOf(Positive(counts))
    BY <1>1, <1>6, <2>1, ReleaseHeld
  <2> QED  BY <2>2, <2>3, <2>4
<1>8. /\ stashes' = Release(counts, stash, X)
      /\ stashed' = (stashed + SizeOf(Unheld)) - SizeOf(Freed(counts, stash, X))
      /\ maxStashed' = Max({maxStashed, stashed + SizeOf(Unheld),
                            IF Copies THEN Peak(X, stashed + SizeOf(Unheld)) ELSE stashed + SizeOf(Unheld)})
  <2>1. stashes' = Release(counts, stash, X)
    BY <1>2 DEF WriteTransfer
  <2>2. stashed' = (stashed + SizeOf(Unheld)) - SizeOf(Freed(counts, stash, X))
    <3>1. stashed' = (stashed + SizeOf(Unheld)) - SizeOf(Freed(Counts, stash, Xf))
      BY DEF WriteTransfer
    <3> QED  BY <1>2, <3>1
  <2>3. maxStashed' = Max({maxStashed, stashed + SizeOf(Unheld),
                           IF Copies THEN Peak(Xf, stashed + SizeOf(Unheld)) ELSE stashed + SizeOf(Unheld)})
    BY DEF WriteTransfer
  <2>4. maxStashed' = Max({maxStashed, stashed + SizeOf(Unheld),
                           IF Copies THEN Peak(X, stashed + SizeOf(Unheld)) ELSE stashed + SizeOf(Unheld)})
    BY <2>3, Zenon
  <2> QED  BY <2>1, <2>2, <2>4
<1>9. {h \in Hashes : stashes'[h] > 0} = Positive(Release(counts, stash, X))
  BY <1>8 DEF Positive
<1>10. stashed' = SizeOf(Positive(Release(counts, stash, X)))
  <2>1. stashed + SizeOf(Unheld) = SizeOf(Positive(counts))
    BY <1>5
  <2>2. stashed' = SizeOf(Positive(counts)) - SizeOf(Freed(counts, stash, X))
    BY <1>8, <2>1
  <2> QED  BY <1>7, <2>2
<1> DEFINE n == SizeOf(Alive(X))
           m == IF Copies THEN Peak(X, n) ELSE n
<1>11. n \in Nat /\ maxStashed \in Nat /\ Cardinality(src[X]) \in Nat /\ revised \in Nat
  BY <1>1, <1>5, <1>7, OverlapType DEF Types
<1>12. maxStashed' = Max({maxStashed, n, m})
  BY <1>5, <1>8
<1>13. /\ m \in Nat /\ (Copies /\ src[X] \cap tgt[X] # {} => m = n + Cardinality(src[X]))
       /\ ~(Copies /\ src[X] \cap tgt[X] # {}) => m = n
  BY <1>11 DEF Peak
<1>14. Copies => style[X] \in {"move", "patch"}
  BY DEF Copies
<1>15. n <= revised /\ m <= revised /\ maxStashed <= revised
  <2>1. Needs(X, revised) /\ maxStashed <= revised
    BY <1>0, <1>1 DEF Peaks
  <2> QED  BY <1>13, <1>14, <2>1 DEF Needs, Copying
<1> HIDE DEF n, m
<1>16. maxStashed' \in Nat /\ maxStashed' \in {maxStashed, n, m} /\ maxStashed' >= maxStashed /\ maxStashed' >= n /\ maxStashed' >= m
  BY <1>11, <1>12, <1>13, MaxThree
<1>17. n <= maxStashed' /\ m <= maxStashed' /\ maxStashed' <= revised
  BY <1>11, <1>13, <1>15, <1>16
<1>18. \A h \in Hashes : stashes'[h] = Cardinality({p \in stash : order[p[1]] <= i /\ i < order[p[2]] /\ PairSha1(p) = h})
  BY <1>5, <1>8 DEF Release
<1>19. Freed(Counts, stash, X) = Freed(counts, stash, X)
  BY <1>2
<1>20. /\ Freed(Counts, stash, X) \subseteq Alive(X)
       /\ {h \in Hashes : stashes'[h] > 0} = Alive(X) \ Freed(Counts, stash, X)
  BY <1>5, <1>7, <1>9, <1>19
<1>21. stashed' = SizeOf({h \in Hashes : stashes'[h] > 0}) /\ stashed' \in Nat /\ stashed' <= n
  BY <1>5, <1>7, <1>9, <1>10 DEF n
<1>22. Copies /\ src[X] \cap tgt[X] # {} => n + Cardinality(src[X]) <= maxStashed'
  BY <1>13, <1>17
<1>23. stashes' \in [Hashes -> Nat]
  BY <1>7, <1>8
<1> QED  BY <1>16, <1>17, <1>18, <1>20, <1>21, <1>22, <1>23 DEF n

-----------------------------------------------------------------------------
StashCmds == Listed({StashCmd(h, StashRange(h)) : h \in Unheld})
FreeCmds  == Listed({FreeCmd(h) : h \in Freed(Counts, stash, Xf)})

(* Images of finite sets of hashes.                                        *)
LEMMA FiniteHashes ==
  ASSUME Types, NEW A \in SUBSET Hashes
  PROVE  IsFiniteSet(A)
  BY HashesType, FS_Subset

(* The stash commands before a transfer: one for each content that is not  *)
(* held yet.                                                               *)
LEMMA StashCmdsType ==
  ASSUME IInv, phase = "write", i < N, NEW X \in Transfers, X = Xf
  PROVE  /\ StashCmds \in Seq(Commands) /\ Len(StashCmds) \in Nat
         /\ \A k \in 1..Len(StashCmds) :
              \E h \in Unheld : \E x \in Transfers :
                 /\ StashCmds[k] = StashCmd(h, Overlap(X, x)) /\ StashRange(h) = Overlap(X, x)
         /\ \A h \in Unheld : \E k \in 1..Len(StashCmds) : StashCmds[k] = StashCmd(h, StashRange(h))
         /\ \A h \in Unheld : StashRange(h) \in SUBSET Blocks
<1>1. Types /\ Ordered /\ phase \in Planned
  BY DEF IInv, Planned
<1> DEFINE S == {StashCmd(h, StashRange(h)) : h \in Unheld}
           f == [h \in Unheld |-> StashCmd(h, StashRange(h))]
<1>2. \A h \in Unheld : \E x \in Transfers : StashRange(h) = Overlap(X, x)
  <2> SUFFICES ASSUME NEW h \in Unheld PROVE \E x \in Transfers : StashRange(h) = Overlap(X, x)
    OBVIOUS
  <2>1. Defs(stash, X, h) > 0
    BY DEF Unheld
  <2>2. {x \in Transfers : <<X, x>> \in stash /\ StashSha1(X, x) = h} # {}
    <3>1. CASE {x \in Transfers : <<X, x>> \in stash /\ StashSha1(X, x) = h} = {}
      <4>1. Defs(stash, X, h) = 0
        BY <3>1, FS_EmptySet DEF Defs
      <4> QED  BY <2>1, <4>1
    <3> QED  BY <3>1
  <2>3. PICK x \in DefinedBy(X) : StashSha1(X, x) = h
    BY <2>2 DEF DefinedBy
  <2>4. (CHOOSE y \in DefinedBy(Xf) : StashSha1(Xf, y) = h) \in DefinedBy(X)
    BY <2>3
  <2> QED  BY <2>4 DEF StashRange, DefinedBy
<1>3. Unheld \in SUBSET Hashes
  BY DEF Unheld
<1>4. \A h \in Unheld : StashRange(h) \in SUBSET Blocks
  BY <1>1, <1>2, OverlapType
<1>5. S \subseteq Commands
  BY <1>3, <1>4 DEF StashCmd, Commands
<1>6. IsFiniteSet(S)
  <2>1. IsFiniteSet(Unheld)
    BY <1>1, <1>3, FiniteHashes
  <2>2. f \in Surjection(Unheld, S)
    BY Fun_IsSurj
  <2> HIDE DEF f, S
  <2> QED  BY <2>1, <2>2, FS_Surjection
<1>7. StashCmds = Listed(S)
  BY DEF StashCmds
<1>8. /\ StashCmds \in Seq(S) /\ \A x \in S : \E k \in 1..Len(StashCmds) : StashCmds[k] = x
  <2> HIDE DEF S
  <2> QED  BY <1>6, <1>7, ListedType
<1>9. Len(StashCmds) \in Nat /\ \A k \in 1..Len(StashCmds) : StashCmds[k] \in S
  <2> HIDE DEF S
  <2> QED  BY <1>8, LenProperties, ElementOfSeq
<1>10. StashCmds \in Seq(Commands)
  <2> HIDE DEF S
  <2> QED  BY <1>5, <1>8, <1>9, SeqDef
<1>11. \A k \in 1..Len(StashCmds) :
         \E h \in Unheld : \E x \in Transfers :
            StashCmds[k] = StashCmd(h, Overlap(X, x)) /\ StashRange(h) = Overlap(X, x)
  <2> SUFFICES ASSUME NEW k \in 1..Len(StashCmds)
               PROVE  \E h \in Unheld : \E x \in Transfers :
                        StashCmds[k] = StashCmd(h, Overlap(X, x)) /\ StashRange(h) = Overlap(X, x)
    OBVIOUS
  <2>1. PICK h \in Unheld : StashCmds[k] = StashCmd(h, StashRange(h))
    BY <1>9
  <2>2. PICK x \in Transfers : StashRange(h) = Overlap(X, x)
    BY <1>2
  <2> QED  BY <2>1, <2>2
<1>12. \A h \in Unheld : \E k \in 1..Len(StashCmds) : StashCmds[k] = StashCmd(h, StashRange(h))
  BY <1>8
<1> QED  BY <1>4, <1>9, <1>10, <1>11, <1>12

(* The free commands after a transfer: one for each content it has used    *)
(* last.                                                                   *)
LEMMA FreeCmdsType ==
  ASSUME IInv, phase = "write", i < N, NEW X \in Transfers, X = Xf
  PROVE  /\ FreeCmds \in Seq(Commands) /\ Len(FreeCmds) \in Nat
         /\ \A k \in 1..Len(FreeCmds) : \E h \in Freed(Counts, stash, X) : FreeCmds[k] = FreeCmd(h)
         /\ \A h \in Freed(Counts, stash, X) : \E k \in 1..Len(FreeCmds) : FreeCmds[k] = FreeCmd(h)
         /\ \A k, m \in 1..Len(FreeCmds) : FreeCmds[k] = FreeCmds[m] => k = m
<1>1. Types
  BY DEF IInv
<1> DEFINE G == Freed(Counts, stash, X)
           S == {FreeCmd(h) : h \in G}
           f == [h \in G |-> FreeCmd(h)]
<1>2. G \in SUBSET Hashes
  BY DEF Freed
<1> HIDE DEF G
<1>3. S \subseteq Commands
  BY <1>2 DEF FreeCmd, Commands
<1>4. IsFiniteSet(S)
  <2>1. IsFiniteSet(G)
    BY <1>1, <1>2, FiniteHashes
  <2>2. f \in Surjection(G, S)
    BY Fun_IsSurj
  <2> HIDE DEF f, S
  <2> QED  BY <2>1, <2>2, FS_Surjection
<1>5. FreeCmds = Listed(S)
  BY DEF FreeCmds, G
<1>6. /\ FreeCmds \in Seq(S) /\ \A x \in S : \E k \in 1..Len(FreeCmds) : FreeCmds[k] = x
      /\ \A k, m \in 1..Len(FreeCmds) : FreeCmds[k] = FreeCmds[m] => k = m
  <2> HIDE DEF S
  <2> QED  BY <1>4, <1>5, ListedType
<1>7. Len(FreeCmds) \in Nat /\ \A k \in 1..Len(FreeCmds) : FreeCmds[k] \in S
  <2> HIDE DEF S
  <2> QED  BY <1>6, LenProperties, ElementOfSeq
<1>8. FreeCmds \in Seq(Commands)
  <2> HIDE DEF S
  <2> QED  BY <1>3, <1>6, <1>7, SeqDef
<1> QED  BY <1>6, <1>7, <1>8 DEF G

(* The command of a transfer writes its target, except the blocks that     *)
(* have the content already.                                               *)
LEMMA CommandType ==
  ASSUME IInv, phase = "write", i < N, NEW X \in Transfers, X = Xf
  PROVE  /\ Command \in Seq(Commands) /\ Len(Command) \in {0, 1}
         /\ \A k \in 1..Len(Command) :
              /\ Command[k].op \in {"new", "zero", "move", "patch"} /\ Command[k].tgt \subseteq tgt[X]
              /\ Command[k].op = "zero" => X \in zero
              /\ \/ Command[k].src = {}
                 \/ Copies /\ Command[k].src = src[X] /\ Command[k].tgt = tgt[X] /\ Command[k].refs = Refs
         /\ \A b \in tgt[X] : srcImg[b] = tgtImg[b] \/ \E k \in 1..Len(Command) : b \in Command[k].tgt
<1>1. Types /\ Ordered /\ Styled /\ phase \in Planned /\ phase \in Made
  BY DEF IInv, Planned, Made
<1>2. tgt[X] \in SUBSET Blocks /\ src[X] \in SUBSET Blocks
  BY <1>1, OverlapType
<1>3. style[X] \in {"new", "zero", "move", "patch"}
  BY <1>1 DEF Types, Styled
<1> DEFINE toZero == tgt[X] \ src[X]
<1>4. Command = IF style[X] = "new" THEN <<WriteCmd("new", tgt[X])>>
                ELSE IF style[X] = "zero" /\ toZero # {} THEN <<WriteCmd("zero", toZero)>>
                ELSE IF Copies THEN <<CopyCmd(style[X], tgt[X], src[X], Refs)>> ELSE <<>>
  BY DEF Command
<1>5. Copies <=> (style[X] = "move" /\ src[X] # tgt[X]) \/ style[X] = "patch"
  BY DEF Copies
<1>6. Refs \subseteq [range : SUBSET Blocks, id : Hashes]
  <2>1. \A u \in UsedBy(X) : Overlap(u, X) \in SUBSET Blocks /\ StashSha1(u, X) \in Hashes
    <3> SUFFICES ASSUME NEW u \in UsedBy(X) PROVE Overlap(u, X) \in SUBSET Blocks /\ StashSha1(u, X) \in Hashes
      OBVIOUS
    <3>1. u \in Transfers /\ <<u, X>> \in stash
      BY DEF UsedBy
    <3>2. Overlap(u, X) # {}
      BY <1>1, <3>1 DEF Ordered
    <3> QED  BY <1>1, <3>1, <3>2, OverlapType
  <2> QED  BY <2>1 DEF Refs
<1> HIDE DEF toZero
<1>7. CASE style[X] = "new"
  <2>1. Command = <<WriteCmd("new", tgt[X])>>
    BY <1>4, <1>7
  <2>2. /\ WriteCmd("new", tgt[X]) \in Commands /\ WriteCmd("new", tgt[X]).op = "new"
        /\ WriteCmd("new", tgt[X]).tgt = tgt[X] /\ WriteCmd("new", tgt[X]).src = {}
    BY <1>2 DEF WriteCmd, Commands
  <2>3. Command \in Seq(Commands) /\ Len(Command) = 1 /\ Command[1] = WriteCmd("new", tgt[X])
    BY <2>1, <2>2
  <2>4. \A k \in 1..Len(Command) : k = 1
    BY <2>3
  <2>5. 1 \in 1..Len(Command)
    BY <2>3
  <2> QED  BY <2>2, <2>3, <2>4, <2>5
<1>8. CASE style[X] = "zero"
  <2>0. X \in zero /\ \A b \in tgt[X] \cap src[X] : srcImg[b] = tgtImg[b]
    BY <1>1, <1>8 DEF Styled
  <2>1. CASE toZero # {}
    <3>1. Command = <<WriteCmd("zero", toZero)>>
      BY <1>4, <1>8, <2>1
    <3>2. /\ WriteCmd("zero", toZero) \in Commands /\ WriteCmd("zero", toZero).op = "zero"
          /\ WriteCmd("zero", toZero).tgt = toZero /\ WriteCmd("zero", toZero).src = {}
      BY <1>2 DEF WriteCmd, Commands, toZero
    <3>3. Command \in Seq(Commands) /\ Len(Command) = 1 /\ Command[1] = WriteCmd("zero", toZero)
      BY <3>1, <3>2
    <3>4. \A k \in 1..Len(Command) : k = 1
      BY <3>3
    <3>5. 1 \in 1..Len(Command)
      BY <3>3
    <3>6. \A b \in tgt[X] : srcImg[b] = tgtImg[b] \/ \E k \in 1..Len(Command) : b \in Command[k].tgt
      BY <2>0, <3>2, <3>3, <3>5 DEF toZero
    <3>7. toZero \subseteq tgt[X]
      BY DEF toZero
    <3> QED  BY <2>0, <3>2, <3>3, <3>4, <3>6, <3>7
  <2>2. CASE toZero = {}
    <3>1. Command = <<>>
      BY <1>4, <1>5, <1>8, <2>2
    <3>2. Command \in Seq(Commands) /\ Len(Command) = 0
      BY <3>1, EmptySeq
    <3>3. \A k \in 1..Len(Command) : FALSE
      BY <3>2
    <3>4. \A b \in tgt[X] : srcImg[b] = tgtImg[b]
      BY <2>0, <2>2 DEF toZero
    <3> QED  BY <3>2, <3>3, <3>4
  <2> QED  BY <2>1, <2>2
<1>9. CASE Copies
  <2>1. Command = <<CopyCmd(style[X], tgt[X], src[X], Refs)>> /\ style[X] \in {"move", "patch"}
    BY <1>4, <1>5, <1>9
  <2> DEFINE C == CopyCmd(style[X], tgt[X], src[X], Refs)
  <2>2. C \in Commands /\ C.op \in {"move", "patch"} /\ C.tgt = tgt[X] /\ C.src = src[X] /\ C.refs = Refs
    BY <1>2, <1>6, <2>1 DEF CopyCmd, Commands
  <2> HIDE DEF C
  <2>3. Command \in Seq(Commands) /\ Len(Command) = 1 /\ Command[1] = C
    BY <2>1, <2>2 DEF C
  <2>4. \A k \in 1..Len(Command) : k = 1
    BY <2>3
  <2>5. 1 \in 1..Len(Command)
    BY <2>3
  <2> QED  BY <1>9, <2>2, <2>3, <2>4, <2>5
<1>10. CASE style[X] = "move" /\ src[X] = tgt[X]
  <2>1. Command = <<>>
    BY <1>4, <1>5, <1>10
  <2>2. Command \in Seq(Commands) /\ Len(Command) = 0
    BY <2>1, EmptySeq
  <2>3. \A k \in 1..Len(Command) : FALSE
    BY <2>2
  <2>4. Sha1(srcImg, tgt[X]) = Sha1(tgtImg, tgt[X])
    BY <1>1, <1>10 DEF Styled, Identical
  <2>5. \A b \in tgt[X] : srcImg[b] = tgtImg[b]
    BY <1>2, <2>4, Sha1Type
  <2> QED  BY <2>2, <2>3, <2>5
<1> QED  BY <1>3, <1>5, <1>7, <1>8, <1>9, <1>10

-----------------------------------------------------------------------------
(* The list s that the commands for X make of cmds: L commands as before,  *)
(* a that stash, c that write and f that free.                             *)
ListedFor(X, s, L, a, c, f) ==
  /\ s \in Seq(Commands) /\ L \in Nat /\ a \in Nat /\ c \in {0, 1} /\ f \in Nat /\ Len(s) = L + a + c + f
  /\ \A k \in 1..L : s[k] = cmds[k]
  /\ \A k \in (L + 1)..(L + a) : \E h \in Unheld : \E x \in Transfers :
       s[k] = StashCmd(h, Overlap(X, x)) /\ StashRange(h) = Overlap(X, x)
  /\ \A h \in Unheld : \E k \in (L + 1)..(L + a) : s[k] = StashCmd(h, StashRange(h))
  /\ \A k \in (L + a + 1)..(L + a + c) : k = L + a + 1 /\ c = 1 /\ s[k] = Command[1]
  /\ \A k \in (L + a + c + 1)..(L + a + c + f) : \E h \in Freed(Counts, stash, X) : s[k] = FreeCmd(h)
  /\ \A h \in Freed(Counts, stash, X) : \E k \in (L + a + c + 1)..(L + a + c + f) : s[k] = FreeCmd(h)
  /\ \A k, m \in (L + a + c + 1)..(L + a + c + f) : s[k] = s[m] => k = m

(* WriteTransfers appends stashes, at most one command, and frees.         *)
LEMMA WriteList ==
  ASSUME IInv, WriteTransfer, NEW X \in Transfers, X = Xf
  PROVE  \E s, L, a, c, f : s = cmds' /\ L = Len(cmds) /\ c = Len(Command) /\ ListedFor(X, s, L, a, c, f)
<1> SUFFICES ASSUME NEW s, s = cmds', NEW L, L = Len(cmds), NEW a, a = Len(StashCmds),
                    NEW c, c = Len(Command), NEW f, f = Len(FreeCmds)
             PROVE  ListedFor(X, s, L, a, c, f)
  OBVIOUS
<1>0. phase = "write" /\ i < N
  BY DEF WriteTransfer
<1>1. cmds \in Seq(Commands)
  BY DEF IInv, Types
<1>2. /\ StashCmds \in Seq(Commands)
      /\ \A k \in 1..Len(StashCmds) : \E h \in Unheld : \E x \in Transfers :
           StashCmds[k] = StashCmd(h, Overlap(X, x)) /\ StashRange(h) = Overlap(X, x)
      /\ \A h \in Unheld : \E k \in 1..Len(StashCmds) : StashCmds[k] = StashCmd(h, StashRange(h))
  BY <1>0, StashCmdsType
<1>3. /\ FreeCmds \in Seq(Commands)
      /\ \A k \in 1..Len(FreeCmds) : \E h \in Freed(Counts, stash, X) : FreeCmds[k] = FreeCmd(h)
      /\ \A h \in Freed(Counts, stash, X) : \E k \in 1..Len(FreeCmds) : FreeCmds[k] = FreeCmd(h)
      /\ \A k, m \in 1..Len(FreeCmds) : FreeCmds[k] = FreeCmds[m] => k = m
  BY <1>0, FreeCmdsType
<1>4. Command \in Seq(Commands) /\ Len(Command) \in {0, 1}
  BY <1>0, CommandType
<1>5. s = cmds \o StashCmds \o Command \o FreeCmds
  BY DEF WriteTransfer, StashCmds, FreeCmds
<1>6. /\ s \in Seq(Commands) /\ L \in Nat /\ a \in Nat /\ c \in Nat /\ f \in Nat
      /\ Len(s) = L + a + c + f
      /\ \A k \in 1..L : s[k] = cmds[k]
      /\ \A k \in 1..a : s[L + k] = StashCmds[k]
      /\ \A k \in 1..c : s[L + a + k] = Command[k]
      /\ \A k \in 1..f : s[L + a + c + k] = FreeCmds[k]
  <2>1. PICK T : T = Commands
    OBVIOUS
  <2>2. PICK sa \in Seq(T) : sa = cmds
    BY <1>1, <2>1
  <2>3. PICK sb \in Seq(T) : sb = StashCmds
    BY <1>2, <2>1
  <2>4. PICK sc \in Seq(T) : sc = Command
    BY <1>4, <2>1
  <2>5. PICK sd \in Seq(T) : sd = FreeCmds
    BY <1>3, <2>1
  <2>6. s = sa \o sb \o sc \o sd
    BY <1>5, <2>2, <2>3, <2>4, <2>5
  <2>7. /\ s \in Seq(T) /\ Len(sa) \in Nat /\ Len(sb) \in Nat /\ Len(sc) \in Nat /\ Len(sd) \in Nat
        /\ Len(s) = Len(sa) + Len(sb) + Len(sc) + Len(sd)
        /\ \A k \in 1..Len(sa) : s[k] = sa[k]
        /\ \A k \in 1..Len(sb) : s[Len(sa) + k] = sb[k]
        /\ \A k \in 1..Len(sc) : s[Len(sa) + Len(sb) + k] = sc[k]
        /\ \A k \in 1..Len(sd) : s[Len(sa) + Len(sb) + Len(sc) + k] = sd[k]
    BY <2>6, Concatenated
  <2>8. Len(sa) = L /\ Len(sb) = a /\ Len(sc) = c /\ Len(sd) = f
    BY <2>2, <2>3, <2>4, <2>5
  <2> QED  BY <2>1, <2>2, <2>3, <2>4, <2>5, <2>7, <2>8
<1>7. \A k \in (L + 1)..(L + a) : \E h \in Unheld : \E x \in Transfers :
        s[k] = StashCmd(h, Overlap(X, x)) /\ StashRange(h) = Overlap(X, x)
  <2> SUFFICES ASSUME NEW k \in (L + 1)..(L + a)
               PROVE  \E h \in Unheld : \E x \in Transfers : s[k] = StashCmd(h, Overlap(X, x)) /\ StashRange(h) = Overlap(X, x)
    OBVIOUS
  <2>1. k - L \in 1..a /\ L + (k - L) = k
    BY <1>6
  <2>2. s[k] = StashCmds[k - L]
    BY <1>6, <2>1
  <2> QED  BY <1>2, <2>1, <2>2
<1>8. \A h \in Unheld : \E k \in (L + 1)..(L + a) : s[k] = StashCmd(h, StashRange(h))
  <2> SUFFICES ASSUME NEW h \in Unheld PROVE \E k \in (L + 1)..(L + a) : s[k] = StashCmd(h, StashRange(h))
    OBVIOUS
  <2>1. PICK k \in 1..a : StashCmds[k] = StashCmd(h, StashRange(h))
    BY <1>2
  <2>2. L + k \in (L + 1)..(L + a) /\ s[L + k] = StashCmds[k]
    BY <1>6
  <2> QED  BY <2>1, <2>2
<1>9. \A k \in (L + a + 1)..(L + a + c) : k = L + a + 1 /\ c = 1 /\ s[k] = Command[1]
  <2> SUFFICES ASSUME NEW k \in (L + a + 1)..(L + a + c) PROVE k = L + a + 1 /\ c = 1 /\ s[k] = Command[1]
    OBVIOUS
  <2>0. (c = 0 \/ c = 1) /\ L \in Nat /\ a \in Nat
    BY <1>4, <1>6
  <2>1. c = 1 /\ k = L + a + 1 /\ 1 \in 1..c
    BY <2>0
  <2> QED  BY <1>6, <2>1
<1>10. \A k \in (L + a + c + 1)..(L + a + c + f) : k - (L + a + c) \in 1..f /\ s[k] = FreeCmds[k - (L + a + c)]
  <2> SUFFICES ASSUME NEW k \in (L + a + c + 1)..(L + a + c + f)
               PROVE  k - (L + a + c) \in 1..f /\ s[k] = FreeCmds[k - (L + a + c)]
    OBVIOUS
  <2>1. k - (L + a + c) \in 1..f /\ L + a + c + (k - (L + a + c)) = k
    BY <1>6
  <2> QED  BY <1>6, <2>1
<1>11. \A k \in (L + a + c + 1)..(L + a + c + f) : \E h \in Freed(Counts, stash, X) : s[k] = FreeCmd(h)
  BY <1>3, <1>10
<1>12. \A h \in Freed(Counts, stash, X) : \E k \in (L + a + c + 1)..(L + a + c + f) : s[k] = FreeCmd(h)
  <2> SUFFICES ASSUME NEW h \in Freed(Counts, stash, X)
               PROVE  \E k \in (L + a + c + 1)..(L + a + c + f) : s[k] = FreeCmd(h)
    OBVIOUS
  <2>1. PICK k \in 1..f : FreeCmds[k] = FreeCmd(h)
    BY <1>3
  <2>2. L + a + c + k \in (L + a + c + 1)..(L + a + c + f) /\ s[L + a + c + k] = FreeCmds[k]
    BY <1>6
  <2> QED  BY <2>1, <2>2
<1>13. \A k, m \in (L + a + c + 1)..(L + a + c + f) : s[k] = s[m] => k = m
  <2> SUFFICES ASSUME NEW k \in (L + a + c + 1)..(L + a + c + f), NEW m \in (L + a + c + 1)..(L + a + c + f), s[k] = s[m]
               PROVE  k = m
    OBVIOUS
  <2>1. k - (L + a + c) = m - (L + a + c)
    BY <1>3, <1>10
  <2> QED  BY <1>6, <2>1
<1>14. c \in {0, 1}
  BY <1>4
<1> QED  BY <1>6, <1>7, <1>8, <1>9, <1>11, <1>12, <1>13, <1>14 DEF ListedFor

(* HeldAt in the next state.                                               *)
LEMMA HeldNext ==
  ASSUME Hashes' = Hashes, NEW k, NEW s, s = cmds', NEW start, start = slots'
  PROVE  HeldAt(k)' = HeldIn(s, start, k)
  BY DEF HeldAt, HeldIn, Frees, Stores

(* The slots while the commands for X run.                                 *)
SlotsFor(X, s, L, a, c) ==
  /\ \A k \in 0..L : HeldIn(s, {}, k) = HeldAt(k)
  /\ \A k \in L..Len(s) : HeldIn(s, {}, k) \subseteq Alive(X)
  /\ \A k \in (L + a)..(L + a + c) : HeldIn(s, {}, k) = Alive(X)
  /\ HeldIn(s, {}, Len(s)) = Alive(X) \ Freed(Counts, stash, X)
  /\ \A k \in (L + a + c + 1)..Len(s) : s[k].op = "free" /\ s[k].id \in HeldIn(s, {}, k - 1)

(* While the commands of X run, the slots hold what is alive at X, and     *)
(* after them what is still counted.                                       *)
LEMMA WriteSlots ==
  ASSUME IInv, WriteTransfer, NEW X \in Transfers, X = Xf,
         NEW s, NEW L, NEW a, NEW c, NEW f, L = Len(cmds), c = Len(Command), ListedFor(X, s, L, a, c, f)
  PROVE  SlotsFor(X, s, L, a, c)
<1>0. phase = "write" /\ i < N /\ phase \in Made /\ slots = {}
  BY DEF WriteTransfer, Made, IInv, Before
<1>01. L \in Nat /\ a \in Nat /\ c \in Nat /\ f \in Nat /\ Len(s) = L + a + c + f
  BY DEF ListedFor
<1>1. /\ s \in Seq(Commands) /\ L \in Nat /\ a \in Nat /\ c \in {0, 1} /\ f \in Nat /\ Len(s) = L + a + c + f
      /\ \A k \in 1..L : s[k] = cmds[k]
      /\ \A k \in (L + 1)..(L + a) : \E h \in Unheld : \E x \in Transfers :
           s[k] = StashCmd(h, Overlap(X, x)) /\ StashRange(h) = Overlap(X, x)
      /\ \A h \in Unheld : \E k \in (L + 1)..(L + a) : s[k] = StashCmd(h, StashRange(h))
      /\ \A k \in (L + a + 1)..(L + a + c) : k = L + a + 1 /\ c = 1 /\ s[k] = Command[1]
      /\ \A k \in (L + a + c + 1)..(L + a + c + f) : \E h \in Freed(Counts, stash, X) : s[k] = FreeCmd(h)
      /\ \A h \in Freed(Counts, stash, X) : \E k \in (L + a + c + 1)..(L + a + c + f) : s[k] = FreeCmd(h)
      /\ \A k, m \in (L + a + c + 1)..(L + a + c + f) : s[k] = s[m] => k = m
  BY DEF ListedFor
<1>2. c = 1 => Command[1].op \in {"new", "zero", "move", "patch"}
  BY <1>0, CommandType
<1>3. Alive(X) = Held \cup Unheld /\ Held \subseteq Hashes /\ Unheld \subseteq Hashes
  BY <1>0, WriteCounts DEF Held, Unheld
<1>4. \A k \in 0..L : HeldIn(s, {}, k) = HeldAt(k)
  <2> SUFFICES ASSUME NEW k \in 0..L PROVE HeldIn(s, {}, k) = HeldAt(k)
    OBVIOUS
  <2>1. k \in Nat /\ \A m \in 1..k : s[m] = cmds[m]
    BY <1>1
  <2>2. PICK t : t = cmds
    OBVIOUS
  <2>3. HeldIn(s, {}, k) = HeldIn(t, {}, k)
    BY <2>1, <2>2, HeldSame
  <2> QED  BY <1>0, <2>2, <2>3 DEF HeldAt
<1>5. HeldIn(s, {}, L) = Held
  <2>1. L \in 0..L
    BY <1>1
  <2>2. \A h \in Hashes : h \in HeldAt(L) <=> stashes[h] > 0
    BY <1>0 DEF IInv, Fits
  <2>3. HeldAt(L) \subseteq Hashes
    BY DEF HeldAt, HeldIn
  <2> QED  BY <1>4, <2>1, <2>2, <2>3 DEF Held
<1>6. \A k \in (L + 1)..(L + a + c) : \A h \in Hashes :
        ~Frees(s[k], h) /\ (Stores(s[k], h) => h \in Unheld)
  <2> SUFFICES ASSUME NEW k \in (L + 1)..(L + a + c), NEW h \in Hashes
               PROVE  ~Frees(s[k], h) /\ (Stores(s[k], h) => h \in Unheld)
    OBVIOUS
  <2>1. CASE k \in (L + 1)..(L + a)
    <3>1. PICK g \in Unheld : \E x \in Transfers : s[k] = StashCmd(g, Overlap(X, x))
      BY <1>1, <2>1
    <3>2. s[k].op = "stash" /\ s[k].id = g
      BY <3>1 DEF StashCmd
    <3> QED  BY <3>2 DEF Frees, Stores
  <2>2. CASE k \in (L + a + 1)..(L + a + c)
    <3>1. s[k].op \in {"new", "zero", "move", "patch"}
      BY <1>1, <1>2, <2>2
    <3> QED  BY <3>1 DEF Frees, Stores
  <2>3. k \in (L + 1)..(L + a) \/ k \in (L + a + 1)..(L + a + c)
    BY <1>1
  <2> QED  BY <2>1, <2>2, <2>3
<1>70. \A k : HeldIn(s, {}, k) \subseteq Hashes
  BY DEF HeldIn
<1>7. ASSUME NEW k \in L..(L + a + c), NEW h \in Hashes
      PROVE  h \in HeldIn(s, {}, k) <=> h \in Held \/ \E m \in (L + 1)..k : Stores(s[m], h)
  <2>1. L <= k /\ k \in Nat
    BY <1>1
  <2>2. \A m \in (L + 1)..k : \A g \in Hashes : ~Frees(s[m], g)
    <3>1. \A m \in (L + 1)..k : m \in (L + 1)..(L + a + c)
      BY <1>01
    <3> QED  BY <1>6, <3>1
  <2>3. h \in HeldIn(s, {}, k) <=> h \in HeldIn(s, {}, L) \/ \E m \in (L + 1)..k : Stores(s[m], h)
    BY <1>01, <2>1, <2>2, HeldNoFree
  <2> QED  BY <1>5, <2>3
<1>8. \A k \in L..(L + a + c) : HeldIn(s, {}, k) \subseteq Alive(X)
  <2> SUFFICES ASSUME NEW k \in L..(L + a + c) PROVE HeldIn(s, {}, k) \subseteq Alive(X)
    OBVIOUS
  <2>1. \A m \in (L + 1)..k : m \in (L + 1)..(L + a + c)
    BY <1>1
  <2> QED  BY <1>3, <1>6, <1>7, <1>70, <2>1
<1>9. \A k \in (L + a)..(L + a + c) : HeldIn(s, {}, k) = Alive(X)
  <2> SUFFICES ASSUME NEW k \in (L + a)..(L + a + c) PROVE HeldIn(s, {}, k) = Alive(X)
    OBVIOUS
  <2>1. k \in L..(L + a + c) /\ \A m \in (L + 1)..(L + a) : m \in (L + 1)..k
    BY <1>1
  <2>2. \A h \in Unheld : \E m \in (L + 1)..k : Stores(s[m], h)
    <3> SUFFICES ASSUME NEW h \in Unheld PROVE \E m \in (L + 1)..k : Stores(s[m], h)
      OBVIOUS
    <3>1. PICK m \in (L + 1)..(L + a) : s[m] = StashCmd(h, StashRange(h))
      BY <1>1
    <3>2. Stores(s[m], h)
      BY <3>1 DEF Stores, StashCmd
    <3> QED  BY <2>1, <3>1, <3>2
  <2>3. Alive(X) \subseteq HeldIn(s, {}, k)
    BY <1>3, <1>7, <2>1, <2>2
  <2> QED  BY <1>8, <2>1, <2>3
<1>10. \A k \in (L + a + c + 1)..Len(s) : /\ s[k].op = "free" /\ s[k].id \in Freed(Counts, stash, X)
                                          /\ s[k] = FreeCmd(s[k].id)
                                          /\ \A h \in Hashes : ~Stores(s[k], h) /\ (Frees(s[k], h) <=> s[k].id = h)
  <2> SUFFICES ASSUME NEW k \in (L + a + c + 1)..Len(s)
               PROVE  /\ s[k].op = "free" /\ s[k].id \in Freed(Counts, stash, X) /\ s[k] = FreeCmd(s[k].id)
                      /\ \A h \in Hashes : ~Stores(s[k], h) /\ (Frees(s[k], h) <=> s[k].id = h)
    OBVIOUS
  <2>1. PICK h \in Freed(Counts, stash, X) : s[k] = FreeCmd(h)
    BY <1>1
  <2>2. s[k].op = "free" /\ s[k].id = h
    BY <2>1 DEF FreeCmd
  <2> QED  BY <2>1, <2>2 DEF Stores, Frees
<1>11. ASSUME NEW k \in (L + a + c)..Len(s), NEW h \in Hashes
       PROVE  h \in HeldIn(s, {}, k) <=> h \in Alive(X) /\ \A m \in (L + a + c + 1)..k : ~Frees(s[m], h)
  <2>1. L + a + c \in Nat /\ k \in Nat /\ L + a + c <= k /\ L + a + c \in (L + a)..(L + a + c)
    BY <1>1
  <2>2. PICK j \in Nat : j = L + a + c
    BY <2>1
  <2>3. k \in Nat /\ j <= k /\ \A m \in (j + 1)..k : m \in (L + a + c + 1)..Len(s)
    BY <1>01, <2>1, <2>2
  <2>4. \A m \in (j + 1)..k : \A g \in Hashes : ~Stores(s[m], g)
    BY <1>10, <2>3
  <2>5. h \in HeldIn(s, {}, k) <=> h \in HeldIn(s, {}, j) /\ \A m \in (j + 1)..k : ~Frees(s[m], h)
    BY <2>3, <2>4, HeldNoStore
  <2>6. HeldIn(s, {}, j) = Alive(X)
    BY <1>9, <2>1, <2>2
  <2> QED  BY <2>2, <2>5, <2>6
<1>12. \A k \in L..Len(s) : HeldIn(s, {}, k) \subseteq Alive(X)
  <2>1. \A k \in L..Len(s) : k \in L..(L + a + c) \/ k \in (L + a + c)..Len(s)
    BY <1>1
  <2>2. \A k \in (L + a + c)..Len(s) : HeldIn(s, {}, k) \subseteq Alive(X)
    BY <1>11, <1>70
  <2> QED  BY <1>8, <2>1, <2>2
<1>13. HeldIn(s, {}, Len(s)) = Alive(X) \ Freed(Counts, stash, X)
  <2>1. Len(s) \in (L + a + c)..Len(s)
    BY <1>1
  <2>2. Alive(X) \subseteq Hashes
    BY DEF Alive
  <2>3. \A h \in Hashes : h \in Freed(Counts, stash, X) <=> \E m \in (L + a + c + 1)..Len(s) : Frees(s[m], h)
    <3>1. ASSUME NEW h \in Freed(Counts, stash, X)
          PROVE  \E m \in (L + a + c + 1)..Len(s) : Frees(s[m], h)
      <4>1. PICK m \in (L + a + c + 1)..Len(s) : s[m] = FreeCmd(h)
        BY <1>1
      <4> QED  BY <4>1 DEF Frees, FreeCmd
    <3>2. ASSUME NEW h \in Hashes, NEW m \in (L + a + c + 1)..Len(s), Frees(s[m], h)
          PROVE  h \in Freed(Counts, stash, X)
      BY <1>10, <3>2
    <3> QED  BY <3>1, <3>2
  <2> QED  BY <1>11, <1>70, <2>1, <2>2, <2>3
<1>14. \A k \in (L + a + c + 1)..Len(s) : s[k].op = "free" /\ s[k].id \in HeldIn(s, {}, k - 1)
  <2> SUFFICES ASSUME NEW k \in (L + a + c + 1)..Len(s) PROVE s[k].op = "free" /\ s[k].id \in HeldIn(s, {}, k - 1)
    OBVIOUS
  <2>1. k - 1 \in (L + a + c)..Len(s) /\ \A m \in (L + a + c + 1)..(k - 1) : m \in (L + a + c + 1)..Len(s) /\ m # k
    BY <1>1
  <2>2. s[k].op = "free" /\ s[k].id \in Freed(Counts, stash, X) /\ s[k] = FreeCmd(s[k].id)
    BY <1>10
  <2>3. s[k].id \in Alive(X) /\ s[k].id \in Hashes
    BY <2>2, WriteAccounts DEF Freed
  <2>4. \A m \in (L + a + c + 1)..(k - 1) : ~Frees(s[m], s[k].id)
    <3> SUFFICES ASSUME NEW m \in (L + a + c + 1)..(k - 1), Frees(s[m], s[k].id) PROVE FALSE
      OBVIOUS
    <3>1. s[m] = FreeCmd(s[k].id)
      BY <1>10, <2>1, <2>3
    <3>2. m = k
      BY <1>1, <2>1, <2>2, <3>1
    <3> QED  BY <2>1, <3>2
  <2> QED  BY <1>11, <2>1, <2>2, <2>3, <2>4
<1> QED  BY <1>4, <1>9, <1>12, <1>13, <1>14 DEF SlotsFor

-----------------------------------------------------------------------------
(* The blocks that are read up to and with X.                              *)
LEMMA TouchedNext ==
  ASSUME WriteTransfer, NEW X, X = Xf
  PROVE  \A b : b \in touched' <=> (b \in touched \/ (\E h \in Unheld : b \in StashRange(h)) \/ (Copies /\ b \in src[X]))
<1>1. touched' = touched \cup (UNION {StashRange(h) : h \in Unheld}) \cup (IF Copies THEN src[X] ELSE {})
  BY DEF WriteTransfer
<1> QED  BY <1>1

(* The kinds of commands in the list after X.                              *)
LEMMA WriteKinds ==
  ASSUME IInv, WriteTransfer, NEW X \in Transfers, X = Xf,
         NEW s, NEW L, NEW a, NEW c, NEW f, L = Len(cmds), c = Len(Command), ListedFor(X, s, L, a, c, f),
         NEW k \in 1..Len(s)
  PROVE  \/ k \in 1..L /\ s[k] = cmds[k]
         \/ /\ k \in (L + 1)..(L + a)
            /\ s[k].op = "stash" /\ s[k].id \in Hashes /\ s[k].tgt = {} /\ s[k].refs = {} /\ s[k].src \subseteq tgt[X] /\ s[k].src \subseteq touched'
         \/ /\ k = L + a + 1 /\ c = 1
            /\ s[k].op \in {"new", "zero", "move", "patch"} /\ s[k].tgt \subseteq tgt[X]
            /\ s[k].op = "zero" => X \in zero
            /\ s[k].src \subseteq touched'
            /\ \/ s[k].src = {}
               \/ Copies /\ s[k].src = src[X] /\ s[k].tgt = tgt[X] /\ s[k].refs = Refs
         \/ k \in (L + a + c + 1)..Len(s) /\ s[k].op = "free" /\ s[k].tgt = {} /\ s[k].src = {} /\ s[k].refs = {}
<1>0. phase = "write" /\ i < N
  BY DEF WriteTransfer
<1>1. L \in Nat /\ a \in Nat /\ c \in Nat /\ f \in Nat /\ Len(s) = L + a + c + f
  BY DEF ListedFor
<1>2. \A b : b \in touched' <=> (b \in touched \/ (\E h \in Unheld : b \in StashRange(h)) \/ (Copies /\ b \in src[X]))
  BY TouchedNext
<1>3. CASE k \in 1..L
  BY <1>3 DEF ListedFor
<1>4. CASE k \in (L + 1)..(L + a)
  <2>1. PICK h \in Unheld, x \in Transfers : s[k] = StashCmd(h, Overlap(X, x)) /\ StashRange(h) = Overlap(X, x)
    BY <1>4 DEF ListedFor
  <2>2. s[k].op = "stash" /\ s[k].id \in Hashes /\ s[k].tgt = {} /\ s[k].refs = {} /\ s[k].src = Overlap(X, x)
    BY <2>1 DEF StashCmd, Unheld
  <2>3. Overlap(X, x) \subseteq tgt[X]
    BY DEF Overlap
  <2>4. StashRange(h) \subseteq touched'
    BY <1>2
  <2> QED  BY <1>4, <2>1, <2>2, <2>3, <2>4
<1>5. CASE k \in (L + a + 1)..(L + a + c)
  <2>1. k = L + a + 1 /\ c = 1 /\ s[k] = Command[1]
    BY <1>5 DEF ListedFor
  <2>2. 1 \in 1..Len(Command)
    BY <2>1
  <2>3. /\ s[k].op \in {"new", "zero", "move", "patch"} /\ s[k].tgt \subseteq tgt[X]
        /\ s[k].op = "zero" => X \in zero
        /\ \/ s[k].src = {}
           \/ Copies /\ s[k].src = src[X] /\ s[k].tgt = tgt[X] /\ s[k].refs = Refs
    BY <1>0, <2>1, <2>2, CommandType
  <2>4. s[k].src \subseteq touched'
    <3>1. CASE s[k].src = {}
      BY <3>1
    <3>2. CASE Copies /\ s[k].src = src[X]
      BY <1>2, <3>2
    <3> QED  BY <2>3, <3>1, <3>2
  <2> QED  BY <2>1, <2>3, <2>4
<1>6. CASE k \in (L + a + c + 1)..Len(s)
  <2>1. PICK h \in Freed(Counts, stash, X) : s[k] = FreeCmd(h)
    BY <1>1, <1>6 DEF ListedFor
  <2>2. s[k].op = "free" /\ s[k].tgt = {} /\ s[k].src = {} /\ s[k].refs = {}
    BY <2>1 DEF FreeCmd
  <2> QED  BY <1>6, <2>2
<1>7. k \in 1..L \/ k \in (L + 1)..(L + a) \/ k \in (L + a + 1)..(L + a + c) \/ k \in (L + a + c + 1)..Len(s)
  BY <1>1
<1> QED  BY <1>3, <1>4, <1>5, <1>6, <1>7

(* An iteration of WriteTransfers preserves the invariant: every command   *)
(* it appends finds its source, its stashes are held when they are used,   *)
(* and the accounts stay within what ReviseStashSize has found.            *)
LEMMA WriteTransferStep ==
  ASSUME IInv, fault = "none", WriteTransfer
  PROVE  IInv'
<1>0. /\ UNCHANGED image /\ UNCHANGED phone /\ phase = "write" /\ phase' = "write"
      /\ phase \in Made /\ phase' \in Made /\ phase \in Planned /\ phase' \in Planned
      /\ order' = order /\ stash' = stash /\ src' = src /\ style' = style /\ again' = again /\ ignore' = ignore
      /\ i < N /\ i' = i + 1 /\ measured' = measured /\ revised' = revised /\ pend' = pend /\ replaced' = replaced
      /\ dev' = dev /\ slots' = slots
  BY DEF WriteTransfer, Made, Planned, plan, past, phone
<1>1. /\ Hashes' = Hashes /\ N' = N /\ UNCHANGED <<tgt, zero, srcImg, tgtImg, limit>> /\ N \in Nat /\ CareMap' = CareMap
  BY <1>0, SameImage, Counting
<1>2. Types /\ Ordered /\ Styled /\ Accounts /\ Peaks /\ Before /\ Runnable /\ Fits /\ Written
  BY DEF IInv
<1>3. dev = srcImg /\ slots = {}
  BY <1>0, <1>2 DEF Before
<1>4. Xf \in Transfers /\ order[Xf] = i /\ \A u \in Transfers : order[u] = i <=> u = Xf
  BY <1>0, <1>2, XfType
<1>5. PICK X \in Transfers : X = Xf
  BY <1>4
<1>6. PICK s, L, a, c, f : s = cmds' /\ L = Len(cmds) /\ c = Len(Command) /\ ListedFor(X, s, L, a, c, f)
  BY <1>5, WriteList
<1>7. SlotsFor(X, s, L, a, c)
  BY <1>5, <1>6, WriteSlots
<1>8. /\ stashes' \in [Hashes -> Nat]
      /\ \A h \in Hashes : stashes'[h] = Cardinality({p \in stash : order[p[1]] <= i /\ i < order[p[2]] /\ PairSha1(p) = h})
      /\ Freed(Counts, stash, X) \subseteq Alive(X)
      /\ {h \in Hashes : stashes'[h] > 0} = Alive(X) \ Freed(Counts, stash, X)
      /\ stashed' = SizeOf({h \in Hashes : stashes'[h] > 0}) /\ stashed' \in Nat /\ stashed' <= SizeOf(Alive(X))
      /\ maxStashed' \in Nat /\ maxStashed' >= maxStashed /\ SizeOf(Alive(X)) <= maxStashed'
      /\ Copies /\ src[X] \cap tgt[X] # {} => SizeOf(Alive(X)) + Cardinality(src[X]) <= maxStashed'
      /\ maxStashed' <= revised
  BY <1>5, WriteAccounts
<1>9. L \in Nat /\ a \in Nat /\ c \in {0, 1} /\ f \in Nat /\ Len(s) = L + a + c + f /\ s \in Seq(Commands)
      /\ \A k \in 1..L : s[k] = cmds[k]
  BY <1>6 DEF ListedFor
<1>10. i \in Nat /\ order[X] = i /\ maxStashed \in Nat /\ \A u \in Transfers : order[u] \in Nat /\ (order[u] = i <=> u = X)
  BY <1>2, <1>4, <1>5 DEF Types
<1>11. \A u, v \in Transfers : Overlap(u, v)' = Overlap(u, v) /\ StashSha1(u, v)' = StashSha1(u, v)
  BY <1>0, <1>1 DEF Overlap, StashSha1
<1>12. \A p \in stash : PairSha1(p)' = PairSha1(p)
  BY <1>2, <1>11 DEF PairSha1, Types
<1>13. \A k : HeldAt(k)' = HeldIn(s, {}, k)
  <2> SUFFICES ASSUME NEW k PROVE HeldAt(k)' = HeldIn(s, {}, k)
    OBVIOUS
  <2>1. {} = slots'
    BY <1>0, <1>3
  <2> QED  BY <1>1, <1>6, <2>1, HeldNext
<1>14. Types'
  <2>1. touched' \subseteq Blocks
    <3>1. \A b : b \in touched' <=> (b \in touched \/ (\E h \in Unheld : b \in StashRange(h)) \/ (Copies /\ b \in src[X]))
      BY <1>5, TouchedNext
    <3>2. \A h \in Unheld : StashRange(h) \in SUBSET Blocks
      BY <1>0, <1>5, StashCmdsType
    <3>3. src[X] \in SUBSET Blocks
      BY <1>2, OverlapType
    <3>4. touched \subseteq Blocks
      BY <1>2 DEF Types
    <3> QED  BY <3>1, <3>2, <3>3, <3>4
  <2>2. cmds' \in Seq(Commands')
    <3>1. Commands' = Commands
      BY <1>1 DEF Commands
    <3> QED  BY <1>6, <1>9, <3>1
  <2>3. i' \in 0..N'
    BY <1>0, <1>1, <1>10
  <2>4. stashes' \in [Hashes' -> Nat] /\ stashed' \in Nat /\ maxStashed' \in Nat
    BY <1>1, <1>8
  <2> QED  BY <1>0, <1>1, <1>2, <2>1, <2>2, <2>3, <2>4 DEF Types
<1>15. Ordered' /\ Styled'
  <2>1. Ordered'
    BY <1>0, <1>1, <1>2, <1>11 DEF Ordered
  <2>2. \A u \in Transfers : Identical(u)' = Identical(u)
    BY <1>0, <1>1 DEF Identical
  <2>3. Styled'
    BY <1>0, <1>1, <1>2, <2>2 DEF Styled
  <2> QED  BY <2>1, <2>3
<1>16. Accounts'
  <2>1. \A h \in Hashes : CountedAs(h)' = {p \in stash : order[p[1]] <= i /\ i < order[p[2]] /\ PairSha1(p) = h}
    <3>1. Counted' = {p \in stash : i + 1 <= order[p[2]] /\ order[p[1]] < i + 1}
      BY <1>0 DEF Counted
    <3>2. \A p \in stash : order[p[1]] \in Nat /\ order[p[2]] \in Nat
      BY <1>0, <1>2, PairType
    <3>3. \A p \in stash : (i + 1 <= order[p[2]] <=> i < order[p[2]]) /\ (order[p[1]] < i + 1 <=> order[p[1]] <= i)
      BY <1>10, <3>2
    <3>4. Counted' = {p \in stash : order[p[1]] <= i /\ i < order[p[2]]}
      BY <3>1, <3>3
    <3> QED  BY <1>12, <3>4 DEF CountedAs
  <2>2. \A h \in Hashes : stashes'[h] = Cardinality(CountedAs(h)')
    BY <1>8, <2>1
  <2>3. Held' = {h \in Hashes : stashes'[h] > 0}
    BY <1>1 DEF Held
  <2>4. stashed' <= maxStashed'
    <3>1. Alive(X) \in SUBSET Hashes
      BY DEF Alive
    <3>2. SizeOf(Alive(X)) \in Nat
      BY <1>2, <3>1, SizeType
    <3> QED  BY <1>8, <3>2
  <2>5. \A h \in Hashes : stashes'[h] \in Nat
    BY <1>8
  <2>6. \A h \in Hashes : Cardinality(CountedAs(h)') <= stashes'[h]
    BY <2>2, <2>5
  <2> QED  BY <1>0, <1>1, <1>8, <2>2, <2>3, <2>4, <2>6 DEF Accounts
<1>17. Peaks'
  <2>1. \A u \in Transfers : Alive(u)' = Alive(u) /\ (Copying(u)' <=> Copying(u))
    BY <1>0, <1>1, <1>12 DEF Alive, Copying
  <2>2. \A u \in Transfers : Needs(u, revised)'
    BY <1>0, <1>2, <2>1 DEF Needs, Peaks
  <2> QED  BY <1>0, <1>1, <1>2, <1>8, <2>2 DEF Peaks
<1>18. Before'
  BY <1>0, <1>1, <1>3 DEF Before
<1>19. NoFault'
  <2>1. ~ \E h \in Hashes : stashes'[h] < 0
    <3>1. \A h \in Hashes : stashes'[h] \in Nat
      BY <1>8
    <3> QED  BY <3>1
  <2>2. limit # 0 => ~(maxStashed' > limit)
    <3>1. (limit # 0 => revised <= limit) /\ revised \in Nat /\ limit \in Nat
      BY <1>0, <1>2 DEF Peaks, Types
    <3> QED  BY <1>8, <3>1
  <2>3. style[X] = "move" => Cardinality(src[X]) = Cardinality(tgt[X])
    <3>1. src[X] \in SUBSET Blocks /\ tgt[X] \in SUBSET Blocks
      BY <1>2, OverlapType
    <3>2. style[X] = "move" => Sha1(srcImg, src[X]) = Sha1(tgtImg, tgt[X])
      BY <1>2 DEF Styled, Identical
    <3>3. Len(Sha1(srcImg, src[X])) = Cardinality(src[X]) /\ Len(Sha1(tgtImg, tgt[X])) = Cardinality(tgt[X])
      BY <3>1, Sha1Type
    <3> QED  BY <3>2, <3>3
  <2>4. AssertPartition(X)
    <3>1. \A u, v \in Transfers : u # v => tgt[u] \cap tgt[v] = {}
      BY <1>2, RangesAssumption DEF Types
    <3> QED  BY <3>1 DEF AssertPartition, UsedBy, Overlap
  <2>5. fault' \in {"none", "stash limit"} /\ (fault' = "stash limit" => maxStashed' > limit)
    BY <1>5, <2>1, <2>3, <2>4 DEF WriteTransfer
  <2> QED  BY <1>1, <2>2, <2>5 DEF NoFault
<1>20. ASSUME NEW k \in 1..Len(s)
       PROVE  \/ k \in 1..L /\ s[k] = cmds[k]
              \/ /\ k \in (L + 1)..(L + a)
                 /\ s[k].op = "stash" /\ s[k].id \in Hashes /\ s[k].tgt = {} /\ s[k].refs = {} /\ s[k].src \subseteq tgt[X] /\ s[k].src \subseteq touched'
              \/ /\ k = L + a + 1 /\ c = 1
                 /\ s[k].op \in {"new", "zero", "move", "patch"} /\ s[k].tgt \subseteq tgt[X]
                 /\ s[k].op = "zero" => X \in zero
                 /\ s[k].src \subseteq touched'
                 /\ \/ s[k].src = {}
                    \/ Copies /\ s[k].src = src[X] /\ s[k].tgt = tgt[X] /\ s[k].refs = Refs
              \/ k \in (L + a + c + 1)..Len(s) /\ s[k].op = "free" /\ s[k].tgt = {} /\ s[k].src = {} /\ s[k].refs = {}
  BY <1>5, <1>6, <1>20, WriteKinds
<1>21. \A k \in 1..L : k \in 1..Len(cmds) /\ s[k] = cmds[k]
  BY <1>6, <1>9
<1>22. \A k \in 1..L : \A b \in s[k].tgt : \E u \in Transfers : order[u] < i /\ b \in tgt[u]
  BY <1>0, <1>2, <1>21 DEF Written
<1>23. Runnable'
  <2> SUFFICES ASSUME NEW k \in 1..Len(s)
               PROVE  /\ ReadsOK(k)' /\ (s[k].op = "stash" => s[k].id \in Hashes)
                      /\ s[k].op = "free" => s[k].id \in HeldIn(s, {}, k - 1)
    BY <1>1, <1>6, <1>13 DEF Runnable
  <2>0. ASSUME \A b \in s[k].src :
                 /\ \A r \in s[k].refs : b \in r.range => r.id \in HeldIn(s, {}, k - 1) /\ r.id = Sha1(srcImg, r.range)
                 /\ (\A r \in s[k].refs : b \notin r.range) => \A j \in 1..(k - 1) : b \notin s[j].tgt
        PROVE  ReadsOK(k)'
    BY <1>0, <1>1, <1>3, <1>6, <1>13, <2>0 DEF ReadsOK
  <2>1. CASE k \in 1..L /\ s[k] = cmds[k]
    <3>0. L = Len(cmds) /\ L \in Nat
      BY <1>6, <1>9
    <3>1. k \in 1..Len(cmds) /\ k - 1 \in 0..L /\ \A j \in 1..(k - 1) : j \in 1..L
      BY <2>1, <3>0
    <3>2. HeldIn(s, {}, k - 1) = HeldAt(k - 1)
      BY <1>7, <3>1 DEF SlotsFor
    <3>3. ReadsOK(k) /\ (cmds[k].op = "stash" => cmds[k].id \in Hashes) /\ (cmds[k].op = "free" => cmds[k].id \in HeldAt(k - 1))
      BY <1>2, <3>1 DEF Runnable
    <3>4. \A j \in 1..(k - 1) : s[j] = cmds[j]
      BY <1>9, <3>1
    <3>5. ReadsOK(k)'
      BY <2>0, <2>1, <3>2, <3>3, <3>4 DEF ReadsOK
    <3> QED  BY <2>1, <3>2, <3>3, <3>5
  <2>2. CASE /\ k \in (L + 1)..(L + a)
             /\ s[k].op = "stash" /\ s[k].id \in Hashes /\ s[k].tgt = {} /\ s[k].refs = {} /\ s[k].src \subseteq tgt[X]
    <3>1. ASSUME NEW b \in s[k].src, NEW j \in 1..(k - 1), b \in s[j].tgt PROVE FALSE
      <4>1. j \in 1..Len(s) /\ j # L + a + 1
        BY <1>9, <2>2
      <4>2. j \in 1..L
        BY <1>20, <3>1, <4>1
      <4>3. PICK u \in Transfers : order[u] < i /\ b \in tgt[u]
        BY <1>22, <3>1, <4>2
      <4>4. u # X
        BY <1>10, <4>3
      <4> QED  BY <1>2, <2>2, <4>3, <4>4, RangesAssumption DEF Types
    <3>2. ReadsOK(k)'
      BY <2>0, <2>2, <3>1
    <3> QED  BY <2>2, <3>2
  <2>3. CASE /\ k = L + a + 1 /\ c = 1
             /\ s[k].op \in {"new", "zero", "move", "patch"}
             /\ s[k].src = {} \/ (s[k].src = src[X] /\ s[k].refs = Refs)
    <3>1. CASE s[k].src = {}
      BY <2>0, <2>3, <3>1
    <3>2. CASE s[k].src = src[X] /\ s[k].refs = Refs
      <4>0. HeldIn(s, {}, k - 1) = Alive(X)
        <5>1. k - 1 \in (L + a)..(L + a + c)
          BY <1>9, <2>3
        <5> QED  BY <1>7, <5>1 DEF SlotsFor
      <4>1. ASSUME NEW r \in s[k].refs PROVE r.id \in HeldIn(s, {}, k - 1) /\ r.id = Sha1(srcImg, r.range)
        <5>1. PICK u \in UsedBy(X) : r = [range |-> Overlap(u, X), id |-> StashSha1(u, X)]
          BY <1>5, <3>2 DEF Refs
        <5>2. r.range = Overlap(u, X) /\ r.id = StashSha1(u, X)
          BY <5>1
        <5>3. u \in Transfers /\ <<u, X>> \in stash /\ order[u] < order[X] /\ Overlap(u, X) # {}
          BY <1>0, <1>2 DEF UsedBy, Ordered
        <5>4. StashSha1(u, X) \in Hashes
          BY <1>2, <5>3, OverlapType
        <5> DEFINE p == <<u, X>>
        <5>5. p \in stash /\ p[1] = u /\ p[2] = X
          BY <5>3
        <5> HIDE DEF p
        <5>6. order[p[1]] <= order[X] /\ order[X] <= order[p[2]] /\ PairSha1(p) = StashSha1(u, X)
          BY <1>10, <5>3, <5>5 DEF PairSha1
        <5>7. StashSha1(u, X) \in Alive(X)
          BY <5>4, <5>5, <5>6 DEF Alive
        <5> QED  BY <4>0, <5>2, <5>7 DEF StashSha1
      <4>2. ASSUME NEW b \in s[k].src, \A r \in s[k].refs : b \notin r.range, NEW j \in 1..(k - 1), b \in s[j].tgt PROVE FALSE
        <5>1. j \in 1..Len(s) /\ j # L + a + 1
          BY <1>9, <2>3
        <5>2. j \in 1..L
          BY <1>20, <4>2, <5>1
        <5>3. PICK u \in Transfers : order[u] < i /\ b \in tgt[u]
          BY <1>22, <4>2, <5>2
        <5>4. b \in Overlap(u, X)
          BY <3>2, <4>2, <5>3 DEF Overlap
        <5>5. u \in UsedBy(X)
          BY <1>0, <1>2, <1>10, <5>3, <5>4 DEF UsedBy, Ordered
        <5>6. [range |-> Overlap(u, X), id |-> StashSha1(u, X)] \in s[k].refs
          BY <1>5, <3>2, <5>5 DEF Refs
        <5> QED  BY <4>2, <5>4, <5>6
      <4>3. ReadsOK(k)'
        BY <2>0, <4>1, <4>2
      <4> QED  BY <2>3, <4>3
    <3> QED  BY <2>3, <3>1, <3>2
  <2>4. CASE k \in (L + a + c + 1)..Len(s) /\ s[k].op = "free" /\ s[k].src = {}
    <3>1. ReadsOK(k)'
      BY <2>0, <2>4
    <3>2. s[k].id \in HeldIn(s, {}, k - 1)
      BY <1>7, <2>4 DEF SlotsFor
    <3> QED  BY <2>4, <3>1, <3>2
  <2> QED  BY <1>20, <2>1, <2>2, <2>3, <2>4
<1>24. Fits'
  <2>0. Alive(X) \in SUBSET Hashes /\ SizeOf(Alive(X)) \in Nat /\ \A k : HeldAt(k) \in SUBSET Hashes
    BY <1>2, SizeType DEF Alive, HeldAt, HeldIn
  <2>1. ASSUME NEW k \in 0..Len(s) PROVE SizeOf(HeldIn(s, {}, k)) <= maxStashed'
    <3>1. CASE k \in 0..L
      <4>1. HeldIn(s, {}, k) = HeldAt(k)
        BY <1>7, <3>1 DEF SlotsFor
      <4>2. SizeOf(HeldAt(k)) <= maxStashed
        BY <1>0, <1>2, <1>6, <3>1 DEF Fits
      <4>3. SizeOf(HeldAt(k)) \in Nat
        BY <1>2, <2>0, SizeType
      <4> QED  BY <1>8, <1>10, <4>1, <4>2, <4>3
    <3>2. CASE k \in L..Len(s)
      <4>1. HeldIn(s, {}, k) \subseteq Alive(X)
        BY <1>7, <3>2 DEF SlotsFor
      <4>2. SizeOf(HeldIn(s, {}, k)) <= SizeOf(Alive(X)) /\ SizeOf(HeldIn(s, {}, k)) \in Nat
        BY <1>2, <2>0, <4>1, SizeMono, SizeType
      <4> QED  BY <1>8, <2>0, <4>2
    <3>3. k \in 0..L \/ k \in L..Len(s)
      BY <1>9
    <3> QED  BY <3>1, <3>2, <3>3
  <2>2. ASSUME NEW k \in 1..Len(s), s[k].src \cap s[k].tgt # {}
        PROVE  SizeOf(HeldIn(s, {}, k - 1)) + Cardinality(s[k].src) <= maxStashed'
    <3>1. CASE k \in 1..L /\ s[k] = cmds[k]
      <4>1. k \in 1..Len(cmds) /\ k - 1 \in 0..L
        BY <1>6, <1>9, <3>1
      <4>2. HeldIn(s, {}, k - 1) = HeldAt(k - 1)
        BY <1>7, <4>1 DEF SlotsFor
      <4>3. SizeOf(HeldAt(k - 1)) + Cardinality(cmds[k].src) <= maxStashed
        BY <1>0, <1>2, <2>2, <3>1, <4>1 DEF Fits
      <4>4. SizeOf(HeldAt(k - 1)) \in Nat
        BY <1>2, <2>0, SizeType
      <4>5. Cardinality(cmds[k].src) \in Nat
        <5>1. cmds[k] \in Commands
          BY <1>2, <4>1, ElementOfSeq DEF Types
        <5>2. cmds[k].src \in SUBSET Blocks
          BY <5>1 DEF Commands
        <5> QED  BY <5>2, Ranges
      <4> QED  BY <1>8, <1>10, <3>1, <4>2, <4>3, <4>4, <4>5
    <3>2. CASE k = L + a + 1 /\ c = 1 /\ Copies /\ s[k].src = src[X] /\ s[k].tgt = tgt[X]
      <4>1. k - 1 \in (L + a)..(L + a + c)
        BY <1>9, <3>2
      <4>2. HeldIn(s, {}, k - 1) = Alive(X)
        BY <1>7, <4>1 DEF SlotsFor
      <4> QED  BY <1>8, <2>2, <3>2, <4>2
    <3> QED  BY <1>20, <2>2, <3>1, <3>2
  <2>3. \A h \in Hashes : h \in HeldIn(s, {}, Len(s)) <=> stashes'[h] > 0
    BY <1>7, <1>8, <2>0 DEF SlotsFor
  <2> QED  BY <1>0, <1>1, <1>6, <1>13, <2>1, <2>2, <2>3 DEF Fits
<1>25. Written'
  <2>1. \A k \in 1..Len(s) : /\ s[k].src \subseteq touched'
                             /\ \A b \in s[k].tgt : \E u \in Transfers : order[u] < i + 1 /\ b \in tgt[u]
    <3> SUFFICES ASSUME NEW k \in 1..Len(s)
                 PROVE  /\ s[k].src \subseteq touched'
                        /\ \A b \in s[k].tgt : \E u \in Transfers : order[u] < i + 1 /\ b \in tgt[u]
      OBVIOUS
    <3>1. CASE k \in 1..L /\ s[k] = cmds[k]
      <4>1. cmds[k].src \subseteq touched
        BY <1>0, <1>2, <1>21, <3>1 DEF Written
      <4>2. touched \subseteq touched'
        BY DEF WriteTransfer
      <4>3. \A u \in Transfers : order[u] < i => order[u] < i + 1
        BY <1>10
      <4> QED  BY <1>22, <3>1, <4>1, <4>2, <4>3
    <3>2. CASE s[k].tgt \subseteq tgt[X] /\ s[k].src \subseteq touched'
      <4>1. order[X] < i + 1
        BY <1>10
      <4> QED  BY <3>2, <4>1
    <3> QED  BY <1>20, <3>1, <3>2
  <2>2. \A k \in 1..Len(s) : \A b \in s[k].tgt :
           /\ b \in CareMap => s[k].op # "erase" /\ (s[k].op = "zero" => tgtImg[b] = Zero)
           /\ b \in Extended => s[k].op = "zero"
    <3> SUFFICES ASSUME NEW k \in 1..Len(s), NEW b \in s[k].tgt
                 PROVE  /\ b \in CareMap => s[k].op # "erase" /\ (s[k].op = "zero" => tgtImg[b] = Zero)
                        /\ b \in Extended => s[k].op = "zero"
      OBVIOUS
    <3>1. CASE k \in 1..L /\ s[k] = cmds[k]
      BY <1>2, <1>21, <3>1 DEF Written
    <3>2. CASE /\ s[k].op \in {"new", "zero", "move", "patch"} /\ s[k].tgt \subseteq tgt[X]
               /\ s[k].op = "zero" => X \in zero
      <4>1. b \in tgt[X] /\ b \notin Extended
        BY <1>2, <3>2, TargetAssumption DEF Types
      <4>2. s[k].op = "zero" => tgtImg[b] = Zero
        BY <1>2, <3>2, <4>1 DEF Styled
      <4> QED  BY <3>2, <4>1, <4>2
    <3> QED  BY <1>20, <3>1, <3>2
  <2>3. ASSUME NEW u \in Transfers, order[u] < i + 1, NEW b \in tgt[u]
        PROVE  dev[b] = tgtImg[b] \/ \E k \in 1..Len(s) : b \in s[k].tgt
    <3>1. CASE order[u] < i
      <4>1. dev[b] = tgtImg[b] \/ \E k \in 1..Len(cmds) : b \in cmds[k].tgt
        BY <1>0, <1>2, <3>1 DEF Written
      <4>2. \A k \in 1..Len(cmds) : k \in 1..Len(s) /\ s[k] = cmds[k]
        BY <1>6, <1>9
      <4> QED  BY <4>1, <4>2
    <3>2. CASE u = X
      <4>1. srcImg[b] = tgtImg[b] \/ \E k \in 1..Len(Command) : b \in Command[k].tgt
        BY <1>0, <1>5, <3>2, CommandType
      <4>2. ASSUME NEW k \in 1..Len(Command), b \in Command[k].tgt PROVE \E m \in 1..Len(s) : b \in s[m].tgt
        <5>1. c = 1 /\ k = 1
          BY <1>6, <1>9
        <5>2. L + a + 1 \in (L + a + 1)..(L + a + c) /\ L + a + 1 \in 1..Len(s)
          BY <1>9, <5>1
        <5>3. s[L + a + 1] = Command[1]
          BY <1>6, <5>2 DEF ListedFor
        <5> QED  BY <4>2, <5>1, <5>2, <5>3
      <4> QED  BY <1>3, <4>1, <4>2
    <3>3. order[u] < i \/ u = X
      BY <1>10, <2>3
    <3> QED  BY <3>1, <3>2, <3>3
  <2> QED  BY <1>0, <1>1, <1>6, <2>1, <2>2, <2>3 DEF Written
<1> QED  BY <1>14, <1>15, <1>16, <1>17, <1>18, <1>19, <1>23, <1>24, <1>25 DEF IInv

-----------------------------------------------------------------------------
(* Commands that run after d others.                                       *)
LEMMA HeldShift ==
  ASSUME NEW s, NEW t, NEW start, NEW begin, NEW d \in Nat, NEW k \in Nat,
         begin = HeldIn(s, start, d), \A m \in 1..k : s[d + m] = t[m]
  PROVE  \A h \in Hashes : h \in HeldIn(s, start, d + k) <=> h \in HeldIn(t, begin, k)
<1> SUFFICES ASSUME NEW h \in Hashes
             PROVE  h \in HeldIn(s, start, d + k) <=> h \in HeldIn(t, begin, k)
  OBVIOUS
<1>1. \A m \in 1..k : /\ Frees(s[d + m], h) <=> Frees(t[m], h)
                      /\ Stores(s[d + m], h) <=> Stores(t[m], h)
  OBVIOUS
<1> HIDE DEF Frees, Stores
<1>2. \A m \in (d + 1)..(d + k) : /\ m - d \in 1..k
                                  /\ Frees(s[m], h) <=> Frees(t[m - d], h)
                                  /\ Stores(s[m], h) <=> Stores(t[m - d], h)
  <2> SUFFICES ASSUME NEW m \in (d + 1)..(d + k)
               PROVE  /\ m - d \in 1..k
                      /\ Frees(s[m], h) <=> Frees(t[m - d], h)
                      /\ Stores(s[m], h) <=> Stores(t[m - d], h)
    OBVIOUS
  <2>1. m - d \in 1..k /\ d + (m - d) = m
    OBVIOUS
  <2> QED  BY <1>1, <2>1
<1>3. ASSUME h \in HeldIn(s, start, d + k)
      PROVE  h \in HeldIn(t, begin, k)
  <2>1. CASE h \in start /\ \A m \in 1..(d + k) : ~Frees(s[m], h)
    <3>1. \A m \in 1..d : m \in 1..(d + k)
      OBVIOUS
    <3>2. h \in begin
      BY <2>1, <3>1 DEF HeldIn
    <3>3. \A m \in 1..k : d + m \in 1..(d + k)
      OBVIOUS
    <3>4. \A m \in 1..k : ~Frees(t[m], h)
      BY <1>1, <2>1, <3>3
    <3> QED  BY <3>2, <3>4 DEF HeldIn
  <2>2. ASSUME NEW j \in 1..(d + k), Stores(s[j], h), \A m \in (j + 1)..(d + k) : ~Frees(s[m], h)
        PROVE  h \in HeldIn(t, begin, k)
    <3>1. CASE j \in 1..d
      <4>1. \A m \in (j + 1)..d : m \in (j + 1)..(d + k)
        BY <3>1
      <4>2. h \in begin
        BY <2>2, <3>1, <4>1 DEF HeldIn
      <4>3. \A m \in 1..k : d + m \in (j + 1)..(d + k)
        BY <3>1
      <4>4. \A m \in 1..k : ~Frees(t[m], h)
        BY <1>1, <2>2, <4>3
      <4> QED  BY <4>2, <4>4 DEF HeldIn
    <3>2. CASE j \in (d + 1)..(d + k)
      <4>1. j - d \in 1..k /\ Stores(t[j - d], h)
        BY <1>2, <2>2, <3>2
      <4>2. \A m \in ((j - d) + 1)..k : m \in 1..k /\ d + m \in (j + 1)..(d + k)
        BY <3>2
      <4>3. \A m \in ((j - d) + 1)..k : ~Frees(t[m], h)
        BY <1>1, <2>2, <4>2
      <4> QED  BY <4>1, <4>3 DEF HeldIn
    <3>3. j \in 1..d \/ j \in (d + 1)..(d + k)
      OBVIOUS
    <3> QED  BY <3>1, <3>2, <3>3
  <2> QED  BY <1>3, <2>1, <2>2 DEF HeldIn
<1>4. ASSUME h \in HeldIn(t, begin, k)
      PROVE  h \in HeldIn(s, start, d + k)
  <2>1. CASE h \in begin /\ \A m \in 1..k : ~Frees(t[m], h)
    <3>1. \A m \in (d + 1)..(d + k) : ~Frees(s[m], h)
      BY <1>2, <2>1
    <3>2. CASE h \in start /\ \A m \in 1..d : ~Frees(s[m], h)
      <4>1. \A m \in 1..(d + k) : m \in 1..d \/ m \in (d + 1)..(d + k)
        OBVIOUS
      <4> QED  BY <3>1, <3>2, <4>1 DEF HeldIn
    <3>3. ASSUME NEW j \in 1..d, Stores(s[j], h), \A m \in (j + 1)..d : ~Frees(s[m], h)
          PROVE  h \in HeldIn(s, start, d + k)
      <4>1. j \in 1..(d + k) /\ \A m \in (j + 1)..(d + k) : m \in (j + 1)..d \/ m \in (d + 1)..(d + k)
        OBVIOUS
      <4>2. \A m \in (j + 1)..(d + k) : ~Frees(s[m], h)
        BY <3>1, <3>3, <4>1
      <4> QED  BY <3>3, <4>1, <4>2 DEF HeldIn
    <3> QED  BY <2>1, <3>2, <3>3 DEF HeldIn
  <2>2. ASSUME NEW j \in 1..k, Stores(t[j], h), \A m \in (j + 1)..k : ~Frees(t[m], h)
        PROVE  h \in HeldIn(s, start, d + k)
    <3>1. d + j \in 1..(d + k) /\ Stores(s[d + j], h)
      BY <1>1, <2>2
    <3>2. \A m \in ((d + j) + 1)..(d + k) : m \in (d + 1)..(d + k) /\ m - d \in (j + 1)..k
      OBVIOUS
    <3>3. \A m \in ((d + j) + 1)..(d + k) : ~Frees(s[m], h)
      BY <1>2, <2>2, <3>2
    <3> QED  BY <3>1, <3>3 DEF HeldIn
  <2> QED  BY <1>4, <2>1, <2>2 DEF HeldIn
<1> QED  BY <1>3, <1>4

(* The first command takes the slots from HeldAt(0) to HeldAt(1).          *)
LEMMA HeldFirst ==
  ASSUME NEW s, NEW start \in SUBSET Hashes, s[1].op = "stash" => s[1].id \in Hashes
  PROVE  HeldIn(s, start, 1) = IF s[1].op = "stash" THEN start \cup {s[1].id}
                               ELSE IF s[1].op = "free" THEN start \ {s[1].id}
                               ELSE start
<1>1. \A m \in 1..1 : m = 1
  OBVIOUS
<1>2. 1 \in 1..1 /\ \A m \in (1 + 1)..1 : FALSE
  OBVIOUS
<1>3. \A h \in Hashes : h \in HeldIn(s, start, 1) <=> (h \in start /\ ~Frees(s[1], h)) \/ Stores(s[1], h)
  BY <1>1, <1>2 DEF HeldIn
<1>4. HeldIn(s, start, 1) \subseteq Hashes
  BY DEF HeldIn
<1> QED  BY <1>3, <1>4 DEF Frees, Stores

-----------------------------------------------------------------------------
(* The whole list: d commands that erase first, the L commands written     *)
(* for the transfers, and commands that only write.                        *)
EndFor(s, d, L) ==
  /\ s \in Seq(Commands) /\ d \in {0, 1} /\ L \in Nat /\ Len(s) \in Nat /\ d + L <= Len(s)
  /\ \A k \in 1..d : s[k].op = "erase" /\ s[k].src = {} /\ s[k].tgt \cap (touched \cup CareMap \cup Extended) = {}
  /\ \A k \in 1..L : s[d + k] = cmds[k]
  /\ \A k \in (d + L + 1)..Len(s) :
       /\ s[k].src = {}
       /\ \/ s[k].op = "erase" /\ s[k].tgt \cap (CareMap \cup Extended) = {}
          \/ s[k].op = "zero" /\ s[k].tgt = Extended
  /\ Extended # {} => \E k \in 1..Len(s) : s[k].tgt = Extended

(* A command that writes r, or none when r is empty.                       *)
OneFor(a, op, r) == IF r = {} THEN a = <<>> ELSE a = <<WriteCmd(op, r)>>

(* The list of at most one command for a range.                            *)
LEMMA OneCommand ==
  ASSUME NEW a, NEW r \in SUBSET Blocks, NEW op \in {"zero", "erase"}, OneFor(a, op, r)
  PROVE  /\ a \in Seq(Commands) /\ Len(a) \in {0, 1} /\ (r # {} <=> Len(a) = 1)
         /\ \A k \in 1..Len(a) : k = 1 /\ a[k].op = op /\ a[k].tgt = r /\ a[k].src = {} /\ r # {}
<1>1. CASE r = {}
  BY <1>1, EmptySeq DEF OneFor
<1>2. CASE r # {}
  <2>1. WriteCmd(op, r) \in Commands
    BY DEF WriteCmd, Commands
  <2>2. a = <<WriteCmd(op, r)>>
    BY <1>2 DEF OneFor
  <2>3. a \in Seq(Commands) /\ Len(a) = 1 /\ a[1] = WriteCmd(op, r)
    BY <2>1, <2>2
  <2>4. \A k \in 1..Len(a) : k = 1
    BY <2>3
  <2> QED  BY <1>2, <2>3, <2>4 DEF WriteCmd
<1> QED  BY <1>1, <1>2

(* WriteTransfers puts the erase of what is never read first, and the      *)
(* zeros of the extended blocks and the other erase last.                  *)
LEMMA EndList ==
  ASSUME IInv, WriteEnd
  PROVE  \E s, d, L : s = cmds' /\ L = Len(cmds) /\ EndFor(s, d, L)
<1>1. PICK dontcare : dontcare = (TotalBlocks \ Extended) \ CareMap
  OBVIOUS
<1>2. PICK first, last : first = dontcare \ touched /\ last = dontcare \ first
  OBVIOUS
<1>3. PICK a, b, c, e : /\ OneFor(a, "erase", first) /\ b = cmds /\ OneFor(c, "zero", Extended) /\ OneFor(e, "erase", last)
                        /\ cmds' = a \o b \o c \o e
  BY <1>1, <1>2 DEF WriteEnd, EraseFirst, OneFor
<1>4. first \in SUBSET Blocks /\ last \in SUBSET Blocks /\ Extended \in SUBSET Blocks
  BY <1>1, <1>2, TargetAssumption
<1>5. /\ first \cap (touched \cup CareMap \cup Extended) = {} /\ last \cap (CareMap \cup Extended) = {}
  BY <1>1, <1>2
<1>6. /\ a \in Seq(Commands) /\ Len(a) \in {0, 1}
      /\ \A k \in 1..Len(a) : a[k].op = "erase" /\ a[k].tgt = first /\ a[k].src = {}
  BY <1>3, <1>4, OneCommand
<1>7. /\ c \in Seq(Commands) /\ Len(c) \in {0, 1} /\ (Extended # {} => Len(c) = 1)
      /\ \A k \in 1..Len(c) : c[k].op = "zero" /\ c[k].tgt = Extended /\ c[k].src = {}
  BY <1>3, <1>4, OneCommand
<1>8. /\ e \in Seq(Commands) /\ Len(e) \in {0, 1}
      /\ \A k \in 1..Len(e) : e[k].op = "erase" /\ e[k].tgt = last /\ e[k].src = {}
  BY <1>3, <1>4, OneCommand
<1>9. b \in Seq(Commands)
  BY <1>3 DEF IInv, Types
<1>10. PICK s : s = cmds'
  OBVIOUS
<1>11. s = a \o b \o c \o e
  BY <1>3, <1>10
<1>12. /\ s \in Seq(Commands) /\ Len(a) \in Nat /\ Len(b) \in Nat /\ Len(c) \in Nat /\ Len(e) \in Nat
       /\ Len(s) = Len(a) + Len(b) + Len(c) + Len(e)
       /\ \A k \in 1..Len(a) : s[k] = a[k]
       /\ \A k \in 1..Len(b) : s[Len(a) + k] = b[k]
       /\ \A k \in 1..Len(c) : s[Len(a) + Len(b) + k] = c[k]
       /\ \A k \in 1..Len(e) : s[Len(a) + Len(b) + Len(c) + k] = e[k]
  <2>1. a \in Seq(Commands) /\ b \in Seq(Commands) /\ c \in Seq(Commands) /\ e \in Seq(Commands)
    BY <1>6, <1>7, <1>8, <1>9
  <2> QED  BY <1>11, <2>1, Concatenated
<1>13. PICK d, L, g, m : d = Len(a) /\ L = Len(b) /\ g = Len(c) /\ m = Len(e)
  OBVIOUS
<1>14. /\ d \in {0, 1} /\ L \in Nat /\ g \in {0, 1} /\ m \in {0, 1} /\ Len(s) = d + L + g + m
  BY <1>6, <1>7, <1>8, <1>12, <1>13
<1>15. \A k \in 1..d : s[k].op = "erase" /\ s[k].src = {} /\ s[k].tgt \cap (touched \cup CareMap \cup Extended) = {}
  BY <1>5, <1>6, <1>12, <1>13
<1>16. \A k \in 1..L : s[d + k] = cmds[k]
  BY <1>3, <1>12, <1>13
<1>17. ASSUME NEW k \in (d + L + 1)..Len(s)
       PROVE  /\ s[k].src = {}
              /\ \/ s[k].op = "erase" /\ s[k].tgt \cap (CareMap \cup Extended) = {}
                 \/ s[k].op = "zero" /\ s[k].tgt = Extended
  <2>1. CASE k \in (d + L + 1)..(d + L + g)
    <3>1. PICK n \in 1..g : k = d + L + n
      <4>1. k - (d + L) \in 1..g /\ k = d + L + (k - (d + L))
        BY <1>14, <2>1
      <4> QED  BY <4>1
    <3>2. s[k] = c[n]
      BY <1>12, <1>13, <3>1
    <3> QED  BY <1>7, <1>13, <3>1, <3>2
  <2>2. CASE k \in (d + L + g + 1)..Len(s)
    <3>1. PICK n \in 1..m : k = d + L + g + n
      <4>1. k - (d + L + g) \in 1..m /\ k = d + L + g + (k - (d + L + g))
        BY <1>14, <2>2
      <4> QED  BY <4>1
    <3>2. s[k] = e[n]
      BY <1>12, <1>13, <3>1
    <3> QED  BY <1>5, <1>8, <1>13, <3>1, <3>2
  <2>3. k \in (d + L + 1)..(d + L + g) \/ k \in (d + L + g + 1)..Len(s)
    BY <1>14
  <2> QED  BY <2>1, <2>2, <2>3
<1>18. Extended # {} => \E k \in 1..Len(s) : s[k].tgt = Extended
  <2> SUFFICES ASSUME Extended # {} PROVE \E k \in 1..Len(s) : s[k].tgt = Extended
    OBVIOUS
  <2>1. g = 1
    BY <1>7, <1>13
  <2>2. 1 \in 1..g /\ d + L + 1 \in 1..Len(s)
    BY <1>14, <2>1
  <2>3. s[d + L + 1] = c[1] /\ c[1].tgt = Extended
    BY <1>7, <1>12, <1>13, <2>2
  <2> QED  BY <2>2, <2>3
<1>19. d + L <= Len(s) /\ Len(s) \in Nat
  BY <1>14
<1>20. EndFor(s, d, L)
  BY <1>12, <1>14, <1>15, <1>16, <1>17, <1>18, <1>19 DEF EndFor
<1> QED  BY <1>3, <1>10, <1>13, <1>20

(* The slots while the whole list runs.                                    *)
LEMMA EndSlots ==
  ASSUME IInv, phase = "write", i = N, NEW s, NEW d, NEW L, L = Len(cmds), EndFor(s, d, L)
  PROVE  /\ \A k \in 0..d : HeldIn(s, {}, k) = {}
         /\ \A k \in 0..L : HeldIn(s, {}, d + k) = HeldAt(k)
         /\ \A k \in (d + L)..Len(s) : HeldIn(s, {}, k) = {}
<1>0. d \in Nat /\ L \in Nat /\ Len(s) \in Nat /\ slots = {} /\ phase \in Made /\ phase \in Planned
  BY DEF EndFor, IInv, Before, Made, Planned
<1>1. ASSUME NEW k \in 0..d PROVE HeldIn(s, {}, k) = {}
  <2>1. \A m \in 1..k : m \in 1..d
    BY <1>0
  <2>2. \A m \in 1..k : \A h : ~Stores(s[m], h)
    BY <2>1 DEF EndFor, Stores
  <2> QED  BY <2>2 DEF HeldIn
<1>2. ASSUME NEW k \in 0..L PROVE HeldIn(s, {}, d + k) = HeldAt(k)
  <2>1. {} = HeldIn(s, {}, d)
    BY <1>0, <1>1
  <2>2. k \in Nat /\ \A m \in 1..k : s[d + m] = cmds[m]
    BY <1>0 DEF EndFor
  <2>3. PICK t : t = cmds
    OBVIOUS
  <2>4. \A h \in Hashes : h \in HeldIn(s, {}, d + k) <=> h \in HeldIn(t, {}, k)
    BY <1>0, <2>1, <2>2, <2>3, HeldShift
  <2>5. HeldIn(t, {}, k) = HeldAt(k)
    BY <1>0, <2>3 DEF HeldAt
  <2> QED  BY <2>4, <2>5 DEF HeldIn
<1>3. HeldAt(L) = {}
  <2>1. Counted = {}
    <3>1. \A p \in stash : order[p[2]] \in Nat /\ order[p[2]] < N
      BY <1>0, PairType DEF IInv
    <3>2. N \in Nat
      BY Counting
    <3> QED  BY <3>1, <3>2 DEF Counted
  <2>2. \A h \in Hashes : stashes[h] = Cardinality(CountedAs(h))
    BY DEF IInv, Accounts
  <2>3. \A h \in Hashes : stashes[h] = 0
    BY <2>1, <2>2, FS_EmptySet DEF CountedAs
  <2>4. \A h \in Hashes : h \in HeldAt(L) <=> stashes[h] > 0
    BY <1>0 DEF IInv, Fits
  <2>5. HeldAt(L) \subseteq Hashes
    BY DEF HeldAt, HeldIn
  <2> QED  BY <2>3, <2>4, <2>5
<1>4. ASSUME NEW k \in (d + L)..Len(s) PROVE HeldIn(s, {}, k) = {}
  <2>1. HeldIn(s, {}, d + L) = {}
    BY <1>0, <1>2, <1>3
  <2>2. d + L \in Nat /\ k \in Nat /\ d + L <= k
    BY <1>0
  <2>3. \A m \in ((d + L) + 1)..k : m \in (d + L + 1)..Len(s)
    BY <1>0
  <2>4. \A m \in ((d + L) + 1)..k : \A h \in Hashes : ~Stores(s[m], h)
    BY <2>3 DEF EndFor, Stores
  <2>5. \A h \in Hashes : h \in HeldIn(s, {}, k) => h \in HeldIn(s, {}, d + L)
    BY <2>2, <2>4, HeldNoStore
  <2> QED  BY <2>1, <2>5 DEF HeldIn
<1> QED  BY <1>1, <1>2, <1>4

-----------------------------------------------------------------------------
(* The invariants that an action leaves alone when it changes neither the  *)
(* plan nor the accounts.                                                  *)
LEMMA PlanKept ==
  ASSUME IInv, UNCHANGED <<image, plan, pass, usage, past>>, phase \in Made, phase' \in {"device", "done"}
  PROVE  /\ Ordered' /\ Styled' /\ Accounts' /\ Peaks' /\ Before'
         /\ Hashes' = Hashes /\ N' = N /\ CareMap' = CareMap /\ UNCHANGED <<tgt, srcImg, tgtImg, order, maxStashed>>
         /\ cmds' \in Seq(Commands) /\ touched' \subseteq Blocks /\ slots' \subseteq Hashes => Types'
<1>0. /\ UNCHANGED image /\ UNCHANGED <<src, style, order, stash, again>> /\ UNCHANGED <<ignore, i, pend, replaced>>
      /\ UNCHANGED <<stashes, stashed, maxStashed>> /\ UNCHANGED <<measured, revised>>
  BY DEF plan, pass, usage, past
<1>1. /\ Hashes' = Hashes /\ N' = N /\ UNCHANGED <<tgt, zero, srcImg, tgtImg, limit>> /\ CareMap' = CareMap
  BY <1>0, SameImage
<1>2. Types /\ Ordered /\ Styled /\ Accounts /\ Peaks
  BY DEF IInv
<1>3. phase \in Planned /\ phase' \in Planned /\ phase' \in Made
  BY DEF Planned, Made
<1>4. \A u, v \in Transfers : Overlap(u, v)' = Overlap(u, v) /\ StashSha1(u, v)' = StashSha1(u, v)
  BY <1>0, <1>1 DEF Overlap, StashSha1
<1>5. \A p \in stash : PairSha1(p)' = PairSha1(p)
  BY <1>2, <1>4 DEF PairSha1, Types
<1>6. Ordered'
  BY <1>0, <1>2, <1>3, <1>4 DEF Ordered
<1>7. Styled'
  <2>1. \A u \in Transfers : Identical(u)' = Identical(u)
    BY <1>0, <1>1 DEF Identical
  <2> QED  BY <1>0, <1>1, <1>2, <1>3, <2>1 DEF Styled
<1>8. Accounts'
  BY DEF Accounts
<1>9. Peaks'
  <2>1. \A u \in Transfers : Alive(u)' = Alive(u) /\ (Copying(u)' <=> Copying(u))
    BY <1>0, <1>1, <1>5 DEF Alive, Copying
  <2>2. \A u \in Transfers : Needs(u, revised)'
    BY <1>0, <1>2, <2>1 DEF Needs, Peaks
  <2> QED  BY <1>0, <1>1, <1>2, <1>3, <2>2 DEF Peaks
<1>10. Before'
  BY <1>3 DEF Before
<1>11. ASSUME cmds' \in Seq(Commands) /\ touched' \subseteq Blocks /\ slots' \subseteq Hashes PROVE Types'
  <2>1. Commands' = Commands
    BY <1>1 DEF Commands
  <2> QED  BY <1>0, <1>1, <1>2, <1>3, <1>11, <2>1 DEF Types
<1> QED  BY <1>0, <1>1, <1>6, <1>7, <1>8, <1>9, <1>10, <1>11

(* The end of WriteTransfers: no command is moved behind one that          *)
(* overwrites what it reads.                                               *)
LEMMA WriteEndStep ==
  ASSUME IInv, fault = "none", WriteEnd
  PROVE  IInv'
<1>0. /\ UNCHANGED <<image, plan, pass, usage, past>> /\ phase = "write" /\ phase' = "device" /\ i = N
      /\ phase \in Made /\ phase' \in Made /\ touched' = touched /\ dev' = dev /\ slots' = slots /\ fault' = "none"
  BY DEF WriteEnd, Made, phone
<1>1. Types /\ Ordered /\ Styled /\ Before /\ Runnable /\ Fits /\ Written
  BY DEF IInv
<1>2. PICK s, d, L : s = cmds' /\ L = Len(cmds) /\ EndFor(s, d, L)
  BY EndList
<1>3. /\ Ordered' /\ Styled' /\ Accounts' /\ Peaks' /\ Before'
      /\ Hashes' = Hashes /\ N' = N /\ CareMap' = CareMap /\ UNCHANGED <<tgt, srcImg, tgtImg, order, maxStashed>>
      /\ cmds' \in Seq(Commands) /\ touched' \subseteq Blocks /\ slots' \subseteq Hashes => Types'
  BY <1>0, PlanKept
<1>4. d \in Nat /\ L \in Nat /\ Len(s) \in Nat /\ s \in Seq(Commands) /\ d + L <= Len(s) /\ maxStashed \in Nat
  BY <1>1, <1>2 DEF EndFor, Types
<1>5. Types'
  BY <1>0, <1>1, <1>2, <1>3, <1>4 DEF Types
<1>6. /\ \A k \in 0..d : HeldIn(s, {}, k) = {}
      /\ \A k \in 0..L : HeldIn(s, {}, d + k) = HeldAt(k)
      /\ \A k \in (d + L)..Len(s) : HeldIn(s, {}, k) = {}
  BY <1>0, <1>2, EndSlots
<1>7. dev = srcImg /\ slots = {}
  BY <1>0, <1>1 DEF Before
<1>8. \A k : HeldAt(k)' = HeldIn(s, {}, k)
  <2> SUFFICES ASSUME NEW k PROVE HeldAt(k)' = HeldIn(s, {}, k)
    OBVIOUS
  <2>1. {} = slots'
    BY <1>0, <1>7
  <2> QED  BY <1>2, <1>3, <2>1, HeldNext
<1>9. \A k \in 1..d : s[k].op = "erase" /\ s[k].src = {} /\ s[k].tgt \cap (touched \cup CareMap \cup Extended) = {}
  BY <1>2 DEF EndFor
<1>10. \A k \in 1..L : k \in 1..Len(cmds) /\ s[d + k] = cmds[k]
  BY <1>2 DEF EndFor
<1>11. \A k \in (d + L + 1)..Len(s) :
         /\ s[k].src = {}
         /\ \/ s[k].op = "erase" /\ s[k].tgt \cap (CareMap \cup Extended) = {}
            \/ s[k].op = "zero" /\ s[k].tgt = Extended
  BY <1>2 DEF EndFor
<1>12. ASSUME NEW k \in 1..Len(s)
       PROVE  k \in 1..d \/ (\E m \in 1..L : k = d + m /\ s[k] = cmds[m]) \/ k \in (d + L + 1)..Len(s)
  <2>1. CASE k \in (d + 1)..(d + L)
    <3>1. k - d \in 1..L /\ k = d + (k - d)
      BY <1>4, <2>1
    <3> QED  BY <1>10, <3>1
  <2>2. k \in 1..d \/ k \in (d + 1)..(d + L) \/ k \in (d + L + 1)..Len(s)
    BY <1>4
  <2> QED  BY <2>1, <2>2
<1>13. Runnable'
  <2> SUFFICES ASSUME NEW k \in 1..Len(s)
               PROVE  /\ ReadsOK(k)' /\ (s[k].op = "stash" => s[k].id \in Hashes)
                      /\ s[k].op = "free" => s[k].id \in HeldIn(s, {}, k - 1)
    BY <1>2, <1>3, <1>8 DEF Runnable
  <2>0. ASSUME \A b \in s[k].src :
                 /\ \A r \in s[k].refs : b \in r.range => r.id \in HeldIn(s, {}, k - 1) /\ r.id = Sha1(srcImg, r.range)
                 /\ (\A r \in s[k].refs : b \notin r.range) => \A j \in 1..(k - 1) : b \notin s[j].tgt
        PROVE  ReadsOK(k)'
    BY <1>0, <1>2, <1>3, <1>7, <1>8, <2>0 DEF ReadsOK
  <2>1. CASE s[k].src = {} /\ s[k].op \in {"erase", "zero"}
    BY <2>0, <2>1
  <2>2. ASSUME NEW m \in 1..L, k = d + m, s[k] = cmds[m]
        PROVE  /\ ReadsOK(k)' /\ (s[k].op = "stash" => s[k].id \in Hashes)
               /\ s[k].op = "free" => s[k].id \in HeldIn(s, {}, k - 1)
    <3>1. m \in 1..Len(cmds) /\ m - 1 \in 0..L /\ k - 1 = d + (m - 1)
      BY <1>4, <1>10, <2>2
    <3>2. HeldIn(s, {}, k - 1) = HeldAt(m - 1)
      BY <1>6, <3>1
    <3>3. ReadsOK(m) /\ (cmds[m].op = "stash" => cmds[m].id \in Hashes) /\ (cmds[m].op = "free" => cmds[m].id \in HeldAt(m - 1))
      BY <1>1, <3>1 DEF Runnable
    <3>4. ASSUME NEW b \in s[k].src, \A r \in s[k].refs : b \notin r.range, NEW j \in 1..(k - 1), b \in s[j].tgt PROVE FALSE
      <4>1. CASE j \in 1..d
        <5>1. b \in touched
          BY <1>0, <1>1, <2>2, <3>1, <3>4 DEF Written
        <5> QED  BY <1>9, <3>4, <4>1, <5>1
      <4>2. CASE j \in (d + 1)..(k - 1)
        <5>1. j - d \in 1..(m - 1) /\ j - d \in 1..L /\ j = d + (j - d)
          BY <1>4, <2>2, <4>2
        <5>2. s[j] = cmds[j - d]
          BY <1>10, <5>1
        <5> QED  BY <2>2, <3>3, <3>4, <5>1, <5>2 DEF ReadsOK
      <4>3. j \in 1..d \/ j \in (d + 1)..(k - 1)
        BY <1>4
      <4> QED  BY <4>1, <4>2, <4>3
    <3>5. ASSUME NEW b \in s[k].src, NEW r \in s[k].refs, b \in r.range
          PROVE  r.id \in HeldIn(s, {}, k - 1) /\ r.id = Sha1(srcImg, r.range)
      BY <2>2, <3>2, <3>3, <3>5 DEF ReadsOK
    <3>6. ReadsOK(k)'
      BY <2>0, <3>4, <3>5
    <3> QED  BY <2>2, <3>2, <3>3, <3>6
  <2> QED  BY <1>9, <1>11, <1>12, <2>1, <2>2
<1>14. Fits'
  <2>0. SizeOf({}) <= maxStashed
    BY <1>4, SizeEmpty
  <2>1. ASSUME NEW k \in 0..Len(s) PROVE SizeOf(HeldIn(s, {}, k)) <= maxStashed
    <3>1. CASE k \in 0..d
      BY <1>6, <2>0, <3>1
    <3>2. CASE k \in d..(d + L)
      <4>1. k - d \in 0..L /\ k - d \in 0..Len(cmds) /\ k = d + (k - d)
        BY <1>2, <1>4, <3>2
      <4>2. HeldIn(s, {}, k) = HeldAt(k - d)
        BY <1>6, <4>1
      <4> QED  BY <1>0, <1>1, <4>1, <4>2 DEF Fits
    <3>3. CASE k \in (d + L)..Len(s)
      BY <1>6, <2>0, <3>3
    <3>4. k \in 0..d \/ k \in d..(d + L) \/ k \in (d + L)..Len(s)
      BY <1>4
    <3> QED  BY <3>1, <3>2, <3>3, <3>4
  <2>2. ASSUME NEW k \in 1..Len(s), s[k].src \cap s[k].tgt # {}
        PROVE  SizeOf(HeldIn(s, {}, k - 1)) + Cardinality(s[k].src) <= maxStashed
    <3>1. PICK m \in 1..L : k = d + m /\ s[k] = cmds[m]
      BY <1>9, <1>11, <1>12, <2>2
    <3>2. m \in 1..Len(cmds) /\ m - 1 \in 0..L /\ k - 1 = d + (m - 1)
      BY <1>4, <1>10, <3>1
    <3>3. HeldIn(s, {}, k - 1) = HeldAt(m - 1)
      BY <1>6, <3>2
    <3> QED  BY <1>0, <1>1, <2>2, <3>1, <3>2, <3>3 DEF Fits
  <2>3. HeldIn(s, {}, Len(s)) = {}
    BY <1>4, <1>6
  <2> QED  BY <1>0, <1>2, <1>3, <1>8, <2>1, <2>2, <2>3 DEF Fits
<1>15. Written'
  <2>0. \A b \in Extended : b \notin CareMap
    BY <1>1, TargetAssumption DEF CareMap, Types
  <2>1. \A k \in 1..Len(s) : \A b \in s[k].tgt :
           /\ b \in CareMap => s[k].op # "erase" /\ (s[k].op = "zero" => tgtImg[b] = Zero)
           /\ b \in Extended => s[k].op = "zero"
    <3> SUFFICES ASSUME NEW k \in 1..Len(s), NEW b \in s[k].tgt
                 PROVE  /\ b \in CareMap => s[k].op # "erase" /\ (s[k].op = "zero" => tgtImg[b] = Zero)
                        /\ b \in Extended => s[k].op = "zero"
      OBVIOUS
    <3>1. CASE k \in 1..d
      BY <1>9, <3>1
    <3>2. ASSUME NEW m \in 1..L, s[k] = cmds[m]
          PROVE  /\ b \in CareMap => s[k].op # "erase" /\ (s[k].op = "zero" => tgtImg[b] = Zero)
                 /\ b \in Extended => s[k].op = "zero"
      BY <1>1, <1>10, <3>2 DEF Written
    <3>3. CASE k \in (d + L + 1)..Len(s)
      BY <1>11, <2>0, <3>3
    <3> QED  BY <1>12, <3>1, <3>2, <3>3
  <2>2. ASSUME NEW u \in Transfers, NEW b \in tgt[u]
        PROVE  dev[b] = tgtImg[b] \/ \E k \in 1..Len(s) : b \in s[k].tgt
    <3>1. order[u] < i
      BY <1>0, <1>1, Counting DEF Types
    <3>2. dev[b] = tgtImg[b] \/ \E k \in 1..Len(cmds) : b \in cmds[k].tgt
      BY <1>0, <1>1, <3>1 DEF Written
    <3>3. \A k \in 1..Len(cmds) : d + k \in 1..Len(s) /\ s[d + k] = cmds[k]
      BY <1>2, <1>4, <1>10
    <3> QED  BY <3>2, <3>3
  <2>3. \A b \in Extended : \E k \in 1..Len(s) : b \in s[k].tgt
    BY <1>2 DEF EndFor
  <2> QED  BY <1>0, <1>2, <1>3, <2>1, <2>2, <2>3 DEF Written
<1>16. NoFault'
  BY <1>0 DEF NoFault
<1> QED  BY <1>3, <1>5, <1>13, <1>14, <1>15, <1>16 DEF IInv

-----------------------------------------------------------------------------
(* The device runs a command of the list: it finds its source blocks and   *)
(* stashes.                                                                *)
LEMMA RunCommandStep ==
  ASSUME IInv, fault = "none", RunCommand
  PROVE  IInv'
<1>0. /\ UNCHANGED <<image, plan, pass, usage, past>> /\ phase = "device" /\ phase' = "device"
      /\ phase \in Made /\ phase' \in Made /\ touched' = touched /\ cmds # <<>>
  BY DEF RunCommand, Made
<1>1. Types /\ Runnable /\ Fits /\ Written
  BY DEF IInv
<1>2. PICK s, cmd, old : s = cmds' /\ cmd = cmds[1] /\ old = cmds
  OBVIOUS
<1>3. /\ s = Tail(old) /\ Len(old) \in Nat /\ Len(old) # 0 /\ old \in Seq(Commands) /\ cmd = Head(cmds)
  <2>1. old \in Seq(Commands) /\ old # <<>>
    BY <1>0, <1>1, <1>2 DEF Types
  <2>2. Len(old) \in Nat /\ Len(old) # 0
    BY <2>1, EmptySeq
  <2>3. s = Tail(old)
    BY <1>2 DEF RunCommand
  <2>4. cmd = Head(cmds)
    BY <1>2, <2>1
  <2> QED  BY <2>1, <2>2, <2>3, <2>4
<1>4. /\ s \in Seq(Commands) /\ Len(s) \in Nat /\ Len(s) + 1 = Len(old) /\ \A k \in 1..Len(s) : s[k] = old[1 + k]
  BY <1>3
<1>5. /\ 1 \in 1..Len(cmds) /\ \A k \in 1..Len(s) : 1 + k \in 1..Len(cmds) /\ s[k] = cmds[1 + k]
  BY <1>2, <1>3, <1>4
<1>6. /\ Ordered' /\ Styled' /\ Accounts' /\ Peaks' /\ Before'
      /\ Hashes' = Hashes /\ N' = N /\ CareMap' = CareMap /\ UNCHANGED <<tgt, srcImg, tgtImg, order, maxStashed>>
      /\ cmds' \in Seq(Commands) /\ touched' \subseteq Blocks /\ slots' \subseteq Hashes => Types'
  BY <1>0, PlanKept
<1>7. cmd \in Commands
  BY <1>2, <1>3, <1>5, ElementOfSeq
<1>8. /\ ReadsOK(1) /\ (cmd.op = "stash" => cmd.id \in Hashes) /\ (cmd.op = "free" => cmd.id \in HeldAt(1 - 1))
  BY <1>1, <1>2, <1>5 DEF Runnable
<1>9. slots \in SUBSET Hashes /\ HeldAt(1 - 1) = slots
  BY <1>1, HeldNone DEF Types, HeldAt
<1>10. PICK start : start = slots
  OBVIOUS
<1>11. slots' = HeldIn(old, start, 1)
  <2>1. slots' = IF cmd.op = "stash" THEN start \cup {cmd.id}
                 ELSE IF cmd.op = "free" THEN start \ {cmd.id} ELSE start
    BY <1>3, <1>10 DEF RunCommand
  <2>2. HeldIn(old, start, 1) = IF old[1].op = "stash" THEN start \cup {old[1].id}
                                ELSE IF old[1].op = "free" THEN start \ {old[1].id} ELSE start
    BY <1>2, <1>8, <1>9, <1>10, HeldFirst
  <2> QED  BY <1>2, <2>1, <2>2
<1>12. Types'
  <2>1. slots' \subseteq Hashes
    BY <1>11 DEF HeldIn
  <2> QED  BY <1>0, <1>1, <1>2, <1>4, <1>6, <2>1 DEF Types
<1>13. \A k \in 0..Len(s) : HeldAt(k)' = HeldAt(1 + k)
  <2> SUFFICES ASSUME NEW k \in 0..Len(s) PROVE HeldAt(k)' = HeldAt(1 + k)
    OBVIOUS
  <2>1. PICK begin : begin = slots'
    OBVIOUS
  <2>2. begin = HeldIn(old, start, 1) /\ 1 \in Nat /\ k \in Nat
    BY <1>4, <1>11, <2>1
  <2>3. \A m \in 1..k : old[1 + m] = s[m]
    BY <1>4
  <2>4. \A h \in Hashes : h \in HeldIn(old, start, 1 + k) <=> h \in HeldIn(s, begin, k)
    <3>1. PICK d \in Nat : d = 1
      OBVIOUS
    <3>2. begin = HeldIn(old, start, d) /\ \A m \in 1..k : old[d + m] = s[m]
      BY <2>2, <2>3, <3>1
    <3>3. \A h \in Hashes : h \in HeldIn(old, start, d + k) <=> h \in HeldIn(s, begin, k)
      BY <2>2, <3>2, HeldShift
    <3> QED  BY <3>1, <3>3
  <2>5. HeldIn(old, start, 1 + k) = HeldIn(s, begin, k)
    BY <2>4 DEF HeldIn
  <2>6. HeldAt(k)' = HeldIn(s, begin, k)
    BY <1>2, <1>6, <2>1, HeldNext
  <2>7. HeldAt(1 + k) = HeldIn(old, start, 1 + k)
    BY <1>2, <1>10 DEF HeldAt
  <2> QED  BY <2>5, <2>6, <2>7
<1>14. \A b \in Blocks : dev'[b] = IF b \notin cmd.tgt THEN dev[b]
                                   ELSE IF cmd.op = "zero" THEN Zero
                                   ELSE IF cmd.op = "erase" THEN Erased
                                   ELSE tgtImg[b]
  BY <1>3 DEF RunCommand
<1>15. fault' = "none"
  <2>1. ASSUME NEW b \in cmd.src PROVE Loads(cmd, b) = srcImg[b]
    <3>1. /\ \A r \in cmd.refs : b \in r.range => r.id \in slots /\ r.id = Sha1(srcImg, r.range)
          /\ (\A r \in cmd.refs : b \notin r.range) => dev[b] = srcImg[b]
      BY <1>2, <1>8, <1>9, <2>1 DEF ReadsOK
    <3>2. CASE {r \in cmd.refs : b \in r.range} = {}
      BY <3>1, <3>2 DEF Loads
    <3>3. CASE {r \in cmd.refs : b \in r.range} # {}
      <4>1. PICK r : r = CHOOSE q \in {rr \in cmd.refs : b \in rr.range} : TRUE
        OBVIOUS
      <4>2. r \in cmd.refs /\ b \in r.range
        BY <3>3, <4>1
      <4>3. r.id \in slots /\ r.id = Sha1(srcImg, r.range)
        BY <3>1, <4>2
      <4>4. r.range \in SUBSET Blocks
        BY <1>7, <4>2 DEF Commands
      <4>5. r.id[Place(r.range, b)] = srcImg[b]
        BY <4>2, <4>3, <4>4, Sha1Type
      <4>6. Loads(cmd, b) = r.id[Place(r.range, b)]
        BY <3>3, <4>1, <4>3 DEF Loads
      <4> QED  BY <4>5, <4>6
    <3> QED  BY <3>2, <3>3
  <2>2. cmd.op = "free" => cmd.id \in slots
    BY <1>8, <1>9
  <2> QED  BY <1>3, <2>1, <2>2 DEF RunCommand
<1>16. Runnable'
  <2> SUFFICES ASSUME NEW k \in 1..Len(s)
               PROVE  /\ ReadsOK(k)' /\ (s[k].op = "stash" => s[k].id \in Hashes)
                      /\ s[k].op = "free" => s[k].id \in HeldAt(k - 1)'
    BY <1>2, <1>6 DEF Runnable
  <2>1. 1 + k \in 1..Len(cmds) /\ s[k] = cmds[1 + k] /\ k - 1 \in 0..Len(s) /\ 1 + (k - 1) = k /\ (1 + k) - 1 = k
    BY <1>4, <1>5
  <2>2. HeldAt(k - 1)' = HeldAt(k)
    BY <1>13, <2>1
  <2>3. /\ ReadsOK(1 + k) /\ (s[k].op = "stash" => s[k].id \in Hashes) /\ (s[k].op = "free" => s[k].id \in HeldAt(k))
    BY <1>1, <2>1 DEF Runnable
  <2>4. ASSUME NEW b \in s[k].src
        PROVE  /\ \A r \in s[k].refs : b \in r.range => r.id \in HeldAt(k - 1)' /\ r.id = Sha1(srcImg, r.range)
               /\ (\A r \in s[k].refs : b \notin r.range) =>
                    dev'[b] = srcImg[b] /\ \A j \in 1..(k - 1) : b \notin s[j].tgt
    <3>1. /\ \A r \in s[k].refs : b \in r.range => r.id \in HeldAt(k) /\ r.id = Sha1(srcImg, r.range)
          /\ (\A r \in s[k].refs : b \notin r.range) =>
               dev[b] = srcImg[b] /\ \A j \in 1..k : b \notin cmds[j].tgt
      BY <2>1, <2>3, <2>4 DEF ReadsOK
    <3>2. ASSUME \A r \in s[k].refs : b \notin r.range
          PROVE  dev'[b] = srcImg[b] /\ \A j \in 1..(k - 1) : b \notin s[j].tgt
      <4>1. s[k] \in Commands
        BY <1>4, ElementOfSeq
      <4>2. b \in Blocks
        BY <2>4, <4>1 DEF Commands
      <4>3. b \notin cmd.tgt
        BY <1>2, <3>1, <3>2
      <4>4. dev'[b] = srcImg[b]
        BY <1>14, <3>1, <3>2, <4>2, <4>3
      <4>5. \A j \in 1..(k - 1) : j \in 1..Len(s) /\ 1 + j \in 1..k
        BY <1>4
      <4> QED  BY <1>5, <3>1, <3>2, <4>4, <4>5
    <3> QED  BY <2>2, <3>1, <3>2
  <2>5. ReadsOK(k)'
    BY <1>2, <1>6, <2>4 DEF ReadsOK
  <2> QED  BY <2>2, <2>3, <2>5
<1>17. Fits'
  <2>1. ASSUME NEW k \in 0..Len(s) PROVE SizeOf(HeldAt(k)') <= maxStashed
    <3>1. 1 + k \in 0..Len(cmds)
      BY <1>2, <1>4
    <3> QED  BY <1>0, <1>1, <1>13, <3>1 DEF Fits
  <2>2. ASSUME NEW k \in 1..Len(s), s[k].src \cap s[k].tgt # {}
        PROVE  SizeOf(HeldAt(k - 1)') + Cardinality(s[k].src) <= maxStashed
    <3>1. 1 + k \in 1..Len(cmds) /\ s[k] = cmds[1 + k] /\ k - 1 \in 0..Len(s) /\ 1 + (k - 1) = k /\ (1 + k) - 1 = k
      BY <1>4, <1>5
    <3>2. HeldAt(k - 1)' = HeldAt(k)
      BY <1>13, <3>1
    <3>3. SizeOf(HeldAt((1 + k) - 1)) + Cardinality(cmds[1 + k].src) <= maxStashed
      BY <1>0, <1>1, <2>2, <3>1 DEF Fits
    <3> QED  BY <3>1, <3>2, <3>3
  <2>3. \A h \in Hashes : h \notin HeldAt(Len(s))'
    <3>1. HeldAt(Len(s))' = HeldAt(Len(cmds))
      BY <1>2, <1>4, <1>13
    <3> QED  BY <1>0, <1>1, <3>1 DEF Fits
  <2>4. HeldAt(Len(cmds))' = HeldAt(Len(s))'
    BY <1>2
  <2>5. \A k \in 0..Len(s) : SizeOf(HeldAt(k))' <= maxStashed'
    BY <1>6, <2>1
  <2>6. \A k \in 1..Len(s) : s[k].src \cap s[k].tgt # {} => SizeOf(HeldAt(k - 1)') + Cardinality(s[k].src) <= maxStashed'
    BY <1>6, <2>2
  <2> QED  BY <1>0, <1>2, <1>6, <2>3, <2>4, <2>5, <2>6 DEF Fits
<1>18. Written'
  <2>1. \A k \in 1..Len(cmds) : \A b \in cmds[k].tgt :
           /\ b \in CareMap => cmds[k].op # "erase" /\ (cmds[k].op = "zero" => tgtImg[b] = Zero)
           /\ b \in Extended => cmds[k].op = "zero"
    BY <1>1 DEF Written
  <2>2. \A k \in 1..Len(s) : \A b \in s[k].tgt :
           /\ b \in CareMap => s[k].op # "erase" /\ (s[k].op = "zero" => tgtImg[b] = Zero)
           /\ b \in Extended => s[k].op = "zero"
    BY <1>5, <2>1
  <2>3. ASSUME NEW b, NEW k \in 1..Len(cmds), b \in cmds[k].tgt, b \notin cmd.tgt
        PROVE  \E m \in 1..Len(s) : b \in s[m].tgt
    <3>1. k # 1
      BY <1>2, <2>3
    <3>2. k - 1 \in 1..Len(s) /\ 1 + (k - 1) = k
      BY <1>2, <1>4, <3>1
    <3> QED  BY <1>5, <2>3, <3>2
  <2>4. ASSUME NEW u \in Transfers, NEW b \in tgt[u]
        PROVE  dev'[b] = tgtImg[b] \/ \E k \in 1..Len(s) : b \in s[k].tgt
    <3>1. dev[b] = tgtImg[b] \/ \E k \in 1..Len(cmds) : b \in cmds[k].tgt
      BY <1>0, <1>1 DEF Written
    <3>2. b \in Blocks /\ b \in CareMap
      BY <1>1, OverlapType DEF CareMap
    <3>3. CASE b \in cmd.tgt
      <4>1. cmd.op # "erase" /\ (cmd.op = "zero" => tgtImg[b] = Zero)
        BY <1>2, <1>5, <2>1, <3>2, <3>3
      <4> QED  BY <1>14, <3>2, <3>3, <4>1
    <3>4. CASE b \notin cmd.tgt
      <4>1. dev'[b] = dev[b]
        BY <1>14, <3>2, <3>4
      <4> QED  BY <2>3, <3>1, <3>4, <4>1
    <3> QED  BY <3>3, <3>4
  <2>5. ASSUME NEW b \in Extended
        PROVE  dev'[b] = Zero \/ \E k \in 1..Len(s) : b \in s[k].tgt
    <3>1. dev[b] = Zero \/ \E k \in 1..Len(cmds) : b \in cmds[k].tgt
      BY <1>0, <1>1 DEF Written
    <3>2. b \in Blocks
      BY TargetAssumption
    <3>3. CASE b \in cmd.tgt
      <4>1. cmd.op = "zero"
        BY <1>2, <1>5, <2>1, <3>3
      <4> QED  BY <1>14, <3>2, <3>3, <4>1
    <3>4. CASE b \notin cmd.tgt
      <4>1. dev'[b] = dev[b]
        BY <1>14, <3>2, <3>4
      <4> QED  BY <2>3, <3>1, <3>4, <4>1
    <3> QED  BY <3>3, <3>4
  <2> QED  BY <1>0, <1>2, <1>6, <2>2, <2>4, <2>5 DEF Written
<1> QED  BY <1>6, <1>12, <1>15, <1>16, <1>17, <1>18 DEF IInv, NoFault

(* The device has run the whole list.                                      *)
LEMMA DeviceDoneStep ==
  ASSUME IInv, fault = "none", DeviceDone
  PROVE  IInv'
<1>0. /\ UNCHANGED <<image, plan, pass, usage, past>> /\ UNCHANGED <<touched, cmds, dev, slots>> /\ phase = "device" /\ phase' = "done"
      /\ phase \in Made /\ phase' \in Made /\ cmds = <<>> /\ fault' = "none"
  BY DEF DeviceDone, Made, list, phone
<1>1. Types /\ Fits /\ Written
  BY DEF IInv
<1>2. /\ Ordered' /\ Styled' /\ Accounts' /\ Peaks' /\ Before'
      /\ Hashes' = Hashes /\ N' = N /\ CareMap' = CareMap /\ UNCHANGED <<tgt, srcImg, tgtImg, order, maxStashed>>
      /\ cmds' \in Seq(Commands) /\ touched' \subseteq Blocks /\ slots' \subseteq Hashes => Types'
  BY <1>0, PlanKept
<1>3. Types'
  BY <1>0, <1>1, <1>2 DEF Types
<1>4. \A k : HeldAt(k)' = HeldAt(k)
  BY <1>0, <1>2 DEF HeldAt, HeldIn
<1>5. \A k \in 1..Len(cmds) : FALSE
  BY <1>0
<1>6. Runnable'
  BY <1>0, <1>5 DEF Runnable
<1>7. Fits'
  BY <1>0, <1>1, <1>2, <1>4, <1>5 DEF Fits
<1>8. Written'
  BY <1>0, <1>1, <1>2, <1>5 DEF Written
<1> QED  BY <1>0, <1>2, <1>3, <1>6, <1>7, <1>8 DEF IInv, NoFault

-----------------------------------------------------------------------------
(* A step that changes nothing.                                            *)
LEMMA Stutter ==
  ASSUME IInv, UNCHANGED vars
  PROVE  IInv'
<1>0. /\ UNCHANGED image /\ UNCHANGED <<src, style, order, stash, again>> /\ UNCHANGED <<ignore, i, pend, replaced>>
      /\ UNCHANGED <<stashes, stashed, maxStashed>> /\ UNCHANGED <<measured, revised>>
      /\ UNCHANGED <<touched, cmds, dev, slots>> /\ UNCHANGED phase /\ UNCHANGED fault
  BY DEF vars, plan, pass, usage, past, list, phone
<1>1. /\ Hashes' = Hashes /\ N' = N /\ UNCHANGED <<tgt, zero, srcImg, tgtImg, limit>> /\ CareMap' = CareMap
  BY <1>0, SameImage
<1>2. Types /\ Ordered /\ Styled /\ Accounts /\ Peaks /\ Before /\ Runnable /\ Fits /\ Written /\ NoFault
  BY DEF IInv
<1>3. \A u, v \in Transfers : Overlap(u, v)' = Overlap(u, v) /\ StashSha1(u, v)' = StashSha1(u, v)
  BY <1>0, <1>1 DEF Overlap, StashSha1
<1>4. \A p \in stash : PairSha1(p)' = PairSha1(p)
  BY <1>2, <1>3 DEF PairSha1, Types
<1>5. Types'
  <2>1. Commands' = Commands
    BY <1>1 DEF Commands
  <2> QED  BY <1>0, <1>1, <1>2, <2>1 DEF Types
<1>6. Ordered'
  BY <1>0, <1>2, <1>3 DEF Ordered
<1>7. Styled'
  <2>1. \A u \in Transfers : Identical(u)' = Identical(u)
    BY <1>0, <1>1 DEF Identical
  <2> QED  BY <1>0, <1>1, <1>2, <2>1 DEF Styled
<1>8. Accounts'
  <2>1. Counted' = Counted
    BY <1>0 DEF Counted
  <2>2. Counted \subseteq stash
    BY DEF Counted
  <2>3. \A h \in Hashes : CountedAs(h)' = CountedAs(h)
    BY <1>4, <2>1, <2>2 DEF CountedAs
  <2>4. Held' = Held
    BY <1>0, <1>1 DEF Held
  <2> QED  BY <1>0, <1>1, <1>2, <2>3, <2>4 DEF Accounts
<1>9. Peaks'
  <2>1. \A u \in Transfers : Alive(u)' = Alive(u) /\ (Copying(u)' <=> Copying(u))
    BY <1>0, <1>1, <1>4 DEF Alive, Copying
  <2>2. \A u \in Transfers : /\ Needs(u, revised)' <=> Needs(u, revised)
                             /\ Needs(u, maxStashed)' <=> Needs(u, maxStashed)
    BY <1>0, <2>1 DEF Needs
  <2> QED  BY <1>0, <1>1, <1>2, <2>2 DEF Peaks
<1>10. Before'
  BY <1>0, <1>1, <1>2 DEF Before
<1>11. \A k : HeldAt(k)' = HeldAt(k)
  BY <1>0, <1>1 DEF HeldAt, HeldIn
<1>12. Runnable'
  <2>1. \A k : ReadsOK(k)' <=> ReadsOK(k)
    BY <1>0, <1>1, <1>11 DEF ReadsOK
  <2> QED  BY <1>0, <1>1, <1>2, <1>11, <2>1 DEF Runnable
<1>13. Fits'
  BY <1>0, <1>1, <1>2, <1>11 DEF Fits
<1>14. Written'
  BY <1>0, <1>1, <1>2 DEF Written
<1>15. NoFault'
  BY <1>0, <1>1, <1>2 DEF NoFault
<1> QED  BY <1>5, <1>6, <1>7, <1>8, <1>9, <1>10, <1>12, <1>13, <1>14, <1>15 DEF IInv

(* Every reachable state satisfies the invariant.                          *)
THEOREM Inductive == Spec => []IInv
<1>1. Init => IInv
  BY InitIInv
<1>2. ASSUME IInv, [Next]_vars PROVE IInv'
  <2>1. CASE Step
    <3>0. fault = "none"
      BY <2>1 DEF Step
    <3>1. CASE FindSequenceForTransfers
      BY <1>2, <3>0, <3>1, FindSequenceStep
    <3>2. ASSUME NEW x \in Transfers, ReviseStash(x) PROVE IInv'
      BY <1>2, <3>0, <3>2, ReviseStashStep
    <3>3. CASE ReviseTransfer
      BY <1>2, <3>0, <3>3, ReviseTransferStep
    <3>4. CASE MeasureDone
      BY <1>2, <3>0, <3>4, MeasureDoneStep
    <3>5. ASSUME NEW cheap \in SUBSET Transfers, NEW chosen \in SUBSET Transfers, SelectAndConvert(cheap, chosen) PROVE IInv'
      BY <1>2, <3>0, <3>5, SelectStep
    <3>6. CASE ReviseDone
      BY <1>2, <3>0, <3>6, ReviseDoneStep
    <3>7. CASE WriteTransfer
      BY <1>2, <3>0, <3>7, WriteTransferStep
    <3>8. CASE WriteEnd
      BY <1>2, <3>0, <3>8, WriteEndStep
    <3>9. CASE RunCommand
      BY <1>2, <3>0, <3>9, RunCommandStep
    <3>10. CASE DeviceDone
      BY <1>2, <3>0, <3>10, DeviceDoneStep
    <3> QED  BY <2>1, <3>1, <3>2, <3>3, <3>4, <3>5, <3>6, <3>7, <3>8, <3>9, <3>10 DEF Step
  <2>2. CASE UNCHANGED vars
    BY <1>2, <2>2, Stutter
  <2> QED  BY <1>2, <2>1, <2>2 DEF Next, Stopped
<1> QED  BY <1>1, <1>2, PTL DEF Spec

(* The device ends with the target image and without stashes.              *)
THEOREM UpdateIsExact == Spec => []Updated
<1>1. IInv => Updated
  <2> SUFFICES ASSUME IInv, phase = "done"
               PROVE  /\ \A b \in CareMap : dev[b] = tgtImg[b]
                      /\ \A b \in Extended : dev[b] = Zero
                      /\ slots = {}
    BY DEF Updated
  <2>1. cmds = <<>> /\ phase \in Made /\ \A k \in 1..Len(cmds) : FALSE
    BY DEF IInv, Written, Made
  <2>2. \A b \in CareMap : dev[b] = tgtImg[b]
    BY <2>1 DEF IInv, Written, CareMap
  <2>3. \A b \in Extended : dev[b] = Zero
    BY <2>1 DEF IInv, Written
  <2>4. slots = {}
    <3>1. slots \in SUBSET Hashes /\ Len(cmds) = 0
      BY <2>1 DEF IInv, Types
    <3>2. HeldAt(0) = slots
      BY <3>1, HeldNone DEF HeldAt
    <3>3. \A h \in Hashes : h \notin HeldAt(0)
      BY <2>1, <3>1 DEF IInv, Fits
    <3> QED  BY <3>1, <3>2, <3>3
  <2> QED  BY <2>2, <2>3, <2>4
<1> QED  BY <1>1, Inductive, PTL

(* The announced size is enough for every prefix of the list.              *)
THEOREM AnnouncedIsEnough == Spec => []AnnouncedSizeCovers
<1>1. IInv => AnnouncedSizeCovers
  <2> SUFFICES ASSUME IInv, phase = "device"
               PROVE  /\ SizeOf(slots) <= maxStashed
                      /\ cmds # <<>> => (Head(cmds).src \cap Head(cmds).tgt # {} =>
                           SizeOf(slots) + Cardinality(Head(cmds).src) <= maxStashed)
    BY DEF AnnouncedSizeCovers
  <2>1. slots \in SUBSET Hashes /\ phase \in Made /\ cmds \in Seq(Commands) /\ Len(cmds) \in Nat
    BY DEF IInv, Types, Made
  <2>2. HeldAt(0) = slots /\ 1 - 1 = 0
    BY <2>1, HeldNone DEF HeldAt
  <2>3. SizeOf(slots) <= maxStashed
    <3>1. 0 \in 0..Len(cmds)
      BY <2>1
    <3> QED  BY <2>1, <2>2, <3>1 DEF IInv, Fits
  <2>4. ASSUME cmds # <<>>, Head(cmds).src \cap Head(cmds).tgt # {}
        PROVE  SizeOf(slots) + Cardinality(Head(cmds).src) <= maxStashed
    <3>1. Head(cmds) = cmds[1] /\ 1 \in 1..Len(cmds)
      BY <2>1, <2>4
    <3>2. SizeOf(HeldAt(1 - 1)) + Cardinality(cmds[1].src) <= maxStashed
      BY <2>1, <2>4, <3>1 DEF IInv, Fits
    <3> QED  BY <2>2, <3>1, <3>2
  <2> QED  BY <2>3, <2>4
<1> QED  BY <1>1, Inductive, PTL

(* ReviseStashSize never counts less than WriteTransfers.                  *)
THEOREM RevisedIsEnough == Spec => []RevisedCovers
<1>1. IInv => RevisedCovers
  BY DEF IInv, Peaks, Made, RevisedCovers
<1> QED  BY <1>1, Inductive, PTL

(* No assertion fails, but the one on the stash limit where it is 0.       *)
THEOREM AssertionsHold == Spec => []NoFault
<1>1. IInv => NoFault
  BY DEF IInv
<1> QED  BY <1>1, Inductive, PTL
=============================================================================
