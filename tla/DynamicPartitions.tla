------------------------- MODULE DynamicPartitions -------------------------
(***************************************************************************)
(* The resizing of dynamic partitions by a non-A/B update:                 *)
(* DynamicPartitionsDifference of releasetools/common.py, which writes the *)
(* list of operations on the metadata of `super`, and the device's         *)
(* update_dynamic_partitions (external), which runs it.                    *)
(*                                                                         *)
(* A layout u says, for each partition of u.names (the partitions that     *)
(* have a BlockDifference, in order), its size and its group in the source *)
(* and in the target, and for each group of u.groups its limits.  Size 0   *)
(* is an image that is None or empty, NoGroup a partition that no          *)
(* super_*_partition_list names, limit NoLimit (None) a group that does    *)
(* not exist, and limit 0 a group without limit.                           *)
(***************************************************************************)
EXTENDS Integers, Sequences, SequencesExt, FiniteSetsExt

CONSTANT SuperSize
ASSUME SuperSizeAssumption == SuperSize \in Nat

NoGroup == "none"
NoLimit == -1
Default == "default"

(* for x in s: if Cond(x): extend(Lines(x)) *)
ForEach(s, Cond(_), Lines(_)) ==
  FlattenSeq([k \in 1..Len(s) |-> IF Cond(s[k]) THEN Lines(s[k]) ELSE <<>>])

Op(op, name, group, size) == [op |-> op, name |-> name, group |-> group, size |-> size]

Shrinks(u, p) == u.srcSize[p] > 0 /\ u.tgtSize[p] > 0 /\ u.srcSize[p] > u.tgtSize[p]
Grows(u, p) == u.tgtSize[p] > 0 /\ u.srcSize[p] < u.tgtSize[p]
Moves(u, p) == u.srcGroup[p] # NoGroup /\ u.tgtGroup[p] # NoGroup /\ u.srcGroup[p] # u.tgtGroup[p]

(* The assertions of __init__: every partition of a group has a            *)
(* BlockDifference, and the partitions with an image are the dynamic ones. *)
Consistent(u) ==
  /\ \A p \in DOMAIN u.srcGroup :
       u.srcGroup[p] # NoGroup \/ u.tgtGroup[p] # NoGroup => p \in ToSet(u.names)
  /\ \A p \in ToSet(u.names) :
       /\ u.tgtSize[p] > 0 <=> u.tgtGroup[p] # NoGroup
       /\ u.srcSize[p] > 0 <=> u.srcGroup[p] # NoGroup

(* The lines of _Compute about partitions that come before those about     *)
(* groups, and those that come after.                                      *)
Leaves(u, p) == u.srcGroup[p] # NoGroup /\ u.tgtGroup[p] = NoGroup
Enters(u, p) == u.tgtGroup[p] # NoGroup /\ u.srcGroup[p] = NoGroup

Releases(u) ==
     ForEach(u.names, LAMBDA p : Leaves(u, p), LAMBDA p : <<Op("remove", p, NoGroup, 0)>>)
  \o ForEach(u.names, LAMBDA p : Moves(u, p), LAMBDA p : <<Op("move", p, Default, 0)>>)
  \o ForEach(u.names, LAMBDA p : Shrinks(u, p),
             LAMBDA p : <<Op("resize", p, NoGroup, u.tgtSize[p])>>)

Acquires(u) ==
     ForEach(u.names, LAMBDA p : Enters(u, p), LAMBDA p : <<Op("add", p, u.tgtGroup[p], 0)>>)
  \o ForEach(u.names, LAMBDA p : Grows(u, p),
             LAMBDA p : <<Op("resize", p, NoGroup, u.tgtSize[p])>>)
  \o ForEach(u.names, LAMBDA p : Moves(u, p), LAMBDA p : <<Op("move", p, u.tgtGroup[p], 0)>>)

(* One pass over the groups gives them up, a second one adds them.         *)
ShrinkGroup(u, g) ==
  (IF u.srcLimit[g] # NoLimit /\ u.tgtLimit[g] = NoLimit
   THEN <<Op("remove_group", g, NoGroup, 0)>> ELSE <<>>)
  \o (IF u.srcLimit[g] # NoLimit /\ u.tgtLimit[g] # NoLimit /\ u.srcLimit[g] > u.tgtLimit[g]
      THEN <<Op("resize_group", g, NoGroup, u.tgtLimit[g])>> ELSE <<>>)

GrowGroup(u, g) ==
  (IF u.srcLimit[g] = NoLimit /\ u.tgtLimit[g] # NoLimit
   THEN <<Op("add_group", g, NoGroup, u.tgtLimit[g])>> ELSE <<>>)
  \o (IF u.srcLimit[g] # NoLimit /\ u.tgtLimit[g] # NoLimit /\ u.srcLimit[g] < u.tgtLimit[g]
      THEN <<Op("resize_group", g, NoGroup, u.tgtLimit[g])>> ELSE <<>>)

Groups(u) ==
     ForEach(u.groups, LAMBDA g : TRUE, LAMBDA g : ShrinkGroup(u, g))
  \o ForEach(u.groups, LAMBDA g : TRUE, LAMBDA g : GrowGroup(u, g))

Compute(u) ==
  (IF u.removeAll THEN <<Op("remove_all_groups", NoGroup, NoGroup, 0)>> ELSE <<>>)
  \o Releases(u) \o Groups(u) \o Acquires(u)

-----------------------------------------------------------------------------
(* The device.  m.group and m.size are the partitions of super, m.limit    *)
(* its groups; the group "default" has no limit.  An operation that        *)
(* liblp would refuse clears m.ok.                                         *)
Total(f) == MapThenSumSet(LAMBDA p : f[p], DOMAIN f)
Used(m, g) == Total([p \in DOMAIN m.group |-> IF m.group[p] = g THEN m.size[p] ELSE 0])
Allocated(m) == Total(m.size)
GroupExists(m, g) == g = Default \/ m.limit[g] # NoLimit
Fits(m, g, extra) == g = Default \/ m.limit[g] = 0 \/ Used(m, g) + extra <= m.limit[g]

Accepts(m, o) ==
  CASE o.op = "remove_all_groups" -> TRUE
    [] o.op = "remove" -> m.group[o.name] # NoGroup
    [] o.op = "move" -> /\ m.group[o.name] # NoGroup /\ GroupExists(m, o.group)
                        /\ Fits(m, o.group, m.size[o.name])
    [] o.op = "resize" -> /\ m.group[o.name] # NoGroup
                          /\ Fits(m, m.group[o.name], o.size - m.size[o.name])
                          /\ Allocated(m) - m.size[o.name] + o.size <= SuperSize
    [] o.op = "add" -> m.group[o.name] = NoGroup /\ GroupExists(m, o.group)
    [] o.op = "remove_group" -> /\ GroupExists(m, o.name)
                                /\ \A p \in DOMAIN m.group : m.group[p] # o.name
    [] o.op = "resize_group" -> GroupExists(m, o.name) /\ (o.size = 0 \/ Used(m, o.name) <= o.size)
    [] o.op = "add_group" -> ~GroupExists(m, o.name)

Effect(m, o) ==
  CASE o.op = "remove_all_groups" ->
         [m EXCEPT !.group = [p \in DOMAIN @ |-> NoGroup], !.size = [p \in DOMAIN @ |-> 0],
                   !.limit = [g \in DOMAIN @ |-> NoLimit]]
    [] o.op = "remove" -> [m EXCEPT !.group[o.name] = NoGroup, !.size[o.name] = 0]
    [] o.op \in {"move", "add"} -> [m EXCEPT !.group[o.name] = o.group]
    [] o.op = "resize" -> [m EXCEPT !.size[o.name] = o.size]
    [] o.op = "remove_group" -> [m EXCEPT !.limit[o.name] = NoLimit]
    [] o.op \in {"resize_group", "add_group"} -> [m EXCEPT !.limit[o.name] = o.size]

(* Once an operation is refused the rest is not run.  Apply gives the set  *)
(* of results, which is a singleton.                                       *)
ApplyOp(m, o) == IF m.ok /\ Accepts(m, o) THEN Effect(m, o) ELSE [m EXCEPT !.ok = FALSE]
Apply(m, ops) ==
  LET after[k \in 0..Len(ops)] == IF k = 0 THEN {m} ELSE {ApplyOp(x, ops[k]) : x \in after[k - 1]}
  IN after[Len(ops)]

SourceMetadata(u) == [ok |-> TRUE, group |-> u.srcGroup, size |-> u.srcSize, limit |-> u.srcLimit]
TargetMetadata(u) == [ok |-> TRUE, group |-> u.tgtGroup, size |-> u.tgtSize, limit |-> u.tgtLimit]

(* Metadata a device or a build can have.                                  *)
Valid(m) == /\ Allocated(m) <= SuperSize
            /\ \A p \in DOMAIN m.group : m.group[p] = NoGroup <=> m.size[p] = 0
            /\ \A p \in DOMAIN m.group : m.group[p] # NoGroup => GroupExists(m, m.group[p])
            /\ \A g \in DOMAIN m.limit : m.limit[g] # NoLimit => Fits(m, g, 0)
=============================================================================
