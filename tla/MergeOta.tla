------------------------------ MODULE MergeOta -------------------------------
(* merge_ota: one package from several partial A/B packages.  An operation  *)
(* is its place in the data of its payload; src names the payload and the   *)
(* operation whose data it has to find there.                               *)
EXTENDS TargetFiles

VARIABLES
  mpc,      \* where main of merge_ota is
  otas,     \* the packages, with their payloads
  merged    \* the output

otaVars == <<mpc, otas, merged>>

\* The places of the operations of a payload that have data.
WithData(parts) ==
  {x \in UNION {{i} \X DOMAIN parts[i].ops : i \in DOMAIN parts} : parts[x[1]].ops[x[2]].len > 0}
OpAt(parts, x) == parts[x[1]].ops[x[2]]
Precedes(x, y) == x[1] < y[1] \/ (x[1] = y[1] /\ x[2] < y[2])
End(op) == op.off + op.len

TotalDataLength(parts) ==
  IF WithData(parts) = {} THEN 0
  ELSE End(OpAt(parts, CHOOSE x \in WithData(parts) : \A y \in WithData(parts) : y = x \/ Precedes(y, x)))

(* A payload: partitions with operations, the data of each after that of    *)
(* the operations before.                                                   *)
IsPayload(parts) ==
  /\ parts \in Seq(ToSet(parts))
  /\ \A i \in DOMAIN parts :
       /\ "ops" \in DOMAIN parts[i] /\ parts[i].ops \in Seq(ToSet(parts[i].ops))
       /\ \A j \in DOMAIN parts[i].ops :
            LET op == parts[i].ops[j] IN {"off", "len", "src"} \subseteq DOMAIN op /\ op.off \in Nat /\ op.len \in Nat
WellFormed(parts) ==
  /\ IsPayload(parts) /\ parts # <<>>
  /\ \A x, y \in WithData(parts) : Precedes(x, y) => End(OpAt(parts, x)) <= OpAt(parts, y).off

ShiftOp(op, by) == IF op.len > 0 THEN [op EXCEPT !.off = @ + by] ELSE op
ShiftOps(parts, by) ==
  [i \in DOMAIN parts |-> [parts[i] EXCEPT !.ops = [j \in DOMAIN parts[i].ops |-> ShiftOp(parts[i].ops[j], by)]]]
OffsetsAsTheyWere(parts, new) == parts \o new

\* partitions[-len(new):] is all of them when there is nothing new.
ExtendPartitionUpdates(parts, new) ==
  IF new = <<>> THEN ShiftOps(parts, TotalDataLength(parts)) ELSE parts \o ShiftOps(new, TotalDataLength(parts))

(* Groups: functions from names to partitions and size.  None for the       *)
(* DuplicatePartitionError.                                                  *)
MergeDynamicPartitionGroups(groups, new) ==
  LET both == DOMAIN groups \intersect DOMAIN new
  IN IF \E g \in both : groups[g].names \intersect new[g].names # {} THEN None
     ELSE [g \in both |-> [names |-> groups[g].names \union new[g].names, size |-> Max({groups[g].size, new[g].size})]] ++ groups ++ new

(* m: the metadata so far.  None when groups or compression disagree.        *)
MergeDynamicPartitionMetadata(m, new) ==
  LET groups == MergeDynamicPartitionGroups(m.groups, new.groups)
  IN IF groups = None \/ m.param # new.param THEN None
     ELSE [groups |-> groups, snapshot |-> m.snapshot /\ new.snapshot, vabc |-> m.vabc /\ new.vabc,
           param |-> m.param, cow |-> Max({m.cow, new.cow})]

(* APEXes are collected by name too, and adding one of them to a list the   *)
(* way main does is an error.                                                *)
MergeOne(out, manifest) ==
  LET meta == IF out = None THEN None ELSE MergeDynamicPartitionMetadata(out.meta, manifest.meta)
  IN IF meta = None \/ manifest.block_size # out.block_size \/ manifest.apex # {} THEN None
     ELSE [out EXCEPT !.minor = Max({@, manifest.minor}), !.max_timestamp = Max({@, manifest.max_timestamp}),
                      !.partitions = ExtendPartitionUpdates(@, manifest.partitions), !.meta = meta]

MergeManifests(manifests) ==
  LET first == manifests[1]
      empty == [first EXCEPT !.minor = 0, !.max_timestamp = 0, !.partial = TRUE, !.partitions = <<>>,
                             !.meta = [@ EXCEPT !.groups = <<>>, !.cow = 0]]
      output[n \in 0..Len(manifests)] == IF n = 0 THEN empty ELSE MergeOne(output[n - 1], manifests[n])
  IN IF Len(manifests) = 1 THEN first ELSE output[Len(manifests)]

(* Partitions of dynamic groups only. *)
CheckDuplicatePartitions(manifests) ==
  \A i, j \in DOMAIN manifests : \A g \in DOMAIN manifests[i].meta.groups, h \in DOMAIN manifests[j].meta.groups :
    <<i, g>> # <<j, h>> => manifests[i].meta.groups[g].names \intersect manifests[j].meta.groups[h].names = {}

\* total_data_length of the payload library, and the data that many bytes read: who wrote each byte.
PayloadDataLength(parts) == TotalDataLength(parts)
DataOf(parts) ==
  [b \in 1..PayloadDataLength(parts) |->
     OpAt(parts, CHOOSE x \in WithData(parts) : OpAt(parts, x).off < b /\ b <= End(OpAt(parts, x))).src]
ConcatBlobs(manifests) ==
  LET written[n \in 0..Len(manifests)] ==
        IF n = 0 THEN <<>> ELSE written[n - 1] \o DataOf(manifests[n].partitions)
  IN written[Len(manifests)]

MergeCareMap(packages) == UNION {p.care_map : p \in ToSet(packages)}
ApexInfo(packages) == IF Len(packages) > 1 THEN {} ELSE packages[1].apex_info

MergeOtaPackages ==
  /\ mpc = "merge_ota"
  /\ LET manifests == [i \in 1..Len(otas) |-> otas[i].manifest]
         manifest == IF CheckDuplicatePartitions(manifests) THEN MergeManifests(manifests) ELSE None
     IN IF manifest = None THEN mpc' = "failed" /\ merged' = None
        ELSE mpc' = "write" /\ merged' = [manifest |-> manifest, blob |-> <<>>, care_map |-> {}, apex_info |-> {}, metadata |-> None]
  /\ UNCHANGED otas

(* The payload is signed; the metadata is that of the last package or of    *)
(* the one --metadata_ota names.                                             *)
WriteMergedOta ==
  /\ mpc = "write" /\ mpc' = "done"
  /\ \E m \in DOMAIN otas :
       merged' = [merged EXCEPT !.blob = ConcatBlobs([i \in 1..Len(otas) |-> otas[i].manifest]), !.care_map = MergeCareMap(otas),
                                !.apex_info = ApexInfo(otas), !.metadata = otas[m].metadata]
  /\ UNCHANGED otas

MergeOtas == MergeOtaPackages \/ WriteMergedOta

-----------------------------------------------------------------------------
(* Every operation of a merged package reads the data its own payload had   *)
(* for it, however many payloads, with or without data, come before it.     *)
OwnBlobs ==
  mpc = "done" => \A x \in WithData(merged.manifest.partitions) :
                    LET op == OpAt(merged.manifest.partitions, x)
                    IN /\ End(op) <= Len(merged.blob)
                       /\ \A b \in (op.off + 1)..End(op) : merged.blob[b] = op.src
=============================================================================
