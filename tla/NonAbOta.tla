------------------------------ MODULE NonAbOta ------------------------------
(***************************************************************************)
(* The updater script of a non-A/B package: releasetools/non_ab_ota.py,    *)
(* with the EdifyGenerator it appends commands to and the BlockDifference  *)
(* and DeviceSpecificParams objects of common.py.                          *)
(*                                                                         *)
(* c is a package to make: the options, what the two builds hold, and the  *)
(* layout c.u of the partitions on the device (source) and in the target.  *)
(* A script is a sequence of commands, each with the branch of             *)
(* `if get_stage() == ...` it stands in ("all": in none).  Messages,       *)
(* comments and the progress bar are left out.  A device-specific module   *)
(* only returns block differences.                                         *)
(***************************************************************************)
EXTENDS DynamicPartitions

CONSTANT PartitionNames   \* of GetBlockDifferences, in order, and of the device-specific module

(* EdifyGenerator: one command per method. *)
Cmd(op, on, with) == [stage |-> "all", op |-> op, on |-> on, with |-> with]
WriteRawImage(part, image) == <<Cmd("package_extract_file", part, image)>>
PatchPartitionExprCheck == <<Cmd("patch_partition_check", "boot", "")>>
PatchPartitionExpr == <<Cmd("patch_partition", "boot", "")>>
CacheFreeSpaceCheck(amount) == <<Cmd("apply_patch_space", "cache", amount)>>
AssertSomeFingerprint == <<Cmd("assert_build", "", "")>>
AssertOlderBuild == <<Cmd("assert_older", "", "")>>
AssertDevice == <<Cmd("assert_device", "", "")>>
FormatPartition(part) == <<Cmd("format", part, "")>>
Mount(part) == <<Cmd("mount", part, "")>>
UnmountAll(mounts) == IF mounts = {} THEN <<>> ELSE <<Cmd("unmount", "oem", "")>>

GoToLate(stage, reboot) == <<Cmd("reboot_now", "misc", reboot), Cmd("set_stage", "misc", stage)>>

(* AppendExtra of set_stage and reboot_now. *)
GoTo(stage, reboot) == <<Cmd("set_stage", "misc", stage), Cmd("reboot_now", "misc", reboot)>>

(* The commands that AppendExtra puts between an `if get_stage()` and its `else`. *)
InStage(stage, s) == [k \in 1..Len(s) |-> [s[k] EXCEPT !.stage = stage]]

-----------------------------------------------------------------------------
HasSource(c, p) == c.incremental /\ c.u.srcSize[p] > 0

(* BlockDifference.WriteVerifyScript, for blocks that the update touches.  *)
Verifies(c, p) == HasSource(c, p) /\ p \in c.touched
WriteVerifyScript(c, p) == <<Cmd("verify", p, c.version)>>

WritePostInstallVerifyScript(p) == <<Cmd("post_verify", p, "")>>
WriteUpdate(p) == <<Cmd("block_image_update", p, "")>>
WriteBlockDifference(p, verify) ==
  WriteUpdate(p) \o IF verify THEN WritePostInstallVerifyScript(p) ELSE <<>>

(* GetBlockDifferences: first the partitions of the target-files, in       *)
(* order, then those that only the device-specific module has (c.specific: *)
(* the target-files do not hold them).  Where the module overrides one of  *)
(* the target-files the generic loop has run for it all the same and it    *)
(* keeps its place: c.stash and c.touched are then those of the module's   *)
(* difference.                                                             *)
Generic(c) ==
  ForEach(PartitionNames, LAMBDA p : p \notin c.specific /\ c.u.tgtSize[p] > 0, LAMBDA p : <<p>>)
Specific(c) == ForEach(PartitionNames, LAMBDA p : p \in c.specific, LAMBDA p : <<p>>)
GetBlockDifferences(c) == Generic(c) \o Specific(c)
Adds(c) == \E p \in ToSet(Generic(c)) : c.incremental /\ c.u.srcSize[p] = 0

(* A full package knows nothing of the source.                             *)
Updates(c) ==
  IF c.incremental
  THEN [c.u EXCEPT !.names = GetBlockDifferences(c), !.removeAll = FALSE]
  ELSE [c.u EXCEPT !.names = GetBlockDifferences(c), !.removeAll = TRUE,
                   !.srcSize = [p \in DOMAIN @ |-> 0],
                   !.srcGroup = [p \in DOMAIN @ |-> NoGroup],
                   !.srcLimit = [g \in DOMAIN @ |-> NoLimit]]

PatchAfterResize(u, verify) ==
  <<Cmd("update_dynamic_partitions", "super", Compute(u))>>
  \o ForEach(u.names, LAMBDA p : TRUE, LAMBDA p : WriteBlockDifference(p, verify))

(* DynamicPartitionsDifference.WriteScript: a partition that shrinks is    *)
(* patched while it has its old size, any other once it has its new one.   *)
Unmap(p) == <<Cmd("unmap_partition", p, "")>>
Later(u, p) == u.tgtSize[p] > 0 /\ u.srcSize[p] <= u.tgtSize[p]
WriteDynamicScript(u, verify) ==
     ForEach(u.names, LAMBDA p : Shrinks(u, p), LAMBDA p : WriteBlockDifference(p, FALSE))
  \o <<Cmd("update_dynamic_partitions", "super", Compute(u))>>
  \o (IF verify
      THEN ForEach(u.names, LAMBDA p : Shrinks(u, p),
                   LAMBDA p : WritePostInstallVerifyScript(p) \o Unmap(p))
      ELSE <<>>)
  \o ForEach(u.names, LAMBDA p : Later(u, p),
             LAMBDA p : WriteBlockDifference(p, verify) \o IF verify THEN Unmap(p) ELSE <<>>)

WritePartitions(c) ==
  IF c.dynamic
  THEN WriteDynamicScript(Updates(c), c.verify)
  ELSE ForEach(GetBlockDifferences(c), LAMBDA p : TRUE,
               LAMBDA p : WriteBlockDifference(p, c.verify))

WriteRecoveryImageToRecovery == WriteRawImage("recovery", "recovery.img")

(* recovery-two-step.img where the build has one; both are complete        *)
(* recovery images of the target.                                          *)
WriteRecoveryImageToBoot == WriteRawImage("boot", "recovery.img")

KeepStage(stage) == IF stage = "" THEN <<>> ELSE <<Cmd("set_stage", "misc", stage)>>

StageTwo == InStage("2/3", WriteRawImage("recovery", "recovery.img") \o GoTo("3/3", "recovery"))
SetStage(stage) == <<Cmd("set_stage", "misc", stage)>>
MountOem(c) == IF c.oem THEN Mount("oem") ELSE <<>>
Mounts(c) == IF c.oem THEN {"oem"} ELSE {}

(* WriteFullOTAPackage *)
FullInstall(c) ==
     WritePartitions(c)
  \o WriteRawImage("boot", "boot.img")
  \o UnmountAll(Mounts(c))
  \o (IF c.wipe THEN FormatPartition("data") ELSE <<>>)

WriteFullOTAPackage(c) ==
     MountOem(c) \o AssertOlderBuild \o AssertDevice
  \o (IF c.two_step
      THEN StageTwo
           \o InStage("3/3", FullInstall(c) \o SetStage(""))
           \o InStage("1/3", WriteRecoveryImageToBoot \o GoTo("2/3", ""))
      ELSE FullInstall(c))

(* WriteBlockIncrementalOTAPackage *)
UpdatingBoot(c) == ~c.two_step /\ c.bootChanged
ComputePatch(c) == c.bootPatch    \* FALSE: the diff failed or timed out

CacheOfSomePartition(c) == Min({c.stash[p] : p \in ToSet(GetBlockDifferences(c))} \union {0})

RequiredCache(c) ==
  Max({c.stash[p] : p \in ToSet(GetBlockDifferences(c))}
      \union (IF UpdatingBoot(c) /\ ComputePatch(c) THEN {c.bootSize} ELSE {}))

Verify(c) ==
     AssertSomeFingerprint
  \o (IF UpdatingBoot(c) /\ ComputePatch(c) THEN PatchPartitionExprCheck ELSE <<>>)
  \o CacheFreeSpaceCheck(RequiredCache(c))
  \o ForEach(GetBlockDifferences(c), LAMBDA p : Verifies(c, p), LAMBDA p : WriteVerifyScript(c, p))

WriteBoot(c) ==
  CASE c.two_step -> WriteRawImage("boot", "boot.img")
    [] UpdatingBoot(c) /\ ~ComputePatch(c) -> WriteRawImage("boot", "boot.img")
    [] UpdatingBoot(c) /\ ComputePatch(c) -> PatchPartitionExpr
    [] OTHER -> <<>>

IncrementalInstall(c) ==
     WritePartitions(c) \o WriteBoot(c)
  \o (IF c.wipe THEN FormatPartition("data") ELSE <<>>)

WriteBlockIncrementalOTAPackage(c) ==
     MountOem(c) \o AssertDevice
  \o (IF c.two_step
      THEN StageTwo
           \o InStage("1/3", Verify(c) \o WriteRecoveryImageToBoot \o GoTo("2/3", ""))
           \o InStage("3/3", IncrementalInstall(c) \o SetStage(""))
      ELSE Verify(c) \o IncrementalInstall(c))
  \o UnmountAll(Mounts(c))

(* GenerateNonAbOtaPackage raises, or writes a script.  A full package is  *)
(* for a build that can restore its recovery; c.dynamic is the source's    *)
(* flag in an incremental, whose target must have it too.                  *)
Raises(c) == \/ c.noRecovery
             \/ ~c.incremental /\ ~c.recoveryPatch
             \/ Adds(c)
             \/ c.two_step /\ ~c.multistage
             \/ ~("system" \in ToSet(Generic(c)))
             \/ c.incremental /\ c.dynamic /\ ~c.tgtDynamic
             \/ c.dynamic /\ ~Consistent(Updates(c))

GenerateNonAbOtaPackage(c) ==
  IF c.incremental THEN WriteBlockIncrementalOTAPackage(c) ELSE WriteFullOTAPackage(c)
=============================================================================
