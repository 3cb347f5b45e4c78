---------------------------- MODULE NonAbInstall ----------------------------
(***************************************************************************)
(* A non-A/B package, from the tool that makes it to the device that       *)
(* installs it: GenerateNonAbOtaPackage writes the script (NonAbOta), the  *)
(* recovery system runs it command by command, and install-recovery.sh,    *)
(* which MakeRecoveryPatch of common.py puts into the target build,        *)
(* restores /recovery on the first boot.                                   *)
(*                                                                         *)
(* The device is external.  It may lose power between two commands or      *)
(* while a command writes, at most MaxLosses times; it then boots what the *)
(* last reboot_now named (/recovery at first) and runs the script again.   *)
(* An image on the device is "src", "tgt", "mix" (half written), "bad"     *)
(* (not what the package expects) or, on /boot, "rec": the target's        *)
(* recovery image.  block_image_verify accepts a half updated partition,   *)
(* and update_dynamic_partitions remembers that it has run.                *)
(***************************************************************************)
EXTENDS NonAbOta

CONSTANTS Packages,      \* what there is to make and to install
          MaxLosses

(* The options and the builds of a package fit together.  The update of a  *)
(* partition touches blocks of the source only if it has a source, and the *)
(* layouts of `super` are ones that a device and a build can have.         *)
IsPackage(x) ==
  LET parts == ToSet(PartitionNames)
      limits == [ToSet(x.u.groups) -> Nat \union {NoLimit}]
      groups == ToSet(x.u.groups) \union {NoGroup}
  IN /\ x.u \in [names : Seq(parts), groups : Seq(ToSet(x.u.groups)), removeAll : BOOLEAN,
                 srcGroup : [parts -> groups], srcSize : [parts -> Nat], srcLimit : limits,
                 tgtGroup : [parts -> groups], tgtSize : [parts -> Nat], tgtLimit : limits]
     /\ IsInjective(x.u.groups) /\ {NoGroup, Default} \cap ToSet(x.u.groups) = {}
     /\ {x.incremental, x.two_step, x.dynamic, x.verify, x.wipe, x.multistage, x.oem,
         x.bootChanged, x.bootPatch, x.fullRecovery} \subseteq BOOLEAN
     /\ {x.version, x.free, x.bootSize} \subseteq Nat
     /\ x.stash \in [parts -> Nat]
     /\ x.build \in {"src", "other", "device"}
     /\ x.bad \subseteq parts
     /\ x.touched \subseteq {p \in ToSet(GetBlockDifferences(x)) : x.u.srcSize[p] > 0}
     /\ x.dynamic => Valid(SourceMetadata(x.u)) /\ Valid(TargetMetadata(x.u))

ASSUME PartitionNamesAssumption ==
  PartitionNames \in Seq(ToSet(PartitionNames)) /\ IsInjective(PartitionNames)
ASSUME PackagesAssumption == \A x \in Packages : IsPackage(x)
ASSUME BuildsAssumption ==
  \A x \in Packages : {x.noRecovery, x.recoveryPatch, x.tgtDynamic, x.recoveryFstab} \subseteq BOOLEAN
ASSUME MaxLossesAssumption == MaxLosses \in Nat

VARIABLES c, status, script,
          meta,          \* metadata of super
          img,           \* contents of the partitions
          boot, rec,     \* contents of /boot and /recovery
          stage, bcb,    \* on /misc: the stage, and where to boot
          running,       \* the partition that the recovery system was booted from
          prog,          \* the commands still to run
          resized,       \* update_dynamic_partitions has run
          mounted, wiped, losses

vars == <<c, status, script, meta, img, boot, rec, stage, bcb, running, prog, resized,
          mounted, wiped, losses>>
device == <<meta, img, boot, rec, stage, bcb, resized, wiped>>

Init ==
  /\ c \in Packages
  /\ status = "make" /\ script = <<>> /\ prog = <<>>
  /\ meta = SourceMetadata(c.u)
  /\ img = [p \in DOMAIN c.u.srcSize |-> IF p \in c.bad THEN "bad" ELSE "src"]
  /\ boot = "src" /\ rec = "src" /\ stage = "" /\ bcb = "recovery" /\ running = "recovery"
  /\ resized = FALSE /\ mounted = {} /\ wiped = FALSE /\ losses = 0

Generate ==
  /\ status = "make"
  /\ IF Raises(c) THEN status' = "raised" /\ UNCHANGED script
     ELSE status' = "off" /\ script' = GenerateNonAbOtaPackage(c)
  /\ UNCHANGED <<c, device, running, prog, mounted, losses>>

(* The branch of `if get_stage()` that runs. *)
Branch(s) == IF s \in {"2/3", "3/3"} THEN s ELSE "1/3"

(* What the device boots is a recovery system, and a complete one. *)
Bootable == IF bcb = "boot" THEN boot = "rec" ELSE rec # "mix"

BootRecovery ==
  /\ status = "off" /\ Bootable
  /\ status' = "run" /\ running' = bcb /\ mounted' = {}
  /\ prog' = ForEach(script, LAMBDA x : x.stage \in {"all", Branch(stage)}, LAMBDA x : <<x>>)
  /\ UNCHANGED <<c, script, device, losses>>

(* The next command runs; ok: it does not abort. *)
Do(op, ok) ==
  /\ status = "run" /\ prog # <<>> /\ Head(prog).op = op
  /\ prog' = Tail(prog)
  /\ status' = IF ok THEN "run" ELSE "abort"
  /\ UNCHANGED <<c, script, running, losses>>

on == Head(prog).on
with == Head(prog).with

(* The build of the recovery system that runs. *)
RunsTarget == (running = "recovery" /\ rec = "tgt") \/ (running = "boot" /\ boot = "rec")

RunAssert ==
  /\ \/ Do("assert_older", RunsTarget \/ c.build # "other")
     \/ Do("assert_build", RunsTarget \/ c.build # "other")
     \/ Do("assert_device", c.build # "device")
     \/ status = "run" /\ prog # <<>> /\ Do("apply_patch_space", with <= c.free)
  /\ UNCHANGED <<device, mounted>>

RunMount ==
  /\ \/ Do("mount", TRUE) /\ mounted' = mounted \union {on}
     \/ Do("unmount", TRUE) /\ mounted' = mounted \ {on}
     \/ Do("unmap_partition", TRUE) /\ UNCHANGED mounted
  /\ UNCHANGED device

(* A partition with bad blocks is recovered, or the update aborted; before *)
(* version 4 it is aborted.                                                *)
RunVerify ==
  /\ \/ /\ Do("verify", img[on] # "bad") /\ UNCHANGED img
     \/ /\ Do("verify", TRUE) /\ img[on] = "bad" /\ with >= 4
        /\ img' = [img EXCEPT ![on] = "src"]
  /\ UNCHANGED <<meta, boot, rec, stage, bcb, resized, wiped, mounted>>

RunPatchCheck == Do("patch_partition_check", boot # "bad") /\ UNCHANGED <<device, mounted>>

RunUpdate ==
  /\ \/ /\ Do("block_image_update", ~HasSource(c, on) \/ on \notin c.touched \/ img[on] # "bad")
        /\ img' = IF status' = "run" THEN [img EXCEPT ![on] = "tgt"] ELSE img
     \/ Do("post_verify", img[on] = "tgt") /\ UNCHANGED img
  /\ UNCHANGED <<meta, boot, rec, stage, bcb, resized, wiped, mounted>>

RunUpdateDynamic ==
  /\ status = "run" /\ prog # <<>> /\ on = "super"
  /\ \/ resized /\ Do("update_dynamic_partitions", TRUE) /\ UNCHANGED <<meta, resized>>
     \/ \E m \in Apply(meta, with) :
          /\ ~resized /\ Do("update_dynamic_partitions", m.ok)
          /\ meta' = (IF m.ok THEN m ELSE meta) /\ resized' = m.ok
  /\ UNCHANGED <<img, boot, rec, stage, bcb, wiped, mounted>>

Image(file) == IF file = "boot.img" THEN "tgt" ELSE "rec"
RunWrite ==
  /\ \/ /\ Do("package_extract_file", TRUE) /\ on = "boot"
        /\ boot' = Image(with) /\ UNCHANGED <<rec, wiped>>
     \/ /\ Do("package_extract_file", TRUE) /\ on = "recovery"
        /\ rec' = "tgt" /\ UNCHANGED <<boot, wiped>>
     \/ Do("patch_partition", TRUE) /\ boot' = "tgt" /\ UNCHANGED <<rec, wiped>>
     \/ Do("format", TRUE) /\ wiped' = TRUE /\ UNCHANGED <<boot, rec>>
  /\ UNCHANGED <<meta, img, stage, bcb, resized, mounted>>

RunSetStage ==
  /\ Do("set_stage", TRUE) /\ stage' = with
  /\ UNCHANGED <<meta, img, boot, rec, bcb, resized, wiped, mounted>>

RunReboot ==
  /\ status = "run" /\ prog # <<>> /\ Head(prog).op = "reboot_now"
  /\ status' = "off" /\ prog' = <<>>
  /\ bcb' = IF with = "recovery" THEN "recovery" ELSE "boot"
  /\ UNCHANGED <<c, script, meta, img, boot, rec, stage, running, resized, mounted, wiped, losses>>

Finish ==
  /\ status = "run" /\ prog = <<>>
  /\ status' = "done"
  /\ UNCHANGED <<c, script, device, running, prog, mounted, losses>>

(* install-recovery.sh on the first boot: nothing to do if /recovery is    *)
(* what it should be; a patch is made for the contents of the target's     *)
(* /boot, a full image is written whatever these are.  A build whose fstab *)
(* lacks /boot or /recovery has no such script.                            *)
InstallRecovery ==
  /\ status = "done"
  /\ status' = "booted"
  /\ rec' = IF c.recoveryFstab /\ rec # "tgt" /\ (c.fullRecovery \/ boot = "tgt" \/ ~c.bootChanged)
            THEN "tgt" ELSE rec
  /\ UNCHANGED <<c, script, meta, img, boot, stage, bcb, running, prog, resized, mounted, wiped,
                 losses>>

(* The power fails between two commands, or while the next one writes. *)
PowerLoss ==
  /\ status = "run" /\ losses < MaxLosses
  /\ losses' = losses + 1 /\ status' = "off" /\ prog' = <<>>
  /\ UNCHANGED <<c, script, meta, stage, bcb, running, resized, mounted, wiped>>
  /\ \/ UNCHANGED <<img, boot, rec>>
     \/ /\ prog # <<>> /\ Head(prog).op = "block_image_update" /\ img[on] # "bad"
        /\ ~(HasSource(c, on) /\ img[on] = "tgt")
        /\ img' = [img EXCEPT ![on] = "mix"] /\ UNCHANGED <<boot, rec>>
     \/ /\ prog # <<>> /\ on = "boot"
        /\ Head(prog).op \in {"package_extract_file", "patch_partition"}
        /\ boot' = "mix" /\ UNCHANGED <<img, rec>>
     \/ /\ prog # <<>> /\ Head(prog).op = "package_extract_file" /\ on = "recovery"
        /\ rec' = "mix" /\ UNCHANGED <<img, boot>>

Over ==
  /\ status \in {"raised", "abort", "booted"} \/ (status = "off" /\ ~Bootable)
  /\ UNCHANGED vars

RunCommand == \/ RunAssert \/ RunMount \/ RunVerify \/ RunPatchCheck \/ RunUpdate
              \/ RunUpdateDynamic \/ RunWrite \/ RunSetStage \/ RunReboot

Next == Generate \/ BootRecovery \/ RunCommand \/ Finish \/ InstallRecovery \/ PowerLoss \/ Over

Spec == Init /\ [][Next]_vars

(* The tool runs to its end, and a device with power carries on. *)
FairSpec == Spec /\ WF_vars(Generate \/ BootRecovery \/ RunCommand \/ Finish \/ InstallRecovery)

-----------------------------------------------------------------------------
(* The device is the one, and in the state, that the package is made for.  *)
Refused ==
  \/ c.build # "src"
  \/ /\ c.incremental
     /\ \/ \E p \in ToSet(GetBlockDifferences(c)) : c.stash[p] > c.free
        \/ UpdatingBoot(c) /\ c.bootPatch /\ c.bootSize > c.free
Damaged == c.incremental /\ \E p \in c.bad \cap c.touched : img[p] = "bad"
Fit == ~Refused /\ (c.incremental => c.bad \cap c.touched = {})

(* WriteScript and _Compute: every operation of the list is accepted (no   *)
(* group and no `super` overflows on the way), the metadata is the         *)
(* source's or the target's, and a partition is patched while it is large  *)
(* enough for the image it holds and for the one it gets.                  *)
PatchFits ==
  c.dynamic =>
    /\ meta = IF resized THEN TargetMetadata(c.u) ELSE SourceMetadata(c.u)
    /\ Fit => status # "abort"
    /\ status = "run" /\ prog # <<>> /\ Head(prog).op = "block_image_update" =>
         /\ meta.size[on] >= c.u.tgtSize[on]
         /\ HasSource(c, on) /\ img[on] # "tgt" => meta.size[on] >= c.u.srcSize[on]

(* WriteBlockIncrementalOTAPackage, WriteVerifyScript: a device that the   *)
(* package is not for, or that has too little room on /cache, is left as   *)
(* it was, and so is one with damaged blocks for as long as they are.      *)
UnfitUntouched ==
  Refused \/ Damaged =>
    /\ boot = "src" /\ rec = "src" /\ ~wiped /\ ~resized
    /\ \A p \in DOMAIN img : img[p] \in {"src", "bad"}

InStep == IF bcb = "boot" THEN stage = "2/3" ELSE stage # "2/3"

(* WriteFullOTAPackage, _WriteRecoveryImageToBoot: when the power fails,   *)
(* the image that the device boots next is a complete recovery system.     *)
(* Only when the power fails between set_stage and reboot_now and again    *)
(* while the script runs from the old place (not InStep) may it break the  *)
(* system that it boots.                                                   *)
Resumable == status = "off" /\ (losses <= 1 \/ InStep) => Bootable

(* GenerateNonAbOtaPackage, MakeRecoveryPatch: a script that comes to its  *)
(* end has installed every image of the target, has left no stage for the  *)
(* next package and nothing mounted; and the first boot leaves the         *)
(* target's /recovery, unless the fstab does not say where that is.        *)
InstalledTarget ==
  /\ status \in {"done", "booted"} =>
       /\ \A p \in ToSet(GetBlockDifferences(c)) : c.u.tgtSize[p] > 0 => img[p] = "tgt"
       /\ c.bootChanged => boot = "tgt"
       /\ stage = "" /\ mounted = {} /\ wiped = c.wipe
       /\ c.dynamic => resized
  /\ status = "booted" /\ c.recoveryFstab => rec = "tgt"

(* A device that the package is for installs it, whenever the power failed *)
(* before, unless the system it boots is broken: see Resumable.            *)
EventuallyInstalled ==
  Fit /\ status = "off" ~> status = "booted" \/ (status = "off" /\ ~Bootable)
=============================================================================
