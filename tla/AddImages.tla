------------------------------ MODULE AddImages ------------------------------
(* add_img_to_target_files: the images a package lacks are built from its   *)
(* directories and added to it, in a directory (with one thread for each    *)
(* partition) or in a zip file (one partition after the other).             *)
EXTENDS BuildImage

CONSTANT Jobs

VARIABLES job, pc,
  opt,      \* the options of add_img_to_target_files
  t,        \* input_tmp, the package on disk
  info,     \* OPTIONS.info_dict
  parts,    \* partitions with an image
  boots,    \* boot_image and recovery_image
  th,       \* per partition, what its thread does
  seen,     \* per partition, the size of the dictionary its thread walks over
  zip,      \* the output zip, None in a directory
  repl      \* OPTIONS.replace_updated_files_list

imgVars == <<opt, t, info, parts, boots, th, seen, zip, repl>>

PartitionCalls == <<"system", "vendor", "product", "system_ext", "odm", "vendor_dlkm", "odm_dlkm", "system_dlkm", "system_other">>
Partitions == ToSet(PartitionCalls)

\* What the options of main ask for: the directory of a build.
Defaults == [add_missing |-> FALSE, rebuild_recovery |-> FALSE, is_signing |-> FALSE, resolve |-> FALSE, zip |-> FALSE]

ImgInit ==
  /\ info = <<>> /\ parts = {} /\ boots = [boot |-> None, recovery |-> None]
  /\ th = [p \in Partitions |-> "idle"] /\ seen = [p \in Partitions |-> 0] /\ zip = None /\ repl = {}

\* Another program calls add_img_to_target_files: nothing is left of an earlier call.
StartAddImages(options) ==
  /\ opt' = options /\ pc' = "add_images" /\ info' = <<>> /\ parts' = {} /\ boots' = [boot |-> None, recovery |-> None]
  /\ th' = [p \in Partitions |-> "idle"] /\ seen' = [p \in Partitions |-> 0] /\ zip' = None /\ repl' = {}

ZipAppend(new) == zip' = IF zip = None THEN None ELSE new ++ zip
OutputFilesOnce(new) ==
  /\ t' = new ++ t /\ repl' = repl
  /\ zip' = IF zip = None THEN None ELSE zip ++ new

(* Writing one file; in a zip an image is appended, the other files replace *)
(* an entry the zip has already once everything is written.                 *)
OutputFiles(new) ==
  /\ t' = new ++ t
  /\ zip' = IF zip = None THEN None ELSE zip ++ new
  /\ repl' = IF zip = None THEN repl ELSE repl \union (DOMAIN new \intersect DOMAIN zip)

AvbKey(p) == IF True(info, <<"avb_enable">>) THEN Get(info, <<"avb_key_path", p>>) ELSE None
Signed(from, p) == [type |-> "blob", from |-> from, footer |-> True(info, <<"avb_enable">>), key |-> AvbKey(p)]

HasPartition(p) == (IsDir(t, p) /\ True(info, <<"building_image", p>>)) \/ Img(p) \in DOMAIN t

AddImagesToTargetFiles ==
  /\ pc = "add_images"
  /\ LET d == LoadInfoDict(t, TRUE)
     IN CASE ~opt.add_missing /\ IsDir(t, "IMAGES") -> pc' = "exit" /\ info' = info
          [] OTHER -> IF d = None THEN pc' = "failed" /\ info' = info ELSE pc' = "boot" /\ info' = d
  /\ zip' = IF opt.zip THEN t ELSE None
  /\ UNCHANGED <<job, opt, t, parts, boots, th, seen, repl>>

-----------------------------------------------------------------------------
(* Boot images.                                                              *)

HasRamdisk(p) ==
  \/ p # "boot"
  \/ True(info, <<"recovery_as_boot">>)
  \/ ~True(info, <<"gki_boot_image_without_ramdisk">>) /\ ~True(info, <<"init_boot">>)

KernelOf(n) == IF n = "boot-5.10" THEN "kernel-5.10" ELSE "kernel"
BuildBootableImage(n, dir) ==
  LET needsKernel == dir # "init_boot" /\ ~(dir = "recovery" /\ True(info, <<"exclude_kernel_from_recovery_image">>))
      kernel == IF needsKernel THEN Get(t, <<dir, KernelOf(n)>>) ELSE None
      ramdisk == IF HasRamdisk(dir) THEN Get(t, <<dir, "ramdisk">>) ELSE None
  IN IF needsKernel /\ kernel = None THEN None
     ELSE IF HasRamdisk(dir) /\ ramdisk = None THEN None ELSE Signed(<<kernel, ramdisk>>, dir)

GetBootableImage(n, dir) ==
  CASE <<"BOOTABLE_IMAGES", n>> \in DOMAIN t -> t[<<"BOOTABLE_IMAGES", n>>]
    [] OTHER -> CASE Img(n) \in DOMAIN t -> t[Img(n)]
                  [] OTHER -> IF <<"PREBUILT_IMAGES", n>> \in DOMAIN t THEN Signed(<<t[<<"PREBUILT_IMAGES", n>>]>>, dir)
                              ELSE BuildBootableImage(n, dir)

BuildVendorBootImage(n) ==
  Signed(<<Get(t, <<n, "ramdisk">>),
           IF True(info, <<"vendor_kernel_boot">>) /\ n # "vendor_kernel_boot" THEN None ELSE Get(t, <<n, "dtb">>)>>, n)
GetVendorBootImage(n) == IF Img(n) \in DOMAIN t THEN t[Img(n)] ELSE BuildVendorBootImage(n)

BootNames == IF ~True(info, <<"no_boot">>) THEN OrElse(Get(info, <<"boot_images">>), <<"boot">>) ELSE <<>>
HasRecovery == ~True(info, <<"no_recovery">>)
Bootables ==
  [n \in ToSet(BootNames) |-> GetBootableImage(n, "boot")]
  ++ (IF True(info, <<"init_boot">>) THEN "init_boot" <: GetBootableImage("init_boot", "init_boot") ELSE <<>>)
  ++ [n \in {m \in {"vendor_boot", "vendor_kernel_boot"} : True(info, <<m>>)} |-> GetVendorBootImage(n)]
  ++ (IF HasRecovery THEN "recovery" <: GetBootableImage("recovery", "recovery") ELSE <<>>)

(* Every boot image is built, the first one is the partition's, and the     *)
(* recovery patch is made against the last one.                              *)
AddBootImages ==
  /\ pc = "boot"
  /\ LET images == Restrict(Bootables, {n \in DOMAIN Bootables : Bootables[n] # None})
         new == {n \in DOMAIN images : Img(n) \notin DOMAIN t}
         twoStep == IF "recovery" \in new THEN <<"OTA", "recovery-two-step">> <: GetBootableImage("recovery-two-step", "recovery") ELSE <<>>
         written == [f \in {Img(n) : n \in new} |-> images[f[2]]] ++ Without(twoStep, DOMAIN t)
         missing == HasRecovery /\ ("recovery" \notin DOMAIN images \/ \E f \in DOMAIN twoStep : twoStep[f] = None)
     IN \/ /\ missing /\ pc' = "failed" /\ UNCHANGED imgVars
        \/ /\ ~missing /\ t' = written ++ t /\ ZipAppend(written)
           /\ parts' = (DOMAIN images \ ToSet(BootNames)) \union {p \in {"boot"} : BootNames # <<>> /\ BootNames[1] \in DOMAIN images}
           /\ boots' = [boot |-> IF BootNames = <<>> THEN None ELSE Bootables[BootNames[Len(BootNames)]],
                        recovery |-> IF HasRecovery THEN images["recovery"] ELSE None]
           /\ th' = [p \in Partitions |-> IF HasPartition(p) THEN "ready" ELSE "done"]
           /\ pc' = "partitions" /\ UNCHANGED <<opt, info, seen, repl>>
  /\ UNCHANGED job

-----------------------------------------------------------------------------
(* One partition.                                                            *)

PatchedPartition == IF True(info, <<"board_uses_vendorimage">>) THEN "vendor" ELSE "system"
RecoveryPatch(p) ==
  IF opt.rebuild_recovery /\ p = PatchedPartition /\ boots.boot # None /\ boots.recovery # None
  THEN <<p, "recovery_patch">> <: [boot |-> boots.boot, recovery |-> boots.recovery] ELSE <<>>

(* In a zip the partitions take turns. *)
Turn(p) ==
  opt.zip => LET i == CHOOSE k \in DOMAIN PartitionCalls : PartitionCalls[k] = p
             IN \A k \in 1..(i - 1) : th[PartitionCalls[k]] = "done"

SkipExisting(p) ==
  /\ pc = "partitions" /\ th[p] = "ready" /\ Turn(p) /\ Img(p) \in DOMAIN t
  /\ th' = [th EXCEPT ![p] = "done"] /\ parts' = parts \union {p}
  /\ UNCHANGED <<job, pc, opt, t, info, boots, seen, zip, repl>>

StartPartition(p) ==
  /\ pc = "partitions" /\ th[p] = "ready" /\ Turn(p) /\ Img(p) \notin DOMAIN t
  /\ OutputFiles(RecoveryPatch(p))
  /\ th' = [th EXCEPT ![p] = "walk"] /\ seen' = [seen EXCEPT ![p] = Cardinality(DOMAIN info)]
  /\ UNCHANGED <<job, pc, opt, info, parts, boots>>

(* Walking over a dictionary that meanwhile gained a key raises an error in *)
(* the thread that walks.                                                    *)
WalkInfoDict(p) ==
  /\ pc = "partitions" /\ th[p] = "walk"
  /\ LET changed == Cardinality(DOMAIN info) # seen[p]
     IN /\ th' = [th EXCEPT ![p] = IF changed THEN "failed" ELSE "stamp"]
        /\ info' = IF changed THEN info ELSE TryParseFingerprint(info)
  /\ UNCHANGED <<job, pc, opt, t, parts, boots, seen, zip, repl>>

StampInfoDict(p) ==
  /\ pc = "partitions" /\ th[p] = "stamp"
  /\ info' = Timestamp(info) /\ th' = [th EXCEPT ![p] = "build"]
  /\ UNCHANGED <<job, pc, opt, t, parts, boots, seen, zip, repl>>

Used(p) == OrElse(Get(job.used, p), 1000)
BuildPartition(p) ==
  /\ pc = "partitions" /\ th[p] = "build"
  /\ LET image == Build(t, p, ImageProps(info, p), Used(p))
         new == Img(p) <: image
     IN IF image = None THEN th' = [th EXCEPT ![p] = "failed"] /\ UNCHANGED <<t, zip>>
        ELSE th' = [th EXCEPT ![p] = "record"] /\ t' = new ++ t /\ ZipAppend(new)
  /\ UNCHANGED <<job, pc, opt, info, parts, boots, seen, repl>>

RecordSizes(p) ==
  /\ pc = "partitions" /\ th[p] = "record"
  /\ LET image == t[Img(p)]
         verified == image.footer \/ ImageProps(info, p).verity_block_device # None
         size == IF verified /\ True(info, <<"avb_enable">>) THEN <<"image_size", p>> <: image.image_size ELSE <<>>
         dynamic == True(info, <<"use_dynamic_partition_size">>) /\ p \in OrElse(Get(info, <<"dynamic_partition_list">>), {})
         total == IF dynamic THEN <<"size", p>> <: image.partition_size ELSE <<>>
     IN info' = size ++ total ++ info
  /\ th' = [th EXCEPT ![p] = "done"] /\ parts' = parts \union {p}
  /\ UNCHANGED <<job, pc, opt, t, boots, seen, zip, repl>>

(* All threads are waited for; the error of one is raised then. *)
JoinThreads ==
  /\ pc = "partitions"
  /\ \/ \A p \in Partitions : th[p] = "done" /\ pc' = "others"
     \/ /\ \E p \in Partitions : th[p] = "failed"
        /\ opt.zip \/ \A p \in Partitions : th[p] \in {"done", "failed"}
        /\ pc' = "failed"
  /\ UNCHANGED <<job, imgVars>>

-----------------------------------------------------------------------------
(* The remaining images.                                                     *)

AddApexInfo == Meta("apex_info") <: [p \in {q \in Partitions : <<q, "apex">> \in DOMAIN t} |-> t[<<p, "apex">>]]

(* Images of empty directories: none without a size, none without a type.   *)
EmptyWanted ==
  {p \in {"userdata", "cache"} :
     /\ ~opt.is_signing /\ Img(p) \notin DOMAIN t
     /\ IF p = "userdata" THEN Get(info, <<"size", "userdata">>) # None ELSE Get(info, <<"fs_type", "cache">>) # None}
EmptyImages ==
  LET dirOf(p) == IF p = "cache" THEN None ELSE IF True(info, <<"userdata_img_with_data">>) THEN Content(t, "data") ELSE None
  IN [f \in {Img(p) : p \in EmptyWanted} |-> [type |-> "fs", from |-> dirOf(f[2]), footer |-> FALSE, key |-> None]]

(* The mount points of the recovery's fstab, in the directory it is in;     *)
(* none on an A/B device.                                                    *)
Fstab ==
  CASE True(info, <<"ab_update">>) /\ ~True(info, <<"allow_non_ab">>) -> {}
    [] OTHER -> IF HasRecovery THEN OrElse(Get(t, <<"recovery", "fstab">>), {})
                ELSE IF True(info, <<"recovery_as_boot">>) THEN OrElse(Get(t, <<"boot", "fstab">>), {}) ELSE {}

(* An fstab has to know the mount point.  What is compared with the size of *)
(* the partition is the length of the image's file name: never too long.    *)
CheckSize(p) == Fstab = {} \/ (IF p = "userdata" THEN "data" ELSE p) \in Fstab

EmptyBuilt(p) ==
  LET prop == ImageProps(info, IF p = "userdata" THEN "data" ELSE p)
      used == IF p = "userdata" /\ True(info, <<"userdata_img_with_data">>) THEN Used("data") ELSE 0
  IN PartitionSize(prop, used) # None /\ BuildImageMkfs(prop, used) /\ CheckSize(p)

PrebuiltNames == {p \in {"dtbo", "pvmfw"} : True(info, <<"has", p>>)}
CustomNames == OrElse(Get(info, <<"custom_images_partition_list">>), {})
AvbCustomNames == OrElse(Get(info, <<"avb_custom_images_partition_list">>), {})
CustomImageList(p) == OrElse(Get(info, <<"image_list", p>>), {})
CustomImage(p, n) ==
  IF Get(info, <<"avb_key_path", p>>) = None THEN [type |-> "blob", from |-> <<t[<<"PREBUILT_IMAGES", n>>]>>, footer |-> FALSE, key |-> None]
  ELSE Signed(<<t[<<"PREBUILT_IMAGES", n>>]>>, p)

MissingPrebuilts == {n \in PrebuiltNames \union UNION {CustomImageList(p) : p \in CustomNames \union AvbCustomNames} : Img(n) \notin DOMAIN t}
NewPrebuilts ==
  [f \in {Img(n) : n \in PrebuiltNames \intersect MissingPrebuilts} |-> Signed(<<t[<<"PREBUILT_IMAGES", f[2]>>]>>, f[2])]
  ++ [f \in {Img(n) : n \in MissingPrebuilts \ PrebuiltNames} |->
        CustomImage(CHOOSE p \in CustomNames \union AvbCustomNames : f[2] \in CustomImageList(p), f[2])]

AddOtherImages ==
  /\ pc = "others"
  /\ IF \/ \E n \in MissingPrebuilts : <<"PREBUILT_IMAGES", n>> \notin DOMAIN t
        \/ \E p \in CustomNames \union AvbCustomNames : Img(p) \notin DOMAIN t /\ p \notin MissingPrebuilts
        \/ \E p \in EmptyWanted : ~EmptyBuilt(p)
     THEN pc' = "failed" /\ UNCHANGED imgVars
     ELSE LET images == NewPrebuilts ++ EmptyImages IN
          /\ t' = AddApexInfo ++ images ++ t
          /\ zip' = IF zip = None THEN None ELSE images ++ zip ++ AddApexInfo
          /\ repl' = IF zip = None THEN repl ELSE repl \union (DOMAIN AddApexInfo \intersect DOMAIN zip)
          /\ parts' = parts \union PrebuiltNames \union CustomNames \union AvbCustomNames
          /\ pc' = "vbmeta" /\ UNCHANGED <<opt, info, boots, th, seen>>
  /\ UNCHANGED job

-----------------------------------------------------------------------------
(* vbmeta images.  Partitions are described in alphabetical order; the       *)
(* custom ones that have names here are cust and oem.                        *)

Alphabetical == <<"boot", "cust", "dtbo", "init_boot", "odm", "odm_dlkm", "product", "pvmfw", "recovery", "system", "system_dlkm",
                  "system_ext", "vbmeta_cust", "vbmeta_oem", "vbmeta_system", "vbmeta_vendor", "vendor", "vendor_boot", "vendor_dlkm", "vendor_kernel_boot">>

KeyOf(p) == Get(info, <<"avb_key_path", p>>)
GetAvbPartitionArg(p) ==
  CASE KeyOf(p) = None -> "include"
    [] OTHER -> IF ~True(info, <<"ab_update">>) /\ p = "recovery" THEN "none" ELSE "chain"

FreeLocation(n, used) == CHOOSE m \in n..(n + Cardinality(used)) : m \notin used /\ n..(m - 1) \subseteq used
Locations(names) ==
  LET upto[k \in 0..Len(names)] ==
        IF k = 0 THEN <<>>
        ELSE LET wanted == info[<<"rollback_index_location", names[k]>>]
             IN (names[k] <: IF opt.resolve THEN FreeLocation(wanted, Range(upto[k - 1])) ELSE wanted) ++ upto[k - 1]
  IN upto[Len(names)]

\* partitions[p]: the partition boot has the first of the boot images.
Path(p) == Img(IF p = "boot" /\ BootNames # <<>> THEN BootNames[1] ELSE p)
Located(tree, n) ==
  LET dirs == SelectSeq(<<"IMAGES", "RADIO", "PREBUILT_IMAGES">>, LAMBDA d : <<d, n>> \in DOMAIN tree)
  IN IF dirs = <<>> THEN None ELSE tree[<<dirs[1], n>>]
ExtraDescriptors(name) == OrElse(Get(info, <<"avb_args", name>>), {})
CustomVbmeta == OrElse(Get(info, <<"avb_custom_vbmeta_images_partition_list">>), <<>>)
VbmetaName == [cust |-> "vbmeta_cust", oem |-> "vbmeta_oem"]
VbmetaNames == {"vbmeta", "vbmeta_system", "vbmeta_vendor", "vbmeta_cust", "vbmeta_oem"}
KnownToAvb == AvbPartitions \union {"vbmeta_system", "vbmeta_vendor"} \union AvbCustomNames
              \union {VbmetaName[c] : c \in ToSet(CustomVbmeta)}

(* None when avbtool or an assertion refuses. *)
BuildVBMeta(tree, ps, name, needed) ==
  LET covered == ps \intersect needed
      chained == SelectSeq(Alphabetical, LAMBDA p : p \in covered /\ GetAvbPartitionArg(p) = "chain")
      locations == Locations(chained)
      included == {p \in covered : GetAvbPartitionArg(p) = "include"} \union ExtraDescriptors(name)
  IN IF \/ ~(covered \subseteq KnownToAvb) \/ \E p \in covered : Path(p) \notin DOMAIN tree
        \/ \E p \in ExtraDescriptors(name) : Located(tree, p) = None
        \/ Cardinality(Range(locations)) # Len(chained)
     THEN None
     ELSE [type |-> "vbmeta", key |-> KeyOf(name), 
           desc |-> [p \in included |-> IF p \in covered THEN tree[Path(p)] ELSE Located(tree, p)],
           chain |-> [p \in ToSet(chained) |-> [key |-> KeyOf(p), loc |-> locations[p]]]]

(* s: the package, the partitions with an image, the partitions the         *)
(* top-level image still has to describe, and whether all went well.        *)
AddVBMeta(s, name, needed) ==
  IF Img(name) \in DOMAIN s.t THEN s
  ELSE LET image == BuildVBMeta(s.t, s.parts, name, needed)
       IN IF image = None THEN [s EXCEPT !.ok = FALSE] ELSE [s EXCEPT !.t = (Img(name) <: image) ++ @]

ChainedVBMeta(s, name, needed) ==
  [AddVBMeta(s, name, needed) EXCEPT !.parts = @ \union {name}, !.rest = (@ \ needed) \union {name}]

ListOf(c) == OrElse(Get(info, <<"avb_vbmeta", c>>), {})
CustomChained(s, c) == IF ListOf(c) = {} THEN [s EXCEPT !.ok = FALSE] ELSE ChainedVBMeta(s, VbmetaName[c], ListOf(c))
ChainedImages(s) ==
  LET wants(state, c) == ListOf(c) \intersect state.parts # {}
      one == IF wants(s, "system") THEN ChainedVBMeta(s, "vbmeta_system", ListOf("system")) ELSE s
      two == IF wants(one, "vendor") THEN ChainedVBMeta(one, "vbmeta_vendor", ListOf("vendor")) ELSE one
  IN FoldLeft(CustomChained, two, CustomVbmeta)

TopLevelImage(s) ==
  IF True(info, <<"avb_building_vbmeta_image">>) /\ s.rest \intersect s.parts # {} THEN AddVBMeta(s, "vbmeta", s.rest) ELSE s

AddVBMetaImages ==
  /\ pc = "vbmeta"
  /\ LET before == [t |-> t, parts |-> parts, rest |-> AvbPartitions \union AvbCustomNames, ok |-> TRUE]
         s == IF True(info, <<"avb_enable">>) THEN TopLevelImage(ChainedImages(before)) ELSE before
         new == Restrict(s.t, {Img(n) : n \in VbmetaNames} \intersect (DOMAIN s.t \ DOMAIN t))
     IN IF s.ok THEN t' = new ++ t /\ parts' = s.parts /\ ZipAppend(new) /\ pc' = "super"
        ELSE pc' = "failed" /\ UNCHANGED <<t, parts, zip>>
  /\ UNCHANGED <<job, opt, info, boots, th, seen, repl>>

-----------------------------------------------------------------------------
(* What describes the images.                                                *)

(* lpmake: groups in both slots of an A/B device, an image for the first    *)
(* slot, that of system_other for the second.                                *)
BuildSuperImageFromDict(d) ==
  LET groups == OrElse(Get(d, <<"super_partition_groups">>), {})
      slots == IF True(d, <<"ab_update">>) THEN {"_a", "_b"} ELSE {""}
      listed(g) == d[<<"super_partition_list", g>>]
      image(p, s) == IF s # "_b" THEN Get(d, <<"image", p>>) ELSE IF p = "system" THEN Get(d, <<"image", "system_other">>) ELSE None
  IN [type |-> "super", devices |-> OrElse(Get(d, <<"super_block_devices">>), {}),
      groups |-> [x \in {<<g, s>> : g \in groups, s \in slots} |-> Get(d, <<"super_group_size", x[1]>>)],
      parts |-> [x \in UNION {{<<p, g, s>> : p \in listed(g), s \in slots} : g \in groups} |-> image(x[1], x[3])]]

AddSuperEmpty ==
  /\ pc = "super"
  /\ LET new == IF True(info, <<"use_dynamic_partitions">>) /\ True(info, <<"build_super_empty_partition">>) /\ Img("super_empty") \notin DOMAIN t
                THEN Img("super_empty") <: BuildSuperImageFromDict(info) ELSE <<>>
     IN t' = new ++ t /\ ZipAppend(new)
  /\ pc' = "radio" /\ UNCHANGED <<job, opt, info, parts, boots, th, seen, repl>>

CheckAbOtaImages(ab) == \A p \in ab : Img(p) \in DOMAIN t \/ <<"RADIO", p>> \in DOMAIN t

(* The blocks update_verifier reads: those of the file system, without the  *)
(* hash tree.                                                                *)
GetCareMap(image) == <<0, image.image_size - 1>>
CareMap(ab) ==
  LET verified == {p \in ab \intersect PartitionsWithCareMap :
                     /\ True(info, <<"avb_hashtree_enable", p>>) \/ <<"verity_block_device", p>> \in DOMAIN info
                     /\ p \in parts /\ t[Img(p)].footer}
  IN [p \in verified |-> [ranges |-> GetCareMap(t[Img(p)]),
                          fingerprint |-> IF <<"build.prop", p>> \in DOMAIN info THEN info[<<"build.prop", p>>].fingerprint ELSE "unknown"]]

AddCareMapForAbOta ==
  /\ pc = "radio"
  /\ LET ab == OrElse(Get(t, Meta("ab_partitions")), {})
     IN IF ~CheckAbOtaImages(ab) THEN pc' = "failed" /\ UNCHANGED <<t, zip, repl>>
        ELSE OutputFiles(IF DOMAIN CareMap(ab) = {} THEN <<>> ELSE Meta("care_map") <: CareMap(ab)) /\ pc' = "pack"
  /\ UNCHANGED <<job, opt, info, parts, boots, th, seen>>

AddPackRadioImages ==
  /\ pc = "pack"
  /\ LET names == {n \in OrElse(Get(t, Meta("pack_radioimages")), {}) : Img(n) \notin DOMAIN t}
         new == [f \in {Img(n) : n \in names} |-> t[<<"RADIO", f[2]>>]]
     IN IF \E n \in names : <<"RADIO", n>> \notin DOMAIN t THEN pc' = "failed" /\ UNCHANGED <<t, zip>>
        ELSE t' = (IF zip = None THEN new ++ t ELSE t) /\ ZipAppend(new) /\ pc' = "digest"
  /\ UNCHANGED <<job, opt, info, parts, boots, th, seen, repl>>

CalculateVbmetaDigest(tree) ==
  LET top == Located(tree, "vbmeta") IN [n \in {"vbmeta"} \union DOMAIN top.chain |-> Located(tree, n)]
BootContainer == LET names == Get(info, <<"boot_images">>) IN names # None /\ names # <<"boot">>
AddVbmetaDigest ==
  /\ pc = "digest"
  /\ LET wanted == True(info, <<"avb_enable">>) /\ ~BootContainer /\ True(info, <<"avb_building_vbmeta_image">>)
     IN IF wanted /\ Located(t, "vbmeta") = None THEN pc' = "failed" /\ UNCHANGED <<t, zip, repl>>
        ELSE OutputFiles(IF wanted THEN Meta("vbmeta_digest") <: CalculateVbmetaDigest(t) ELSE <<>>) /\ pc' = "replace"
  /\ UNCHANGED <<job, opt, info, parts, boots, th, seen>>

ReplaceUpdatedFiles ==
  /\ pc = "replace"
  /\ zip' = IF zip = None THEN None ELSE [f \in DOMAIN zip |-> IF f \in repl THEN t[f] ELSE zip[f]]
  /\ pc' = "added" /\ repl' = {}
  /\ UNCHANGED <<job, opt, t, info, parts, boots, th, seen>>

AddImages ==
  \/ AddImagesToTargetFiles \/ AddBootImages
  \/ \E p \in Partitions : SkipExisting(p) \/ StartPartition(p) \/ WalkInfoDict(p) \/ StampInfoDict(p) \/ BuildPartition(p) \/ RecordSizes(p)
  \/ JoinThreads \/ AddOtherImages \/ AddVBMetaImages \/ AddSuperEmpty \/ AddCareMapForAbOta \/ AddPackRadioImages
  \/ AddVbmetaDigest \/ ReplaceUpdatedFiles
=============================================================================
