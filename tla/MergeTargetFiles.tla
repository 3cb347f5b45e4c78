--------------------------- MODULE MergeTargetFiles ---------------------------
(* merge_target_files: a package with the framework's partitions of one     *)
(* build and the vendor's partitions of another one.                         *)
EXTENDS AddImages

VARIABLE
  mg        \* the merge: item lists, partition sets, keys, errors, outputs and
            \* the package put aside while the vendor's tools rebuild an image

FrameworkPartitions == {"system", "product", "system_ext", "system_other", "root", "vbmeta_system", "pvmfw"}

mo == job.o

-----------------------------------------------------------------------------
(* Which files and which keys come from which build.                         *)

\* The patterns of a list: <<directory, "*">> or one file.
Matches(i, f) == i = f \/ (i[1] = f[1] /\ i[2] = "*")
CollectTargetFiles(pkg, items) == Restrict(pkg, {f \in DOMAIN pkg : \E i \in items : Matches(i, f)})

Expected(p, framework) == (p \in FrameworkPartitions) = framework
NotADirectory == {"META", "META/fs_config", "IMAGES", "PREBUILT_IMAGES"}

InferItemListWithVbmeta(pkg, framework) ==
  LET dirs == {d \in {f[1] : f \in DOMAIN pkg} \ NotADirectory : Expected(d, framework)}
  IN {f \in DOMAIN pkg : f[1] \in {"IMAGES", "PREBUILT_IMAGES"} /\ Expected(f[2], framework)} \union UNION {{<<d, "*">>, FsConfig(d)} : d \in dirs}

InferItemList(pkg, framework) ==
  LET always == IF framework THEN {"postinstall_config", "zucchini_config"} ELSE {"kernel_version", "otakeys", "pack_radioimages"}
      images == {f \in DOMAIN pkg : f[1] \in {"IMAGES", "PREBUILT_IMAGES"} /\ f[2] # "vbmeta" /\ Expected(f[2], framework)}
      dirs == {d \in {f[1] : f \in DOMAIN pkg} \ NotADirectory : Expected(d, framework)}
  IN {Meta(n) : n \in always} \union images \union UNION {{<<d, "*">>, FsConfig(d)} : d \in dirs}

(* Only the list of a zip file has entries for directories. *)
InferFrameworkMiscInfoKeys(pkg, isZip) ==
  LET found == {p \in FrameworkPartitions : isZip /\ IsDir(pkg, p)}
  IN {<<"ab_update">>, <<"default_system_dev_certificate">>, <<"avb_vbmeta", "system">>, <<"avb_key_path", "vbmeta_system">>, <<"rollback_index_location", "vbmeta_system">>}
     \union {<<w, p>> : w \in {"avb_hashtree_enable", "avb_add_hashtree_footer_args", "disable_sparse", "building_image"}, p \in found}
     \union {IF p = "system" THEN <<"fs_type">> ELSE <<"fs_type", p>> : p \in found}

ItemListToPartitionSet(items) ==
  {i[1] : i \in {j \in items : j[1] \notin NotADirectory}} \union {i[2] : i \in {j \in items : j[1] \in {"IMAGES", "PREBUILT_IMAGES"}}}

ValidateConfigLists(fw, vn, keys) ==
  /\ ItemListToPartitionSet(fw) \intersect ItemListToPartitionSet(vn) = {}
  /\ {<<"dynamic_partition_list">>, <<"super_partition_groups">>} \intersect keys = {}

UsageOk ==
  /\ {"target_files", "dir"} \intersect mo.out # {} /\ ("dir" \in mo.out => mo.dir_items # {})
  /\ mo.rebuild_recovery => mo.rebuild_sepolicy

ParseMergeOptions ==
  /\ pc = "merge_options"
  /\ LET fw == OrElse(mo.fw_items, InferItemList(job.fw, TRUE))
         vn == OrElse(mo.vn_items, InferItemList(job.vn, FALSE))
         keys == OrElse(mo.keys, InferFrameworkMiscInfoKeys(job.fw, mo.zips))
     IN IF ~UsageOk \/ ~ValidateConfigLists(fw, vn, keys) THEN pc' = "exit" /\ mg' = mg
        ELSE /\ pc' = "collect"
             /\ mg' = [mg EXCEPT !.fw = fw, !.vn = vn, !.keys = keys,
                                 !.fwSet = ItemListToPartitionSet(fw), !.vnSet = ItemListToPartitionSet(vn)]
  /\ UNCHANGED <<job, imgVars>>

CreateMergedPackage ==
  /\ pc = "collect" /\ pc' = "meta"
  /\ t' = (IF mo.boot_dir = None THEN <<>> ELSE Img("boot") <: mo.boot_dir)
          ++ CollectTargetFiles(job.vn, mg.vn) ++ CollectTargetFiles(job.fw, mg.fw)
  /\ UNCHANGED <<job, opt, info, parts, boots, th, seen, zip, repl, mg>>

-----------------------------------------------------------------------------
(* META.  Every operator is None when the code raises an error.              *)

FwMeta(n) == Get(job.fw, Meta(n))
VnMeta(n) == Get(job.vn, Meta(n))

MergeMiscInfo(f, v, keys) ==
  LET merged == Restrict(f, keys \intersect DOMAIN f) ++ v
  IN (IF True(merged, <<"avb_enable">>) THEN <<"avb_building_vbmeta_image">> <: "true" ELSE <<>>) ++ merged

FcSource(pkg, n) == IF Meta(n) \in DOMAIN pkg THEN pkg[Meta(n)] ELSE Get(pkg, Meta("file_contexts"))
VendorContextsLast(f, merged) ==
  [k \in FcKeys(merged) |-> "vendor_file_contexts"] ++ [k \in FcKeys(f) |-> "framework_file_contexts"] ++ merged

(* The dictionary whose keys count as the vendor's is the merged one.        *)
CopyNamedFileContexts(f, merged) ==
  [k \in FcKeys(f) |-> "framework_file_contexts"] ++ [k \in FcKeys(merged) |-> "vendor_file_contexts"] ++ merged

UniqConcat(f, v, k) == OrElse(Get(f, k), {}) \union OrElse(Get(v, k), {})
MergeDynamicPartitionInfoDicts(f, v) ==
  LET groups == v[<<"super_partition_groups">>]
      devices == OrElse(Get(v, <<"super_block_devices">>), {})
      needed == {<<"super_group_size", g>> : g \in groups} \union {<<"super_device_size", d>> : d \in devices}
      common == {k \in DOMAIN v \intersect DOMAIN f : f[k] = v[k]}
      vendors == {k \in DOMAIN v : k[1] \in {"super_block_devices", "super_partition_groups", "virtual_ab", "super_metadata_device"}}
      cow == <<"vabc_cow_version">>
      versions == IF cow \in DOMAIN f \intersect DOMAIN v THEN {f[cow], v[cow]} ELSE {2}
  IN IF \/ ~True(f, <<"use_dynamic_partitions">>) \/ ~True(v, <<"use_dynamic_partitions">>) \/ ~(needed \subseteq DOMAIN v)
     THEN None
     ELSE [k \in {<<"super_partition_list", g>> : g \in groups} \union {<<"dynamic_partition_list">>} |-> UniqConcat(f, v, k)]
          ++ (cow <: Min(versions)) ++ Restrict(v, needed \union vendors \union common)

(* Partitions of the framework's list that are not the framework's to give  *)
(* do not count.                                                             *)
MergeAbPartitions(f, v, fwSet, partial) ==
  IF v = None \/ (f = None /\ ~partial) THEN None
  ELSE (IF f = None THEN {} ELSE f \intersect fwSet) \union v

UpdateCareMapImageSizeProps(tree, d) ==
  LET present == {p \in PartitionsWithCareMap : Img(p) \in DOMAIN tree}
  IN IF \E p \in present : ~HasVerity(ImageProps(d, p)) THEN None
     ELSE [k \in {<<"image_size", p>> : p \in present} |-> CalculateMaxImageSize(tree[Img(k[2])].partition_size)] ++ d

MergePackageKeys(f, v, fwSet, vnSet, allowDuplicates) ==
  LET ours == {n \in DOMAIN f : f[n].partition \in fwSet}
      theirs == {n \in DOMAIN v : v[n].partition \in vnSet}
  IN IF ours \intersect theirs # {} /\ ~allowDuplicates THEN None ELSE Restrict(f, ours) ++ Restrict(v, theirs)

Older(a, b) == a[1] < b[1] \/ (a[1] = b[1] /\ a[2] < b[2])
MergeUpdateEngineConfig(f, v, partial) ==
  IF v = None \/ (f = None /\ ~partial) THEN None ELSE IF f # None /\ Older(f, v) THEN f ELSE v

(* A key is its words; one of the vendor that ends with the name of a       *)
(* system partition is left out, that of my_product as well.                 *)
LoadKeyValueText(pkg, n) == OrElse(Get(pkg, Meta(n)), <<>>)
SystemSuffixes == {<<"system">>, <<"system", "ext">>, <<"product">>, <<"init", "boot">>}
MergePostinstallConfig(f, v) ==
  Restrict(v, {k \in DOMAIN v : ~\E p \in SystemSuffixes : IsStrictSuffix(p, k)}) ++ f

\* The merged dictionary on its way through MergeMetaFiles.
Contexts(d) == CopyNamedFileContexts(FwMeta("misc_info"), d)
MergedDynamicInfo ==
  IF None \in {FwMeta("dynamic_partitions_info"), VnMeta("dynamic_partitions_info")} THEN None
  ELSE MergeDynamicPartitionInfoDicts(FwMeta("dynamic_partitions_info"), VnMeta("dynamic_partitions_info"))
WithDynamicInfo(d) ==
  IF ~True(d, <<"use_dynamic_partitions">>) THEN d
  ELSE IF MergedDynamicInfo = None THEN None ELSE (<<"build_super_partition">> <: "true") ++ MergedDynamicInfo ++ d
WithImageSizes(d) == IF d = None \/ ~True(d, <<"ab_update">>) THEN d ELSE UpdateCareMapImageSizeProps(t, d)

MergeMetaFiles ==
  /\ pc = "meta"
  /\ LET misc == MergeMiscInfo(FwMeta("misc_info"), VnMeta("misc_info"), mg.keys)
         ab == True(misc, <<"ab_update">>)
         final == WithImageSizes(WithDynamicInfo(Contexts(misc)))
         contexts == ("framework_file_contexts" <: FcSource(job.fw, "framework_file_contexts"))
                     ++ ("vendor_file_contexts" <: FcSource(job.vn, "vendor_file_contexts"))
         keys == [n \in {"apkcerts", "apexkeys"} |-> MergePackageKeys(FwMeta(n), VnMeta(n), mg.fwSet, mg.vnSet, mo.duplicates)]
         update == IF ~ab THEN <<>>
                   ELSE ("ab_partitions" <: MergeAbPartitions(FwMeta("ab_partitions"), VnMeta("ab_partitions"), mg.fwSet, mo.partial))
                        ++ ("update_engine_config" <: MergeUpdateEngineConfig(FwMeta("update_engine_config"), VnMeta("update_engine_config"), mo.partial))
                        ++ ("postinstall_config" <: MergePostinstallConfig(LoadKeyValueText(job.fw, "postinstall_config"),
                                                                           LoadKeyValueText(job.vn, "postinstall_config")))
         dynamic == IF True(misc, <<"use_dynamic_partitions">>) THEN "dynamic_partitions_info" <: MergedDynamicInfo ELSE <<>>
         files == ("misc_info" <: final) ++ contexts ++ keys ++ update ++ dynamic
     IN IF None \in Range(files) THEN pc' = "failed" /\ t' = t
        ELSE pc' = "dexopt" /\ t' = [f \in {Meta(n) : n \in DOMAIN files} |-> files[f[2]]] ++ t
  /\ UNCHANGED <<job, opt, info, parts, boots, th, seen, zip, repl, mg>>

-----------------------------------------------------------------------------
(* Files compiled against both builds, and the checks of the whole.          *)

(* Applications of the vendor's partition are compiled against the boot     *)
(* class path of the framework; its image has to be made anew.  By now the  *)
(* vendor's dictionary is the merged one.                                    *)
MergeDexopt ==
  /\ pc = "dexopt" /\ pc' = "compatibility"
  /\ LET wanted == True(t[Meta("misc_info")], <<"building_with_vsdk">>) /\ mo.dexpreopt # None
         apps == IF wanted THEN {a \in mo.dexpreopt : <<"vendor", a>> \in DOMAIN t} ELSE {}
         compiled == IF apps = {} THEN <<>>
                     ELSE (<<"vendor", "odex">> <: [apps |-> apps, against |-> Content(t, "system")])
                          ++ (FsConfig("vendor") <: [own |-> Get(t, FsConfig("vendor")), odex |-> apps])
     IN t' = compiled ++ (IF wanted THEN Without(t, {Img("vendor")}) ELSE t)
  /\ UNCHANGED <<job, opt, info, parts, boots, th, seen, zip, repl, mg>>

PartitionMap(tree) == {p \in RepackedPartitions : IsDir(tree, p)}

Skus(d, k) == LET named == OrElse(Get(d, k), {}) IN IF named = {} THEN {"no_sku"} ELSE named
CheckVintf(tree) ==
  LET d == LoadInfoDict(tree, FALSE)
      required == OrElse(Get(tree, <<"system", "matrix">>), {})
      provided(sku) == OrElse(Get(tree, <<"vendor", "manifest">>), {}) \union OrElse(Get(tree, <<"odm", sku>>), {})
  IN \/ ~True(d, <<"vintf_enforce">>)
     \/ \A sku \in Skus(d, <<"vintf_odm_manifest_skus">>) : required \subseteq provided(sku)

Uids(tree, p) == OrElse(Get(tree, <<p, "shared_uids">>), {})
SharedUids(tree) ==
  LET having(u) == {p \in PartitionMap(tree) : u \in Uids(tree, p)}
      uids == {u \in UNION {Uids(tree, p) : p \in PartitionMap(tree)} : Cardinality(having(u)) > 1}
  IN [u \in uids |-> having(u)]
CheckShareduidViolation(tree, groups) ==
  \A u \in DOMAIN SharedUids(tree) : Cardinality({g \in groups : SharedUids(tree)[u] \intersect g # {}}) <= 1

Apexes(tree, p) == OrElse(Get(tree, <<p, "apex">>), {})
CheckApexDuplicatePackages(tree) ==
  \A p, q \in PartitionMap(tree) : p # q => Apexes(tree, p) \intersect Apexes(tree, q) = {}

(* The policies of the platform and of the vendor are compiled in one, with *)
(* the mapping of the vendor's platform version, which has to be in system; *)
(* the compatibility matrix of system has the version of the kernel's       *)
(* policy.                                                                   *)
PlatVersion(tree) == OrElse(Get(tree, <<"vendor", "plat_sepolicy_vers">>), "missing")
GenfsVersion(tree) == OrElse(Get(tree, <<"vendor", "genfs_labels_version">>), "missing")
RequiredPolicies(tree) ==
  {<<"system", "plat_sepolicy">>, <<"system", PlatVersion(tree)>>, <<"vendor", "vendor_sepolicy">>, <<"vendor", "plat_pub_versioned">>}
OptionalPolicies(tree) ==
  {<<"system_ext", "system_ext_sepolicy">>, <<"product", "product_sepolicy">>, <<"odm", "odm_sepolicy">>,
   <<"system", "compat">>, <<"system", GenfsVersion(tree)>>, <<"system_ext", PlatVersion(tree)>>, <<"product", PlatVersion(tree)>>}
SepolicyCompiles(tree) == RequiredPolicies(tree) \union {<<"system", "matrix">>} \subseteq DOMAIN tree
CombinedSepolicy(tree) == Restrict(tree, (RequiredPolicies(tree) \union OptionalPolicies(tree)) \intersect DOMAIN tree)

(* The verifier of the vendor's build needs the directories of both vendor  *)
(* and odm.                                                                  *)
CheckInitRcFiles(tree) == mo.otatools => {"vendor", "odm"} \subseteq PartitionMap(tree)

(* Tools that read the files of the merged package and may find them wrong: *)
(* the verifiers of init files, the compiler of the policies and, from the  *)
(* platform version of TrebleLabeling on, the compiler once more for the    *)
(* platform's policy alone and the tests of the labels.                     *)
InitVerifiers == {"host_init_verifier"} \union (IF mo.otatools THEN {"vendor_host_init_verifier"} ELSE {})
TrebleLabeling == {"202604"}
SepolicyTools(tree) ==
  {"secilc"} \union (IF PlatVersion(tree) \in TrebleLabeling THEN {"platform_secilc", "treble_labeling_tests"} ELSE {})

CheckCompatibility ==
  /\ pc = "compatibility"
  /\ \E wrong \in SUBSET (InitVerifiers \union SepolicyTools(t)) :
       /\ pc' = IF /\ CheckVintf(t) /\ CheckShareduidViolation(t, {mg.fwSet, mg.vnSet})
                    /\ CheckApexDuplicatePackages(t) /\ CheckInitRcFiles(t) /\ SepolicyCompiles(t) /\ wrong = {}
                 THEN "sepolicy" ELSE "failed"
       /\ t' = (IF CheckInitRcFiles(t) /\ SepolicyCompiles(t) /\ "secilc" \notin wrong
                THEN Meta("combined_sepolicy") <: CombinedSepolicy(t) ELSE <<>>)
               ++ (Meta("shareduid_violation_modules") <: SharedUids(t)) ++ t
  /\ UNCHANGED <<job, opt, info, parts, boots, th, seen, zip, repl, mg>>

-----------------------------------------------------------------------------
(* The policy compiled from both builds goes to odm, or to vendor.           *)

PolicyPartition(tree) == IF IsDir(tree, "odm") THEN "odm" ELSE "vendor"
CopySelinuxFilesToVendor(tree, p) == (<<"vendor", "precompiled_sepolicy">> <: tree[Meta("combined_sepolicy")]) ++ tree

CopySelinuxFiles(tree, p) ==
  (<<p, "precompiled_sepolicy">> <: tree[Meta("combined_sepolicy")])
  ++ [f \in {<<p, s>> : s \in {q \in {"system", "system_ext", "product"} : <<q, "policy_hash">> \in DOMAIN tree}} |-> tree[<<f[2], "policy_hash">>]]
  ++ tree

AddImgOptions == [Defaults EXCEPT !.add_missing = TRUE, !.rebuild_recovery = mo.rebuild_recovery]

IncludeExtra(items) == items \union {<<"META", "*">>, <<"META/fs_config", "*">>, <<"system", "build.prop">>}
RebuildImageWithSepolicy ==
  /\ pc = "sepolicy"
  /\ LET p == PolicyPartition(t)
         tree == IF mo.rebuild_sepolicy THEN CopySelinuxFiles(t, p) ELSE t
         vendorCopy == Restrict(tree, Files(tree, p))
                       ++ Without(CollectTargetFiles(job.vn, IncludeExtra(mg.vn)), Files(job.vn, p) \union {Img(p)})
     IN IF mo.rebuild_sepolicy /\ mo.otatools
        THEN /\ t' = vendorCopy /\ mg' = [mg EXCEPT !.aside = tree, !.nested = TRUE] /\ StartAddImages(AddImgOptions)
        ELSE /\ t' = IF mo.rebuild_sepolicy THEN Without(tree, {Img(p)}) ELSE tree
             /\ mg' = mg /\ StartAddImages([AddImgOptions EXCEPT !.resolve = mo.resolve])
  /\ UNCHANGED job

(* The image the vendor's tools made, and the recovery files beside it.      *)
TakeRebuiltImage ==
  /\ pc = "added" /\ job.kind = "merge" /\ mg.nested
  /\ LET p == PolicyPartition(mg.aside)
         taken == {Img(p)} \union (IF mo.rebuild_recovery THEN {<<"vendor", "recovery_patch">>} ELSE {})
     IN IF Img(p) \notin DOMAIN t
        THEN pc' = "failed" /\ UNCHANGED <<imgVars, mg>>
        ELSE /\ t' = Restrict(t, taken \intersect DOMAIN t) ++ mg.aside
             /\ mg' = [mg EXCEPT !.aside = None, !.nested = FALSE] /\ StartAddImages([AddImgOptions EXCEPT !.resolve = mo.resolve])
  /\ UNCHANGED job

GenerateSuperEmptyImage ==
  /\ pc = "added" /\ job.kind = "merge" /\ ~mg.nested
  /\ LET misc == t[Meta("misc_info")]
         dynamic == True(misc, <<"use_dynamic_partitions">>)
     IN IF "super_empty" \in mo.out /\ ~dynamic THEN pc' = "failed" /\ UNCHANGED <<t, mg>>
        ELSE /\ t' = (IF dynamic THEN Img("super_empty") <: BuildSuperImageFromDict(misc) ELSE <<>>) ++ t
             /\ mg' = [mg EXCEPT !.super_empty = IF "super_empty" \in mo.out THEN t'[Img("super_empty")] ELSE None]
             /\ pc' = "outputs"
  /\ UNCHANGED <<job, opt, info, parts, boots, th, seen, zip, repl>>

CreateTargetFilesArchive ==
  /\ pc = "outputs" /\ pc' = "merged"
  /\ mg' = [mg EXCEPT !.dir = IF "dir" \in mo.out THEN CollectTargetFiles(t, mo.dir_items) ELSE None,
                      !.archive = IF "target_files" \in mo.out THEN t ELSE None]
  /\ UNCHANGED <<job, imgVars>>

Merge ==
  \/ ParseMergeOptions \/ CreateMergedPackage \/ MergeMetaFiles \/ MergeDexopt \/ CheckCompatibility
  \/ RebuildImageWithSepolicy \/ TakeRebuiltImage \/ GenerateSuperEmptyImage \/ CreateTargetFilesArchive

MergeInit ==
  mg = [fw |-> {}, vn |-> {}, keys |-> {}, fwSet |-> {}, vnSet |-> {}, aside |-> None, nested |-> FALSE,
        super_empty |-> None, dir |-> None, archive |-> None]
=============================================================================
