----------------------------- MODULE PackagesMC ------------------------------
(* Builds, options and partial packages for Packages.                        *)
EXTENDS Packages

Prop(n) == [fingerprint |-> [id |-> n, tags |-> {"test-keys"}], date |-> 1, sdk |-> 34, all_codenames |-> {"V"}]
Files2(dirs, names, w) == [f \in dirs \X names |-> <<w>>]
Props(dirs, w) == [f \in dirs \X {"build.prop"} |-> Prop(<<w, f[1]>>)]
FsConfigs(dirs, w) == [f \in {FsConfig(p) : p \in dirs} |-> <<w>>]
Tree(dirs, w) == Files2(dirs, {"bin"}, w) @@ Props(dirs, w) @@ FsConfigs(dirs, w)
BootDirs(w) == Files2({"boot", "recovery"}, {"kernel", "ramdisk"}, w)

Yes(keys) == [k \in keys |-> "true"]
BaseMisc == (<<"recovery_api_version">> :> 3) @@ (<<"fstab_version">> :> 2) @@ (<<"fs_type">> :> "ext4")
PartitionMisc(ps) == Yes({<<"building_image", p>> : p \in ps}) @@ [k \in {<<"fs_type", p>> : p \in ps \ {"system"}} |-> "ext4"]
                     @@ [k \in {<<"selinux_fc", p>> : p \in ps} |-> "file_contexts"]
FixedSizes(ps) == [k \in {<<"size", p>> : p \in ps} |-> 2000]
DynamicSizes(ps) == (<<"use_dynamic_partition_size">> :> "true") @@ (<<"dynamic_partition_list">> :> ps)
Avb(ps) ==
  Yes({<<"avb_enable">>, <<"avb_building_vbmeta_image">>} \union {<<"avb_hashtree_enable", p>> : p \in ps})
  @@ (<<"avb_key_path", "vbmeta">> :> "vbmeta_key")
  @@ [k \in {<<"avb_add_hashtree_footer_args", p>> : p \in ps} |-> Prop(<<"build", "system">>).fingerprint]
Chain(p, n) == (<<"avb_key_path", p>> :> "old_key") @@ (<<"rollback_index_location", p>> :> n)

Pkg(dirs, misc, extra) ==
  extra @@ Tree(dirs, "own") @@ BootDirs("own") @@ (Meta("misc_info") :> misc) @@ (Meta("file_contexts") :> <<"fc">>)

-----------------------------------------------------------------------------
(* add_img_to_target_files on its own.                                       *)

Blob(n, k) == [type |-> "blob", from |-> <<n>>, footer |-> TRUE, key |-> k]
Two == {"system", "vendor"}
Misc2 == BaseMisc @@ PartitionMisc(Two)

Image(tree, options, used) == [kind |-> "image", t |-> tree, opt |-> options, used |-> used]
NoUse == [p \in {} |-> 0]
Into(z) == [Defaults EXCEPT !.zip = z]

\* Fixed sizes, no verified boot, a recovery patch; the patch goes to vendor or to system.
Plain ==
  {Image(Pkg(Two, Misc2 @@ FixedSizes(Two) @@ vendorHasIt, <<>>), [Into(z) EXCEPT !.rebuild_recovery = r], NoUse) :
     z \in BOOLEAN, r \in BOOLEAN, vendorHasIt \in {<<>>, <<"board_uses_vendorimage">> :> "true"}}

\* Sizes computed from the files, with headroom and reserved space, around the sizes where the hash tree grows.
Sized ==
  {Image(Pkg({"vendor"}, fs @@ reserved @@ Misc2 @@ DynamicSizes({"vendor"}) @@ Avb({"vendor"}), <<"system", "build.prop">> :> Prop(<<"own", "system">>)),
         [Into(TRUE) EXCEPT !.add_missing = TRUE], "vendor" :> n) :
     n \in (100..140) \union (1000..1010) \union {5000, 20000},
     fs \in {<<>>, (<<"fs_type", "vendor">> :> "erofs"), (<<"fs_type", "vendor">> :> "f2fs") @@ (<<"f2fs_compress", "vendor">> :> "true")},
     reserved \in {<<>>, <<"reserved_size", "vendor">> :> 0, <<"reserved_size", "vendor">> :> 50}}

\* vbmeta images: chained partitions, chained vbmeta images, custom ones, clashing rollback locations.
Vbmetas ==
  {Image(Pkg(Two, Misc2 @@ FixedSizes(Two) @@ Avb(Two) @@ chain, stale), [Into(TRUE) EXCEPT !.resolve = r], NoUse) :
     r \in BOOLEAN, stale \in {<<>>, Meta("vbmeta_digest") :> <<>>},
     chain \in {Chain("vendor", 1), Chain("vendor", 1) @@ Chain("boot", 1),
                (<<"avb_vbmeta", "system">> :> {"system"}) @@ Chain("vbmeta_system", 2) @@ (<<"avb_vbmeta", "vendor">> :> {"vendor"}) @@ Chain("vbmeta_vendor", 2),
                (<<"avb_custom_vbmeta_images_partition_list">> :> <<"cust">>) @@ (<<"avb_vbmeta", "cust">> :> {"vendor"}) @@ Chain("vbmeta_cust", 4),
                <<"avb_custom_vbmeta_images_partition_list">> :> <<"cust">>,
                (<<"avb_custom_vbmeta_images_partition_list">> :> <<"cust", "oem">>) @@ (<<"avb_vbmeta", "cust">> :> {"vendor"}) @@ (<<"avb_vbmeta", "oem">> :> {"system", "vbmeta_cust"})
                  @@ Chain("vbmeta_cust", 4) @@ Chain("vbmeta_oem", 4),
                Yes({<<"ab_update">>, <<"no_recovery">>}) @@ (<<"avb_args", "vbmeta">> :> {"modem"})}}

\* Everything else a package may have.
OtherMisc ==
  Yes({<<"init_boot">>, <<"vendor_boot">>, <<"has", "dtbo">>, <<"has", "pvmfw">>, <<"use_dynamic_partitions">>, <<"build_super_empty_partition">>, <<"no_recovery">>, <<"ab_update">>})
  @@ (<<"custom_images_partition_list">> :> {"oem"}) @@ (<<"avb_custom_images_partition_list">> :> {"cust"})
  @@ (<<"image_list", "oem">> :> {"oem"}) @@ (<<"image_list", "cust">> :> {"cust"}) @@ (<<"avb_key_path", "cust">> :> "old_key")
  @@ (<<"rollback_index_location", "cust">> :> 3)
  @@ (<<"size", "userdata">> :> 100) @@ (<<"fs_type", "cache">> :> "ext4")
  @@ (<<"super_partition_groups">> :> {"g"}) @@ (<<"super_partition_list", "g">> :> Two) @@ (<<"super_group_size", "g">> :> 9)
Prebuilts(names) == [f \in {<<"PREBUILT_IMAGES", n>> : n \in names} |-> <<f[2]>>]
AbFiles ==
  (Meta("ab_partitions") :> {"system", "vendor", "boot", "modem"}) @@ (<<"RADIO", "modem">> :> Blob("modem", None))
  @@ (Meta("pack_radioimages") :> {"modem"}) @@ (<<"system", "apex">> :> (<<"apex", "virt">> :> "v1"))
  @@ (<<"init_boot", "ramdisk">> :> <<"own">>) @@ (<<"vendor_boot", "ramdisk">> :> <<"own">>)
Others ==
  {Image(Without(Pkg(Two, Misc2 @@ DynamicSizes(Two) @@ Avb(Two) @@ OtherMisc @@ boot, AbFiles @@ Prebuilts({"dtbo", "pvmfw", "oem", "cust"}) @@ stale), lost), Into(z), NoUse) :
     z \in BOOLEAN,
     boot \in {<<>>, <<"boot_images">> :> <<"boot", "boot-5.10">>},
     stale \in {<<>>, (Meta("care_map") :> <<>>) @@ (Meta("apex_info") :> <<>>)},
     lost \in {{}, {<<"PREBUILT_IMAGES", "cust">>}, {<<"RADIO", "modem">>}}}
  \union {Image(Pkg(Two, Misc2 @@ FixedSizes(Two), Meta("pack_radioimages") :> {"modem"}), Into(TRUE), NoUse)}

\* Images that are there already; a package that has no file contexts; files that do not fit.
Partly ==
  {Image(Without(Pkg(Two, size @@ Misc2 @@ FixedSizes(Two) @@ (<<"no_boot">> :> "true"), there), lost), [Into(z) EXCEPT !.add_missing = m], NoUse) :
     z \in BOOLEAN, m \in BOOLEAN,
     size \in {<<>>, <<"size", "system">> :> 900, <<"fs_type">> :> "xfs", <<"system_headroom">> :> 1200},
     there \in {<<>>, Img("vendor") :> [type |-> "fs", from |-> [tree |-> Content(Tree({"vendor"}, "own"), "vendor"), fs_config |-> <<"own">>],
                                        footer |-> FALSE, key |-> None, fc |-> <<"fc">>, fingerprint |-> None]},
     lost \in {{}, {Meta("file_contexts")}, {<<"recovery", "kernel">>}}}

\* A vbmeta image that is there already, beside an image that is missing or not.
OldVbmeta(ps) == Img("vbmeta") :> [type |-> "vbmeta", key |-> "vbmeta_key", desc |-> [p \in ps |-> Blob(p, None)], chain |-> <<>>]
WithVbmeta ==
  {Image(Pkg(Two, Misc2 @@ FixedSizes(Two) @@ Avb(Two) @@ Yes({<<"no_recovery">>}), OldVbmeta({"boot", "vendor"}) @@ [f \in {Img(p) : p \in there} |-> Blob(f[2], None)]),
         [Into(TRUE) EXCEPT !.add_missing = TRUE], NoUse) : there \in {{"boot", "vendor"}, {"boot", "system"}}}

\* Images of empty directories, with an fstab that knows their mount points and one that does not; a verified partition of another kind.
Empties ==
  {Image(Pkg(Two, Misc2 @@ FixedSizes(Two) @@ size @@ (<<"size", "userdata">> :> 100) @@ (<<"fs_type", "cache">> :> "ext4") @@ (<<"verity_block_device", "vendor">> :> "vendor")
               @@ Yes({<<"avb_enable">>, <<"userdata_img_with_data">>}), fstab), Into(TRUE), "data" :> data) :
     size \in {<<>>, <<"size", "cache">> :> 50}, data \in {90, 110},
     fstab \in {<<>>, <<"recovery", "fstab">> :> {"cache"}, <<"recovery", "fstab">> :> {"cache", "data"}}}

Three == {Image(Pkg(Two \union {"product"}, BaseMisc @@ PartitionMisc(Two \union {"product"}) @@ FixedSizes(Two \union {"product"}) @@ Avb(Two), <<>>), Into(FALSE), NoUse)}

ImageJobs == WithVbmeta \union Empties \union Plain \union Sized \union Vbmetas \union Others \union Partly \union Three

-----------------------------------------------------------------------------
(* merge_target_files.                                                       *)

FsImage(tree, p, fc) ==
  [type |-> "fs", from |-> [tree |-> Content(tree, p), fs_config |-> Get(tree, FsConfig(p))], fc |-> fc, fingerprint |-> None,
   footer |-> TRUE, key |-> None, image_size |-> CalculateMaxImageSize(2000), partition_size |-> 2000]
WithImages(tree, ps, fc) == [f \in {Img(p) : p \in ps} |-> FsImage(tree, f[2], fc)] @@ tree

Cert(k, p) == [cert |-> k, partition |-> p, ext |-> None]
ApexKey(p) == [payload |-> <<"old", "payload">>, container |-> <<"old", "platform">>, tool |-> None, partition |-> p]
DynamicInfo(list) ==
  Yes({<<"use_dynamic_partitions">>, <<"virtual_ab">>}) @@ (<<"super_partition_groups">> :> {"g"}) @@ (<<"super_partition_list", "g">> :> list)
  @@ (<<"super_group_size", "g">> :> 9) @@ (<<"dynamic_partition_list">> :> list) @@ (<<"vabc_cow_version">> :> 3)
AbMeta(ps, version) ==
  (Meta("ab_partitions") :> ps) @@ (Meta("update_engine_config") :> version) @@ (Meta("postinstall_config") :> ((<<"RUN", "system">> :> version) @@ (<<"RUN", "my", "product">> :> version)))

FwDirs == {"system", "product"}
FwTree ==
  Tree(FwDirs, "fw") @@ [f \in {"system"} \X {"plat_sepolicy", "v1", "policy_hash"} |-> <<"fw">>] @@ (<<"system", "matrix">> :> {"hal"})
  @@ (<<"system", "shared_uids">> :> {"phone"}) @@ (<<"system", "apex">> :> (<<"apex", "virt">> :> "v1"))
Fw(ps, avb) ==
  WithImages(FwTree, FwDirs, <<"fw_fc">>) @@ AbMeta(ps, <<1, 6>>)
  @@ (Meta("misc_info") :> (BaseMisc @@ PartitionMisc(FwDirs) @@ FixedSizes(FwDirs) @@ avb @@ (<<"ab_update">> :> "true")))
  @@ (Meta("dynamic_partitions_info") :> DynamicInfo(FwDirs)) @@ (Meta("file_contexts") :> <<"fw_fc">>)
  @@ (Meta("apkcerts") :> ((<<"apk", "Phone">> :> Cert(<<"old", "platform">>, "system")) @@ (<<"apk", "Both">> :> Cert(<<"old", "media">>, "system"))))
  @@ (Meta("apexkeys") :> (<<"apex", "virt">> :> ApexKey("system")))

VnTree(dirs) ==
  Tree(dirs, "vn") @@ [f \in {"vendor"} \X {"vendor_sepolicy", "plat_pub_versioned", "app"} |-> <<"vn">>]
  @@ (<<"vendor", "plat_sepolicy_vers">> :> "v1") @@ (<<"vendor", "manifest">> :> {"hal"}) @@ (<<"vendor", "shared_uids">> :> {"radio"})
Vn(dirs, misc, more) ==
  more @@ WithImages(VnTree(dirs), dirs, <<"vn_fc">>) @@ BootDirs("vn") @@ (Props({"system"}, "vn")) @@ (Img("vbmeta") :> [type |-> "vbmeta", key |-> "k", desc |-> ("vendor" :> Blob("vendor", "k")), chain |-> <<>>])
  @@ (Meta("misc_info") :> (misc @@ Yes({<<"vintf_enforce">>, <<"use_dynamic_partitions">>}) @@ BaseMisc @@ PartitionMisc(dirs) @@ FixedSizes(dirs)))
  @@ (Meta("dynamic_partitions_info") :> DynamicInfo(dirs)) @@ (Meta("file_contexts") :> <<"vn_fc">>)
  @@ (Meta("apkcerts") :> ((<<"apk", "Radio">> :> Cert(<<"old", "platform">>, "vendor")) @@ (<<"apk", "Both">> :> Cert(<<"vn", "media">>, "system"))))
  @@ (Meta("apexkeys") :> [n \in {} |-> None])

MergeOptions ==
  [fw_items |-> None, vn_items |-> None, keys |-> None, boot_dir |-> None, rebuild_recovery |-> FALSE, rebuild_sepolicy |-> FALSE,
   otatools |-> FALSE, resolve |-> FALSE, partial |-> FALSE, duplicates |-> FALSE, dexpreopt |-> None, zips |-> TRUE,
   out |-> {"target_files"}, dir_items |-> {<<"IMAGES", "*">>}]
MergeJob(fw, vn, o) == [kind |-> "merge", fw |-> fw, vn |-> vn, o |-> o, used |-> NoUse]

FwAb == {"system", "product", "vendor"}
VnAb(dirs) == AbMeta(dirs \union {"boot"}, <<1, 5>>)
AbMisc == Yes({<<"ab_update">>, <<"no_recovery">>})
Odm == {"vendor", "odm"}

\* Everything about policy, dexpreopt and the vendor's tools, A/B and not, with and without odm.
Rebuilds ==
  {MergeJob(Fw(FwAb, Avb(FwDirs)), Vn(dirs, ab @@ vsdk @@ Avb(dirs), VnAb(dirs)),
            [MergeOptions EXCEPT !.rebuild_sepolicy = s, !.otatools = v, !.dexpreopt = d, !.rebuild_recovery = r, !.out = {"target_files", "dir", "super_empty"}]) :
     dirs \in {{"vendor"}, Odm}, ab \in {AbMisc, <<"board_uses_vendorimage">> :> "true"}, vsdk \in {<<>>, <<"building_with_vsdk">> :> "true"},
     s \in BOOLEAN, v \in BOOLEAN, d \in {None, {"app"}}, r \in BOOLEAN}

\* A vendor build that has a vbmeta image of its own, for the vendor partition.
VnVbmeta(dirs) ==
  Img("vbmeta_vendor") :> [type |-> "vbmeta", key |-> "old_key", desc |-> ("vendor" :> FsImage(VnTree(dirs), "vendor", <<"vn_fc">>)), chain |-> <<>>]
Chained ==
  {MergeJob(Fw(FwAb, Avb(FwDirs)),
            Vn(dirs, AbMisc @@ vsdk @@ (<<"avb_vbmeta", "vendor">> :> {"vendor"}) @@ Chain("vbmeta_vendor", 2) @@ Avb(dirs), VnVbmeta(dirs) @@ VnAb(dirs)),
            [MergeOptions EXCEPT !.rebuild_sepolicy = s, !.dexpreopt = {"app"}]) :
     dirs \in {{"vendor"}, Odm}, vsdk \in {<<>>, <<"building_with_vsdk">> :> "true"}, s \in BOOLEAN}

\* A framework package that is itself merged: it has the vendor partition of a third build.
MergedFw ==
  LET own == Fw(FwAb, Avb(FwDirs))
      third == Tree({"vendor"}, "third")
      fcs(ps, n) == [k \in {FcKey(p) : p \in ps} |-> n]
      misc == fcs(FwDirs, "framework_file_contexts") @@ fcs({"vendor"}, "vendor_file_contexts") @@ PartitionMisc({"vendor"}) @@ own[Meta("misc_info")]
  IN Without((Meta("misc_info") :> misc) @@ (Meta("framework_file_contexts") :> <<"fw_fc">>) @@ (Meta("vendor_file_contexts") :> <<"third_fc">>)
             @@ (Meta("apkcerts") :> ((<<"apk", "Radio">> :> Cert(<<"third", "platform">>, "vendor")) @@ own[Meta("apkcerts")]))
             @@ WithImages(third, {"vendor"}, <<"third_fc">>) @@ own, {Meta("file_contexts")})
MergedAgain ==
  {MergeJob(MergedFw, Vn(dirs, AbMisc @@ vsdk @@ Avb(dirs), VnAb(dirs)),
            [MergeOptions EXCEPT !.rebuild_sepolicy = s, !.otatools = v, !.dexpreopt = {"app"}]) :
     dirs \in {{"vendor"}, Odm}, vsdk \in {<<>>, <<"building_with_vsdk">> :> "true"}, s \in BOOLEAN, v \in BOOLEAN}

\* The platform version from which the labels are tested.
Labels ==
  LET fw == (<<"system", "202604">> :> <<"fw">>) @@ Fw(FwAb, Avb(FwDirs))
      vn == Vn({"vendor"}, AbMisc @@ Avb({"vendor"}), (<<"vendor", "plat_sepolicy_vers">> :> "202604") @@ VnAb({"vendor"}))
  IN {MergeJob(WithImages(fw, {"system"}, <<"fw_fc">>), WithImages(vn, {"vendor"}, <<"vn_fc">>), MergeOptions)}

\* Disagreements between the two builds, and options that are refused.
Conflicts ==
  {MergeJob(Without(more @@ Fw(FwAb, <<>>), lost), Vn({"vendor"}, AbMisc, vendorMore @@ VnAb({"vendor"})),
            [MergeOptions EXCEPT !.partial = p, !.duplicates = p]) :
     p \in BOOLEAN, lost \in {{}, {Meta("ab_partitions")}, {Meta("update_engine_config")}, {<<"system", "v1">>}},
     more \in {<<>>, <<"system", "shared_uids">> :> {"radio"}, <<"system", "matrix">> :> {"hal", "missing_hal"}},
     vendorMore \in {<<>>, <<"vendor", "apex">> :> (<<"apex", "virt">> :> "v2"), Meta("update_engine_config") :> <<2, 0>>,
                     Meta("apkcerts") :> (<<"apk", "Phone">> :> Cert(<<"vn", "x">>, "vendor")),
                     Meta("dynamic_partitions_info") :> <<>>}}
OptionJobs ==
  {MergeJob(Fw(FwAb, Avb(FwDirs)), Vn({"vendor"}, AbMisc @@ Avb({"vendor"}), VnAb({"vendor"})), o) :
     o \in {[MergeOptions EXCEPT !.out = {}], [MergeOptions EXCEPT !.rebuild_recovery = TRUE], [MergeOptions EXCEPT !.zips = FALSE],
            [MergeOptions EXCEPT !.fw_items = {<<"system", "*">>, Img("vendor")}], [MergeOptions EXCEPT !.keys = {<<"dynamic_partition_list">>}],
            [MergeOptions EXCEPT !.resolve = TRUE, !.boot_dir = Blob("boot", None)]}}

NotDynamic ==
  {MergeJob(Fw(FwAb, <<>>), Vn({"vendor"}, AbMisc @@ (<<"use_dynamic_partitions">> :> "false"), VnAb({"vendor"})), [MergeOptions EXCEPT !.out = out]) :
     out \in {{"target_files"}, {"target_files", "super_empty"}}}

\* A framework without one of its images, and a vendor build that knows of the framework's partitions.
WithoutImage ==
  {MergeJob(Without(Fw(FwAb, Avb(FwDirs)), {Img("product")}), Vn({"vendor"}, more @@ AbMisc @@ Avb({"vendor"}), VnAb({"vendor"})), MergeOptions) :
     more \in {FixedSizes(FwDirs), FixedSizes(FwDirs) @@ PartitionMisc(FwDirs)}}

MergeJobs == Chained \union MergedAgain \union Labels \union Rebuilds \union Conflicts \union OptionJobs \union NotDynamic \union WithoutImage

-----------------------------------------------------------------------------
(* sign_target_files_apks.                                                   *)

Dev(n) == <<"build", n>>
Rel(n) == <<"release", n>>
Apk(n, ext, min) == [sig |-> Dev(n), ext |-> ext, min |-> min]
Api == <<"api", 30>>
Virt ==
  [payload |-> Dev("payload"), pubkey |-> Dev("payload"), container |-> Dev("platform"), outer |-> None, compressed |-> FALSE,
   apks |-> (<<"apk", "Inner">> :> Apk("shared", None, Api)), tool |-> None, microdroid |-> Dev("microdroid")]
SignCerts ==
  (<<"apk", "Phone">> :> Cert(Dev("platform"), "system")) @@ (<<"apk", "Own">> :> Cert(Presigned, "system"))
  @@ (<<"apk", "Radio">> :> [Cert(Dev("media"), "vendor") EXCEPT !.ext = "gz"]) @@ (<<"apk", "Inner">> :> Cert(Dev("shared"), "system"))
SignedApexKey == [payload |-> Dev("payload"), container |-> Dev("platform"), tool |-> None, partition |-> "system"]
SignMisc ==
  Misc2 @@ FixedSizes(Two) @@ Avb(Two) @@ Chain("vendor", 1) @@ Chain("boot", 2)
  @@ (<<"extra_ota_keys">> :> {Dev("testkey")}) @@ (<<"default_system_dev_certificate">> :> Dev("testkey"))
SignFiles ==
  (<<"system", "apk">> :> ((<<"apk", "Phone">> :> Apk("platform", None, Api)) @@ (<<"apk", "Own">> :> Apk("own", None, Api))))
  @@ (<<"vendor", "apk">> :> (<<"apk", "Radio">> :> Apk("media", "gz", <<"codename", "V">>)))
  @@ (<<"system", "apex">> :> (VirtApex :> Virt))
  @@ (<<"system", "mac_permissions">> :> (("platform" :> Dev("platform")) @@ ("media" :> Dev("media"))))
  @@ [f \in {"system", "recovery"} \X {"otacerts"} |-> {Dev("testkey")}]
  @@ (<<"PREBUILT_IMAGES", "boot">> :> <<"boot">>)
  @@ (<<"system", "boot_ota_4k">> :> [partitions |-> {"boot"}, incremental |-> FALSE, images |-> ("boot" :> <<Blob("boot", "old_key")>>), key |-> Dev("testkey")])
  @@ (Meta("apkcerts") :> SignCerts) @@ (Meta("apexkeys") :> (VirtApex :> SignedApexKey)) @@ (Meta("otakeys") :> {Dev("testkey")})
  @@ [f \in {Img(p) : p \in {"boot", "recovery", "vendor", "system", "vbmeta"}} |-> Blob(f[2], "old_key")]
  @@ (Meta("care_map") :> <<>>) @@ (Meta("vbmeta_digest") :> <<>>)
SignPkg(more, misc, lost) == Without(more @@ Pkg(Two, misc @@ SignMisc, SignFiles), lost)

Mapping == << <<None, "release">> >>
SignDefaults ==
  [mappings |-> Mapping, extra_apks |-> <<>>, extra_apex_payload_keys |-> (VirtApex :> Rel("payload")), skip_apks_with_path_prefix |-> {},
   override_apk_keys |-> None, override_apex_keys |-> None, replace_ota_keys |-> TRUE, remove_avb_public_keys |-> {},
   avb_keys |-> (("vendor" :> "new_vendor") @@ ("boot" :> "new_boot") @@ ("vbmeta" :> "new_vbmeta")),
   avb_algorithms |-> {"vendor", "boot", "vbmeta"}, tag_changes |-> << <<"-", "test-keys">>, <<"-", "dev-keys">>, <<"+", "release-keys">> >>,
   vendor_partitions |-> {}, vendor_tools |-> FALSE, allow_gsi_debug_sepolicy |-> FALSE,
   certs |-> {Dev(n) : n \in ToSet(DevKeys)} \union {Rel(n) : n \in ToSet(DevKeys) \union {"releasekey"}},
   avb_extra_args |-> {}, locked |-> {}, known |-> {}, editor |-> FALSE, package_key |-> None]
SignJob(tree, o) == [kind |-> "sign", t |-> tree, o |-> o, used |-> NoUse]

Release == Rel("releasekey")
SignOptionSets ==
  {SignDefaults,
   [SignDefaults EXCEPT !.mappings = <<>>],
   [SignDefaults EXCEPT !.mappings = Mapping \o << <<Dev("media"), Rel("own_media")>> >>, !.certs = @ \union {Rel("own_media")}],
   [SignDefaults EXCEPT !.mappings = Mapping \o << <<Dev("media"), Rel("platform")>> >>],
   [SignDefaults EXCEPT !.certs = {}],
   [SignDefaults EXCEPT !.extra_apks = (<<"apk", "Phone">> :> Rel("own")) @@ (<<"apk", "Own">> :> Dev("platform"))],
   [SignDefaults EXCEPT !.extra_apks = VirtApex :> None, !.extra_apex_payload_keys = VirtApex :> None],
   [SignDefaults EXCEPT !.extra_apks = VirtApex :> None],
   [SignDefaults EXCEPT !.override_apk_keys = Dev("testkey"), !.override_apex_keys = Rel("all")],
   [SignDefaults EXCEPT !.skip_apks_with_path_prefix = {"vendor"}],
   [SignDefaults EXCEPT !.replace_ota_keys = FALSE, !.remove_avb_public_keys = {"q-gsi"}],
   [SignDefaults EXCEPT !.avb_algorithms = {}],
   [SignDefaults EXCEPT !.avb_keys = @ @@ ("system_other" :> "new_other"), !.avb_algorithms = @ \union {"system_other"}],
   [SignDefaults EXCEPT !.allow_gsi_debug_sepolicy = TRUE, !.package_key = Release],
   [SignDefaults EXCEPT !.locked = {Rel("platform"), Rel("payload"), Dev("testkey")}, !.known = {Rel("platform")}, !.editor = TRUE],
   [SignDefaults EXCEPT !.locked = {Rel("platform"), Rel("media")}]}
SignPackages ==
  {SignPkg(more, <<>>, {}) :
     more \in {<<>>, <<"boot", "force_debuggable">> :> <<>>, <<"system", "userdebug_plat_sepolicy">> :> <<>>,
               (<<"boot/avb", "q-gsi">> :> <<>>) @@ (<<"system", "system_other_avbpubkey">> :> "old_key"),
               (<<"PREBUILT_IMAGES", "pvmfw">> :> [embedded |-> Dev("payload")]) @@ (EmbeddedKey :> Dev("payload")),
               <<"PREBUILT_IMAGES", "pvmfw">> :> [embedded |-> Dev("payload")],
               (<<"OTA", "updater">> :> <<"own">>) @@ (<<"OTA", "super_split">> :> Blob("super", None)),
               (<<"vendor", "ap-ec-fw">> :> "dev") @@ (<<"SIGNED_PREBUILTS", "ap-ec-fw-signed">> :> "signed"),
               <<"vendor", "microdroid_vendor">> :> Blob("mv", "old_key"), <<"vendor", "desktop_trusty">> :> Blob("dt", "old_key"),
               <<"system", "apex">> :> (VirtApex :> [Virt EXCEPT !.compressed = TRUE, !.outer = Dev("platform")]),
               <<"vendor", "apk">> :> (<<"apk", "Radio">> :> Apk("media", "gz", <<"codename", "Z">>)),
               Meta("otakeys") :> {}}}
  \union {SignPkg(<<>>, <<>>, {Meta("otakeys")}), SignPkg(<<>>, <<>>, {Img("boot"), <<"PREBUILT_IMAGES", "boot">>}),
          SignPkg(<<>>, <<>>, {<<"system", "build.prop">>})}

\* Boot OTAs with a 16k image beside them, dtbo, a recovery patch, and images made by the vendor's tools.
Incremental(key) == [partitions |-> {"boot", "dtbo"}, incremental |-> TRUE, images |-> <<>>, key |-> key]
Ota16k ==
  (<<"vendor", "boot_ota_4k">> :> Incremental(Dev("testkey"))) @@ (<<"vendor", "boot_ota_16k">> :> Incremental(Dev("testkey")))
  @@ (<<"IMAGES", "boot_16k">> :> Blob(<<"boot_16k">>, "old_key")) @@ (<<"PREBUILT_IMAGES", "dtbo">> :> <<"dtbo">>)
NoOta == {<<"system", "boot_ota_4k">>, <<"PREBUILT_IMAGES", "boot">>}
SignBoots ==
  {SignJob(SignPkg(Ota16k, misc, lost), SignDefaults) :
     misc \in {<<>>, Yes({<<"has", "dtbo">>})}, lost \in {{}, {<<"PREBUILT_IMAGES", "dtbo">>}, {<<"PREBUILT_IMAGES", "boot">>}}}
  \union {SignJob(SignPkg(<<"vendor", "recovery_patch">> :> [boot |-> Blob("boot", "old_key"), recovery |-> Blob("recovery", "old_key")],
                          <<"board_uses_vendorimage">> :> "true", NoOta \union lost),
                  [SignDefaults EXCEPT !.vendor_partitions = v, !.vendor_tools = tools]) :
            lost \in {{}, {<<"recovery", "kernel">>}}, v \in {{}, {"vendor"}, {"vendor", "odm"}}, tools \in BOOLEAN}
  \union {SignJob(SignPkg((<<"vendor", "recovery_patch">> :> [boot |-> Blob("boot", "old_key"), recovery |-> Blob("recovery", "old_key")]) @@ ota,
                          (<<"board_uses_vendorimage">> :> "true") @@ Yes({<<"has", "dtbo">>}), {}),
                  [SignDefaults EXCEPT !.vendor_partitions = v, !.vendor_tools = TRUE]) :
            ota \in {Ota16k, <<"PREBUILT_IMAGES", "dtbo">> :> <<"dtbo">>}, v \in {{}, {"vendor"}}}
  \union {SignJob(SignPkg(<<>>, Yes({<<"no_recovery">>, <<"ab_update">>}), NoOta), [SignDefaults EXCEPT !.vendor_partitions = {"vendor"}, !.vendor_tools = TRUE])}

SignJobs ==
  SignBoots \union {SignJob(SignPkg(<<>>, <<>>, {}), o) : o \in SignOptionSets} \union {SignJob(tree, SignDefaults) : tree \in SignPackages}
  \union {SignJob(tree, [SignDefaults EXCEPT !.avb_keys = @ @@ ("system_other" :> "new_other"), !.avb_algorithms = @ \union {"system_other"},
                                             !.extra_apex_payload_keys = @ @@ (<<"apex", "google.virt">> :> Rel("google")), !.avb_extra_args = {"apex"}, !.allow_gsi_debug_sepolicy = TRUE]) :
            tree \in SignPackages}
  \union {SignJob(tree, [SignDefaults EXCEPT !.extra_apks = VirtApex :> None, !.extra_apex_payload_keys = VirtApex :> None]) : tree \in SignPackages}

-----------------------------------------------------------------------------
(* merge_ota: the lengths of the operations of each partition.               *)

Lengths == {<<0>>, <<1>>, <<2, 0>>, <<0, 1>>, <<1, 2>>}
Before(lens, i) == FoldSeq(LAMBDA n, acc : n + acc, 0, SubSeq(lens, 1, i - 1))
OpsOf(id, name, lens, from) == [i \in DOMAIN lens |-> [off |-> from + Before(lens, i), len |-> lens[i], src |-> <<id, name, i>>]]
PayloadOf(id, shape) ==
  [i \in DOMAIN shape |-> [name |-> <<id, i>>, ops |-> OpsOf(id, i, shape[i], IF i = 1 THEN 0 ELSE Before(shape[1], Len(shape[1]) + 1))]]
Groups(id) == <<"g", 1>> :> [names |-> {<<id, 1>>}, size |-> id]
OtaPackage(id, shape) ==
  [manifest |-> [minor |-> id, max_timestamp |-> id, partial |-> FALSE, block_size |-> 4096, apex |-> {}, partitions |-> PayloadOf(id, shape),
                 meta |-> [groups |-> Groups(id), snapshot |-> TRUE, vabc |-> TRUE, param |-> "lz4", cow |-> 2]],
   care_map |-> {id}, apex_info |-> {id}, metadata |-> id]
OtaJob(s) == [kind |-> "ota", otas |-> s, used |-> NoUse]

TwoPartitions == {<<a, b>> : a \in Lengths, b \in Lengths}
Second == OtaPackage(2, << <<1>> >>)
OtaJobs ==
  {OtaJob(<<OtaPackage(1, <<a>>), OtaPackage(2, <<b>>), OtaPackage(3, c)>>) : a \in Lengths, b \in Lengths, c \in TwoPartitions}
  \union {OtaJob(<<OtaPackage(1, a)>>) : a \in TwoPartitions}
  \union {OtaJob(<<OtaPackage(1, << <<2>> >>), other>>) :
            other \in {[Second EXCEPT !.manifest.block_size = 512], [Second EXCEPT !.manifest.apex = {"virt"}], [Second EXCEPT !.manifest.meta.param = "none"],
                       [Second EXCEPT !.manifest.meta.groups = Groups(1)], [Second EXCEPT !.manifest.meta.groups = <<"h">> :> [names |-> {<<2, 1>>}, size |-> 1]]}}

TheJobs == ImageJobs \union MergeJobs \union SignJobs \union OtaJobs
=============================================================================
