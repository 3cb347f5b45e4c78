------------------------------ MODULE Packages -------------------------------
(* The programs that make a package from a package: add_img_to_target_files *)
(* alone or called by merge_target_files and by sign_target_files_apks, and *)
(* merge_ota.  A job is one call of one of them.                             *)
EXTENDS MergeTargetFiles, SignTargetFiles, MergeOta

vars == <<job, pc, imgVars, mg, sg, otaVars>>

(* The payloads merge_ota is given have a partition each, and the data of   *)
(* their operations one after the other, as the payload generator writes    *)
(* them.                                                                     *)
ASSUME PayloadsAssumption ==
  \A j \in Jobs : j.kind = "ota" =>
    /\ j.otas \in Seq(ToSet(j.otas)) /\ j.otas # <<>>
    /\ \A i \in DOMAIN j.otas : "partitions" \in DOMAIN j.otas[i].manifest /\ WellFormed(j.otas[i].manifest.partitions)

(* What sign_target_files_apks is given: the files it signs are not where   *)
(* images and lists are; a compressed APK is listed with its extension; no  *)
(* key that replaces a key is itself replaced; boot OTAs hold boot and      *)
(* dtbo.                                                                     *)
BootOtas == {"boot_ota_4k", "boot_ota_16k"}
SignedFiles == {"apk", "apex", "mac_permissions", "otacerts"} \union BootOtas
ToSign(tree, n) == {f \in DOMAIN tree : f[2] = n}
WellPlaced(tree) ==
  \A f \in DOMAIN tree : f[2] \in SignedFiles => f[1] \notin {"IMAGES", "OTA", "META", "SIGNED_PREBUILTS", "boot/avb"}
ApksListed(tree) ==
  LET certs == tree[Meta("apkcerts")]
  IN /\ IsFiniteSet(DOMAIN certs)
     /\ \A f \in ToSign(tree, "apk") : \A n \in DOMAIN tree[f] :
          "sig" \in DOMAIN tree[f][n] /\ (tree[f][n].ext # None => n \in DOMAIN certs /\ certs[n].ext = tree[f][n].ext)
     /\ \A f \in ToSign(tree, "apex") : \A a \in DOMAIN tree[f] :
          "apks" \in DOMAIN tree[f][a] /\ \A n \in DOMAIN tree[f][a].apks : "sig" \in DOMAIN tree[f][a].apks[n]
ReplacedOnce(keyMap) == \A k \in DOMAIN keyMap : keyMap[k] \notin DOMAIN keyMap /\ ~Special(keyMap[k])
BootOtasGiven(j) ==
  \A n \in BootOtas : \A f \in ToSign(j.t, n) : "images" \in DOMAIN j.t[f] /\ j.t[f].partitions \subseteq {"boot", "dtbo"}
ASSUME SigningAssumption ==
  \A j \in Jobs : j.kind = "sign" =>
    /\ WellPlaced(j.t) /\ ApksListed(j.t) /\ BootOtasGiven(j)
    /\ LET misc == LoadInfoDict(j.t, FALSE) IN misc # None => ReplacedOnce(BuildKeyMap(misc, j.o.mappings))

(* What merge_target_files is given: builds, merged ones too, that have     *)
(* their lists and file contexts, which the images taken from them were     *)
(* made with and which their dictionaries name for each partition they      *)
(* have, and no file called *; lists of items, where they are given, that   *)
(* name the partitions of their build and no pattern for all images.        *)
FcKey(p) == <<"selinux_fc", p>>
Tidy(items, framework) ==
  /\ \A i \in items : i[1] = "IMAGES" => i[2] # "*"
  /\ \A p \in ItemListToPartitionSet(items) : Expected(p, framework)
ListsTidy(j) ==
  LET fw == OrElse(j.o.fw_items, InferItemList(j.fw, TRUE))
      vn == OrElse(j.o.vn_items, InferItemList(j.vn, FALSE))
  IN ItemListToPartitionSet(fw) \intersect ItemListToPartitionSet(vn) = {} =>
       (j.o.fw_items # None => Tidy(fw, TRUE)) /\ (j.o.vn_items # None => Tidy(vn, FALSE))
FcName(p) == IF p \in FrameworkPartitions THEN "framework_file_contexts" ELSE "vendor_file_contexts"
ContextFiles == {"file_contexts", "framework_file_contexts", "vendor_file_contexts"}
OneContexts(build, framework) ==
  /\ {Meta(n) : n \in {"misc_info", "apkcerts", "apexkeys"}} \subseteq DOMAIN build
  /\ \A p \in {q \in Partitions : Expected(q, framework)} :
       LET fc == FcSource(build, FcName(p))
           misc == build[Meta("misc_info")]
       IN /\ fc # None
          /\ FcKey(p) \in DOMAIN misc => misc[FcKey(p)] \in ContextFiles /\ Get(build, Meta(misc[FcKey(p)])) = fc
          /\ IsDir(build, p) => FcKey(p) \in DOMAIN misc
          /\ Img(p) \in DOMAIN build /\ build[Img(p)].type = "fs" => build[Img(p)].fc = fc
  /\ \A f \in DOMAIN build : f[2] # "*" /\ (f[1] \in {"BOOTABLE_IMAGES", "RADIO"} => build[f].type # "fs")
ASSUME MergingAssumption ==
  \A j \in Jobs : j.kind = "merge" =>
    /\ OneContexts(j.fw, TRUE) /\ OneContexts(j.vn, FALSE) /\ ListsTidy(j)
    /\ IsDir(j.vn, "vendor") /\ FcKeys(OrElse(Get(j.vn, Meta("dynamic_partitions_info")), <<>>)) = {}

(* A job is a call of one of the programs.                                   *)
ASSUME KindsAssumption == \A j \in Jobs : j.kind \in {"image", "merge", "sign", "ota"}

InitialStep == [image |-> "add_images", merge |-> "merge_options", sign |-> "sign_options", ota |-> "exit"]
Init ==
  /\ job \in Jobs
  /\ pc = InitialStep[job.kind]
  /\ ImgInit /\ MergeInit /\ SignInit
  /\ t = (IF job.kind \in {"image", "sign"} THEN job.t ELSE <<>>)
  /\ opt = (IF job.kind = "image" THEN job.opt ELSE Defaults)
  /\ mpc = (IF job.kind = "ota" THEN "merge_ota" ELSE "idle")
  /\ otas = (IF job.kind = "ota" THEN job.otas ELSE <<>>)
  /\ merged = None

Final == pc \in {"merged", "signed", "failed", "exit"} \/ (pc = "added" /\ job.kind = "image")

Next ==
  \/ AddImages /\ UNCHANGED <<mg, sg, otaVars>>
  \/ Merge /\ UNCHANGED <<sg, otaVars>>
  \/ Sign /\ UNCHANGED <<mg, otaVars>>
  \/ MergeOtas /\ UNCHANGED <<job, pc, imgVars, mg, sg>>
  \/ Final /\ mpc \in {"idle", "done", "failed"} /\ UNCHANGED vars

Spec == Init /\ [][Next]_vars

-----------------------------------------------------------------------------
Finished == pc \in {"merged", "signed"} \/ (pc = "added" /\ job.kind = "image")
Package == IF zip = None THEN t ELSE zip
ImageOf(p) == Get(Package, Path(p))
FsImages == {p \in Partitions : Img(p) \in DOMAIN Package /\ Package[Img(p)].type = "fs"}

Owner(p) == IF p \in FrameworkPartitions THEN job.fw ELSE job.vn
Given(p) == IF job.kind = "merge" THEN Get(Owner(p), Path(p)) ELSE Get(job.t, Path(p))
StaleAllowed(v, p) ==
  /\ job.kind = "image" \/ (job.kind = "merge" /\ v # "vbmeta")
  /\ Package[Img(v)] = Given(v) /\ ImageOf(p) # Given(p)

(* Every vbmeta image of a finished package describes the images that are   *)
(* in the package, and chains to partitions signed with the keys it names.  *)
(* Not so a vbmeta image that was in the package given, which the code      *)
(* never makes anew ("already exists; not rebuilding"): it goes on          *)
(* describing the old image of a partition whose image was made anew.  This *)
(* happens to vbmeta_vendor when a merge rebuilds vendor for dexpreopt or   *)
(* for the combined policy; the top-level vbmeta of a merged or signed      *)
(* package is always right.                                                  *)
VbmetaDescribesImages ==
  Finished => \A v \in {n \in VbmetaNames : Img(n) \in DOMAIN Package} :
                /\ \A p \in DOMAIN Package[Img(v)].desc :
                     Package[Img(v)].desc[p] = Located(Package, Path(p)[2]) \/ StaleAllowed(v, p)
                /\ \A p \in DOMAIN Package[Img(v)].chain : ImageOf(p).key = Package[Img(v)].chain[p].key

(* The image of a partition holds the files the package has for it: none is *)
(* older than a file that was added, compiled, rewritten or signed.         *)
ImagesMatchTree ==
  Finished => \A p \in FsImages :
    LET from == Package[Img(p)].from
    IN from.tree = Content(Package, p) /\ from.fs_config = Get(Package, FsConfig(p))

(* What META says of the images is true of the images in the package: the   *)
(* blocks to verify and the build they belong to, the digest of all vbmeta  *)
(* images, the APEXes.                                                       *)
MetaDescribesImages ==
  Finished =>
    /\ \A p \in DOMAIN OrElse(Get(Package, Meta("care_map")), <<>>) :
         LET care == Package[Meta("care_map")][p]
         IN /\ care.ranges[2] < Package[Img(p)].image_size
            /\ <<p, "build.prop">> \in DOMAIN Package => care.fingerprint = Package[<<p, "build.prop">>].fingerprint
    /\ Meta("vbmeta_digest") \in DOMAIN Package => Package[Meta("vbmeta_digest")] = CalculateVbmetaDigest(Package)
    /\ Meta("apex_info") \in DOMAIN Package =>
         \A p \in Partitions : Get(Package[Meta("apex_info")], p) = Get(Package, <<p, "apex">>)

(* A recovery patch turns the boot image of the package into its recovery   *)
(* image.                                                                    *)
RecoveryPatchFits ==
  Finished => \A f \in {<<p, "recovery_patch">> : p \in {"system", "vendor"}} \intersect DOMAIN Package :
                Package[f].boot = ImageOf("boot") /\ Package[f].recovery = ImageOf("recovery")

(* An image has room for the files and, with its hash tree, fits its        *)
(* partition; a partition whose size was computed is the smallest that      *)
(* leaves the size the file system asks for.                                *)
SizesFit ==
  Finished => \A p \in {q \in FsImages : Package[Img(q)].footer} :
    LET image == Package[Img(p)]
        prop == ImageProps(Package[Meta("misc_info")], p)
        asked == DynamicSize([prop EXCEPT !.avb_hashtree_enable = None], Used(p))
    IN /\ image.image_size <= CalculateMaxImageSize(image.partition_size)
       /\ Used(p) <= image.image_size
       /\ IsDynamic(prop) =>
            CalculateMaxImageSize(image.partition_size - 1) < asked /\ asked <= CalculateMaxImageSize(image.partition_size)

(* What a merged package says of a partition comes from the build the       *)
(* partition comes from: its files and their owners, the keys of its        *)
(* packages, the file contexts of its image.  The exception: where the      *)
(* framework package has a dictionary that names file contexts for a        *)
(* partition of the vendor, as a merged package has, an image made anew     *)
(* may have the framework's.                                                 *)
Added == {"recovery_patch", "precompiled_sepolicy", "odex", "system", "system_ext", "product"}
OneBuild ==
  pc = "merged" =>
    /\ \A f \in DOMAIN t : f[1] \in Partitions /\ f[2] \notin Added => Get(Owner(f[1]), f) = t[f]
    /\ \A n \in {"apkcerts", "apexkeys"} : \A a \in DOMAIN t[Meta(n)] :
         LET entry == t[Meta(n)][a] IN Get(Owner(entry.partition)[Meta(n)], a) = entry
    /\ \A p \in FsImages :
         \/ t[Img(p)].fc = FcSource(Owner(p), FcName(p))
         \/ FcKey(p) \in DOMAIN FwMeta("misc_info") /\ t[Img(p)].fc = FcSource(job.fw, "framework_file_contexts")

NewKey(k) == Mapped(sg.keyMap, k)
KeyFor(n) ==
  IF n \in DOMAIN so.extra_apks THEN OrElse(so.extra_apks[n], Presigned)
  ELSE OrElse(so.override_apk_keys, job.t[Meta("apkcerts")][n].cert)
FilesNamed(n) == ToSign(job.t, n)
ApksSigned(pkg) ==
  \A f \in {g \in FilesNamed("apk") : g[1] \notin so.skip_apks_with_path_prefix} : \A n \in DOMAIN job.t[f] :
    ~Special(KeyFor(n)) => pkg[f][n].sig = NewKey(KeyFor(n))
InnerApksSigned(pkg) ==
  \A f \in FilesNamed("apex") : \A a \in DOMAIN job.t[f] : \A n \in DOMAIN job.t[f][a].apks :
    ~Special(KeyFor(n)) /\ ~Special(sg.apex[a].payload) => pkg[f][a].apks[n].sig = NewKey(KeyFor(n))
SignersReplaced(pkg) ==
  \A f \in FilesNamed("mac_permissions") : \A n \in DOMAIN job.t[f] :
    {job.t[f][n], NewKey(job.t[f][n])} \subseteq so.certs => pkg[f][n] = NewKey(job.t[f][n])
OtacertsReplaced(pkg) ==
  \A f \in FilesNamed("otacerts") : so.replace_ota_keys => pkg[f] \intersect DOMAIN sg.keyMap = {}

(* In a signed package every APK, those inside APEXes too, has the key its  *)
(* old key is mapped to or the one given for it, mac_permissions knows the  *)
(* new key where it knew the old one, and updates are accepted from mapped  *)
(* keys alone.                                                               *)
SignedWithMappedKeys ==
  pc = "signed" => ApksSigned(Package) /\ InnerApksSigned(Package) /\ SignersReplaced(Package) /\ OtacertsReplaced(Package)

VendorRebuilds == so.vendor_partitions # {} /\ so.vendor_tools /\ RecoveryFiles \intersect DOMAIN job.t # {}
Big(p) == <<"IMAGES", IF p = "boot" THEN "boot_16k" ELSE "dtbo_16k">>
Replaced(p) == p = "boot" /\ VendorRebuilds
OtasInstall(pkg) ==
  /\ \A f \in FilesNamed("boot_ota_4k") : \A p \in DOMAIN pkg[f].images : Replaced(p) \/ Last(pkg[f].images[p]) = pkg[Img(p)]
  /\ \A f \in FilesNamed("boot_ota_16k") : \A p \in DOMAIN pkg[f].images :
       /\ Replaced(p) \/ Head(pkg[f].images[p]) = pkg[Img(p)]
       /\ Get(job.t, Big(p)) \in {None, Last(pkg[f].images[p])}

(* The boot OTAs in a signed package fit its boot images, signed with the   *)
(* new keys: the one to pages of 4k installs them, the one to pages of 16k  *)
(* starts from them and installs the image of 16k pages.  The exception:    *)
(* with a recovery patch, the vendor's tools make a boot image that         *)
(* replaces the one the OTAs were made from; dtbo is never replaced.        *)
BootOtasInstallImages == pc = "signed" => OtasInstall(Package)

(* The mappings of -k and -d apply to the keys of APEX containers as well,  *)
(* unless an option gives the container a key of its own.                   *)
ContainerKeysMapped ==
  pc = "signed" =>
    \A f \in {g \in DOMAIN job.t : g[2] = "apex"} : \A a \in DOMAIN job.t[f] :
      LET key == job.t[Meta("apexkeys")][a].container
      IN a \notin DOMAIN so.extra_apks /\ so.override_apk_keys = None /\ key \in DOMAIN sg.keyMap => Package[f][a].container = sg.keyMap[key]
=============================================================================
