--------------------------- MODULE SignTargetFiles ----------------------------
(* sign_target_files_apks: the APKs, APEXes, properties and images of a     *)
(* package are signed with other keys.  A key is <<directory, name>>.  The  *)
(* file apk of a partition holds all its APKs, apex all its APEXes.          *)
EXTENDS AddImages

VARIABLE
  sg        \* the keys, the passwords, OPTIONS.rebuild_recovery, the output zip

so == job.o

Presigned == <<"special", "PRESIGNED">>
External == <<"special", "EXTERNAL">>
Special(k) == k \in {Presigned, External}

-----------------------------------------------------------------------------
(* Keys.                                                                     *)

DevKeys == <<"testkey", "devkey", "media", "shared", "platform", "networkstack", "sdk_sandbox", "bluetooth", "gmscompat_lib", "nfc">>
DefaultCertificate == <<"build", "testkey">>
DevKeyDir(misc) == OrElse(Get(misc, <<"default_system_dev_certificate">>), DefaultCertificate)[1]
DefaultMappings(dir, to) ==
  [k \in {<<dir, n>> : n \in ToSet(DevKeys)} |-> <<to, IF k[2] \in {"testkey", "devkey"} THEN "releasekey" ELSE k[2]>>]

(* The options -d (no source) and -k; the later ones win.                    *)
KeyMapping(misc, m) == IF m[1] = None THEN DefaultMappings(DevKeyDir(misc), m[2]) ELSE m[1] <: m[2]
Mentions(misc, mappings, k) == {i \in DOMAIN mappings : k \in DOMAIN KeyMapping(misc, mappings[i])}
BuildKeyMap(misc, mappings) ==
  [k \in UNION {DOMAIN KeyMapping(misc, mappings[i]) : i \in DOMAIN mappings} |->
     KeyMapping(misc, mappings[Max(Mentions(misc, mappings, k))])[k]]

\* The dictionary gives its keys in the order in which they were added first.
AddedBefore(misc, k, l) ==
  LET first(x) == Min(Mentions(misc, so.mappings, x))
      place(x) == CHOOSE i \in DOMAIN DevKeys : DevKeys[i] = x[2]
  IN k # l /\ (first(k) < first(l) \/ (first(k) = first(l) /\ place(k) < place(l)))

Mapped(m, k) == IF k \in DOMAIN m THEN m[k] ELSE k

Installed(kind) == UNION {DOMAIN t[f] : f \in {g \in DOMAIN t : g[2] = kind}}
ApksNamed(n) == {t[f][n] : f \in {g \in DOMAIN t : g[2] = "apk" /\ n \in DOMAIN t[g]}}

(* The one extension of compressed APKs; None when there is none.           *)
CompressedExtensions(certs) ==
  {certs[n].ext : n \in {m \in DOMAIN certs : certs[m].ext # None /\ \E a \in ApksNamed(m) : a.ext = certs[m].ext}}
ReadApkCerts == LET certs == t[Meta("apkcerts")] IN [n \in DOMAIN certs |-> certs[n].cert]

GetApkCerts(certmap, keyMap) ==
  LET certs == IF so.override_apk_keys = None THEN certmap ELSE [n \in DOMAIN certmap |-> so.override_apk_keys]
      kept == {n \in DOMAIN certs : so.override_apk_keys # None \/ certs[n] \in DOMAIN keyMap \/ certs[n] = Presigned}
  IN [n \in DOMAIN so.extra_apks |-> Mapped(keyMap, OrElse(so.extra_apks[n], Presigned))]
     ++ [n \in kept |-> Mapped(keyMap, certs[n])]

ReadApexKeysInfo == LET keys == t[Meta("apexkeys")] IN [n \in DOMAIN keys |-> [payload |-> keys[n].payload, container |-> keys[n].container, tool |-> keys[n].tool]]

(* None when a presigned container is given another payload key.            *)
GetApexKeys(keysInfo, keyMap) ==
  LET payload(a) == IF a \in DOMAIN so.extra_apex_payload_keys THEN OrElse(so.extra_apex_payload_keys[a], Presigned)
                    ELSE OrElse(so.override_apex_keys, keysInfo[a].payload)
      given(a) == IF so.override_apk_keys = None THEN keysInfo[a].container ELSE Mapped(keyMap, so.override_apk_keys)
      container(a) == IF a \in DOMAIN so.extra_apks THEN Mapped(keyMap, OrElse(so.extra_apks[a], Presigned)) ELSE Mapped(keyMap, given(a))
      presigned == {a \in DOMAIN keysInfo : container(a) = Presigned}
  IN IF \E a \in presigned \intersect DOMAIN so.extra_apex_payload_keys : so.extra_apex_payload_keys[a] # None THEN None
     ELSE [a \in DOMAIN keysInfo |-> IF a \in presigned THEN [payload |-> Presigned, container |-> Presigned, tool |-> None]
                                     ELSE [payload |-> payload(a), container |-> container(a), tool |-> keysInfo[a].tool]]

IsApk(apk, ext) == apk.ext = None \/ apk.ext = ext
ApksToSign(ext) ==
  UNION {{n \in DOMAIN t[f] : IsApk(t[f][n], ext)} : f \in {g \in DOMAIN t : g[2] = "apk" /\ g[1] \notin so.skip_apks_with_path_prefix}}
CheckApkAndApexKeysAvailable(apkKeys, apexKeys, ext) ==
  /\ Installed("apex") \subseteq DOMAIN apexKeys
  /\ ApksToSign(ext) \subseteq DOMAIN apkKeys \union DOMAIN apexKeys
  /\ \A a \in Installed("apex") : Special(apexKeys[a].payload) = Special(apexKeys[a].container)

(* The map given to GetApexKeys is that of the APKs, not that of the keys.   *)
LoadKeys ==
  /\ pc = "sign_options"
  /\ LET misc == LoadInfoDict(t, FALSE)
         keyMap == BuildKeyMap(misc, so.mappings)
         exts == CompressedExtensions(t[Meta("apkcerts")])
         ext == IF exts = {} THEN None ELSE CHOOSE e \in exts : TRUE
         apk == GetApkCerts(ReadApkCerts, keyMap)
         apex == GetApexKeys(ReadApexKeysInfo, apk)
         props == Get(t, <<"system", "build.prop">>)
     IN IF misc = None \/ Cardinality(exts) > 1 \/ apex = None THEN pc' = "failed" /\ UNCHANGED <<info, sg>>
        ELSE IF ~CheckApkAndApexKeysAvailable(apk, apex, ext) \/ props = None THEN pc' = "failed" /\ UNCHANGED <<info, sg>>
        ELSE /\ pc' = "passwords" /\ info' = misc
             /\ sg' = [sg EXCEPT !.keyMap = keyMap, !.apk = apk, !.apex = apex, !.ext = ext, !.passwords = so.known,
                                 !.package_key = OrElse(so.package_key, OrElse(Get(misc, <<"default_system_dev_certificate">>), DefaultCertificate))]
  /\ UNCHANGED <<job, opt, t, parts, boots, th, seen, zip, repl>>

(* Passwords: from the file, then whatever the user leaves in it or types.   *)
NeedPasswords == (Range(sg.apk) \union UNION {{sg.apex[a].payload, sg.apex[a].container} : a \in DOMAIN sg.apex}) \intersect so.locked
GetKeyPasswords ==
  /\ pc = "passwords" /\ NeedPasswords \subseteq sg.passwords /\ pc' = "avb_keys"
  /\ UNCHANGED <<job, imgVars, sg>>
UpdatePasswords ==
  /\ pc = "passwords" /\ NeedPasswords \ sg.passwords # {}
  /\ \E given \in IF so.editor THEN SUBSET (NeedPasswords \union sg.passwords) ELSE {NeedPasswords \union sg.passwords} :
       sg' = [sg EXCEPT !.passwords = given, !.asked = TRUE]
  /\ UNCHANGED <<job, pc, imgVars>>
RefusePasswords ==
  /\ pc = "passwords" /\ NeedPasswords \ sg.passwords # {} /\ sg.asked /\ pc' = "failed"
  /\ UNCHANGED <<job, imgVars, sg>>

-----------------------------------------------------------------------------
(* Verified boot keys and the images boot OTAs are made from.                *)

EditTags(tags) == FoldLeft(LAMBDA acc, ch : IF ch[1] = "-" THEN acc \ {ch[2]} ELSE acc \union {ch[2]}, tags, so.tag_changes)
NewFingerprint(f) == [f EXCEPT !.tags = EditTags(@)]

AvbFooterArgsPartitions == AvbPartitions \union {"system_other", "vbmeta", "vbmeta_system", "vbmeta_vendor"}
KeyedPartitions(misc) ==
  {p \in AvbFooterArgsPartitions \union OrElse(Get(misc, <<"avb_custom_images_partition_list">>), {}) : p \in DOMAIN so.avb_keys}
ReplaceAvbSigningKeys(misc) == [k \in {<<"avb_key_path", p>> : p \in KeyedPartitions(misc)} |-> so.avb_keys[k[2]]] ++ misc

RewriteAvbProps(misc) ==
  IF ~True(misc, <<"avb_enable">>) THEN misc
  ELSE [k \in {a \in FooterArgs(misc) : a[2] \in AvbFooterArgsPartitions} |-> NewFingerprint(misc[k])] ++ misc

ReplaceKeys ==
  /\ pc = "avb_keys"
  /\ pc' = IF KeyedPartitions(info) \subseteq so.avb_algorithms THEN "kernel" ELSE "failed"
  /\ info' = RewriteAvbProps(ReplaceAvbSigningKeys(info))
  /\ UNCHANGED <<job, opt, t, parts, boots, th, seen, zip, repl, sg>>

(* Only prebuilt and finished images are at hand, nothing to build one from. *)
KernelImage ==
  CASE <<"BOOTABLE_IMAGES", "boot">> \in DOMAIN t -> t[<<"BOOTABLE_IMAGES", "boot">>]
    [] OTHER -> IF <<"PREBUILT_IMAGES", "boot">> \in DOMAIN t THEN Signed(<<t[<<"PREBUILT_IMAGES", "boot">>]>>, "boot") ELSE None
RegenerateKernelPartitions ==
  /\ pc = "kernel"
  /\ LET dtbo == True(info, <<"has", "dtbo">>)
         prebuilt == Get(t, <<"PREBUILT_IMAGES", "dtbo">>)
         images == (IF KernelImage = None THEN <<>> ELSE Img("boot") <: KernelImage)
                   ++ (IF dtbo THEN Img("dtbo") <: Signed(<<prebuilt>>, "dtbo") ELSE <<>>)
     IN IF dtbo /\ prebuilt = None THEN pc' = "failed" /\ sg' = sg
        ELSE pc' = "entries" /\ sg' = [sg EXCEPT !.out = images]
  /\ UNCHANGED <<job, imgVars>>

-----------------------------------------------------------------------------
(* The entries of the package.  An operator is None when the code raises.    *)

(* SignFile: the least SDK version is a number or a known codename.          *)
Codenames == t[<<"system", "build.prop">>].all_codenames
GetMinSdkVersionInt(apk) == apk.min[1] = "api" \/ apk.min[2] \in Codenames
SignFile(apk, key) == IF GetMinSdkVersionInt(apk) THEN [apk EXCEPT !.sig = key] ELSE None
SignApk(apk, key) ==
  IF t[<<"system", "build.prop">>].sdk > 23 THEN SignFile(apk, key) ELSE [apk EXCEPT !.sig = key]

SignApks(f) ==
  LET recognized == {n \in DOMAIN t[f] : f[1] \notin so.skip_apks_with_path_prefix /\ IsApk(t[f][n], sg.ext)}
      signed == [n \in DOMAIN t[f] |-> IF n \notin recognized \/ Special(Get(sg.apk, n)) THEN t[f][n] ELSE SignApk(t[f][n], sg.apk[n])]
  IN IF ~(recognized \subseteq DOMAIN sg.apk) \/ None \in Range(signed) THEN None ELSE signed

(* The APKs in the payload; the payload is made anew when one was signed.    *)
SignContentsInPayload(apex) == [n \in DOMAIN apex.apks |-> IF Special(sg.apk[n]) THEN apex.apks[n] ELSE SignFile(apex.apks[n], sg.apk[n])]
ProcessApexFile(apex) ==
  IF ~(DOMAIN apex.apks \subseteq DOMAIN sg.apk) THEN None
  ELSE LET apks == SignContentsInPayload(apex) IN IF None \in Range(apks) THEN None ELSE [apex EXCEPT !.apks = apks]

SignUncompressedApex(apex, keys) ==
  LET inner == ProcessApexFile(apex)
  IN IF inner = None THEN None
     ELSE [inner EXCEPT !.payload = keys.payload, !.pubkey = keys.payload, !.container = keys.container, !.tool = keys.tool]
SignApex(apex, keys) ==
  LET signed == SignUncompressedApex(apex, keys)
  IN IF signed = None \/ ~apex.compressed THEN signed ELSE [signed EXCEPT !.outer = keys.container]

SignApexes(f) ==
  LET signed == [n \in DOMAIN t[f] |-> IF Special(sg.apex[n].payload) \/ Special(sg.apex[n].container) THEN t[f][n]
                                       ELSE SignApex(t[f][n], sg.apex[n])]
  IN IF None \in Range(signed) THEN None ELSE signed

OtaImagesBackwards(ota, is4k) ==
  [p \in ota.partitions |->
     LET signed == Get(sg.out, Img(p))
         big == Get(t, <<"IMAGES", IF p = "boot" THEN "boot_16k" ELSE "dtbo_16k">>)
     IN IF ~ota.incremental \/ big = None THEN <<signed>> ELSE IF is4k THEN <<signed, big>> ELSE <<big, signed>>]

(* A boot OTA leads to the images just signed, or from one to the other.  A *)
(* package that needs none is left empty, and an empty one cannot be signed. *)
OtaImages(ota, is4k) ==
  [p \in ota.partitions |->
     LET signed == Get(sg.out, Img(p))
         big == Get(t, <<"IMAGES", IF p = "boot" THEN "boot_16k" ELSE "dtbo_16k">>)
     IN IF ~ota.incremental \/ big = None THEN <<signed>> ELSE IF is4k THEN <<big, signed>> ELSE <<signed, big>>]
RegenerateBootOTA(f) ==
  LET ota == t[f]
      is4k == f[2] = "boot_ota_4k"
  IN IF \/ f[1] \notin {"system", "vendor"} \/ (~is4k /\ ~ota.incremental)
        \/ \E p \in ota.partitions \union {"boot"} : Img(p) \notin DOMAIN sg.out
     THEN None ELSE [ota EXCEPT !.images = OtaImages(ota, is4k), !.key = sg.package_key]

RewriteProps(props) == [props EXCEPT !.fingerprint = NewFingerprint(@)]

(* One mapping after the other, so that a certificate is replaced again by  *)
(* one added later; a certificate that cannot be read is left.              *)
ReplaceCerts(signers) ==
  LET usable == {k \in DOMAIN sg.keyMap : {k, sg.keyMap[k]} \subseteq so.certs}
      replaced[k \in usable] ==
        IF sg.keyMap[k] \in usable /\ AddedBefore(info, k, sg.keyMap[k]) THEN replaced[sg.keyMap[k]] ELSE sg.keyMap[k]
      new == [n \in DOMAIN signers |-> IF signers[n] \in usable THEN replaced[signers[n]] ELSE signers[n]]
  IN IF Cardinality(Range(new)) < Cardinality(DOMAIN new) THEN None ELSE new

VirtApex == <<"apex", "virt">>
PvmfwKey ==
  LET keys == sg.apex[VirtApex]
      file == CHOOSE g \in DOMAIN t : g[2] = "apex" /\ VirtApex \in DOMAIN t[g]
  IN IF keys.payload = Presigned THEN t[file][VirtApex].microdroid ELSE keys.payload
EmbeddedKey == <<"PREBUILT_IMAGES", "pvmfw_embedded">>
(* The key pvmfw trusts; without virt APEX nothing is copied at all.         *)
UpdatePvmfw(f) ==
  IF PvmfwKey = None THEN t[f]
  ELSE IF Get(t, EmbeddedKey) # t[f].embedded THEN None ELSE [t[f] EXCEPT !.embedded = PvmfwKey]

Firmware(f) == OrElse(Get(t, <<"SIGNED_PREBUILTS", "ap-ec-fw-signed">>), t[f])
ReplaceKeyInAvbHashtreeFooter(image) ==
  IF "vendor" \in DOMAIN so.avb_keys THEN [image EXCEPT !.key = so.avb_keys["vendor"]] ELSE None
\* Without extra arguments for APEXes there is nothing to split.
ResignDesktopTrusty(image) ==
  IF <<"apex", "google.virt">> \in DOMAIN so.extra_apex_payload_keys /\ "apex" \in so.avb_extra_args
  THEN [image EXCEPT !.key = so.extra_apex_payload_keys[<<"apex", "google.virt">>]] ELSE None

Refused(f) == f = <<"boot", "force_debuggable">> \/ (f[2] = "userdebug_plat_sepolicy" /\ ~so.allow_gsi_debug_sepolicy)
RecoveryFilesOfSystem == {<<"system", "recovery_patch">>}

RecoveryFiles == {<<"system", "recovery_patch">>, <<"vendor", "recovery_patch">>}

OtaImg == {<<"OTA", n>> : n \in {"recovery-two-step", "super_split"}}
LeftOut ==
  {f \in DOMAIN t :
     \/ f[1] \in {"IMAGES", "SIGNED_PREBUILTS"} \/ f \in OtaImg \union RecoveryFiles
     \/ f[2] = "otacerts" /\ so.replace_ota_keys
     \/ f \in {Meta(n) : n \in {"misc_info", "vbmeta_digest", "care_map", "apex_info"}}
     \/ f[1] = "boot/avb" /\ f[2] \in so.remove_avb_public_keys
     \/ f[2] = "system_other_avbpubkey" /\ "system_other" \notin DOMAIN so.avb_keys
     \/ f = <<"PREBUILT_IMAGES", "pvmfw">> /\ VirtApex \notin Installed("apex")
     \/ f = EmbeddedKey}

NewEntry(f) ==
  CASE Refused(f) -> None
    [] f[2] = "apk" -> SignApks(f)
    [] f[2] = "apex" -> SignApexes(f)
    [] f[2] \in {"boot_ota_4k", "boot_ota_16k", "ota"} -> RegenerateBootOTA(f)
    [] f[2] = "build.prop" -> RewriteProps(t[f])
    [] f[2] = "mac_permissions" -> ReplaceCerts(t[f])
    [] f[2] = "system_other_avbpubkey" -> so.avb_keys["system_other"]
    [] f = <<"PREBUILT_IMAGES", "pvmfw">> -> UpdatePvmfw(f)
    [] f[2] = "ap-ec-fw" -> Firmware(f)
    [] f[2] = "microdroid_vendor" -> ReplaceKeyInAvbHashtreeFooter(t[f])
    [] f[2] = "desktop_trusty" -> ResignDesktopTrusty(t[f])
    [] OTHER -> t[f]

ProcessTargetFiles ==
  /\ pc = "entries"
  /\ LET entries == [f \in DOMAIN t \ LeftOut |-> NewEntry(f)]
         pvmfw == <<"PREBUILT_IMAGES", "pvmfw">>
         embedded == IF pvmfw \in DOMAIN entries /\ PvmfwKey # None THEN EmbeddedKey <: PvmfwKey ELSE <<>>
     IN IF None \in Range(entries) THEN pc' = "failed" /\ sg' = sg
        ELSE /\ pc' = "ota_keys"
             /\ sg' = [sg EXCEPT !.out = entries ++ embedded ++ sg.out,
                                 !.rebuild_recovery = RecoveryFiles \intersect DOMAIN t # {}]
  /\ UNCHANGED <<job, imgVars>>

KeysAsListed(keys) == keys

(* The certificates the device accepts updates with.                         *)
MappedKeys(keys) == {Mapped(sg.keyMap, k) : k \in keys}
OtaKeys ==
  LET listed == t[Meta("otakeys")]
      devkey == OrElse(Get(info, <<"default_system_dev_certificate">>), DefaultCertificate)
  IN IF listed # {} THEN MappedKeys(listed) ELSE {Mapped(sg.keyMap, devkey)}
ExtraKeys(name) == MappedKeys(OrElse(Get(info, <<name>>), {}))
WriteOtacerts(dir) == OtaKeys \union ExtraKeys(IF dir \in {"boot", "recovery", "vendor_boot"} THEN "extra_recovery_keys" ELSE "extra_ota_keys")
ReplaceMiscInfoTxt(misc) == Restrict(misc, DOMAIN t[Meta("misc_info")])

ReplaceOtaKeys ==
  /\ pc = "ota_keys"
  /\ LET wanted == so.replace_ota_keys
         missing == Meta("otakeys") \notin DOMAIN t \/ ~(OtaKeys \union ExtraKeys("extra_ota_keys") \union ExtraKeys("extra_recovery_keys") \subseteq so.certs)
         certs == IF wanted THEN [f \in {g \in DOMAIN t : g[2] = "otacerts"} |-> WriteOtacerts(f[1])] ELSE <<>>
         devcert == <<"default_system_dev_certificate">>
         misc == IF wanted /\ t[Meta("otakeys")] = {} /\ Get(info, devcert) # None
                 THEN [info EXCEPT ![devcert] = Mapped(sg.keyMap, @)] ELSE info
     IN IF wanted /\ missing THEN pc' = "failed" /\ UNCHANGED sg
        ELSE /\ pc' = "vendor"
             /\ sg' = [sg EXCEPT !.out = (Meta("misc_info") <: ReplaceMiscInfoTxt(misc)) ++ certs ++ @]
  /\ UNCHANGED <<job, imgVars>>

-----------------------------------------------------------------------------
(* Images: those the vendor's tools have to make, then all that are missing. *)

VendorPartitions == so.vendor_partitions \intersect {"vendor", "odm"}
Disabled ==
  [k \in {<<"has", "dtbo">>, <<"has", "pvmfw">>, <<"avb_building_vbmeta_image">>, <<"use_dynamic_partitions">>} |-> "false"]
  ++ [k \in {<<"avb_custom_images_partition_list">>, <<"custom_images_partition_list">>, <<"avb_vbmeta", "system">>} |-> {}]
  ++ (IF sg.rebuild_recovery THEN <<>>
      ELSE [k \in {<<"no_boot">>, <<"no_recovery">>} |-> "true"] ++ [k \in {<<"vendor_boot">>, <<"avb_enable">>} |-> "false"])
Placeholder == [type |-> "placeholder", footer |-> FALSE]

SignOptions == [Defaults EXCEPT !.is_signing = TRUE, !.add_missing = TRUE, !.rebuild_recovery = sg.rebuild_recovery]

BuildVendorPartitions ==
  /\ pc = "vendor" /\ so.vendor_partitions # {} /\ so.vendor_tools
  /\ LET taken == {f \in DOMAIN sg.out : \/ f[1] \in {"META", "META/fs_config", "recovery", "boot"} \union VendorPartitions
                                         \/ f = <<"system", "build.prop">>}
         left == taken \ {Meta("ab_partitions"), Meta("pack_radioimages")}
     IN t' = (Img("system") <: Placeholder) ++ (Meta("misc_info") <: (Disabled ++ sg.out[Meta("misc_info")])) ++ Restrict(sg.out, left)
  /\ sg' = [sg EXCEPT !.nested = TRUE] /\ StartAddImages(SignOptions)
  /\ UNCHANGED job

TakeVendorImages ==
  /\ pc = "added" /\ job.kind = "sign" /\ sg.nested
  /\ LET wanted == {Img(p) : p \in VendorPartitions}
                   \union (IF sg.rebuild_recovery THEN {Img("recovery"), Img("boot"), <<"vendor", "recovery_patch">>} ELSE {})
     IN IF wanted \subseteq DOMAIN t
        THEN /\ t' = Restrict(t, wanted) ++ sg.out /\ sg' = [sg EXCEPT !.nested = FALSE]
             /\ StartAddImages([SignOptions EXCEPT !.zip = TRUE])
        ELSE pc' = "failed" /\ UNCHANGED <<imgVars, sg>>
  /\ UNCHANGED job

AddMissingImages ==
  /\ pc = "vendor" /\ ~(so.vendor_partitions # {} /\ so.vendor_tools)
  /\ t' = sg.out /\ StartAddImages([SignOptions EXCEPT !.zip = TRUE])
  /\ UNCHANGED <<job, sg>>

SignDone ==
  /\ pc = "added" /\ job.kind = "sign" /\ ~sg.nested /\ pc' = "signed"
  /\ UNCHANGED <<job, imgVars, sg>>

Sign ==
  \/ LoadKeys \/ GetKeyPasswords \/ UpdatePasswords \/ RefusePasswords \/ ReplaceKeys \/ RegenerateKernelPartitions
  \/ ProcessTargetFiles \/ ReplaceOtaKeys \/ BuildVendorPartitions \/ TakeVendorImages \/ AddMissingImages \/ SignDone

SignInit ==
  sg = [keyMap |-> <<>>, apk |-> <<>>, apex |-> <<>>, ext |-> None, passwords |-> {}, asked |-> FALSE, package_key |-> None,
        out |-> <<>>, rebuild_recovery |-> FALSE, nested |-> FALSE]
=============================================================================
