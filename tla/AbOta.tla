-------------------------------- MODULE AbOta --------------------------------
(* ota_from_target_files.py: from the options and the target-files of one   *)
(* build, or of two, to a signed A/B package.  A job is one invocation:     *)
(* its options `opt`, the target build `tgt`, the source build `src` (None  *)
(* for a full package), and what the signer does to the zip.  OPTIONS is    *)
(* global and is rewritten on the way; `o` is what it has become.           *)
(*                                                                          *)
(* A build has, besides what BuildInfo reads: ts and partTs (build dates,   *)
(* partTs only for partitions with a build.prop), spl (security patch       *)
(* level), ab (the A/B partitions), images, groups (dynamic partition       *)
(* lists), care_map, postinstall, apex (versions), and the flags of the     *)
(* update engine and of virtual A/B compression.                            *)
EXTENDS BuildInfo, OtaMetadata, FiniteSetsExt

CONSTANTS Jobs,
          WithBuildProp,    \* PARTITIONS_WITH_BUILD_PROP
          Skipped,          \* SECONDARY_PAYLOAD_SKIPPED_IMAGES
          Occurs,           \* <<p, q>>: the name p occurs in the text of q
          EndsWith          \* <<p, q>>: the name q ends with "_" and p

VARIABLES pc, job, o,
          tf,       \* the extracted target-files of the target, as edited
          payloads, \* <<>>, <<primary>> or <<primary, secondary>>
          meta, zip, strings, redone

(* What the options and the builds of a job consist of.                     *)
OptionFields ==
  {"flag", "spl_downgrade", "wipe", "vabc_downgrade", "partial", "secondary", "skip_postinstall", "xor", "cow",
   "compression", "minor", "full", "custom", "zucchini", "lz4diff", "payload_signer", "max_signature", "no_signing",
   "key", "force_non_ab"}
BuildFields ==
  {"info", "ts", "partTs", "spl", "releaseKeys", "dynamic", "allowNonAb", "ab", "images", "groups", "care_map",
   "postinstall", "partialList", "apex", "minor", "zucchini", "lz4", "erofs", "avb", "virtualAb", "vabc", "xor", "cow",
   "compression", "suppressed", "r", "abUpdate"}

(* The compression methods and the vendor API levels that support them.     *)
Support == [none |-> 31, gz |-> 31, brotli |-> 31, lz4 |-> 34, zstd |-> 35]

(* Dates and versions of the cow format are decimal numerals, which the     *)
(* code compares as text or as numbers, as said at each place; the versions *)
(* that a build states begin with 2 (0: it states none).  A method is one   *)
(* the tool knows.  The signer has a place for each entry.                  *)
ASSUME JobsAssumption ==
  \A j \in Jobs :
    /\ DOMAIN j.opt = OptionFields
    /\ \A b \in {j.tgt, j.src} \ {None} :
         /\ DOMAIN b = BuildFields
         /\ b.ts \in Nat /\ b.minor \in Int /\ b.cow \in Nat \ {1}
         /\ b.info.boardApiLevel \in Int /\ b.info.productApiLevel \in Int
         /\ b.compression \in DOMAIN Support \union {""}
         /\ \A p \in DOMAIN b.partTs : b.partTs[p] \in Nat
    /\ j.tgt # None
    /\ j.order \in Seq(EntryNames) /\ EntryNames \subseteq ToSet(j.order)

vars == <<pc, job, o, tf, payloads, meta, zip, strings, redone>>

src == job.src
tgt == job.tgt
Incremental == job.src # None

Restricted(f, S) == [x \in DOMAIN f \intersect S |-> f[x]]
NoMeta == [downgrade |-> FALSE]

(* Numerals as Python compares strings: at the first digit that differs,    *)
(* else the shorter first.  Of equal length they compare as the numbers do, *)
(* but "100" is less than "99".                                             *)
SameLength(a, b) == Digits(a) = Digits(b)
StringLess(a, b) ==
  IF SameLength(a, b) THEN a < b
  ELSE LET w == Max({Digits(a), Digits(b)})
           x == a * 10^(w - Digits(a))
           y == b * 10^(w - Digits(b))
       IN  x < y \/ (x = y /\ Digits(a) < Digits(b))
MaxString(a, b) == IF StringLess(a, b) THEN b ELSE a
MinString(a, b) == IF StringLess(b, a) THEN b ELSE a

TypeOK ==
  /\ job \in Jobs
  /\ pc \in {"main", "features", "partial", "edit", "metadata", "generate", "sign", "write", "secondary", "extras",
             "compute", "finalize", "replace", "verify", "done",
             "raised", "insufficient", "same_file", "mismatch"}
  /\ Len(payloads) \in 0..2 /\ redone \in BOOLEAN

Init ==
  /\ pc = "main" /\ job \in Jobs
  /\ o = Overlay(job.opt, [disable_vabc |-> FALSE, downgrade |-> FALSE, srcAb |-> {}, signs |-> FALSE])
  /\ tf = tgt
  /\ payloads = <<>> /\ meta = NoMeta /\ zip = <<>> /\ strings = <<>> /\ redone = FALSE

Raise == pc' = "raised" /\ UNCHANGED <<job, o, tf, payloads, meta, zip, strings, redone>>

(***************************************************************************)
(* main                                                                    *)
(***************************************************************************)

(* What an option stands for: --downgrade and --spl_downgrade also wipe.   *)
OptionHandler(opt) ==
  [opt EXCEPT !.downgrade = opt.flag # "",
              !.wipe = @ \/ opt.flag = "downgrade" \/ opt.spl_downgrade]

WipeDisablesVabc(opt) ==
  [opt EXCEPT !.disable_vabc = @ \/ (opt.wipe /\ ~opt.vabc_downgrade)]

IsSplDowngrade == Incremental /\ tgt.spl < src.spl

(* The reasons for which main gives up. *)
SplRefused(opt) ==
  /\ Incremental
  /\ \/ IsSplDowngrade /\ tgt.releaseKeys
     \/ IsSplDowngrade /\ ~opt.spl_downgrade /\ ~opt.downgrade
     \/ ~IsSplDowngrade /\ opt.spl_downgrade

MainRefuses(opt) ==
  \/ ~Incremental /\ opt.downgrade
  \/ Incremental /\ ~src.dynamic /\ tgt.dynamic
  \/ opt.force_non_ab /\ ~(tgt.allowNonAb /\ tgt.abUpdate)
  \/ SplRefused(opt)

GenerateAb(opt) == ~opt.force_non_ab /\ job.tgt.abUpdate

(* A list given with --partial also filters the lists of the info dicts.    *)
Filtered(ab, partial) == IF partial \in {None, {}} THEN ab ELSE ab \intersect partial

(* The package is signed unless --no_signing; an A/B package always is.     *)
Signs(opt) == opt.key \/ ~opt.no_signing \/ GenerateAb(opt)

Main ==
  /\ pc = "main"
  /\ LET opt == WipeDisablesVabc(OptionHandler(o))
     IN IF MainRefuses(opt) THEN Raise
        ELSE /\ o' = [opt EXCEPT !.srcAb = IF Incremental THEN Filtered(src.ab, opt.partial) ELSE {},
                                 !.signs = Signs(opt)]
             /\ tf' = tf
             /\ IF GenerateAb(opt)
                THEN pc' = "features" /\ UNCHANGED zip
                ELSE pc' = "compute" /\ zip' = <<Entry("new_dat", job.size), Entry("updater_script", job.size)>>
             /\ UNCHANGED <<job, payloads, meta, strings, redone>>

(***************************************************************************)
(* GenerateAbOtaPackage: which features of the update engine to use.       *)
(***************************************************************************)
(* An explicit parameter the device launched too early for. *)
ValidateCompressionParam(opt) ==
  opt.compression = "" \/ VendorApiLevel(tgt.info) >= Support[opt.compression]

DisableVabc(opt) ==
  opt.disable_vabc \/ (Incremental /\ (~src.vabc \/ ~tgt.vabc)) \/ tgt.suppressed
TargetCompression(opt) == IF opt.compression # "" THEN opt.compression ELSE tgt.compression

(* The compression method the payload is made for. *)
CompressionParam(opt) ==
  CASE opt.compression # "" -> opt.compression
    [] opt.compression = "" /\ Incremental -> src.compression
    [] OTHER -> IF tgt.compression # "" /\ VendorApiLevel(tgt.info) < Support[tgt.compression]
                THEN "gz" ELSE tgt.compression

(* 0 leaves the version of the target's own file.  Versions are strings. *)
CowVersion(opt) ==
  CASE opt.cow # 0 -> opt.cow
    [] Incremental ->
         IF src.cow = 0 \/ tgt.cow = 0 THEN 2
         ELSE IF src.cow # tgt.cow THEN MinString(src.cow, tgt.cow) ELSE 0
    [] OTHER ->
         IF tgt.cow = 0 \/ (~StringLess(tgt.cow, 3) /\ VendorApiLevel(tgt.info) < 35) THEN 2 ELSE 0

(* XOR needs both builds, a vendor of API level 33 and compression. *)
VabcXor(opt) ==
  LET level == IF Incremental /\ VendorApiLevel(src.info) # -1
               THEN VendorApiLevel(src.info) ELSE VendorApiLevel(tgt.info)
  IN  /\ opt.xor /\ tgt.xor /\ ~opt.disable_vabc
      /\ (Incremental => src.xor)
      /\ opt.compression # "none"
      /\ level >= 33

(* Android R has VABC without verity support. *)
SkipVerity(opt) == Incremental /\ ~opt.disable_vabc /\ src.r

(* Source images of partitions named in --full_ota_partitions are removed. *)
SourceImages(opt) == src.images \ opt.full
OldImages(opt) == (SourceImages(opt) \ {opt.custom[p] : p \in DOMAIN opt.custom}) \union DOMAIN opt.custom

ResolveFeatures ==
  /\ pc = "features"
  /\ IF \/ ~ValidateCompressionParam(o) \/ ~Describable(tgt.info, NoValues)
        \/ Incremental /\ ~Describable(src.info, NoValues)
     THEN Raise
     ELSE LET early == [o EXCEPT !.disable_vabc = @ \/ (Incremental /\ (~src.vabc \/ ~tgt.vabc))]
              opt   == [early EXCEPT !.disable_vabc = DisableVabc(o)]
          IN /\ o' = Overlay(opt, [skipVerity |-> SkipVerity(early), useXor |-> VabcXor(opt),
                                   useCompression |-> CompressionParam(o), useCow |-> CowVersion(o)])
             /\ pc' = "partial"
             /\ UNCHANGED <<job, tf, payloads, meta, zip, strings, redone>>

(***************************************************************************)
(* The partial list.  `set(a) and set(b)` is b: when both builds have a    *)
(* list and they differ, the source's is taken.  A build without the key   *)
(* has None, which cannot be split.                                        *)
(***************************************************************************)
Detected ==
  IF Incremental /\ src.partialList # {} /\ src.partialList # tgt.partialList
  THEN src.partialList ELSE tgt.partialList

DetectPartial ==
  /\ pc = "partial"
  /\ IF o.partial = {} /\ (tgt.partialList \in {None, {}} \/ (Incremental /\ src.partialList = None)) THEN Raise
     ELSE /\ o' = [o EXCEPT !.partial = IF @ = {} THEN Detected ELSE @]
          /\ pc' = "edit"
          /\ UNCHANGED <<job, tf, payloads, meta, zip, strings, redone>>

(***************************************************************************)
(* The edits of the extracted target-files, in the order of the code.      *)
(***************************************************************************)

(* A partial list is checked against the text of ab_partitions.txt. *)
Recognized(p, ab) == \E q \in ab : p = q \/ <<p, q>> \in Occurs

UpdatesInfoForSpecialUpdates(groups, keep(_)) ==
  [g \in DOMAIN groups |-> {p \in groups[g] : keep(p)}]
PartialForgetsPostinstall(t, partial) ==
  LET Keep(p) == p \in partial
  IN  [t EXCEPT !.ab = partial, !.care_map = IF @ = None THEN @ ELSE @ \intersect partial,
                !.groups = UpdatesInfoForSpecialUpdates(@, Keep)]

(* A line of the postinstall configuration is kept if its key ends with "_" *)
(* and a listed partition: with boot that of vendor_boot is kept too.       *)
IsInPartialList(q, partial) == q \in partial \/ \E p \in partial : <<p, q>> \in EndsWith

GetTargetFilesZipForPartialUpdates(t, partial) ==
  LET Keep(p) == p \in partial
  IN  [t EXCEPT !.ab = partial,
                !.care_map = IF @ = None THEN @ ELSE @ \intersect partial,
                !.groups = UpdatesInfoForSpecialUpdates(@, Keep),
                !.postinstall = {q \in @ : IsInPartialList(q, partial)}]

CustomImages(t, custom) == [t EXCEPT !.images = (@ \ {custom[p] : p \in DOMAIN custom}) \union DOMAIN custom]

(* compression method, cow version, postinstall *)
ModifyDynamicPartitionInfo(t, opt) ==
  [t EXCEPT !.compression = opt.useCompression,
            !.cow = IF opt.useCow # 0 THEN opt.useCow ELSE @]
WithoutPostinstallConfig(t, opt) == [t EXCEPT !.postinstall = IF opt.skip_postinstall THEN {} ELSE @]

EditTargetFiles ==
  /\ pc = "edit"
  /\ LET images  == UNION {{o.custom[p]} : p \in DOMAIN o.custom}
         missing == \/ ~(images \subseteq tgt.images)
                    \/ Incremental /\ ~(images \subseteq SourceImages(o))
         custom  == CustomImages(tgt, o.custom)
         unknown == o.partial # None /\ \E p \in o.partial : ~Recognized(p, tgt.ab)
         part    == IF o.partial # None THEN GetTargetFilesZipForPartialUpdates(custom, o.partial) ELSE custom
         noInfo  == ~tgt.dynamic /\ (o.useCow # 0 \/ o.useCompression # tgt.compression)
     IN IF missing \/ unknown \/ noInfo THEN Raise
        ELSE /\ tf' = WithoutPostinstallConfig(ModifyDynamicPartitionInfo(part, o), o)
             /\ pc' = "metadata"
             /\ UNCHANGED <<job, o, payloads, meta, zip, strings, redone>>

(***************************************************************************)
(* The metadata.                                                           *)
(***************************************************************************)
PartitionStates(build, ab) == Restricted(build.partTs, ab \intersect WithBuildProp)

(* Partitions whose build date goes back; the source's list decides. *)
Downgrades ==
  {p \in DOMAIN src.partTs \intersect DOMAIN tgt.partTs \intersect o.srcAb \intersect WithBuildProp :
     tgt.partTs[p] < src.partTs[p]}

DowngradeOfBuildOnly == tgt.ts < src.ts

HandleDowngradeMetadata == tgt.ts < src.ts \/ Downgrades # {}

UpdateDeviceState(build, ab) ==
  [device |-> RuntimeDevices(build.info, job.variables), build |-> RuntimeFingerprints(build.info, job.variables),
   state |-> PartitionStates(build, ab),
   prints |-> [p \in DOMAIN PartitionStates(build, ab) |->
                 {CalculatePartitionFingerprint(build.info, v, p) : v \in ComputeRuntimeBuildInfos(job.variables)}]]

GetPackageMetadata ==
  [post |-> UpdateDeviceState(tgt, tf.ab),
   pre  |-> IF Incremental THEN UpdateDeviceState(src, o.srcAb)
            ELSE [device |-> RuntimeDevices(tgt.info, job.variables), build |-> {}, state |-> <<>>, prints |-> <<>>],
   wipe |-> o.wipe, downgrade |-> Incremental /\ o.downgrade, spl_downgrade |-> Incremental /\ o.spl_downgrade]

(* Every combination of boot variables is loaded; a bad file stops it.     *)
LoadsAll == \A v \in ComputeRuntimeBuildInfos(job.variables) :
              Describable(tgt.info, v) /\ (Incremental => Describable(src.info, v))

MakeMetadata ==
  /\ pc = "metadata"
  /\ IF ~LoadsAll \/ (Incremental /\ o.downgrade # HandleDowngradeMetadata) THEN Raise
     ELSE /\ meta' = GetPackageMetadata
          /\ pc' = "generate"
          /\ UNCHANGED <<job, o, tf, payloads, zip, strings, redone>>

(***************************************************************************)
(* The payloads.                                                           *)
(***************************************************************************)
(* The largest date of both builds, as text. *)
MaxTimestamp == IF o.downgrade THEN MaxString(src.ts, tgt.ts) ELSE tgt.ts

GeneratePartitionTimestampFlags == meta.post.state
GeneratePartitionTimestampFlagsDowngrade ==
  [p \in DOMAIN meta.post.state |->
     IF p \in DOMAIN meta.pre.state THEN MaxString(meta.pre.state[p], meta.post.state[p]) ELSE meta.post.state[p]]

TimestampFlags ==
  IF o.downgrade THEN GeneratePartitionTimestampFlagsDowngrade ELSE GeneratePartitionTimestampFlags

IsZucchiniCompatible == Incremental /\ src.zucchini # 0 /\ src.zucchini = tgt.zucchini
IsLz4diffCompatible == Incremental /\ src.lz4

(* LocatePartitionPath: a partition of the target without image is an error. *)
Located(t) == t.ab \subseteq t.images

MinorVersion ==
  CASE o.minor # 0 -> o.minor [] Incremental -> src.minor [] OTHER -> tgt.minor

PrimaryPayload ==
  [secondary |-> FALSE, partitions |-> tf.ab, timestamp |-> MaxTimestamp, flags |-> TimestampFlags,
   old |-> IF Incremental THEN tf.ab \intersect OldImages(o) ELSE {},
   image |-> [p \in tf.ab |-> p],
   groups |-> tf.groups, postinstall |-> tf.postinstall, snapshots |-> tf.virtualAb, vabc |-> tf.vabc, cow |-> tf.cow,
   compression |-> tf.compression, xor |-> o.useXor, minor |-> IF Incremental \/ o.partial # None THEN MinorVersion ELSE 0,
   zucchini |-> o.zucchini /\ IsZucchiniCompatible, lz4diff |-> o.lz4diff /\ IsLz4diffCompatible,
   verity |-> ~o.skipVerity,
   powerwash |-> o.wipe, spl_downgrade |-> o.spl_downgrade, signed |-> FALSE]

Generate ==
  /\ pc = "generate"
  /\ IF ~Located(tf) \/ (o.lz4diff /\ IsLz4diffCompatible /\ ~tgt.erofs) THEN Raise
     ELSE /\ payloads' = <<PrimaryPayload>>
          /\ pc' = "sign"
          /\ UNCHANGED <<job, o, tf, meta, zip, strings, redone>>

(* Room for the signature: that of the key with openssl, what the options   *)
(* say or 256 bytes with another signer.                                    *)
MaximumSignatureSize ==
  CASE ~o.payload_signer -> job.keySize [] o.max_signature # 0 -> o.max_signature [] OTHER -> 256

(* The hashes of payload and metadata are taken with that room left, signed *)
(* and put back; a longer signature does not fit.                           *)
SignPayload(p) == [p EXCEPT !.signed = TRUE]

Sign ==
  /\ pc = "sign"
  /\ IF job.keySize > MaximumSignatureSize THEN Raise
     ELSE /\ payloads' = [i \in DOMAIN payloads |-> SignPayload(payloads[i])]
          /\ pc' = "write"
          /\ UNCHANGED <<job, o, tf, meta, zip, strings, redone>>

WriteToZip ==
  /\ pc = "write"
  /\ zip' = <<Entry("payload", job.size), Entry("payload_properties", 200)>>
  /\ pc' = IF o.secondary THEN "secondary" ELSE "extras"
  /\ UNCHANGED <<job, o, tf, payloads, meta, strings, redone>>

(* The files of the other slot: system_other takes the place of system, the *)
(* skipped partitions leave every list.  The key virtual_ab is deleted, so  *)
(* that no snapshots are used; virtual_ab_compression stays.                *)
GetTargetFilesZipForSecondaryImages(t, skip_postinstall) ==
  LET Keep(p) == p \notin Skipped
  IN  [t EXCEPT !.ab = {p \in @ : Keep(p)},
                !.images = ({p \in @ : Keep(p)} \ {"system", "system_other"})
                           \union IF "system_other" \in @ THEN {"system"} ELSE {},
                !.groups = UpdatesInfoForSpecialUpdates(@, Keep),
                !.postinstall = IF skip_postinstall THEN {} ELSE @,
                !.virtualAb = FALSE]

(* The second payload is a full one, without flags of its own.              *)
SecondaryPayload(t) ==
  [PrimaryPayload EXCEPT !.secondary = TRUE, !.partitions = t.ab, !.flags = <<>>, !.old = {},
     !.image = [p \in t.ab |-> IF p = "system" THEN "system_other" ELSE p],
     !.groups = t.groups, !.postinstall = t.postinstall, !.snapshots = t.virtualAb, !.vabc = t.vabc, !.xor = FALSE,
     !.minor = 0, !.zucchini = FALSE, !.lz4diff = FALSE, !.powerwash = FALSE,
     !.verity = TRUE, !.spl_downgrade = FALSE]

GenerateSecondary ==
  /\ pc = "secondary"
  /\ LET t == GetTargetFilesZipForSecondaryImages(tf, o.skip_postinstall)
     IN IF ~Located(t) THEN Raise
        ELSE /\ payloads' = Append(payloads, SignPayload(SecondaryPayload(t)))
             /\ zip' = zip \o <<Entry("secondary_payload", job.size),
                                Entry("secondary_payload_properties", 200)>>
             /\ pc' = "extras"
             /\ UNCHANGED <<job, o, tf, meta, strings, redone>>

(* Versions of the apexes, with the source's where it has the package. *)
ConstructOtaApexInfo ==
  [a \in DOMAIN tgt.apex |->
     [version |-> tgt.apex[a],
      source |-> IF Incremental /\ a \in DOMAIN src.apex THEN src.apex[a] ELSE 0]]

AddExtras ==
  /\ pc = "extras"
  /\ zip' = zip
       \o (IF tgt.avb /\ tf.care_map # None THEN <<Entry("care_map", job.small)>> ELSE <<>>)
       \o (IF DOMAIN tgt.apex # {} THEN <<Entry("apex_info", job.small)>> ELSE <<>>)
  /\ meta' = Overlay([apex |-> ConstructOtaApexInfo], meta)
  /\ pc' = "compute"
  /\ UNCHANGED <<job, o, tf, payloads, strings, redone>>

(***************************************************************************)
(* FinalizeMetadata                                                        *)
(***************************************************************************)
Kinds == IF GenerateAb(o) THEN <<AbOtaPropertyFiles, Streaming>> ELSE <<NonAbOtaPropertyFiles>>

(* Preliminary signing, with the room reserved. *)
ComputeAllPropertyFiles ==
  /\ pc = "compute"
  /\ strings' = [i \in DOMAIN Kinds |-> GetPropertyFilesString(Kinds[i], zip, job.head, TRUE)]
  /\ LET written == WriteMetadata(ZipDelete(zip, MetadataEntries), strings', job.base)
     IN  zip' = IF o.signs THEN SignOutput(written, job.order) ELSE written
  /\ pc' = "finalize"
  /\ UNCHANGED <<job, o, tf, payloads, meta, redone>>

(* The first insufficient room redoes the preliminary signing, based on the *)
(* ordered zip; a second one is an error.                                   *)
FinalizeAllPropertyFiles ==
  /\ pc = "finalize"
  /\ LET final == [i \in DOMAIN Kinds |-> FinalizeString(Kinds[i], zip, job.head, strings[i].length)]
         short == {i \in DOMAIN Kinds : final[i] = InsufficientSpace}
     IN IF short = {} THEN strings' = final /\ pc' = "replace" /\ UNCHANGED redone
        ELSE /\ redone' = TRUE /\ pc' = IF redone THEN "insufficient" ELSE "compute"
             /\ strings' = [i \in DOMAIN Kinds |-> IF \E j \in short : j <= i THEN strings[i] ELSE final[i]]
  /\ UNCHANGED <<job, o, tf, payloads, meta, zip>>

(* The final metadata and the final signature.  Without signing the staging *)
(* file is the output file itself, which shutil.copy refuses.               *)
ReplaceMetadata ==
  /\ pc = "replace"
  /\ LET written == WriteMetadata(ZipDelete(zip, MetadataEntries), strings, job.base)
     IN IF o.signs THEN zip' = SignOutput(written, job.order) /\ pc' = "verify"
        ELSE zip' = written /\ pc' = "same_file"
  /\ UNCHANGED <<job, o, tf, payloads, meta, strings, redone>>

Verify ==
  /\ pc = "verify"
  /\ pc' = IF Describes(strings, Kinds, zip, job.head) THEN "done" ELSE "mismatch"
  /\ UNCHANGED <<job, o, tf, payloads, meta, zip, strings, redone>>

Next ==
  \/ Main \/ ResolveFeatures \/ DetectPartial \/ EditTargetFiles \/ MakeMetadata \/ Generate \/ Sign \/ WriteToZip
  \/ GenerateSecondary \/ AddExtras \/ ComputeAllPropertyFiles \/ FinalizeAllPropertyFiles \/ ReplaceMetadata \/ Verify

Spec == Init /\ [][Next]_vars

(***************************************************************************)
(* Properties                                                              *)
(***************************************************************************)
Packaged == pc = "done" /\ GenerateAb(o)

(* FinalizeMetadata (ota_utils.py:66): the fifteen characters reserved for  *)
(* each metadata token are enough in each layout of the jobs, so the second *)
(* pass never runs out of room; the final check never fails; and the        *)
(* strings of a finished package give the place of each entry of that same  *)
(* package.                                                                 *)
PackageDescribesItself ==
  /\ pc \notin {"insufficient", "mismatch"}
  /\ pc = "done" =>
       \A i \in DOMAIN Kinds : \A k \in DOMAIN strings[i].tokens :
         LET t == strings[i].tokens[k]
             n == IF t.name = "payload_metadata" THEN "payload" ELSE t.name
         IN  /\ n \in Names(zip)
             /\ t.offset = GetZipEntryOffset(zip, At(zip, n))
             /\ t.size = IF n = t.name THEN zip[At(zip, n)].size ELSE job.head

(* GetPackageMetadata, HandleDowngradeMetadata and the timestamp flags: a   *)
(* device that runs the source build is not refused the package for its     *)
(* build dates, whichever values its boot variables have, and a package     *)
(* that takes it back to an older build or patch level says so.             *)
(* Exempt are the dates of a downgrade that have different lengths: there   *)
(* the greater of two strings is written (ota_from_target_files.py:731,     *)
(* 963), which may be the older date, and the device refuses the package.   *)
DeviceAccepts ==
  Packaged /\ Incremental =>
    LET p == payloads[1] IN
    /\ ~o.downgrade \/ SameLength(src.ts, tgt.ts) => p.timestamp >= src.ts
    /\ DOMAIN p.flags \subseteq p.partitions
    /\ \A q \in DOMAIN p.flags \intersect DOMAIN src.partTs \intersect src.ab :
         ~o.downgrade \/ SameLength(src.partTs[q], tgt.partTs[q]) => p.flags[q] >= src.partTs[q]
    /\ \A v \in BootCombinations(job.variables) : CalculateFingerprint(src.info, v) \in meta.pre.build
    /\ (tgt.ts < src.ts \/ \E q \in DOMAIN p.flags \intersect DOMAIN src.partTs \intersect src.ab :
                              tgt.partTs[q] < src.partTs[q]) => meta.downgrade
    /\ IsSplDowngrade => ~tgt.releaseKeys /\ (meta.spl_downgrade \/ meta.downgrade)

(* GenerateAbOtaPackage: what is not forced on the command line is within   *)
(* what the build that installs the package can do: the source build, or,   *)
(* for a full package, any build the device has launched with.  Two         *)
(* exceptions.  Versions of the cow format are compared as strings, so      *)
(* nothing is said of versions of different lengths.  And disabling VABC    *)
(* (lines 798, 888, 1298) only sets OPTIONS.disable_vabc, which no argument *)
(* of the payload generator follows: the payload keeps the compression flag *)
(* of the target's own files.  What is shown is that the source supports    *)
(* VABC where it was not disabled, and that XOR is off where it was.        *)
InstallerUnderstands ==
  Packaged =>
    LET p == payloads[1] IN
    /\ Incremental =>
         /\ job.opt.compression = "" => p.compression = src.compression
         /\ job.opt.cow = 0 /\ SameLength(src.cow, tgt.cow) => p.cow <= (IF src.cow = 0 THEN 2 ELSE src.cow)
         /\ job.opt.minor = 0 => p.minor <= src.minor
         /\ p.vabc /\ ~o.disable_vabc => src.vabc
         /\ p.xor => src.xor /\ src.vabc /\ tgt.vabc /\ ~o.disable_vabc
         /\ p.lz4diff => src.lz4
    /\ ~Incremental =>
         /\ (p.compression # "" /\ p.compression # "gz") => VendorApiLevel(tgt.info) >= Support[p.compression]
         /\ (job.opt.cow = 0 /\ p.cow >= 3 /\ SameLength(tgt.cow, 3)) => VendorApiLevel(tgt.info) >= 35

(* GetTargetFilesZipForPartialUpdates and ...ForSecondaryImages: nothing in *)
(* a package mentions a partition it does not update, each partition has    *)
(* an image, and the second payload holds system_other, no partition of the *)
(* running system and no use of snapshots.  Exempt is the postinstall       *)
(* configuration of a partition whose name ends with "_" and an updated     *)
(* partition, which the filter (ota_from_target_files.py:667) lets through. *)
ListsAgree ==
  Packaged =>
    LET p == payloads[1] IN
    /\ \A i \in DOMAIN payloads : payloads[i].signed
    /\ \A q \in p.partitions : p.image[q] \in tf.images
    /\ o.partial # None =>
         /\ \A q \in p.postinstall : q \in p.partitions \/ \E r \in p.partitions : <<r, q>> \in EndsWith
         /\ \A g \in DOMAIN p.groups : p.groups[g] \subseteq p.partitions
         /\ tf.care_map # None => tf.care_map \subseteq p.partitions
    /\ Len(payloads) = 2 =>
         LET q == payloads[2] IN
         /\ q.partitions \intersect Skipped = {} /\ q.partitions \subseteq p.partitions /\ ~q.snapshots
         /\ "system" \in q.partitions => q.image["system"] = "system_other" /\ "system_other" \in tf.images
         /\ \A g \in DOMAIN q.groups : q.groups[g] \intersect Skipped = {}
=============================================================================
