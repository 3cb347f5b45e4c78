----------------------------- MODULE TargetFiles -----------------------------
(* A target-files package: a function from files <<directory, name>> to     *)
(* values.  The directory of a partition has the partition's name; the      *)
(* files that belong together are one file here.  A dictionary of the build *)
(* (META/misc_info.txt, the info dict) is a function from keys, sequences   *)
(* of words such as <<"avb_key_path", "vendor">>, to values.                *)
EXTENDS Integers, Sequences, FiniteSets, FiniteSetsExt, SequencesExt, Functions, TLC

CONSTANT None

(* As @@ and :> of module TLC, written out for the sake of proofs: f over g, *)
(* and the dictionary that has one key.                                      *)
f ++ g == [x \in DOMAIN f \union DOMAIN g |-> IF x \in DOMAIN f THEN f[x] ELSE g[x]]
k <: v == [x \in {k} |-> v]

Get(d, k) == IF k \in DOMAIN d THEN d[k] ELSE None
True(d, k) == Get(d, k) = "true"
Without(d, S) == Restrict(d, DOMAIN d \ S)

Files(t, dir) == {f \in DOMAIN t : f[1] = dir}
IsDir(t, dir) == Files(t, dir) # {}
Content(t, dir) == [n \in {f[2] : f \in Files(t, dir)} |-> t[<<dir, n>>]]

Img(p) == <<"IMAGES", p>>
Meta(n) == <<"META", n>>
FsConfig(p) == <<"META/fs_config", p>>

RepackedPartitions == {"system", "vendor", "system_ext", "product", "odm", "vendor_dlkm", "odm_dlkm", "system_dlkm"}
PartitionsWithCareMap == {"system", "vendor", "product", "system_ext", "odm", "vendor_dlkm", "odm_dlkm", "system_dlkm"}
AvbPartitions == {"boot", "init_boot", "dtbo", "odm", "product", "pvmfw", "recovery", "system", "system_ext", "vendor",
                  "vendor_boot", "vendor_kernel_boot", "vendor_dlkm", "odm_dlkm", "system_dlkm"}

(* The files META keeps of what the build kept elsewhere: file contexts     *)
(* must be there, base file systems and compression hints may be missing.   *)
FcKeys(d) == {k \in DOMAIN d : k[1] = "selinux_fc"}
OptionalFileKeys(d) == {k \in DOMAIN d : k[1] \in {"base_fs_file", "erofs_compress_hints"}}
MissingFiles(t, d) == {k \in OptionalFileKeys(d) : Meta(d[k]) \notin DOMAIN t}
Repack(t, d) ==
  Without([k \in DOMAIN d |-> IF k \in FcKeys(d) \union (OptionalFileKeys(d) \ MissingFiles(t, d))
                              THEN t[Meta(d[k])] ELSE d[k]], MissingFiles(t, d))
  ++ (<<"root">> <: Content(t, "root"))

LoadBuildProps(t, d) ==
  [k \in {<<"build.prop", p>> : p \in {q \in RepackedPartitions : <<q, "build.prop">> \in DOMAIN t}} |-> t[<<k[2], "build.prop">>]]

AvbIdentity(d) ==
  LET fingerprint == IF <<"build.prop", "system">> \in DOMAIN d THEN d[<<"build.prop", "system">>].fingerprint ELSE None
  IN IF True(d, <<"avb_enable">>) /\ fingerprint # None
     THEN d ++ (<<"fingerprint">> <: fingerprint) ++ (<<"avb_salt">> <: fingerprint) ELSE d

MetaEntries(t, d) ==
  LET digest == IF True(d, <<"avb_enable">>) /\ Meta("vbmeta_digest") \in DOMAIN t
                THEN <<"vbmeta_digest">> <: t[Meta("vbmeta_digest")] ELSE <<>>
      ab == IF Meta("ab_partitions") \in DOMAIN t THEN <<"ab_partitions">> <: t[Meta("ab_partitions")] ELSE <<>>
  IN digest ++ ab ++ d

(* None when the package cannot be loaded. *)
LoadInfoDict(t, repacking) ==
  LET raw == Get(t, Meta("misc_info"))
      unusable == \/ raw = None
                  \/ {<<"recovery_api_version">>, <<"fstab_version">>} \ DOMAIN raw # {}
                  \/ repacking /\ \E k \in FcKeys(raw) : Meta(raw[k]) \notin DOMAIN t
      d == IF repacking THEN Repack(t, raw) ELSE raw
  IN IF unusable THEN None ELSE MetaEntries(t, AvbIdentity(d ++ LoadBuildProps(t, d)))
=============================================================================
