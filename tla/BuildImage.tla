----------------------------- MODULE BuildImage ------------------------------
(* How an image of a directory is made: its properties, its size and the    *)
(* verity metadata behind it.  Sizes are in blocks.                          *)
EXTENDS TargetFiles

RoMountPoints == RepackedPartitions \union {"oem", "system_other"}

(* Properties copied from the global dictionary: kept for read-only file    *)
(* systems only, its word there, its name here.                             *)
CommonProps == {"avb_enable", "use_dynamic_partition_size", "fingerprint", "timestamp", "skip_fsck", "sparse_flag"}
FmtProps ==
  {<<FALSE, "fs_type", "fs_type">>, <<FALSE, "selinux_fc", "selinux_fc">>, <<FALSE, "size", "partition_size">>}
  \union {<<TRUE, w, w>> : w \in {"avb_hashtree_enable", "avb_key_path", "avb_salt", "disable_sparse", "base_fs_file",
                                  "extfs_inode_count", "f2fs_compress", "verity_block_device", "erofs_compress_hints"}}
  \union {<<TRUE, "reserved_size", "partition_reserved_size">>}

CopyProp(g, p, x) ==
  LET own == Get(g, <<x[2], IF p = "data" THEN "userdata" ELSE p>>)
      shared == IF p = "system_other" /\ x[3] # "partition_size" THEN Get(g, <<x[2], "system">>) ELSE None
      global == IF x[3] = "fs_type" /\ p \in {"system", "system_other", "data", "oem"} THEN Get(g, <<"fs_type">>) ELSE None
  IN IF own # None THEN own ELSE IF shared # None THEN shared ELSE global

ImageProps(g, p) ==
  LET copied == [n \in {x[3] : x \in {y \in FmtProps : y[1] => p \in RoMountPoints}} |->
                   CopyProp(g, p, CHOOSE y \in FmtProps : y[3] = n)]
      commons == [n \in CommonProps |-> Get(g, <<n>>)]
      special == IF p = "system" THEN [partition_headroom |-> Get(g, <<"system_headroom">>), root |-> Get(g, <<"root">>)]
                 ELSE [partition_headroom |-> None, root |-> None]
  IN copied ++ commons ++ special ++ [mount_point |-> p] ++ [n \in {x[3] : x \in FmtProps} |-> None]

(* The fingerprint and the date of the build are left in the global         *)
(* dictionary; the first footer argument that has a fingerprint counts.     *)
FooterArgs(g) == {k \in DOMAIN g : k[1] \in {"avb_add_hashtree_footer_args", "avb_add_hash_footer_args"} /\ g[k] # None}
TryParseFingerprint(g) ==
  IF FooterArgs(g) = {} THEN g ELSE (<<"fingerprint">> <: g[CHOOSE k \in FooterArgs(g) : TRUE]) ++ g
Timestamp(g) ==
  IF <<"build.prop", "system">> \in DOMAIN g THEN (<<"timestamp">> <: g[<<"build.prop", "system">>].date) ++ g ELSE g

(* avbtool: what is left for the file system beside hash tree, vbmeta and   *)
(* footer.                                                                   *)
TreeFanout == 128
VbmetaAndFooter == 17
CalculateMaxImageSize(size) == size - (size + TreeFanout - 1) \div TreeFanout - VbmetaAndFooter

(* A size at most, and one at least, that of the partition: steps that      *)
(* double.  Between the two the smallest is found by halving.               *)
Lower(image) ==
  LET from[lo, delta \in Int] ==
        IF CalculateMaxImageSize(lo) <= image THEN lo
        ELSE from[(image * lo) \div CalculateMaxImageSize(lo) - delta, 2 * delta]
  IN from[(image * image) \div CalculateMaxImageSize(image) - 1, 1]
Upper(image) ==
  LET from[hi, delta \in Int] ==
        IF CalculateMaxImageSize(hi) >= image THEN hi
        ELSE from[(image * hi) \div CalculateMaxImageSize(hi) + delta, 2 * delta]
  IN from[Lower(image) + 1, 1]
Bisect(image) ==
  LET from[lo, hi, best \in Int] ==
        LET mid == (lo + hi) \div 2
        IN IF lo >= hi THEN best
           ELSE IF CalculateMaxImageSize(mid) >= image THEN from[lo, mid, IF mid < best THEN mid ELSE best]
                ELSE from[mid + 1, hi, best]
  IN from[Lower(image), Upper(image), Upper(image)]
MinPartitionSizeNotBisected(image) == Upper(image)

CalculateMinPartitionSize(image) == Bisect(image)

HasVerity(prop) == prop.avb_hashtree_enable = "true"
OrElse(v, default) == IF v = None THEN default ELSE v
DefaultReserved == 4096
MinImage == 64

CalculateSizeAndReserved(prop, size) ==
  LET headroom == OrElse(prop.partition_headroom, 0)
      erofs == prop.fs_type = "erofs"
      reserved == OrElse(prop.partition_reserved_size, IF erofs THEN 0 ELSE DefaultReserved)
  IN IF erofs /\ reserved = 0 THEN Max({(size * 1003) \div 1000, MinImage})
     ELSE (size * 11) \div 10 + (IF prop.fs_type = "ext4" /\ headroom > reserved THEN headroom ELSE reserved)

(* The first pass shows how much of the estimate stays free.  The headroom  *)
(* is looked up among the characteristics of the file system, which have    *)
(* none.                                                                     *)
SecondPassSize(prop, estimate, used) ==
  LET free == estimate - used
      reserved == OrElse(prop.partition_reserved_size, 0)
      shrunk == estimate - free + reserved
  IN IF free <= reserved THEN estimate
     ELSE Max({IF reserved = 0 THEN (shrunk * 1003) \div 1000 ELSE shrunk, MinImage})

DynamicSize(prop, used) ==
  LET estimate == CalculateSizeAndReserved(prop, used)
      size == CASE prop.fs_type = "ext4" -> SecondPassSize(prop, estimate, used)
                [] prop.fs_type = "f2fs" /\ prop.f2fs_compress = "true" -> used
                [] OTHER -> estimate
  IN IF HasVerity(prop) THEN CalculateMinPartitionSize(size) ELSE size

IsDynamic(prop) == prop.use_dynamic_partition_size = "true" /\ prop.partition_size = None
PartitionSize(prop, used) == IF IsDynamic(prop) THEN DynamicSize(prop, used) ELSE prop.partition_size
Room(prop, used) ==
  LET size == PartitionSize(prop, used) IN IF HasVerity(prop) THEN CalculateMaxImageSize(size) ELSE size

CheckHeadroom(prop, used) ==
  prop.partition_headroom = None \/ prop.fs_type # "ext4" \/ used <= Room(prop, used) - prop.partition_headroom

(* mkfs: a file system of a fixed size has to hold the files; erofs,        *)
(* squashfs and a compressed f2fs take what they need.                      *)
SpansPartition(prop) == prop.fs_type = "ext4" \/ (prop.fs_type = "f2fs" /\ prop.f2fs_compress # "true")
KnownFs == {"ext4", "erofs", "squashfs", "f2fs"}
BuildImageMkfs(prop, used) == prop.fs_type \in KnownFs /\ used <= Room(prop, used)

(* The image of system holds the root directory too. *)
SetUpInDirAndFsConfig(t, p, prop) ==
  [mount |-> CASE p = "system" -> "/" [] p = "system_other" -> "system" [] OTHER -> p,
   tree |-> Content(t, p), root |-> IF p = "system" THEN prop.root ELSE None,
   fs_config |-> Get(t, FsConfig(p))]

(* None when the image cannot be built. *)
Build(t, p, prop, used) ==
  IF ~BuildImageMkfs(prop, used) \/ ~CheckHeadroom(prop, used) THEN None
  ELSE [type |-> "fs", from |-> SetUpInDirAndFsConfig(t, p, prop), fc |-> prop.selinux_fc, fingerprint |-> prop.fingerprint,
        footer |-> HasVerity(prop), key |-> prop.avb_key_path,
        image_size |-> IF SpansPartition(prop) THEN Room(prop, used) ELSE used,
        partition_size |-> PartitionSize(prop, used)]
=============================================================================
