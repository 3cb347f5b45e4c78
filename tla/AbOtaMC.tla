------------------------------- MODULE AbOtaMC -------------------------------
(* Families of jobs, each varying what one part of the tool looks at.       *)
EXTENDS AbOta

CONSTANT Sizes

Parts == {"system", "vendor", "boot", "vendor_boot"}
MCOccurs == {<<"vendor", "vendor_boot">>, <<"boot", "vendor_boot">>}
MCEndsWith == {<<"boot", "vendor_boot">>}

Files(imports) ==
  [system |-> <<SetLine("brand", "b"), SetLine("name", "n"), SetLine("release", "16"), SetLine("id", "i")>>,
   vendor |-> IF imports THEN <<SetLine("device", "d"),
                                ImportLine("sku", [s1 |-> [device |-> "d1"], s2 |-> [device |-> "d2"]])>>
              ELSE <<SetLine("device", "d")>>]
Info(imports, level) ==
  [files |-> Files(imports), order |-> <<>>, defaultOrder |-> <<"vendor", "system">>, avb |-> TRUE, digest |-> None,
   sdk |-> 35, oem |-> <<>>, oemProps |-> {}, boardApiLevel |-> level, productApiLevel |-> -1]

Build(ts) ==
  [info |-> Info(FALSE, 35), ts |-> ts, partTs |-> [system |-> ts, vendor |-> ts], spl |-> 1, releaseKeys |-> FALSE,
   dynamic |-> TRUE, allowNonAb |-> TRUE, ab |-> Parts, images |-> Parts \union {"system_other"},
   groups |-> [g |-> {"system", "vendor"}], care_map |-> {"system", "vendor"}, postinstall |-> {"system", "vendor", "vendor_boot"},
   partialList |-> {"system"}, apex |-> <<>>, minor |-> 8, zucchini |-> 1, lz4 |-> FALSE, erofs |-> FALSE,
   avb |-> TRUE, virtualAb |-> TRUE, vabc |-> TRUE, xor |-> TRUE, cow |-> 3, compression |-> "lz4", suppressed |-> FALSE, r |-> FALSE, abUpdate |-> TRUE]

Options ==
  [flag |-> "", spl_downgrade |-> FALSE, wipe |-> FALSE, vabc_downgrade |-> FALSE, partial |-> None, secondary |-> FALSE,
   skip_postinstall |-> FALSE, xor |-> TRUE, cow |-> 0, compression |-> "", minor |-> 0, full |-> {}, custom |-> <<>>,
   zucchini |-> FALSE, lz4diff |-> FALSE, payload_signer |-> FALSE, max_signature |-> 0, no_signing |-> FALSE, key |-> FALSE, force_non_ab |-> FALSE]

DefaultOrder == <<METADATA_NAME, METADATA_PROTO_NAME, "apex_info", "care_map", "new_dat", "updater_script", "payload",
                  "payload_properties", "secondary_payload", "secondary_payload_properties">>

Job(opt, s, t) ==
  [opt |-> opt, src |-> s, tgt |-> t, size |-> 900, small |-> 60, head |-> 300, base |-> 400,
   order |-> DefaultOrder, keySize |-> 256, variables |-> <<>>]

(* Build dates, patch levels and fingerprints.  Against the source's date   *)
(* the target's is older with fewer digits, older, the same, or newer.      *)
Dates == {99, 100, 101, 102}
VersionJobs ==
  {[Job([Options EXCEPT !.flag = f, !.spl_downgrade = d, !.partial = p],
        [Build(101) EXCEPT !.info = Info(i, 35), !.partTs = [system |-> 101, vendor |-> 101]],
        [Build(t) EXCEPT !.info = Info(i, 35), !.partTs = [system |-> t, vendor |-> v], !.spl = l, !.releaseKeys = k])
      EXCEPT !.variables = IF i THEN ("sku" :> {"s1", "s2"}) ELSE <<>>] :
     f \in {"", "downgrade", "override"}, d \in BOOLEAN, p \in {None, {"system"}, {}}, i \in BOOLEAN,
     t \in Dates, v \in Dates, l \in 0..1, k \in BOOLEAN}

(* Features of the update engine, incremental and full. *)
Feature(v, x, c, m) == [Build(1) EXCEPT !.vabc = v, !.xor = x, !.cow = c, !.compression = m, !.minor = IF x THEN 8 ELSE 7]
CowVersions == {0, 2, 3, 10}
CowPairs == {<<0, 2>>, <<3, 0>>, <<2, 3>>, <<3, 2>>, <<3, 3>>, <<9, 10>>}
FeatureJobs ==
  {Job([Options EXCEPT !.compression = IF w = 3 THEN "zstd" ELSE "", !.cow = w, !.wipe = (vs # xs)],
       Feature(vs, xs, c[1], ms), [Feature(vt, xt, c[2], mt) EXCEPT !.info = Info(FALSE, l)]) :
     w \in {0, 3}, vs \in BOOLEAN, xs \in BOOLEAN, c \in CowPairs,
     ms \in {"", "gz"}, vt \in BOOLEAN, xt \in BOOLEAN, mt \in {"gz", "zstd"}, l \in {33, 35}}
  \union
  {Job([Options EXCEPT !.compression = z, !.cow = w, !.lz4diff = y, !.flag = IF y /\ l = -1 THEN "override" ELSE ""],
       None, [Feature(TRUE, TRUE, c, m) EXCEPT !.info = Info(FALSE, l), !.suppressed = y, !.dynamic = e]) :
     z \in {"", "none", "zstd"}, w \in {0, 3}, y \in BOOLEAN, c \in CowVersions, m \in {"", "gz", "lz4", "zstd"},
     l \in {-1, 33, 34, 35}, e \in BOOLEAN}

(* Partial lists, secondary payloads, missing and custom images. *)
ListJobs ==
  {Job([Options EXCEPT !.partial = p, !.secondary = s, !.skip_postinstall = k, !.full = IF k THEN {"vendor"} ELSE {},
                     !.custom = c, !.lz4diff = s, !.payload_signer = k, !.max_signature = IF s THEN 128 ELSE 0],
       IF i THEN [Build(1) EXCEPT !.partialList = l, !.images = @ \union {"alt"}, !.lz4 = TRUE] ELSE None,
       [Build(1) EXCEPT !.ab = a, !.images = m, !.partialList = IF m = Parts THEN None ELSE {"system", "vendor"}, !.erofs = k, !.apex = [x |-> 2]]) :
     p \in {None, {}, {"system"}, {"vendor"}, {"boot"}, {"system", "vendor_boot"}}, s \in BOOLEAN, k \in BOOLEAN,
     c \in {<<>>, "vendor" :> "alt"}, i \in BOOLEAN, l \in {None, {}, {"vendor"}, {"system", "vendor"}},
     a \in {Parts, {"system", "vendor_boot"}}, m \in {Parts \union {"system_other", "alt"}, Parts, {"system", "vendor_boot", "system_other"}}}

(* Sizes around powers of ten and every order the signer may choose. *)
Secondary == <<"secondary_payload", "secondary_payload_properties">>
Orders ==
  {<<METADATA_NAME, METADATA_PROTO_NAME>> \o q \o <<"new_dat", "updater_script">> \o Secondary :
     q \in SetToSeqs({"apex_info", "care_map", "payload", "payload_properties"})}
  \union
  {q \o <<METADATA_PROTO_NAME, METADATA_NAME, "updater_script", "new_dat">> \o Secondary :
     q \in SetToSeqs({"apex_info", "care_map", "payload", "payload_properties"})}
LayoutJobs ==
  {[Job(Options, None, [Build(1) EXCEPT !.apex = IF a THEN [x |-> 2] ELSE <<>>])
      EXCEPT !.size = n, !.small = m, !.head = Min({n, 300}), !.base = b, !.order = q] :
     a \in BOOLEAN, n \in Sizes, m \in {1, 90, 20000000}, b \in {1, 300, 620}, q \in Orders}
  \union
  {[Job([Options EXCEPT !.force_non_ab = f, !.no_signing = g, !.key = k], None,
        [Build(1) EXCEPT !.allowNonAb = w, !.abUpdate = u])
      EXCEPT !.size = n, !.base = b, !.order = q] :
     f \in BOOLEAN, g \in BOOLEAN, k \in BOOLEAN, w \in BOOLEAN, u \in BOOLEAN, n \in Sizes, b \in {1, 300, 620}, q \in {DefaultOrder}}

MCJobs == VersionJobs \union FeatureJobs \union ListJobs \union LayoutJobs
=============================================================================
