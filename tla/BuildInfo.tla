------------------------------ MODULE BuildInfo ------------------------------
(* What the release tools know of a build: the build.prop files of its       *)
(* partitions and the values computed from them (common.py, BuildInfo and   *)
(* PartitionBuildProps).  A property file may import another one whose name *)
(* depends on a ro.boot variable of the running device, so one build has    *)
(* as many fingerprints as the variable has values.                         *)
(*                                                                          *)
(* A property set is a function from names to values.  Names are shortened: *)
(* "device" stands for ro.product.device and for its per-partition forms.   *)
EXTENDS Integers, Sequences, FiniteSets, SequencesExt

CONSTANT None    \* no such property

(* The lines of a build.prop file that matter. *)
SetLine(name, value) == [kind |-> "set", name |-> name, value |-> value]
ImportLine(var, files) == [kind |-> "import", var |-> var, files |-> files]
OptionalImport(var, files) == [kind |-> "skipped", var |-> var, files |-> files]

AllowOverride == {"brand", "name", "device"}

(* The properties an import brings: none when the form or the path is not   *)
(* recognised or the placeholder has no value, else those that may change.  *)
ImportParser(line, values) ==
  IF line.kind = "skipped" \/ line.var \notin DOMAIN values THEN <<>>
  ELSE LET file == line.files[values[line.var]]
       IN  [n \in DOMAIN file \intersect AllowOverride |-> file[n]]

Overlay(f, g) == [n \in DOMAIN f \union DOMAIN g |-> IF n \in DOMAIN f THEN f[n] ELSE g[n]]

LoadLine(state, line, values) ==
  IF line.kind = "set"
  THEN [state EXCEPT !.props = Overlay((line.name :> line.value), @),
                     !.ok = @ /\ line.name \notin state.overrides]
  ELSE LET new == ImportParser(line, values)
       IN  [props |-> Overlay(new, state.props), overrides |-> state.overrides \union DOMAIN new,
            ok |-> state.ok /\ DOMAIN new \intersect state.overrides = {}]

LoadBuildProp(lines, values) ==
  FoldLeft(LAMBDA s, l : LoadLine(s, l, values), [props |-> <<>>, overrides |-> {}, ok |-> TRUE], lines)

Loads(info, values) == \A p \in DOMAIN info.files : LoadBuildProp(info.files[p], values).ok

(* The value of a property in the file of a partition, or None. *)
GetRawBuildProp(info, values, prop, partition) ==
  LET props == LoadBuildProp(info.files[partition], values).props
  IN  IF partition \in DOMAIN info.files /\ prop \in DOMAIN props THEN props[prop] ELSE None

(* The standard build.prop is the one of `system`. *)
Standard(info, values, prop) == GetRawBuildProp(info, values, prop, "system")

PlainName == [brand |-> "ro.product.brand", name |-> "ro.product.name", device |-> "ro.product.device"]

(* ro.product.property_source_order if it is set, else the order of the     *)
(* release; an order naming any other partition is refused.                 *)
SourceOrder(info) == IF info.order # <<>> THEN info.order ELSE info.defaultOrder
ValidOrder(info) == ToSet(SourceOrder(info)) \subseteq ToSet(info.defaultOrder)

(* ro.product.*: from build.prop, else from the first partition of the      *)
(* order that has it.                                                       *)
ResolveRoProductBuildProp(info, values, prop) ==
  LET direct == Standard(info, values, PlainName[prop])
      has    == SelectSeq(SourceOrder(info),
                          LAMBDA p : p \in DOMAIN info.files /\ GetRawBuildProp(info, values, prop, p) # None)
  IN  IF direct # None THEN direct
      ELSE IF has = <<>> THEN None ELSE GetRawBuildProp(info, values, prop, Head(has))

(* The build id, or the legacy id with the start of the vbmeta digest. *)
GetBuildId(info, values) ==
  LET id == Standard(info, values, "id")  legacy == Standard(info, values, "legacy.id")
  IN  IF id # None THEN id
      ELSE IF legacy # None /\ info.avb /\ info.digest # None THEN <<legacy, info.digest>>
      ELSE None

(* ro.build.version.release_or_codename since SDK 30, if it is there. *)
GetPlatformVersion(info, values) ==
  LET new == Standard(info, values, "release_or_codename")
  IN  IF info.sdk >= 30 /\ new # None THEN new ELSE Standard(info, values, "release")

(* The first OEM dictionary answers for the OEM properties. *)
GetOemProperty(info, values, prop) ==
  IF info.oem # <<>> /\ prop \in info.oemProps THEN info.oem[1][prop]
  ELSE ResolveRoProductBuildProp(info, values, prop)

Product(info, values) ==
  <<GetOemProperty(info, values, "brand"), GetOemProperty(info, values, "name"),
    GetOemProperty(info, values, "device")>>

CalculateFingerprint(info, values) ==
  LET given == Standard(info, values, "fingerprint")
  IN  CASE info.oem # <<>> /\ info.oemProps # {} -> Product(info, values) \o <<Standard(info, values, "thumbprint")>>
        [] given # None -> <<given>>
        [] OTHER -> Product(info, values) \o <<GetPlatformVersion(info, values), GetBuildId(info, values)>>

CalculatePartitionFingerprint(info, values, p) ==
  LET given == GetRawBuildProp(info, values, "fingerprint", p)
  IN  IF given # None THEN <<given>>
      ELSE <<GetRawBuildProp(info, values, "device", p), GetRawBuildProp(info, values, "id", p)>>

(* What the constructor computes; a build whose file is missing a needed    *)
(* property cannot be described.                                            *)
Describable(info, values) ==
  /\ Loads(info, values) /\ ValidOrder(info)
  /\ GetOemProperty(info, values, "device") # None
  /\ \A i \in DOMAIN CalculateFingerprint(info, values) : CalculateFingerprint(info, values)[i] # None

(* Every combination of values of the boot variables in the file. *)
BootCombinations(variables) ==
  {v \in [DOMAIN variables -> UNION {variables[x] : x \in DOMAIN variables}] :
     \A x \in DOMAIN variables : v[x] \in variables[x]}

NoValues == <<>>

ComputeRuntimeBuildInfos(variables) ==
  {NoValues} \union IF variables = <<>> THEN {} ELSE BootCombinations(variables)

(* Devices and fingerprints the build may have at run time. *)
RuntimeDevices(info, variables) ==
  {GetOemProperty(info, v, "device") : v \in ComputeRuntimeBuildInfos(variables)}
RuntimeFingerprints(info, variables) ==
  {CalculateFingerprint(info, v) : v \in ComputeRuntimeBuildInfos(variables)}

(***************************************************************************)
(* Flags of the vendor partition.                                          *)
(***************************************************************************)
(* ro.board.first_api_level, else ro.product.first_api_level, else -1. *)
VendorApiLevel(info) == IF info.boardApiLevel # -1 THEN info.boardApiLevel ELSE info.productApiLevel
=============================================================================
