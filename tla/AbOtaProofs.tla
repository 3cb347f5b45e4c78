----------------------------- MODULE AbOtaProofs -----------------------------
(* What ota_from_target_files writes into an A/B package is right for every *)
(* job, not only for the families of jobs that are model-checked.           *)
(*                                                                          *)
(* The program is a pipeline: each step fixes something that later steps    *)
(* rely on while OPTIONS and the target-files go on being rewritten.  The   *)
(* invariant says for each part what is known of it from the step on that   *)
(* makes it.                                                                *)
(*                                                                          *)
(* The last part is about FinalizeMetadata: metadata that is written and    *)
(* signed a second time, with strings of the same lengths, leaves the zip   *)
(* as it was.                                                               *)
EXTENDS AbOta, SequenceTheorems, WellFoundedInduction, TLAPS

(* OPTIONS after main: all it parsed is there, and what nothing rewrites is *)
(* still what the command line said.                                        *)
Rewritten == {"wipe", "partial"}
ParsedFields == OptionFields \union {"disable_vabc", "downgrade", "srcAb", "signs"}
OptionsKept ==
  /\ job \in Jobs
  /\ ParsedFields \subseteq DOMAIN o
  /\ pc \in {"main", "features"} => DOMAIN o = ParsedFields
  /\ \A f \in OptionFields \ Rewritten : o[f] = job.opt[f]

(* An A/B package is being made, and the program has got past main and past *)
(* the given steps of GenerateAbOtaPackage.                                 *)
Past(steps) == GenerateAb(o) /\ pc \notin {"raised", "main"} \union steps

(* main has let this pair of builds and options through, and the package of *)
(* an A/B device is an A/B package unless --force_non_ab is given.          *)
AbSteps == {"features", "partial", "edit", "metadata", "generate", "sign", "write", "secondary", "extras"}
Admitted ==
  /\ pc \in AbSteps => GenerateAb(o)
  /\ Past({}) =>
       /\ o.srcAb = IF Incremental THEN Filtered(src.ab, job.opt.partial) ELSE {}
       /\ Incremental /\ IsSplDowngrade => ~tgt.releaseKeys /\ (o.spl_downgrade \/ o.downgrade)

(* The partial list is the one main has filtered the source's list with,    *)
(* unless the command line left it to the builds.                           *)
PartialKept ==
  /\ pc \in {"main", "features", "partial"} => o.partial = job.opt.partial
  /\ Past({}) /\ job.opt.partial # {} => o.partial = job.opt.partial

(* The features, chosen for the build that installs the package.            *)
Resolved ==
  Past({"features"}) =>
    /\ {"skipVerity", "useXor", "useCompression", "useCow"} \subseteq DOMAIN o
    /\ ValidateCompressionParam(job.opt)
    /\ o.useCompression = CompressionParam(job.opt)
    /\ o.useCow = CowVersion(job.opt)
    /\ Incremental /\ ~o.disable_vabc => src.vabc /\ tgt.vabc
    /\ o.useXor => ~o.disable_vabc /\ (Incremental => src.xor)

(* The edited target-files: one list of partitions, which all else follows. *)
Edited ==
  Past({"features", "partial", "edit"}) =>
    /\ DOMAIN tf = BuildFields
    /\ tf.ab = IF o.partial # None THEN o.partial ELSE tgt.ab
    /\ tf.compression = o.useCompression
    /\ tf.cow = IF o.useCow # 0 THEN o.useCow ELSE tgt.cow
    /\ o.partial # None =>
         /\ \A q \in tf.postinstall : IsInPartialList(q, tf.ab)
         /\ \A g \in DOMAIN tf.groups : tf.groups[g] \subseteq tf.ab
         /\ tf.care_map # None => tf.care_map \subseteq tf.ab

(* The metadata: device states of both builds, and the downgrade flag that  *)
(* has been compared with the dates.                                        *)
Described ==
  Past({"features", "partial", "edit", "metadata"}) =>
    /\ {"post", "pre", "downgrade", "spl_downgrade"} \subseteq DOMAIN meta
    /\ meta.post.state = PartitionStates(tgt, tf.ab)
    /\ Incremental =>
         /\ o.downgrade = HandleDowngradeMetadata
         /\ meta.pre.state = PartitionStates(src, o.srcAb)
         /\ meta.pre.build = RuntimeFingerprints(src.info, job.variables)
         /\ meta.downgrade <=> o.downgrade
         /\ meta.spl_downgrade <=> o.spl_downgrade

(* The payloads are made from these target-files, options and metadata.     *)
OtherSlot == GetTargetFilesZipForSecondaryImages(tf, o.skip_postinstall)
Signed == <<SignPayload(PrimaryPayload)>>
SignedBoth == <<SignPayload(PrimaryPayload), SignPayload(SecondaryPayload(OtherSlot))>>

Generated ==
  /\ Past({"features", "partial", "edit", "metadata", "generate"}) => Located(tf)
  /\ pc = "sign" => payloads = <<PrimaryPayload>>
  /\ pc \in {"write", "secondary"} => payloads = Signed
  /\ Past({"features", "partial", "edit", "metadata", "generate", "sign", "write", "secondary"}) =>
       payloads = Signed \/ (payloads = SignedBoth /\ Located(OtherSlot))

IInv == TypeOK /\ OptionsKept /\ Admitted /\ PartialKept /\ Resolved /\ Edited /\ Described /\ Generated

(***************************************************************************)
(* Facts about the operators                                               *)
(***************************************************************************)

(* The builds of a job are records of BuildFields with numbers where        *)
(* versions are compared.                                                   *)
LEMMA BuildTypes ==
  ASSUME OptionsKept
  PROVE  /\ DOMAIN tgt = BuildFields /\ tgt.ts \in Nat /\ tgt.cow \in Nat \ {1}
         /\ VendorApiLevel(tgt.info) \in Int /\ tgt.compression \in DOMAIN Support \union {""}
         /\ \A p \in DOMAIN tgt.partTs : tgt.partTs[p] \in Nat
         /\ Incremental =>
              /\ src.ts \in Nat /\ src.minor \in Int /\ src.cow \in Nat \ {1}
              /\ \A p \in DOMAIN src.partTs : src.partTs[p] \in Nat
<1>1. job \in Jobs /\ job.tgt \in {job.tgt, job.src} \ {None}
  BY JobsAssumption DEF OptionsKept
<1>2. Incremental => job.src \in {job.tgt, job.src} \ {None}
  BY DEF Incremental
<1> QED
  BY <1>1, <1>2, JobsAssumption DEF VendorApiLevel, tgt, src

(* min() and max() of two numerals: one of them, and of equal length that   *)
(* of the smaller or the greater number.                                    *)
LEMMA StringOrder ==
  ASSUME NEW a \in Nat, NEW b \in Nat
  PROVE  /\ MinString(a, b) \in {a, b} /\ MaxString(a, b) \in {a, b}
         /\ SameLength(a, b) => MinString(a, b) <= a /\ MaxString(a, b) >= a
<1>1. SameLength(a, b) => (StringLess(a, b) <=> a < b) /\ (StringLess(b, a) <=> b < a)
  BY DEF SameLength, StringLess
<1> QED
  BY <1>1 DEF MinString, MaxString

(* Overlay keeps the fields of its first argument and takes the others from *)
(* the second.                                                              *)
LEMMA OverlayFields ==
  ASSUME NEW f, NEW g
  PROVE  /\ DOMAIN Overlay(f, g) = DOMAIN f \union DOMAIN g
         /\ \A n \in DOMAIN f : Overlay(f, g)[n] = f[n]
         /\ \A n \in DOMAIN g \ DOMAIN f : Overlay(f, g)[n] = g[n]
  BY DEF Overlay

(* payloads.append() of the second payload.                                 *)
LEMMA AppendTwo ==
  ASSUME NEW a, NEW b
  PROVE  Append(<<a>>, b) = <<a, b>>
<1> DEFINE S == {a, b}
<1>1. <<a>> \in Seq(S) /\ b \in S /\ <<a, b>> \in Seq(S)
  OBVIOUS
<1>2. Len(Append(<<a>>, b)) = 2 /\ Append(<<a>>, b)[1] = a /\ Append(<<a>>, b)[2] = b
  OBVIOUS
<1>3. Append(<<a>>, b) \in Seq(S)
  BY <1>1, AppendProperties
<1> DEFINE s == Append(<<a>>, b)  t == <<a, b>>
<1>4. Len(s) = Len(t) /\ \A i \in 1..Len(s) : s[i] = t[i]
  <2>1. Len(t) = 2 /\ t[1] = a /\ t[2] = b
    OBVIOUS
  <2> HIDE DEF s, t
  <2>2. Len(s) = 2 /\ s[1] = a /\ s[2] = b
    BY <1>2 DEF s
  <2> QED
    BY <2>1, <2>2
<1>5. s \in Seq(S) /\ t \in Seq(S)
  BY <1>1, <1>3
<1> HIDE DEF s, t, S
<1>6. s = t
  BY <1>4, <1>5, SeqEqual
<1> QED
  BY <1>6 DEF s, t

(***************************************************************************)
(* The invariant is inductive                                              *)
(***************************************************************************)

(* OPTIONS as the command line leaves it.                                   *)
LEMMA InitIInv ==
  Init => IInv
<1> SUFFICES ASSUME Init PROVE IInv
  OBVIOUS
<1> DEFINE extra == [disable_vabc |-> FALSE, downgrade |-> FALSE, srcAb |-> {}, signs |-> FALSE]
<1>1. job \in Jobs /\ pc = "main" /\ payloads = <<>> /\ redone = FALSE /\ o = Overlay(job.opt, extra)
  BY DEF Init
<1>2. DOMAIN job.opt = OptionFields
  BY <1>1, JobsAssumption
<1>3. DOMAIN o = ParsedFields
  <2>1. DOMAIN extra = {"disable_vabc", "downgrade", "srcAb", "signs"}
    OBVIOUS
  <2> HIDE DEF extra
  <2>2. DOMAIN o = DOMAIN job.opt \union DOMAIN extra
    BY <1>1, OverlayFields
  <2> QED
    BY <1>2, <2>1, <2>2, Zenon DEF ParsedFields
<1>4. \A f \in OptionFields : o[f] = job.opt[f]
  <2> HIDE DEF extra
  <2> QED
    BY <1>1, <1>2, OverlayFields
<1> HIDE DEF extra
<1>5. TypeOK
  <2>1. Len(payloads) \in 0..2
    BY <1>1
  <2>2. redone \in BOOLEAN
    BY <1>1
  <2> QED
    BY <1>1, <2>1, <2>2 DEF TypeOK
<1>6. OptionsKept
  BY <1>1, <1>3, <1>4 DEF OptionsKept
<1>7. o.partial = job.opt.partial
  BY <1>4 DEF OptionFields
<1>8. PartialKept /\ Admitted /\ Resolved /\ Edited /\ Described /\ Generated
  BY <1>1, <1>7 DEF PartialKept, Admitted, Resolved, Edited, Described, Generated, Past, AbSteps
<1> QED
  BY <1>5, <1>6, <1>8 DEF IInv

(* An exception leaves everything as it is, and no package.                 *)
LEMMA RaiseStep ==
  IInv /\ Raise => IInv'
<1> SUFFICES ASSUME IInv, Raise PROVE IInv'
  OBVIOUS
<1>1. pc' = "raised" /\ job' = job /\ o' = o /\ payloads' = payloads /\ redone' = redone
  BY DEF Raise
<1>2. TypeOK' /\ OptionsKept'
  BY <1>1 DEF IInv, TypeOK, OptionsKept
<1>3. PartialKept' /\ Admitted' /\ Resolved' /\ Edited' /\ Described' /\ Generated'
  BY <1>1 DEF PartialKept, Admitted, Resolved, Edited, Described, Generated, Past, AbSteps
<1> QED
  BY <1>2, <1>3 DEF IInv

(* main: what it refuses is what Admitted rules out.                        *)
LEMMA MainStep ==
  IInv /\ Main => IInv'
<1> SUFFICES ASSUME IInv, Main PROVE IInv'
  OBVIOUS
<1> DEFINE opt == WipeDisablesVabc(OptionHandler(o))
<1>1. CASE MainRefuses(opt)
  BY <1>1, RaiseStep DEF Main
<1>2. CASE ~MainRefuses(opt)
  <2> DEFINE ab == IF Incremental THEN Filtered(src.ab, opt.partial) ELSE {}
  <2>1. /\ pc = "main" /\ job' = job /\ payloads' = payloads /\ redone' = redone
        /\ o' = [opt EXCEPT !.srcAb = ab, !.signs = Signs(opt)]
        /\ pc' = IF GenerateAb(opt) THEN "features" ELSE "compute"
    BY <1>2 DEF Main
  <2>2. /\ DOMAIN opt = DOMAIN o
        /\ \A f \in DOMAIN o \ {"wipe", "downgrade", "disable_vabc"} : opt[f] = o[f]
    BY DEF WipeDisablesVabc, OptionHandler
  <2>3. /\ DOMAIN o' = DOMAIN o
        /\ \A f \in DOMAIN o \ {"srcAb", "signs"} : o'[f] = opt[f]
        /\ "srcAb" \in DOMAIN o => o'["srcAb"] = ab
    <3> HIDE DEF opt, ab
    <3> QED
      BY <2>1, <2>2
  <2>4. DOMAIN o = ParsedFields
    BY <2>1 DEF IInv, OptionsKept
  <2>5. OptionsKept'
    <3> HIDE DEF opt, ab
    <3>1. \A f \in OptionFields \ Rewritten : o'[f] = o[f]
      BY <2>2, <2>3, <2>4 DEF ParsedFields, OptionFields, Rewritten
    <3> QED
      BY <2>1, <2>3, <2>4, <3>1 DEF IInv, OptionsKept
  <2>6. o'.partial = job.opt.partial /\ opt.partial = job.opt.partial
    <3> HIDE DEF opt, ab
    <3> QED
      BY <2>1, <2>2, <2>3, <2>4 DEF IInv, PartialKept, ParsedFields, OptionFields
  <2>7. /\ o'.srcAb = ab /\ o'.spl_downgrade = opt.spl_downgrade /\ o'.downgrade = opt.downgrade
        /\ o'.force_non_ab = opt.force_non_ab
    <3> HIDE DEF opt, ab
    <3> QED
      BY <2>1, <2>2, <2>3, <2>4 DEF ParsedFields, OptionFields
  <2>8. Incremental /\ IsSplDowngrade => ~tgt.releaseKeys /\ (opt.spl_downgrade \/ opt.downgrade)
    <3> HIDE DEF opt
    <3> QED
      BY <1>2 DEF MainRefuses, SplRefused
  <2> HIDE DEF opt
  <2>9. Admitted'
    BY <2>1, <2>6, <2>7, <2>8 DEF Admitted, AbSteps, GenerateAb, Incremental, IsSplDowngrade, src, tgt
  <2>10. PartialKept'
    BY <2>1, <2>6 DEF PartialKept
  <2>11. TypeOK'
    BY <2>1 DEF IInv, TypeOK
  <2>12. Resolved' /\ Edited' /\ Described' /\ Generated'
    BY <2>1, <2>7 DEF Resolved, Edited, Described, Generated, Past, GenerateAb
  <2> QED
    BY <2>5, <2>9, <2>10, <2>11, <2>12 DEF IInv
<1> QED
  BY <1>1, <1>2

(* ResolveFeatures: the features of the payload.  XOR needs compression on  *)
(* both sides, since OPTIONS.disable_vabc is set before it is looked at.    *)
LEMMA ResolveFeaturesStep ==
  IInv /\ ResolveFeatures => IInv'
<1> SUFFICES ASSUME IInv, ResolveFeatures PROVE IInv'
  OBVIOUS
<1> DEFINE raises == \/ ~ValidateCompressionParam(o) \/ ~Describable(tgt.info, NoValues)
                     \/ Incremental /\ ~Describable(src.info, NoValues)
           early == [o EXCEPT !.disable_vabc = @ \/ (Incremental /\ (~src.vabc \/ ~tgt.vabc))]
           opt   == [early EXCEPT !.disable_vabc = DisableVabc(o)]
           more  == [skipVerity |-> SkipVerity(early), useXor |-> VabcXor(opt),
                     useCompression |-> CompressionParam(o), useCow |-> CowVersion(o)]
<1>1. CASE raises
  BY <1>1, RaiseStep DEF ResolveFeatures
<1>2. CASE ~raises
  <2>1. /\ pc = "features" /\ job' = job /\ payloads' = payloads /\ redone' = redone
        /\ pc' = "partial" /\ o' = Overlay(opt, more)
    BY <1>2 DEF ResolveFeatures
  <2>2. DOMAIN opt = DOMAIN o /\ \A f \in DOMAIN o \ {"disable_vabc"} : opt[f] = o[f]
    OBVIOUS
  <2>3. DOMAIN more = {"skipVerity", "useXor", "useCompression", "useCow"}
    OBVIOUS
  <2>4. /\ more.useXor = VabcXor(opt) /\ more.useCompression = CompressionParam(o) /\ more.useCow = CowVersion(o)
    OBVIOUS
  <2>5. "disable_vabc" \in DOMAIN o => opt.disable_vabc = DisableVabc(o)
    OBVIOUS
  <2> HIDE DEF opt, more, raises, early
  <2>6. DOMAIN o = ParsedFields
    BY <2>1 DEF IInv, OptionsKept
  <2>7. ParsedFields \intersect DOMAIN more = {}
    BY <2>3 DEF ParsedFields, OptionFields
  <2>8. /\ DOMAIN o' = ParsedFields \union DOMAIN more
        /\ \A f \in ParsedFields : o'[f] = opt[f]
        /\ \A f \in DOMAIN more : o'[f] = more[f]
    <3>1. /\ DOMAIN o' = DOMAIN opt \union DOMAIN more
          /\ \A f \in DOMAIN opt : o'[f] = opt[f]
          /\ \A f \in DOMAIN more \ DOMAIN opt : o'[f] = more[f]
      <4>1. o' = Overlay(opt, more)
        BY <2>1
      <4> QED
        BY <4>1 DEF Overlay
    <3>2. DOMAIN opt = ParsedFields /\ DOMAIN more \ DOMAIN opt = DOMAIN more
      BY <2>2, <2>6, <2>7
    <3> QED
      BY <3>1, <3>2, Zenon
  <2>9. /\ \A f \in ParsedFields \ {"disable_vabc"} : o'[f] = o[f]
        /\ o'.useXor = VabcXor(opt) /\ o'.useCompression = CompressionParam(o) /\ o'.useCow = CowVersion(o)
    BY <2>2, <2>3, <2>4, <2>6, <2>8
  <2>10. \A f \in OptionFields : f \in ParsedFields \ {"disable_vabc"}
    BY DEF ParsedFields, OptionFields
  <2>11. OptionsKept'
    BY <2>1, <2>8, <2>9, <2>10 DEF IInv, OptionsKept
  <2>12. /\ o'.partial = o.partial /\ o'.srcAb = o.srcAb /\ o'.spl_downgrade = o.spl_downgrade
         /\ o'.downgrade = o.downgrade /\ o'.force_non_ab = o.force_non_ab
    BY <2>9 DEF ParsedFields, OptionFields
  <2>13. Admitted'
    BY <2>1, <2>12 DEF IInv, Admitted, AbSteps, Past, GenerateAb, Incremental, IsSplDowngrade, src, tgt
  <2>14. PartialKept'
    BY <2>1, <2>12 DEF IInv, PartialKept
  <2>15. /\ o.compression = job.opt.compression /\ o.cow = job.opt.cow
    BY DEF IInv, OptionsKept, OptionFields, Rewritten
  <2>16. /\ o'.disable_vabc = opt.disable_vabc
         /\ Incremental /\ ~opt.disable_vabc => src.vabc /\ tgt.vabc
         /\ VabcXor(opt) => ~opt.disable_vabc /\ (Incremental => src.xor)
    BY <2>5, <2>6, <2>8 DEF VabcXor, DisableVabc, ParsedFields
  <2>17. /\ CompressionParam(o) = CompressionParam(job.opt)
         /\ CowVersion(o) = CowVersion(job.opt)
         /\ ValidateCompressionParam(job.opt)
    BY <1>2, <2>15 DEF raises, CompressionParam, CowVersion, ValidateCompressionParam
  <2>18. Resolved'
    BY <2>1, <2>3, <2>8, <2>9, <2>16, <2>17
       DEF Resolved, Incremental, src, tgt, CompressionParam, CowVersion, ValidateCompressionParam
  <2>19. TypeOK' /\ Edited' /\ Described' /\ Generated'
    BY <2>1 DEF IInv, TypeOK, Edited, Described, Generated, Past
  <2> QED
    BY <2>11, <2>13, <2>14, <2>18, <2>19 DEF IInv
<1> QED
  BY <1>1, <1>2

(* The partial list of the builds replaces an empty one only.               *)
LEMMA DetectPartialStep ==
  IInv /\ DetectPartial => IInv'
<1> SUFFICES ASSUME IInv, DetectPartial PROVE IInv'
  OBVIOUS
<1>1. CASE o.partial = {} /\ (tgt.partialList \in {None, {}} \/ (Incremental /\ src.partialList = None))
  BY <1>1, RaiseStep DEF DetectPartial
<1>2. CASE ~(o.partial = {} /\ (tgt.partialList \in {None, {}} \/ (Incremental /\ src.partialList = None)))
  <2> DEFINE list == IF o.partial = {} THEN Detected ELSE o.partial
  <2>1. /\ pc = "partial" /\ pc' = "edit" /\ job' = job /\ payloads' = payloads /\ redone' = redone
        /\ o' = [o EXCEPT !.partial = list]
    BY <1>2 DEF DetectPartial
  <2>2. o.partial = job.opt.partial
    BY <2>1 DEF IInv, PartialKept
  <2>3. job.opt.partial # {} => list = o.partial
    BY <2>2
  <2> HIDE DEF list
  <2>4. DOMAIN o' = DOMAIN o /\ \A f \in DOMAIN o \ {"partial"} : o'[f] = o[f]
    BY <2>1
  <2>5. ParsedFields \subseteq DOMAIN o
    BY DEF IInv, OptionsKept
  <2>6. o'.partial = list
    BY <2>1, <2>5 DEF ParsedFields, OptionFields
  <2>7. OptionsKept'
    BY <2>1, <2>4, <2>5 DEF IInv, OptionsKept, ParsedFields, Rewritten
  <2>8. /\ o'.srcAb = o.srcAb /\ o'.spl_downgrade = o.spl_downgrade
        /\ o'.downgrade = o.downgrade /\ o'.force_non_ab = o.force_non_ab
    BY <2>4, <2>5 DEF ParsedFields, OptionFields
  <2>9. Admitted'
    BY <2>1, <2>8 DEF IInv, Admitted, AbSteps, Past, GenerateAb, Incremental, IsSplDowngrade, src, tgt
  <2>10. PartialKept'
    BY <2>1, <2>2, <2>3, <2>6 DEF PartialKept
  <2>11. Resolved'
    <3>1. CASE GenerateAb(o)
      <4>1. /\ {"skipVerity", "useXor", "useCompression", "useCow"} \subseteq DOMAIN o
            /\ ValidateCompressionParam(job.opt)
            /\ o.useCompression = CompressionParam(job.opt)
            /\ o.useCow = CowVersion(job.opt)
            /\ Incremental /\ ~o.disable_vabc => src.vabc /\ tgt.vabc
            /\ o.useXor => ~o.disable_vabc /\ (Incremental => src.xor)
        BY <2>1, <3>1 DEF IInv, Resolved, Past
      <4>2. /\ o'.useXor = o.useXor /\ o'.disable_vabc = o.disable_vabc /\ o'.useCompression = o.useCompression /\ o'.useCow = o.useCow
        BY <2>4, <2>5, <4>1 DEF ParsedFields
      <4> QED
        BY <2>1, <2>4, <4>1, <4>2
           DEF Resolved, Incremental, src, tgt, CompressionParam, CowVersion, ValidateCompressionParam
    <3>2. CASE ~GenerateAb(o)
      BY <2>1, <2>8, <3>2 DEF Resolved, Past, GenerateAb
    <3> QED
      BY <3>1, <3>2
  <2>12. TypeOK' /\ Edited' /\ Described' /\ Generated'
    BY <2>1 DEF IInv, TypeOK, Edited, Described, Generated, Past
  <2> QED
    BY <2>7, <2>9, <2>10, <2>11, <2>12 DEF IInv
<1> QED
  BY <1>1, <1>2

(* From here on OPTIONS stays as it is, and with it what is known of it.    *)
LEMMA OptionsStay ==
  ASSUME IInv, job' = job, o' = o, pc \notin {"main", "features", "partial", "raised"},
         pc' \notin {"main", "features", "partial", "raised"}, pc' \in AbSteps => pc \in AbSteps
  PROVE  OptionsKept' /\ Admitted' /\ PartialKept' /\ Resolved'
<1>1. OptionsKept'
  BY DEF IInv, OptionsKept
<1>2. GenerateAb(o)' = GenerateAb(o)
  BY DEF GenerateAb
<1>3. Admitted'
  BY <1>2 DEF IInv, Admitted, Past, Incremental, IsSplDowngrade, src, tgt
<1>4. PartialKept'
  BY <1>2 DEF IInv, PartialKept, Past
<1>5. Resolved'
  BY <1>2 DEF IInv, Resolved, Past, Incremental, src, tgt, CompressionParam, CowVersion, ValidateCompressionParam
<1> QED
  BY <1>1, <1>3, <1>4, <1>5

(* The edits of the target-files: whatever names partitions is cut down to  *)
(* the partial list.                                                        *)
LEMMA EditTargetFilesStep ==
  IInv /\ EditTargetFiles => IInv'
<1> SUFFICES ASSUME IInv, EditTargetFiles PROVE IInv'
  OBVIOUS
<1> DEFINE images  == UNION {{o.custom[p]} : p \in DOMAIN o.custom}
           missing == \/ ~(images \subseteq tgt.images)
                      \/ Incremental /\ ~(images \subseteq SourceImages(o))
           unknown == o.partial # None /\ \E p \in o.partial : ~Recognized(p, tgt.ab)
           noInfo  == ~tgt.dynamic /\ (o.useCow # 0 \/ o.useCompression # tgt.compression)
           custom  == CustomImages(tgt, o.custom)
           part    == IF o.partial # None THEN GetTargetFilesZipForPartialUpdates(custom, o.partial) ELSE custom
<1>1. CASE missing \/ unknown \/ noInfo
  BY <1>1, RaiseStep DEF EditTargetFiles
<1>2. CASE ~(missing \/ unknown \/ noInfo)
  <2>1. /\ pc = "edit" /\ pc' = "metadata" /\ job' = job /\ o' = o /\ payloads' = payloads /\ redone' = redone
        /\ tf' = WithoutPostinstallConfig(ModifyDynamicPartitionInfo(part, o), o)
    BY <1>2 DEF EditTargetFiles
  <2>2. DOMAIN tgt = BuildFields
    BY BuildTypes DEF IInv
  <2>3. DOMAIN custom = BuildFields /\ custom.ab = tgt.ab /\ custom.cow = tgt.cow
    BY <2>2 DEF CustomImages, BuildFields
  <2> HIDE DEF images, missing, unknown, noInfo, custom
  <2>4. DOMAIN part = BuildFields /\ part.cow = tgt.cow /\ part.ab = IF o.partial # None THEN o.partial ELSE tgt.ab
    BY <2>3 DEF GetTargetFilesZipForPartialUpdates, BuildFields
  <2>5. o.partial # None =>
          /\ \A q \in part.postinstall : IsInPartialList(q, part.ab)
          /\ \A g \in DOMAIN part.groups : part.groups[g] \subseteq part.ab
          /\ part.care_map # None => part.care_map \subseteq part.ab
    BY <2>3 DEF GetTargetFilesZipForPartialUpdates, UpdatesInfoForSpecialUpdates, BuildFields
  <2> HIDE DEF part
  <2>6. /\ DOMAIN tf' = BuildFields
        /\ tf'.ab = part.ab /\ tf'.groups = part.groups /\ tf'.care_map = part.care_map
        /\ tf'.compression = o.useCompression
        /\ tf'.cow = IF o.useCow # 0 THEN o.useCow ELSE part.cow
        /\ tf'.postinstall = IF o.skip_postinstall THEN {} ELSE part.postinstall
    BY <2>1, <2>4 DEF WithoutPostinstallConfig, ModifyDynamicPartitionInfo, BuildFields
  <2>7. Edited'
    BY <2>1, <2>4, <2>5, <2>6 DEF Edited, tgt
  <2>8. TypeOK' /\ Described' /\ Generated'
    BY <2>1 DEF IInv, TypeOK, Described, Generated, Past
  <2> QED
    BY <2>1, <2>7, <2>8, OptionsStay DEF IInv, AbSteps
<1> QED
  BY <1>1, <1>2

(* The metadata: HandleDowngradeMetadata has compared the flag with the     *)
(* dates of the build and of the partitions.                                *)
LEMMA MakeMetadataStep ==
  IInv /\ MakeMetadata => IInv'
<1> SUFFICES ASSUME IInv, MakeMetadata PROVE IInv'
  OBVIOUS
<1> DEFINE raises == ~LoadsAll \/ (Incremental /\ o.downgrade # HandleDowngradeMetadata)
<1>1. CASE raises
  BY <1>1, RaiseStep DEF MakeMetadata
<1>2. CASE ~raises
  <2>1. /\ pc = "metadata" /\ pc' = "generate" /\ job' = job /\ o' = o /\ tf' = tf
        /\ payloads' = payloads /\ redone' = redone /\ meta' = GetPackageMetadata
    BY <1>2 DEF MakeMetadata
  <2>2. Incremental => o.downgrade = HandleDowngradeMetadata
    BY <1>2
  <2> HIDE DEF raises
  <2>3. /\ {"post", "pre", "downgrade", "spl_downgrade"} \subseteq DOMAIN meta'
        /\ meta'.post = UpdateDeviceState(tgt, tf.ab)
        /\ Incremental => meta'.pre = UpdateDeviceState(src, o.srcAb)
    BY <2>1 DEF GetPackageMetadata
  <2>4. Incremental => (meta'.downgrade <=> o.downgrade) /\ (meta'.spl_downgrade <=> o.spl_downgrade)
    BY <2>1 DEF GetPackageMetadata
  <2>5. /\ meta'.post.state = PartitionStates(tgt, tf.ab)
        /\ Incremental => /\ meta'.pre.state = PartitionStates(src, o.srcAb)
                          /\ meta'.pre.build = RuntimeFingerprints(src.info, job.variables)
    BY <2>3 DEF UpdateDeviceState
  <2>6. Described'
    BY <2>1, <2>2, <2>3, <2>4, <2>5
       DEF Described, Incremental, PartitionStates, HandleDowngradeMetadata, Downgrades, src, tgt
  <2>7. Edited'
    BY <2>1 DEF IInv, Edited, Past, tgt, GenerateAb
  <2>8. TypeOK' /\ Generated'
    BY <2>1 DEF IInv, TypeOK, Generated, Past
  <2> QED
    BY <2>1, <2>6, <2>7, <2>8, OptionsStay DEF IInv, AbSteps
<1> QED
  BY <1>1, <1>2

(* After the metadata nothing that the payloads are made from changes.      *)
LEMMA MadeStays ==
  ASSUME IInv, job' = job, o' = o, tf' = tf, meta' = meta,
         pc \notin {"main", "features", "partial", "edit", "metadata", "raised"},
         pc' \notin {"main", "features", "partial", "edit", "metadata", "raised"}
  PROVE  Edited' /\ Described'
<1>1. GenerateAb(o)' = GenerateAb(o)
  BY DEF GenerateAb
<1>2. Edited'
  BY <1>1 DEF IInv, Edited, Past, tgt
<1>3. Described'
  BY <1>1 DEF IInv, Described, Past, Incremental, PartitionStates, HandleDowngradeMetadata, Downgrades, src, tgt
<1> QED
  BY <1>2, <1>3

(* The payloads that belong to a state depend on its options, target-files  *)
(* and metadata only.                                                       *)
LEMMA PayloadStays ==
  ASSUME job' = job, o' = o, tf' = tf, TimestampFlags' = TimestampFlags
  PROVE  /\ PrimaryPayload' = PrimaryPayload /\ Signed' = Signed /\ SignedBoth' = SignedBoth
         /\ Located(tf)' = Located(tf) /\ Located(OtherSlot)' = Located(OtherSlot)
         /\ GenerateAb(o)' = GenerateAb(o)
<1>1. /\ MaxTimestamp' = MaxTimestamp /\ Incremental' = Incremental /\ MinorVersion' = MinorVersion
      /\ IsZucchiniCompatible' = IsZucchiniCompatible /\ IsLz4diffCompatible' = IsLz4diffCompatible
      /\ OldImages(o)' = OldImages(o)
  BY DEF MaxTimestamp, Incremental, MinorVersion, IsZucchiniCompatible, IsLz4diffCompatible, OldImages,
         SourceImages, src, tgt
<1>2. PrimaryPayload' = PrimaryPayload
  BY <1>1 DEF PrimaryPayload
<1>3. OtherSlot' = OtherSlot
  BY DEF OtherSlot
<1>4. SecondaryPayload(OtherSlot)' = SecondaryPayload(OtherSlot)
  BY <1>2, <1>3 DEF SecondaryPayload
<1> QED
  BY <1>2, <1>3, <1>4 DEF Signed, SignedBoth, SignPayload, Located, GenerateAb

LEMMA FlagsStay ==
  ASSUME o' = o, meta' = meta
  PROVE  TimestampFlags' = TimestampFlags
  BY DEF TimestampFlags, GeneratePartitionTimestampFlags, GeneratePartitionTimestampFlagsDowngrade

(* The first payload: each of its partitions has an image.                  *)
LEMMA GenerateStep ==
  IInv /\ Generate => IInv'
<1> SUFFICES ASSUME IInv, Generate PROVE IInv'
  OBVIOUS
<1> DEFINE raises == ~Located(tf) \/ (o.lz4diff /\ IsLz4diffCompatible /\ ~tgt.erofs)
<1>1. CASE raises
  BY <1>1, RaiseStep DEF Generate
<1>2. CASE ~raises
  <2>1. /\ pc = "generate" /\ pc' = "sign" /\ job' = job /\ o' = o /\ tf' = tf /\ meta' = meta
        /\ redone' = redone /\ payloads' = <<PrimaryPayload>> /\ Located(tf)
    BY <1>2 DEF Generate
  <2>2. Generated'
    BY <2>1, FlagsStay, PayloadStays DEF Generated, Past
  <2>3. TypeOK'
    BY <2>1 DEF IInv, TypeOK
  <2> QED
    BY <2>1, <2>2, <2>3, OptionsStay, MadeStays DEF IInv, AbSteps
<1> QED
  BY <1>1, <1>2

(* Every payload is signed.                                                 *)
LEMMA SignStep ==
  IInv /\ Sign => IInv'
<1> SUFFICES ASSUME IInv, Sign PROVE IInv'
  OBVIOUS
<1>1. CASE job.keySize > MaximumSignatureSize
  BY <1>1, RaiseStep DEF Sign
<1>2. CASE ~(job.keySize > MaximumSignatureSize)
  <2>1. /\ pc = "sign" /\ pc' = "write" /\ job' = job /\ o' = o /\ tf' = tf /\ meta' = meta /\ redone' = redone
        /\ payloads' = [i \in DOMAIN payloads |-> SignPayload(payloads[i])]
    BY <1>2 DEF Sign
  <2>2. payloads' = Signed
    <3>1. payloads = <<PrimaryPayload>>
      BY <2>1 DEF IInv, Generated
    <3> QED
      BY <2>1, <3>1 DEF Signed
  <2>3. TypeOK'
    <3>1. Len(payloads') = 1
      BY <2>2 DEF Signed
    <3> QED
      BY <2>1, <3>1 DEF IInv, TypeOK
  <2>4. Generated'
    <3>1. Located(tf)
      BY <2>1 DEF IInv, Generated, Past, Admitted, AbSteps
    <3> QED
      BY <2>1, <2>2, <3>1, FlagsStay, PayloadStays DEF Generated, Past
  <2> QED
    BY <2>1, <2>3, <2>4, OptionsStay, MadeStays DEF IInv, AbSteps
<1> QED
  BY <1>1, <1>2

LEMMA WriteToZipStep ==
  IInv /\ WriteToZip => IInv'
<1> SUFFICES ASSUME IInv, WriteToZip PROVE IInv'
  OBVIOUS
<1>1. /\ pc = "write" /\ pc' \in {"secondary", "extras"} /\ job' = job /\ o' = o /\ tf' = tf /\ meta' = meta
      /\ redone' = redone /\ payloads' = payloads
  BY DEF WriteToZip
<1>2. TypeOK'
  BY <1>1 DEF IInv, TypeOK
<1>3. Generated'
  <2>1. Located(tf) /\ payloads = Signed
    BY <1>1 DEF IInv, Generated, Past, Admitted, AbSteps
  <2> QED
    BY <1>1, <2>1, FlagsStay, PayloadStays DEF Generated, Past
<1> QED
  BY <1>1, <1>2, <1>3, OptionsStay, MadeStays DEF IInv, AbSteps

(* The payload of the other slot joins the first.                           *)
LEMMA GenerateSecondaryStep ==
  IInv /\ GenerateSecondary => IInv'
<1> SUFFICES ASSUME IInv, GenerateSecondary PROVE IInv'
  OBVIOUS
<1>1. CASE ~Located(OtherSlot)
  BY <1>1, RaiseStep DEF GenerateSecondary, OtherSlot
<1>2. CASE Located(OtherSlot)
  <2>1. /\ pc = "secondary" /\ pc' = "extras" /\ job' = job /\ o' = o /\ tf' = tf /\ meta' = meta /\ redone' = redone
        /\ payloads' = Append(payloads, SignPayload(SecondaryPayload(OtherSlot)))
    BY <1>2 DEF GenerateSecondary, OtherSlot
  <2>2. payloads' = SignedBoth
    <3>1. payloads = Signed
      BY <2>1 DEF IInv, Generated
    <3> DEFINE first == SignPayload(PrimaryPayload)
               second == SignPayload(SecondaryPayload(OtherSlot))
    <3>2. payloads' = Append(<<first>>, second) /\ SignedBoth = <<first, second>>
      BY <2>1, <3>1 DEF Signed, SignedBoth
    <3> HIDE DEF first, second
    <3> QED
      BY <3>2, AppendTwo
  <2>3. TypeOK'
    <3>1. Len(payloads') = 2
      BY <2>2 DEF SignedBoth
    <3> QED
      BY <2>1, <3>1 DEF IInv, TypeOK
  <2>4. Generated'
    <3>1. Located(tf)
      BY <2>1 DEF IInv, Generated, Past, Admitted, AbSteps
    <3> QED
      BY <1>2, <2>1, <2>2, <3>1, FlagsStay, PayloadStays DEF Generated, Past
  <2> QED
    BY <2>1, <2>3, <2>4, OptionsStay, MadeStays DEF IInv, AbSteps
<1> QED
  BY <1>1, <1>2

(* The apex versions join the metadata and leave the rest of it alone.      *)
LEMMA AddExtrasStep ==
  IInv /\ AddExtras => IInv'
<1> SUFFICES ASSUME IInv, AddExtras PROVE IInv'
  OBVIOUS
<1> DEFINE apex == [apex |-> ConstructOtaApexInfo]
<1>1. /\ pc = "extras" /\ pc' = "compute" /\ job' = job /\ o' = o /\ tf' = tf /\ redone' = redone
      /\ payloads' = payloads /\ meta' = Overlay(apex, meta)
  BY DEF AddExtras
<1>2. DOMAIN apex = {"apex"}
  OBVIOUS
<1> HIDE DEF apex
<1>3. GenerateAb(o) /\ GenerateAb(o)'
  BY <1>1 DEF IInv, Admitted, AbSteps, GenerateAb
<1>4. {"post", "pre", "downgrade", "spl_downgrade"} \subseteq DOMAIN meta
  BY <1>1, <1>3 DEF IInv, Described, Past
<1>5. /\ {"post", "pre", "downgrade", "spl_downgrade"} \subseteq DOMAIN meta'
      /\ meta'.post = meta.post /\ meta'.pre = meta.pre
      /\ meta'.downgrade = meta.downgrade /\ meta'.spl_downgrade = meta.spl_downgrade
  BY <1>1, <1>2, <1>4 DEF Overlay
<1>6. Described'
  BY <1>1, <1>3, <1>5
     DEF IInv, Described, Past, Incremental, PartitionStates, HandleDowngradeMetadata, Downgrades, src, tgt
<1>7. Edited'
  BY <1>1, <1>3 DEF IInv, Edited, Past, tgt
<1>8. TimestampFlags' = TimestampFlags
  BY <1>1, <1>5
     DEF TimestampFlags, GeneratePartitionTimestampFlags, GeneratePartitionTimestampFlagsDowngrade
<1>9. Generated'
  BY <1>1, <1>3, <1>8, PayloadStays DEF IInv, Generated, Past
<1>10. TypeOK'
  BY <1>1 DEF IInv, TypeOK
<1> QED
  BY <1>1, <1>6, <1>7, <1>9, <1>10, OptionsStay DEF IInv, AbSteps

(* FinalizeMetadata works on the zip and the strings.                       *)
LEMMA FinalizeMetadataStep ==
  IInv /\ (ComputeAllPropertyFiles \/ FinalizeAllPropertyFiles \/ ReplaceMetadata \/ Verify) => IInv'
<1> SUFFICES ASSUME IInv, ComputeAllPropertyFiles \/ FinalizeAllPropertyFiles \/ ReplaceMetadata \/ Verify PROVE IInv'
  OBVIOUS
<1> DEFINE before == {"compute", "finalize", "replace", "verify"}
           after  == before \union {"insufficient", "same_file", "done", "mismatch"}
<1>1. /\ pc \in before /\ pc' \in after /\ redone' \in {redone, TRUE}
      /\ job' = job /\ o' = o /\ tf' = tf /\ meta' = meta /\ payloads' = payloads
  <2>1. CASE ComputeAllPropertyFiles
    BY <2>1 DEF ComputeAllPropertyFiles
  <2>2. CASE FinalizeAllPropertyFiles
    BY <2>2 DEF FinalizeAllPropertyFiles
  <2>3. CASE ReplaceMetadata
    BY <2>3 DEF ReplaceMetadata
  <2>4. CASE Verify
    BY <2>4 DEF Verify
  <2> QED
    BY <2>1, <2>2, <2>3, <2>4
<1>2. TypeOK'
  BY <1>1 DEF IInv, TypeOK
<1>3. Generated'
  BY <1>1, FlagsStay, PayloadStays DEF IInv, Generated, Past
<1> QED
  BY <1>1, <1>2, <1>3, OptionsStay, MadeStays DEF IInv, AbSteps

LEMMA Unchanged ==
  IInv /\ UNCHANGED vars => IInv'
<1> SUFFICES ASSUME IInv, UNCHANGED vars PROVE IInv'
  OBVIOUS
<1> USE DEF vars
<1>1. TypeOK' /\ OptionsKept' /\ PartialKept'
  BY DEF IInv, TypeOK, OptionsKept, PartialKept, Past, GenerateAb
<1>2. Admitted'
  BY DEF IInv, Admitted, Past, GenerateAb, Incremental, IsSplDowngrade, src, tgt
<1>3. Resolved'
  BY DEF IInv, Resolved, Past, GenerateAb, Incremental, src, tgt, CompressionParam, CowVersion,
         ValidateCompressionParam
<1>4. Edited' /\ Described'
  BY DEF IInv, Edited, Described, Past, GenerateAb, Incremental, PartitionStates, HandleDowngradeMetadata,
         Downgrades, src, tgt
<1>5. Generated'
  BY FlagsStay, PayloadStays DEF IInv, Generated, Past
<1> QED
  BY <1>1, <1>2, <1>3, <1>4, <1>5 DEF IInv

(* Each step of ota_from_target_files preserves what earlier ones fixed.    *)
THEOREM Inductive ==
  Spec => []IInv
<1>1. IInv /\ [Next]_vars => IInv'
  BY RaiseStep, MainStep, ResolveFeaturesStep, DetectPartialStep, EditTargetFilesStep, MakeMetadataStep,
     GenerateStep, SignStep, WriteToZipStep, GenerateSecondaryStep, AddExtrasStep, FinalizeMetadataStep, Unchanged
     DEF Next
<1> QED
  BY <1>1, InitIInv, PTL DEF Spec

(***************************************************************************)
(* The properties                                                          *)
(***************************************************************************)

(* What is known of the first payload of a finished package.                *)
LEMMA FirstPayload ==
  ASSUME IInv, Packaged
  PROVE  LET p == payloads[1] IN
         /\ p = SignPayload(PrimaryPayload) /\ p.signed
         /\ p.partitions = tf.ab /\ p.image = [q \in tf.ab |-> q]
         /\ p.timestamp = MaxTimestamp /\ p.flags = TimestampFlags
         /\ p.compression = tf.compression /\ p.cow = tf.cow /\ p.xor = o.useXor
         /\ p.minor = IF Incremental \/ o.partial # None THEN MinorVersion ELSE 0
         /\ p.lz4diff => IsLz4diffCompatible
         /\ p.groups = tf.groups /\ p.postinstall = tf.postinstall
<1> DEFINE p == payloads[1]
<1>1. p = SignPayload(PrimaryPayload)
  BY DEF IInv, Generated, Past, Packaged, Signed, SignedBoth
<1> HIDE DEF p
<1>2. /\ p.signed
      /\ p.partitions = tf.ab /\ p.image = [q \in tf.ab |-> q]
      /\ p.timestamp = MaxTimestamp /\ p.flags = TimestampFlags
      /\ p.compression = tf.compression /\ p.cow = tf.cow /\ p.xor = o.useXor
      /\ p.minor = IF Incremental \/ o.partial # None THEN MinorVersion ELSE 0
      /\ p.groups = tf.groups /\ p.postinstall = tf.postinstall
  BY <1>1 DEF SignPayload, PrimaryPayload
<1>3. p.lz4diff => IsLz4diffCompatible
  BY <1>1 DEF SignPayload, PrimaryPayload
<1> QED
  BY <1>1, <1>2, <1>3 DEF p

(* BootCombinations are among the values the metadata is computed for.      *)
LEMMA CombinationsCovered ==
  ASSUME NEW variables, NEW v \in BootCombinations(variables)
  PROVE  v \in ComputeRuntimeBuildInfos(variables)
<1>1. CASE variables = <<>>
  <2>1. v \in [{} -> UNION {variables[x] : x \in DOMAIN variables}]
    BY <1>1 DEF BootCombinations
  <2>2. v = NoValues
    BY <2>1 DEF NoValues
  <2> QED
    BY <2>2 DEF ComputeRuntimeBuildInfos
<1>2. CASE variables # <<>>
  BY <1>2 DEF ComputeRuntimeBuildInfos
<1> QED
  BY <1>1, <1>2

(* A device with the source build takes an A/B package: no date in it is    *)
(* before the device's own, its fingerprint is listed whatever its boot     *)
(* variables are, and a step back in time is announced.                     *)
LEMMA AcceptsFromInvariant ==
  IInv => DeviceAccepts
<1> SUFFICES ASSUME IInv, Packaged, Incremental
             PROVE  LET p == payloads[1] IN
                    /\ ~o.downgrade \/ SameLength(src.ts, tgt.ts) => p.timestamp >= src.ts
                    /\ DOMAIN p.flags \subseteq p.partitions
                    /\ \A q \in DOMAIN p.flags \intersect DOMAIN src.partTs \intersect src.ab :
                         ~o.downgrade \/ SameLength(src.partTs[q], tgt.partTs[q]) => p.flags[q] >= src.partTs[q]
                    /\ \A v \in BootCombinations(job.variables) : CalculateFingerprint(src.info, v) \in meta.pre.build
                    /\ (tgt.ts < src.ts \/ \E q \in DOMAIN p.flags \intersect DOMAIN src.partTs \intersect src.ab :
                                              tgt.partTs[q] < src.partTs[q]) => meta.downgrade
                    /\ IsSplDowngrade => ~tgt.releaseKeys /\ (meta.spl_downgrade \/ meta.downgrade)
  BY DEF DeviceAccepts
<1> DEFINE p == payloads[1]
<1>1. p.timestamp = MaxTimestamp /\ p.flags = TimestampFlags /\ p.partitions = tf.ab
  BY FirstPayload
<1> HIDE DEF p
<1>2. /\ o.downgrade = HandleDowngradeMetadata
      /\ meta.post.state = PartitionStates(tgt, tf.ab) /\ meta.pre.state = PartitionStates(src, o.srcAb)
      /\ meta.pre.build = RuntimeFingerprints(src.info, job.variables)
      /\ meta.downgrade <=> o.downgrade
      /\ meta.spl_downgrade <=> o.spl_downgrade
  BY DEF IInv, Described, Past, Packaged
<1>3. /\ o.srcAb = Filtered(src.ab, job.opt.partial)
      /\ IsSplDowngrade => ~tgt.releaseKeys /\ (o.spl_downgrade \/ o.downgrade)
  BY DEF IInv, Admitted, Past, Packaged
<1>4. /\ src.ts \in Nat /\ tgt.ts \in Nat
      /\ \A q \in DOMAIN src.partTs : src.partTs[q] \in Nat
      /\ \A q \in DOMAIN tgt.partTs : tgt.partTs[q] \in Nat
  BY BuildTypes DEF IInv
<1>5. tf.ab = (IF o.partial # None THEN o.partial ELSE tgt.ab)
  BY DEF IInv, Edited, Past, Packaged
<1>6. job.opt.partial # {} => o.partial = job.opt.partial
  BY DEF IInv, PartialKept, Past, Packaged
<1>7. tf.ab \intersect src.ab \subseteq o.srcAb
  BY <1>3, <1>5, <1>6 DEF Filtered
<1>8. /\ DOMAIN meta.post.state = DOMAIN tgt.partTs \intersect (tf.ab \intersect WithBuildProp)
      /\ \A q \in DOMAIN meta.post.state : meta.post.state[q] = tgt.partTs[q]
      /\ DOMAIN meta.pre.state = DOMAIN src.partTs \intersect (o.srcAb \intersect WithBuildProp)
      /\ \A q \in DOMAIN meta.pre.state : meta.pre.state[q] = src.partTs[q]
  BY <1>2 DEF PartitionStates, Restricted
<1>9. DOMAIN p.flags = DOMAIN meta.post.state
  BY <1>1 DEF TimestampFlags, GeneratePartitionTimestampFlags, GeneratePartitionTimestampFlagsDowngrade
<1>10. \A q \in DOMAIN p.flags \intersect DOMAIN src.partTs \intersect src.ab :
          /\ q \in DOMAIN meta.pre.state /\ meta.post.state[q] = tgt.partTs[q]
          /\ src.partTs[q] \in Nat /\ tgt.partTs[q] \in Nat
          /\ tgt.partTs[q] < src.partTs[q] => q \in Downgrades
  BY <1>4, <1>7, <1>8, <1>9 DEF Downgrades
<1>11. ASSUME ~o.downgrade \/ SameLength(src.ts, tgt.ts) PROVE p.timestamp >= src.ts
  <2>1. CASE o.downgrade
    BY <1>1, <1>4, <1>11, <2>1, StringOrder DEF MaxTimestamp
  <2>2. CASE ~o.downgrade
    <3>1. ~HandleDowngradeMetadata
      BY <1>2, <2>2, Zenon
    <3>2. ~(tgt.ts < src.ts)
      BY <3>1 DEF HandleDowngradeMetadata
    <3>3. p.timestamp = tgt.ts
      BY <1>1, <2>2 DEF MaxTimestamp
    <3> QED
      BY <1>4, <3>2, <3>3
  <2> QED
    BY <2>1, <2>2
<1>12. ASSUME NEW q \in DOMAIN p.flags \intersect DOMAIN src.partTs \intersect src.ab,
              ~o.downgrade \/ SameLength(src.partTs[q], tgt.partTs[q])
       PROVE  p.flags[q] >= src.partTs[q]
  <2>1. CASE o.downgrade
    <3>1. p.flags[q] = MaxString(meta.pre.state[q], meta.post.state[q])
      BY <1>1, <1>9, <1>10, <2>1 DEF TimestampFlags, GeneratePartitionTimestampFlagsDowngrade
    <3>2. p.flags[q] = MaxString(src.partTs[q], tgt.partTs[q])
      BY <1>8, <1>10, <3>1
    <3> DEFINE a == src.partTs[q]  b == tgt.partTs[q]
    <3>3. a \in Nat /\ b \in Nat /\ p.flags[q] = MaxString(a, b) /\ SameLength(a, b)
      BY <1>10, <1>12, <2>1, <3>2
    <3> HIDE DEF a, b
    <3>4. p.flags[q] >= a
      BY <3>3, StringOrder
    <3> QED
      BY <3>4 DEF a
  <2>2. CASE ~o.downgrade
    <3>1. p.flags[q] = tgt.partTs[q]
      BY <1>1, <1>10, <2>2 DEF TimestampFlags, GeneratePartitionTimestampFlags
    <3>2. ~HandleDowngradeMetadata
      BY <1>2, <2>2, Zenon
    <3>3. ~(tgt.partTs[q] < src.partTs[q])
      BY <1>10, <3>2 DEF HandleDowngradeMetadata
    <3> QED
      BY <1>10, <3>1, <3>3
  <2> QED
    BY <2>1, <2>2
<1>13. ASSUME NEW v \in BootCombinations(job.variables)
       PROVE  CalculateFingerprint(src.info, v) \in meta.pre.build
  BY <1>2, CombinationsCovered DEF RuntimeFingerprints
<1>14. (tgt.ts < src.ts \/ \E q \in DOMAIN p.flags \intersect DOMAIN src.partTs \intersect src.ab :
                              tgt.partTs[q] < src.partTs[q]) => meta.downgrade
  BY <1>2, <1>10 DEF HandleDowngradeMetadata
<1>15. DOMAIN p.flags \subseteq p.partitions
  BY <1>1, <1>8, <1>9
<1> QED
  BY <1>2, <1>3, <1>11, <1>12, <1>13, <1>14, <1>15 DEF p

(* The features of the payload are within what the installing build can do. *)
LEMMA UnderstandsFromInvariant ==
  IInv => InstallerUnderstands
<1> SUFFICES ASSUME IInv, Packaged PROVE InstallerUnderstands
  BY DEF InstallerUnderstands
<1> DEFINE p == payloads[1]
<1>1. /\ p.compression = tf.compression /\ p.cow = tf.cow /\ p.xor = o.useXor
      /\ p.minor = IF Incremental \/ o.partial # None THEN MinorVersion ELSE 0
      /\ p.lz4diff => IsLz4diffCompatible
  BY FirstPayload
<1> HIDE DEF p
<1>2. tf.compression = o.useCompression /\ tf.cow = IF o.useCow # 0 THEN o.useCow ELSE tgt.cow
  BY DEF IInv, Edited, Past, Packaged
<1>3. /\ ValidateCompressionParam(job.opt)
      /\ o.useCompression = CompressionParam(job.opt)
      /\ o.useCow = CowVersion(job.opt)
      /\ Incremental /\ ~o.disable_vabc => src.vabc /\ tgt.vabc
      /\ o.useXor => ~o.disable_vabc /\ (Incremental => src.xor)
  BY DEF IInv, Resolved, Past, Packaged
<1>4. tgt.cow \in Nat \ {1} /\ VendorApiLevel(tgt.info) \in Int
  BY BuildTypes DEF IInv
<1>5. tgt.compression \in DOMAIN Support \union {""}
  BY BuildTypes DEF IInv
<1>6. Incremental => src.cow \in Nat \ {1} /\ src.minor \in Int
  BY BuildTypes DEF IInv
<1>7. o.minor = job.opt.minor
  BY DEF IInv, OptionsKept, OptionFields, Rewritten
<1>8. ASSUME Incremental
      PROVE  /\ job.opt.compression = "" => p.compression = src.compression
             /\ job.opt.cow = 0 /\ SameLength(src.cow, tgt.cow) => p.cow <= (IF src.cow = 0 THEN 2 ELSE src.cow)
             /\ job.opt.minor = 0 => p.minor <= src.minor
             /\ p.vabc /\ ~o.disable_vabc => src.vabc
             /\ p.xor => src.xor /\ src.vabc /\ tgt.vabc /\ ~o.disable_vabc
             /\ p.lz4diff => src.lz4
  <2>1. job.opt.compression = "" => p.compression = src.compression
    BY <1>1, <1>2, <1>3, <1>8 DEF CompressionParam
  <2>2. ASSUME job.opt.cow = 0, SameLength(src.cow, tgt.cow) PROVE p.cow <= (IF src.cow = 0 THEN 2 ELSE src.cow)
    <3>1. o.useCow = IF src.cow = 0 \/ tgt.cow = 0 THEN 2
                     ELSE IF src.cow # tgt.cow THEN MinString(src.cow, tgt.cow) ELSE 0
      BY <1>3, <1>8, <2>2 DEF CowVersion
    <3>2. src.cow \in Int /\ tgt.cow \in Int
      BY <1>4, <1>8, <1>6
    <3> DEFINE a == src.cow  b == tgt.cow
    <3>3. /\ a \in Nat \ {1} /\ b \in Nat \ {1}
          /\ SameLength(a, b)
          /\ p.cow = IF a = 0 \/ b = 0 THEN 2
                     ELSE IF a # b /\ MinString(a, b) # 0 THEN MinString(a, b) ELSE b
      BY <1>1, <1>2, <1>4, <1>8, <1>6, <2>2, <3>1
    <3> HIDE DEF a, b
    <3>4. MinString(a, b) \in {a, b} /\ MinString(a, b) <= a
      BY <3>3, StringOrder
    <3>5. p.cow <= (IF a = 0 THEN 2 ELSE a)
      BY <3>3, <3>4
    <3> QED
      BY <3>5 DEF a
  <2>3. job.opt.minor = 0 => p.minor <= src.minor
    BY <1>1, <1>7, <1>8, <1>6 DEF MinorVersion
  <2>4. /\ p.vabc /\ ~o.disable_vabc => src.vabc
        /\ p.xor => src.xor /\ src.vabc /\ tgt.vabc /\ ~o.disable_vabc
    BY <1>1, <1>3, <1>8
  <2>5. p.lz4diff => src.lz4
    BY <1>1 DEF IsLz4diffCompatible
  <2> QED
    BY <2>1, <2>2, <2>3, <2>4, <2>5
<1>9. ASSUME ~Incremental
      PROVE  /\ (p.compression # "" /\ p.compression # "gz") => VendorApiLevel(tgt.info) >= Support[p.compression]
             /\ (job.opt.cow = 0 /\ p.cow >= 3 /\ SameLength(tgt.cow, 3)) => VendorApiLevel(tgt.info) >= 35
  <2> DEFINE level == VendorApiLevel(tgt.info)
  <2>1. ASSUME p.compression # "", p.compression # "gz" PROVE level >= Support[p.compression]
    <3>1. p.compression = CompressionParam(job.opt)
      BY <1>1, <1>2, <1>3
    <3>2. CASE job.opt.compression # ""
      BY <1>3, <3>1, <3>2 DEF CompressionParam, ValidateCompressionParam
    <3>3. CASE job.opt.compression = ""
      <4>1. p.compression = IF tgt.compression # "" /\ level < Support[tgt.compression] THEN "gz" ELSE tgt.compression
        BY <1>9, <3>1, <3>3 DEF CompressionParam
      <4>2. p.compression = tgt.compression /\ tgt.compression # "" /\ ~(level < Support[tgt.compression])
        BY <2>1, <4>1
      <4>3. tgt.compression \in DOMAIN Support
        BY <1>5, <4>2
      <4>4. \A m \in DOMAIN Support : Support[m] \in Int
        BY DEF Support
      <4> DEFINE needed == Support[tgt.compression]
      <4>5. level \in Int /\ needed \in Int /\ ~(level < needed)
        BY <1>4, <4>2, <4>3, <4>4
      <4> HIDE DEF level, needed
      <4>6. level >= needed
        BY <4>5
      <4> QED
        BY <4>2, <4>6 DEF needed
    <3> QED
      BY <3>2, <3>3
  <2>2. ASSUME job.opt.cow = 0, p.cow >= 3, SameLength(tgt.cow, 3) PROVE level >= 35
    <3>1. o.useCow = IF tgt.cow = 0 \/ (tgt.cow >= 3 /\ level < 35) THEN 2 ELSE 0
      BY <1>3, <1>4, <1>9, <2>2 DEF CowVersion, StringLess
    <3> HIDE DEF level
    <3>2. p.cow = IF tgt.cow = 0 \/ (tgt.cow >= 3 /\ level < 35) THEN 2 ELSE tgt.cow
      BY <1>1, <1>2, <3>1
    <3>3. level \in Int
      BY <1>4 DEF level
    <3> QED
      BY <1>4, <2>2, <3>2, <3>3
  <2> QED
    BY <2>1, <2>2
<1> QED
  BY <1>8, <1>9 DEF InstallerUnderstands, p

(* No list of a package names a partition that the package does not update. *)
LEMMA AgreeFromInvariant ==
  IInv => ListsAgree
<1> SUFFICES ASSUME IInv, Packaged PROVE ListsAgree
  BY DEF ListsAgree
<1> DEFINE p == payloads[1]  q == payloads[2]
<1>1. /\ p.signed /\ p.partitions = tf.ab /\ p.image = [x \in tf.ab |-> x]
      /\ p.groups = tf.groups /\ p.postinstall = tf.postinstall
  BY FirstPayload
<1>2. /\ DOMAIN tf = BuildFields
      /\ o.partial # None =>
           /\ \A x \in tf.postinstall : IsInPartialList(x, tf.ab)
           /\ \A g \in DOMAIN tf.groups : tf.groups[g] \subseteq tf.ab
           /\ tf.care_map # None => tf.care_map \subseteq tf.ab
  BY DEF IInv, Edited, Past, Packaged
<1>3. tf.ab \subseteq tf.images
  BY DEF IInv, Generated, Past, Packaged, Located
<1>4. payloads = Signed \/ (payloads = SignedBoth /\ Located(OtherSlot))
  BY DEF IInv, Generated, Past, Packaged
<1>5. Len(payloads) = 2 => payloads = SignedBoth /\ q = SignPayload(SecondaryPayload(OtherSlot)) /\ Located(OtherSlot)
  <2>1. Len(Signed) = 1
    BY DEF Signed
  <2>2. SignedBoth[2] = SignPayload(SecondaryPayload(OtherSlot))
    BY DEF SignedBoth
  <2> QED
    BY <1>4, <2>1, <2>2
<1>6. /\ OtherSlot.ab = {x \in tf.ab : x \notin Skipped} /\ OtherSlot.virtualAb = FALSE
      /\ OtherSlot.groups = [g \in DOMAIN tf.groups |-> {x \in tf.groups[g] : x \notin Skipped}]
      /\ "system" \in OtherSlot.images => "system_other" \in tf.images
  BY <1>2 DEF OtherSlot, GetTargetFilesZipForSecondaryImages, UpdatesInfoForSpecialUpdates, BuildFields
<1> HIDE DEF p, q
<1>7. ASSUME Len(payloads) = 2
      PROVE  /\ q.signed /\ q.partitions = OtherSlot.ab /\ q.snapshots = OtherSlot.virtualAb /\ q.groups = OtherSlot.groups
             /\ q.image = [x \in OtherSlot.ab |-> IF x = "system" THEN "system_other" ELSE x]
  <2> DEFINE r == SecondaryPayload(OtherSlot)
  <2>1. /\ r.partitions = OtherSlot.ab /\ r.snapshots = OtherSlot.virtualAb /\ r.groups = OtherSlot.groups
        /\ r.image = [x \in OtherSlot.ab |-> IF x = "system" THEN "system_other" ELSE x]
        /\ {"signed", "partitions", "snapshots", "groups", "image"} \subseteq DOMAIN r
    BY DEF SecondaryPayload, PrimaryPayload
  <2>2. q = [r EXCEPT !.signed = TRUE]
    BY <1>5, <1>7 DEF SignPayload
  <2> HIDE DEF r
  <2> QED
    BY <2>1, <2>2
<1>8. \A i \in DOMAIN payloads : payloads[i].signed
  <2>1. CASE Len(payloads) = 2
    <3>1. DOMAIN payloads = {1, 2}
      BY <1>5, <2>1 DEF SignedBoth
    <3> QED
      BY <1>1, <1>7, <2>1, <3>1 DEF p, q
  <2>2. CASE Len(payloads) # 2
    <3>1. Len(SignedBoth) = 2
      BY DEF SignedBoth
    <3>2. payloads = Signed
      BY <1>4, <2>2, <3>1
    <3>3. DOMAIN payloads = {1}
      BY <3>2 DEF Signed
    <3> QED
      BY <1>1, <3>3 DEF p
  <2> QED
    BY <2>1, <2>2
<1>9. ASSUME Len(payloads) = 2
      PROVE  /\ q.partitions \intersect Skipped = {} /\ q.partitions \subseteq p.partitions /\ ~q.snapshots
             /\ "system" \in q.partitions => q.image["system"] = "system_other" /\ "system_other" \in tf.images
             /\ \A g \in DOMAIN q.groups : q.groups[g] \intersect Skipped = {}
  <2>1. q.partitions \intersect Skipped = {} /\ q.partitions \subseteq p.partitions /\ ~q.snapshots
    BY <1>1, <1>6, <1>7, <1>9
  <2>2. "system" \in q.partitions => q.image["system"] = "system_other" /\ "system_other" \in tf.images
    BY <1>5, <1>6, <1>7, <1>9 DEF Located
  <2>3. \A g \in DOMAIN q.groups : q.groups[g] \intersect Skipped = {}
    BY <1>6, <1>7, <1>9
  <2> QED
    BY <2>1, <2>2, <2>3
<1>10. /\ \A x \in p.partitions : p.image[x] \in tf.images
       /\ o.partial # None =>
            /\ \A x \in p.postinstall : x \in p.partitions \/ \E r \in p.partitions : <<r, x>> \in EndsWith
            /\ \A g \in DOMAIN p.groups : p.groups[g] \subseteq p.partitions
            /\ tf.care_map # None => tf.care_map \subseteq p.partitions
  BY <1>1, <1>2, <1>3 DEF IsInPartialList
<1> QED
  BY <1>8, <1>9, <1>10 DEF ListsAgree, p, q

(* TypeOK: the program's counter, and at most two payloads.                 *)
THEOREM TypeCorrect ==
  Spec => []TypeOK
<1>1. IInv => TypeOK
  BY DEF IInv
<1> QED
  BY <1>1, Inductive, PTL

(* GetPackageMetadata and the timestamp flags: for every pair of builds and *)
(* all options, the device that runs the source build takes the package     *)
(* (the dates of a downgrade only where they have the same length, as the   *)
(* code takes the greater of two strings).                                  *)
THEOREM Accepted ==
  Spec => []DeviceAccepts
  BY AcceptsFromInvariant, Inductive, PTL

(* GenerateAbOtaPackage: for every pair of builds and all options, what was *)
(* not forced of compression method, cow version, minor version, XOR and    *)
(* lz4diff is within what the installing build understands; VABC itself     *)
(* only where the program has not disabled it.                              *)
THEOREM Understood ==
  Spec => []InstallerUnderstands
  BY UnderstandsFromInvariant, Inductive, PTL

(* The rewriting of target-files: for every partial list, skipped partition *)
(* and option, the lists in a package agree, the postinstall list up to the *)
(* names that end with an updated partition's.                              *)
THEOREM Agreeing ==
  Spec => []ListsAgree
  BY AgreeFromInvariant, Inductive, PTL

(***************************************************************************)
(* FinalizeMetadata                                                        *)
(***************************************************************************)

(* A nonempty set of naturals has a smallest element.                      *)
LEMMA Smallest ==
  ASSUME NEW S, S \subseteq Nat, S # {}
  PROVE  \E m \in S : \A k \in S : m <= k
<1> DEFINE less == {p \in Nat \X Nat : p[1] < p[2]}
<1>1. IsWellFoundedOn(less, Nat)
  BY NatLessThanWellFounded DEF OpToRel
<1>2. PICK m \in S : \A k \in S : ~(<<k, m>> \in less)
  <2> HIDE DEF less
  <2> QED BY <1>1, WFMin
<1>3. ASSUME NEW k \in S PROVE m <= k
  <2>1. k \in Nat /\ m \in Nat /\ <<k, m>> \notin less
    BY <1>2
  <2>2. QED
    BY <2>1
<1>4. QED
  BY <1>3

(* Induction over the numbers from 0 to n, for a set of numbers. *)
LEMMA UpTo ==
  ASSUME NEW n \in Nat, NEW S, 0 \in S, \A m \in 0..(n - 1) : m \in S => m + 1 \in S
  PROVE  \A m \in 0..n : m \in S
<1> DEFINE bad == {m \in 0..n : m \notin S}
<1> SUFFICES ASSUME bad # {} PROVE FALSE
  OBVIOUS
<1>1. bad \subseteq Nat
  OBVIOUS
<1> HIDE DEF bad
<1>2. PICK m \in bad : \A k \in bad : m <= k
  BY <1>1, Smallest
<1> USE DEF bad
<1>3. m # 0 /\ m \in 0..n /\ m \notin S
  BY <1>2
<1>4. m - 1 \in 0..(n - 1) /\ m - 1 \in 0..n /\ m - 1 \notin bad
  BY <1>2, <1>3
<1>5. m - 1 \in S /\ (m - 1) + 1 = m
  BY <1>4
<1> QED BY <1>5, <1>4, <1>3

(* The partial results of Among. *)
Keeps(s, S, f, n) ==
  /\ DOMAIN f = 0..n /\ f[0] = <<>>
  /\ \A i \in 1..n : f[i] = IF s[i] \in S THEN Append(f[i - 1], s[i]) ELSE f[i - 1]

(* The function that the local recursion of Among defines exists for every  *)
(* length.                                                                  *)
LEMMA KeepsExists ==
  ASSUME NEW X, NEW s \in Seq(X), NEW S
  PROVE  \A n \in 0..Len(s) : \E f \in [0..n -> Seq(X)] : Keeps(s, S, f, n)
<1> DEFINE T == {n \in 0..Len(s) : \E f \in [0..n -> Seq(X)] : Keeps(s, S, f, n)}
<1>1. 0 \in T
  <2> DEFINE e == [i \in 0..0 |-> <<>>]
  <2>1. e \in [0..0 -> Seq(X)] /\ DOMAIN e = 0..0 /\ e[0] = <<>>
    OBVIOUS
  <2>2. Keeps(s, S, e, 0)
    BY <2>1 DEF Keeps
  <2>3. 0 \in 0..Len(s)
    OBVIOUS
  <2> HIDE DEF e
  <2> QED BY <2>1, <2>2, <2>3
<1>2. ASSUME NEW m \in 0..(Len(s) - 1), m \in T PROVE m + 1 \in T
  <2>1. PICK f \in [0..m -> Seq(X)] : Keeps(s, S, f, m)
    BY <1>2
  <2> DEFINE last == IF s[m + 1] \in S THEN Append(f[m], s[m + 1]) ELSE f[m]
             g == [i \in 0..(m + 1) |-> IF i <= m THEN f[i] ELSE last]
  <2>2. last \in Seq(X)
    <3>1. s[m + 1] \in X /\ f[m] \in Seq(X)
      OBVIOUS
    <3> QED BY <3>1
  <2> HIDE DEF last
  <2>3. g \in [0..(m + 1) -> Seq(X)]
    BY <2>2
  <2>4. ASSUME NEW i \in 1..(m + 1) PROVE g[i] = IF s[i] \in S THEN Append(g[i - 1], s[i]) ELSE g[i - 1]
    <3>1. CASE i <= m
      <4>1. g[i] = f[i] /\ g[i - 1] = f[i - 1] /\ i \in 1..m
        BY <3>1
      <4> QED BY <4>1, <2>1 DEF Keeps
    <3>2. CASE i = m + 1
      <4>1. g[i] = last /\ g[i - 1] = f[m]
        BY <3>2
      <4> QED BY <4>1, <3>2 DEF last
    <3> QED BY <3>1, <3>2
  <2>5. DOMAIN g = 0..(m + 1) /\ g[0] = <<>>
    BY <2>1 DEF Keeps
  <2>6. Keeps(s, S, g, m + 1)
    <3> HIDE DEF g
    <3> QED BY <2>4, <2>5 DEF Keeps
  <2> HIDE DEF g
  <2> QED BY <2>3, <2>6
<1>3. Len(s) \in Nat
  OBVIOUS
<1> HIDE DEF T
<1>4. \A m \in 0..Len(s) : m \in T
  BY <1>1, <1>2, <1>3, UpTo
<1> QED BY <1>4 DEF T

(* Among keeps the elements of s that are in S, and nothing else.           *)
LEMMA AmongElements ==
  ASSUME NEW X, NEW s \in Seq(X), NEW S
  PROVE  /\ Among(s, S) \in Seq(X)
         /\ ToSet(Among(s, S)) = ToSet(s) \intersect S
<1> DEFINE R(h) == h = [n \in 0..Len(s) |->
                          IF n = 0 THEN <<>> ELSE IF s[n] \in S THEN Append(h[n - 1], s[n]) ELSE h[n - 1]]
           f == CHOOSE h : R(h)
<1>1. Among(s, S) = f[Len(s)]
  BY DEF Among
<1>2. PICK g \in [0..Len(s) -> Seq(X)] : Keeps(s, S, g, Len(s))
  <2>1. Len(s) \in 0..Len(s)
    OBVIOUS
  <2> QED BY <2>1, KeepsExists
<1>3. R(g)
  <2>1. ASSUME NEW n \in 0..Len(s)
        PROVE  g[n] = IF n = 0 THEN <<>> ELSE IF s[n] \in S THEN Append(g[n - 1], s[n]) ELSE g[n - 1]
    <3>1. n = 0 \/ n \in 1..Len(s)
      OBVIOUS
    <3>2. n # 0 => g[n] = IF s[n] \in S THEN Append(g[n - 1], s[n]) ELSE g[n - 1]
      BY <1>2, <3>1 DEF Keeps
    <3> QED BY <1>2, <3>2 DEF Keeps
  <2> QED BY <2>1
<1>4. R(f)
  <2> HIDE DEF R
  <2> QED BY <1>3
<1> HIDE DEF f
<1>5. /\ f[0] = <<>>
      /\ \A n \in 1..Len(s) : f[n] = IF s[n] \in S THEN Append(f[n - 1], s[n]) ELSE f[n - 1]
  <2>1. \A n \in 0..Len(s) :
          f[n] = IF n = 0 THEN <<>> ELSE IF s[n] \in S THEN Append(f[n - 1], s[n]) ELSE f[n - 1]
    BY <1>4, Zenon
  <2>2. 0 \in 0..Len(s) /\ \A n \in 1..Len(s) : n \in 0..Len(s) /\ n # 0
    OBVIOUS
  <2> HIDE DEF R
  <2> QED BY <2>1, <2>2, Zenon
<1> HIDE DEF R
<1> DEFINE In(n) == \A x : (\E i \in 1..Len(f[n]) : f[n][i] = x) <=> x \in S /\ \E i \in 1..n : s[i] = x
           T == {n \in 0..Len(s) : f[n] \in Seq(X) /\ In(n)}
<1>6. 0 \in T
  <2>1. 0 \in 0..Len(s) /\ f[0] \in Seq(X) /\ Len(f[0]) = 0
    BY <1>5
  <2>2. In(0)
    BY <2>1
  <2> HIDE DEF In
  <2> QED BY <2>1, <2>2
<1>7. ASSUME NEW m \in 0..(Len(s) - 1), m \in T PROVE m + 1 \in T
  <2>1. f[m] \in Seq(X) /\ In(m)
    BY <1>7
  <2>2. m + 1 \in 1..Len(s) /\ (m + 1) - 1 = m /\ s[m + 1] \in X
    OBVIOUS
  <2>3. f[m + 1] = IF s[m + 1] \in S THEN Append(f[m], s[m + 1]) ELSE f[m]
    BY <1>5, <2>2
  <2>4. CASE s[m + 1] \notin S
    <3>1. f[m + 1] = f[m]
      BY <2>3, <2>4
    <3>2. In(m + 1)
      BY <2>1, <2>4, <3>1
    <3> HIDE DEF In
    <3> QED BY <2>1, <3>1, <3>2
  <2>5. CASE s[m + 1] \in S
    <3>1. /\ f[m + 1] \in Seq(X) /\ Len(f[m + 1]) = Len(f[m]) + 1
          /\ \A i \in 1..Len(f[m]) : f[m + 1][i] = f[m][i]
          /\ f[m + 1][Len(f[m]) + 1] = s[m + 1]
      BY <2>1, <2>2, <2>3, <2>5
    <3>2. ASSUME NEW x, NEW i \in 1..Len(f[m + 1]), f[m + 1][i] = x
          PROVE  x \in S /\ \E j \in 1..(m + 1) : s[j] = x
      <4>1. CASE i <= Len(f[m])
        <5>1. i \in 1..Len(f[m]) /\ f[m][i] = x
          BY <2>1, <3>1, <3>2, <4>1
        <5>2. x \in S /\ \E j \in 1..m : s[j] = x
          BY <2>1, <5>1
        <5> QED BY <5>2
      <4>2. CASE i = Len(f[m]) + 1
        BY <2>5, <3>1, <3>2, <4>2
      <4> QED BY <2>1, <3>1, <4>1, <4>2
    <3>3. ASSUME NEW x, x \in S, NEW j \in 1..(m + 1), s[j] = x
          PROVE  \E i \in 1..Len(f[m + 1]) : f[m + 1][i] = x
      <4>1. CASE j <= m
        <5>1. PICK i \in 1..Len(f[m]) : f[m][i] = x
          <6>1. j \in 1..m
            BY <4>1
          <6> QED BY <2>1, <3>3, <6>1
        <5>2. i \in 1..Len(f[m + 1]) /\ f[m + 1][i] = x
          BY <2>1, <3>1, <5>1
        <5> QED BY <5>2
      <4>2. CASE j = m + 1
        <5>1. Len(f[m]) + 1 \in 1..Len(f[m + 1])
          BY <2>1, <3>1
        <5> QED BY <3>1, <3>3, <4>2, <5>1
      <4> QED BY <4>1, <4>2
    <3>4. In(m + 1)
      BY <3>2, <3>3
    <3> HIDE DEF In
    <3> QED BY <3>1, <3>4
  <2> QED BY <2>4, <2>5
<1>8. Len(s) \in Nat /\ Len(s) \in 0..Len(s)
  OBVIOUS
<1> HIDE DEF T
<1>9. Len(s) \in T
  BY <1>6, <1>7, <1>8, UpTo
<1>10. f[Len(s)] \in Seq(X) /\ In(Len(s))
  BY <1>9 DEF T
<1>11. DOMAIN s = 1..Len(s) /\ DOMAIN f[Len(s)] = 1..Len(f[Len(s)])
  BY <1>10
<1>12. \A x : x \in ToSet(f[Len(s)]) <=> x \in ToSet(s) \intersect S
  BY <1>10, <1>11 DEF ToSet
<1> HIDE DEF In
<1> QED BY <1>1, <1>10, <1>12

(* A zip: entries of known names, with a size and an extra field.           *)
IsZip(z) ==
  /\ z \in Seq(ToSet(z))
  /\ \A i \in DOMAIN z : {"name", "size", "extra"} \subseteq DOMAIN z[i] /\ z[i].name \in EntryNames

(* A sequence is one over its own elements.                                 *)
LEMMA OwnElements ==
  ASSUME NEW X, NEW z \in Seq(X)
  PROVE  z \in Seq(ToSet(z)) /\ DOMAIN z = 1..Len(z) /\ Len(z) \in Nat
<1>1. DOMAIN z = 1..Len(z) /\ Len(z) \in Nat
  OBVIOUS
<1>2. z \in [1..Len(z) -> ToSet(z)]
  <2>1. \A i \in 1..Len(z) : z[i] \in ToSet(z)
    BY <1>1 DEF ToSet
  <2>2. z = [i \in 1..Len(z) |-> z[i]]
    OBVIOUS
  <2> QED BY <2>1, <2>2
<1> QED BY <1>1, <1>2

(* At finds an entry of the name.                                           *)
LEMMA AtName ==
  ASSUME NEW z, NEW n \in Names(z)
  PROVE  At(z, n) \in DOMAIN z /\ z[At(z, n)].name = n
<1>1. \E i \in DOMAIN z : z[i].name = n
  BY DEF Names
<1> QED BY <1>1 DEF At

(* Joining two zips.                                                        *)
LEMMA ZipConcat ==
  ASSUME NEW a, IsZip(a), NEW b, IsZip(b)
  PROVE  /\ IsZip(a \o b) /\ Names(a \o b) = Names(a) \union Names(b)
         /\ \A i \in DOMAIN (a \o b) : \/ \E j \in DOMAIN a : (a \o b)[i] = a[j]
                                       \/ \E j \in DOMAIN b : (a \o b)[i] = b[j]
<1> DEFINE X == ToSet(a) \union ToSet(b)
           c == a \o b
<1>1. a \in Seq(X) /\ b \in Seq(X)
  <2>1. ToSet(a) \subseteq X /\ ToSet(b) \subseteq X
    OBVIOUS
  <2>2. a \in Seq(ToSet(a)) /\ b \in Seq(ToSet(b))
    BY DEF IsZip
  <2> HIDE DEF X
  <2> QED BY <2>1, <2>2, SeqMonotonic
<1> HIDE DEF X
<1>2. /\ c \in Seq(X) /\ Len(a) \in Nat /\ Len(b) \in Nat /\ Len(c) = Len(a) + Len(b)
      /\ DOMAIN a = 1..Len(a) /\ DOMAIN b = 1..Len(b) /\ DOMAIN c = 1..Len(c)
      /\ \A i \in 1..Len(c) : c[i] = IF i <= Len(a) THEN a[i] ELSE b[i - Len(a)]
  BY <1>1
<1> HIDE DEF c
<1>3. ASSUME NEW i \in DOMAIN c PROVE (\E j \in DOMAIN a : c[i] = a[j]) \/ (\E j \in DOMAIN b : c[i] = b[j])
  <2>1. i \in 1..Len(c) /\ Len(c) = Len(a) + Len(b) /\ Len(a) \in Nat /\ Len(b) \in Nat
    BY <1>2
  <2>2. CASE i <= Len(a)
    BY <1>2, <2>1, <2>2
  <2>3. CASE ~(i <= Len(a))
    <3>1. i - Len(a) \in 1..Len(b)
      BY <2>1, <2>3
    <3>2. c[i] = b[i - Len(a)]
      BY <1>2, <2>1, <2>3
    <3> QED BY <1>2, <3>1, <3>2
  <2> QED BY <2>2, <2>3
<1>4. \A j \in DOMAIN a : j \in DOMAIN c /\ c[j] = a[j]
  BY <1>2
<1>5. ASSUME NEW j \in DOMAIN b PROVE j + Len(a) \in DOMAIN c /\ c[j + Len(a)] = b[j]
  <2>0. j \in 1..Len(b) /\ Len(c) = Len(a) + Len(b) /\ Len(a) \in Nat /\ Len(b) \in Nat
    BY <1>2
  <2>1. j + Len(a) \in 1..Len(c) /\ (j + Len(a)) - Len(a) = j /\ ~(j + Len(a) <= Len(a))
    BY <2>0
  <2>2. c[j + Len(a)] = IF j + Len(a) <= Len(a) THEN a[j + Len(a)] ELSE b[(j + Len(a)) - Len(a)]
    BY <1>2, <2>1
  <2> QED BY <1>2, <2>1, <2>2
<1>6. IsZip(c)
  <2>1. c \in Seq(ToSet(c))
    BY <1>2, OwnElements
  <2> QED BY <1>3, <2>1 DEF IsZip
<1>7. Names(c) = Names(a) \union Names(b)
  <2>1. \A n : n \in Names(c) => n \in Names(a) \union Names(b)
    BY <1>3 DEF Names
  <2>2. \A n : n \in Names(a) \union Names(b) => n \in Names(c)
    BY <1>4, <1>5 DEF Names
  <2> QED BY <2>1, <2>2
<1> QED BY <1>3, <1>6, <1>7 DEF c

(* zip -d leaves the entries of the other names.                            *)
LEMMA Deleted ==
  ASSUME NEW z, IsZip(z), NEW names
  PROVE  /\ IsZip(ZipDelete(z, names)) /\ Names(ZipDelete(z, names)) = Names(z) \ names
         /\ \A i \in DOMAIN ZipDelete(z, names) : \E j \in DOMAIN z : ZipDelete(z, names)[i] = z[j]
<1> DEFINE S == {e \in ToSet(z) : e.name \notin names}
           d == Among(z, S)
<1>1. /\ d \in Seq(ToSet(z))
      /\ \A x : (\E i \in DOMAIN d : d[i] = x) <=> x \in S /\ \E i \in DOMAIN z : z[i] = x
  <2>1. z \in Seq(ToSet(z))
    BY DEF IsZip
  <2> HIDE DEF S
  <2>2. d \in Seq(ToSet(z)) /\ ToSet(d) = ToSet(z) \intersect S
    BY <2>1, AmongElements
  <2> QED BY <2>2 DEF ToSet
<1>2. d = ZipDelete(z, names)
  BY DEF ZipDelete
<1> HIDE DEF d
<1>3. \A i \in DOMAIN d : d[i].name \notin names /\ \E j \in DOMAIN z : d[i] = z[j]
  BY <1>1
<1>4. \A j \in DOMAIN z : z[j].name \notin names => \E i \in DOMAIN d : d[i] = z[j]
  <2> SUFFICES ASSUME NEW j \in DOMAIN z, z[j].name \notin names PROVE \E i \in DOMAIN d : d[i] = z[j]
    OBVIOUS
  <2>1. z[j] \in S
    BY DEF ToSet
  <2> HIDE DEF S
  <2> QED BY <1>1, <2>1
<1>5. IsZip(d)
  <2>1. d \in Seq(ToSet(d))
    BY <1>1, OwnElements
  <2> QED BY <1>3, <2>1 DEF IsZip
<1>6. Names(d) = Names(z) \ names
  <2>1. \A n : n \in Names(d) => n \in Names(z) \ names
    BY <1>3 DEF Names
  <2>2. \A n : n \in Names(z) \ names => n \in Names(d)
    <3> SUFFICES ASSUME NEW n \in Names(z), n \notin names PROVE n \in Names(d)
      OBVIOUS
    <3>1. PICK j \in DOMAIN z : z[j].name = n
      BY DEF Names
    <3>2. PICK i \in DOMAIN d : d[i] = z[j]
      BY <1>4, <3>1
    <3> QED BY <3>1, <3>2 DEF Names
  <2> QED BY <2>1, <2>2
<1> QED BY <1>2, <1>3, <1>5, <1>6

(* The zip that WriteMetadata leaves: the metadata entries have the size    *)
(* that the lengths of the strings give, and the others stay.               *)
Lengths(ss) == [i \in DOMAIN ss |-> ss[i].length]
MetadataWritten(z, ss, base) == WriteMetadata(ZipDelete(z, MetadataEntries), ss, base)

LEMMA Written ==
  ASSUME NEW z, IsZip(z), NEW ss, NEW base
  PROVE  LET w == MetadataWritten(z, ss, base)
         IN  /\ IsZip(w) /\ Names(w) = Names(z) \union MetadataEntries
             /\ \A n \in MetadataEntries : w[At(w, n)] = Entry(n, base + SumFunction(Lengths(ss)))
             /\ \A n \in Names(z) \ MetadataEntries : \E j \in DOMAIN z : z[j].name = n /\ w[At(w, n)] = z[j]
<1> DEFINE w == MetadataWritten(z, ss, base)
           d == ZipDelete(z, MetadataEntries)
           size == base + SumFunction(Lengths(ss))
           m == <<Entry(METADATA_PROTO_NAME, size), Entry(METADATA_NAME, size)>>
<1>1. w = d \o m
  BY DEF MetadataWritten, WriteMetadata, Lengths
<1>2. /\ IsZip(d) /\ Names(d) = Names(z) \ MetadataEntries
      /\ \A i \in DOMAIN d : \E j \in DOMAIN z : d[i] = z[j]
  BY Deleted
<1> HIDE DEF d, size
<1>3. /\ DOMAIN m = 1..2 /\ m[1] = Entry(METADATA_PROTO_NAME, size) /\ m[2] = Entry(METADATA_NAME, size)
      /\ m \in Seq({Entry(METADATA_PROTO_NAME, size), Entry(METADATA_NAME, size)})
  OBVIOUS
<1> HIDE DEF m
<1>4. \A i \in DOMAIN m : m[i].name \in MetadataEntries /\ m[i] = Entry(m[i].name, size)
  BY <1>3 DEF Entry, MetadataEntries
<1>5. IsZip(m)
  <2>1. m \in Seq(ToSet(m))
    BY <1>3, OwnElements
  <2>2. \A i \in DOMAIN m : {"name", "size", "extra"} \subseteq DOMAIN m[i]
    BY <1>3 DEF Entry
  <2> QED BY <1>4, <2>1, <2>2 DEF IsZip, EntryNames
<1>6. Names(m) = MetadataEntries
  <2>1. \A n : n \in Names(m) => n \in MetadataEntries
    BY <1>4 DEF Names
  <2>2. m[1].name = METADATA_PROTO_NAME /\ m[2].name = METADATA_NAME /\ 1 \in DOMAIN m /\ 2 \in DOMAIN m
    BY <1>3 DEF Entry
  <2>3. \A n : n \in MetadataEntries => n \in Names(m)
    BY <2>2 DEF Names, MetadataEntries
  <2> QED BY <2>1, <2>3
<1>7. /\ IsZip(w) /\ Names(w) = Names(d) \union Names(m)
      /\ \A i \in DOMAIN w : (\E j \in DOMAIN d : w[i] = d[j]) \/ (\E j \in DOMAIN m : w[i] = m[j])
  BY <1>1, <1>2, <1>5, ZipConcat
<1> HIDE DEF w
<1>8. \A i \in DOMAIN d : d[i].name \notin MetadataEntries
  BY <1>2 DEF Names
<1>9. ASSUME NEW n \in MetadataEntries PROVE w[At(w, n)] = Entry(n, size)
  <2>1. At(w, n) \in DOMAIN w /\ w[At(w, n)].name = n
    BY <1>6, <1>7, AtName
  <2>2. PICK j \in DOMAIN m : w[At(w, n)] = m[j]
    BY <1>7, <1>8, <2>1
  <2> QED BY <1>4, <2>1, <2>2
<1>10. ASSUME NEW n \in Names(z) \ MetadataEntries
       PROVE  \E j \in DOMAIN z : z[j].name = n /\ w[At(w, n)] = z[j]
  <2>1. At(w, n) \in DOMAIN w /\ w[At(w, n)].name = n
    BY <1>2, <1>7, AtName
  <2>2. PICK j \in DOMAIN d : w[At(w, n)] = d[j]
    BY <1>4, <1>7, <2>1
  <2> QED BY <1>2, <2>1, <2>2
<1>11. Names(w) = Names(z) \union MetadataEntries
  BY <1>2, <1>6, <1>7
<1> QED BY <1>7, <1>9, <1>10, <1>11 DEF w, size

(* The signer keeps every entry and rewrites the extra fields.              *)
LEMMA SignedZip ==
  ASSUME NEW z, IsZip(z), NEW order \in Seq(EntryNames), EntryNames \subseteq ToSet(order)
  PROVE  LET g == SignOutput(z, order)
             kept == Among(order, Names(z))
         IN  /\ IsZip(g) /\ Names(g) = Names(z)
             /\ g = [i \in DOMAIN kept |-> [z[At(z, kept[i])] EXCEPT !.extra = IF i = 1 THEN 10 ELSE 6]]
             /\ \A i \in DOMAIN kept : kept[i] \in Names(z) /\ g[i].name = kept[i]
<1> DEFINE g == SignOutput(z, order)
           kept == Among(order, Names(z))
<1>1. g = [i \in DOMAIN kept |-> [z[At(z, kept[i])] EXCEPT !.extra = IF i = 1 THEN 10 ELSE 6]]
  BY DEF SignOutput
<1>2. /\ kept \in Seq(EntryNames)
      /\ \A x : (\E i \in DOMAIN kept : kept[i] = x) <=> x \in Names(z) /\ \E i \in DOMAIN order : order[i] = x
  <2>1. kept \in Seq(EntryNames) /\ ToSet(kept) = ToSet(order) \intersect Names(z)
    BY AmongElements
  <2> HIDE DEF kept
  <2> QED BY <2>1 DEF ToSet
<1> HIDE DEF g, kept
<1>3. \A i \in DOMAIN kept : kept[i] \in Names(z)
  BY <1>2
<1>4. ASSUME NEW i \in DOMAIN kept
      PROVE  {"name", "size", "extra"} \subseteq DOMAIN g[i] /\ g[i].name = kept[i] /\ g[i].name \in EntryNames
  <2>1. At(z, kept[i]) \in DOMAIN z /\ z[At(z, kept[i])].name = kept[i]
    BY <1>3, AtName
  <2>2. {"name", "size", "extra"} \subseteq DOMAIN z[At(z, kept[i])] /\ kept[i] \in EntryNames
    BY <2>1 DEF IsZip
  <2>3. g[i] = [z[At(z, kept[i])] EXCEPT !.extra = IF i = 1 THEN 10 ELSE 6]
    BY <1>1
  <2> QED BY <2>1, <2>2, <2>3
<1>5. DOMAIN kept = 1..Len(kept) /\ Len(kept) \in Nat
  BY <1>2
<1>6. DOMAIN g = DOMAIN kept
  BY <1>1
<1>7. IsZip(g)
  <2>1. g \in [1..Len(kept) -> ToSet(g)]
    <3>1. \A i \in 1..Len(kept) : g[i] \in ToSet(g)
      BY <1>5, <1>6 DEF ToSet
    <3>2. g = [i \in 1..Len(kept) |-> g[i]]
      BY <1>1, <1>5
    <3> QED BY <3>1, <3>2
  <2>2. g \in Seq(ToSet(g))
    BY <1>5, <2>1
  <2> QED BY <1>4, <1>6, <2>2 DEF IsZip
<1>8. Names(g) = Names(z)
  <2>1. \A n : n \in Names(g) => n \in Names(z)
    BY <1>3, <1>4, <1>6 DEF Names
  <2>2. ASSUME NEW n \in Names(z) PROVE n \in Names(g)
    <3>1. n \in EntryNames
      BY DEF Names, IsZip
    <3>2. PICK i \in DOMAIN kept : kept[i] = n
      <4>1. \E i \in DOMAIN order : order[i] = n
        BY <3>1 DEF ToSet
      <4> QED BY <1>2, <4>1
    <3> QED BY <1>4, <1>6, <3>2 DEF Names
  <2> QED BY <2>1, <2>2
<1> QED BY <1>1, <1>3, <1>4, <1>7, <1>8 DEF g, kept

(* Strings of the same lengths give the same zip: metadata that is written  *)
(* again and signed again leaves every entry where it was.                  *)
LEMMA SameZip ==
  ASSUME NEW z, IsZip(z), NEW order \in Seq(EntryNames), EntryNames \subseteq ToSet(order),
         NEW ss, NEW tt, NEW base, Lengths(ss) = Lengths(tt)
  PROVE  LET g == SignOutput(MetadataWritten(z, ss, base), order)
         IN  SignOutput(MetadataWritten(g, tt, base), order) = g
<1> DEFINE w == MetadataWritten(z, ss, base)
           g == SignOutput(w, order)
           v == MetadataWritten(g, tt, base)
           h == SignOutput(v, order)
           size == base + SumFunction(Lengths(ss))
           kept == Among(order, Names(w))
           e(i) == IF i = 1 THEN 10 ELSE 6
<1>1. /\ IsZip(w) /\ Names(w) = Names(z) \union MetadataEntries
      /\ \A n \in MetadataEntries : w[At(w, n)] = Entry(n, size)
  BY Written
<1> HIDE DEF w
<1>2. /\ IsZip(g) /\ Names(g) = Names(w)
      /\ g = [i \in DOMAIN kept |-> [w[At(w, kept[i])] EXCEPT !.extra = e(i)]]
      /\ \A i \in DOMAIN kept : kept[i] \in Names(w) /\ g[i].name = kept[i]
  BY <1>1, SignedZip
<1> HIDE DEF g
<1>3. /\ IsZip(v) /\ Names(v) = Names(g) \union MetadataEntries
      /\ \A n \in MetadataEntries : v[At(v, n)] = Entry(n, size)
      /\ \A n \in Names(g) \ MetadataEntries : \E j \in DOMAIN g : g[j].name = n /\ v[At(v, n)] = g[j]
  <2>1. size = base + SumFunction(Lengths(tt))
    OBVIOUS
  <2>2. IsZip(g)
    BY <1>2
  <2> HIDE DEF size
  <2> QED BY <2>1, <2>2, Written
<1>4. Names(v) = Names(w)
  BY <1>1, <1>2, <1>3
<1> HIDE DEF v, size
<1>5. h = [i \in DOMAIN kept |-> [v[At(v, kept[i])] EXCEPT !.extra = e(i)]]
  BY <1>3, <1>4, SignedZip
<1> HIDE DEF h, kept
<1>6. ASSUME NEW i \in DOMAIN kept
      PROVE  [v[At(v, kept[i])] EXCEPT !.extra = e(i)] = [w[At(w, kept[i])] EXCEPT !.extra = e(i)]
  <2>1. CASE kept[i] \in MetadataEntries
    BY <1>1, <1>3, <2>1
  <2>2. CASE kept[i] \notin MetadataEntries
    <3>1. kept[i] \in Names(g) \ MetadataEntries
      BY <1>2, <2>2
    <3>2. PICK j \in DOMAIN g : g[j].name = kept[i] /\ v[At(v, kept[i])] = g[j]
      BY <1>3, <3>1
    <3>3. j \in DOMAIN kept /\ g[j] = [w[At(w, kept[j])] EXCEPT !.extra = e(j)] /\ g[j].name = kept[j]
      BY <1>2, <3>2
    <3>4. kept[j] = kept[i]
      BY <3>2, <3>3
    <3> DEFINE x == w[At(w, kept[i])]
    <3>5. v[At(v, kept[i])] = [x EXCEPT !.extra = e(j)]
      BY <3>2, <3>3, <3>4
    <3> HIDE DEF x, e
    <3>6. [[x EXCEPT !.extra = e(j)] EXCEPT !.extra = e(i)] = [x EXCEPT !.extra = e(i)]
      OBVIOUS
    <3> QED BY <3>5, <3>6 DEF x
  <2> QED BY <2>1, <2>2
<1> HIDE DEF e
<1>7. h = g
  BY <1>2, <1>5, <1>6
<1> QED BY <1>7 DEF h, v, g, w

(* The first entries of a package.                                          *)
TwoEntries(m, x, n, y) == <<Entry(m, x), Entry(n, y)>>
LEMMA FirstEntries ==
  ASSUME NEW m \in EntryNames, NEW n \in EntryNames, NEW x, NEW y
  PROVE  /\ IsZip(<<>>) /\ IsZip(<<Entry(m, x)>>) /\ IsZip(TwoEntries(m, x, n, y))
         /\ m \in Names(TwoEntries(m, x, n, y)) /\ n \in Names(TwoEntries(m, x, n, y))
<1> DEFINE a == Entry(m, x)
           b == Entry(n, y)
           p == <<a, b>>
<1>1. a.name = m /\ b.name = n /\ {"name", "size", "extra"} \subseteq DOMAIN a /\ {"name", "size", "extra"} \subseteq DOMAIN b
  BY DEF Entry
<1> HIDE DEF a, b
<1>2. <<>> \in Seq({a}) /\ <<a>> \in Seq({a}) /\ p \in Seq({a, b})
  OBVIOUS
<1>3. IsZip(<<>>)
  <2>1. <<>> \in Seq(ToSet(<<>>))
    OBVIOUS
  <2> QED BY <2>1 DEF IsZip
<1>4. IsZip(<<a>>)
  <2>1. <<a>> \in Seq(ToSet(<<a>>)) /\ DOMAIN <<a>> = 1..1 /\ <<a>>[1] = a
    BY <1>2, OwnElements
  <2> QED BY <1>1, <2>1 DEF IsZip
<1>5. DOMAIN p = 1..2 /\ p[1] = a /\ p[2] = b
  OBVIOUS
<1>6. p \in Seq(ToSet(p))
  BY <1>2, OwnElements
<1> HIDE DEF p
<1>7. IsZip(p)
  BY <1>1, <1>5, <1>6 DEF IsZip
<1>8. 1 \in DOMAIN p /\ 2 \in DOMAIN p
  BY <1>5
<1>9. m \in Names(p) /\ n \in Names(p)
  BY <1>1, <1>5, <1>8 DEF Names
<1> QED BY <1>3, <1>4, <1>7, <1>9 DEF p, a, b, TwoEntries

(* What is known of the zip: its entries; after the preliminary signing,    *)
(* that it was made with strings of the lengths that the strings have now;  *)
(* and after they are filled in, that they describe it.                     *)
Layout ==
  /\ pc \in {"secondary", "extras", "compute", "finalize", "replace", "verify", "done"} =>
       IsZip(zip) /\ (GenerateAb(o) => {"payload", "payload_properties"} \subseteq Names(zip))
  /\ pc \in {"finalize", "replace", "verify", "done"} => MetadataEntries \subseteq Names(zip)
  /\ pc \in {"finalize", "replace"} => DOMAIN strings = DOMAIN Kinds
  /\ pc \in {"finalize", "replace"} /\ o.signs =>
       \E z, ss : /\ IsZip(z) /\ Lengths(ss) = Lengths(strings)
                  /\ zip = SignOutput(MetadataWritten(z, ss, job.base), job.order)
  /\ pc \in {"replace", "verify", "done"} => Describes(strings, Kinds, zip, job.head)
  /\ pc # "mismatch"

(* There is no zip at first.                                                *)
LEMMA InitLayout ==
  Init => Layout
  BY DEF Init, Layout

(* Steps that only go on to another step before the zip is begun.           *)
LEMMA EarlyLayout ==
  ASSUME Layout,
         pc' \notin {"secondary", "extras", "compute", "finalize", "replace", "verify", "done", "mismatch"}
  PROVE  Layout'
  BY DEF Layout

(* The order of the signer, from the assumption on jobs.                    *)
LEMMA OrderFacts ==
  ASSUME OptionsKept
  PROVE  job.order \in Seq(EntryNames) /\ EntryNames \subseteq ToSet(job.order)
  BY JobsAssumption DEF OptionsKept

(* main begins the zip of a non-A/B package.                                *)
LEMMA MainLayout ==
  IInv /\ Layout /\ Main => Layout'
<1> SUFFICES ASSUME IInv, Layout, Main PROVE Layout'
  OBVIOUS
<1> DEFINE opt == WipeDisablesVabc(OptionHandler(o))
<1>1. CASE pc' # "compute"
  <2>1. pc' \in {"raised", "features"}
    BY <1>1 DEF Main, Raise
  <2> QED BY <2>1, EarlyLayout
<1>2. CASE pc' = "compute"
  <2> HIDE DEF opt
  <2>1. /\ zip' = <<Entry("new_dat", job.size), Entry("updater_script", job.size)>>
        /\ ~GenerateAb(opt) /\ job' = job
        /\ o' = [opt EXCEPT !.srcAb = IF Incremental THEN Filtered(src.ab, opt.partial) ELSE {}, !.signs = Signs(opt)]
    BY <1>2 DEF Main, Raise, opt
  <2>2. IsZip(zip')
    <3>1. "new_dat" \in EntryNames /\ "updater_script" \in EntryNames
      BY DEF EntryNames
    <3>2. zip' = TwoEntries("new_dat", job.size, "updater_script", job.size)
      BY <2>1 DEF TwoEntries
    <3> QED BY <3>1, <3>2, FirstEntries
  <2>3. ~GenerateAb(o)'
    <3>1. "force_non_ab" \in DOMAIN opt
      BY DEF opt, WipeDisablesVabc, OptionHandler, IInv, OptionsKept, ParsedFields, OptionFields
    <3> QED BY <2>1, <3>1 DEF GenerateAb
  <2> QED BY <1>2, <2>2, <2>3 DEF Layout
<1> QED BY <1>1, <1>2

(* The payload and its properties come first.                               *)
LEMMA WriteToZipLayout ==
  IInv /\ Layout /\ WriteToZip => Layout'
<1> SUFFICES ASSUME IInv, Layout, WriteToZip PROVE Layout'
  OBVIOUS
<1>1. /\ zip' = <<Entry("payload", job.size), Entry("payload_properties", 200)>>
      /\ pc' \in {"secondary", "extras"}
  BY DEF WriteToZip
<1>2. "payload" \in EntryNames /\ "payload_properties" \in EntryNames
  BY DEF EntryNames
<1> DEFINE z == TwoEntries("payload", job.size, "payload_properties", 200)
<1>3. IsZip(z) /\ "payload" \in Names(z) /\ "payload_properties" \in Names(z)
  BY <1>2, FirstEntries
<1>4. zip' = z
  BY <1>1 DEF TwoEntries
<1> HIDE DEF z
<1> QED BY <1>1, <1>3, <1>4 DEF Layout

(* The second payload is added to the zip.                                  *)
LEMMA GenerateSecondaryLayout ==
  IInv /\ Layout /\ GenerateSecondary => Layout'
<1> SUFFICES ASSUME IInv, Layout, GenerateSecondary PROVE Layout'
  OBVIOUS
<1> DEFINE b == TwoEntries("secondary_payload", job.size, "secondary_payload_properties", 200)
<1>1. pc = "secondary"
  BY DEF GenerateSecondary
<1>2. CASE pc' = "raised"
  BY <1>2, EarlyLayout
<1>3. CASE pc' # "raised"
  <2>1. zip' = zip \o b /\ pc' = "extras" /\ o' = o /\ job' = job
    BY <1>3 DEF GenerateSecondary, Raise, TwoEntries
  <2>2. IsZip(zip) /\ (GenerateAb(o) => {"payload", "payload_properties"} \subseteq Names(zip))
    BY <1>1 DEF Layout
  <2>3. IsZip(b)
    <3>1. "secondary_payload" \in EntryNames /\ "secondary_payload_properties" \in EntryNames
      BY DEF EntryNames
    <3> QED BY <3>1, FirstEntries
  <2> HIDE DEF b
  <2>4. IsZip(zip') /\ Names(zip') = Names(zip) \union Names(b)
    BY <2>1, <2>2, <2>3, ZipConcat
  <2>5. GenerateAb(o)' => GenerateAb(o)
    BY <2>1 DEF GenerateAb
  <2> QED BY <2>1, <2>2, <2>4, <2>5 DEF Layout
<1> QED BY <1>2, <1>3

(* So are the care map and the versions of the APEXes.                      *)
LEMMA AddExtrasLayout ==
  IInv /\ Layout /\ AddExtras => Layout'
<1> SUFFICES ASSUME IInv, Layout, AddExtras PROVE Layout'
  OBVIOUS
<1> DEFINE b == IF tgt.avb /\ tf.care_map # None THEN <<Entry("care_map", job.small)>> ELSE <<>>
           d == IF DOMAIN tgt.apex # {} THEN <<Entry("apex_info", job.small)>> ELSE <<>>
<1>1. pc = "extras" /\ zip' = (zip \o b) \o d /\ pc' = "compute" /\ o' = o /\ job' = job
  BY DEF AddExtras
<1>2. IsZip(zip) /\ (GenerateAb(o) => {"payload", "payload_properties"} \subseteq Names(zip))
  BY <1>1 DEF Layout
<1>3. IsZip(b) /\ IsZip(d)
  <2>1. "care_map" \in EntryNames /\ "apex_info" \in EntryNames
    BY DEF EntryNames
  <2> QED BY <2>1, FirstEntries
<1> HIDE DEF b, d
<1>4. IsZip(zip \o b) /\ Names(zip \o b) = Names(zip) \union Names(b)
  BY <1>2, <1>3, ZipConcat
<1>5. IsZip(zip') /\ Names(zip') = Names(zip \o b) \union Names(d)
  BY <1>1, <1>3, <1>4, ZipConcat
<1>6. GenerateAb(o)' => GenerateAb(o)
  BY <1>1 DEF GenerateAb
<1> QED BY <1>1, <1>2, <1>4, <1>5, <1>6 DEF Layout

(* The preliminary signing.                                                 *)
LEMMA ComputeLayout ==
  IInv /\ Layout /\ ComputeAllPropertyFiles => Layout'
<1> SUFFICES ASSUME IInv, Layout, ComputeAllPropertyFiles PROVE Layout'
  OBVIOUS
<1> DEFINE w == MetadataWritten(zip, strings', job.base)
<1>1. /\ pc = "compute" /\ pc' = "finalize" /\ o' = o /\ job' = job
      /\ DOMAIN strings' = DOMAIN Kinds
      /\ zip' = IF o.signs THEN SignOutput(w, job.order) ELSE w
  BY DEF ComputeAllPropertyFiles, MetadataWritten
<1>2. IsZip(zip) /\ (GenerateAb(o) => {"payload", "payload_properties"} \subseteq Names(zip))
  BY <1>1 DEF Layout
<1>3. IsZip(w) /\ Names(w) = Names(zip) \union MetadataEntries
  BY <1>2, Written
<1>4. IsZip(zip') /\ Names(zip') = Names(zip) \union MetadataEntries
  <2> HIDE DEF w
  <2>1. CASE o.signs
    <3>1. job.order \in Seq(EntryNames) /\ EntryNames \subseteq ToSet(job.order)
      BY OrderFacts DEF IInv
    <3>2. IsZip(SignOutput(w, job.order)) /\ Names(SignOutput(w, job.order)) = Names(w)
      BY <1>3, <3>1, SignedZip
    <3> QED BY <1>1, <1>3, <2>1, <3>2
  <2>2. CASE ~o.signs
    BY <1>1, <1>3, <2>2
  <2> QED BY <2>1, <2>2
<1>5. GenerateAb(o)' <=> GenerateAb(o)
  BY <1>1 DEF GenerateAb
<1>6. o'.signs => \E z, ss : /\ IsZip(z) /\ Lengths(ss) = Lengths(strings')
                             /\ zip' = SignOutput(MetadataWritten(z, ss, job'.base), job'.order)
  BY <1>1, <1>2
<1>7. Kinds' = Kinds
  BY <1>1 DEF Kinds, GenerateAb
<1> QED BY <1>1, <1>2, <1>4, <1>5, <1>6, <1>7 DEF Layout

(* The strings are filled in and padded to the length they had.             *)
LEMMA FinalizeLayout ==
  IInv /\ Layout /\ FinalizeAllPropertyFiles => Layout'
<1> SUFFICES ASSUME IInv, Layout, FinalizeAllPropertyFiles PROVE Layout'
  OBVIOUS
<1> DEFINE final == [i \in DOMAIN Kinds |-> FinalizeString(Kinds[i], zip, job.head, strings[i].length)]
           short == {i \in DOMAIN Kinds : final[i] = InsufficientSpace}
<1>1. pc = "finalize" /\ o' = o /\ job' = job /\ zip' = zip
  BY DEF FinalizeAllPropertyFiles
<1>2. /\ IsZip(zip) /\ (GenerateAb(o) => {"payload", "payload_properties"} \subseteq Names(zip))
      /\ MetadataEntries \subseteq Names(zip) /\ DOMAIN strings = DOMAIN Kinds
  BY <1>1 DEF Layout
<1>3. Kinds' = Kinds /\ (GenerateAb(o)' <=> GenerateAb(o))
  BY <1>1 DEF Kinds, GenerateAb
<1>4. CASE short = {}
  <2>1. strings' = final /\ pc' = "replace"
    BY <1>4 DEF FinalizeAllPropertyFiles
  <2>2. ASSUME NEW i \in DOMAIN Kinds
        PROVE  /\ final[i].length = strings[i].length
               /\ final[i].tokens = GetPropertyFilesString(Kinds[i], zip, job.head, FALSE).tokens
    <3> DEFINE s == GetPropertyFilesString(Kinds[i], zip, job.head, FALSE)
    <3>1. final[i] # InsufficientSpace
      BY <1>4
    <3>2. final[i] = [s EXCEPT !.length = strings[i].length]
      BY <3>1 DEF FinalizeString
    <3>3. DOMAIN s = {"tokens", "length"}
      BY DEF GetPropertyFilesString
    <3> HIDE DEF s, final
    <3> QED BY <3>2, <3>3 DEF s
  <2> HIDE DEF final
  <2>3. DOMAIN final = DOMAIN Kinds
    BY DEF final
  <2>4. Lengths(strings') = Lengths(strings)
    BY <1>2, <2>1, <2>2, <2>3 DEF Lengths
  <2>5. Describes(strings', Kinds, zip, job.head)
    BY <2>1, <2>2 DEF Describes
  <2>6. o.signs => \E z, ss : /\ IsZip(z) /\ Lengths(ss) = Lengths(strings)
                              /\ zip = SignOutput(MetadataWritten(z, ss, job.base), job.order)
    BY <1>1 DEF Layout
  <2> QED BY <1>1, <1>2, <1>3, <2>1, <2>3, <2>4, <2>5, <2>6 DEF Layout
<1>5. CASE short # {}
  <2>1. pc' \in {"insufficient", "compute"}
    BY <1>5 DEF FinalizeAllPropertyFiles
  <2> QED BY <1>1, <1>2, <1>3, <2>1 DEF Layout
<1> QED BY <1>4, <1>5

(* The final signing gives the same zip again.                              *)
LEMMA ReplaceLayout ==
  IInv /\ Layout /\ ReplaceMetadata => Layout'
<1> SUFFICES ASSUME IInv, Layout, ReplaceMetadata PROVE Layout'
  OBVIOUS
<1>1. pc = "replace" /\ o' = o /\ job' = job /\ strings' = strings
  BY DEF ReplaceMetadata
<1>2. CASE ~o.signs
  <2>1. pc' = "same_file"
    BY <1>2 DEF ReplaceMetadata
  <2> QED BY <2>1, EarlyLayout
<1>3. CASE o.signs
  <2>1. pc' = "verify" /\ zip' = SignOutput(MetadataWritten(zip, strings, job.base), job.order)
    BY <1>3 DEF ReplaceMetadata, MetadataWritten
  <2>2. PICK z, ss : /\ IsZip(z) /\ Lengths(ss) = Lengths(strings)
                     /\ zip = SignOutput(MetadataWritten(z, ss, job.base), job.order)
    BY <1>1, <1>3 DEF Layout
  <2>3. job.order \in Seq(EntryNames) /\ EntryNames \subseteq ToSet(job.order)
    BY OrderFacts DEF IInv
  <2>4. zip' = zip
    BY <2>1, <2>2, <2>3, SameZip
  <2>5. Kinds' = Kinds /\ (GenerateAb(o)' <=> GenerateAb(o))
    BY <1>1 DEF Kinds, GenerateAb
  <2> QED BY <1>1, <2>1, <2>4, <2>5 DEF Layout
<1> QED BY <1>2, <1>3

(* The final check passes.                                                  *)
LEMMA VerifyLayout ==
  IInv /\ Layout /\ Verify => Layout'
<1> SUFFICES ASSUME IInv, Layout, Verify PROVE Layout'
  OBVIOUS
<1>1. pc = "verify" /\ UNCHANGED <<job, o, zip, strings>>
  BY DEF Verify
<1>2. Describes(strings, Kinds, zip, job.head)
  BY <1>1 DEF Layout
<1>3. pc' = "done"
  BY <1>2 DEF Verify
<1>4. Kinds' = Kinds /\ (GenerateAb(o)' <=> GenerateAb(o))
  BY <1>1 DEF Kinds, GenerateAb
<1> QED BY <1>1, <1>2, <1>3, <1>4 DEF Layout

(* Every step keeps the layout.                                             *)
LEMMA NextLayout ==
  IInv /\ Layout /\ [Next]_vars => Layout'
<1> SUFFICES ASSUME IInv, Layout, [Next]_vars PROVE Layout'
  OBVIOUS
<1>1. CASE ResolveFeatures \/ DetectPartial \/ EditTargetFiles \/ MakeMetadata \/ Generate \/ Sign
  <2>1. pc' \in {"raised", "partial", "edit", "metadata", "generate", "sign", "write"}
    BY <1>1 DEF ResolveFeatures, DetectPartial, EditTargetFiles, MakeMetadata, Generate, Sign, Raise
  <2> QED BY <2>1, EarlyLayout
<1>2. CASE UNCHANGED vars
  <2>1. UNCHANGED <<pc, job, o, zip, strings>>
    BY <1>2 DEF vars
  <2>2. Kinds' = Kinds /\ (GenerateAb(o)' <=> GenerateAb(o))
    BY <2>1 DEF Kinds, GenerateAb
  <2> QED BY <2>1, <2>2 DEF Layout
<1> QED
  BY <1>1, <1>2, MainLayout, WriteToZipLayout, GenerateSecondaryLayout, AddExtrasLayout, ComputeLayout,
     FinalizeLayout, ReplaceLayout, VerifyLayout DEF Next

(* The tokens of a string that is filled in.                                *)
FinalTokens(kind, z, head) == GetPropertyFilesString(kind, z, head, FALSE).tokens

(* The tokens of a string: entries of the zip, and the head of the payload. *)
LEMMA TokensOf ==
  ASSUME NEW z, IsZip(z), NEW head, MetadataEntries \subseteq Names(z),
         NEW kind \in {AbOtaPropertyFiles, Streaming, NonAbOtaPropertyFiles},
         kind # NonAbOtaPropertyFiles => {"payload", "payload_properties"} \subseteq Names(z),
         NEW tokens, tokens = FinalTokens(kind, z, head), NEW j \in DOMAIN tokens
  PROVE  \/ "payload" \in Names(z) /\ tokens[j] = GetPayloadMetadata(z, head)
         \/ \E n \in Names(z) : tokens[j] = ComputeEntryOffsetSize(z, n)
<1> DEFINE T == {t \in {GetPayloadMetadata(z, head)} : "payload" \in Names(z)}
                \union {ComputeEntryOffsetSize(z, n) : n \in Names(z)}
           optional == Among(kind.optional, Names(z))
           files == kind.required \o optional
           pre == IF kind.precomputed THEN <<GetPayloadMetadata(z, head)>> ELSE <<>>
           named == [i \in DOMAIN files |-> ComputeEntryOffsetSize(z, files[i])]
           last == <<ComputeEntryOffsetSize(z, METADATA_NAME)>>
                   \o IF METADATA_PROTO_NAME \in Names(z) THEN <<ComputeEntryOffsetSize(z, METADATA_PROTO_NAME)>> ELSE <<>>
<1>1. tokens = (pre \o named) \o last
  BY DEF GetPropertyFilesString, FinalTokens
<1>2. /\ kind.required \in Seq(Names(z)) /\ kind.optional \in Seq({"apex_info", "care_map"})
      /\ kind.precomputed => "payload" \in Names(z)
  <2>1. CASE kind = AbOtaPropertyFiles \/ kind = Streaming
    <3>1. kind # NonAbOtaPropertyFiles
      <4>1. AbOtaPropertyFiles.required = <<"payload", "payload_properties">> /\ Streaming.required = <<"payload", "payload_properties">>
        BY DEF AbOtaPropertyFiles, Streaming
      <4>2. NonAbOtaPropertyFiles.required = <<>>
        BY DEF NonAbOtaPropertyFiles
      <4>3. <<"payload", "payload_properties">> # <<>>
        OBVIOUS
      <4> QED BY <2>1, <4>1, <4>2, <4>3
    <3>2. kind.required = <<"payload", "payload_properties">> /\ kind.optional = <<"apex_info", "care_map">>
      <4>1. Streaming.required = <<"payload", "payload_properties">> /\ Streaming.optional = <<"apex_info", "care_map">>
        BY DEF Streaming
      <4>2. AbOtaPropertyFiles.required = Streaming.required /\ AbOtaPropertyFiles.optional = Streaming.optional
        BY DEF AbOtaPropertyFiles, Streaming
      <4> QED BY <2>1, <4>1, <4>2
    <3>3. "payload" \in Names(z) /\ "payload_properties" \in Names(z)
      BY <3>1
    <3> QED BY <3>2, <3>3
  <2>2. CASE kind = NonAbOtaPropertyFiles
    BY <2>2 DEF NonAbOtaPropertyFiles
  <2> QED BY <2>1, <2>2
<1>3. optional \in Seq(Names(z))
  <2>1. optional \in Seq({"apex_info", "care_map"}) /\ ToSet(optional) = ToSet(kind.optional) \intersect Names(z)
    BY <1>2, AmongElements
  <2> HIDE DEF optional
  <2>2. optional \in Seq(ToSet(optional)) /\ ToSet(optional) \subseteq Names(z)
    BY <2>1, OwnElements
  <2> QED BY <2>2, SeqMonotonic
<1> HIDE DEF optional
<1>4. files \in Seq(Names(z))
  BY <1>2, <1>3
<1> HIDE DEF files
<1>5. named \in Seq(T)
  <2>1. DOMAIN files = 1..Len(files) /\ Len(files) \in Nat /\ \A i \in 1..Len(files) : files[i] \in Names(z)
    BY <1>4
  <2>2. named \in [1..Len(files) -> T]
    BY <2>1
  <2> HIDE DEF T, named
  <2> QED BY <2>1, <2>2
<1>6. pre \in Seq(T)
  <2>1. kind.precomputed => GetPayloadMetadata(z, head) \in T
    BY <1>2
  <2> HIDE DEF T
  <2> QED BY <2>1
<1>7. last \in Seq(T)
  <2>1. METADATA_NAME \in Names(z)
    BY DEF MetadataEntries
  <2>2. /\ ComputeEntryOffsetSize(z, METADATA_NAME) \in T
        /\ METADATA_PROTO_NAME \in Names(z) => ComputeEntryOffsetSize(z, METADATA_PROTO_NAME) \in T
    BY <2>1
  <2> HIDE DEF T
  <2> QED BY <2>2
<1> HIDE DEF pre, named, last
<1>8. (pre \o named) \o last \in Seq(T)
  <2> HIDE DEF T
  <2> QED BY <1>5, <1>6, <1>7
<1> DEFINE all == (pre \o named) \o last
<1>9. \A k \in DOMAIN all : all[k] \in T
  <2> HIDE DEF T, all
  <2>1. all \in Seq(T)
    BY <1>8 DEF all
  <2> QED BY <2>1
<1> HIDE DEF all
<1>10. \A k \in DOMAIN all : \/ "payload" \in Names(z) /\ all[k] = GetPayloadMetadata(z, head)
                             \/ \E n \in Names(z) : all[k] = ComputeEntryOffsetSize(z, n)
  BY <1>9
<1> QED BY <1>1, <1>10 DEF all

(* The property follows.                                                    *)
LEMMA DescribesFromInvariant ==
  IInv /\ Layout => pc = "insufficient" \/ PackageDescribesItself
<1> SUFFICES ASSUME IInv, Layout, pc # "insufficient" PROVE PackageDescribesItself
  OBVIOUS
<1>1. pc \notin {"insufficient", "mismatch"}
  BY DEF Layout
<1>2. ASSUME pc = "done", NEW i \in DOMAIN Kinds, NEW k \in DOMAIN strings[i].tokens
      PROVE  LET t == strings[i].tokens[k]
                 n == IF t.name = "payload_metadata" THEN "payload" ELSE t.name
             IN  /\ n \in Names(zip)
                 /\ t.offset = GetZipEntryOffset(zip, At(zip, n))
                 /\ t.size = IF n = t.name THEN zip[At(zip, n)].size ELSE job.head
  <2> DEFINE t == strings[i].tokens[k]
  <2>1. /\ IsZip(zip) /\ (GenerateAb(o) => {"payload", "payload_properties"} \subseteq Names(zip))
        /\ MetadataEntries \subseteq Names(zip) /\ Describes(strings, Kinds, zip, job.head)
    BY <1>2 DEF Layout
  <2>2. strings[i].tokens = GetPropertyFilesString(Kinds[i], zip, job.head, FALSE).tokens
    BY <2>1 DEF Describes
  <2>3. /\ Kinds[i] \in {AbOtaPropertyFiles, Streaming, NonAbOtaPropertyFiles}
        /\ Kinds[i] # NonAbOtaPropertyFiles => GenerateAb(o)
    <3>1. CASE GenerateAb(o)
      <4>1. Kinds = <<AbOtaPropertyFiles, Streaming>>
        BY <3>1 DEF Kinds
      <4>2. i = 1 \/ i = 2
        BY <4>1
      <4> QED BY <3>1, <4>1, <4>2
    <3>2. CASE ~GenerateAb(o)
      <4>1. Kinds = <<NonAbOtaPropertyFiles>>
        BY <3>2 DEF Kinds
      <4>2. i = 1
        BY <4>1
      <4> QED BY <4>1, <4>2
    <3> QED BY <3>1, <3>2
  <2>4. \/ "payload" \in Names(zip) /\ t = GetPayloadMetadata(zip, job.head)
        \/ \E n \in Names(zip) : t = ComputeEntryOffsetSize(zip, n)
    <3> DEFINE kind == Kinds[i]
               tokens == strings[i].tokens
    <3>1. /\ kind \in {AbOtaPropertyFiles, Streaming, NonAbOtaPropertyFiles}
          /\ kind # NonAbOtaPropertyFiles => {"payload", "payload_properties"} \subseteq Names(zip)
          /\ tokens = FinalTokens(kind, zip, job.head)
      BY <2>1, <2>2, <2>3 DEF FinalTokens
    <3>2. IsZip(zip) /\ MetadataEntries \subseteq Names(zip) /\ k \in DOMAIN tokens /\ t = tokens[k]
      BY <2>1
    <3> HIDE DEF kind, tokens, t
    <3> QED BY <3>1, <3>2, TokensOf
  <2> HIDE DEF t
  <2>5. CASE "payload" \in Names(zip) /\ t = GetPayloadMetadata(zip, job.head)
    <3>1. /\ t.name = "payload_metadata" /\ t.offset = GetZipEntryOffset(zip, At(zip, "payload"))
          /\ t.size = job.head
      BY <2>5 DEF GetPayloadMetadata
    <3> QED BY <2>5, <3>1 DEF t
  <2>6. ASSUME NEW n \in Names(zip), t = ComputeEntryOffsetSize(zip, n)
        PROVE  /\ t.name = n /\ n # "payload_metadata" /\ t.offset = GetZipEntryOffset(zip, At(zip, n))
               /\ t.size = zip[At(zip, n)].size
    <3>1. n \in EntryNames
      BY <2>1 DEF Names, IsZip
    <3>2. n # "payload_metadata"
      BY <3>1 DEF EntryNames, MetadataEntries, METADATA_NAME, METADATA_PROTO_NAME
    <3> QED BY <2>6, <3>2 DEF ComputeEntryOffsetSize
  <2> QED BY <2>4, <2>5, <2>6 DEF t
<1> QED BY <1>1, <1>2 DEF PackageDescribesItself

(* FinalizeMetadata, for every layout and every order of the signer: unless *)
(* the reserved room runs out twice, the strings of a package give the      *)
(* place of each entry of that same package, and the final check passes.    *)
(* Filling in and padding changes no length, so the second signing moves    *)
(* nothing.                                                                 *)
THEOREM Describing == Spec => [](pc = "insufficient" \/ PackageDescribesItself)
<1>1. Init => Layout
  BY InitLayout
<1>2. IInv /\ Layout /\ [Next]_vars => Layout'
  BY NextLayout
<1>3. IInv /\ Layout => (pc = "insufficient" \/ PackageDescribesItself)
  BY DescribesFromInvariant
<1>4. Spec => []IInv
  BY Inductive
<1> QED
  BY <1>1, <1>2, <1>3, <1>4, PTL DEF Spec
=============================================================================
