--------------------------- MODULE NonAbInstallMC ---------------------------
(* Two partitions and two groups.  Every valid pair of layouts is tried    *)
(* with plain options; every combination of options with a few layouts.    *)
EXTENDS NonAbInstall

CONSTANTS Sizes, Limits

Parts == {"system", "vendor"}
Grps == {"g1", "g2"}
MCNames == <<"system", "vendor">>

Layout(sg, ss, sl, tg, ts, tl) ==
  [names |-> MCNames, groups |-> <<"g1", "g2">>, removeAll |-> FALSE,
   srcGroup |-> sg, srcSize |-> ss, srcLimit |-> sl,
   tgtGroup |-> tg, tgtSize |-> ts, tgtLimit |-> tl]

Metas == {m \in [ok : {TRUE}, group : [Parts -> Grps \union {NoGroup}],
                 size : [Parts -> Sizes], limit : [Grps -> Limits \union {NoLimit}]] :
            Valid(m) /\ m.size["system"] > 0}

(* g1 is the group of `system` in the source: the groups are symmetric. *)
Layouts == {Layout(m.group, m.size, m.limit, n.group, n.size, n.limit) :
              m \in {x \in Metas : x.group["system"] = "g1"}, n \in Metas}

Plain(u, incremental, specific) ==
  [u |-> u, incremental |-> incremental, specific |-> specific, two_step |-> FALSE, dynamic |-> TRUE,
   verify |-> FALSE, wipe |-> FALSE, multistage |-> TRUE, oem |-> FALSE, touched |-> {},
   bad |-> {}, version |-> 4, stash |-> [p \in Parts |-> 0], free |-> 1, bootChanged |-> FALSE,
   bootPatch |-> FALSE, bootSize |-> 1, build |-> "src", fullRecovery |-> FALSE,
   noRecovery |-> FALSE, recoveryPatch |-> TRUE, tgtDynamic |-> TRUE, recoveryFstab |-> TRUE]

(* One group swaps its partition for another one's, one partition shrinks. *)
SomeMeta == [ok |-> TRUE, group |-> [p \in Parts |-> IF p = "system" THEN "g1" ELSE "g2"],
             size |-> [p \in Parts |-> IF p = "system" THEN 2 ELSE 1], limit |-> [g \in Grps |-> 2]]
OtherMeta == [SomeMeta EXCEPT !.size = [p \in Parts |-> IF p = "system" THEN 1 ELSE 2]]
SomeLayout == Layout(SomeMeta.group, SomeMeta.size, SomeMeta.limit,
                     OtherMeta.group, OtherMeta.size, OtherMeta.limit)

OptionPackages ==
  {[Plain(SomeLayout, i, {}) EXCEPT !.two_step = t, !.dynamic = d, !.verify = v, !.wipe = v, !.oem = o,
      !.touched = {"system"}, !.bad = b, !.version = n, !.stash = [p \in Parts |-> 1], !.free = f,
      !.bootChanged = bc, !.bootPatch = bp, !.build = w, !.fullRecovery = v, !.multistage = (w = "src")] :
     i \in BOOLEAN, t \in BOOLEAN, d \in BOOLEAN, v \in BOOLEAN, o \in BOOLEAN,
     b \in {{}, {"system"}, {"vendor"}}, n \in {3, 4}, f \in {0, 1},
     bc \in BOOLEAN, bp \in BOOLEAN, w \in {"src", "other", "device"}}

LayoutPackages == {Plain(u, TRUE, {"vendor"}) : u \in Layouts}
                  \union {Plain(u, FALSE, {}) : u \in {x \in Layouts : x.srcLimit = SomeMeta.limit}}

(* What the target build must have.  With s = Parts its target-files hold  *)
(* no partition and all differences are the device-specific module's.      *)
BuildPackages ==
  {[Plain(SomeLayout, i, s) EXCEPT !.dynamic = d, !.bootChanged = TRUE, !.noRecovery = n, !.recoveryPatch = r,
      !.tgtDynamic = t, !.recoveryFstab = f] :
     i \in BOOLEAN, s \in {{}, Parts}, d \in BOOLEAN, n \in BOOLEAN, r \in BOOLEAN, t \in BOOLEAN, f \in BOOLEAN}

(* Options that change nothing in the script are not tried twice. *)
Matters(x) == /\ x.free = 0 => x.incremental
              /\ x.bootPatch => x.incremental /\ x.bootChanged /\ ~x.two_step
              /\ x.version = 3 => x.incremental /\ x.bad # {}

MCPackages == {x \in OptionPackages : Matters(x)} \union LayoutPackages \union BuildPackages
=============================================================================
