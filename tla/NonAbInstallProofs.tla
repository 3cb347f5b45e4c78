------------------------- MODULE NonAbInstallProofs -------------------------
(* The installation of a non-A/B package, for every package, every list of  *)
(* partitions and any number of power losses.                               *)
(*                                                                          *)
(* The device only sees the commands that are left of the branch it runs,   *)
(* so the invariant is about these: what the script was written to do       *)
(* before, after or without a command still holds of the rest of it (Has,   *)
(* Before, After, NoneAfter, Free), or has been done and shows on the       *)
(* device.  The first lemmas are about sequences of commands and the loops  *)
(* that write them, the next say what order the script of each kind of      *)
(* package has in each branch, and the next that every step keeps what is   *)
(* left of it.                                                              *)
(*                                                                          *)
(* The last part is about the list of operations on super.  The loops of    *)
(* _Compute are followed one after the other: each leads from one layout    *)
(* of super to the next, and no operation on the way is refused, because    *)
(* no partition is ever larger than in the source or, after the groups      *)
(* have the target's limits, than in the target.                            *)
EXTENDS NonAbInstall, FiniteSetTheorems, SequenceTheorems, WellFoundedInduction, TLAPS

(* A nonempty set of naturals has a smallest element.                      *)
LEMMA Smallest ==
  ASSUME NEW S, S \subseteq Nat, S # {}
  PROVE  \E m \in S : \A k \in S : m <= k
<1> DEFINE less == {p \in Nat \X Nat : p[1] < p[2]}
<1>1. IsWellFoundedOn(less, Nat)
  BY NatLessThanWellFounded DEF OpToRel
<1>2. PICK m \in S : \A k \in S : ~(<<k, m>> \in less)
  <2> HIDE DEF less
  <2> QED BY <1>1, WFMin
<1>3. ASSUME NEW k \in S PROVE m <= k
  <2>1. k \in Nat /\ m \in Nat /\ <<k, m>> \notin less
    BY <1>2
  <2>2. QED
    BY <2>1
<1>4. QED
  BY <1>3

(* Induction over the numbers from 0 to n, for a set of numbers. *)
LEMMA UpTo ==
  ASSUME NEW n \in Nat, NEW S, 0 \in S, \A m \in 0..(n - 1) : m \in S => m + 1 \in S
  PROVE  \A m \in 0..n : m \in S
<1> DEFINE bad == {m \in 0..n : m \notin S}
<1> SUFFICES ASSUME bad # {} PROVE FALSE
  OBVIOUS
<1>1. bad \subseteq Nat
  OBVIOUS
<1> HIDE DEF bad
<1>2. PICK m \in bad : \A k \in bad : m <= k
  BY <1>1, Smallest
<1> USE DEF bad
<1>3. m # 0 /\ m \in 0..n /\ m \notin S
  BY <1>2
<1>4. m - 1 \in 0..(n - 1) /\ m - 1 \in 0..n /\ m - 1 \notin bad
  BY <1>2, <1>3
<1>5. m - 1 \in S /\ (m - 1) + 1 = m
  BY <1>4
<1> QED BY <1>5, <1>4, <1>3

(* The partial results of FlattenSeq. *)
Joins(ss, f, n) == /\ DOMAIN f = 1..n
                   /\ \A i \in 1..n : f[i] = IF i = 1 THEN ss[i] ELSE f[i - 1] \o ss[i]

(* The function that FlattenSeq's local recursion defines exists for every  *)
(* length.                                                                  *)
LEMMA JoinsExists ==
  ASSUME NEW X, NEW ss \in Seq(Seq(X))
  PROVE  \A n \in 0..Len(ss) : \E f \in [1..n -> Seq(X)] : Joins(ss, f, n)
<1> DEFINE S == {n \in 0..Len(ss) : \E f \in [1..n -> Seq(X)] : Joins(ss, f, n)}
<1>1. 0 \in S
  <2> DEFINE e == [i \in 1..0 |-> ss[i]]
  <2>1. e \in [1..0 -> Seq(X)]
    OBVIOUS
  <2>2. Joins(ss, e, 0)
    BY DEF Joins
  <2>3. 0 \in 0..Len(ss)
    OBVIOUS
  <2> HIDE DEF e
  <2> QED BY <2>1, <2>2, <2>3
<1>2. ASSUME NEW m \in 0..(Len(ss) - 1), m \in S PROVE m + 1 \in S
  <2>1. PICK f \in [1..m -> Seq(X)] : Joins(ss, f, m)
    BY <1>2
  <2> DEFINE last == IF m = 0 THEN ss[1] ELSE f[m] \o ss[m + 1]
             g == [i \in 1..(m + 1) |-> IF i <= m THEN f[i] ELSE last]
  <2>2. last \in Seq(X)
    <3>1. ss[m + 1] \in Seq(X) /\ m \in Nat
      OBVIOUS
    <3>2. CASE m = 0
      BY <3>1, <3>2
    <3>3. CASE m # 0
      <4>1. f[m] \in Seq(X)
        BY <3>3
      <4> QED BY <4>1, <3>1, <3>3
    <3> QED BY <3>2, <3>3
  <2> HIDE DEF last
  <2>3. g \in [1..(m + 1) -> Seq(X)]
    BY <2>2
  <2>4. ASSUME NEW i \in 1..(m + 1) PROVE g[i] = IF i = 1 THEN ss[i] ELSE g[i - 1] \o ss[i]
    <3>1. CASE i <= m
      <4>1. g[i] = f[i] /\ (i # 1 => g[i - 1] = f[i - 1])
        BY <3>1
      <4>2. f[i] = IF i = 1 THEN ss[i] ELSE f[i - 1] \o ss[i]
        <5>1. i \in 1..m
          BY <3>1
        <5> QED BY <5>1, <2>1 DEF Joins
      <4> QED BY <4>1, <4>2
    <3>2. CASE i = m + 1
      <4>1. g[i] = last /\ (m # 0 => g[i - 1] = f[m]) /\ (m = 0 <=> i = 1)
        BY <3>2
      <4> QED BY <4>1, <3>2 DEF last
    <3> QED BY <3>1, <3>2
  <2>5. Joins(ss, g, m + 1)
    <3> HIDE DEF g
    <3> QED BY <2>3, <2>4 DEF Joins
  <2> HIDE DEF g
  <2> QED BY <2>3, <2>5
<1>3. Len(ss) \in Nat
  OBVIOUS
<1> HIDE DEF S
<1>4. \A m \in 0..Len(ss) : m \in S
  BY <1>1, <1>2, <1>3, UpTo
<1> QED BY <1>4 DEF S

(* It is the only one with these equations. *)
LEMMA JoinsUnique ==
  ASSUME NEW n \in Nat, NEW ss, NEW f, NEW g, Joins(ss, f, n), Joins(ss, g, n)
  PROVE  \A i \in 1..n : f[i] = g[i]
<1> DEFINE S == {m \in 0..n : \A i \in 1..m : f[i] = g[i]}
<1>1. 0 \in S
  OBVIOUS
<1>2. ASSUME NEW m \in 0..(n - 1), m \in S PROVE m + 1 \in S
  <2>1. f[m + 1] = g[m + 1]
    <3>1. m + 1 \in 1..n /\ (m + 1) - 1 = m
      OBVIOUS
    <3>2. f[m + 1] = (IF m + 1 = 1 THEN ss[m + 1] ELSE f[m] \o ss[m + 1])
      BY <3>1 DEF Joins
    <3>3. g[m + 1] = (IF m + 1 = 1 THEN ss[m + 1] ELSE g[m] \o ss[m + 1])
      BY <3>1 DEF Joins
    <3>4. m + 1 # 1 => f[m] = g[m]
      BY <1>2
    <3> QED BY <3>2, <3>3, <3>4
  <2> QED BY <2>1, <1>2
<1> HIDE DEF S
<1>3. \A m \in 0..n : m \in S
  BY <1>1, <1>2, UpTo
<1> QED BY <1>3 DEF S

(* What FlattenSeq returns. *)
LEMMA FlattenIs ==
  ASSUME NEW X, NEW ss \in Seq(Seq(X)), Len(ss) > 0, NEW f, Joins(ss, f, Len(ss))
  PROVE  FlattenSeq(ss) = f[Len(ss)]
<1> DEFINE R(h) == h = [i \in 1..Len(ss) |-> IF i = 1 THEN ss[i] ELSE h[i - 1] \o ss[i]]
           h0 == CHOOSE h : R(h)
<1>1. FlattenSeq(ss) = h0[Len(ss)]
  BY DEF FlattenSeq
<1>2. PICK g \in [1..Len(ss) -> Seq(X)] : Joins(ss, g, Len(ss))
  <2>1. Len(ss) \in 0..Len(ss)
    OBVIOUS
  <2> QED BY <2>1, JoinsExists
<1>3. R(g)
  BY <1>2 DEF Joins
<1>4. R(h0)
  <2> HIDE DEF R
  <2> QED BY <1>3
<1>5. Joins(ss, h0, Len(ss))
  <2> HIDE DEF h0
  <2> QED BY <1>4 DEF Joins
<1> HIDE DEF h0, R
<1>6. \A i \in 1..Len(ss) : h0[i] = f[i]
  BY <1>5, JoinsUnique
<1> QED BY <1>6, <1>1

(* Joining no sequences gives the empty one. *)
LEMMA FlattenEmpty == FlattenSeq(<<>>) = <<>>
BY DEF FlattenSeq

(* Joining one sequence more appends it. *)
LEMMA FlattenAppend ==
  ASSUME NEW X, NEW ss \in Seq(Seq(X)), NEW s \in Seq(X)
  PROVE  /\ FlattenSeq(ss) \in Seq(X)
         /\ FlattenSeq(Append(ss, s)) = FlattenSeq(ss) \o s
<1> DEFINE tt == Append(ss, s)
           n == Len(ss)
<1>1. tt \in Seq(Seq(X)) /\ Len(tt) = n + 1 /\ \A i \in 1..n : tt[i] = ss[i]
  OBVIOUS
<1>1a. tt[n + 1] = s /\ n \in Nat
  OBVIOUS
<1> HIDE DEF tt
<1> HIDE DEF n
<1>2. PICK f \in [1..(n + 1) -> Seq(X)] : Joins(tt, f, n + 1)
  <2>1. n + 1 \in 0..Len(tt)
    BY <1>1, <1>1a
  <2> QED BY <1>1, <2>1, JoinsExists
<1>3. FlattenSeq(tt) = f[n + 1]
  <2>1. Len(tt) > 0
    BY <1>1, <1>1a
  <2> QED BY <1>1, <1>2, <2>1, FlattenIs
<1>4. CASE n = 0
  <2>1. ss = <<>> /\ FlattenSeq(ss) = <<>>
    BY <1>4, FlattenEmpty DEF n
  <2>2. f[n + 1] = s
    <3>1. n + 1 \in 1..(n + 1) /\ n + 1 = 1
      BY <1>4
    <3> QED BY <3>1, <1>2, <1>1a DEF Joins
  <2>3. <<>> \in Seq(X) /\ <<>> \o s = s
    OBVIOUS
  <2> QED BY <2>1, <2>2, <2>3, <1>3 DEF tt
<1>5. CASE n # 0
  <2> DEFINE g == [i \in 1..n |-> f[i]]
  <2>1. Joins(ss, g, n)
    <3>1. ASSUME NEW i \in 1..n PROVE g[i] = IF i = 1 THEN ss[i] ELSE g[i - 1] \o ss[i]
      <4>1. i \in 1..(n + 1)
        BY <1>1a
      <4>2. f[i] = IF i = 1 THEN tt[i] ELSE f[i - 1] \o tt[i]
        BY <4>1, <1>2 DEF Joins
      <4>3. tt[i] = ss[i] /\ g[i] = f[i] /\ (i # 1 => g[i - 1] = f[i - 1])
        BY <1>1, <1>1a
      <4> QED BY <4>2, <4>3
    <3> QED BY <3>1 DEF Joins
  <2>2. FlattenSeq(ss) = f[n]
    <3>1. Len(ss) > 0 /\ Len(ss) = n /\ g[n] = f[n]
      BY <1>1a, <1>5 DEF n
    <3> HIDE DEF g
    <3> QED BY <2>1, <3>1, FlattenIs
  <2>3. f[n + 1] = f[n] \o s
    <3>1. n + 1 \in 1..(n + 1) /\ n + 1 # 1 /\ (n + 1) - 1 = n
      BY <1>1a, <1>5
    <3> QED BY <3>1, <1>2, <1>1a DEF Joins
  <2>4. f[n] \in Seq(X)
    BY <1>1a, <1>5
  <2> QED BY <2>2, <2>3, <2>4, <1>3 DEF tt
<1> QED BY <1>4, <1>5

Prefix(s, n) == [i \in 1..n |-> s[i]]

(* The prefixes of a sequence grow by one element each. *)
LEMMA PrefixFacts ==
  ASSUME NEW X, NEW s \in Seq(X)
  PROVE  /\ Prefix(s, 0) = <<>>
         /\ Prefix(s, Len(s)) = s
         /\ \A n \in 0..Len(s) : Prefix(s, n) \in Seq(X) /\ Len(Prefix(s, n)) = n
         /\ \A n \in 0..(Len(s) - 1) :
              s[n + 1] \in X /\ Prefix(s, n + 1) = Append(Prefix(s, n), s[n + 1])
<1>1. Prefix(s, 0) = <<>>
  BY DEF Prefix
<1>2. Prefix(s, Len(s)) = s
  BY DEF Prefix
<1>3. ASSUME NEW n \in 0..Len(s) PROVE Prefix(s, n) \in Seq(X) /\ Len(Prefix(s, n)) = n
  BY DEF Prefix
<1>4. ASSUME NEW n \in 0..(Len(s) - 1)
      PROVE  s[n + 1] \in X /\ Prefix(s, n + 1) = Append(Prefix(s, n), s[n + 1])
  <2>1. s[n + 1] \in X /\ n \in 0..Len(s) /\ n + 1 \in 0..Len(s) /\ n \in Nat
    OBVIOUS
  <2> DEFINE a == Append(Prefix(s, n), s[n + 1])
  <2>2. Prefix(s, n) \in Seq(X) /\ Len(Prefix(s, n)) = n
    BY <2>1, <1>3
  <2>3. a \in Seq(X) /\ Len(a) = n + 1 /\ a[n + 1] = s[n + 1]
    BY <2>1, <2>2
  <2>4. \A i \in 1..n : a[i] = Prefix(s, n)[i]
    BY <2>1, <2>2
  <2>5. \A i \in 1..(n + 1) : a[i] = s[i]
    BY <2>1, <2>3, <2>4 DEF Prefix
  <2> HIDE DEF a
  <2>6. Prefix(s, n + 1) = a
    BY <2>1, <2>3, <2>5 DEF Prefix
  <2> QED BY <2>1, <2>6 DEF a
<1> QED BY <1>1, <1>2, <1>3, <1>4

(* What holds of the empty sequence and is kept by appending any of the    *)
(* parts holds of the whole.                                               *)
LEMMA FlattenIn ==
  ASSUME NEW X, NEW ss \in Seq(Seq(X)), NEW T, <<>> \in T,
         \A t \in T \cap Seq(X) : \A k \in 1..Len(ss) : t \o ss[k] \in T
  PROVE  FlattenSeq(ss) \in T /\ FlattenSeq(ss) \in Seq(X)
<1> DEFINE S == {n \in 0..Len(ss) : FlattenSeq(Prefix(ss, n)) \in T \cap Seq(X)}
<1>1. 0 \in S
  BY PrefixFacts, FlattenEmpty
<1>2. ASSUME NEW m \in 0..(Len(ss) - 1), m \in S PROVE m + 1 \in S
  <2>1. ss[m + 1] \in Seq(X) /\ Prefix(ss, m + 1) = Append(Prefix(ss, m), ss[m + 1])
    BY PrefixFacts
  <2>2. Prefix(ss, m) \in Seq(Seq(X)) /\ m + 1 \in 1..Len(ss) /\ m + 1 \in 0..Len(ss)
    <3>1. m \in 0..Len(ss)
      OBVIOUS
    <3> QED BY <3>1, PrefixFacts
  <2>3. FlattenSeq(Prefix(ss, m + 1)) = FlattenSeq(Prefix(ss, m)) \o ss[m + 1]
    BY <2>1, <2>2, FlattenAppend
  <2>4. FlattenSeq(Prefix(ss, m)) \in T \cap Seq(X)
    BY <1>2
  <2> DEFINE t == FlattenSeq(Prefix(ss, m))
  <2> HIDE DEF t
  <2>5. t \o ss[m + 1] \in T /\ t \o ss[m + 1] \in Seq(X)
    BY <2>1, <2>2, <2>4 DEF t
  <2> QED BY <2>2, <2>3, <2>5 DEF t
<1>3. Len(ss) \in Nat /\ Len(ss) \in 0..Len(ss)
  OBVIOUS
<1> HIDE DEF S
<1>4. \A m \in 0..Len(ss) : m \in S
  BY <1>1, <1>2, <1>3, UpTo
<1>5. Len(ss) \in S
  BY <1>3, <1>4
<1> QED BY <1>5, PrefixFacts DEF S

(* What is joined of sequences over X is a sequence over X. *)
LEMMA FlattenType ==
  ASSUME NEW X, NEW ss \in Seq(Seq(X))
  PROVE  FlattenSeq(ss) \in Seq(X)
<1>1. <<>> \in Seq(X) /\ \A t \in Seq(X) \cap Seq(X) : \A k \in 1..Len(ss) : t \o ss[k] \in Seq(X)
  OBVIOUS
<1> QED BY <1>1, FlattenIn

(* Concatenation and Append associate. *)
LEMMA ConcatAppend ==
  ASSUME NEW X, NEW s \in Seq(X), NEW t \in Seq(X), NEW x \in X
  PROVE  s \o Append(t, x) = Append(s \o t, x)
OBVIOUS

(* Joining distributes over concatenation. *)
LEMMA FlattenConcat ==
  ASSUME NEW X, NEW ss \in Seq(Seq(X)), NEW tt \in Seq(Seq(X))
  PROVE  FlattenSeq(ss \o tt) = FlattenSeq(ss) \o FlattenSeq(tt)
<1>0. \A s, t, r \in Seq(X) : (s \o t) \o r = s \o (t \o r)
  BY ConcatAssociative
<1> DEFINE S == {n \in 0..Len(tt) : FlattenSeq(ss \o Prefix(tt, n)) = FlattenSeq(ss) \o FlattenSeq(Prefix(tt, n))}
<1>1. 0 \in S
  <2>1. ss \o <<>> = ss /\ FlattenSeq(ss) \in Seq(X)
    BY FlattenType
  <2>2. FlattenSeq(ss) \o <<>> = FlattenSeq(ss) /\ 0 \in 0..Len(tt)
    BY <2>1
  <2> QED BY <2>1, <2>2, PrefixFacts, FlattenEmpty
<1>2. ASSUME NEW m \in 0..(Len(tt) - 1), m \in S PROVE m + 1 \in S
  <2> DEFINE p == Prefix(tt, m)
             x == tt[m + 1]
  <2>1. x \in Seq(X) /\ Prefix(tt, m + 1) = Append(p, x)
    BY PrefixFacts
  <2>2. p \in Seq(Seq(X)) /\ m + 1 \in 0..Len(tt)
    <3>1. m \in 0..Len(tt)
      OBVIOUS
    <3> QED BY <3>1, PrefixFacts
  <2>3. FlattenSeq(ss \o p) = FlattenSeq(ss) \o FlattenSeq(p)
    BY <1>2
  <2> HIDE DEF p, x
  <2>4. ss \o Append(p, x) = Append(ss \o p, x) /\ ss \o p \in Seq(Seq(X))
    BY <2>1, <2>2, ConcatAppend
  <2>5. FlattenSeq(Append(ss \o p, x)) = FlattenSeq(ss \o p) \o x
    BY <2>1, <2>4, FlattenAppend
  <2>6. FlattenSeq(Append(p, x)) = FlattenSeq(p) \o x
    BY <2>1, <2>2, FlattenAppend
  <2>7. (FlattenSeq(ss) \o FlattenSeq(p)) \o x = FlattenSeq(ss) \o (FlattenSeq(p) \o x)
    <3>1. FlattenSeq(ss) \in Seq(X) /\ FlattenSeq(p) \in Seq(X)
      BY <2>2, FlattenType
    <3> DEFINE a == FlattenSeq(ss)
               b == FlattenSeq(p)
    <3>2. a \in Seq(X) /\ b \in Seq(X) /\ x \in Seq(X)
      BY <3>1, <2>1
    <3> HIDE DEF a, b
    <3>3. (a \o b) \o x = a \o (b \o x)
      BY <3>2, <1>0, Zenon
    <3> QED BY <3>3 DEF a, b
  <2> QED BY <2>1, <2>2, <2>3, <2>4, <2>5, <2>6, <2>7
<1>3. Len(tt) \in Nat /\ Len(tt) \in 0..Len(tt)
  OBVIOUS
<1> HIDE DEF S
<1>4. \A m \in 0..Len(tt) : m \in S
  BY <1>1, <1>2, <1>3, UpTo
<1>5. Len(tt) \in S
  BY <1>3, <1>4
<1> QED BY <1>5, PrefixFacts DEF S

(* A part of a sequence of sequences is in what FlattenSeq makes of it. *)
LEMMA FlattenHas ==
  ASSUME NEW X, NEW ss \in Seq(Seq(X)), NEW k \in 1..Len(ss), NEW j \in 1..Len(ss[k])
  PROVE  \E i \in 1..Len(FlattenSeq(ss)) : FlattenSeq(ss)[i] = ss[k][j]
<1> DEFINE In(n) == \E i \in 1..Len(FlattenSeq(Prefix(ss, n))) : FlattenSeq(Prefix(ss, n))[i] = ss[k][j]
           S == {n \in 0..Len(ss) : n >= k => In(n)}
<1>1. 0 \in S
  OBVIOUS
<1>2. ASSUME NEW m \in 0..(Len(ss) - 1), m \in S PROVE m + 1 \in S
  <2> DEFINE t == FlattenSeq(Prefix(ss, m))
             x == ss[m + 1]
  <2>1. x \in Seq(X) /\ Prefix(ss, m + 1) = Append(Prefix(ss, m), x)
    BY PrefixFacts
  <2>2. Prefix(ss, m) \in Seq(Seq(X)) /\ m + 1 \in 0..Len(ss) /\ m \in Nat
    <3>1. m \in 0..Len(ss)
      OBVIOUS
    <3> QED BY <3>1, PrefixFacts
  <2>3. FlattenSeq(Prefix(ss, m + 1)) = t \o x /\ t \in Seq(X)
    BY <2>1, <2>2, FlattenAppend
  <2>4. m >= k => \E i \in 1..Len(t) : t[i] = ss[k][j]
    BY <1>2
  <2>5. m + 1 = k => j \in 1..Len(x) /\ x[j] = ss[k][j]
    BY DEF x
  <2> HIDE DEF t, x
  <2>6. ASSUME m + 1 >= k PROVE \E i \in 1..Len(t \o x) : (t \o x)[i] = ss[k][j]
    <3>1. CASE m >= k
      <4>1. PICK i \in 1..Len(t) : t[i] = ss[k][j]
        BY <2>4, <3>1
      <4>2. i \in 1..Len(t \o x) /\ (t \o x)[i] = t[i]
        BY <2>1, <2>3
      <4> QED BY <4>1, <4>2
    <3>2. CASE m + 1 = k
      <4>1. Len(t) + j \in 1..Len(t \o x) /\ (t \o x)[Len(t) + j] = x[j]
        BY <2>1, <2>3, <2>5, <3>2
      <4> QED BY <4>1, <2>5, <3>2
    <3> QED BY <3>1, <3>2, <2>6, <2>2
  <2> QED BY <2>2, <2>3, <2>6
<1>3. Len(ss) \in Nat /\ Len(ss) \in 0..Len(ss) /\ Len(ss) >= k
  OBVIOUS
<1> HIDE DEF S
<1>4. \A m \in 0..Len(ss) : m \in S
  BY <1>1, <1>2, <1>3, UpTo
<1>5. In(Len(ss))
  BY <1>3, <1>4 DEF S
<1> QED BY <1>5, PrefixFacts

-----------------------------------------------------------------------------
(* Sequences of commands.  Has: a command of A is in s.  Before: every     *)
(* command of B in s has one of A before it.  After: one of A after it.    *)
Has(s, A) == \E i \in 1..Len(s) : s[i] \in A
Before(s, A, B) == \A i \in 1..Len(s) : s[i] \in B => \E j \in 1..(i - 1) : s[j] \in A
After(s, A, B) == \A i \in 1..Len(s) : s[i] \in B => \E j \in (i + 1)..Len(s) : s[j] \in A
Free(s, B) == \A i \in 1..Len(s) : s[i] \notin B

(* The elements of a concatenation, by position. *)
LEMMA ConcatFacts ==
  ASSUME NEW X, NEW s \in Seq(X), NEW t \in Seq(X)
  PROVE  /\ s \o t \in Seq(X)
         /\ Len(s \o t) = Len(s) + Len(t) /\ Len(s) \in Nat /\ Len(t) \in Nat
         /\ \A i \in 1..Len(s) : (s \o t)[i] = s[i]
         /\ \A i \in 1..Len(t) : (s \o t)[Len(s) + i] = t[i]
         /\ \A i \in 1..Len(s \o t) : i <= Len(s) \/ (i - Len(s) \in 1..Len(t) /\ (s \o t)[i] = t[i - Len(s)])
OBVIOUS

(* A concatenation has what one of its parts has, *)
LEMMA ConcatHas ==
  ASSUME NEW X, NEW s \in Seq(X), NEW t \in Seq(X), NEW A, Has(s, A) \/ Has(t, A)
  PROVE  Has(s \o t, A)
<1>1. CASE Has(s, A)
  <2>1. PICK i \in 1..Len(s) : s[i] \in A
    BY <1>1 DEF Has
  <2>2. i \in 1..Len(s \o t) /\ (s \o t)[i] = s[i]
    BY ConcatFacts
  <2> QED BY <2>1, <2>2 DEF Has
<1>2. CASE Has(t, A)
  <2>1. PICK i \in 1..Len(t) : t[i] \in A
    BY <1>2 DEF Has
  <2>2. Len(s) + i \in 1..Len(s \o t) /\ (s \o t)[Len(s) + i] = t[i]
    BY ConcatFacts
  <2> QED BY <2>1, <2>2 DEF Has
<1> QED BY <1>1, <1>2

(* it lacks what both lack, *)
LEMMA ConcatFree ==
  ASSUME NEW X, NEW s \in Seq(X), NEW t \in Seq(X), NEW B, Free(s, B), Free(t, B)
  PROVE  Free(s \o t, B)
<1> SUFFICES ASSUME NEW i \in 1..Len(s \o t) PROVE (s \o t)[i] \notin B
  BY DEF Free
<1>1. CASE i <= Len(s)
  <2>1. i \in 1..Len(s) /\ (s \o t)[i] = s[i]
    BY <1>1, ConcatFacts
  <2> QED BY <2>1 DEF Free
<1>2. CASE ~(i <= Len(s))
  <2>1. i - Len(s) \in 1..Len(t) /\ (s \o t)[i] = t[i - Len(s)]
    BY <1>2, ConcatFacts
  <2> QED BY <2>1 DEF Free
<1> QED BY <1>1, <1>2

(* keeps the order of its parts when the first has the earlier element, *)
LEMMA ConcatBefore ==
  ASSUME NEW X, NEW s \in Seq(X), NEW t \in Seq(X), NEW A, NEW B,
         Before(s, A, B), Has(s, A) \/ Before(t, A, B)
  PROVE  Before(s \o t, A, B)
<1> SUFFICES ASSUME NEW i \in 1..Len(s \o t), (s \o t)[i] \in B
             PROVE  \E j \in 1..(i - 1) : (s \o t)[j] \in A
  BY DEF Before
<1>1. CASE i <= Len(s)
  <2>1. i \in 1..Len(s) /\ (s \o t)[i] = s[i]
    BY <1>1, ConcatFacts
  <2>2. PICK j \in 1..(i - 1) : s[j] \in A
    BY <2>1 DEF Before
  <2>3. j \in 1..Len(s) /\ (s \o t)[j] = s[j]
    BY <2>1, ConcatFacts
  <2> QED BY <2>2, <2>3
<1>2. CASE ~(i <= Len(s))
  <2>1. i - Len(s) \in 1..Len(t) /\ (s \o t)[i] = t[i - Len(s)] /\ Len(s) \in Nat
    BY <1>2, ConcatFacts
  <2>2. CASE Has(s, A)
    <3>1. PICK j \in 1..Len(s) : s[j] \in A
      BY <2>2 DEF Has
    <3>2. (s \o t)[j] = s[j] /\ j \in 1..(i - 1)
      BY <2>1, <1>2, ConcatFacts
    <3> QED BY <3>1, <3>2
  <2>3. CASE Before(t, A, B)
    <3>1. PICK j \in 1..(i - Len(s) - 1) : t[j] \in A
      BY <2>1, <2>3 DEF Before
    <3>2. j \in 1..Len(t) /\ Len(s) + j \in 1..(i - 1)
      BY <2>1
    <3>3. (s \o t)[Len(s) + j] = t[j]
      BY <3>2, ConcatFacts
    <3> QED BY <3>1, <3>2, <3>3
  <2> QED BY <2>2, <2>3
<1> QED BY <1>1, <1>2

(* and likewise when the second has the later one. *)
LEMMA ConcatAfter ==
  ASSUME NEW X, NEW s \in Seq(X), NEW t \in Seq(X), NEW A, NEW B,
         Has(t, A) \/ After(s, A, B), After(t, A, B)
  PROVE  After(s \o t, A, B)
<1> SUFFICES ASSUME NEW i \in 1..Len(s \o t), (s \o t)[i] \in B
             PROVE  \E j \in (i + 1)..Len(s \o t) : (s \o t)[j] \in A
  BY DEF After
<1>1. CASE i <= Len(s)
  <2>1. i \in 1..Len(s) /\ (s \o t)[i] = s[i]
    BY <1>1, ConcatFacts
  <2>2. CASE Has(t, A)
    <3>1. PICK j \in 1..Len(t) : t[j] \in A
      BY <2>2 DEF Has
    <3>2. (s \o t)[Len(s) + j] = t[j] /\ Len(s) + j \in (i + 1)..Len(s \o t)
      BY <2>1, ConcatFacts
    <3> QED BY <3>1, <3>2
  <2>3. CASE After(s, A, B)
    <3>1. PICK j \in (i + 1)..Len(s) : s[j] \in A
      BY <2>1, <2>3 DEF After
    <3>2. j \in 1..Len(s) /\ j \in (i + 1)..Len(s \o t) /\ (s \o t)[j] = s[j]
      BY <2>1, ConcatFacts
    <3> QED BY <3>1, <3>2
  <2> QED BY <2>2, <2>3
<1>2. CASE ~(i <= Len(s))
  <2>1. i - Len(s) \in 1..Len(t) /\ (s \o t)[i] = t[i - Len(s)] /\ Len(s) \in Nat
    BY <1>2, ConcatFacts
  <2>2. PICK j \in (i - Len(s) + 1)..Len(t) : t[j] \in A
    BY <2>1 DEF After
  <2>3. j \in 1..Len(t) /\ Len(s) + j \in (i + 1)..Len(s \o t)
    BY <2>1, ConcatFacts
  <2>4. (s \o t)[Len(s) + j] = t[j]
    BY <2>3, ConcatFacts
  <2> QED BY <2>2, <2>3, <2>4
<1> QED BY <1>1, <1>2

(* The elements of the rest of a program. *)
LEMMA TailFacts ==
  ASSUME NEW X, NEW s \in Seq(X), s # <<>>
  PROVE  /\ Tail(s) \in Seq(X) /\ Len(Tail(s)) = Len(s) - 1 /\ Len(s) \in Nat \ {0}
         /\ Head(s) = s[1] /\ Head(s) \in X
         /\ \A i \in 1..(Len(s) - 1) : Tail(s)[i] = s[i + 1]
OBVIOUS

(* What a program lacks, its first command is not and its rest lacks. *)
LEMMA TailFree ==
  ASSUME NEW X, NEW s \in Seq(X), s # <<>>, NEW B, Free(s, B)
  PROVE  Head(s) \notin B /\ Free(Tail(s), B)
<1>1. Head(s) \notin B
  BY TailFacts DEF Free
<1>2. ASSUME NEW i \in 1..Len(Tail(s)) PROVE Tail(s)[i] \notin B
  <2>1. Tail(s)[i] = s[i + 1] /\ i + 1 \in 1..Len(s)
    BY TailFacts
  <2> QED BY <2>1 DEF Free
<1> QED BY <1>1, <1>2 DEF Free

(* What a program has is its first command or in its rest. *)
LEMMA TailHas ==
  ASSUME NEW X, NEW s \in Seq(X), s # <<>>, NEW A, Has(s, A)
  PROVE  Head(s) \in A \/ Has(Tail(s), A)
<1>1. PICK i \in 1..Len(s) : s[i] \in A
  BY DEF Has
<1>2. CASE i = 1
  BY <1>1, <1>2, TailFacts
<1>3. CASE i # 1
  <2>1. i - 1 \in 1..Len(Tail(s)) /\ Tail(s)[i - 1] = s[i]
    BY <1>3, TailFacts
  <2> QED BY <2>1, <1>1 DEF Has
<1> QED BY <1>2, <1>3

(* A command that needs another one before it is never the first. *)
LEMMA TailBefore ==
  ASSUME NEW X, NEW s \in Seq(X), s # <<>>, NEW A, NEW B, Before(s, A, B)
  PROVE  Head(s) \notin B /\ (Head(s) \in A \/ Before(Tail(s), A, B))
<1>1. Head(s) \notin B
  <2>1. 1 \in 1..Len(s) /\ Head(s) = s[1]
    BY TailFacts
  <2> QED BY <2>1 DEF Before
<1>2. ASSUME Head(s) \notin A, NEW i \in 1..Len(Tail(s)), Tail(s)[i] \in B
      PROVE  \E j \in 1..(i - 1) : Tail(s)[j] \in A
  <2>1. Tail(s)[i] = s[i + 1] /\ i + 1 \in 1..Len(s) /\ Len(s) \in Nat
    BY TailFacts
  <2>2. PICK j \in 1..((i + 1) - 1) : s[j] \in A
    BY <2>1, <1>2 DEF Before
  <2>3. j # 1
    BY <2>2, <1>2, TailFacts
  <2>4. j - 1 \in 1..(i - 1) /\ j - 1 \in 1..(Len(s) - 1) /\ (j - 1) + 1 = j
    BY <2>1, <2>3
  <2>5. Tail(s)[j - 1] = s[j]
    BY <2>4, TailFacts
  <2> QED BY <2>2, <2>4, <2>5
<1> QED BY <1>1, <1>2 DEF Before

(* A command that needs another one after it leaves it in the rest. *)
LEMMA TailAfter ==
  ASSUME NEW X, NEW s \in Seq(X), s # <<>>, NEW A, NEW B, After(s, A, B)
  PROVE  After(Tail(s), A, B) /\ (Head(s) \in B => Has(Tail(s), A))
<1>1. ASSUME NEW i \in 1..Len(s), s[i] \in B
      PROVE  \E j \in i..Len(Tail(s)) : Tail(s)[j] \in A
  <2>1. PICK j \in (i + 1)..Len(s) : s[j] \in A
    BY <1>1 DEF After
  <2>2. j - 1 \in i..Len(Tail(s)) /\ Tail(s)[j - 1] = s[j]
    BY TailFacts
  <2> QED BY <2>1, <2>2
<1>2. ASSUME NEW i \in 1..Len(Tail(s)), Tail(s)[i] \in B
      PROVE  \E j \in (i + 1)..Len(Tail(s)) : Tail(s)[j] \in A
  <2>1. i + 1 \in 1..Len(s) /\ s[i + 1] \in B
    BY <1>2, TailFacts
  <2> QED BY <2>1, <1>1
<1>3. ASSUME Head(s) \in B PROVE Has(Tail(s), A)
  <2>1. 1 \in 1..Len(s) /\ s[1] \in B
    BY <1>3, TailFacts
  <2> QED BY <2>1, <1>1 DEF Has
<1> QED BY <1>2, <1>3 DEF After

(* The commands that the device runs in a branch. *)
InBranch(s, b) == ForEach(s, LAMBDA x : x.stage \in {"all", b}, LAMBDA x : <<x>>)

Parts(s, b) == [k \in 1..Len(s) |-> IF s[k].stage \in {"all", b} THEN <<s[k]>> ELSE <<>>]

(* A branch of the script is a join of single commands. *)
LEMMA InBranchIs ==
  ASSUME NEW X, NEW s \in Seq(X), NEW b
  PROVE  /\ InBranch(s, b) = FlattenSeq(Parts(s, b))
         /\ Parts(s, b) \in Seq(Seq(X))
         /\ InBranch(s, b) \in Seq(X)
<1>1. InBranch(s, b) = FlattenSeq(Parts(s, b))
  BY DEF InBranch, ForEach, Parts
<1>2. ASSUME NEW k \in 1..Len(s) PROVE (IF s[k].stage \in {"all", b} THEN <<s[k]>> ELSE <<>>) \in Seq(X)
  OBVIOUS
<1>3. Parts(s, b) \in Seq(Seq(X))
  BY <1>2 DEF Parts
<1> QED BY <1>1, <1>3, FlattenType

(* The branch of a concatenation is the concatenation of the branches. *)
LEMMA InBranchConcat ==
  ASSUME NEW X, NEW s \in Seq(X), NEW t \in Seq(X), NEW b
  PROVE  InBranch(s \o t, b) = InBranch(s, b) \o InBranch(t, b)
<1>1. s \o t \in Seq(X)
  OBVIOUS
<1>2. Parts(s, b) \in Seq(Seq(X)) /\ Parts(t, b) \in Seq(Seq(X)) /\ Parts(s \o t, b) \in Seq(Seq(X))
  BY <1>1, InBranchIs
<1>3. Parts(s \o t, b) = Parts(s, b) \o Parts(t, b)
  <2>1. Len(Parts(s, b)) = Len(s) /\ Len(Parts(t, b)) = Len(t) /\ Len(Parts(s \o t, b)) = Len(s) + Len(t)
    BY DEF Parts
  <2>2. ASSUME NEW i \in 1..(Len(s) + Len(t))
        PROVE  Parts(s \o t, b)[i] = (Parts(s, b) \o Parts(t, b))[i]
    <3>1. Parts(s \o t, b)[i] = IF (s \o t)[i].stage \in {"all", b} THEN <<(s \o t)[i]>> ELSE <<>>
      BY ConcatFacts DEF Parts
    <3>2. CASE i <= Len(s)
      <4>1. i \in 1..Len(s) /\ (s \o t)[i] = s[i]
        BY <3>2, ConcatFacts
      <4>2. (Parts(s, b) \o Parts(t, b))[i] = Parts(s, b)[i]
        BY <4>1, <1>2, <2>1, ConcatFacts
      <4>3. Parts(s, b)[i] = IF s[i].stage \in {"all", b} THEN <<s[i]>> ELSE <<>>
        BY <4>1 DEF Parts
      <4> QED BY <3>1, <4>1, <4>2, <4>3
    <3>3. CASE ~(i <= Len(s))
      <4>1. i - Len(s) \in 1..Len(t) /\ (s \o t)[i] = t[i - Len(s)]
        BY <3>3, ConcatFacts
      <4>2. (Parts(s, b) \o Parts(t, b))[i] = Parts(t, b)[i - Len(s)]
        <5> DEFINE v == Parts(s, b)
                   w == Parts(t, b)
        <5>1. v \in Seq(Seq(X)) /\ w \in Seq(Seq(X)) /\ Len(v) = Len(s) /\ Len(w) = Len(t)
          BY <1>2, <2>1
        <5> HIDE DEF v, w
        <5>2. i - Len(v) \in 1..Len(w) /\ Len(v) + (i - Len(v)) = i
          BY <5>1, <4>1
        <5>3. (v \o w)[i] = w[i - Len(v)]
          BY <5>1, <5>2, ConcatFacts
        <5> QED BY <5>1, <5>3 DEF v, w
      <4>3. Parts(t, b)[i - Len(s)] = IF t[i - Len(s)].stage \in {"all", b} THEN <<t[i - Len(s)]>> ELSE <<>>
        BY <4>1 DEF Parts
      <4> QED BY <3>1, <4>1, <4>2, <4>3
    <3> QED BY <3>2, <3>3
  <2>3. Len(Parts(s, b) \o Parts(t, b)) = Len(s) + Len(t) /\ Parts(s, b) \o Parts(t, b) \in Seq(Seq(X))
    BY <1>2, <2>1, ConcatFacts
  <2> DEFINE v == Parts(s \o t, b)
             w == Parts(s, b) \o Parts(t, b)
  <2>4. /\ v \in Seq(Seq(X)) /\ w \in Seq(Seq(X)) /\ Len(v) = Len(w)
        /\ \A i \in 1..Len(v) : v[i] = w[i]
    BY <1>2, <2>1, <2>2, <2>3
  <2> HIDE DEF v, w
  <2>5. v = w
    BY <2>4, SeqEqual
  <2> QED BY <2>5 DEF v, w
<1>4. FlattenSeq(Parts(s, b) \o Parts(t, b)) = FlattenSeq(Parts(s, b)) \o FlattenSeq(Parts(t, b))
  BY <1>2, FlattenConcat
<1>5. InBranch(s \o t, b) = FlattenSeq(Parts(s \o t, b))
  BY <1>1, InBranchIs
<1>6. InBranch(s, b) = FlattenSeq(Parts(s, b)) /\ InBranch(t, b) = FlattenSeq(Parts(t, b))
  BY InBranchIs
<1> QED BY <1>3, <1>4, <1>5, <1>6

(* Commands of another branch are left out. *)
LEMMA InBranchNone ==
  ASSUME NEW X, NEW s \in Seq(X), NEW b, \A i \in 1..Len(s) : s[i].stage \notin {"all", b}
  PROVE  InBranch(s, b) = <<>>
<1>1. Parts(s, b) \in Seq(Seq(X)) /\ Len(Parts(s, b)) = Len(s)
  BY InBranchIs DEF Parts
<1>2. \A k \in 1..Len(s) : Parts(s, b)[k] = <<>>
  BY DEF Parts
<1>3. \A t \in {<<>>} \cap Seq(X) : \A k \in 1..Len(Parts(s, b)) : t \o Parts(s, b)[k] \in {<<>>}
  BY <1>1, <1>2
<1>4. FlattenSeq(Parts(s, b)) \in {<<>>}
  BY <1>1, <1>3, FlattenIn
<1> QED BY <1>4, InBranchIs

(* Commands of this branch or of all branches are kept. *)
LEMMA InBranchAll ==
  ASSUME NEW X, NEW s \in Seq(X), NEW b, \A i \in 1..Len(s) : s[i].stage \in {"all", b}
  PROVE  InBranch(s, b) = s
<1> DEFINE S == {n \in 0..Len(s) : InBranch(Prefix(s, n), b) = Prefix(s, n)}
<1>1. 0 \in S
  <2>1. <<>> \in Seq(X) /\ \A i \in 1..Len(<<>>) : <<>>[i].stage \notin {"all", b}
    OBVIOUS
  <2>2. InBranch(<<>>, b) = <<>>
    BY <2>1, InBranchNone
  <2> QED BY <2>2, PrefixFacts
<1>2. ASSUME NEW m \in 0..(Len(s) - 1), m \in S PROVE m + 1 \in S
  <2> DEFINE p == Prefix(s, m)
             x == s[m + 1]
  <2>1. x \in X /\ Prefix(s, m + 1) = Append(p, x)
    BY PrefixFacts
  <2>2. p \in Seq(X) /\ m + 1 \in 0..Len(s) /\ m \in Nat
    <3>1. m \in 0..Len(s)
      OBVIOUS
    <3> QED BY <3>1, PrefixFacts
  <2>3. InBranch(p, b) = p /\ x.stage \in {"all", b}
    BY <1>2
  <2> HIDE DEF p, x
  <2>4. Append(p, x) = p \o <<x>> /\ <<x>> \in Seq(X)
    <3>1. <<x>> \in Seq(X) /\ Len(<<x>>) = 1 /\ <<x>>[1] = x
      BY <2>1
    <3>2. p \o <<x>> \in Seq(X) /\ Append(p, x) \in Seq(X)
      BY <2>1, <2>2, <3>1
    <3>3. Len(p \o <<x>>) = Len(p) + 1 /\ Len(Append(p, x)) = Len(p) + 1
      BY <2>1, <2>2, <3>1
    <3>4. \A i \in 1..(Len(p) + 1) : (p \o <<x>>)[i] = Append(p, x)[i]
      BY <2>1, <2>2, <3>1
    <3>5. Append(p, x) = p \o <<x>>
      BY <3>2, <3>3, <3>4, SeqEqual
    <3> QED BY <3>1, <3>5
  <2>5. InBranch(<<x>>, b) = <<x>>
    <3>1. Parts(<<x>>, b) = Append(<<>>, <<x>>)
      BY <2>3 DEF Parts
    <3>2. <<>> \in Seq(Seq(X)) /\ <<>> \o <<x>> = <<x>>
      BY <2>4
    <3>3. FlattenSeq(Append(<<>>, <<x>>)) = <<>> \o <<x>>
      BY <3>2, <2>4, FlattenAppend, FlattenEmpty
    <3> QED BY <3>1, <3>2, <3>3, <2>4, InBranchIs
  <2>6. InBranch(p \o <<x>>, b) = p \o <<x>>
    <3> DEFINE y == <<x>>
    <3>0. y \in Seq(X) /\ p \in Seq(X)
      BY <2>2, <2>4
    <3> HIDE DEF y
    <3>1. InBranch(p \o y, b) = InBranch(p, b) \o InBranch(y, b)
      BY <3>0, InBranchConcat
    <3> USE DEF y
    <3> QED BY <3>1, <2>3, <2>5
  <2> QED BY <2>1, <2>2, <2>4, <2>6
<1>3. Len(s) \in Nat /\ Len(s) \in 0..Len(s)
  OBVIOUS
<1> HIDE DEF S
<1>4. \A m \in 0..Len(s) : m \in S
  BY <1>1, <1>2, <1>3, UpTo
<1>5. Len(s) \in S
  BY <1>3, <1>4
<1> QED BY <1>5, PrefixFacts DEF S

(* The commands of the scripts of a package. *)
Stages == {"all", "1/3", "2/3", "3/3"}
OpNames == {"package_extract_file", "patch_partition_check", "patch_partition", "apply_patch_space",
            "assert_build", "assert_older", "assert_device", "format", "mount", "unmount", "set_stage",
            "reboot_now", "verify", "post_verify", "block_image_update", "update_dynamic_partitions",
            "unmap_partition"}
Places == ToSet(PartitionNames) \union {"boot", "recovery", "cache", "data", "oem", "misc", "super", ""}
Args(x) == {"", "boot.img", "recovery.img", "2/3", "3/3", "recovery"}
           \union {x.version, RequiredCache(x), Compute(Updates(x))}
Cmds(x) == [stage : Stages, op : OpNames, on : Places, with : Args(x)]

Plain(s) == \A i \in 1..Len(s) : s[i].stage = "all"

Install(x) == IF x.incremental THEN IncrementalInstall(x) ELSE FullInstall(x)
Opening(x) == IF x.incremental THEN MountOem(x) \o AssertDevice ELSE MountOem(x) \o AssertOlderBuild \o AssertDevice
Closing(x) == IF x.incremental THEN UnmountAll(Mounts(x)) ELSE <<>>
Checked(x) == IF x.incremental THEN Verify(x) ELSE <<>>

(* Commands in no branch stay so when they are put together. *)
LEMMA ConcatPlain ==
  ASSUME NEW X, NEW s \in Seq(X), NEW t \in Seq(X), Plain(s), Plain(t)
  PROVE  Plain(s \o t)
<1> SUFFICES ASSUME NEW i \in 1..Len(s \o t) PROVE (s \o t)[i].stage = "all"
  BY DEF Plain
<1>1. CASE i <= Len(s)
  BY <1>1, ConcatFacts DEF Plain
<1>2. CASE ~(i <= Len(s))
  <2>1. i - Len(s) \in 1..Len(t) /\ (s \o t)[i] = t[i - Len(s)]
    BY <1>2, ConcatFacts
  <2> QED BY <2>1 DEF Plain
<1> QED BY <1>1, <1>2

(* The empty sequence is a sequence of such commands. *)
LEMMA EmptyPlain == ASSUME NEW X PROVE <<>> \in Seq(X) /\ Plain(<<>>)
BY DEF Plain

(* FlattenSeq of plain parts is plain. *)
LEMMA FlattenPlain ==
  ASSUME NEW X, NEW ss \in Seq(Seq(X)), \A k \in 1..Len(ss) : Plain(ss[k])
  PROVE  FlattenSeq(ss) \in Seq(X) /\ Plain(FlattenSeq(ss))
<1> DEFINE T == {t \in Seq(X) : Plain(t)}
<1>1. <<>> \in T
  BY EmptyPlain
<1>2. ASSUME NEW t \in T \cap Seq(X), NEW k \in 1..Len(ss) PROVE t \o ss[k] \in T
  <2>1. ss[k] \in Seq(X) /\ Plain(ss[k])
    OBVIOUS
  <2> DEFINE r == ss[k]
  <2>2. r \in Seq(X) /\ Plain(r)
    BY <2>1
  <2> HIDE DEF r
  <2>3. t \o r \in Seq(X) /\ Plain(t \o r)
    BY <2>2, ConcatPlain, ConcatFacts
  <2> QED BY <2>3 DEF r
<1>3. FlattenSeq(ss) \in T
  <2> HIDE DEF T
  <2> QED BY <1>1, <1>2, FlattenIn
<1> QED BY <1>3

(* The branch that the device runs. *)
LEMMA InStageFacts ==
  ASSUME NEW x, NEW s \in Seq(Cmds(x)), NEW b \in Stages
  PROVE  /\ InStage(b, s) \in Seq(Cmds(x)) /\ Len(InStage(b, s)) = Len(s)
         /\ \A i \in 1..Len(s) : InStage(b, s)[i].stage = b
         /\ \A i \in 1..Len(s) : InStage(b, s)[i].op = s[i].op
         /\ \A i \in 1..Len(s) : InStage(b, s)[i].on = s[i].on
         /\ \A i \in 1..Len(s) : InStage(b, s)[i].with = s[i].with
<1>1. ASSUME NEW i \in 1..Len(s)
      PROVE /\ [s[i] EXCEPT !.stage = b] \in Cmds(x)
            /\ [s[i] EXCEPT !.stage = b].stage = b
            /\ [s[i] EXCEPT !.stage = b].op = s[i].op
            /\ [s[i] EXCEPT !.stage = b].on = s[i].on
            /\ [s[i] EXCEPT !.stage = b].with = s[i].with
  <2>1. s[i] \in Cmds(x)
    OBVIOUS
  <2> QED BY <2>1 DEF Cmds
<1>2. InStage(b, s) \in Seq(Cmds(x)) /\ Len(InStage(b, s)) = Len(s)
  BY <1>1 DEF InStage
<1>3. \A i \in 1..Len(s) : InStage(b, s)[i] = [s[i] EXCEPT !.stage = b]
  BY DEF InStage
<1> QED BY <1>1, <1>2, <1>3

(* Of the commands put into one branch, that branch runs all and another    *)
(* none.                                                                    *)
LEMMA InStageBranch ==
  ASSUME NEW x, NEW s \in Seq(Cmds(x)), NEW a \in Stages \ {"all"}, NEW b
  PROVE  InBranch(InStage(a, s), b) = IF a = b THEN InStage(a, s) ELSE <<>>
<1> DEFINE t == InStage(a, s)
<1>1. t \in Seq(Cmds(x)) /\ \A i \in 1..Len(t) : t[i].stage = a
  <2>1. a \in Stages
    OBVIOUS
  <2>2. t \in Seq(Cmds(x)) /\ Len(t) = Len(s)
    BY <2>1, InStageFacts
  <2>3. \A i \in 1..Len(s) : t[i].stage = a
    BY <2>1, InStageFacts
  <2> HIDE DEF t
  <2> QED BY <2>2, <2>3
<1> HIDE DEF t
<1>2. CASE a = b
  <2>1. InBranch(t, b) = t
    BY <1>1, <1>2, InBranchAll
  <2> QED BY <2>1, <1>2 DEF t
<1>3. CASE a # b
  <2>1. \A i \in 1..Len(t) : t[i].stage \notin {"all", b}
    BY <1>1, <1>3
  <2>2. InBranch(t, b) = <<>>
    BY <1>1, <2>1, InBranchNone
  <2> QED BY <2>2, <1>3 DEF t
<1> QED BY <1>2, <1>3

(* Every branch runs the commands that stand in none. *)
LEMMA PlainBranch ==
  ASSUME NEW X, NEW s \in Seq(X), Plain(s), NEW b
  PROVE  InBranch(s, b) = s
BY InBranchAll DEF Plain

(* A join keeps the order that each of its parts keeps. *)
LEMMA FlattenBefore ==
  ASSUME NEW X, NEW ss \in Seq(Seq(X)), NEW A, NEW B, \A k \in 1..Len(ss) : Before(ss[k], A, B)
  PROVE  Before(FlattenSeq(ss), A, B)
<1> DEFINE T == {t \in Seq(X) : Before(t, A, B)}
<1>1. <<>> \in T
  BY DEF Before
<1>2. ASSUME NEW t \in T \cap Seq(X), NEW k \in 1..Len(ss) PROVE t \o ss[k] \in T
  <2> DEFINE r == ss[k]
  <2>2. r \in Seq(X) /\ Before(r, A, B) /\ t \in Seq(X) /\ Before(t, A, B)
    OBVIOUS
  <2> HIDE DEF r
  <2>3. t \o r \in Seq(X) /\ Before(t \o r, A, B)
    BY <2>2, ConcatBefore, ConcatFacts
  <2> QED BY <2>3 DEF r
<1>3. FlattenSeq(ss) \in T
  <2> HIDE DEF T
  <2> QED BY <1>1, <1>2, FlattenIn
<1> QED BY <1>3

(* A join lacks what each of its parts lacks. *)
LEMMA FlattenFree ==
  ASSUME NEW X, NEW ss \in Seq(Seq(X)), NEW B, \A k \in 1..Len(ss) : Free(ss[k], B)
  PROVE  Free(FlattenSeq(ss), B)
<1> DEFINE T == {t \in Seq(X) : Free(t, B)}
<1>1. <<>> \in T
  BY DEF Free
<1>2. ASSUME NEW t \in T \cap Seq(X), NEW k \in 1..Len(ss) PROVE t \o ss[k] \in T
  <2> DEFINE r == ss[k]
  <2>2. r \in Seq(X) /\ Free(r, B) /\ t \in Seq(X) /\ Free(t, B)
    OBVIOUS
  <2> HIDE DEF r
  <2>3. t \o r \in Seq(X) /\ Free(t \o r, B)
    BY <2>2, ConcatFree, ConcatFacts
  <2> QED BY <2>3 DEF r
<1>3. FlattenSeq(ss) \in T
  <2> HIDE DEF T
  <2> QED BY <1>1, <1>2, FlattenIn
<1> QED BY <1>3

(* What one command is. *)
LEMMA OneSeq ==
  ASSUME NEW X, NEW y \in X, NEW A, NEW B
  PROVE  /\ <<y>> \in Seq(X)
         /\ y \in A => Has(<<y>>, A)
         /\ y \notin B => Free(<<y>>, B) /\ Before(<<y>>, A, B) /\ After(<<y>>, A, B)
         /\ y.stage = "all" => Plain(<<y>>)
BY DEF Has, Free, Before, After, Plain

(* The empty sequence lacks everything. *)
LEMMA EmptySequence ==
  ASSUME NEW X, NEW A, NEW B
  PROVE  <<>> \in Seq(X) /\ Free(<<>>, B) /\ Before(<<>>, A, B) /\ After(<<>>, A, B) /\ Plain(<<>>)
BY DEF Free, Before, After, Plain

(* Without commands of B nothing is out of order. *)
LEMMA FreeBefore ==
  ASSUME NEW s, NEW A, NEW B, Free(s, B)
  PROVE  Before(s, A, B) /\ After(s, A, B)
BY DEF Free, Before, After

(* A sequence over S has nothing outside of S. *)
LEMMA TypeFree ==
  ASSUME NEW S, NEW s \in Seq(S), NEW B, B \cap S = {}
  PROVE  Free(s, B)
BY DEF Free

Diffs(x) == ToSet(GetBlockDifferences(x))

(* GetBlockDifferences lists names of PartitionNames. *)
LEMMA BlockDifferences ==
  ASSUME NEW x
  PROVE  /\ GetBlockDifferences(x) \in Seq(ToSet(PartitionNames))
         /\ GetBlockDifferences(x) \in Seq(Diffs(x))
         /\ Diffs(x) \subseteq ToSet(PartitionNames)
         /\ \A p \in Diffs(x) : \E k \in 1..Len(GetBlockDifferences(x)) : GetBlockDifferences(x)[k] = p
         /\ ToSet(Generic(x)) \subseteq Diffs(x)
<1> DEFINE P == ToSet(PartitionNames)
           gs == [k \in 1..Len(PartitionNames) |->
                    IF PartitionNames[k] \notin x.specific /\ x.u.tgtSize[PartitionNames[k]] > 0
                    THEN <<PartitionNames[k]>> ELSE <<>>]
           ss == [k \in 1..Len(PartitionNames) |->
                    IF PartitionNames[k] \in x.specific THEN <<PartitionNames[k]>> ELSE <<>>]
<1>1. PartitionNames \in Seq(P)
  BY PartitionNamesAssumption
<1>2. Generic(x) = FlattenSeq(gs) /\ Specific(x) = FlattenSeq(ss)
  BY DEF Generic, Specific, ForEach
<1> HIDE DEF P
<1>3. \A k \in 1..Len(PartitionNames) : <<PartitionNames[k]>> \in Seq(P) /\ <<>> \in Seq(P)
  BY <1>1
<1>4. gs \in Seq(Seq(P)) /\ ss \in Seq(Seq(P))
  BY <1>1, <1>3
<1> HIDE DEF gs, ss
<1>5. Generic(x) \in Seq(P) /\ Specific(x) \in Seq(P)
  BY <1>2, <1>4, FlattenType
<1>6. GetBlockDifferences(x) \in Seq(P)
  BY <1>5, ConcatFacts DEF GetBlockDifferences
<1>7. Diffs(x) \subseteq P /\ GetBlockDifferences(x) \in Seq(Diffs(x))
  BY <1>6 DEF Diffs, ToSet
<1>8. \A p \in Diffs(x) : \E k \in 1..Len(GetBlockDifferences(x)) : GetBlockDifferences(x)[k] = p
  BY <1>6 DEF Diffs, ToSet
<1>9. ToSet(Generic(x)) \subseteq Diffs(x)
  <2> SUFFICES ASSUME NEW k \in 1..Len(Generic(x)) PROVE Generic(x)[k] \in Diffs(x)
    BY <1>5 DEF ToSet
  <2>1. k \in 1..Len(GetBlockDifferences(x)) /\ GetBlockDifferences(x)[k] = Generic(x)[k]
    BY <1>5 DEF GetBlockDifferences
  <2> QED BY <1>6, <2>1 DEF Diffs, ToSet
<1> QED BY <1>6, <1>7, <1>8, <1>9 DEF P

Upd(x, p) == {y \in Cmds(x) : y.op = "block_image_update" /\ y.on = p}
PostV(x, p) == {y \in Cmds(x) : y.op = "post_verify" /\ y.on = p}
Dyn(x) == {y \in Cmds(x) : y.op = "update_dynamic_partitions"}
UpdLater(x) == {y \in Cmds(x) : y.op = "block_image_update" /\ ~Shrinks(Updates(x), y.on)}

(* A dynamic partition is only updated if it has an image in the target. *)
Updated(x, p) == x.dynamic => x.u.tgtSize[p] > 0

(* The commands that write the partitions. *)
Written(x) == {y \in Cmds(x) : \/ y.op = "block_image_update" /\ y.on \in Diffs(x) /\ Updated(x, y.on)
                               \/ y.op = "post_verify" /\ y.on \in Diffs(x)
                               \/ y.op = "unmap_partition"
                               \/ /\ y.op = "update_dynamic_partitions" /\ x.dynamic
                                  /\ y.on = "super" /\ y.with = Compute(Updates(x))}

(* The commands that write a partition and the sets that they are, and are  *)
(* not, in.                                                                 *)
LEMMA WrittenCmds ==
  ASSUME NEW x, NEW p \in Diffs(x)
  PROVE  /\ Cmd("block_image_update", p, "") \in Upd(x, p)
         /\ Updated(x, p) => Cmd("block_image_update", p, "") \in Written(x)
         /\ Cmd("post_verify", p, "") \in Written(x) \cap PostV(x, p)
         /\ Cmd("unmap_partition", p, "") \in Written(x)
         /\ \A q : /\ Cmd("block_image_update", p, "") \notin PostV(x, q) \union Dyn(x)
                   /\ Cmd("post_verify", p, "") \notin Dyn(x) \union UpdLater(x) \union Upd(x, q)
                   /\ Cmd("unmap_partition", p, "") \notin PostV(x, q) \union Dyn(x) \union UpdLater(x) \union Upd(x, q)
                   /\ q # p => /\ Cmd("post_verify", p, "") \notin PostV(x, q)
                               /\ Cmd("block_image_update", p, "") \notin Upd(x, q)
         /\ Shrinks(Updates(x), p) => Cmd("block_image_update", p, "") \notin UpdLater(x)
         /\ Cmd("block_image_update", p, "").stage = "all" /\ Cmd("post_verify", p, "").stage = "all"
         /\ Cmd("unmap_partition", p, "").stage = "all"
<1>1. p \in Places /\ "" \in Args(x)
  BY BlockDifferences DEF Places, Args
<1>2. "block_image_update" \in OpNames /\ "post_verify" \in OpNames /\ "unmap_partition" \in OpNames
      /\ "all" \in Stages
  BY DEF OpNames, Stages
<1> DEFINE a == Cmd("block_image_update", p, "")
           b == Cmd("post_verify", p, "")
           d == Cmd("unmap_partition", p, "")
<1>3. a \in Cmds(x) /\ a.op = "block_image_update" /\ a.on = p /\ a.stage = "all"
  BY <1>1, <1>2 DEF Cmd, Cmds
<1>4. b \in Cmds(x) /\ b.op = "post_verify" /\ b.on = p /\ b.stage = "all"
  BY <1>1, <1>2 DEF Cmd, Cmds
<1>5. d \in Cmds(x) /\ d.op = "unmap_partition" /\ d.on = p /\ d.stage = "all"
  BY <1>1, <1>2 DEF Cmd, Cmds
<1> HIDE DEF a, b, d
<1>6. a \in Upd(x, p) /\ (Updated(x, p) => a \in Written(x)) /\ b \in Written(x) \cap PostV(x, p) /\ d \in Written(x)
  BY <1>3, <1>4, <1>5 DEF Written, Upd, PostV
<1>7. ASSUME NEW q
      PROVE  /\ a \notin PostV(x, q) \union Dyn(x)
             /\ b \notin Dyn(x) \union UpdLater(x) \union Upd(x, q)
             /\ d \notin PostV(x, q) \union Dyn(x) \union UpdLater(x) \union Upd(x, q)
             /\ q # p => b \notin PostV(x, q) /\ a \notin Upd(x, q)
  BY <1>3, <1>4, <1>5 DEF PostV, Dyn, UpdLater, Upd
<1>8. Shrinks(Updates(x), p) => a \notin UpdLater(x)
  BY <1>3 DEF UpdLater
<1> QED BY <1>3, <1>4, <1>5, <1>6, <1>7, <1>8 DEF a, b, d

(* WriteBlockDifference, with the Unmap that may follow. *)
LEMMA OnePartition ==
  ASSUME NEW x, NEW p \in Diffs(x), Updated(x, p), NEW v \in BOOLEAN
  PROVE  /\ WriteBlockDifference(p, v) \in Seq(Written(x)) /\ Plain(WriteBlockDifference(p, v))
         /\ Has(WriteBlockDifference(p, v), Upd(x, p))
         /\ \A q : Before(WriteBlockDifference(p, v), Upd(x, q), PostV(x, q))
         /\ Free(WriteBlockDifference(p, v), Dyn(x))
         /\ Shrinks(Updates(x), p) => Free(WriteBlockDifference(p, v), UpdLater(x))
<1> DEFINE a == Cmd("block_image_update", p, "")
           b == Cmd("post_verify", p, "")
           r == IF v THEN <<b>> ELSE <<>>
<1>1. WriteBlockDifference(p, v) = <<a>> \o r
  BY DEF WriteBlockDifference, WriteUpdate, WritePostInstallVerifyScript
<1>2. a \in Written(x) \cap Upd(x, p) /\ b \in Written(x) /\ a.stage = "all" /\ b.stage = "all"
  BY WrittenCmds
<1>3. \A q : a \notin PostV(x, q) /\ a \notin Dyn(x) /\ b \notin Dyn(x) /\ b \notin UpdLater(x) /\ (q # p => b \notin PostV(x, q))
  BY WrittenCmds
<1>4. Shrinks(Updates(x), p) => a \notin UpdLater(x)
  BY WrittenCmds
<1> HIDE DEF a, b
<1> DEFINE s == <<a>>
<1>5. /\ s \in Seq(Written(x)) /\ Plain(s) /\ Has(s, Upd(x, p)) /\ Free(s, Dyn(x))
      /\ Shrinks(Updates(x), p) => Free(s, UpdLater(x))
      /\ \A q : Free(s, PostV(x, q))
  BY <1>2, <1>3, <1>4, OneSeq
<1>6. /\ r \in Seq(Written(x)) /\ Plain(r) /\ Free(r, Dyn(x)) /\ Free(r, UpdLater(x))
      /\ \A q : q # p => Free(r, PostV(x, q))
  <2>1. CASE v
    BY <2>1, <1>2, <1>3, OneSeq
  <2>2. CASE ~v
    BY <2>2, EmptySequence
  <2> QED BY <2>1, <2>2
<1> HIDE DEF s, r
<1>7. s \o r \in Seq(Written(x)) /\ Plain(s \o r) /\ Has(s \o r, Upd(x, p)) /\ Free(s \o r, Dyn(x))
  BY <1>5, <1>6, ConcatFacts, ConcatPlain, ConcatHas, ConcatFree
<1>8. Shrinks(Updates(x), p) => Free(s \o r, UpdLater(x))
  BY <1>5, <1>6, ConcatFree
<1>9. ASSUME NEW q PROVE Before(s \o r, Upd(x, q), PostV(x, q))
  <2>1. CASE q = p
    <3>1. Before(s, Upd(x, q), PostV(x, q)) /\ Has(s, Upd(x, q))
      BY <2>1, <1>5, FreeBefore
    <3> QED BY <3>1, <1>5, <1>6, ConcatBefore
  <2>2. CASE q # p
    BY <2>2, <1>5, <1>6, ConcatFree, FreeBefore
  <2> QED BY <2>1, <2>2
<1> QED BY <1>1, <1>7, <1>8, <1>9 DEF s

(* What Updates takes over of a layout. *)
LEMMA UpdatesFacts ==
  ASSUME NEW x, IsPackage(x)
  PROVE  /\ Updates(x).names = GetBlockDifferences(x)
         /\ Updates(x).tgtSize = x.u.tgtSize
         /\ Updates(x).srcSize \in [ToSet(PartitionNames) -> Nat]
         /\ Updates(x).tgtSize \in [ToSet(PartitionNames) -> Nat]
         /\ x.incremental => Updates(x).srcSize = x.u.srcSize
         /\ ~x.incremental => Updates(x).srcSize = [p \in ToSet(PartitionNames) |-> 0]
BY DEF IsPackage, Updates

(* A script that has the lines L[p] for each p of d. *)
Each(d, L) == FlattenSeq([k \in 1..Len(d) |-> L[d[k]]])

(* A loop over partitions has, lacks and orders what its bodies do. *)
LEMMA EachFacts ==
  ASSUME NEW X, NEW D, NEW d \in Seq(D), NEW L \in [D -> Seq(X)]
  PROVE  /\ Each(d, L) \in Seq(X)
         /\ (\A p \in D : Plain(L[p])) => Plain(Each(d, L))
         /\ \A A : \A p \in ToSet(d) : Has(L[p], A) => Has(Each(d, L), A)
         /\ \A A, B : (\A p \in D : Before(L[p], A, B)) => Before(Each(d, L), A, B)
         /\ \A B : (\A p \in D : Free(L[p], B)) => Free(Each(d, L), B)
<1> DEFINE ss == [k \in 1..Len(d) |-> L[d[k]]]
<1>1. Len(d) \in Nat /\ \A k \in 1..Len(d) : d[k] \in D
  OBVIOUS
<1>2. \A k \in 1..Len(d) : L[d[k]] \in Seq(X)
  BY <1>1
<1>3. ss \in Seq(Seq(X)) /\ Len(ss) = Len(d)
  BY <1>1, <1>2
<1>4. \A k \in 1..Len(d) : ss[k] = L[d[k]]
  OBVIOUS
<1>5. Each(d, L) = FlattenSeq(ss)
  BY DEF Each
<1> HIDE DEF ss
<1>6. Each(d, L) \in Seq(X)
  BY <1>3, <1>5, FlattenType
<1>7. ASSUME \A p \in D : Plain(L[p]) PROVE Plain(Each(d, L))
  <2>1. \A k \in 1..Len(ss) : Plain(ss[k])
    BY <1>1, <1>3, <1>4, <1>7
  <2> QED BY <2>1, <1>3, <1>5, FlattenPlain
<1>8. ASSUME NEW A, NEW p \in ToSet(d), Has(L[p], A) PROVE Has(Each(d, L), A)
  <2>1. PICK k \in 1..Len(ss) : d[k] = p
    BY <1>1, <1>3 DEF ToSet
  <2>2. PICK j \in 1..Len(ss[k]) : ss[k][j] \in A
    BY <2>1, <1>3, <1>4, <1>8 DEF Has
  <2>3. \E i \in 1..Len(FlattenSeq(ss)) : FlattenSeq(ss)[i] = ss[k][j]
    BY <1>3, FlattenHas
  <2> QED BY <2>2, <2>3, <1>5 DEF Has
<1>9. ASSUME NEW A, NEW B, \A p \in D : Before(L[p], A, B) PROVE Before(Each(d, L), A, B)
  <2>1. \A k \in 1..Len(ss) : Before(ss[k], A, B)
    BY <1>1, <1>3, <1>4, <1>9
  <2> QED BY <2>1, <1>3, <1>5, FlattenBefore
<1>10. ASSUME NEW B, \A p \in D : Free(L[p], B) PROVE Free(Each(d, L), B)
  <2>1. \A k \in 1..Len(ss) : Free(ss[k], B)
    BY <1>1, <1>3, <1>4, <1>10
  <2> QED BY <2>1, <1>3, <1>5, FlattenFree
<1> QED BY <1>6, <1>7, <1>8, <1>9, <1>10

(* The partitions of a package that are not dynamic. *)
LEMMA StaticPartitions ==
  ASSUME NEW x, IsPackage(x), ~x.dynamic
  PROVE  /\ WritePartitions(x) \in Seq(Written(x)) /\ Plain(WritePartitions(x))
         /\ \A p \in Diffs(x) : Has(WritePartitions(x), Upd(x, p))
         /\ \A q : Before(WritePartitions(x), Upd(x, q), PostV(x, q))
<1> DEFINE d == GetBlockDifferences(x)
           D == Diffs(x)
           L == [p \in D |-> WriteBlockDifference(p, x.verify)]
<1>2. d \in Seq(D) /\ ToSet(d) = D /\ x.verify \in BOOLEAN
  BY BlockDifferences DEF IsPackage, Diffs
<1>1. WritePartitions(x) = Each(d, L)
  <2>1. \A k \in 1..Len(d) : d[k] \in D
    BY <1>2
  <2>2. WritePartitions(x) = FlattenSeq([k \in 1..Len(d) |-> WriteBlockDifference(d[k], x.verify)])
    BY DEF WritePartitions, ForEach
  <2> HIDE DEF d, D
  <2> QED BY <2>1, <2>2 DEF Each
<1> HIDE DEF d
<1>3. \A p \in D : L[p] = WriteBlockDifference(p, x.verify)
  OBVIOUS
<1>4. L \in [D -> Seq(Written(x))]
  BY <1>2, OnePartition DEF Updated
<1> HIDE DEF L, D
<1>5. ASSUME NEW p \in D
      PROVE  Plain(L[p]) /\ Has(L[p], Upd(x, p)) /\ \A q : Before(L[p], Upd(x, q), PostV(x, q))
  BY <1>2, <1>3, OnePartition DEF D, Updated
<1>6. WritePartitions(x) \in Seq(Written(x)) /\ Plain(WritePartitions(x))
  BY <1>1, <1>2, <1>4, <1>5, EachFacts
<1>7. ASSUME NEW p \in D PROVE Has(WritePartitions(x), Upd(x, p))
  BY <1>1, <1>2, <1>4, <1>5, EachFacts
<1>8. ASSUME NEW q PROVE Before(WritePartitions(x), Upd(x, q), PostV(x, q))
  BY <1>1, <1>2, <1>4, <1>5, EachFacts
<1> QED BY <1>6, <1>7, <1>8 DEF D

(* What DynamicPartitionsDifference.WriteScript writes for the partitions  *)
(* that satisfy one of its conditions: First are the ones that shrink.     *)
First(x) == ForEach(Updates(x).names, LAMBDA p : Shrinks(Updates(x), p), LAMBDA p : WriteBlockDifference(p, FALSE))
Resize(x) == <<Cmd("update_dynamic_partitions", "super", Compute(Updates(x)))>>
Check(x) == IF x.verify
            THEN ForEach(Updates(x).names, LAMBDA p : Shrinks(Updates(x), p),
                         LAMBDA p : WritePostInstallVerifyScript(p) \o Unmap(p))
            ELSE <<>>
Rest(x) == ForEach(Updates(x).names, LAMBDA p : Later(Updates(x), p),
                   LAMBDA p : WriteBlockDifference(p, x.verify) \o IF x.verify THEN Unmap(p) ELSE <<>>)

(* The patches before the resizing: exactly those of partitions that        *)
(* shrink.                                                                  *)
LEMMA FirstFacts ==
  ASSUME NEW x, IsPackage(x)
  PROVE  /\ First(x) \in Seq(Written(x)) /\ Plain(First(x))
         /\ \A p \in Diffs(x) : Shrinks(Updates(x), p) => Has(First(x), Upd(x, p))
         /\ \A q : Before(First(x), Upd(x, q), PostV(x, q))
         /\ Free(First(x), Dyn(x)) /\ Free(First(x), UpdLater(x))
<1> DEFINE d == GetBlockDifferences(x)
           D == Diffs(x)
           u == Updates(x)
           L == [p \in D |-> IF Shrinks(u, p) THEN WriteBlockDifference(p, FALSE) ELSE <<>>]
<1>2. d \in Seq(D) /\ ToSet(d) = D
  BY BlockDifferences DEF Diffs
<1>1. First(x) = Each(d, L)
  <2>1. \A k \in 1..Len(d) : d[k] \in D
    BY <1>2
  <2>2. First(x) = FlattenSeq([k \in 1..Len(d) |-> IF Shrinks(u, d[k]) THEN WriteBlockDifference(d[k], FALSE) ELSE <<>>])
    BY UpdatesFacts DEF First, ForEach
  <2> HIDE DEF d, D, u
  <2> QED BY <2>1, <2>2 DEF Each
<1> HIDE DEF d
<1>3. \A p \in D : L[p] = IF Shrinks(u, p) THEN WriteBlockDifference(p, FALSE) ELSE <<>>
  OBVIOUS
<1>4. DOMAIN L = D /\ L = [p \in D |-> L[p]]
  OBVIOUS
<1> HIDE DEF L, D, u
<1>5. ASSUME NEW p \in D
      PROVE  /\ L[p] \in Seq(Written(x)) /\ Plain(L[p])
             /\ Shrinks(u, p) => Has(L[p], Upd(x, p))
             /\ \A q : Before(L[p], Upd(x, q), PostV(x, q))
             /\ Free(L[p], Dyn(x)) /\ Free(L[p], UpdLater(x))
  <2>2. CASE Shrinks(u, p)
    <3>1. Updated(x, p)
      BY <2>2, UpdatesFacts DEF Updated, Shrinks, u
    <3> QED BY <1>3, <2>2, <3>1, OnePartition DEF D, u
  <2>3. CASE ~Shrinks(u, p)
    BY <1>3, <2>3, EmptySequence
  <2> QED BY <2>2, <2>3
<1>6. L \in [D -> Seq(Written(x))]
  BY <1>4, <1>5
<1>7. First(x) \in Seq(Written(x)) /\ Plain(First(x))
  BY <1>1, <1>2, <1>5, <1>6, EachFacts
<1>8. ASSUME NEW p \in D, Shrinks(u, p) PROVE Has(First(x), Upd(x, p))
  BY <1>1, <1>2, <1>5, <1>6, <1>8, EachFacts
<1>9. ASSUME NEW q PROVE Before(First(x), Upd(x, q), PostV(x, q))
  BY <1>1, <1>2, <1>5, <1>6, EachFacts
<1>10. Free(First(x), Dyn(x)) /\ Free(First(x), UpdLater(x))
  BY <1>1, <1>2, <1>5, <1>6, EachFacts
<1> QED BY <1>7, <1>8, <1>9, <1>10 DEF D, u

(* The checks after the resizing: exactly of partitions that shrink. *)
LEMMA CheckFacts ==
  ASSUME NEW x, IsPackage(x)
  PROVE  /\ Check(x) \in Seq(Written(x)) /\ Plain(Check(x))
         /\ \A q : (q \in Diffs(x) /\ Shrinks(Updates(x), q)) \/ Free(Check(x), PostV(x, q))
         /\ Free(Check(x), Dyn(x)) /\ Free(Check(x), UpdLater(x))
<1> DEFINE d == GetBlockDifferences(x)
           D == Diffs(x)
           u == Updates(x)
           L == [p \in D |-> IF Shrinks(u, p) THEN WritePostInstallVerifyScript(p) \o Unmap(p) ELSE <<>>]
<1>2. d \in Seq(D) /\ ToSet(d) = D
  BY BlockDifferences DEF Diffs
<1>1. Check(x) = IF x.verify THEN Each(d, L) ELSE <<>>
  <2>1. \A k \in 1..Len(d) : d[k] \in D
    BY <1>2
  <2>2. Check(x) = IF x.verify THEN FlattenSeq([k \in 1..Len(d) |->
              IF Shrinks(u, d[k]) THEN WritePostInstallVerifyScript(d[k]) \o Unmap(d[k]) ELSE <<>>]) ELSE <<>>
    BY UpdatesFacts DEF Check, ForEach
  <2> HIDE DEF d, D, u
  <2> QED BY <2>1, <2>2 DEF Each
<1> HIDE DEF d
<1>3. \A p \in D : L[p] = IF Shrinks(u, p) THEN WritePostInstallVerifyScript(p) \o Unmap(p) ELSE <<>>
  OBVIOUS
<1>4. DOMAIN L = D /\ L = [p \in D |-> L[p]]
  OBVIOUS
<1> HIDE DEF L, D, u
<1>5. ASSUME NEW p \in D
      PROVE  /\ L[p] \in Seq(Written(x)) /\ Plain(L[p])
             /\ \A q : (p = q /\ Shrinks(u, q)) \/ Free(L[p], PostV(x, q))
             /\ Free(L[p], Dyn(x)) /\ Free(L[p], UpdLater(x))
  <2>2. CASE Shrinks(u, p)
    <3> DEFINE a == Cmd("post_verify", p, "")
               b == Cmd("unmap_partition", p, "")
               s == <<a>>
               t == <<b>>
    <3>1. L[p] = s \o t
      BY <1>3, <2>2 DEF WritePostInstallVerifyScript, Unmap
    <3>2. a \in Written(x) /\ b \in Written(x) /\ a.stage = "all" /\ b.stage = "all"
      BY WrittenCmds DEF D
    <3>3. \A q : /\ a \notin Dyn(x) /\ a \notin UpdLater(x) /\ (q # p => a \notin PostV(x, q))
                 /\ b \notin Dyn(x) /\ b \notin UpdLater(x) /\ b \notin PostV(x, q)
      BY WrittenCmds DEF D
    <3> HIDE DEF a, b
    <3>4. s \in Seq(Written(x)) /\ Plain(s) /\ Free(s, Dyn(x)) /\ Free(s, UpdLater(x))
          /\ \A q : q # p => Free(s, PostV(x, q))
      BY <3>2, <3>3, OneSeq
    <3>5. t \in Seq(Written(x)) /\ Plain(t) /\ Free(t, Dyn(x)) /\ Free(t, UpdLater(x))
          /\ \A q : Free(t, PostV(x, q))
      BY <3>2, <3>3, OneSeq
    <3> HIDE DEF s, t
    <3>6. s \o t \in Seq(Written(x)) /\ Plain(s \o t) /\ Free(s \o t, Dyn(x)) /\ Free(s \o t, UpdLater(x))
      BY <3>4, <3>5, ConcatFacts, ConcatPlain, ConcatFree
    <3>7. \A q : q # p => Free(s \o t, PostV(x, q))
      BY <3>4, <3>5, ConcatFree
    <3> QED BY <3>1, <3>6, <3>7, <2>2
  <2>3. CASE ~Shrinks(u, p)
    BY <1>3, <2>3, EmptySequence
  <2> QED BY <2>2, <2>3
<1>6. L \in [D -> Seq(Written(x))]
  BY <1>4, <1>5
<1>7. CASE x.verify
  <2>1. Check(x) \in Seq(Written(x)) /\ Plain(Check(x))
    BY <1>7, <1>1, <1>2, <1>5, <1>6, EachFacts
  <2>2. Free(Check(x), Dyn(x)) /\ Free(Check(x), UpdLater(x))
    BY <1>7, <1>1, <1>2, <1>5, <1>6, EachFacts
  <2>3. ASSUME NEW q, ~(q \in D /\ Shrinks(u, q)) PROVE Free(Check(x), PostV(x, q))
    BY <2>3, <1>7, <1>1, <1>2, <1>5, <1>6, EachFacts
  <2> QED BY <2>1, <2>2, <2>3 DEF D, u
<1>8. CASE ~x.verify
  BY <1>8, <1>1, EmptySequence
<1> QED BY <1>7, <1>8

(* The patches after the resizing: all others, each before its check. *)
LEMMA RestFacts ==
  ASSUME NEW x, IsPackage(x)
  PROVE  /\ Rest(x) \in Seq(Written(x)) /\ Plain(Rest(x))
         /\ \A p \in Diffs(x) : Later(Updates(x), p) => Has(Rest(x), Upd(x, p))
         /\ \A q : Before(Rest(x), Upd(x, q), PostV(x, q))
         /\ Free(Rest(x), Dyn(x))
<1> DEFINE d == GetBlockDifferences(x)
           D == Diffs(x)
           u == Updates(x)
           L == [p \in D |-> IF Later(u, p) THEN WriteBlockDifference(p, x.verify) \o (IF x.verify THEN Unmap(p) ELSE <<>>) ELSE <<>>]
<1>2. d \in Seq(D) /\ ToSet(d) = D /\ x.verify \in BOOLEAN
  BY BlockDifferences DEF IsPackage, Diffs
<1>1. Rest(x) = Each(d, L)
  <2>1. \A k \in 1..Len(d) : d[k] \in D
    BY <1>2
  <2>2. Rest(x) = FlattenSeq([k \in 1..Len(d) |->
              IF Later(u, d[k]) THEN WriteBlockDifference(d[k], x.verify) \o (IF x.verify THEN Unmap(d[k]) ELSE <<>>) ELSE <<>>])
    BY UpdatesFacts DEF Rest, ForEach
  <2> HIDE DEF d, D, u
  <2> QED BY <2>1, <2>2 DEF Each
<1> HIDE DEF d
<1>3. \A p \in D : L[p] = IF Later(u, p) THEN WriteBlockDifference(p, x.verify) \o (IF x.verify THEN Unmap(p) ELSE <<>>) ELSE <<>>
  OBVIOUS
<1>4. DOMAIN L = D /\ L = [p \in D |-> L[p]]
  OBVIOUS
<1> HIDE DEF L, D, u
<1>5. ASSUME NEW p \in D
      PROVE  /\ L[p] \in Seq(Written(x)) /\ Plain(L[p])
             /\ Later(u, p) => Has(L[p], Upd(x, p))
             /\ \A q : Before(L[p], Upd(x, q), PostV(x, q))
             /\ Free(L[p], Dyn(x))
  <2>2. CASE Later(u, p)
    <3> DEFINE b == Cmd("unmap_partition", p, "")
               s == WriteBlockDifference(p, x.verify)
               t == IF x.verify THEN Unmap(p) ELSE <<>>
    <3>1. L[p] = s \o t
      BY <1>3, <2>2
    <3>2. /\ s \in Seq(Written(x)) /\ Plain(s) /\ Has(s, Upd(x, p)) /\ Free(s, Dyn(x))
          /\ \A q : Before(s, Upd(x, q), PostV(x, q))
      <4>1. Updated(x, p)
        BY <2>2, UpdatesFacts DEF Updated, Later, u
      <4> QED BY <1>2, <4>1, OnePartition DEF D
    <3>3. b \in Written(x) /\ b.stage = "all" /\ b \notin Dyn(x) /\ \A q : b \notin PostV(x, q)
      BY WrittenCmds DEF D
    <3>4. t = IF x.verify THEN <<b>> ELSE <<>>
      BY DEF Unmap
    <3> HIDE DEF b, s, t
    <3>5. t \in Seq(Written(x)) /\ Plain(t) /\ Free(t, Dyn(x)) /\ \A q : Free(t, PostV(x, q))
      <4>1. CASE x.verify
        BY <4>1, <3>3, <3>4, OneSeq
      <4>2. CASE ~x.verify
        BY <4>2, <3>4, EmptySequence
      <4> QED BY <4>1, <4>2
    <3>6. s \o t \in Seq(Written(x)) /\ Plain(s \o t) /\ Free(s \o t, Dyn(x)) /\ Has(s \o t, Upd(x, p))
      BY <3>2, <3>5, ConcatFacts, ConcatPlain, ConcatFree, ConcatHas
    <3>7. ASSUME NEW q PROVE Before(s \o t, Upd(x, q), PostV(x, q))
      <4>1. Before(t, Upd(x, q), PostV(x, q))
        BY <3>5, FreeBefore
      <4> QED BY <4>1, <3>2, <3>5, ConcatBefore
    <3> QED BY <3>1, <3>6, <3>7
  <2>3. CASE ~Later(u, p)
    BY <1>3, <2>3, EmptySequence
  <2> QED BY <2>2, <2>3
<1>6. L \in [D -> Seq(Written(x))]
  BY <1>4, <1>5
<1>7. Rest(x) \in Seq(Written(x)) /\ Plain(Rest(x))
  BY <1>1, <1>2, <1>5, <1>6, EachFacts
<1>8. ASSUME NEW p \in D, Later(u, p) PROVE Has(Rest(x), Upd(x, p))
  BY <1>1, <1>2, <1>5, <1>6, <1>8, EachFacts
<1>9. ASSUME NEW q PROVE Before(Rest(x), Upd(x, q), PostV(x, q))
  BY <1>1, <1>2, <1>5, <1>6, EachFacts
<1>10. Free(Rest(x), Dyn(x))
  BY <1>1, <1>2, <1>5, <1>6, EachFacts
<1> QED BY <1>7, <1>8, <1>9, <1>10 DEF D, u

(* The resizing itself is one command. *)
LEMMA ResizeFacts ==
  ASSUME NEW x, x.dynamic
  PROVE  /\ Resize(x) \in Seq(Written(x)) /\ Plain(Resize(x)) /\ Has(Resize(x), Dyn(x))
         /\ \A q : Free(Resize(x), PostV(x, q)) /\ Free(Resize(x), UpdLater(x))
<1> DEFINE a == Cmd("update_dynamic_partitions", "super", Compute(Updates(x)))
<1>1. /\ "update_dynamic_partitions" \in OpNames /\ "super" \in Places /\ Compute(Updates(x)) \in Args(x)
      /\ "all" \in Stages
  BY DEF OpNames, Places, Args, Stages
<1>2. /\ a \in Cmds(x) /\ a.stage = "all" /\ a.op = "update_dynamic_partitions" /\ a.on = "super"
      /\ a.with = Compute(Updates(x))
  BY <1>1 DEF Cmd, Cmds
<1>3. Resize(x) = <<a>>
  BY DEF Resize
<1> HIDE DEF a
<1>4. a \in Written(x) /\ a \in Dyn(x) /\ a \notin UpdLater(x) /\ \A q : a \notin PostV(x, q)
  BY <1>2 DEF Written, Dyn, UpdLater, PostV
<1> QED BY <1>2, <1>3, <1>4, OneSeq

(* WritePartitions: every partition that has an image is updated, and its  *)
(* new contents are verified only then; partitions that shrink are updated *)
(* before the metadata, the others after it.                               *)
LEMMA PartitionsWritten ==
  ASSUME NEW x, IsPackage(x)
  PROVE  /\ WritePartitions(x) \in Seq(Written(x)) /\ Plain(WritePartitions(x))
         /\ \A p \in Diffs(x) : x.u.tgtSize[p] > 0 => Has(WritePartitions(x), Upd(x, p))
         /\ \A q : Before(WritePartitions(x), Upd(x, q), PostV(x, q))
         /\ x.dynamic => /\ Has(WritePartitions(x), Dyn(x))
                         /\ Before(WritePartitions(x), Dyn(x), UpdLater(x))
                         /\ \A p \in Diffs(x) : Shrinks(Updates(x), p) =>
                               Before(WritePartitions(x), Upd(x, p), Dyn(x))
<1>1. CASE ~x.dynamic
  BY <1>1, StaticPartitions
<1>2. CASE x.dynamic
  <2> DEFINE W == Written(x)
             a == First(x)
             b == Resize(x)
             d == Check(x)
             e == Rest(x)
             ab == a \o b
             abd == ab \o d
             s == abd \o e
  <2>1. WritePartitions(x) = s
    <3>1. WritePartitions(x) = WriteDynamicScript(Updates(x), x.verify)
      BY <1>2 DEF WritePartitions
    <3> QED BY <3>1 DEF WriteDynamicScript, First, Resize, Check, Rest
  <2>2. /\ a \in Seq(W) /\ Plain(a) /\ Free(a, Dyn(x)) /\ Free(a, UpdLater(x))
        /\ \A p \in Diffs(x) : Shrinks(Updates(x), p) => Has(a, Upd(x, p))
        /\ \A q : Before(a, Upd(x, q), PostV(x, q))
    BY FirstFacts
  <2>3. /\ b \in Seq(W) /\ Plain(b) /\ Has(b, Dyn(x)) /\ Free(b, UpdLater(x))
        /\ \A q : Free(b, PostV(x, q))
    BY <1>2, ResizeFacts
  <2>4. /\ d \in Seq(W) /\ Plain(d) /\ Free(d, Dyn(x)) /\ Free(d, UpdLater(x))
        /\ \A q : (q \in Diffs(x) /\ Shrinks(Updates(x), q)) \/ Free(d, PostV(x, q))
    BY CheckFacts
  <2>5. /\ e \in Seq(W) /\ Plain(e) /\ Free(e, Dyn(x))
        /\ \A p \in Diffs(x) : Later(Updates(x), p) => Has(e, Upd(x, p))
        /\ \A q : Before(e, Upd(x, q), PostV(x, q))
    BY RestFacts
  <2> HIDE DEF W, a, b, d, e
  <2>6. ab \in Seq(W) /\ Plain(ab) /\ Has(ab, Dyn(x)) /\ Free(ab, UpdLater(x))
    BY <2>2, <2>3, ConcatFacts, ConcatPlain, ConcatHas, ConcatFree
  <2>7. \A p \in Diffs(x) : Shrinks(Updates(x), p) => Has(ab, Upd(x, p))
    BY <2>2, <2>3, ConcatHas
  <2>8. ASSUME NEW q PROVE Before(ab, Upd(x, q), PostV(x, q))
    <3>1. Before(b, Upd(x, q), PostV(x, q))
      BY <2>3, FreeBefore
    <3> QED BY <3>1, <2>2, <2>3, ConcatBefore
  <2>9. ASSUME NEW p \in Diffs(x), Shrinks(Updates(x), p) PROVE Before(ab, Upd(x, p), Dyn(x))
    <3>1. Before(a, Upd(x, p), Dyn(x))
      BY <2>2, FreeBefore
    <3> QED BY <3>1, <2>2, <2>3, <2>9, ConcatBefore
  <2> HIDE DEF ab
  <2>10. abd \in Seq(W) /\ Plain(abd) /\ Has(abd, Dyn(x)) /\ Free(abd, UpdLater(x))
    BY <2>4, <2>6, ConcatFacts, ConcatPlain, ConcatHas, ConcatFree
  <2>11. \A p \in Diffs(x) : Shrinks(Updates(x), p) => Has(abd, Upd(x, p))
    BY <2>4, <2>6, <2>7, ConcatHas
  <2>12. ASSUME NEW q PROVE Before(abd, Upd(x, q), PostV(x, q))
    <3>1. CASE q \in Diffs(x) /\ Shrinks(Updates(x), q)
      BY <3>1, <2>4, <2>6, <2>7, <2>8, ConcatBefore
    <3>2. CASE Free(d, PostV(x, q))
      <4>1. Before(d, Upd(x, q), PostV(x, q))
        BY <3>2, FreeBefore
      <4> QED BY <4>1, <2>4, <2>6, <2>8, ConcatBefore
    <3> QED BY <3>1, <3>2, <2>4
  <2>13. ASSUME NEW p \in Diffs(x), Shrinks(Updates(x), p) PROVE Before(abd, Upd(x, p), Dyn(x))
    BY <2>4, <2>6, <2>7, <2>9, <2>13, ConcatBefore
  <2> HIDE DEF abd
  <2>14. s \in Seq(W) /\ Plain(s) /\ Has(s, Dyn(x))
    BY <2>5, <2>10, ConcatFacts, ConcatPlain, ConcatHas
  <2>15. Before(s, Dyn(x), UpdLater(x))
    <3>1. Before(abd, Dyn(x), UpdLater(x))
      BY <2>10, FreeBefore
    <3> QED BY <3>1, <2>5, <2>10, ConcatBefore
  <2>16. ASSUME NEW q PROVE Before(s, Upd(x, q), PostV(x, q))
    BY <2>5, <2>10, <2>12, ConcatBefore
  <2>17. ASSUME NEW p \in Diffs(x), Shrinks(Updates(x), p) PROVE Before(s, Upd(x, p), Dyn(x))
    BY <2>5, <2>10, <2>11, <2>13, <2>17, ConcatBefore
  <2>18. ASSUME NEW p \in Diffs(x), x.u.tgtSize[p] > 0 PROVE Has(s, Upd(x, p))
    <3>1. Shrinks(Updates(x), p) \/ Later(Updates(x), p)
      <4>1. p \in ToSet(PartitionNames)
        BY BlockDifferences
      <4>2. Updates(x).srcSize[p] \in Nat /\ Updates(x).tgtSize[p] \in Nat /\ Updates(x).tgtSize[p] > 0
        BY <2>18, <4>1, UpdatesFacts
      <4> QED BY <4>2 DEF Shrinks, Later
    <3> QED BY <3>1, <2>5, <2>10, <2>11, ConcatHas
  <2> HIDE DEF s
  <2> QED BY <1>2, <2>1, <2>14, <2>15, <2>16, <2>17, <2>18 DEF W
<1> QED BY <1>1, <1>2

(* What the commands of a script name: mounts are of /oem, raw images of   *)
(* /boot and /recovery, and updates and checks of partitions of the        *)
(* package.                                                                *)
Shaped(x) == {y \in Cmds(x) :
  /\ y.op \in {"mount", "unmount"} => y.on = "oem"
  /\ y.op = "package_extract_file" => y.on \in {"boot", "recovery"} /\ y.with \in {"boot.img", "recovery.img"}
  /\ y.op = "patch_partition" => y.on = "boot"
  /\ y.op \in {"block_image_update", "post_verify", "verify"} => y.on \in Diffs(x)
  /\ y.op = "block_image_update" => Updated(x, y.on)
  /\ y.op = "verify" => y.with = x.version /\ Verifies(x, y.on)
  /\ y.op = "apply_patch_space" => y.with = RequiredCache(x) /\ x.incremental
  /\ y.op = "set_stage" => y.with \in {"", "2/3", "3/3"}
  /\ y.op = "update_dynamic_partitions" => x.dynamic /\ y.on = "super" /\ y.with = Compute(Updates(x))}

Of(x, ops) == {y \in Shaped(x) : y.op \in ops}

(* Sets of commands that say nothing of the branch a command is in. *)
Blind(x, A) == \A y, z \in Cmds(x) :
  y.op = z.op /\ y.on = z.on /\ y.with = z.with => (y \in A <=> z \in A)

Mounting(x) == Of(x, {"mount"})
Unmounting(x) == Of(x, {"unmount"})
Formatting(x) == Of(x, {"format"})
Rebooting(x) == Of(x, {"reboot_now"})
Staging(x) == Of(x, {"set_stage"})
StageTo(x, w) == {y \in Staging(x) : y.with = w}
RecoveryToBoot(x) == {y \in Of(x, {"package_extract_file"}) : y.on = "boot" /\ y.with = "recovery.img"}
BootTarget(x) == {y \in Of(x, {"package_extract_file", "patch_partition"}) :
                    y.on = "boot" /\ (y.op = "patch_partition" \/ y.with = "boot.img")}
RecoveryWrite(x) == {y \in Of(x, {"package_extract_file"}) : y.on = "recovery"}

Openings == {"mount", "assert_older", "assert_device"}
Checkings == {"assert_build", "patch_partition_check", "apply_patch_space", "verify"}
Writings == {"package_extract_file", "patch_partition", "format", "set_stage", "reboot_now",
             "block_image_update", "update_dynamic_partitions"}

(* The commands of the part of a script that installs the images.          *)
Installing(x) ==
  {y \in Shaped(x) : /\ y.op \in {"block_image_update", "post_verify", "unmap_partition", "update_dynamic_partitions",
                                  "package_extract_file", "patch_partition", "unmount", "format"}
                     /\ y.op = "package_extract_file" => y.on = "boot" /\ y.with = "boot.img"
                     /\ y.op = "format" => x.wipe}

(* The sets of commands used here do not look at the branch, *)
LEMMA BlindSets ==
  ASSUME NEW x
  PROVE  /\ Blind(x, Shaped(x)) /\ \A ops : Blind(x, Of(x, ops))
         /\ \A w : Blind(x, StageTo(x, w))
         /\ Blind(x, RecoveryToBoot(x)) /\ Blind(x, BootTarget(x)) /\ Blind(x, RecoveryWrite(x))
         /\ Blind(x, Installing(x))
         /\ \A p : Blind(x, Upd(x, p)) /\ Blind(x, PostV(x, p))
         /\ Blind(x, Dyn(x)) /\ Blind(x, UpdLater(x))
<1>1. Blind(x, Shaped(x))
  <2> SUFFICES ASSUME NEW y \in Cmds(x), NEW z \in Cmds(x),
                      y.op = z.op, y.on = z.on, y.with = z.with, y \in Shaped(x)
               PROVE  z \in Shaped(x)
    BY DEF Blind
  <2> QED BY Zenon DEF Shaped
<1>2. ASSUME NEW ops PROVE Blind(x, Of(x, ops))
  BY <1>1 DEF Blind, Of
<1>3. ASSUME NEW w PROVE Blind(x, StageTo(x, w))
  BY <1>2 DEF Blind, StageTo, Staging
<1>4. Blind(x, RecoveryToBoot(x)) /\ Blind(x, BootTarget(x)) /\ Blind(x, RecoveryWrite(x))
  BY <1>2 DEF Blind, RecoveryToBoot, BootTarget, RecoveryWrite
<1>5. Blind(x, Installing(x))
  BY <1>1 DEF Blind, Installing
<1>6. ASSUME NEW p PROVE Blind(x, Upd(x, p)) /\ Blind(x, PostV(x, p))
  BY DEF Blind, Upd, PostV
<1>7. Blind(x, Dyn(x)) /\ Blind(x, UpdLater(x))
  BY DEF Blind, Dyn, UpdLater
<1> QED BY <1>1, <1>2, <1>3, <1>4, <1>5, <1>6, <1>7

(* Putting commands into a branch keeps what they are and their order.     *)
LEMMA InStageKeeps ==
  ASSUME NEW x, NEW s \in Seq(Cmds(x)), NEW b \in Stages
  PROVE  /\ \A A : Blind(x, A) => /\ Has(InStage(b, s), A) <=> Has(s, A)
                                  /\ Free(InStage(b, s), A) <=> Free(s, A)
                                  /\ s \in Seq(A) => InStage(b, s) \in Seq(A)
         /\ \A A, B : Blind(x, A) /\ Blind(x, B) => /\ Before(InStage(b, s), A, B) <=> Before(s, A, B)
                                                    /\ After(InStage(b, s), A, B) <=> After(s, A, B)
<1> DEFINE t == InStage(b, s)
<1>1. /\ t \in Seq(Cmds(x)) /\ Len(t) = Len(s) /\ Len(s) \in Nat
      /\ \A i \in 1..Len(s) : t[i].op = s[i].op /\ t[i].on = s[i].on /\ t[i].with = s[i].with
  BY InStageFacts
<1> HIDE DEF t
<1>2. \A i \in 1..Len(s) : t[i] \in Cmds(x) /\ s[i] \in Cmds(x)
  BY <1>1
<1>3. ASSUME NEW A, Blind(x, A), NEW i \in 1..Len(s) PROVE t[i] \in A <=> s[i] \in A
  BY <1>1, <1>2, <1>3 DEF Blind
<1>4. ASSUME NEW A, Blind(x, A)
      PROVE  /\ Has(t, A) <=> Has(s, A)
             /\ Free(t, A) <=> Free(s, A)
             /\ s \in Seq(A) => t \in Seq(A)
  <2>1. (Has(t, A) <=> Has(s, A)) /\ (Free(t, A) <=> Free(s, A))
    BY <1>1, <1>3, <1>4 DEF Has, Free
  <2>2. ASSUME s \in Seq(A) PROVE t \in Seq(A)
    <3>1. \A i \in 1..Len(s) : s[i] \in A
      BY <2>2
    <3>2. \A i \in 1..Len(t) : t[i] \in A
      BY <3>1, <1>1, <1>3, <1>4
    <3> QED BY <3>2, <1>1
  <2> QED BY <2>1, <2>2
<1>5. ASSUME NEW A, NEW B, Blind(x, A), Blind(x, B)
      PROVE  (Before(t, A, B) <=> Before(s, A, B)) /\ (After(t, A, B) <=> After(s, A, B))
  <2>1. \A i \in 1..Len(s) : (t[i] \in A <=> s[i] \in A) /\ (t[i] \in B <=> s[i] \in B)
    BY <1>3, <1>5
  <2>2. \A i \in 1..Len(s) : 1..(i - 1) \subseteq 1..Len(s) /\ (i + 1)..Len(s) \subseteq 1..Len(s)
    BY <1>1
  <2> QED BY <1>1, <2>1, <2>2 DEF Before, After
<1> QED BY <1>4, <1>5 DEF t

(* Commands of a script. *)
LEMMA Commands ==
  ASSUME NEW x
  PROVE  /\ Cmd("mount", "oem", "") \in Of(x, {"mount"})
         /\ Cmd("unmount", "oem", "") \in Of(x, {"unmount"})
         /\ Cmd("assert_older", "", "") \in Of(x, {"assert_older"})
         /\ Cmd("assert_device", "", "") \in Of(x, {"assert_device"})
         /\ Cmd("assert_build", "", "") \in Of(x, {"assert_build"})
         /\ Cmd("patch_partition_check", "boot", "") \in Of(x, {"patch_partition_check"})
         /\ x.incremental => Cmd("apply_patch_space", "cache", RequiredCache(x)) \in Of(x, {"apply_patch_space"})
         /\ Cmd("format", "data", "") \in Of(x, {"format"})
         /\ \A p \in Diffs(x) : Verifies(x, p) => Cmd("verify", p, x.version) \in Of(x, {"verify"})
<1>1. "all" \in Stages /\ {"oem", "", "boot", "cache", "data"} \subseteq Places /\ Diffs(x) \subseteq Places
      /\ {"", x.version, RequiredCache(x)} \subseteq Args(x)
  BY BlockDifferences DEF Stages, Places, Args
<1>2. {"mount", "unmount", "assert_older", "assert_device", "assert_build", "patch_partition_check",
       "apply_patch_space", "format", "verify"} \subseteq OpNames
  BY DEF OpNames
<1>3. /\ Cmd("mount", "oem", "") \in Cmds(x) /\ Cmd("unmount", "oem", "") \in Cmds(x)
      /\ Cmd("assert_older", "", "") \in Cmds(x) /\ Cmd("assert_device", "", "") \in Cmds(x)
      /\ Cmd("assert_build", "", "") \in Cmds(x)
      /\ Cmd("patch_partition_check", "boot", "") \in Cmds(x)
      /\ Cmd("apply_patch_space", "cache", RequiredCache(x)) \in Cmds(x)
      /\ Cmd("format", "data", "") \in Cmds(x)
      /\ \A p \in Diffs(x) : Cmd("verify", p, x.version) \in Cmds(x)
  BY <1>1, <1>2 DEF Cmd, Cmds
<1> QED BY <1>3 DEF Of, Shaped, Cmd

(* The single commands of the script and the sets that they are in. *)
LEMMA WriteCommands ==
  ASSUME NEW x
  PROVE  /\ Cmd("package_extract_file", "boot", "recovery.img") \in RecoveryToBoot(x)
         /\ Cmd("package_extract_file", "boot", "boot.img") \in BootTarget(x) \cap Installing(x)
         /\ Cmd("package_extract_file", "recovery", "recovery.img") \in RecoveryWrite(x)
         /\ Cmd("patch_partition", "boot", "") \in BootTarget(x) \cap Installing(x)
         /\ \A w \in {"", "2/3", "3/3"} : Cmd("set_stage", "misc", w) \in StageTo(x, w)
         /\ \A w \in {"", "recovery"} : Cmd("reboot_now", "misc", w) \in {y \in Rebooting(x) : y.with = w}
<1>1. "all" \in Stages /\ {"boot", "recovery", "misc"} \subseteq Places
      /\ {"", "boot.img", "recovery.img", "2/3", "3/3", "recovery"} \subseteq Args(x)
  BY DEF Stages, Places, Args
<1>2. {"package_extract_file", "patch_partition", "set_stage", "reboot_now"} \subseteq OpNames
  BY DEF OpNames
<1>3. /\ Cmd("package_extract_file", "boot", "recovery.img") \in Cmds(x)
      /\ Cmd("package_extract_file", "boot", "boot.img") \in Cmds(x)
      /\ Cmd("package_extract_file", "recovery", "recovery.img") \in Cmds(x)
      /\ Cmd("patch_partition", "boot", "") \in Cmds(x)
      /\ \A w \in {"", "2/3", "3/3"} : Cmd("set_stage", "misc", w) \in Cmds(x)
      /\ \A w \in {"", "recovery"} : Cmd("reboot_now", "misc", w) \in Cmds(x)
  BY <1>1, <1>2 DEF Cmd, Cmds
<1>4. /\ Cmd("package_extract_file", "boot", "recovery.img") \in RecoveryToBoot(x)
      /\ Cmd("package_extract_file", "recovery", "recovery.img") \in RecoveryWrite(x)
  BY <1>3 DEF Of, Shaped, Cmd, RecoveryToBoot, RecoveryWrite
<1>5. /\ Cmd("package_extract_file", "boot", "boot.img") \in BootTarget(x) \cap Installing(x)
      /\ Cmd("patch_partition", "boot", "") \in BootTarget(x) \cap Installing(x)
  BY <1>3 DEF Of, Shaped, Cmd, BootTarget, Installing
<1>6. /\ \A w \in {"", "2/3", "3/3"} : Cmd("set_stage", "misc", w) \in StageTo(x, w)
      /\ \A w \in {"", "recovery"} : Cmd("reboot_now", "misc", w) \in {y \in Rebooting(x) : y.with = w}
  BY <1>3 DEF Of, Shaped, Cmd, StageTo, Staging, Rebooting
<1> QED BY <1>4, <1>5, <1>6

(* A sequence over S is one over every superset of S. *)
LEMMA SeqSubset ==
  ASSUME NEW S, NEW T, S \subseteq T, NEW s \in Seq(S)
  PROVE  s \in Seq(T)
OBVIOUS

(* The concatenation of two pieces of a script. *)
LEMMA Joined ==
  ASSUME NEW X, NEW s \in Seq(X), NEW t \in Seq(X), Plain(s), Plain(t)
  PROVE  /\ s \o t \in Seq(X) /\ Plain(s \o t)
         /\ \A A : Has(s, A) \/ Has(t, A) => Has(s \o t, A)
         /\ \A B : Free(s, B) /\ Free(t, B) => Free(s \o t, B)
BY ConcatFacts, ConcatPlain, ConcatHas, ConcatFree

(* A piece of one command. *)
LEMMA Single ==
  ASSUME NEW X, NEW y \in X, y.stage = "all"
  PROVE  /\ <<y>> \in Seq(X) /\ Plain(<<y>>)
         /\ \A A : y \in A => Has(<<y>>, A)
         /\ \A B : y \notin B => Free(<<y>>, B)
BY OneSeq

(* The script opens with a mount and the assertions about the device. *)
LEMMA OpeningFacts ==
  ASSUME NEW x, IsPackage(x)
  PROVE  /\ Opening(x) \in Seq(Of(x, Openings)) /\ Plain(Opening(x))
         /\ Has(Opening(x), Of(x, {"assert_device"}))
         /\ ~x.incremental => Has(Opening(x), Of(x, {"assert_older"}))
         /\ ~x.oem => Free(Opening(x), Mounting(x))
<1> DEFINE X == Of(x, Openings)
           a == Cmd("mount", "oem", "")
           b == Cmd("assert_older", "", "")
           d == Cmd("assert_device", "", "")
           m == MountOem(x)
           sb == <<b>>
           sd == <<d>>
<1>1. a \in Of(x, {"mount"}) /\ b \in Of(x, {"assert_older"}) /\ d \in Of(x, {"assert_device"})
  BY Commands
<1>2. a.stage = "all" /\ b.stage = "all" /\ d.stage = "all"
  BY DEF Cmd
<1>3. Opening(x) = IF x.incremental THEN m \o sd ELSE (m \o sb) \o sd
  BY DEF Opening, AssertDevice, AssertOlderBuild
<1>4. m = IF x.oem THEN <<a>> ELSE <<>>
  BY DEF MountOem, Mount
<1> HIDE DEF a, b, d
<1>5. a \in X /\ b \in X /\ d \in X /\ b \notin Mounting(x) /\ d \notin Mounting(x)
  BY <1>1 DEF Of, Openings, Mounting
<1> HIDE DEF X, m
<1>6. m \in Seq(X) /\ Plain(m) /\ (~x.oem => Free(m, Mounting(x)))
  <2>1. CASE x.oem
    BY <2>1, <1>2, <1>4, <1>5, Single
  <2>2. CASE ~x.oem
    BY <2>2, <1>4, EmptySequence
  <2> QED BY <2>1, <2>2
<1>7. sb \in Seq(X) /\ Plain(sb) /\ Has(sb, Of(x, {"assert_older"})) /\ Free(sb, Mounting(x))
  BY <1>1, <1>2, <1>5, Single
<1>8. sd \in Seq(X) /\ Plain(sd) /\ Has(sd, Of(x, {"assert_device"})) /\ Free(sd, Mounting(x))
  BY <1>1, <1>2, <1>5, Single
<1> HIDE DEF sb, sd
<1>9. CASE x.incremental
  BY <1>3, <1>6, <1>8, <1>9, Joined DEF X
<1>10. CASE ~x.incremental
  <2> DEFINE t == m \o sb
  <2>1. t \in Seq(X) /\ Plain(t) /\ Has(t, Of(x, {"assert_older"})) /\ (~x.oem => Free(t, Mounting(x)))
    BY <1>6, <1>7, Joined
  <2>2. Opening(x) = t \o sd
    BY <1>3, <1>10
  <2> HIDE DEF t
  <2> QED BY <2>1, <2>2, <1>8, <1>10, Joined DEF X
<1> QED BY <1>9, <1>10

(* It closes, for an incremental package, with the unmount. *)
LEMMA ClosingFacts ==
  ASSUME NEW x
  PROVE  /\ Closing(x) \in Seq(Unmounting(x)) /\ Plain(Closing(x))
         /\ x.incremental /\ x.oem => Has(Closing(x), Unmounting(x))
<1> DEFINE a == Cmd("unmount", "oem", "")
<1>1. a \in Unmounting(x) /\ a.stage = "all"
  BY Commands DEF Unmounting, Cmd
<1>2. Closing(x) = IF x.incremental /\ x.oem THEN <<a>> ELSE <<>>
  <2>1. {"oem"} # {}
    OBVIOUS
  <2> QED BY <2>1 DEF Closing, UnmountAll, Mounts
<1> HIDE DEF a
<1>3. CASE x.incremental /\ x.oem
  BY <1>1, <1>2, <1>3, Single
<1>4. CASE ~(x.incremental /\ x.oem)
  BY <1>2, <1>4, EmptySequence
<1> QED BY <1>3, <1>4

Verifying(x, p) == {y \in Of(x, {"verify"}) : y.on = p}

(* Verify has the build's assertion, the room on /cache and each            *)
(* partition's verification.                                                *)
LEMMA CheckedFacts ==
  ASSUME NEW x, IsPackage(x)
  PROVE  /\ Checked(x) \in Seq(Of(x, Checkings)) /\ Plain(Checked(x))
         /\ x.incremental => /\ Has(Checked(x), Of(x, {"assert_build"}))
                             /\ Has(Checked(x), Of(x, {"apply_patch_space"}))
                             /\ \A p \in Diffs(x) : Verifies(x, p) => Has(Checked(x), Verifying(x, p))
<1>1. CASE ~x.incremental
  BY <1>1, EmptySequence DEF Checked
<1>2. CASE x.incremental
  <2> DEFINE X == Of(x, Checkings)
             a == Cmd("assert_build", "", "")
             b == Cmd("patch_partition_check", "boot", "")
             e == Cmd("apply_patch_space", "cache", RequiredCache(x))
             d == GetBlockDifferences(x)
             D == Diffs(x)
             v == [p \in D |-> Cmd("verify", p, x.version)]
             L == [p \in D |-> IF Verifies(x, p) THEN <<v[p]>> ELSE <<>>]
             sa == <<a>>
             sb == IF UpdatingBoot(x) /\ ComputePatch(x) THEN <<b>> ELSE <<>>
             se == <<e>>
             sv == Each(d, L)
             sab == sa \o sb
             sabe == sab \o se
  <2>1. /\ a \in Of(x, {"assert_build"}) /\ b \in Of(x, {"patch_partition_check"})
        /\ e \in Of(x, {"apply_patch_space"}) /\ \A p \in D : Verifies(x, p) => v[p] \in Of(x, {"verify"})
        /\ \A p \in D : v[p].on = p /\ v[p].stage = "all"
    BY <1>2, Commands DEF Cmd
  <2>2. a.stage = "all" /\ b.stage = "all" /\ e.stage = "all"
    BY DEF Cmd
  <2>3. d \in Seq(D) /\ ToSet(d) = D
    BY BlockDifferences DEF Diffs
  <2>4. Checked(x) = sabe \o sv
    <3>1. \A k \in 1..Len(d) : d[k] \in D
      BY <2>3
    <3>2. ForEach(GetBlockDifferences(x), LAMBDA p : Verifies(x, p), LAMBDA p : WriteVerifyScript(x, p))
          = FlattenSeq([k \in 1..Len(d) |-> IF Verifies(x, d[k]) THEN <<Cmd("verify", d[k], x.version)>> ELSE <<>>])
      BY DEF ForEach, WriteVerifyScript
    <3>3. [k \in 1..Len(d) |-> IF Verifies(x, d[k]) THEN <<Cmd("verify", d[k], x.version)>> ELSE <<>>]
          = [k \in 1..Len(d) |-> L[d[k]]]
      <4> HIDE DEF d, D
      <4> QED BY <3>1
    <3>4. ForEach(GetBlockDifferences(x), LAMBDA p : Verifies(x, p), LAMBDA p : WriteVerifyScript(x, p)) = sv
      BY <3>2, <3>3 DEF Each
    <3> QED BY <1>2, <3>4 DEF Checked, Verify, AssertSomeFingerprint, PatchPartitionExprCheck, CacheFreeSpaceCheck
  <2>5. \A p \in D : L[p] = IF Verifies(x, p) THEN <<v[p]>> ELSE <<>>
    OBVIOUS
  <2>6. DOMAIN L = D /\ L = [p \in D |-> L[p]]
    OBVIOUS
  <2> HIDE DEF a, b, e, v, L, d, D
  <2>7. a \in X /\ b \in X /\ e \in X /\ \A p \in D : Verifies(x, p) => v[p] \in X /\ v[p] \in Verifying(x, p)
    BY <2>1 DEF Of, Checkings, Verifying
  <2> HIDE DEF X
  <2>8. ASSUME NEW p \in D PROVE L[p] \in Seq(X) /\ Plain(L[p]) /\ (Verifies(x, p) => Has(L[p], Verifying(x, p)))
    <3>1. CASE Verifies(x, p)
      BY <3>1, <2>1, <2>5, <2>7, Single
    <3>2. CASE ~Verifies(x, p)
      BY <3>2, <2>5, EmptySequence
    <3> QED BY <3>1, <3>2
  <2>9. L \in [D -> Seq(X)]
    BY <2>6, <2>8
  <2>10. sv \in Seq(X) /\ Plain(sv)
    BY <2>3, <2>8, <2>9, EachFacts
  <2>11. ASSUME NEW p \in D, Verifies(x, p) PROVE Has(sv, Verifying(x, p))
    BY <2>3, <2>8, <2>9, <2>11, EachFacts
  <2>12. sa \in Seq(X) /\ Plain(sa) /\ Has(sa, Of(x, {"assert_build"}))
    BY <2>1, <2>2, <2>7, Single
  <2>13. sb \in Seq(X) /\ Plain(sb)
    <3>1. CASE UpdatingBoot(x) /\ ComputePatch(x)
      BY <3>1, <2>2, <2>7, Single
    <3>2. CASE ~(UpdatingBoot(x) /\ ComputePatch(x))
      BY <3>2, EmptySequence
    <3> QED BY <3>1, <3>2
  <2>14. se \in Seq(X) /\ Plain(se) /\ Has(se, Of(x, {"apply_patch_space"}))
    BY <2>1, <2>2, <2>7, Single
  <2> HIDE DEF sa, sb, se, sv
  <2>15. sab \in Seq(X) /\ Plain(sab) /\ Has(sab, Of(x, {"assert_build"}))
    BY <2>12, <2>13, Joined
  <2> HIDE DEF sab
  <2>16. sabe \in Seq(X) /\ Plain(sabe) /\ Has(sabe, Of(x, {"assert_build"})) /\ Has(sabe, Of(x, {"apply_patch_space"}))
    BY <2>14, <2>15, Joined
  <2> HIDE DEF sabe
  <2>17. /\ sabe \o sv \in Seq(X) /\ Plain(sabe \o sv)
         /\ Has(sabe \o sv, Of(x, {"assert_build"})) /\ Has(sabe \o sv, Of(x, {"apply_patch_space"}))
    BY <2>10, <2>16, Joined
  <2>18. ASSUME NEW p \in D, Verifies(x, p) PROVE Has(sabe \o sv, Verifying(x, p))
    BY <2>10, <2>11, <2>16, <2>18, Joined
  <2> QED BY <2>4, <2>17, <2>18, <1>2 DEF X, D
<1> QED BY <1>1, <1>2

(* What an install does after it has written the partitions.               *)
Format(x) == IF x.wipe THEN FormatPartition("data") ELSE <<>>
Ending(x) == IF x.incremental THEN WriteBoot(x) \o Format(x)
             ELSE (WriteRawImage("boot", "boot.img") \o UnmountAll(Mounts(x))) \o Format(x)
Ends(x) == {y \in Installing(x) : y.op \in {"package_extract_file", "patch_partition", "unmount", "format"}}

(* After the partitions come /boot, the unmount of a full package and the   *)
(* wipe.                                                                    *)
LEMMA EndingFacts ==
  ASSUME NEW x, IsPackage(x)
  PROVE  /\ Ending(x) \in Seq(Ends(x)) /\ Plain(Ending(x))
         /\ x.bootChanged => Has(Ending(x), BootTarget(x))
         /\ x.wipe => Has(Ending(x), Formatting(x))
         /\ x.oem /\ ~x.incremental => Has(Ending(x), Unmounting(x))
         /\ Install(x) = WritePartitions(x) \o Ending(x)
<1> DEFINE X == Ends(x)
           a == Cmd("package_extract_file", "boot", "boot.img")
           b == Cmd("patch_partition", "boot", "")
           e == Cmd("unmount", "oem", "")
           f == Cmd("format", "data", "")
           sa == <<a>>
           sw == WriteBoot(x)
           se == UnmountAll(Mounts(x))
           sf == Format(x)
<1>1. /\ a \in BootTarget(x) \cap Installing(x) /\ b \in BootTarget(x) \cap Installing(x)
      /\ e \in Unmounting(x) /\ f \in Formatting(x)
  BY Commands, WriteCommands DEF Unmounting, Formatting
<1>2. a.stage = "all" /\ b.stage = "all" /\ e.stage = "all" /\ f.stage = "all"
  BY DEF Cmd
<1>3. a.op = "package_extract_file" /\ b.op = "patch_partition"
  BY DEF Cmd
<1>4. a \in X /\ b \in X /\ e \in X /\ (x.wipe => f \in X)
  <2>1. a \in X /\ b \in X
    BY <1>1, <1>3 DEF Ends
  <2>2. e \in X /\ (x.wipe => f \in X)
    <3> HIDE DEF e, f
    <3> QED BY <1>1 DEF Ends, Installing, Unmounting, Formatting, Of
  <2> QED BY <2>1, <2>2
<1>5. {x.two_step, x.bootChanged, x.bootPatch, x.oem, x.wipe, x.incremental} \subseteq BOOLEAN
  BY DEF IsPackage
<1>6. sw = IF x.two_step \/ (x.bootChanged /\ ~x.bootPatch) THEN <<a>>
           ELSE IF x.bootChanged THEN <<b>> ELSE <<>>
  BY <1>5 DEF WriteBoot, UpdatingBoot, ComputePatch, WriteRawImage, PatchPartitionExpr
<1>7. se = IF x.oem THEN <<e>> ELSE <<>>
  <2>1. {"oem"} # {}
    OBVIOUS
  <2> QED BY <2>1 DEF UnmountAll, Mounts
<1>8. sf = IF x.wipe THEN <<f>> ELSE <<>>
  BY DEF Format, FormatPartition
<1>9. Ending(x) = IF x.incremental THEN sw \o sf ELSE (sa \o se) \o sf
  BY DEF Ending, WriteRawImage
<1> HIDE DEF a, b, e, f, X, sw, se, sf
<1>10. sa \in Seq(X) /\ Plain(sa) /\ Has(sa, BootTarget(x))
  BY <1>1, <1>2, <1>4, Single
<1> HIDE DEF sa
<1>11. sw \in Seq(X) /\ Plain(sw) /\ (x.bootChanged => Has(sw, BootTarget(x)))
  <2>1. CASE x.two_step \/ (x.bootChanged /\ ~x.bootPatch)
    BY <2>1, <1>6, <1>1, <1>2, <1>4, Single
  <2>2. CASE ~(x.two_step \/ (x.bootChanged /\ ~x.bootPatch)) /\ x.bootChanged
    BY <2>2, <1>6, <1>1, <1>2, <1>4, Single
  <2>3. CASE ~(x.two_step \/ (x.bootChanged /\ ~x.bootPatch)) /\ ~x.bootChanged
    BY <2>3, <1>6, EmptySequence
  <2> QED BY <2>1, <2>2, <2>3
<1>12. se \in Seq(X) /\ Plain(se) /\ (x.oem => Has(se, Unmounting(x)))
  <2>1. CASE x.oem
    BY <2>1, <1>7, <1>1, <1>2, <1>4, Single
  <2>2. CASE ~x.oem
    BY <2>2, <1>7, EmptySequence
  <2> QED BY <2>1, <2>2
<1>13. sf \in Seq(X) /\ Plain(sf) /\ (x.wipe => Has(sf, Formatting(x)))
  <2>1. CASE x.wipe
    BY <2>1, <1>8, <1>1, <1>2, <1>4, Single
  <2>2. CASE ~x.wipe
    BY <2>2, <1>8, EmptySequence
  <2> QED BY <2>1, <2>2
<1>14. WritePartitions(x) \in Seq(Shaped(x)) /\ X \subseteq Shaped(x)
  <2>1. Written(x) \subseteq Shaped(x) /\ X \subseteq Shaped(x)
    BY DEF Written, Shaped, X, Ends, Installing
  <2> QED BY <2>1, SeqSubset, PartitionsWritten
<1> DEFINE w == WritePartitions(x)
<1>15. CASE x.incremental
  <2>1. Ending(x) = sw \o sf
    BY <1>9, <1>15
  <2>2. Install(x) = (w \o sw) \o sf
    BY <1>15 DEF Install, IncrementalInstall, Format, sw, sf
  <2> HIDE DEF w
  <2>3. w \in Seq(Shaped(x)) /\ sw \in Seq(Shaped(x)) /\ sf \in Seq(Shaped(x))
    BY <1>11, <1>13, <1>14, SeqSubset DEF w
  <2>4. (w \o sw) \o sf = w \o (sw \o sf)
    BY <2>3, ConcatAssociative
  <2> QED BY <1>11, <1>13, <1>15, <2>1, <2>2, <2>4, Joined DEF X, w
<1>16. CASE ~x.incremental
  <2> DEFINE t == sa \o se
  <2>1. Ending(x) = t \o sf
    BY <1>9, <1>16
  <2>2. Install(x) = ((w \o sa) \o se) \o sf
    BY <1>16 DEF Install, FullInstall, Format, WriteRawImage, sa, se, sf, a
  <2> HIDE DEF w
  <2>3. w \in Seq(Shaped(x)) /\ sa \in Seq(Shaped(x)) /\ se \in Seq(Shaped(x)) /\ sf \in Seq(Shaped(x))
    BY <1>10, <1>12, <1>13, <1>14, SeqSubset DEF w
  <2>4. /\ t \in Seq(X) /\ Plain(t) /\ Has(t, BootTarget(x)) /\ (x.oem => Has(t, Unmounting(x)))
        /\ t \in Seq(Shaped(x))
    BY <1>10, <1>12, <2>3, Joined, ConcatFacts
  <2>5. ((w \o sa) \o se) \o sf = w \o (t \o sf)
    <3>1. (w \o sa) \o se = w \o t
      BY <2>3, ConcatAssociative
    <3> HIDE DEF t
    <3>2. (w \o t) \o sf = w \o (t \o sf)
      <4>1. w \in Seq(Shaped(x)) /\ t \in Seq(Shaped(x)) /\ sf \in Seq(Shaped(x))
        BY <2>3, <2>4
      <4> QED BY <4>1, ConcatAssociative
    <3> QED BY <3>1, <3>2
  <2> HIDE DEF t
  <2> QED BY <1>13, <1>16, <2>1, <2>2, <2>4, <2>5, Joined DEF X, w
<1> QED BY <1>5, <1>15, <1>16

(* The install of a package: what it does, and in which order.             *)
LEMMA InstallFacts ==
  ASSUME NEW x, IsPackage(x)
  PROVE  /\ Install(x) \in Seq(Installing(x)) /\ Plain(Install(x))
         /\ \A p \in Diffs(x) : x.u.tgtSize[p] > 0 => Has(Install(x), Upd(x, p))
         /\ x.bootChanged => Has(Install(x), BootTarget(x))
         /\ x.wipe => Has(Install(x), Formatting(x))
         /\ x.oem /\ ~x.incremental => Has(Install(x), Unmounting(x))
         /\ \A q : Before(Install(x), Upd(x, q), PostV(x, q))
         /\ x.dynamic => /\ Has(Install(x), Dyn(x))
                         /\ Before(Install(x), Dyn(x), UpdLater(x))
                         /\ \A p \in Diffs(x) : Shrinks(Updates(x), p) =>
                               Before(Install(x), Upd(x, p), Dyn(x))
<1> DEFINE w == WritePartitions(x)
           e == Ending(x)
           X == Installing(x)
<1>1. Written(x) \subseteq X /\ Ends(x) \subseteq X
  BY DEF Written, Installing, Ends, Shaped
<1>2. /\ w \in Seq(Written(x)) /\ Plain(w)
      /\ \A p \in Diffs(x) : x.u.tgtSize[p] > 0 => Has(w, Upd(x, p))
      /\ \A q : Before(w, Upd(x, q), PostV(x, q))
      /\ x.dynamic => /\ Has(w, Dyn(x))
                      /\ Before(w, Dyn(x), UpdLater(x))
                      /\ \A p \in Diffs(x) : Shrinks(Updates(x), p) => Before(w, Upd(x, p), Dyn(x))
  BY PartitionsWritten
<1>3. /\ e \in Seq(Ends(x)) /\ Plain(e)
      /\ x.bootChanged => Has(e, BootTarget(x))
      /\ x.wipe => Has(e, Formatting(x))
      /\ x.oem /\ ~x.incremental => Has(e, Unmounting(x))
      /\ Install(x) = w \o e
  BY EndingFacts
<1> HIDE DEF w, e
<1>4. w \in Seq(X) /\ e \in Seq(X)
  BY <1>1, <1>2, <1>3, SeqSubset
<1>5. /\ Free(e, Dyn(x)) /\ Free(e, UpdLater(x)) /\ \A q : Free(e, PostV(x, q))
  <2>1. Dyn(x) \cap Ends(x) = {} /\ UpdLater(x) \cap Ends(x) = {} /\ \A q : PostV(x, q) \cap Ends(x) = {}
    BY DEF Dyn, UpdLater, PostV, Ends
  <2> QED BY <2>1, <1>3, TypeFree
<1> HIDE DEF X
<1>6. w \o e \in Seq(X) /\ Plain(w \o e)
  BY <1>2, <1>3, <1>4, Joined
<1>7. /\ \A p \in Diffs(x) : x.u.tgtSize[p] > 0 => Has(w \o e, Upd(x, p))
      /\ x.bootChanged => Has(w \o e, BootTarget(x))
      /\ x.wipe => Has(w \o e, Formatting(x))
      /\ x.oem /\ ~x.incremental => Has(w \o e, Unmounting(x))
      /\ x.dynamic => Has(w \o e, Dyn(x))
  BY <1>2, <1>3, <1>4, Joined
<1>8. ASSUME NEW A, NEW B, Before(w, A, B), Free(e, B) PROVE Before(w \o e, A, B)
  <2>1. Before(e, A, B)
    BY <1>8, FreeBefore
  <2> QED BY <2>1, <1>4, <1>8, ConcatBefore
<1> QED BY <1>2, <1>3, <1>5, <1>6, <1>7, <1>8 DEF X

(* The script of a package, and the commands of it that run in a stage.    *)
ToStageTwo(x) == Checked(x) \o WriteRecoveryImageToBoot \o GoTo("2/3", "")
ToStageThree == WriteRecoveryImageToRecovery \o GoTo("3/3", "recovery")
InstallAndEnd(x) == Install(x) \o SetStage("")
Body(x, b) == IF ~x.two_step THEN Checked(x) \o Install(x)
              ELSE IF b = "1/3" THEN InStage("1/3", ToStageTwo(x))
              ELSE IF b = "2/3" THEN InStage("2/3", ToStageThree)
              ELSE InStage("3/3", InstallAndEnd(x))
Program(x, b) == (Opening(x) \o Body(x, b)) \o Closing(x)
Branches == {"1/3", "2/3", "3/3"}

(* The pieces of the script are sequences of well-shaped commands, *)
LEMMA PieceTypes ==
  ASSUME NEW x, IsPackage(x)
  PROVE  /\ Opening(x) \in Seq(Shaped(x)) /\ Plain(Opening(x))
         /\ Closing(x) \in Seq(Shaped(x)) /\ Plain(Closing(x))
         /\ Checked(x) \in Seq(Shaped(x)) /\ Plain(Checked(x))
         /\ Install(x) \in Seq(Shaped(x)) /\ Plain(Install(x))
         /\ WriteRecoveryImageToBoot \in Seq(Shaped(x)) /\ WriteRecoveryImageToRecovery \in Seq(Shaped(x))
         /\ GoTo("2/3", "") \in Seq(Shaped(x)) /\ GoTo("3/3", "recovery") \in Seq(Shaped(x))
         /\ SetStage("") \in Seq(Shaped(x))
<1>1. /\ \A ops : Of(x, ops) \subseteq Shaped(x)
      /\ Installing(x) \subseteq Shaped(x) /\ Unmounting(x) \subseteq Shaped(x)
      /\ RecoveryToBoot(x) \subseteq Shaped(x) /\ RecoveryWrite(x) \subseteq Shaped(x)
      /\ Rebooting(x) \subseteq Shaped(x) /\ \A w : StageTo(x, w) \subseteq Shaped(x)
  BY DEF Of, Installing, Unmounting, RecoveryToBoot, RecoveryWrite, Rebooting, StageTo, Staging
<1>2. /\ Opening(x) \in Seq(Shaped(x)) /\ Plain(Opening(x))
      /\ Closing(x) \in Seq(Shaped(x)) /\ Plain(Closing(x))
      /\ Checked(x) \in Seq(Shaped(x)) /\ Plain(Checked(x))
      /\ Install(x) \in Seq(Shaped(x)) /\ Plain(Install(x))
  BY <1>1, OpeningFacts, ClosingFacts, CheckedFacts, InstallFacts, SeqSubset
<1>3. WriteRecoveryImageToBoot \in Seq(Shaped(x)) /\ WriteRecoveryImageToRecovery \in Seq(Shaped(x))
  <2>1. /\ Cmd("package_extract_file", "boot", "recovery.img") \in Shaped(x)
        /\ Cmd("package_extract_file", "recovery", "recovery.img") \in Shaped(x)
    BY <1>1, WriteCommands
  <2> QED BY <2>1 DEF WriteRecoveryImageToBoot, WriteRecoveryImageToRecovery, WriteRawImage
<1>4. GoTo("2/3", "") \in Seq(Shaped(x)) /\ GoTo("3/3", "recovery") \in Seq(Shaped(x)) /\ SetStage("") \in Seq(Shaped(x))
  <2>1. /\ Cmd("set_stage", "misc", "") \in Shaped(x) /\ Cmd("set_stage", "misc", "2/3") \in Shaped(x)
        /\ Cmd("set_stage", "misc", "3/3") \in Shaped(x)
    BY <1>1, WriteCommands
  <2>2. /\ Cmd("reboot_now", "misc", "") \in Shaped(x) /\ Cmd("reboot_now", "misc", "recovery") \in Shaped(x)
    BY <1>1, WriteCommands
  <2>3. \A y, z \in Shaped(x) : <<y>> \in Seq(Shaped(x)) /\ <<y, z>> \in Seq(Shaped(x))
    OBVIOUS
  <2> QED BY <2>1, <2>2, <2>3, Zenon DEF GoTo, SetStage
<1> QED BY <1>2, <1>3, <1>4

(* and so are their combinations. *)
LEMMA BodyTypes ==
  ASSUME NEW x, IsPackage(x)
  PROVE  /\ ToStageTwo(x) \in Seq(Shaped(x)) /\ ToStageThree \in Seq(Shaped(x))
         /\ InstallAndEnd(x) \in Seq(Shaped(x))
         /\ \A b \in Stages : /\ InStage(b, ToStageTwo(x)) \in Seq(Shaped(x))
                              /\ InStage(b, ToStageThree) \in Seq(Shaped(x))
                              /\ InStage(b, InstallAndEnd(x)) \in Seq(Shaped(x))
         /\ \A b \in Branches : Body(x, b) \in Seq(Shaped(x))
         /\ \A b \in Branches : Program(x, b) \in Seq(Shaped(x))
<1> DEFINE X == Shaped(x)
           ch == Checked(x)
           rb == WriteRecoveryImageToBoot
           rr == WriteRecoveryImageToRecovery
           g2 == GoTo("2/3", "")
           g3 == GoTo("3/3", "recovery")
           i == Install(x)
           s0 == SetStage("")
<1>1. ch \in Seq(X) /\ rb \in Seq(X) /\ rr \in Seq(X) /\ g2 \in Seq(X) /\ g3 \in Seq(X) /\ i \in Seq(X) /\ s0 \in Seq(X)
      /\ Opening(x) \in Seq(X) /\ Closing(x) \in Seq(X)
  BY PieceTypes
<1>2. /\ ToStageTwo(x) = (ch \o rb) \o g2 /\ ToStageThree = rr \o g3 /\ InstallAndEnd(x) = i \o s0
  BY DEF ToStageTwo, ToStageThree, InstallAndEnd
<1>3. X \subseteq Cmds(x) /\ Blind(x, X)
  BY BlindSets DEF Shaped
<1> HIDE DEF X, ch, rb, rr, g2, g3, i, s0
<1>4. ToStageTwo(x) \in Seq(X) /\ ToStageThree \in Seq(X) /\ InstallAndEnd(x) \in Seq(X)
  BY <1>1, <1>2, ConcatFacts
<1>5. ASSUME NEW b \in Stages, NEW s \in Seq(X) PROVE InStage(b, s) \in Seq(X)
  <2>1. s \in Seq(Cmds(x))
    BY <1>3, SeqSubset
  <2> QED BY <2>1, <1>3, InStageKeeps
<1>6. ASSUME NEW b \in Branches PROVE Body(x, b) \in Seq(X)
  <2>1. "1/3" \in Stages /\ "2/3" \in Stages /\ "3/3" \in Stages
    BY DEF Stages
  <2>2. ch \o i \in Seq(X)
    BY <1>1, ConcatFacts
  <2> QED BY <2>1, <2>2, <1>4, <1>5 DEF Body, ch, i
<1>7. ASSUME NEW b \in Branches PROVE Program(x, b) \in Seq(X)
  <2> DEFINE s == Body(x, b)
             t == Opening(x) \o s
  <2>1. t \in Seq(X)
    BY <1>1, <1>6, ConcatFacts
  <2> HIDE DEF t
  <2>2. t \o Closing(x) \in Seq(X)
    BY <2>1, <1>1, ConcatFacts
  <2> QED BY <2>2 DEF Program, t
<1> QED BY <1>4, <1>5, <1>6, <1>7 DEF X

(* GenerateNonAbOtaPackage: the opening, the branches, the closing.        *)
Middle(x) == IF ~x.two_step THEN Checked(x) \o Install(x)
             ELSE IF x.incremental
             THEN InStage("2/3", ToStageThree) \o InStage("1/3", ToStageTwo(x)) \o InStage("3/3", InstallAndEnd(x))
             ELSE InStage("2/3", ToStageThree) \o InStage("3/3", InstallAndEnd(x)) \o InStage("1/3", ToStageTwo(x))

(* The script is Opening, Middle and Closing. *)
LEMMA ScriptIs ==
  ASSUME NEW x, IsPackage(x)
  PROVE  GenerateNonAbOtaPackage(x) = (Opening(x) \o Middle(x)) \o Closing(x)
<1>1. CASE x.incremental
  <2>1. Checked(x) = Verify(x) /\ Install(x) = IncrementalInstall(x) /\ Opening(x) = MountOem(x) \o AssertDevice
        /\ Closing(x) = UnmountAll(Mounts(x))
    BY <1>1 DEF Checked, Install, Opening, Closing
  <2>2. StageTwo = InStage("2/3", ToStageThree)
    BY DEF StageTwo, ToStageThree, WriteRecoveryImageToRecovery
  <2>3. GenerateNonAbOtaPackage(x) = WriteBlockIncrementalOTAPackage(x)
    BY <1>1 DEF GenerateNonAbOtaPackage
  <2>4. CASE x.two_step
    <3>1. Middle(x) = StageTwo \o InStage("1/3", Verify(x) \o WriteRecoveryImageToBoot \o GoTo("2/3", ""))
           \o InStage("3/3", IncrementalInstall(x) \o SetStage(""))
      BY <1>1, <2>1, <2>2, <2>4 DEF Middle, ToStageTwo, InstallAndEnd
    <3> QED BY <3>1, <2>1, <2>3, <2>4 DEF WriteBlockIncrementalOTAPackage
  <2>5. CASE ~x.two_step
    BY <1>1, <2>1, <2>3, <2>5 DEF WriteBlockIncrementalOTAPackage, Middle
  <2> QED BY <2>4, <2>5
<1>2. CASE ~x.incremental
  <2> DEFINE X == Shaped(x)
             i == Install(x)
             o == Opening(x)
             rb == WriteRecoveryImageToBoot
             g == GoTo("2/3", "")
  <2>1. Checked(x) = <<>> /\ i = FullInstall(x) /\ o = (MountOem(x) \o AssertOlderBuild) \o AssertDevice
        /\ Closing(x) = <<>>
    BY <1>2 DEF Checked, Install, Opening, Closing
  <2>2. StageTwo = InStage("2/3", ToStageThree)
    BY DEF StageTwo, ToStageThree, WriteRecoveryImageToRecovery
  <2>3. GenerateNonAbOtaPackage(x) = WriteFullOTAPackage(x)
    BY <1>2 DEF GenerateNonAbOtaPackage
  <2>4. i \in Seq(X) /\ o \in Seq(X) /\ rb \in Seq(X) /\ g \in Seq(X)
    BY PieceTypes
  <2>5. Checked(x) \o i = i /\ Checked(x) \o rb = rb
    <3> HIDE DEF i, rb, X
    <3>1. <<>> \o i = i /\ <<>> \o rb = rb
      BY <2>4, ConcatEmptySeq
    <3> QED BY <3>1, <2>1
  <2>6. ToStageTwo(x) = rb \o g
    BY <2>5 DEF ToStageTwo
  <2>7. GenerateNonAbOtaPackage(x) = o \o Middle(x)
    <3>1. CASE x.two_step
      <4>1. Middle(x) = StageTwo \o InStage("3/3", FullInstall(x) \o SetStage("")) \o InStage("1/3", rb \o g)
        BY <1>2, <2>1, <2>2, <2>6, <3>1 DEF Middle, InstallAndEnd
      <4> QED BY <4>1, <3>1, <2>1, <2>3 DEF WriteFullOTAPackage
    <3>2. CASE ~x.two_step
      BY <3>2, <2>1, <2>3, <2>5 DEF WriteFullOTAPackage, Middle
    <3> QED BY <3>1, <3>2
  <2>8. Middle(x) \in Seq(X)
    <3> DEFINE t1 == InStage("1/3", ToStageTwo(x))
               t2 == InStage("2/3", ToStageThree)
               t3 == InStage("3/3", InstallAndEnd(x))
    <3>1. t1 \in Seq(X) /\ t2 \in Seq(X) /\ t3 \in Seq(X)
      <4>1. "1/3" \in Stages /\ "2/3" \in Stages /\ "3/3" \in Stages
        BY DEF Stages
      <4> QED BY <4>1, BodyTypes
    <3>2. Middle(x) = IF ~x.two_step THEN i ELSE (t2 \o t3) \o t1
      BY <1>2, <2>5 DEF Middle
    <3> HIDE DEF X, t1, t2, t3, i
    <3>3. t2 \o t3 \in Seq(X)
      BY <3>1, ConcatFacts
    <3>4. (t2 \o t3) \o t1 \in Seq(X)
      BY <3>1, <3>3, ConcatFacts
    <3> QED BY <3>2, <3>4, <2>4
  <2>9. o \o Middle(x) \in Seq(X)
    BY <2>4, <2>8, ConcatFacts
  <2>10. (o \o Middle(x)) \o <<>> = o \o Middle(x)
    BY <2>9, ConcatEmptySeq
  <2> QED BY <2>1, <2>7, <2>10
<1> QED BY <1>1, <1>2

(* The device in branch b runs Program(x, b). *)
LEMMA ProgramIs ==
  ASSUME NEW x, IsPackage(x), NEW b \in Branches
  PROVE  /\ GenerateNonAbOtaPackage(x) \in Seq(Shaped(x))
         /\ InBranch(GenerateNonAbOtaPackage(x), b) = Program(x, b)
<1> DEFINE X == Shaped(x)
           o == Opening(x)
           m == Middle(x)
           z == Closing(x)
           t1 == InStage("1/3", ToStageTwo(x))
           t2 == InStage("2/3", ToStageThree)
           t3 == InStage("3/3", InstallAndEnd(x))
           f == Checked(x) \o Install(x)
<1>1. o \in Seq(X) /\ z \in Seq(X) /\ Plain(o) /\ Plain(z) /\ f \in Seq(X) /\ Plain(f)
  BY PieceTypes, Joined
<1>2. {"1/3", "2/3", "3/3"} \subseteq Stages \ {"all"}
  BY DEF Stages
<1>3. t1 \in Seq(X) /\ t2 \in Seq(X) /\ t3 \in Seq(X)
  BY <1>2, BodyTypes
<1>4. /\ InBranch(t1, b) = (IF b = "1/3" THEN t1 ELSE <<>>)
      /\ InBranch(t2, b) = (IF b = "2/3" THEN t2 ELSE <<>>)
      /\ InBranch(t3, b) = (IF b = "3/3" THEN t3 ELSE <<>>)
  <2>1. ToStageTwo(x) \in Seq(Cmds(x)) /\ ToStageThree \in Seq(Cmds(x)) /\ InstallAndEnd(x) \in Seq(Cmds(x))
    <3>1. Shaped(x) \subseteq Cmds(x)
      BY DEF Shaped
    <3> QED BY <3>1, BodyTypes, SeqSubset
  <2> QED BY <2>1, <1>2, InStageBranch
<1>5. m = IF ~x.two_step THEN f ELSE IF x.incremental THEN (t2 \o t1) \o t3 ELSE (t2 \o t3) \o t1
  BY DEF Middle
<1>6. Body(x, b) = IF ~x.two_step THEN f ELSE IF b = "1/3" THEN t1 ELSE IF b = "2/3" THEN t2 ELSE t3
  BY DEF Body
<1>7. GenerateNonAbOtaPackage(x) = (o \o m) \o z
  BY ScriptIs
<1> HIDE DEF X, o, m, z, t1, t2, t3, f
<1>8. m \in Seq(X)
  BY <1>1, <1>3, <1>5, ConcatFacts
<1>9. InBranch(m, b) = Body(x, b)
  <2>1. CASE ~x.two_step
    BY <2>1, <1>1, <1>5, <1>6, PlainBranch
  <2>2. CASE x.two_step
    <3>1. ASSUME NEW r \in Seq(X), NEW s \in Seq(X), NEW t \in Seq(X)
          PROVE  InBranch((r \o s) \o t, b) = (InBranch(r, b) \o InBranch(s, b)) \o InBranch(t, b)
      <4>1. r \o s \in Seq(X)
        BY ConcatFacts
      <4>2. InBranch((r \o s) \o t, b) = InBranch(r \o s, b) \o InBranch(t, b)
        <5> DEFINE q == r \o s
        <5>1. q \in Seq(X)
          BY <4>1
        <5> HIDE DEF q
        <5>2. InBranch(q \o t, b) = InBranch(q, b) \o InBranch(t, b)
          BY <5>1, InBranchConcat
        <5> QED BY <5>2 DEF q
      <4>3. InBranch(r \o s, b) = InBranch(r, b) \o InBranch(s, b)
        BY InBranchConcat
      <4> QED BY <4>2, <4>3
    <3>2. b = "1/3" \/ b = "2/3" \/ b = "3/3"
      BY DEF Branches
    <3>3. \A s \in Seq(X) : s \o <<>> = s /\ <<>> \o s = s
      BY ConcatEmptySeq
    <3>4. <<>> \in Seq(X)
      OBVIOUS
    <3>5. CASE x.incremental
      <4>1. InBranch(m, b) = (InBranch(t2, b) \o InBranch(t1, b)) \o InBranch(t3, b)
        BY <3>1, <3>5, <2>2, <1>3, <1>5
      <4> QED BY <4>1, <3>2, <3>3, <3>4, <1>3, <1>4, <1>6, <2>2
    <3>6. CASE ~x.incremental
      <4>1. InBranch(m, b) = (InBranch(t2, b) \o InBranch(t3, b)) \o InBranch(t1, b)
        BY <3>1, <3>6, <2>2, <1>3, <1>5
      <4> QED BY <4>1, <3>2, <3>3, <3>4, <1>3, <1>4, <1>6, <2>2
    <3> QED BY <3>5, <3>6
  <2> QED BY <2>1, <2>2
<1>10. InBranch(o, b) = o /\ InBranch(z, b) = z
  BY <1>1, PlainBranch
<1>11. o \o m \in Seq(X) /\ (o \o m) \o z \in Seq(X)
  BY <1>1, <1>8, ConcatFacts
<1>12. InBranch((o \o m) \o z, b) = (InBranch(o, b) \o InBranch(m, b)) \o InBranch(z, b)
  <2>1. InBranch((o \o m) \o z, b) = InBranch(o \o m, b) \o InBranch(z, b)
    <3> DEFINE q == o \o m
    <3>1. q \in Seq(X)
      BY <1>11
    <3> HIDE DEF q
    <3>2. InBranch(q \o z, b) = InBranch(q, b) \o InBranch(z, b)
      BY <3>1, <1>1, InBranchConcat
    <3> QED BY <3>2 DEF q
  <2>2. InBranch(o \o m, b) = InBranch(o, b) \o InBranch(m, b)
    BY <1>1, <1>8, InBranchConcat
  <2> QED BY <2>1, <2>2
<1> QED BY <1>7, <1>9, <1>10, <1>11, <1>12 DEF Program, X, o, z

(* No B comes after an A. *)
NoneAfter(s, A, B) == \A i, j \in 1..Len(s) : s[i] \in A /\ s[j] \in B => j < i

(* Without commands of A or of B, no B comes after an A. *)
LEMMA FreeNoneAfter ==
  ASSUME NEW s, NEW A, NEW B, Free(s, A) \/ Free(s, B)
  PROVE  NoneAfter(s, A, B)
BY DEF Free, NoneAfter

(* Concatenation keeps this when no A of the first part meets a B of the    *)
(* second.                                                                  *)
LEMMA ConcatNoneAfter ==
  ASSUME NEW X, NEW s \in Seq(X), NEW t \in Seq(X), NEW A, NEW B,
         NoneAfter(s, A, B), NoneAfter(t, A, B), Free(s, A) \/ Free(t, B)
  PROVE  NoneAfter(s \o t, A, B)
<1> SUFFICES ASSUME NEW i \in 1..Len(s \o t), NEW j \in 1..Len(s \o t), (s \o t)[i] \in A, (s \o t)[j] \in B
             PROVE  j < i
  BY DEF NoneAfter
<1> DEFINE n == Len(s)
<1>1. n \in Nat /\ Len(t) \in Nat /\ Len(s \o t) = n + Len(t)
  BY ConcatFacts
<1>2. \A k \in 1..Len(s \o t) : /\ k <= n => k \in 1..n /\ (s \o t)[k] = s[k]
                                /\ ~(k <= n) => k - n \in 1..Len(t) /\ (s \o t)[k] = t[k - n]
  <2>1. \A k \in 1..Len(s \o t) : k <= n => k \in 1..n
    BY <1>1
  <2> QED BY <2>1, ConcatFacts
<1>3. CASE i <= n /\ j <= n
  BY <1>1, <1>2, <1>3 DEF NoneAfter
<1>4. CASE i <= n /\ ~(j <= n)
  BY <1>1, <1>2, <1>4 DEF Free
<1>5. CASE ~(i <= n) /\ j <= n
  BY <1>1, <1>5
<1>6. CASE ~(i <= n) /\ ~(j <= n)
  <2>1. j - n < i - n
    BY <1>2, <1>6 DEF NoneAfter
  <2> QED BY <2>1, <1>1
<1> QED BY <1>3, <1>4, <1>5, <1>6

(* Once an A has run there is no B left. *)
LEMMA TailNoneAfter ==
  ASSUME NEW X, NEW s \in Seq(X), s # <<>>, NEW A, NEW B, NoneAfter(s, A, B)
  PROVE  NoneAfter(Tail(s), A, B) /\ (Head(s) \in A => Free(Tail(s), B))
<1> DEFINE t == Tail(s)
<1>1. /\ Len(t) = Len(s) - 1 /\ Len(s) \in Nat \ {0} /\ Head(s) = s[1]
      /\ \A i \in 1..(Len(s) - 1) : t[i] = s[i + 1]
  BY TailFacts
<1> HIDE DEF t
<1>2. \A i \in 1..Len(t) : i + 1 \in 1..Len(s) /\ t[i] = s[i + 1]
  BY <1>1
<1>3. ASSUME NEW i \in 1..Len(t), NEW j \in 1..Len(t), t[i] \in A, t[j] \in B PROVE j < i
  <2>1. j + 1 < i + 1
    BY <1>2, <1>3 DEF NoneAfter
  <2> QED BY <2>1, <1>1
<1>4. ASSUME Head(s) \in A, NEW j \in 1..Len(t) PROVE t[j] \notin B
  <2>1. 1 \in 1..Len(s) /\ s[1] \in A /\ j + 1 \in 1..Len(s) /\ t[j] = s[j + 1] /\ ~(j + 1 < 1)
    BY <1>1, <1>2, <1>4
  <2> QED BY <2>1 DEF NoneAfter
<1> QED BY <1>3, <1>4 DEF NoneAfter, Free, t

(* The branch of a command does not matter for it. *)
LEMMA InStageNoneAfter ==
  ASSUME NEW x, NEW s \in Seq(Cmds(x)), NEW b \in Stages, NEW A, NEW B, Blind(x, A), Blind(x, B),
         NoneAfter(s, A, B)
  PROVE  NoneAfter(InStage(b, s), A, B)
<1> DEFINE t == InStage(b, s)
<1>1. /\ t \in Seq(Cmds(x)) /\ Len(t) = Len(s) /\ Len(s) \in Nat
      /\ \A i \in 1..Len(s) : t[i].op = s[i].op /\ t[i].on = s[i].on /\ t[i].with = s[i].with
  BY InStageFacts
<1> HIDE DEF t
<1>2. \A i \in 1..Len(s) : t[i] \in Cmds(x) /\ s[i] \in Cmds(x)
  BY <1>1
<1>3. \A i \in 1..Len(s) : (t[i] \in A => s[i] \in A) /\ (t[i] \in B => s[i] \in B)
  BY <1>1, <1>2 DEF Blind
<1> QED BY <1>1, <1>3 DEF NoneAfter, t

(* A piece of two commands. *)
LEMMA TwoSeq ==
  ASSUME NEW X, NEW y \in X, NEW z \in X
  PROVE  /\ <<y, z>> \in Seq(X)
         /\ \A A : y \in A \/ z \in A => Has(<<y, z>>, A)
         /\ \A B : y \notin B /\ z \notin B => Free(<<y, z>>, B)
         /\ \A A, B : y \notin B /\ (y \in A \/ z \notin B) => Before(<<y, z>>, A, B)
<1> DEFINE s == <<y, z>>
<1>1. s \in Seq(X) /\ Len(s) = 2 /\ s[1] = y /\ s[2] = z
  OBVIOUS
<1> HIDE DEF s
<1>2. \A i \in 1..Len(s) : i = 1 \/ i = 2
  BY <1>1
<1>3. 1 \in 1..Len(s) /\ 2 \in 1..Len(s) /\ 1 \in 1..(2 - 1)
  BY <1>1
<1>4. \A A : y \in A \/ z \in A => Has(s, A)
  BY <1>1, <1>3 DEF Has
<1>5. \A B : y \notin B /\ z \notin B => Free(s, B)
  BY <1>1, <1>2 DEF Free
<1>6. ASSUME NEW A, NEW B, y \notin B, y \in A \/ z \notin B PROVE Before(s, A, B)
  BY <1>1, <1>2, <1>3, <1>6 DEF Before
<1> QED BY <1>1, <1>4, <1>5, <1>6 DEF s

(* What surrounds the branches of a script.                                *)
Outer(x) == Of(x, Openings \union {"unmount"})

(* A program keeps what its body keeps about commands that open or close no *)
(* script.                                                                  *)
LEMMA Around ==
  ASSUME NEW x, IsPackage(x), NEW b \in Branches
  PROVE  /\ \A A : Has(Body(x, b), A) => Has(Program(x, b), A)
         /\ \A B : B \cap Outer(x) = {} /\ Free(Body(x, b), B) => Free(Program(x, b), B)
         /\ \A A, B : B \cap Outer(x) = {} /\ Before(Body(x, b), A, B) => Before(Program(x, b), A, B)
         /\ \A A, B : A \cap Outer(x) = {} /\ B \cap Outer(x) = {} /\ NoneAfter(Body(x, b), A, B)
                        => NoneAfter(Program(x, b), A, B)
<1> DEFINE X == Shaped(x)
           o == Opening(x)
           s == Body(x, b)
           z == Closing(x)
           os == o \o s
<1>1. o \in Seq(X) /\ s \in Seq(X) /\ z \in Seq(X)
  BY PieceTypes, BodyTypes
<1>2. o \in Seq(Outer(x)) /\ z \in Seq(Outer(x))
  <2>1. Of(x, Openings) \subseteq Outer(x) /\ Unmounting(x) \subseteq Outer(x)
    BY DEF Of, Outer, Unmounting
  <2> QED BY <2>1, OpeningFacts, ClosingFacts, SeqSubset
<1>3. \A B : B \cap Outer(x) = {} => Free(o, B) /\ Free(z, B)
  BY <1>2, TypeFree
<1>4. Program(x, b) = os \o z
  BY DEF Program
<1> HIDE DEF X, o, s, z
<1>5. os \in Seq(X)
  BY <1>1, ConcatFacts
<1>6. ASSUME NEW A, Has(s, A) PROVE Has(Program(x, b), A)
  <2>1. Has(os, A)
    BY <1>1, <1>6, ConcatHas
  <2> HIDE DEF os
  <2> QED BY <1>1, <1>4, <1>5, <2>1, ConcatHas
<1>7. ASSUME NEW B, B \cap Outer(x) = {}, Free(s, B) PROVE Free(Program(x, b), B)
  <2>1. Free(o, B) /\ Free(z, B)
    BY <1>3, <1>7
  <2>2. Free(os, B)
    BY <1>1, <1>7, <2>1, ConcatFree
  <2> HIDE DEF os
  <2> QED BY <1>1, <1>4, <1>5, <2>1, <2>2, ConcatFree
<1>8. ASSUME NEW A, NEW B, B \cap Outer(x) = {}, Before(s, A, B) PROVE Before(Program(x, b), A, B)
  <2>1. Before(o, A, B) /\ Before(z, A, B)
    BY <1>3, <1>8, FreeBefore
  <2>2. Before(os, A, B)
    BY <1>1, <1>8, <2>1, ConcatBefore
  <2> HIDE DEF os
  <2> QED BY <1>1, <1>4, <1>5, <2>1, <2>2, ConcatBefore
<1>9. ASSUME NEW A, NEW B, A \cap Outer(x) = {}, B \cap Outer(x) = {}, NoneAfter(s, A, B)
      PROVE  NoneAfter(Program(x, b), A, B)
  <2>1. NoneAfter(o, A, B) /\ NoneAfter(z, A, B) /\ Free(o, A) /\ Free(z, B)
    BY <1>3, <1>9, FreeNoneAfter
  <2>2. NoneAfter(os, A, B)
    BY <1>1, <1>9, <2>1, ConcatNoneAfter
  <2> HIDE DEF os
  <2> QED BY <1>1, <1>4, <1>5, <2>1, <2>2, ConcatNoneAfter
<1> QED BY <1>6, <1>7, <1>8, <1>9 DEF s

(* The commands that stop a device that the package is not for.            *)
Stops(x) == {y \in Shaped(x) :
  \/ y.op \in {"assert_older", "assert_build"} /\ x.build = "other"
  \/ y.op = "assert_device" /\ x.build = "device"
  \/ y.op = "apply_patch_space" /\ ~(y.with <= x.free)}

NotTo(x, w) == {y \in Staging(x) : y.with # w}
RebootNotTo(x, w) == {y \in Rebooting(x) : y.with # w}
Patching(x) == Of(x, {"block_image_update", "update_dynamic_partitions", "format", "post_verify"})

(* and neither do these. *)
LEMMA MoreBlindSets ==
  ASSUME NEW x
  PROVE  /\ Blind(x, Stops(x)) /\ Blind(x, Patching(x)) /\ Blind(x, Rebooting(x)) /\ Blind(x, Staging(x))
         /\ \A w : Blind(x, NotTo(x, w)) /\ Blind(x, RebootNotTo(x, w))
         /\ \A p : Blind(x, Verifying(x, p))
         /\ Blind(x, Mounting(x)) /\ Blind(x, Unmounting(x)) /\ Blind(x, Formatting(x))
<1>1. Blind(x, Shaped(x)) /\ \A ops : Blind(x, Of(x, ops))
  BY BlindSets
<1>2. Blind(x, Stops(x))
  BY <1>1 DEF Blind, Stops
<1>3. ASSUME NEW w PROVE Blind(x, NotTo(x, w)) /\ Blind(x, RebootNotTo(x, w))
  BY <1>1 DEF Blind, NotTo, RebootNotTo, Staging, Rebooting
<1>4. ASSUME NEW p PROVE Blind(x, Verifying(x, p))
  BY <1>1 DEF Blind, Verifying
<1> QED BY <1>1, <1>2, <1>3, <1>4 DEF Patching, Rebooting, Staging, Mounting, Unmounting, Formatting

(* The commands that open or close no script. *)
LEMMA InnerSets ==
  ASSUME NEW x
  PROVE  /\ \A B \in {Patching(x), Rebooting(x), Staging(x), Formatting(x), BootTarget(x), RecoveryToBoot(x),
                      RecoveryWrite(x), Installing(x) \ Unmounting(x), Dyn(x), UpdLater(x), Of(x, Writings)} :
              B \cap Outer(x) = {}
         /\ \A w : /\ NotTo(x, w) \cap Outer(x) = {} /\ RebootNotTo(x, w) \cap Outer(x) = {}
                   /\ StageTo(x, w) \cap Outer(x) = {} /\ PostV(x, w) \cap Outer(x) = {}
<1>1. \A y \in Outer(x) : y.op \in {"mount", "assert_older", "assert_device", "unmount"} /\ y \in Shaped(x)
  BY DEF Outer, Of, Openings
<1>2. ASSUME NEW y \in Outer(x)
      PROVE  /\ y \notin Patching(x) /\ y \notin Rebooting(x) /\ y \notin Staging(x) /\ y \notin Formatting(x)
             /\ y \notin BootTarget(x) /\ y \notin RecoveryToBoot(x) /\ y \notin RecoveryWrite(x)
             /\ y \notin Dyn(x) /\ y \notin UpdLater(x) /\ y \notin Of(x, Writings)
  BY <1>1 DEF Patching, Rebooting, Staging, Formatting, BootTarget, RecoveryToBoot, RecoveryWrite, Of, Dyn, UpdLater,
              Writings
<1>3. (Installing(x) \ Unmounting(x)) \cap Outer(x) = {}
  BY <1>1 DEF Installing, Unmounting, Of
<1>4. ASSUME NEW w, NEW y \in Outer(x)
      PROVE  /\ y \notin NotTo(x, w) /\ y \notin RebootNotTo(x, w) /\ y \notin StageTo(x, w) /\ y \notin PostV(x, w)
  BY <1>1, <1>2 DEF NotTo, RebootNotTo, StageTo, PostV
<1> QED BY <1>2, <1>3, <1>4

(* Stage 1/3: the recovery image goes to /boot, then the stage, then the   *)
(* reboot.                                                                 *)
LEMMA ProgramOne ==
  ASSUME NEW x, IsPackage(x), x.two_step
  PROVE  /\ Has(Program(x, "1/3"), Rebooting(x))
         /\ \A B \in {BootTarget(x), RecoveryWrite(x), Patching(x), NotTo(x, "2/3"), RebootNotTo(x, "")} :
               Free(Program(x, "1/3"), B)
         /\ Before(Program(x, "1/3"), RecoveryToBoot(x), StageTo(x, "2/3"))
         /\ Before(Program(x, "1/3"), RecoveryToBoot(x), Rebooting(x))
         /\ Before(Program(x, "1/3"), StageTo(x, "2/3"), Rebooting(x))
         /\ NoneAfter(Program(x, "1/3"), StageTo(x, "2/3"), RecoveryToBoot(x))
<1> DEFINE X == Shaped(x)
           C == Of(x, Checkings)
           r == Cmd("package_extract_file", "boot", "recovery.img")
           a == Cmd("set_stage", "misc", "2/3")
           b == Cmd("reboot_now", "misc", "")
           ch == Checked(x)
           sr == <<r>>
           sg == <<a, b>>
           cr == ch \o sr
           s == cr \o sg
<1>1. ToStageTwo(x) = s
  BY DEF ToStageTwo, WriteRecoveryImageToBoot, WriteRawImage, GoTo
<1>2. r \in RecoveryToBoot(x) /\ a \in StageTo(x, "2/3") /\ b \in {y \in Rebooting(x) : y.with = ""}
  BY WriteCommands
<1>3. ch \in Seq(C)
  BY CheckedFacts
<1> HIDE DEF r, a, b, ch
<1>4. /\ r \in X /\ r.op = "package_extract_file" /\ r.on = "boot" /\ r.with = "recovery.img"
      /\ a \in X /\ a.op = "set_stage" /\ a.with = "2/3"
      /\ b \in X /\ b.op = "reboot_now" /\ b.with = ""
  BY <1>2 DEF RecoveryToBoot, StageTo, Staging, Rebooting, Of
<1>5. \A B \in {BootTarget(x), RecoveryWrite(x), Patching(x), NotTo(x, "2/3"), RebootNotTo(x, "")} :
         r \notin B /\ a \notin B /\ b \notin B /\ B \cap C = {} /\ Blind(x, B)
  <2>1. ASSUME NEW y \in {r, a, b}
        PROVE y \notin BootTarget(x) /\ y \notin RecoveryWrite(x) /\ y \notin Patching(x)
              /\ y \notin NotTo(x, "2/3") /\ y \notin RebootNotTo(x, "")
    BY <1>4 DEF BootTarget, RecoveryWrite, Patching, NotTo, RebootNotTo, Staging, Rebooting, Of
  <2>2. ASSUME NEW y \in C
        PROVE y \notin BootTarget(x) /\ y \notin RecoveryWrite(x) /\ y \notin Patching(x)
              /\ y \notin NotTo(x, "2/3") /\ y \notin RebootNotTo(x, "")
    BY DEF BootTarget, RecoveryWrite, Patching, NotTo, RebootNotTo, Staging, Rebooting, Of, Checkings
  <2> QED BY <2>1, <2>2, BlindSets, MoreBlindSets
<1>6. /\ r \notin StageTo(x, "2/3") /\ r \notin Rebooting(x)
      /\ a \notin RecoveryToBoot(x) /\ a \notin Rebooting(x)
      /\ b \notin RecoveryToBoot(x) /\ b \notin StageTo(x, "2/3") /\ b \in Rebooting(x)
      /\ StageTo(x, "2/3") \cap C = {} /\ Rebooting(x) \cap C = {} /\ RecoveryToBoot(x) \cap C = {}
  BY <1>2, <1>4 DEF RecoveryToBoot, StageTo, Staging, Rebooting, Of, Checkings
<1>7. ch \in Seq(X)
  <2>1. C \subseteq X
    BY DEF Of
  <2> QED BY <2>1, <1>3, SeqSubset
<1>8. \A B : B \cap C = {} => Free(ch, B)
  BY <1>3, TypeFree
<1> HIDE DEF X, C
<1>9. /\ sr \in Seq(X) /\ \A A : r \in A => Has(sr, A)
      /\ \A B : r \notin B => Free(sr, B)
  BY <1>4, OneSeq
<1>10. /\ sg \in Seq(X) /\ \A A : a \in A \/ b \in A => Has(sg, A)
       /\ \A B : a \notin B /\ b \notin B => Free(sg, B)
       /\ \A A, B : a \notin B /\ (a \in A \/ b \notin B) => Before(sg, A, B)
  BY <1>4, TwoSeq
<1> HIDE DEF sr, sg
<1>11. cr \in Seq(X) /\ Has(cr, RecoveryToBoot(x)) /\ Free(cr, StageTo(x, "2/3")) /\ Free(cr, Rebooting(x))
  BY <1>2, <1>6, <1>7, <1>8, <1>9, ConcatFacts, ConcatHas, ConcatFree
<1>12. \A B : r \notin B /\ B \cap C = {} => Free(cr, B)
  BY <1>7, <1>8, <1>9, ConcatFree
<1> HIDE DEF cr
<1>13. s \in Seq(X) /\ Has(s, Rebooting(x))
  BY <1>6, <1>10, <1>11, ConcatFacts, ConcatHas
<1>14. ASSUME NEW B, r \notin B, a \notin B, b \notin B, B \cap C = {} PROVE Free(s, B)
  BY <1>10, <1>11, <1>12, <1>14, ConcatFree
<1>15. /\ Before(s, RecoveryToBoot(x), StageTo(x, "2/3"))
       /\ Before(s, RecoveryToBoot(x), Rebooting(x))
       /\ Before(s, StageTo(x, "2/3"), Rebooting(x))
  <2>1. /\ Before(cr, RecoveryToBoot(x), StageTo(x, "2/3")) /\ Before(cr, RecoveryToBoot(x), Rebooting(x))
        /\ Before(cr, StageTo(x, "2/3"), Rebooting(x))
    BY <1>11, FreeBefore
  <2>2. Before(sg, StageTo(x, "2/3"), Rebooting(x))
    BY <1>2, <1>6, <1>10
  <2>3. Before(s, RecoveryToBoot(x), StageTo(x, "2/3")) /\ Before(s, RecoveryToBoot(x), Rebooting(x))
    BY <2>1, <1>10, <1>11, ConcatBefore
  <2>4. Before(s, StageTo(x, "2/3"), Rebooting(x))
    BY <2>1, <2>2, <1>10, <1>11, ConcatBefore
  <2> QED BY <2>3, <2>4
<1>16. NoneAfter(s, StageTo(x, "2/3"), RecoveryToBoot(x))
  <2>1. Free(sg, RecoveryToBoot(x))
    BY <1>6, <1>10
  <2>2. NoneAfter(cr, StageTo(x, "2/3"), RecoveryToBoot(x)) /\ NoneAfter(sg, StageTo(x, "2/3"), RecoveryToBoot(x))
    BY <2>1, <1>11, FreeNoneAfter
  <2> QED BY <2>1, <2>2, <1>10, <1>11, ConcatNoneAfter
<1> HIDE DEF s
<1> DEFINE t == InStage("1/3", s)
<1>17. s \in Seq(Cmds(x)) /\ "1/3" \in Stages /\ "1/3" \in Branches
  <2>1. X \subseteq Cmds(x)
    BY DEF X, Shaped
  <2> QED BY <2>1, <1>13, SeqSubset DEF Stages, Branches
<1>18. Body(x, "1/3") = t
  BY <1>1 DEF Body
<1>19. /\ Blind(x, RecoveryToBoot(x)) /\ Blind(x, StageTo(x, "2/3")) /\ Blind(x, Rebooting(x))
  BY BlindSets, MoreBlindSets
<1>20. /\ Has(t, Rebooting(x))
       /\ \A B \in {BootTarget(x), RecoveryWrite(x), Patching(x), NotTo(x, "2/3"), RebootNotTo(x, "")} : Free(t, B)
  BY <1>5, <1>13, <1>14, <1>17, <1>19, InStageKeeps
<1>21. /\ Before(t, RecoveryToBoot(x), StageTo(x, "2/3")) /\ Before(t, RecoveryToBoot(x), Rebooting(x))
       /\ Before(t, StageTo(x, "2/3"), Rebooting(x))
  BY <1>15, <1>17, <1>19, InStageKeeps
<1>22. NoneAfter(t, StageTo(x, "2/3"), RecoveryToBoot(x))
  BY <1>16, <1>17, <1>19, InStageNoneAfter
<1> HIDE DEF t
<1>23. /\ StageTo(x, "2/3") \cap Outer(x) = {} /\ Rebooting(x) \cap Outer(x) = {} /\ RecoveryToBoot(x) \cap Outer(x) = {}
       /\ \A B \in {BootTarget(x), RecoveryWrite(x), Patching(x), NotTo(x, "2/3"), RebootNotTo(x, "")} :
             B \cap Outer(x) = {}
  BY InnerSets
<1> QED BY <1>17, <1>18, <1>20, <1>21, <1>22, <1>23, Around

(* Stage 2/3: /recovery is written, then the stage, then the reboot.       *)
LEMMA ProgramTwo ==
  ASSUME NEW x, IsPackage(x), x.two_step
  PROVE  /\ Has(Program(x, "2/3"), Rebooting(x))
         /\ \A B \in {BootTarget(x), RecoveryToBoot(x), Patching(x), NotTo(x, "3/3"), RebootNotTo(x, "recovery")} :
               Free(Program(x, "2/3"), B)
         /\ Before(Program(x, "2/3"), RecoveryWrite(x), StageTo(x, "3/3"))
         /\ Before(Program(x, "2/3"), RecoveryWrite(x), Rebooting(x))
         /\ Before(Program(x, "2/3"), StageTo(x, "3/3"), Rebooting(x))
         /\ NoneAfter(Program(x, "2/3"), StageTo(x, "3/3"), RecoveryWrite(x))
<1> DEFINE X == Shaped(x)
           r == Cmd("package_extract_file", "recovery", "recovery.img")
           a == Cmd("set_stage", "misc", "3/3")
           b == Cmd("reboot_now", "misc", "recovery")
           sr == <<r>>
           sg == <<a, b>>
           s == sr \o sg
<1>1. ToStageThree = s
  BY DEF ToStageThree, WriteRecoveryImageToRecovery, WriteRawImage, GoTo
<1>2. r \in RecoveryWrite(x) /\ a \in StageTo(x, "3/3") /\ b \in {y \in Rebooting(x) : y.with = "recovery"}
  BY WriteCommands
<1> HIDE DEF r, a, b
<1>4. /\ r \in X /\ r.op = "package_extract_file" /\ r.on = "recovery"
      /\ a \in X /\ a.op = "set_stage" /\ a.with = "3/3"
      /\ b \in X /\ b.op = "reboot_now" /\ b.with = "recovery"
  BY <1>2 DEF RecoveryWrite, StageTo, Staging, Rebooting, Of
<1>5. \A B \in {BootTarget(x), RecoveryToBoot(x), Patching(x), NotTo(x, "3/3"), RebootNotTo(x, "recovery")} :
         r \notin B /\ a \notin B /\ b \notin B /\ Blind(x, B)
  <2>1. ASSUME NEW y \in {r, a, b}
        PROVE y \notin BootTarget(x) /\ y \notin RecoveryToBoot(x) /\ y \notin Patching(x)
              /\ y \notin NotTo(x, "3/3") /\ y \notin RebootNotTo(x, "recovery")
    BY <1>4 DEF BootTarget, RecoveryToBoot, Patching, NotTo, RebootNotTo, Staging, Rebooting, Of
  <2> QED BY <2>1, BlindSets, MoreBlindSets
<1>6. /\ r \notin StageTo(x, "3/3") /\ r \notin Rebooting(x)
      /\ a \notin RecoveryWrite(x) /\ a \notin Rebooting(x)
      /\ b \notin RecoveryWrite(x) /\ b \notin StageTo(x, "3/3") /\ b \in Rebooting(x)
  BY <1>2, <1>4 DEF RecoveryWrite, StageTo, Staging, Rebooting, Of
<1> HIDE DEF X
<1>9. /\ sr \in Seq(X) /\ \A A : r \in A => Has(sr, A)
      /\ \A B : r \notin B => Free(sr, B)
  BY <1>4, OneSeq
<1>10. /\ sg \in Seq(X) /\ \A A : a \in A \/ b \in A => Has(sg, A)
       /\ \A B : a \notin B /\ b \notin B => Free(sg, B)
       /\ \A A, B : a \notin B /\ (a \in A \/ b \notin B) => Before(sg, A, B)
  BY <1>4, TwoSeq
<1> HIDE DEF sr, sg
<1>13. s \in Seq(X) /\ Has(s, Rebooting(x))
  BY <1>6, <1>9, <1>10, ConcatFacts, ConcatHas
<1>14. ASSUME NEW B, r \notin B, a \notin B, b \notin B PROVE Free(s, B)
  BY <1>9, <1>10, <1>14, ConcatFree
<1>15. /\ Before(s, RecoveryWrite(x), StageTo(x, "3/3"))
       /\ Before(s, RecoveryWrite(x), Rebooting(x))
       /\ Before(s, StageTo(x, "3/3"), Rebooting(x))
  <2>1. /\ Before(sr, RecoveryWrite(x), StageTo(x, "3/3")) /\ Before(sr, RecoveryWrite(x), Rebooting(x))
        /\ Before(sr, StageTo(x, "3/3"), Rebooting(x)) /\ Has(sr, RecoveryWrite(x))
    BY <1>2, <1>6, <1>9, FreeBefore
  <2>2. Before(sg, StageTo(x, "3/3"), Rebooting(x))
    BY <1>2, <1>6, <1>10
  <2>3. Before(s, RecoveryWrite(x), StageTo(x, "3/3")) /\ Before(s, RecoveryWrite(x), Rebooting(x))
    BY <2>1, <1>9, <1>10, ConcatBefore
  <2>4. Before(s, StageTo(x, "3/3"), Rebooting(x))
    BY <2>1, <2>2, <1>9, <1>10, ConcatBefore
  <2> QED BY <2>3, <2>4
<1>16. NoneAfter(s, StageTo(x, "3/3"), RecoveryWrite(x))
  <2>1. Free(sg, RecoveryWrite(x)) /\ Free(sr, StageTo(x, "3/3"))
    BY <1>6, <1>9, <1>10
  <2>2. NoneAfter(sr, StageTo(x, "3/3"), RecoveryWrite(x)) /\ NoneAfter(sg, StageTo(x, "3/3"), RecoveryWrite(x))
    BY <2>1, FreeNoneAfter
  <2> QED BY <2>1, <2>2, <1>9, <1>10, ConcatNoneAfter
<1> HIDE DEF s
<1> DEFINE t == InStage("2/3", s)
<1>17. s \in Seq(Cmds(x)) /\ "2/3" \in Stages /\ "2/3" \in Branches
  <2>1. X \subseteq Cmds(x)
    BY DEF X, Shaped
  <2> QED BY <2>1, <1>13, SeqSubset DEF Stages, Branches
<1>18. Body(x, "2/3") = t
  BY <1>1 DEF Body
<1>19. /\ Blind(x, RecoveryWrite(x)) /\ Blind(x, StageTo(x, "3/3")) /\ Blind(x, Rebooting(x))
  BY BlindSets, MoreBlindSets
<1>20. /\ Has(t, Rebooting(x))
       /\ \A B \in {BootTarget(x), RecoveryToBoot(x), Patching(x), NotTo(x, "3/3"), RebootNotTo(x, "recovery")} : Free(t, B)
  BY <1>5, <1>13, <1>14, <1>17, <1>19, InStageKeeps
<1>21. /\ Before(t, RecoveryWrite(x), StageTo(x, "3/3")) /\ Before(t, RecoveryWrite(x), Rebooting(x))
       /\ Before(t, StageTo(x, "3/3"), Rebooting(x))
  BY <1>15, <1>17, <1>19, InStageKeeps
<1>22. NoneAfter(t, StageTo(x, "3/3"), RecoveryWrite(x))
  BY <1>16, <1>17, <1>19, InStageNoneAfter
<1> HIDE DEF t
<1>23. /\ StageTo(x, "3/3") \cap Outer(x) = {} /\ Rebooting(x) \cap Outer(x) = {} /\ RecoveryWrite(x) \cap Outer(x) = {}
       /\ \A B \in {BootTarget(x), RecoveryToBoot(x), Patching(x), NotTo(x, "3/3"), RebootNotTo(x, "recovery")} :
             B \cap Outer(x) = {}
  BY InnerSets
<1> QED BY <1>17, <1>18, <1>20, <1>21, <1>22, <1>23, Around

(* What the commands around an install are. *)
Beside(x) == Of(x, Checkings \union {"set_stage"})

(* The body of the installing branch: Install, with checks before it or     *)
(* set_stage("") after it.                                                  *)
LEMMA InstallBody ==
  ASSUME NEW x, IsPackage(x), NEW b \in Branches, x.two_step => b = "3/3"
  PROVE  \E s \in Seq(Shaped(x)) :
           /\ Body(x, b) = s \/ (Body(x, b) = InStage("3/3", s))
           /\ \A A : Has(Install(x), A) => Has(s, A)
           /\ \A B : B \cap Beside(x) = {} /\ Free(Install(x), B) => Free(s, B)
           /\ \A A, B : B \cap Beside(x) = {} /\ Before(Install(x), A, B) => Before(s, A, B)
           /\ x.two_step => Has(s, StageTo(x, "")) /\ Free(s, NotTo(x, ""))
           /\ ~x.two_step => Free(s, Staging(x))
<1> DEFINE X == Shaped(x)
           i == Install(x)
<1>1. i \in Seq(X) /\ i \in Seq(Installing(x))
  BY PieceTypes, InstallFacts
<1>2. Free(i, Staging(x)) /\ Free(i, NotTo(x, ""))
  <2>1. Staging(x) \cap Installing(x) = {} /\ NotTo(x, "") \cap Installing(x) = {}
    BY DEF Installing, Staging, NotTo, Of
  <2> HIDE DEF i
  <2>2. Free(i, Staging(x))
    BY <2>1, <1>1, TypeFree
  <2>3. Free(i, NotTo(x, ""))
    BY <2>1, <1>1, TypeFree
  <2> QED BY <2>2, <2>3
<1>3. CASE x.two_step
  <2> DEFINE a == Cmd("set_stage", "misc", "")
             v == <<a>>
             s == i \o v
  <2>1. Body(x, b) = InStage("3/3", s)
    BY <1>3 DEF Body, InstallAndEnd, SetStage
  <2>2. a \in StageTo(x, "")
    BY WriteCommands
  <2> HIDE DEF a
  <2>3. a \in X /\ a \in Beside(x) /\ a \notin NotTo(x, "")
    BY <2>2 DEF StageTo, Staging, Of, Beside, NotTo
  <2>4. v \in Seq(X) /\ Has(v, StageTo(x, "")) /\ Free(v, NotTo(x, "")) /\ v \in Seq(Beside(x))
    BY <2>2, <2>3, OneSeq
  <2> HIDE DEF i, v, X
  <2>5. s \in Seq(X) /\ Has(s, StageTo(x, "")) /\ Free(s, NotTo(x, ""))
    BY <1>1, <1>2, <2>4, ConcatFacts, ConcatHas, ConcatFree
  <2>6. \A A : Has(i, A) => Has(s, A)
    BY <1>1, <2>4, ConcatHas
  <2>7. \A B : B \cap Beside(x) = {} => Free(v, B)
    BY <2>4, TypeFree
  <2>8. \A B : B \cap Beside(x) = {} /\ Free(i, B) => Free(s, B)
    BY <1>1, <2>4, <2>7, ConcatFree
  <2>9. ASSUME NEW A, NEW B, B \cap Beside(x) = {}, Before(i, A, B) PROVE Before(s, A, B)
    <3>1. Before(v, A, B)
      BY <2>7, <2>9, FreeBefore
    <3> QED BY <3>1, <1>1, <2>4, <2>9, ConcatBefore
  <2> HIDE DEF s
  <2> QED BY <1>3, <2>1, <2>5, <2>6, <2>8, <2>9 DEF X, i
<1>4. CASE ~x.two_step
  <2> DEFINE v == Checked(x)
             s == v \o i
  <2>1. Body(x, b) = s
    BY <1>4 DEF Body
  <2>2. v \in Seq(Of(x, Checkings)) /\ v \in Seq(X)
    BY CheckedFacts, PieceTypes
  <2>3. v \in Seq(Beside(x)) /\ Free(v, Staging(x))
    <3>1. Of(x, Checkings) \subseteq Beside(x) /\ Of(x, Checkings) \cap Staging(x) = {}
      BY DEF Of, Beside, Staging, Checkings
    <3> QED BY <3>1, <2>2, SeqSubset, TypeFree
  <2> HIDE DEF i, v, X
  <2>5. s \in Seq(X) /\ Free(s, Staging(x))
    BY <1>1, <1>2, <2>2, <2>3, ConcatFacts, ConcatFree
  <2>6. \A A : Has(i, A) => Has(s, A)
    BY <1>1, <2>2, ConcatHas
  <2>7. \A B : B \cap Beside(x) = {} => Free(v, B)
    BY <2>3, TypeFree
  <2>8. \A B : B \cap Beside(x) = {} /\ Free(i, B) => Free(s, B)
    BY <1>1, <2>2, <2>7, ConcatFree
  <2>9. ASSUME NEW A, NEW B, B \cap Beside(x) = {}, Before(i, A, B) PROVE Before(s, A, B)
    <3>1. Before(v, A, B)
      BY <2>7, <2>9, FreeBefore
    <3> QED BY <3>1, <1>1, <2>2, <2>9, ConcatBefore
  <2> HIDE DEF s
  <2> QED BY <1>4, <2>1, <2>5, <2>6, <2>8, <2>9 DEF X, i
<1> QED BY <1>3, <1>4

(* The commands that these are not. *)
LEMMA BesideSets ==
  ASSUME NEW x
  PROVE  /\ \A B \in {RecoveryToBoot(x), RecoveryWrite(x), Rebooting(x), Formatting(x), Mounting(x), Dyn(x), UpdLater(x)} :
               B \cap Beside(x) = {}
         /\ \A q : PostV(x, q) \cap Beside(x) = {}
<1>1. \A y \in Beside(x) : y.op \in {"assert_build", "patch_partition_check", "apply_patch_space", "verify", "set_stage"}
  BY DEF Beside, Of, Checkings
<1>2. ASSUME NEW y \in Beside(x)
      PROVE  /\ y \notin RecoveryToBoot(x) /\ y \notin RecoveryWrite(x) /\ y \notin Rebooting(x)
             /\ y \notin Formatting(x) /\ y \notin Mounting(x) /\ y \notin Dyn(x) /\ y \notin UpdLater(x)
             /\ \A q : y \notin PostV(x, q)
  BY <1>1 DEF RecoveryToBoot, RecoveryWrite, Rebooting, Formatting, Mounting, Dyn, UpdLater, PostV, Of
<1> QED BY <1>2

(* The run that installs: what it is going to do, and in which order.      *)
LEMMA ProgramThree ==
  ASSUME NEW x, IsPackage(x), NEW b \in Branches, x.two_step => b = "3/3"
  PROVE  /\ x.two_step => Has(Program(x, b), StageTo(x, "")) /\ Free(Program(x, b), NotTo(x, ""))
         /\ ~x.two_step => Free(Program(x, b), Staging(x))
         /\ \A B \in {RecoveryToBoot(x), RecoveryWrite(x), Rebooting(x)} : Free(Program(x, b), B)
         /\ \A p \in Diffs(x) : x.u.tgtSize[p] > 0 => Has(Program(x, b), Upd(x, p))
         /\ x.bootChanged => Has(Program(x, b), BootTarget(x))
         /\ x.wipe => Has(Program(x, b), Formatting(x))
         /\ ~x.wipe => Free(Program(x, b), Formatting(x))
         /\ \A q : Before(Program(x, b), Upd(x, q), PostV(x, q))
         /\ x.dynamic => /\ Has(Program(x, b), Dyn(x))
                         /\ Before(Program(x, b), Dyn(x), UpdLater(x))
                         /\ \A p \in Diffs(x) : Shrinks(Updates(x), p) =>
                               Before(Program(x, b), Upd(x, p), Dyn(x))
<1> DEFINE X == Shaped(x)
           i == Install(x)
           B0 == Body(x, b)
           P == Program(x, b)
<1>1. PICK s \in Seq(X) :
           /\ B0 = s \/ (B0 = InStage("3/3", s))
           /\ \A A : Has(i, A) => Has(s, A)
           /\ \A B : B \cap Beside(x) = {} /\ Free(i, B) => Free(s, B)
           /\ \A A, B : B \cap Beside(x) = {} /\ Before(i, A, B) => Before(s, A, B)
           /\ x.two_step => Has(s, StageTo(x, "")) /\ Free(s, NotTo(x, ""))
           /\ ~x.two_step => Free(s, Staging(x))
  BY InstallBody
<1>2. s \in Seq(Cmds(x)) /\ "3/3" \in Stages
  <2>1. X \subseteq Cmds(x)
    BY DEF Shaped
  <2> QED BY <2>1, SeqSubset DEF Stages
<1>3. /\ \A A : Blind(x, A) /\ Has(s, A) => Has(B0, A)
      /\ \A A : Blind(x, A) /\ Free(s, A) => Free(B0, A)
      /\ \A A, B : Blind(x, A) /\ Blind(x, B) /\ Before(s, A, B) => Before(B0, A, B)
  <2>1. CASE B0 = s
    BY <2>1
  <2>2. CASE B0 = InStage("3/3", s)
    BY <2>2, <1>2, InStageKeeps
  <2> QED BY <1>1, <2>1, <2>2
<1>4. /\ \A A : Has(B0, A) => Has(P, A)
      /\ \A B : B \cap Outer(x) = {} /\ Free(B0, B) => Free(P, B)
      /\ \A A, B : B \cap Outer(x) = {} /\ Before(B0, A, B) => Before(P, A, B)
  BY Around
<1> HIDE DEF i, B0, P
<1>5. ASSUME NEW A, Blind(x, A), Has(i, A) PROVE Has(P, A)
  BY <1>1, <1>3, <1>4, <1>5
<1>6. ASSUME NEW B, Blind(x, B), B \cap Outer(x) = {}, B \cap Beside(x) = {}, Free(i, B) PROVE Free(P, B)
  <2>1. Free(s, B)
    BY <1>1, <1>6
  <2> QED BY <2>1, <1>3, <1>4, <1>6
<1>7. ASSUME NEW A, NEW B, Blind(x, A), Blind(x, B), B \cap Outer(x) = {}, B \cap Beside(x) = {}, Before(i, A, B)
      PROVE  Before(P, A, B)
  <2>1. Before(s, A, B)
    BY <1>1, <1>7
  <2> QED BY <2>1, <1>3, <1>4, <1>7
<1>8. /\ i \in Seq(Installing(x))
      /\ \A p \in Diffs(x) : x.u.tgtSize[p] > 0 => Has(i, Upd(x, p))
      /\ x.bootChanged => Has(i, BootTarget(x))
      /\ x.wipe => Has(i, Formatting(x))
      /\ \A q : Before(i, Upd(x, q), PostV(x, q))
      /\ x.dynamic => /\ Has(i, Dyn(x))
                      /\ Before(i, Dyn(x), UpdLater(x))
                      /\ \A p \in Diffs(x) : Shrinks(Updates(x), p) => Before(i, Upd(x, p), Dyn(x))
  BY InstallFacts DEF i
<1>9. /\ \A q : Blind(x, Upd(x, q)) /\ Blind(x, PostV(x, q)) /\ PostV(x, q) \cap Outer(x) = {} /\ PostV(x, q) \cap Beside(x) = {}
      /\ \A B \in {RecoveryToBoot(x), RecoveryWrite(x), Rebooting(x), Formatting(x), Dyn(x), UpdLater(x)} :
            Blind(x, B) /\ B \cap Outer(x) = {} /\ B \cap Beside(x) = {}
      /\ Blind(x, BootTarget(x))
  <2>1. \A q : Blind(x, Upd(x, q)) /\ Blind(x, PostV(x, q)) /\ PostV(x, q) \cap Outer(x) = {} /\ PostV(x, q) \cap Beside(x) = {}
    BY BlindSets, InnerSets, BesideSets
  <2>2. \A B \in {RecoveryToBoot(x), RecoveryWrite(x), Rebooting(x), Formatting(x), Dyn(x), UpdLater(x), BootTarget(x)} :
            Blind(x, B)
    BY BlindSets, MoreBlindSets
  <2>3. \A B \in {RecoveryToBoot(x), RecoveryWrite(x), Rebooting(x), Formatting(x), Dyn(x), UpdLater(x)} :
            B \cap Outer(x) = {} /\ B \cap Beside(x) = {}
    BY InnerSets, BesideSets
  <2> QED BY <2>1, <2>2, <2>3
<1>10. \A B \in {RecoveryToBoot(x), RecoveryWrite(x), Rebooting(x)} : Free(P, B)
  <2>1. \A B \in {RecoveryToBoot(x), RecoveryWrite(x), Rebooting(x)} : B \cap Installing(x) = {}
    BY DEF RecoveryToBoot, RecoveryWrite, Rebooting, Installing, Of
  <2>2. \A B \in {RecoveryToBoot(x), RecoveryWrite(x), Rebooting(x)} : Free(i, B)
    BY <2>1, <1>8, TypeFree
  <2> QED BY <2>2, <1>6, <1>9
<1>11. ~x.wipe => Free(P, Formatting(x))
  <2>1. ~x.wipe => Formatting(x) \cap Installing(x) = {}
    BY DEF Formatting, Installing, Of
  <2>2. ~x.wipe => Free(i, Formatting(x))
    BY <2>1, <1>8, TypeFree
  <2> QED BY <2>2, <1>6, <1>9
<1>12. x.two_step => Has(P, StageTo(x, "")) /\ Free(P, NotTo(x, ""))
  <2>1. Blind(x, StageTo(x, "")) /\ Blind(x, NotTo(x, "")) /\ NotTo(x, "") \cap Outer(x) = {}
    BY BlindSets, MoreBlindSets, InnerSets
  <2> QED BY <2>1, <1>1, <1>3, <1>4
<1>13. ~x.two_step => Free(P, Staging(x))
  <2>1. Blind(x, Staging(x)) /\ Staging(x) \cap Outer(x) = {}
    BY MoreBlindSets, InnerSets
  <2> QED BY <2>1, <1>1, <1>3, <1>4
<1>14. /\ \A p \in Diffs(x) : x.u.tgtSize[p] > 0 => Has(P, Upd(x, p))
       /\ x.bootChanged => Has(P, BootTarget(x))
       /\ x.wipe => Has(P, Formatting(x))
       /\ x.dynamic => Has(P, Dyn(x))
  BY <1>5, <1>8, <1>9
<1>15. /\ \A q : Before(P, Upd(x, q), PostV(x, q))
       /\ x.dynamic => Before(P, Dyn(x), UpdLater(x))
       /\ x.dynamic => \A p \in Diffs(x) : Shrinks(Updates(x), p) => Before(P, Upd(x, p), Dyn(x))
  BY <1>7, <1>8, <1>9
<1> QED BY <1>10, <1>11, <1>12, <1>13, <1>14, <1>15 DEF P

(* What is mounted is unmounted. *)
LEMMA ProgramUnmounts ==
  ASSUME NEW x, IsPackage(x), NEW b \in Branches, x.two_step => b = "3/3"
  PROVE  After(Program(x, b), Unmounting(x), Mounting(x))
<1> DEFINE X == Shaped(x)
           i == Install(x)
           o == Opening(x)
           z == Closing(x)
           t == Body(x, b)
           U == Unmounting(x)
           M == Mounting(x)
           ot == o \o t
<1>1. PICK s \in Seq(X) :
           /\ t = s \/ (t = InStage("3/3", s))
           /\ \A A : Has(i, A) => Has(s, A)
           /\ \A B : B \cap Beside(x) = {} /\ Free(i, B) => Free(s, B)
  BY InstallBody
<1>2. s \in Seq(Cmds(x)) /\ "3/3" \in Stages /\ Blind(x, U) /\ Blind(x, M) /\ M \cap Beside(x) = {}
  <2>1. X \subseteq Cmds(x)
    BY DEF Shaped
  <2> QED BY <2>1, SeqSubset, MoreBlindSets, BesideSets DEF Stages
<1>3. (Has(i, U) => Has(t, U)) /\ (Free(i, M) => Free(t, M))
  <2>1. CASE t = s
    BY <2>1, <1>1, <1>2
  <2>2. CASE t = InStage("3/3", s)
    BY <2>2, <1>1, <1>2, InStageKeeps
  <2> QED BY <1>1, <2>1, <2>2
<1>4. Free(i, M) /\ Free(z, M)
  <2>1. M \cap Installing(x) = {} /\ M \cap U = {}
    BY DEF Mounting, Unmounting, Installing, Of
  <2> QED BY <2>1, InstallFacts, ClosingFacts, TypeFree
<1>5. /\ x.oem /\ ~x.incremental => Has(i, U)
      /\ x.oem /\ x.incremental => Has(z, U)
      /\ ~x.oem => Free(o, M)
  BY InstallFacts, ClosingFacts, OpeningFacts
<1>6. o \in Seq(X) /\ t \in Seq(X) /\ z \in Seq(X)
  BY PieceTypes, BodyTypes
<1>7. Program(x, b) = ot \o z
  BY DEF Program
<1> HIDE DEF X, i, o, z, t, U, M
<1>8. After(t, U, M) /\ After(z, U, M)
  BY <1>3, <1>4, FreeBefore
<1>9. Has(t, U) \/ Has(z, U) \/ After(o, U, M)
  BY <1>3, <1>5, FreeBefore
<1>10. ot \in Seq(X)
  BY <1>6, ConcatFacts
<1>11. Has(z, U) \/ After(ot, U, M)
  BY <1>6, <1>8, <1>9, ConcatAfter
<1> HIDE DEF ot
<1>12. After(ot \o z, U, M)
  BY <1>6, <1>8, <1>10, <1>11, ConcatAfter
<1> QED BY <1>7, <1>12 DEF U, M

(* A bounded non-empty set of numbers has a maximum. *)
LEMMA MaxOfNats ==
  ASSUME NEW S, S \subseteq Nat, S # {}, NEW n \in Nat, \A y \in S : y <= n
  PROVE  Max(S) \in S /\ \A y \in S : Max(S) >= y
<1> DEFINE T == {n - y : y \in S}
<1>1. T \subseteq Nat /\ T # {}
  <2>1. ASSUME NEW y \in S PROVE n - y \in Nat
    <3>1. y \in Nat /\ y <= n
      OBVIOUS
    <3> QED BY <3>1
  <2>2. PICK y \in S : TRUE
    OBVIOUS
  <2>3. n - y \in T
    OBVIOUS
  <2> QED BY <2>1, <2>3
<1>2. PICK m \in T : \A k \in T : m <= k
  BY <1>1, Smallest
<1>3. PICK y \in S : m = n - y
  OBVIOUS
<1>4. \A z \in S : y >= z
  <2> SUFFICES ASSUME NEW z \in S PROVE y >= z
    OBVIOUS
  <2>1. n - y <= n - z
    BY <1>2, <1>3
  <2>2. y \in Nat /\ z \in Nat
    OBVIOUS
  <2> QED BY <2>1, <2>2
<1> QED BY <1>4 DEF Max

(* Finitely many numbers have a bound. *)
LEMMA Bounded ==
  ASSUME NEW n \in Nat, NEW f \in [1..n -> Nat]
  PROVE  \E N \in Nat : \A k \in 1..n : f[k] <= N
<1> DEFINE S == {m \in 0..n : \E N \in Nat : \A k \in 1..m : f[k] <= N}
<1>1. 0 \in S
  OBVIOUS
<1>2. ASSUME NEW m \in 0..(n - 1), m \in S PROVE m + 1 \in S
  <2>1. PICK N \in Nat : \A k \in 1..m : f[k] <= N
    BY <1>2
  <2>2. m + 1 \in 1..n /\ m + 1 \in 0..n /\ f[m + 1] \in Nat
    OBVIOUS
  <2> DEFINE M == N + f[m + 1]
  <2>3. M \in Nat /\ N <= M /\ f[m + 1] <= M
    BY <2>2
  <2>4. \A k \in 1..(m + 1) : f[k] <= M
    <3> SUFFICES ASSUME NEW k \in 1..(m + 1) PROVE f[k] <= M
      OBVIOUS
    <3>1. CASE k = m + 1
      BY <3>1, <2>3
    <3>2. CASE k # m + 1
      <4>1. k \in 1..m /\ k \in 1..n
        BY <3>2
      <4>2. f[k] <= N /\ f[k] \in Nat
        BY <4>1, <2>1
      <4> HIDE DEF M
      <4> QED BY <4>2, <2>3
    <3> QED BY <3>1, <3>2
  <2> HIDE DEF M
  <2> QED BY <2>2, <2>3, <2>4
<1>3. \A m \in 0..n : m \in S
  <2> HIDE DEF S
  <2> QED BY <1>1, <1>2, UpTo
<1>4. n \in 0..n
  OBVIOUS
<1> QED BY <1>3, <1>4

(* The free space that Verify asks for is enough for every part. *)
LEMMA CacheFacts ==
  ASSUME NEW x, IsPackage(x)
  PROVE  /\ \A p \in Diffs(x) : RequiredCache(x) \in Nat /\ RequiredCache(x) >= x.stash[p]
         /\ UpdatingBoot(x) /\ x.bootPatch => RequiredCache(x) \in Nat /\ RequiredCache(x) >= x.bootSize
         /\ Diffs(x) # {} => \/ \E p \in Diffs(x) : RequiredCache(x) = x.stash[p]
                             \/ UpdatingBoot(x) /\ x.bootPatch /\ RequiredCache(x) = x.bootSize
<1> DEFINE d == GetBlockDifferences(x)
           R == IF UpdatingBoot(x) /\ ComputePatch(x) THEN {x.bootSize} ELSE {}
           S == {x.stash[p] : p \in Diffs(x)} \union R
           f == [k \in 1..Len(d) |-> x.stash[d[k]]]
<1>1. RequiredCache(x) = Max(S)
  BY DEF RequiredCache, Diffs
<1>2. x.stash \in [ToSet(PartitionNames) -> Nat] /\ x.bootSize \in Nat
  BY DEF IsPackage
<1>3. d \in Seq(Diffs(x)) /\ Len(d) \in Nat /\ Diffs(x) \subseteq ToSet(PartitionNames)
      /\ \A p \in Diffs(x) : \E k \in 1..Len(d) : d[k] = p
  BY BlockDifferences
<1> HIDE DEF d
<1>4. f \in [1..Len(d) -> Nat]
  <2>1. \A k \in 1..Len(d) : d[k] \in ToSet(PartitionNames)
    BY <1>3
  <2> QED BY <2>1, <1>2
<1>5. PICK N \in Nat : \A k \in 1..Len(d) : f[k] <= N
  BY <1>3, <1>4, Bounded
<1>6. \A p \in Diffs(x) : x.stash[p] \in Nat /\ x.stash[p] <= N
  BY <1>2, <1>3, <1>5
<1>7. R \subseteq Nat /\ \A y \in R : y = x.bootSize
  BY <1>2
<1>8. S \subseteq Nat /\ \A y \in S : y <= N + x.bootSize
  <2> SUFFICES ASSUME NEW y \in S PROVE y \in Nat /\ y <= N + x.bootSize
    OBVIOUS
  <2>1. CASE y \in R
    BY <2>1, <1>2, <1>7
  <2>2. CASE y \notin R
    <3>1. PICK p \in Diffs(x) : y = x.stash[p]
      BY <2>2
    <3> QED BY <3>1, <1>2, <1>6
  <2> QED BY <2>1, <2>2
<1>9. S # {} => Max(S) \in Nat /\ Max(S) \in S /\ \A y \in S : Max(S) >= y
  <2>1. N + x.bootSize \in Nat
    BY <1>2
  <2> HIDE DEF S
  <2> QED BY <1>8, <2>1, MaxOfNats
<1>10. \A p \in Diffs(x) : x.stash[p] \in S
  OBVIOUS
<1>11. UpdatingBoot(x) /\ x.bootPatch => x.bootSize \in S
  BY DEF ComputePatch
<1>12. \A y \in S : \/ \E p \in Diffs(x) : y = x.stash[p]
                    \/ UpdatingBoot(x) /\ x.bootPatch /\ y = x.bootSize
  BY DEF ComputePatch
<1> HIDE DEF S
<1> QED BY <1>1, <1>9, <1>10, <1>11, <1>12

(* A command that comes among the checks comes before anything is written. *)
LEMMA ChecksFirst ==
  ASSUME NEW x, IsPackage(x), NEW A, Blind(x, A), Has(Opening(x), A) \/ Has(Checked(x), A)
  PROVE  Has(Program(x, "1/3"), A) /\ Before(Program(x, "1/3"), A, Of(x, Writings))
<1> DEFINE X == Shaped(x)
           W == Of(x, Writings)
           o == Opening(x)
           ch == Checked(x)
           i == Install(x)
           rb == WriteRecoveryImageToBoot
           g == GoTo("2/3", "")
           t == Body(x, "1/3")
           z == Closing(x)
           ot == o \o t
<1>1. /\ o \in Seq(X) /\ ch \in Seq(X) /\ i \in Seq(X) /\ rb \in Seq(X) /\ g \in Seq(X) /\ z \in Seq(X)
      /\ t \in Seq(X)
  BY PieceTypes, BodyTypes DEF Branches
<1>2. Free(o, W) /\ Free(ch, W)
  <2>1. W \cap Of(x, Openings) = {} /\ W \cap Of(x, Checkings) = {}
    BY DEF Of, Openings, Checkings, Writings
  <2> QED BY <2>1, OpeningFacts, CheckedFacts, TypeFree
<1>3. Blind(x, W) /\ X \subseteq Cmds(x) /\ "1/3" \in Stages
  BY BlindSets DEF Stages, Shaped
<1>4. t = IF x.two_step THEN InStage("1/3", (ch \o rb) \o g) ELSE ch \o i
  BY DEF Body, ToStageTwo
<1>5. Program(x, "1/3") = ot \o z
  BY DEF Program
<1> HIDE DEF X, W, o, ch, i, rb, g, t, z
<1>6. ot \in Seq(X)
  BY <1>1, ConcatFacts
<1>7. Has(ch, A) => Has(t, A) /\ Before(t, A, W)
  <2> SUFFICES ASSUME Has(ch, A) PROVE Has(t, A) /\ Before(t, A, W)
    OBVIOUS
  <2>1. Before(ch, A, W)
    BY <1>2, FreeBefore
  <2>2. CASE ~x.two_step
    BY <2>1, <2>2, <1>1, <1>4, ConcatHas, ConcatBefore
  <2>3. CASE x.two_step
    <3> DEFINE q == ch \o rb
               s == q \o g
    <3>1. q \in Seq(X) /\ Has(q, A) /\ Before(q, A, W)
      BY <2>1, <1>1, ConcatFacts, ConcatHas, ConcatBefore
    <3> HIDE DEF q
    <3>2. s \in Seq(X) /\ Has(s, A) /\ Before(s, A, W)
      BY <3>1, <1>1, ConcatFacts, ConcatHas, ConcatBefore
    <3>3. t = InStage("1/3", s)
      BY <2>3, <1>4 DEF q
    <3> HIDE DEF s
    <3>4. s \in Seq(Cmds(x))
      BY <3>2, <1>3, SeqSubset
    <3> QED BY <3>2, <3>3, <3>4, <1>3, InStageKeeps
  <2> QED BY <2>2, <2>3
<1>8. Has(ot, A) /\ Before(ot, A, W)
  <2>1. Before(o, A, W)
    BY <1>2, FreeBefore
  <2>2. Has(o, A) \/ (Has(t, A) /\ Before(t, A, W))
    BY <1>7 DEF o, ch
  <2> QED BY <2>1, <2>2, <1>1, ConcatHas, ConcatBefore
<1> HIDE DEF ot
<1>9. Has(ot \o z, A) /\ Before(ot \o z, A, W)
  BY <1>1, <1>6, <1>8, ConcatHas, ConcatBefore
<1> QED BY <1>5, <1>9 DEF W

(* A device that the package is not for. *)
Unfit(x) == \/ x.build # "src"
            \/ /\ x.incremental
               /\ \/ \E p \in Diffs(x) : x.stash[p] > x.free
                  \/ UpdatingBoot(x) /\ x.bootPatch /\ x.bootSize > x.free

(* A script for the first branch has a command that stops an unfit device,  *)
(* before any that writes.                                                  *)
LEMMA StopsFirst ==
  ASSUME NEW x, IsPackage(x), Unfit(x)
  PROVE  Has(Program(x, "1/3"), Stops(x)) /\ Before(Program(x, "1/3"), Stops(x), Of(x, Writings))
<1>1. Has(Opening(x), Stops(x)) \/ Has(Checked(x), Stops(x))
  <2>1. /\ Has(Opening(x), Of(x, {"assert_device"}))
        /\ ~x.incremental => Has(Opening(x), Of(x, {"assert_older"}))
        /\ x.incremental => Has(Checked(x), Of(x, {"assert_build"}))
        /\ x.incremental => Has(Checked(x), Of(x, {"apply_patch_space"}))
    BY OpeningFacts, CheckedFacts
  <2>2. ASSUME NEW s, NEW S, NEW T, S \subseteq T, Has(s, S) PROVE Has(s, T)
    BY <2>2 DEF Has
  <2>3. x.build \in {"src", "other", "device"}
    BY DEF IsPackage
  <2>4. CASE x.build = "device"
    <3>1. Of(x, {"assert_device"}) \subseteq Stops(x)
      BY <2>4 DEF Of, Stops
    <3> QED BY <3>1, <2>1, <2>2
  <2>5. CASE x.build = "other"
    <3>1. Of(x, {"assert_older"}) \subseteq Stops(x) /\ Of(x, {"assert_build"}) \subseteq Stops(x)
      BY <2>5 DEF Of, Stops
    <3> QED BY <3>1, <2>1, <2>2
  <2>6. CASE x.build = "src"
    <3>1. x.incremental /\ ((\E p \in Diffs(x) : x.stash[p] > x.free) \/ (UpdatingBoot(x) /\ x.bootPatch /\ x.bootSize > x.free))
      BY <2>6 DEF Unfit
    <3>2. x.free \in Nat /\ x.stash \in [ToSet(PartitionNames) -> Nat] /\ x.bootSize \in Nat
      BY DEF IsPackage
    <3>3. ~(RequiredCache(x) <= x.free)
      <4>1. CASE \E p \in Diffs(x) : x.stash[p] > x.free
        <5>1. PICK p \in Diffs(x) : x.stash[p] > x.free
          BY <4>1
        <5>2. x.stash[p] \in Nat /\ RequiredCache(x) \in Nat /\ RequiredCache(x) >= x.stash[p]
          BY <3>2, CacheFacts, BlockDifferences
        <5> QED BY <5>1, <5>2, <3>2
      <4>2. CASE UpdatingBoot(x) /\ x.bootPatch /\ x.bootSize > x.free
        <5>1. RequiredCache(x) \in Nat /\ RequiredCache(x) >= x.bootSize
          BY <4>2, CacheFacts
        <5> QED BY <4>2, <5>1, <3>2
      <4> QED BY <3>1, <4>1, <4>2
    <3>4. Of(x, {"apply_patch_space"}) \subseteq Stops(x)
      BY <3>3 DEF Of, Stops, Shaped
    <3> QED BY <3>1, <3>4, <2>1, <2>2
  <2> QED BY <2>3, <2>4, <2>5, <2>6
<1> QED BY <1>1, MoreBlindSets, ChecksFirst

(* It verifies every touched partition before it writes. *)
LEMMA VerifiesFirst ==
  ASSUME NEW x, IsPackage(x), x.incremental, NEW p \in x.touched
  PROVE  /\ p \in Diffs(x)
         /\ Has(Program(x, "1/3"), Verifying(x, p))
         /\ Before(Program(x, "1/3"), Verifying(x, p), Of(x, Writings))
<1>1. p \in Diffs(x) /\ Verifies(x, p)
  BY DEF IsPackage, Verifies, HasSource, Diffs
<1>2. Has(Checked(x), Verifying(x, p))
  BY <1>1, CheckedFacts
<1> QED BY <1>1, <1>2, MoreBlindSets, ChecksFirst

TypeInv ==
  /\ c \in Packages
  /\ status \in {"make", "raised", "off", "run", "abort", "done", "booted"}
  /\ img \in [ToSet(PartitionNames) -> {"src", "tgt", "mix", "bad"}]
  /\ boot \in {"src", "tgt", "mix", "rec"} /\ rec \in {"src", "tgt", "mix"}
  /\ stage \in {"", "2/3", "3/3"} /\ bcb \in {"boot", "recovery"}
  /\ losses \in Nat /\ wiped \in BOOLEAN
  /\ mounted \subseteq {"oem"}
  /\ prog \in Seq(Shaped(c))
  /\ status \in {"make", "raised"} => stage = "" /\ bcb = "recovery" /\ losses = 0
  /\ status \notin {"make", "raised"} => script = GenerateNonAbOtaPackage(c)
  /\ status = "run" => running = bcb

(* A command that runs to its end, by what it is.                          *)
Ran ==
  /\ status = "run" /\ status' = "run" /\ prog # <<>> /\ prog' = Tail(prog)
  /\ UNCHANGED <<c, script, running, losses, bcb>>
  /\ Head(prog) \notin Rebooting(c)
  /\ Head(prog) \in RecoveryToBoot(c) => boot' = "rec"
  /\ Head(prog) \in BootTarget(c) => boot' = "tgt"
  /\ Head(prog) \notin RecoveryToBoot(c) \union BootTarget(c) => boot' = boot
  /\ rec' = IF Head(prog) \in RecoveryWrite(c) THEN "tgt" ELSE rec
  /\ stage' = IF Head(prog) \in Staging(c) THEN Head(prog).with ELSE stage
  /\ wiped' = IF Head(prog) \in Formatting(c) THEN TRUE ELSE wiped
  /\ mounted' \subseteq mounted \union {"oem"}
  /\ Head(prog) \in Unmounting(c) => mounted' = mounted \ {"oem"}
  /\ Head(prog) \notin Mounting(c) \union Unmounting(c) => mounted' = mounted
  /\ img' \in [ToSet(PartitionNames) -> {"src", "tgt", "mix", "bad"}]
  /\ \A p \in ToSet(PartitionNames) :
       \/ img'[p] = img[p] /\ Head(prog) \notin Upd(c, p) /\ (Head(prog) \in Verifying(c, p) => img[p] # "bad")
       \/ img'[p] = "tgt" /\ Head(prog) \in Upd(c, p)
       \/ img'[p] = "src" /\ img[p] = "bad" /\ Head(prog) \in Verifying(c, p)
  /\ IF Head(prog) \in Dyn(c)
     THEN resized' /\ ((resized /\ meta' = meta) \/ (~resized /\ meta' \in Apply(meta, Head(prog).with)))
     ELSE resized' = resized /\ meta' = meta
  /\ Head(prog) \in Stops(c) => RunsTarget

(* A command that aborts the update. *)
Aborted ==
  /\ status = "run" /\ status' = "abort" /\ prog # <<>> /\ prog' = Tail(prog)
  /\ UNCHANGED <<c, script, running, losses, meta, img, boot, rec, stage, bcb, wiped, mounted>>
  /\ resized' <=> resized

Rebooted ==
  /\ status = "run" /\ status' = "off" /\ prog # <<>> /\ prog' = <<>> /\ Head(prog) \in Rebooting(c)
  /\ bcb' = IF Head(prog).with = "recovery" THEN "recovery" ELSE "boot"
  /\ UNCHANGED <<c, script, running, losses, meta, img, boot, rec, stage, resized, wiped, mounted>>

(* The kinds of commands, by their names. *)
LEMMA Kinds ==
  ASSUME NEW x, NEW h \in Shaped(x)
  PROVE  /\ h.op # "package_extract_file" /\ h.op # "patch_partition" =>
              h \notin RecoveryToBoot(x) /\ h \notin BootTarget(x) /\ h \notin RecoveryWrite(x)
         /\ h \in Rebooting(x) <=> h.op = "reboot_now"
         /\ h \in Staging(x) <=> h.op = "set_stage"
         /\ h \in Formatting(x) <=> h.op = "format"
         /\ h \in Mounting(x) <=> h.op = "mount"
         /\ h \in Unmounting(x) <=> h.op = "unmount"
         /\ h \in Dyn(x) <=> h.op = "update_dynamic_partitions"
         /\ \A p : h \in Upd(x, p) <=> h.op = "block_image_update" /\ h.on = p
         /\ \A p : h \in Verifying(x, p) <=> h.op = "verify" /\ h.on = p
         /\ h \in Stops(x) => h.op \in {"assert_older", "assert_build", "assert_device", "apply_patch_space"}
<1>1. h \in Cmds(x)
  BY DEF Shaped
<1>2. h.op # "package_extract_file" /\ h.op # "patch_partition" =>
              h \notin RecoveryToBoot(x) /\ h \notin BootTarget(x) /\ h \notin RecoveryWrite(x)
  BY DEF RecoveryToBoot, BootTarget, RecoveryWrite, Of
<1>3. /\ h \in Rebooting(x) <=> h.op = "reboot_now"
      /\ h \in Staging(x) <=> h.op = "set_stage"
      /\ h \in Formatting(x) <=> h.op = "format"
      /\ h \in Mounting(x) <=> h.op = "mount"
      /\ h \in Unmounting(x) <=> h.op = "unmount"
  BY DEF Rebooting, Staging, Formatting, Mounting, Unmounting, Of
<1>4. /\ h \in Dyn(x) <=> h.op = "update_dynamic_partitions"
      /\ \A p : h \in Upd(x, p) <=> h.op = "block_image_update" /\ h.on = p
      /\ \A p : h \in Verifying(x, p) <=> h.op = "verify" /\ h.on = p
  BY <1>1 DEF Dyn, Upd, Verifying, Of
<1>5. h \in Stops(x) => h.op \in {"assert_older", "assert_build", "assert_device", "apply_patch_space"}
  BY DEF Stops
<1> QED BY <1>2, <1>3, <1>4, <1>5

(* Every command aborts, reboots, or runs to its end. *)
LEMMA CommandStep ==
  ASSUME TypeInv, RunCommand
  PROVE  Ran \/ Aborted \/ Rebooted
<1> DEFINE h == Head(prog)
           N == ToSet(PartitionNames)
           Imgs == {"src", "tgt", "mix", "bad"}
<1>1. status = "run" /\ prog # <<>>
  BY DEF RunCommand, RunAssert, RunMount, RunVerify, RunPatchCheck, RunUpdate, RunUpdateDynamic, RunWrite, RunSetStage,
         RunReboot, Do
<1>2. h \in Shaped(c) /\ IsPackage(c) /\ prog \in Seq(Shaped(c)) /\ img \in [N -> Imgs] /\ mounted \subseteq {"oem"}
  <2>1. prog \in Seq(Shaped(c)) /\ c \in Packages /\ img \in [N -> Imgs] /\ mounted \subseteq {"oem"}
    BY DEF TypeInv
  <2> QED BY <1>1, <2>1, TailFacts, PackagesAssumption
<1>3. /\ h.op # "package_extract_file" /\ h.op # "patch_partition" =>
              h \notin RecoveryToBoot(c) /\ h \notin BootTarget(c) /\ h \notin RecoveryWrite(c)
      /\ h \in Rebooting(c) <=> h.op = "reboot_now"
      /\ h \in Staging(c) <=> h.op = "set_stage"
      /\ h \in Formatting(c) <=> h.op = "format"
      /\ h \in Mounting(c) <=> h.op = "mount"
      /\ h \in Unmounting(c) <=> h.op = "unmount"
      /\ h \in Dyn(c) <=> h.op = "update_dynamic_partitions"
      /\ \A p : h \in Upd(c, p) <=> h.op = "block_image_update" /\ h.on = p
      /\ \A p : h \in Verifying(c, p) <=> h.op = "verify" /\ h.on = p
      /\ h \in Stops(c) => h.op \in {"assert_older", "assert_build", "assert_device", "apply_patch_space"}
  BY <1>2, Kinds
<1>4. on = h.on /\ with = h.with
  BY DEF on, with
<1>5. h.op \in {"block_image_update", "verify", "post_verify"} => h.on \in N
  BY <1>2, BlockDifferences DEF Shaped
<1> HIDE DEF h
<1>6. CASE RunAssert
  <2>1. UNCHANGED <<device, mounted>>
    BY <1>6 DEF RunAssert
  <2>2. UNCHANGED <<meta, img, boot, rec, stage, bcb, resized, wiped, mounted>>
    BY <2>1 DEF device
  <2>3. ASSUME NEW op, NEW ok, Do(op, ok), op \in {"assert_older", "assert_build", "assert_device", "apply_patch_space"},
               ok => (h \in Stops(c) => RunsTarget)
        PROVE  Ran \/ Aborted
    <3>1. h.op = op /\ prog' = Tail(prog) /\ UNCHANGED <<c, script, running, losses>>
          /\ status' = IF ok THEN "run" ELSE "abort"
      BY <2>3 DEF Do, h
    <3>2. CASE ~ok
      BY <3>1, <3>2, <2>2, <1>1 DEF Aborted
    <3>3. CASE ok
      <4>1. \A p \in N : img'[p] = img[p] /\ h \notin Upd(c, p) /\ h \notin Verifying(c, p)
        BY <3>1, <2>2, <2>3, <1>3
      <4> QED BY <4>1, <3>1, <3>3, <2>2, <2>3, <1>1, <1>2, <1>3 DEF Ran, h
    <3> QED BY <3>2, <3>3
  <2>4. CASE Do("assert_older", RunsTarget \/ c.build # "other")
    <3>1. h.op = "assert_older"
      BY <2>4 DEF Do, h
    <3>2. (RunsTarget \/ c.build # "other") => (h \in Stops(c) => RunsTarget)
      BY <3>1 DEF Stops
    <3> QED BY <2>3, <2>4, <3>2
  <2>5. CASE Do("assert_build", RunsTarget \/ c.build # "other")
    <3>1. h.op = "assert_build"
      BY <2>5 DEF Do, h
    <3>2. (RunsTarget \/ c.build # "other") => (h \in Stops(c) => RunsTarget)
      BY <3>1 DEF Stops
    <3> QED BY <2>3, <2>5, <3>2
  <2>6. CASE Do("assert_device", c.build # "device")
    <3>1. h.op = "assert_device"
      BY <2>6 DEF Do, h
    <3>2. c.build # "device" => (h \in Stops(c) => RunsTarget)
      BY <3>1 DEF Stops
    <3> QED BY <2>3, <2>6, <3>2
  <2>7. CASE Do("apply_patch_space", with <= c.free)
    <3>1. h.op = "apply_patch_space"
      BY <2>7 DEF Do, h
    <3>2. with <= c.free => (h \in Stops(c) => RunsTarget)
      BY <3>1, <1>4 DEF Stops
    <3> QED BY <2>3, <2>7, <3>2
  <2> QED BY <1>6, <2>4, <2>5, <2>6, <2>7 DEF RunAssert
<1>7. CASE RunMount
  <2>1. /\ prog' = Tail(prog) /\ UNCHANGED <<c, script, running, losses>> /\ status' = "run"
        /\ UNCHANGED <<meta, img, boot, rec, stage, bcb, resized, wiped>>
    BY <1>7 DEF RunMount, Do, device
  <2>2. \/ h.op = "mount" /\ mounted' = mounted \union {h.on}
        \/ h.op = "unmount" /\ mounted' = mounted \ {h.on}
        \/ h.op = "unmap_partition" /\ mounted' = mounted
    BY <1>7, <1>4 DEF RunMount, Do, h
  <2>3. h.op \in {"mount", "unmount"} => h.on = "oem"
    BY <1>2 DEF Shaped
  <2>4. \A p \in N : img'[p] = img[p] /\ h \notin Upd(c, p) /\ h \notin Verifying(c, p)
    BY <2>1, <2>2, <1>3
  <2> QED BY <2>1, <2>2, <2>3, <2>4, <1>1, <1>2, <1>3 DEF Ran, h
<1>8. CASE RunVerify
  <2>1. /\ prog' = Tail(prog) /\ UNCHANGED <<c, script, running, losses>> /\ h.op = "verify"
        /\ UNCHANGED <<meta, boot, rec, stage, bcb, resized, wiped, mounted>>
    BY <1>8 DEF RunVerify, Do, h
  <2>2. \/ img' = img /\ status' = IF img[h.on] # "bad" THEN "run" ELSE "abort"
        \/ img[h.on] = "bad" /\ img' = [img EXCEPT ![h.on] = "src"] /\ status' = "run"
    BY <1>8, <1>4 DEF RunVerify, Do
  <2>3. h.on \in N
    BY <2>1, <1>5
  <2>4. CASE status' = "abort"
    BY <2>1, <2>2, <2>4, <1>1 DEF Aborted
  <2>5. CASE status' # "abort"
    <3>1. status' = "run"
      BY <2>2, <2>5
    <3>2. \A p \in N : \/ img'[p] = img[p] /\ h \notin Upd(c, p) /\ (h \in Verifying(c, p) => img[p] # "bad")
                       \/ img'[p] = "src" /\ img[p] = "bad" /\ h \in Verifying(c, p)
      BY <2>1, <2>2, <2>3, <2>5, <1>2, <1>3
    <3>3. img' \in [N -> Imgs]
      BY <2>2, <1>2
    <3> QED BY <2>1, <3>1, <3>2, <3>3, <1>1, <1>2, <1>3 DEF Ran, h
  <2> QED BY <2>4, <2>5
<1>9. CASE RunPatchCheck
  <2>1. /\ prog' = Tail(prog) /\ UNCHANGED <<c, script, running, losses>> /\ h.op = "patch_partition_check"
        /\ UNCHANGED <<meta, img, boot, rec, stage, bcb, resized, wiped, mounted>>
        /\ status' \in {"run", "abort"}
    BY <1>9 DEF RunPatchCheck, Do, h, device
  <2>2. CASE status' = "abort"
    BY <2>1, <2>2, <1>1 DEF Aborted
  <2>3. CASE status' = "run"
    <3>1. \A p \in N : img'[p] = img[p] /\ h \notin Upd(c, p) /\ h \notin Verifying(c, p)
      BY <2>1, <1>3
    <3> QED BY <2>1, <2>3, <3>1, <1>1, <1>2, <1>3 DEF Ran, h
  <2> QED BY <2>1, <2>2, <2>3
<1>10. CASE RunUpdate
  <2>1. /\ prog' = Tail(prog) /\ UNCHANGED <<c, script, running, losses>>
        /\ UNCHANGED <<meta, boot, rec, stage, bcb, resized, wiped, mounted>>
        /\ status' \in {"run", "abort"}
    BY <1>10 DEF RunUpdate, Do
  <2>2. \/ h.op = "block_image_update" /\ img' = IF status' = "run" THEN [img EXCEPT ![h.on] = "tgt"] ELSE img
        \/ h.op = "post_verify" /\ img' = img
    BY <1>10, <1>4 DEF RunUpdate, Do, h
  <2>3. h.on \in N
    BY <2>2, <1>5
  <2>4. CASE status' = "abort"
    BY <2>1, <2>2, <2>4, <1>1 DEF Aborted
  <2>5. CASE status' = "run"
    <3>2. \A p \in N : \/ img'[p] = img[p] /\ h \notin Upd(c, p) /\ h \notin Verifying(c, p)
                       \/ img'[p] = "tgt" /\ h \in Upd(c, p)
      BY <2>2, <2>3, <2>5, <1>2, <1>3
    <3>3. img' \in [N -> Imgs]
      BY <2>2, <1>2
    <3> QED BY <2>1, <2>2, <2>5, <3>2, <3>3, <1>1, <1>2, <1>3 DEF Ran, h
  <2> QED BY <2>1, <2>4, <2>5
<1>11. CASE RunUpdateDynamic
  <2>1. /\ prog' = Tail(prog) /\ UNCHANGED <<c, script, running, losses>> /\ h.op = "update_dynamic_partitions"
        /\ UNCHANGED <<img, boot, rec, stage, bcb, wiped, mounted>>
    BY <1>11 DEF RunUpdateDynamic, Do, h
  <2>2. \/ resized /\ status' = "run" /\ meta' = meta /\ resized' = resized
        \/ \E m \in Apply(meta, h.with) :
             /\ ~resized /\ status' = IF m.ok THEN "run" ELSE "abort"
             /\ meta' = (IF m.ok THEN m ELSE meta) /\ resized' = m.ok
    BY <1>11, <1>4 DEF RunUpdateDynamic, Do
  <2>3. \A p \in N : img'[p] = img[p] /\ h \notin Upd(c, p) /\ h \notin Verifying(c, p)
    BY <2>1, <1>3
  <2>4. CASE resized /\ status' = "run" /\ meta' = meta /\ resized' = resized
    <3>1. resized' /\ resized /\ meta' = meta /\ status' = "run"
      BY <2>4, Zenon
    <3>2. resized' /\ ((resized /\ meta' = meta) \/ (~resized /\ meta' \in Apply(meta, Head(prog).with)))
      BY <3>1
    <3> QED BY <2>1, <2>3, <3>1, <3>2, <1>1, <1>2, <1>3 DEF Ran, h
  <2>5. ASSUME NEW m \in Apply(meta, h.with), ~resized, status' = IF m.ok THEN "run" ELSE "abort",
               meta' = (IF m.ok THEN m ELSE meta), resized' = m.ok
        PROVE  Ran \/ Aborted
    <3>1. CASE m.ok
      <4>1. status' = "run" /\ meta' \in Apply(meta, h.with) /\ resized'
        BY <2>5, <3>1
      <4> QED BY <2>1, <2>3, <2>5, <4>1, <1>1, <1>2, <1>3 DEF Ran, h
    <3>2. CASE ~m.ok
      <4>1. status' = "abort" /\ meta' = meta /\ ~resized'
        BY <2>5, <3>2
      <4>2. resized' <=> resized
        BY <2>5, <4>1
      <4> QED BY <2>1, <4>1, <4>2, <1>1 DEF Aborted
    <3> QED BY <3>1, <3>2
  <2> QED BY <2>2, <2>4, <2>5
<1>12. CASE RunWrite
  <2>1. /\ prog' = Tail(prog) /\ UNCHANGED <<c, script, running, losses>> /\ status' = "run"
        /\ UNCHANGED <<meta, img, stage, bcb, resized, mounted>>
    BY <1>12 DEF RunWrite, Do
  <2>2. \/ h.op = "package_extract_file" /\ h.on = "boot" /\ boot' = Image(h.with) /\ UNCHANGED <<rec, wiped>>
        \/ h.op = "package_extract_file" /\ h.on = "recovery" /\ rec' = "tgt" /\ UNCHANGED <<boot, wiped>>
        \/ h.op = "patch_partition" /\ boot' = "tgt" /\ UNCHANGED <<rec, wiped>>
        \/ h.op = "format" /\ wiped' = TRUE /\ UNCHANGED <<boot, rec>>
    BY <1>12, <1>4 DEF RunWrite, Do, h
  <2>3. \A p \in N : img'[p] = img[p] /\ h \notin Upd(c, p) /\ h \notin Verifying(c, p)
    BY <2>1, <2>2, <1>3
  <2>4. CASE h.op = "package_extract_file" /\ h.on = "boot" /\ boot' = Image(h.with) /\ UNCHANGED <<rec, wiped>>
    <3>1. h.with \in {"boot.img", "recovery.img"}
      BY <2>4, <1>2 DEF Shaped
    <3>2. h \notin RecoveryWrite(c)
      BY <2>4 DEF RecoveryWrite
    <3>3. h \in RecoveryToBoot(c) => h.with = "recovery.img"
      BY DEF RecoveryToBoot
    <3>4. h \in BootTarget(c) => h.with = "boot.img"
      BY <2>4 DEF BootTarget
    <3>5. h \in RecoveryToBoot(c) \union BootTarget(c)
      BY <2>4, <3>1, <1>2 DEF BootTarget, RecoveryToBoot, Of
    <3>6. (h \in RecoveryToBoot(c) => boot' = "rec") /\ (h \in BootTarget(c) => boot' = "tgt")
      BY <2>4, <3>3, <3>4 DEF Image
    <3> QED BY <2>1, <2>3, <2>4, <3>2, <3>5, <3>6, <1>1, <1>2, <1>3 DEF Ran, h
  <2>5. CASE h.op = "package_extract_file" /\ h.on = "recovery" /\ rec' = "tgt" /\ UNCHANGED <<boot, wiped>>
    <3>1. h \in RecoveryWrite(c) /\ h \notin RecoveryToBoot(c) \union BootTarget(c)
      BY <2>5, <1>2 DEF RecoveryWrite, RecoveryToBoot, BootTarget, Of
    <3> QED BY <2>1, <2>3, <2>5, <3>1, <1>1, <1>2, <1>3 DEF Ran, h
  <2>6. CASE h.op = "patch_partition" /\ boot' = "tgt" /\ UNCHANGED <<rec, wiped>>
    <3>1. h \in BootTarget(c) /\ h \notin RecoveryWrite(c) /\ h \notin RecoveryToBoot(c)
      BY <2>6, <1>2 DEF RecoveryWrite, RecoveryToBoot, BootTarget, Of, Shaped
    <3> QED BY <2>1, <2>3, <2>6, <3>1, <1>1, <1>2, <1>3 DEF Ran, h
  <2>7. CASE h.op = "format" /\ wiped' = TRUE /\ UNCHANGED <<boot, rec>>
    BY <2>1, <2>3, <2>7, <1>1, <1>2, <1>3 DEF Ran, h
  <2> QED BY <2>2, <2>4, <2>5, <2>6, <2>7
<1>13. CASE RunSetStage
  <2>1. /\ prog' = Tail(prog) /\ UNCHANGED <<c, script, running, losses>> /\ status' = "run" /\ h.op = "set_stage"
        /\ stage' = h.with /\ UNCHANGED <<meta, img, boot, rec, bcb, resized, wiped, mounted>>
    BY <1>13, <1>4 DEF RunSetStage, Do, h
  <2>3. \A p \in N : img'[p] = img[p] /\ h \notin Upd(c, p) /\ h \notin Verifying(c, p)
    BY <2>1, <1>3
  <2> QED BY <2>1, <2>3, <1>1, <1>2, <1>3 DEF Ran, h
<1>14. CASE RunReboot
  <2>1. /\ status' = "off" /\ prog' = <<>> /\ h.op = "reboot_now"
        /\ bcb' = IF h.with = "recovery" THEN "recovery" ELSE "boot"
        /\ UNCHANGED <<c, script, meta, img, boot, rec, stage, running, resized, mounted, wiped, losses>>
    BY <1>14, <1>4 DEF RunReboot, h
  <2> QED BY <2>1, <1>1, <1>3 DEF Rebooted, h
<1> QED BY <1>6, <1>7, <1>8, <1>9, <1>10, <1>11, <1>12, <1>13, <1>14 DEF RunCommand

(* What the stage on /misc says of /boot and /recovery. *)
StageInv ==
  /\ stage = "2/3" => boot = "rec"
  /\ stage = "3/3" => rec = "tgt"
  /\ rec = "mix" => stage = "2/3"
  /\ ~c.two_step => stage = "" /\ bcb = "recovery"

(* The program that runs in stage 1/3, in stage 2/3, and to install. *)
AtOne ==
  /\ c.two_step
  /\ Has(prog, Rebooting(c))
  /\ \A B \in {BootTarget(c), RecoveryWrite(c), Patching(c), NotTo(c, "2/3"), RebootNotTo(c, "")} : Free(prog, B)
  /\ boot = "rec" \/ (/\ Before(prog, RecoveryToBoot(c), StageTo(c, "2/3"))
                      /\ Before(prog, RecoveryToBoot(c), Rebooting(c)))
  /\ stage = "2/3" \/ Before(prog, StageTo(c, "2/3"), Rebooting(c))
  /\ NoneAfter(prog, StageTo(c, "2/3"), RecoveryToBoot(c))
  /\ stage = "2/3" => Free(prog, RecoveryToBoot(c))
  /\ stage # "3/3"

AtTwo ==
  /\ c.two_step /\ stage # "" /\ boot = "rec"
  /\ Has(prog, Rebooting(c))
  /\ \A B \in {BootTarget(c), RecoveryToBoot(c), Patching(c), NotTo(c, "3/3"), RebootNotTo(c, "recovery")} : Free(prog, B)
  /\ rec = "tgt" \/ (/\ Before(prog, RecoveryWrite(c), StageTo(c, "3/3"))
                     /\ Before(prog, RecoveryWrite(c), Rebooting(c)))
  /\ stage = "3/3" \/ Before(prog, StageTo(c, "3/3"), Rebooting(c))
  /\ NoneAfter(prog, StageTo(c, "3/3"), RecoveryWrite(c))
  /\ stage = "3/3" => Free(prog, RecoveryWrite(c))

AtThree ==
  /\ c.two_step => stage # "2/3" /\ rec = "tgt" /\ Free(prog, NotTo(c, ""))
  /\ ~c.two_step => Free(prog, Staging(c))
  /\ stage = "" \/ Has(prog, StageTo(c, ""))
  /\ \A B \in {RecoveryToBoot(c), RecoveryWrite(c), Rebooting(c)} : Free(prog, B)
  /\ \A p \in Diffs(c) : c.u.tgtSize[p] > 0 => img[p] = "tgt" \/ Has(prog, Upd(c, p))
  /\ c.bootChanged => boot = "tgt" \/ Has(prog, BootTarget(c))
  /\ c.wipe => wiped \/ Has(prog, Formatting(c))
  /\ c.dynamic => resized \/ Has(prog, Dyn(c))
  /\ mounted = {} \/ Has(prog, Unmounting(c))
  /\ After(prog, Unmounting(c), Mounting(c))

RunInv == /\ status = "run" => AtOne \/ AtTwo \/ AtThree
          /\ ~c.wipe => ~wiped /\ (status = "run" => Free(prog, Formatting(c)))

(* A run without power loss so far cannot break what boots next.           *)
LossInv ==
  /\ status = "off" /\ losses = 0 => InStep
  /\ status = "off" /\ losses <= 1 => IF bcb = "boot" THEN boot = "rec" ELSE rec # "mix"
  /\ status = "run" /\ losses = 0 =>
       IF bcb = "boot" THEN boot = "rec" /\ Free(prog, RecoveryToBoot(c)) /\ Free(prog, BootTarget(c))
       ELSE rec # "mix" /\ Free(prog, RecoveryWrite(c))

(* A device that the package is not for meets a check that stops it before *)
(* anything is written; one that is damaged, the check of its blocks.      *)
UnfitInv ==
  /\ Refused \/ Damaged =>
       /\ boot = "src" /\ rec = "src" /\ ~wiped /\ ~resized /\ stage = "" /\ bcb = "recovery"
       /\ \A p \in ToSet(PartitionNames) : img[p] \in {"src", "bad"}
       /\ status \notin {"done", "booted"}
  /\ status = "run" /\ Refused => Before(prog, Stops(c), Of(c, Writings)) /\ Has(prog, Stops(c))
  /\ status = "run" /\ c.incremental =>
       \A p \in c.bad \cap c.touched : img[p] = "bad" =>
          Before(prog, Verifying(c, p), Of(c, Writings)) /\ Has(prog, Verifying(c, p))

DoneInv == InstalledTarget /\ (status = "done" /\ c.two_step => rec = "tgt")

IInv == TypeInv /\ StageInv /\ RunInv /\ LossInv /\ UnfitInv /\ DoneInv

(* A command that does not write is in none of the sets of commands that    *)
(* do.                                                                      *)
LEMMA WritingSets ==
  ASSUME NEW x, NEW h \in Shaped(x), h \notin Of(x, Writings)
  PROVE  /\ h \notin RecoveryToBoot(x) /\ h \notin BootTarget(x) /\ h \notin RecoveryWrite(x)
         /\ h \notin Rebooting(x) /\ h \notin Staging(x) /\ h \notin Formatting(x)
         /\ h \notin Dyn(x) /\ \A p : h \notin Upd(x, p)
<1>1. h.op \notin Writings
  BY DEF Of
<1>2. h.op \notin {"package_extract_file", "patch_partition", "format", "set_stage", "reboot_now",
             "block_image_update", "update_dynamic_partitions"}
  BY <1>1 DEF Writings
<1> QED BY <1>2, Kinds

(* The package at hand is well-formed. *)
LEMMA AllPackages == ASSUME TypeInv PROVE IsPackage(c) /\ Unfit(c) = Refused
<1>1. IsPackage(c)
  BY PackagesAssumption DEF TypeInv
<1>2. Unfit(c) = Refused
  BY DEF Unfit, Refused, Diffs
<1> QED BY <1>1, <1>2

(* The invariant holds at first. *)
LEMMA InitInv == Init => IInv
<1> SUFFICES ASSUME Init PROVE IInv
  OBVIOUS
<1>1. c \in Packages /\ IsPackage(c)
  BY PackagesAssumption DEF Init
<1>2. c.u.srcSize \in [ToSet(PartitionNames) -> Nat]
  BY <1>1 DEF IsPackage
<1>3. img = [p \in ToSet(PartitionNames) |-> IF p \in c.bad THEN "bad" ELSE "src"]
  BY <1>2 DEF Init
<1>4. /\ status = "make" /\ script = <<>> /\ prog = <<>>
      /\ boot = "src" /\ rec = "src" /\ stage = "" /\ bcb = "recovery" /\ running = "recovery"
      /\ resized = FALSE /\ mounted = {} /\ wiped = FALSE /\ losses = 0
  BY DEF Init
<1>5. TypeInv
  <2>1. prog \in Seq(Shaped(c))
    BY <1>4, EmptySequence
  <2>2. img \in [ToSet(PartitionNames) -> {"src", "tgt", "mix", "bad"}]
    BY <1>3
  <2> QED BY <1>1, <1>4, <2>1, <2>2 DEF TypeInv
<1>6. StageInv /\ RunInv /\ LossInv /\ DoneInv
  BY <1>4 DEF StageInv, RunInv, LossInv, DoneInv, InstalledTarget
<1>7. UnfitInv
  BY <1>3, <1>4 DEF UnfitInv
<1> QED BY <1>5, <1>6, <1>7 DEF IInv

(* Making the package keeps it. *)
LEMMA GenerateInv == ASSUME IInv, Generate PROVE IInv'
<1>1. /\ status = "make" /\ status' \in {"raised", "off"}
      /\ status' = "off" => script' = GenerateNonAbOtaPackage(c)
      /\ UNCHANGED <<c, meta, img, boot, rec, stage, bcb, resized, wiped, running, prog, mounted, losses>>
  BY DEF Generate, device
<1>2. stage = "" /\ bcb = "recovery" /\ losses = 0 /\ rec # "mix"
  BY <1>1 DEF IInv, TypeInv, StageInv
<1>3. TypeInv'
  BY <1>1 DEF IInv, TypeInv
<1>4. StageInv' /\ RunInv'
  BY <1>1 DEF IInv, StageInv, RunInv
<1>5. LossInv'
  BY <1>1, <1>2 DEF LossInv, InStep
<1>6. UnfitInv'
  BY <1>1 DEF IInv, UnfitInv, Refused, Damaged
<1>7. DoneInv'
  BY <1>1 DEF DoneInv, InstalledTarget
<1> QED BY <1>3, <1>4, <1>5, <1>6, <1>7 DEF IInv

(* Booting the recovery keeps it: the program it starts has its order from  *)
(* the script.                                                              *)
LEMMA BootInv == ASSUME IInv, BootRecovery PROVE IInv'
<1> DEFINE b == Branch(stage)
           P == Program(c, b)
<1>1. /\ status = "off" /\ status' = "run" /\ running' = bcb /\ mounted' = {}
      /\ prog' = InBranch(script, Branch(stage))
      /\ UNCHANGED <<c, script, meta, img, boot, rec, stage, bcb, resized, wiped, losses>>
  BY DEF BootRecovery, device, InBranch
<1>2. IsPackage(c) /\ Unfit(c) = Refused /\ script = GenerateNonAbOtaPackage(c) /\ stage \in {"", "2/3", "3/3"}
  BY <1>1, AllPackages DEF IInv, TypeInv
<1>3. b \in Branches /\ (stage = "" => b = "1/3") /\ (stage = "2/3" => b = "2/3") /\ (stage = "3/3" => b = "3/3")
  BY <1>2 DEF Branch, Branches
<1>4. prog' = P /\ P \in Seq(Shaped(c))
  BY <1>1, <1>2, <1>3, ProgramIs, BodyTypes
<1> HIDE DEF b
<1>5. StageInv /\ LossInv
  BY DEF IInv
<1>6. TypeInv'
  <2>1. prog' \in Seq(Shaped(c))
    BY <1>4
  <2> QED BY <1>1, <2>1 DEF IInv, TypeInv
<1>7. StageInv'
  BY <1>1, <1>5 DEF StageInv
<1>8. ASSUME c.two_step, stage = "" PROVE RunInv' /\ LossInv'
  <2>1. AtOne'
    <3>1. b = "1/3"
      BY <1>3, <1>8
    <3> QED BY <1>1, <1>2, <1>4, <1>8, <3>1, ProgramOne DEF AtOne
  <2>2. Free(P, Formatting(c)) /\ Free(P, RecoveryWrite(c))
    <3>1. Free(P, Patching(c)) /\ Free(P, RecoveryWrite(c))
      BY <1>2, <1>3, <1>8, ProgramOne
    <3>2. Formatting(c) \subseteq Patching(c)
      BY DEF Formatting, Patching, Of
    <3> QED BY <3>1, <3>2 DEF Free
  <2>3. losses = 0 => bcb # "boot"
    BY <1>1, <1>5, <1>8 DEF LossInv, InStep
  <2>4. rec # "mix"
    BY <1>5, <1>8 DEF StageInv
  <2> QED BY <1>1, <1>4, <2>1, <2>2, <2>3, <2>4 DEF RunInv, LossInv, IInv
<1>9. ASSUME c.two_step, stage = "2/3" PROVE RunInv' /\ LossInv'
  <2>1. boot = "rec" /\ b = "2/3"
    BY <1>3, <1>5, <1>9 DEF StageInv
  <2>2. AtTwo'
    BY <1>1, <1>2, <1>4, <1>9, <2>1, ProgramTwo DEF AtTwo
  <2>3. Free(P, Formatting(c)) /\ Free(P, RecoveryToBoot(c)) /\ Free(P, BootTarget(c))
    <3>1. Free(P, Patching(c)) /\ Free(P, RecoveryToBoot(c)) /\ Free(P, BootTarget(c))
      BY <1>2, <1>9, <2>1, ProgramTwo
    <3>2. Formatting(c) \subseteq Patching(c)
      BY DEF Formatting, Patching, Of
    <3> QED BY <3>1, <3>2 DEF Free
  <2>4. losses = 0 => bcb = "boot"
    BY <1>1, <1>5, <1>9 DEF LossInv, InStep
  <2> QED BY <1>1, <1>4, <2>1, <2>2, <2>3, <2>4 DEF RunInv, LossInv, IInv
<1>10. ASSUME ~c.two_step \/ stage = "3/3" PROVE RunInv' /\ LossInv'
  <2>1. c.two_step => b = "3/3"
    BY <1>3, <1>10
  <2>2. /\ c.two_step => Has(P, StageTo(c, "")) /\ Free(P, NotTo(c, ""))
        /\ ~c.two_step => Free(P, Staging(c))
        /\ \A B \in {RecoveryToBoot(c), RecoveryWrite(c), Rebooting(c)} : Free(P, B)
        /\ \A p \in Diffs(c) : c.u.tgtSize[p] > 0 => Has(P, Upd(c, p))
        /\ c.bootChanged => Has(P, BootTarget(c))
        /\ c.wipe => Has(P, Formatting(c))
        /\ ~c.wipe => Free(P, Formatting(c))
        /\ c.dynamic => Has(P, Dyn(c))
    BY <1>2, <1>3, <2>1, ProgramThree
  <2>3. After(P, Unmounting(c), Mounting(c))
    BY <1>2, <1>3, <2>1, ProgramUnmounts
  <2>4. (~c.two_step => stage = "" /\ bcb = "recovery") /\ (c.two_step => stage = "3/3" /\ rec = "tgt")
    BY <1>5, <1>10 DEF StageInv
  <2>5. AtThree'
    BY <1>1, <1>4, <2>2, <2>3, <2>4 DEF AtThree
  <2>6. losses = 0 => bcb # "boot"
    BY <1>1, <1>5, <2>4 DEF LossInv, InStep
  <2>7. rec # "mix"
    BY <1>5, <2>4 DEF StageInv
  <2> QED BY <1>1, <1>4, <2>2, <2>5, <2>6, <2>7 DEF RunInv, LossInv, IInv
<1>11. RunInv' /\ LossInv'
  BY <1>2, <1>8, <1>9, <1>10
<1>12. UnfitInv'
  <2>1. UnfitInv /\ (Refused' <=> Refused) /\ (Damaged' <=> Damaged)
    BY <1>1 DEF IInv, Refused, Damaged
  <2>2. ASSUME Refused PROVE Before(P, Stops(c), Of(c, Writings)) /\ Has(P, Stops(c))
    <3>1. stage = "" /\ b = "1/3"
      BY <2>1, <2>2, <1>3 DEF UnfitInv
    <3> QED BY <2>2, <3>1, <1>2, StopsFirst
  <2>3. ASSUME c.incremental, NEW p \in c.bad \cap c.touched, img[p] = "bad"
        PROVE  Before(P, Verifying(c, p), Of(c, Writings)) /\ Has(P, Verifying(c, p))
    <3>1. stage = "" /\ b = "1/3"
      BY <2>1, <2>3, <1>3 DEF UnfitInv, Damaged
    <3> QED BY <2>3, <3>1, <1>2, VerifiesFirst
  <2> QED BY <1>1, <1>4, <2>1, <2>2, <2>3 DEF UnfitInv
<1>13. DoneInv'
  BY <1>1 DEF DoneInv, InstalledTarget
<1> QED BY <1>6, <1>7, <1>11, <1>12, <1>13 DEF IInv

(* What is left of a program that still has a property. *)
LEMMA TailLemma ==
  ASSUME NEW X, NEW s \in Seq(X), s # <<>>
  PROVE  /\ \A B : Free(s, B) => Head(s) \notin B /\ Free(Tail(s), B)
         /\ \A A : Has(s, A) => Head(s) \in A \/ Has(Tail(s), A)
         /\ \A A, B : Before(s, A, B) => Head(s) \notin B /\ (Head(s) \in A \/ Before(Tail(s), A, B))
         /\ \A A, B : After(s, A, B) => After(Tail(s), A, B) /\ (Head(s) \in B => Has(Tail(s), A))
         /\ \A A, B : NoneAfter(s, A, B) => NoneAfter(Tail(s), A, B) /\ (Head(s) \in A => Free(Tail(s), B))
<1>1. \A B : Free(s, B) => Head(s) \notin B /\ Free(Tail(s), B)
  BY TailFree
<1>2. \A A : Has(s, A) => Head(s) \in A \/ Has(Tail(s), A)
  BY TailHas
<1>3. \A A, B : Before(s, A, B) => Head(s) \notin B /\ (Head(s) \in A \/ Before(Tail(s), A, B))
  BY TailBefore
<1>4. \A A, B : After(s, A, B) => After(Tail(s), A, B) /\ (Head(s) \in B => Has(Tail(s), A))
  BY TailAfter
<1>5. \A A, B : NoneAfter(s, A, B) => NoneAfter(Tail(s), A, B) /\ (Head(s) \in A => Free(Tail(s), B))
  BY TailNoneAfter
<1> QED BY <1>1, <1>2, <1>3, <1>4, <1>5

(* What a command changes in /boot, /recovery and the stage, by stage.     *)
LEMMA RanOne ==
  ASSUME TypeInv, StageInv, Ran, AtOne
  PROVE  AtOne' /\ StageInv'
<1> DEFINE h == Head(prog)
           t == Tail(prog)
<1>1. /\ c' = c /\ prog' = t /\ h \notin Rebooting(c) /\ bcb' = bcb
      /\ h \in RecoveryToBoot(c) => boot' = "rec"
      /\ h \in BootTarget(c) => boot' = "tgt"
      /\ h \notin RecoveryToBoot(c) \union BootTarget(c) => boot' = boot
      /\ rec' = IF h \in RecoveryWrite(c) THEN "tgt" ELSE rec
      /\ stage' = IF h \in Staging(c) THEN h.with ELSE stage
  BY DEF Ran
<1>2. /\ \A B : Free(prog, B) => h \notin B /\ Free(t, B)
      /\ \A A : Has(prog, A) => h \in A \/ Has(t, A)
      /\ \A A, B : Before(prog, A, B) => h \notin B /\ (h \in A \/ Before(t, A, B))
      /\ \A A, B : NoneAfter(prog, A, B) => NoneAfter(t, A, B) /\ (h \in A => Free(t, B))
  <2>1. prog # <<>> /\ prog \in Seq(Shaped(c))
    BY DEF Ran, TypeInv
  <2> QED BY <2>1, TailLemma
<1> HIDE DEF h, t
<1>3. /\ h \notin BootTarget(c) /\ h \notin RecoveryWrite(c) /\ h \notin NotTo(c, "2/3")
      /\ \A B \in {BootTarget(c), RecoveryWrite(c), Patching(c), NotTo(c, "2/3"), RebootNotTo(c, "")} : Free(t, B)
  BY <1>2 DEF AtOne
<1>4. /\ h \in Staging(c) <=> h \in StageTo(c, "2/3")
      /\ h \in Staging(c) => h.with = "2/3" /\ h \notin RecoveryToBoot(c)
  BY <1>3 DEF NotTo, StageTo, Staging, RecoveryToBoot, Of
<1>5. Has(t, Rebooting(c))
  BY <1>1, <1>2 DEF AtOne
<1>6. boot' = "rec" \/ (/\ Before(t, RecoveryToBoot(c), StageTo(c, "2/3"))
                        /\ Before(t, RecoveryToBoot(c), Rebooting(c)))
  BY <1>1, <1>2, <1>3 DEF AtOne
<1>7. stage' = "2/3" \/ Before(t, StageTo(c, "2/3"), Rebooting(c))
  BY <1>1, <1>2, <1>4 DEF AtOne
<1>8. NoneAfter(t, StageTo(c, "2/3"), RecoveryToBoot(c))
  BY <1>2 DEF AtOne
<1>9. stage' = "2/3" => Free(t, RecoveryToBoot(c))
  BY <1>1, <1>2, <1>4 DEF AtOne
<1>10. stage' # "3/3"
  BY <1>1, <1>4 DEF AtOne
<1>11. AtOne'
  BY <1>1, <1>3, <1>5, <1>6, <1>7, <1>8, <1>9, <1>10 DEF AtOne
<1>12. stage' = "2/3" => boot' = "rec"
  <2>1. CASE h \in Staging(c)
    BY <2>1, <1>1, <1>2, <1>3, <1>4 DEF AtOne
  <2>2. CASE h \notin Staging(c)
    <3>1. stage' = "2/3" => boot = "rec" /\ h \notin RecoveryToBoot(c)
      BY <2>2, <1>1, <1>2 DEF AtOne, StageInv
    <3> QED BY <3>1, <1>1, <1>3
  <2> QED BY <2>1, <2>2
<1>13. rec' = "mix" => stage' = "2/3"
  BY <1>1, <1>3, <1>4 DEF StageInv
<1> QED BY <1>1, <1>10, <1>11, <1>12, <1>13 DEF StageInv, AtOne

(* So does one of the second branch, *)
LEMMA RanTwo ==
  ASSUME TypeInv, StageInv, Ran, AtTwo
  PROVE  AtTwo' /\ StageInv'
<1> DEFINE h == Head(prog)
           t == Tail(prog)
<1>1. /\ c' = c /\ prog' = t /\ h \notin Rebooting(c) /\ bcb' = bcb
      /\ h \notin RecoveryToBoot(c) \union BootTarget(c) => boot' = boot
      /\ rec' = IF h \in RecoveryWrite(c) THEN "tgt" ELSE rec
      /\ stage' = IF h \in Staging(c) THEN h.with ELSE stage
  BY DEF Ran
<1>2. /\ \A B : Free(prog, B) => h \notin B /\ Free(t, B)
      /\ \A A : Has(prog, A) => h \in A \/ Has(t, A)
      /\ \A A, B : Before(prog, A, B) => h \notin B /\ (h \in A \/ Before(t, A, B))
      /\ \A A, B : NoneAfter(prog, A, B) => NoneAfter(t, A, B) /\ (h \in A => Free(t, B))
  <2>1. prog # <<>> /\ prog \in Seq(Shaped(c))
    BY DEF Ran, TypeInv
  <2> QED BY <2>1, TailLemma
<1> HIDE DEF h, t
<1>3. /\ h \notin BootTarget(c) /\ h \notin RecoveryToBoot(c) /\ h \notin NotTo(c, "3/3")
      /\ \A B \in {BootTarget(c), RecoveryToBoot(c), Patching(c), NotTo(c, "3/3"), RebootNotTo(c, "recovery")} : Free(t, B)
  BY <1>2 DEF AtTwo
<1>4. /\ h \in Staging(c) <=> h \in StageTo(c, "3/3")
      /\ h \in Staging(c) => h.with = "3/3" /\ h \notin RecoveryWrite(c)
  BY <1>3 DEF NotTo, StageTo, Staging, RecoveryWrite, Of
<1>5. Has(t, Rebooting(c))
  BY <1>1, <1>2 DEF AtTwo
<1>6. rec' = "tgt" \/ (/\ Before(t, RecoveryWrite(c), StageTo(c, "3/3"))
                       /\ Before(t, RecoveryWrite(c), Rebooting(c)))
  BY <1>1, <1>2 DEF AtTwo
<1>7. stage' = "3/3" \/ Before(t, StageTo(c, "3/3"), Rebooting(c))
  BY <1>1, <1>2, <1>4 DEF AtTwo
<1>8. NoneAfter(t, StageTo(c, "3/3"), RecoveryWrite(c))
  BY <1>2 DEF AtTwo
<1>9. stage' = "3/3" => Free(t, RecoveryWrite(c))
  BY <1>1, <1>2, <1>4 DEF AtTwo
<1>10. stage' # "" /\ boot' = "rec"
  BY <1>1, <1>3, <1>4 DEF AtTwo
<1>11. AtTwo'
  BY <1>1, <1>3, <1>5, <1>6, <1>7, <1>8, <1>9, <1>10 DEF AtTwo
<1>12. h \in Staging(c) => rec = "tgt"
  BY <1>2, <1>4 DEF AtTwo
<1>13. (stage' = "3/3" => rec' = "tgt") /\ (rec' = "mix" => stage' = "2/3")
  BY <1>1, <1>4, <1>12 DEF StageInv
<1> QED BY <1>1, <1>10, <1>11, <1>13 DEF StageInv, AtTwo

(* and one of the branch that installs. *)
LEMMA RanThree ==
  ASSUME TypeInv, StageInv, Ran, AtThree
  PROVE  AtThree' /\ StageInv'
<1> DEFINE h == Head(prog)
           t == Tail(prog)
<1>1. /\ c' = c /\ prog' = t /\ bcb' = bcb
      /\ h \in BootTarget(c) => boot' = "tgt"
      /\ h \notin RecoveryToBoot(c) \union BootTarget(c) => boot' = boot
      /\ rec' = IF h \in RecoveryWrite(c) THEN "tgt" ELSE rec
      /\ stage' = IF h \in Staging(c) THEN h.with ELSE stage
      /\ h \in Unmounting(c) => mounted' = mounted \ {"oem"}
      /\ h \notin Mounting(c) \union Unmounting(c) => mounted' = mounted
  BY DEF Ran
<1>2. /\ \A B : Free(prog, B) => h \notin B /\ Free(t, B)
      /\ \A A : Has(prog, A) => h \in A \/ Has(t, A)
      /\ \A A, B : After(prog, A, B) => After(t, A, B) /\ (h \in B => Has(t, A))
  <2>1. prog # <<>> /\ prog \in Seq(Shaped(c))
    BY DEF Ran, TypeInv
  <2> QED BY <2>1, TailLemma
<1>3. h \in Shaped(c) /\ IsPackage(c)
  <2>1. prog # <<>> /\ prog \in Seq(Shaped(c))
    BY DEF Ran, TypeInv
  <2> QED BY <2>1, TailFacts, AllPackages
<1>4. h \in Formatting(c) => wiped'
  BY DEF Ran
<1>5. h \notin Formatting(c) => (wiped' <=> wiped)
  BY DEF Ran
<1>6. h \in Dyn(c) => resized'
  BY DEF Ran
<1>7. h \notin Dyn(c) => (resized' <=> resized)
  BY DEF Ran
<1>8. \A p \in ToSet(PartitionNames) :
       \/ img'[p] = img[p] /\ h \notin Upd(c, p)
       \/ img'[p] = "tgt"
       \/ img[p] = "bad" /\ h \in Verifying(c, p)
  BY DEF Ran
<1> HIDE DEF h, t
<1>9. h \notin RecoveryToBoot(c) /\ h \notin RecoveryWrite(c)
      /\ \A B \in {RecoveryToBoot(c), RecoveryWrite(c), Rebooting(c)} : Free(t, B)
  BY <1>2 DEF AtThree
<1>10. c.two_step => stage' # "2/3" /\ rec' = "tgt" /\ Free(t, NotTo(c, ""))
  <2> SUFFICES ASSUME c.two_step PROVE stage' # "2/3" /\ rec' = "tgt" /\ Free(t, NotTo(c, ""))
    OBVIOUS
  <2>1. stage # "2/3" /\ rec = "tgt" /\ h \notin NotTo(c, "") /\ Free(t, NotTo(c, ""))
    BY <1>2 DEF AtThree
  <2>2. h \in Staging(c) => h.with = ""
    BY <2>1 DEF NotTo
  <2> QED BY <1>1, <1>9, <2>1, <2>2
<1>11. ~c.two_step => h \notin Staging(c) /\ Free(t, Staging(c))
  BY <1>2 DEF AtThree
<1>12. stage' = "" \/ Has(t, StageTo(c, ""))
  <2>1. CASE h \in StageTo(c, "")
    BY <2>1, <1>1 DEF StageTo
  <2>2. CASE h \notin StageTo(c, "") /\ h \in Staging(c)
    <3>1. h \in NotTo(c, "") /\ c.two_step
      BY <2>2, <1>11 DEF NotTo, StageTo
    <3> QED BY <3>1, <1>2 DEF AtThree
  <2>3. CASE h \notin StageTo(c, "") /\ h \notin Staging(c)
    BY <2>3, <1>1, <1>2 DEF AtThree
  <2> QED BY <2>1, <2>2, <2>3
<1>13. \A p \in Diffs(c) : c.u.tgtSize[p] > 0 => img'[p] = "tgt" \/ Has(t, Upd(c, p))
  <2> SUFFICES ASSUME NEW p \in Diffs(c), c.u.tgtSize[p] > 0 PROVE img'[p] = "tgt" \/ Has(t, Upd(c, p))
    OBVIOUS
  <2>1. p \in ToSet(PartitionNames)
    BY <1>3, BlockDifferences
  <2>2. img[p] = "tgt" \/ Has(prog, Upd(c, p))
    BY DEF AtThree
  <2>3. h \in Verifying(c, p) => h \notin Upd(c, p)
    BY <1>3, Kinds
  <2> QED BY <2>1, <2>2, <2>3, <1>2, <1>8
<1>14. c.bootChanged => boot' = "tgt" \/ Has(t, BootTarget(c))
  BY <1>1, <1>2, <1>9 DEF AtThree
<1>15. c.wipe => wiped' \/ Has(t, Formatting(c))
  BY <1>2, <1>4, <1>5 DEF AtThree
<1>16. c.dynamic => resized' \/ Has(t, Dyn(c))
  BY <1>2, <1>6, <1>7 DEF AtThree
<1>17. mounted' = {} \/ Has(t, Unmounting(c))
  <2>1. CASE h \in Unmounting(c)
    BY <2>1, <1>1 DEF TypeInv
  <2>2. CASE h \in Mounting(c)
    BY <2>2, <1>2 DEF AtThree
  <2>3. CASE h \notin Mounting(c) \union Unmounting(c)
    BY <2>3, <1>1, <1>2 DEF AtThree
  <2> QED BY <2>1, <2>2, <2>3
<1>18. After(t, Unmounting(c), Mounting(c))
  BY <1>2 DEF AtThree
<1>19. AtThree'
  BY <1>1, <1>9, <1>10, <1>11, <1>12, <1>13, <1>14, <1>15, <1>16, <1>17, <1>18 DEF AtThree
<1>20. ~c.two_step => stage' = "" /\ bcb' = "recovery"
  BY <1>1, <1>11 DEF StageInv
<1>21. rec' = rec
  BY <1>1, <1>9
<1>22. rec' = "mix" => stage' = "2/3"
  <2>1. rec = "mix" => stage = "2/3" /\ c.two_step
    BY DEF StageInv
  <2> QED BY <2>1, <1>21, <1>10
<1> QED BY <1>1, <1>10, <1>19, <1>20, <1>21, <1>22 DEF StageInv

(* Before a device that is refused or damaged is found out, no command     *)
(* writes.                                                                 *)
LEMMA UnfitHead ==
  ASSUME IInv, status = "run", Refused \/ Damaged
  PROVE  prog # <<>> /\ Head(prog) \in Shaped(c) /\ Head(prog) \notin Of(c, Writings)
<1>1. prog \in Seq(Shaped(c)) /\ UnfitInv
  BY DEF IInv, TypeInv
<1>2. \E A : Before(prog, A, Of(c, Writings)) /\ Has(prog, A)
  <2>1. CASE Refused
    BY <2>1, <1>1 DEF UnfitInv
  <2>2. CASE Damaged
    <3>1. PICK p \in c.bad \cap c.touched : img[p] = "bad" /\ c.incremental
      BY <2>2 DEF Damaged
    <3>2. Before(prog, Verifying(c, p), Of(c, Writings)) /\ Has(prog, Verifying(c, p))
      BY <3>1, <1>1 DEF UnfitInv
    <3> QED BY <3>2
  <2> QED BY <2>1, <2>2
<1>3. prog # <<>>
  BY <1>2 DEF Has
<1> QED BY <1>1, <1>2, <1>3, TailLemma, TailFacts

(* A command that runs leaves an unfit device as it was. *)
LEMMA RanUnfit ==
  ASSUME IInv, Ran
  PROVE  UnfitInv'
<1> DEFINE h == Head(prog)
           t == Tail(prog)
           N == ToSet(PartitionNames)
<1>1. /\ c' = c /\ prog' = t /\ bcb' = bcb /\ status = "run" /\ status' = "run"
      /\ h \notin RecoveryToBoot(c) \union BootTarget(c) => boot' = boot
      /\ rec' = IF h \in RecoveryWrite(c) THEN "tgt" ELSE rec
      /\ stage' = IF h \in Staging(c) THEN h.with ELSE stage
      /\ h \in Stops(c) => RunsTarget
  BY DEF Ran
<1>2. (h \notin Formatting(c) => (wiped' <=> wiped)) /\ (h \notin Dyn(c) => (resized' <=> resized))
  <2>1. h \notin Formatting(c) => (wiped' <=> wiped)
    BY DEF Ran
  <2>2. h \notin Dyn(c) => (resized' <=> resized)
    BY DEF Ran
  <2> QED BY <2>1, <2>2
<1>3. \A p \in N : \/ img'[p] = img[p] /\ h \notin Upd(c, p) /\ (h \in Verifying(c, p) => img[p] # "bad")
                   \/ img'[p] = "tgt" /\ h \in Upd(c, p)
                   \/ img'[p] = "src" /\ img[p] = "bad" /\ h \in Verifying(c, p)
  BY DEF Ran
<1>4. prog # <<>> /\ prog \in Seq(Shaped(c))
  BY DEF Ran, IInv, TypeInv
<1>5. /\ \A A : Has(prog, A) => h \in A \/ Has(t, A)
      /\ \A A, B : Before(prog, A, B) => h \notin B /\ (h \in A \/ Before(t, A, B))
  BY <1>4, TailLemma
<1>6. h \in Shaped(c) /\ UnfitInv /\ c.bad \subseteq N
  BY <1>4, TailFacts, AllPackages DEF IInv, IsPackage
<1>7. Refused \/ Damaged => h \notin Of(c, Writings)
  BY <1>1, UnfitHead
<1> HIDE DEF h, t
<1>8. (Refused' <=> Refused) /\ (Damaged' => Damaged)
  <2>1. Refused' <=> Refused
    BY <1>1 DEF Refused
  <2>2. \A p \in c.bad : img'[p] = "bad" => img[p] = "bad"
    BY <1>3, <1>6
  <2>3. Damaged' => Damaged
    BY <1>1, <2>2 DEF Damaged
  <2> QED BY <2>1, <2>3
<1>9. ASSUME Refused' \/ Damaged'
      PROVE  /\ boot' = "src" /\ rec' = "src" /\ ~wiped' /\ ~resized' /\ stage' = "" /\ bcb' = "recovery"
             /\ \A p \in N : img'[p] \in {"src", "bad"}
  <2>1. Refused \/ Damaged
    BY <1>8, <1>9
  <2>2. /\ h \notin RecoveryToBoot(c) /\ h \notin BootTarget(c) /\ h \notin RecoveryWrite(c)
        /\ h \notin Staging(c) /\ h \notin Formatting(c) /\ h \notin Dyn(c) /\ \A p : h \notin Upd(c, p)
    BY <2>1, <1>6, <1>7, WritingSets
  <2>3. /\ boot = "src" /\ rec = "src" /\ stage = "" /\ bcb = "recovery"
        /\ \A p \in N : img[p] \in {"src", "bad"}
    BY <2>1, <1>6 DEF UnfitInv
  <2>4. ~wiped /\ ~resized
    BY <2>1, <1>6 DEF UnfitInv
  <2>5. ~wiped' /\ ~resized'
    BY <2>2, <2>4, <1>2
  <2>6. \A p \in N : img'[p] \in {"src", "bad"}
    BY <2>2, <2>3, <1>3
  <2> QED BY <2>2, <2>3, <2>5, <2>6, <1>1
<1>10. ASSUME Refused PROVE Before(t, Stops(c), Of(c, Writings)) /\ Has(t, Stops(c))
  <2>1. rec = "src" /\ bcb = "recovery" /\ running = bcb
    BY <1>1, <1>6, <1>10 DEF UnfitInv, IInv, TypeInv
  <2>2. h \notin Stops(c)
    BY <2>1, <1>1 DEF RunsTarget
  <2>3. Before(prog, Stops(c), Of(c, Writings)) /\ Has(prog, Stops(c))
    BY <1>1, <1>6, <1>10 DEF UnfitInv
  <2> QED BY <2>2, <2>3, <1>5
<1>11. ASSUME c.incremental, NEW p \in c.bad \cap c.touched, img'[p] = "bad"
       PROVE  Before(t, Verifying(c, p), Of(c, Writings)) /\ Has(t, Verifying(c, p))
  <2>1. p \in N
    BY <1>6
  <2>2. img[p] = "bad" /\ h \notin Verifying(c, p)
    BY <2>1, <1>3, <1>11
  <2>3. Before(prog, Verifying(c, p), Of(c, Writings)) /\ Has(prog, Verifying(c, p))
    BY <2>2, <1>1, <1>6, <1>11 DEF UnfitInv
  <2> QED BY <2>2, <2>3, <1>5
<1> QED BY <1>1, <1>8, <1>9, <1>10, <1>11 DEF UnfitInv

(* A command that runs keeps the invariant. *)
LEMMA RanInv == ASSUME IInv, Ran PROVE IInv'
<1> DEFINE h == Head(prog)
           t == Tail(prog)
<1>1. TypeInv /\ StageInv /\ RunInv /\ LossInv
  BY DEF IInv
<1>2. /\ status = "run" /\ status' = "run" /\ prog # <<>> /\ prog' = t /\ prog \in Seq(Shaped(c))
      /\ c' = c /\ script' = script /\ running' = running /\ losses' = losses /\ bcb' = bcb
  BY DEF Ran, IInv, TypeInv
<1>3. h \in Shaped(c) /\ t \in Seq(Shaped(c))
  BY <1>2, TailFacts
<1>4. \A B : Free(prog, B) => h \notin B /\ Free(t, B)
  BY <1>2, TailLemma
<1>5. /\ h \in RecoveryToBoot(c) => boot' = "rec"
      /\ h \in BootTarget(c) => boot' = "tgt"
      /\ h \notin RecoveryToBoot(c) \union BootTarget(c) => boot' = boot
      /\ rec' = IF h \in RecoveryWrite(c) THEN "tgt" ELSE rec
      /\ stage' = IF h \in Staging(c) THEN h.with ELSE stage
      /\ mounted' \subseteq mounted \union {"oem"}
      /\ img' \in [ToSet(PartitionNames) -> {"src", "tgt", "mix", "bad"}]
  BY DEF Ran
<1>6. (h \notin Formatting(c) => (wiped' <=> wiped)) /\ wiped' \in BOOLEAN
  <2>1. h \notin Formatting(c) => (wiped' <=> wiped)
    BY DEF Ran
  <2>2. wiped \in BOOLEAN
    BY <1>1 DEF TypeInv
  <2>3. wiped' = IF h \in Formatting(c) THEN TRUE ELSE wiped
    BY DEF Ran
  <2> QED BY <2>1, <2>2, <2>3
<1> HIDE DEF h, t
<1>7. TypeInv'
  <2>1. h \in Staging(c) => h.with \in {"", "2/3", "3/3"}
    BY <1>3 DEF Staging, Of, Shaped
  <2>2. boot' \in {"src", "tgt", "mix", "rec"} /\ rec' \in {"src", "tgt", "mix"} /\ stage' \in {"", "2/3", "3/3"}
    BY <1>1, <1>5, <2>1 DEF TypeInv
  <2>3. mounted' \subseteq {"oem"}
    BY <1>1, <1>5 DEF TypeInv
  <2>4. /\ c \in Packages /\ bcb \in {"boot", "recovery"} /\ losses \in Nat
        /\ script = GenerateNonAbOtaPackage(c) /\ running = bcb
    BY <1>1, <1>2 DEF TypeInv
  <2> QED BY <1>2, <1>3, <1>5, <1>6, <2>2, <2>3, <2>4 DEF TypeInv
<1>8. StageInv' /\ (AtOne' \/ AtTwo' \/ AtThree')
  <2>1. AtOne \/ AtTwo \/ AtThree
    BY <1>1, <1>2 DEF RunInv
  <2> QED BY <2>1, <1>1, RanOne, RanTwo, RanThree
<1>9. RunInv'
  <2>1. ~c.wipe => ~wiped' /\ Free(t, Formatting(c))
    <3>1. ~c.wipe => ~wiped /\ Free(prog, Formatting(c))
      BY <1>1, <1>2 DEF RunInv
    <3> QED BY <3>1, <1>4, <1>6
  <2> QED BY <1>2, <1>8, <2>1 DEF RunInv
<1>10. LossInv'
  <2>1. losses = 0 =>
          IF bcb = "boot" THEN boot = "rec" /\ Free(prog, RecoveryToBoot(c)) /\ Free(prog, BootTarget(c))
          ELSE rec # "mix" /\ Free(prog, RecoveryWrite(c))
    BY <1>1, <1>2 DEF LossInv
  <2>2. losses = 0 =>
          IF bcb = "boot" THEN boot' = "rec" /\ Free(t, RecoveryToBoot(c)) /\ Free(t, BootTarget(c))
          ELSE rec' # "mix" /\ Free(t, RecoveryWrite(c))
    BY <2>1, <1>4, <1>5
  <2> QED BY <1>2, <2>2 DEF LossInv
<1>11. DoneInv'
  BY <1>2 DEF DoneInv, InstalledTarget
<1> QED BY <1>7, <1>8, <1>9, <1>10, <1>11, RanUnfit DEF IInv

(* A command that aborts keeps it. *)
LEMMA AbortInv == ASSUME IInv, Aborted PROVE IInv'
<1>1. /\ status = "run" /\ status' = "abort" /\ prog # <<>> /\ prog' = Tail(prog)
      /\ UNCHANGED <<c, script, running, losses, meta, img, boot, rec, stage, bcb, wiped, mounted>>
      /\ resized' => resized
  BY DEF Aborted
<1>2. TypeInv'
  <2>1. Tail(prog) \in Seq(Shaped(c))
    BY <1>1, TailFacts DEF IInv, TypeInv
  <2> QED BY <1>1, <2>1 DEF IInv, TypeInv
<1>3. StageInv' /\ RunInv' /\ LossInv'
  BY <1>1 DEF IInv, StageInv, RunInv, LossInv
<1>4. UnfitInv'
  <2>1. (Refused' <=> Refused) /\ (Damaged' <=> Damaged)
    BY <1>1 DEF Refused, Damaged
  <2>2. Refused \/ Damaged =>
         /\ boot = "src" /\ rec = "src" /\ ~wiped /\ ~resized /\ stage = "" /\ bcb = "recovery"
         /\ \A p \in ToSet(PartitionNames) : img[p] \in {"src", "bad"}
    BY DEF IInv, UnfitInv
  <2> QED BY <1>1, <2>1, <2>2 DEF UnfitInv
<1>5. DoneInv'
  BY <1>1 DEF DoneInv, InstalledTarget
<1> QED BY <1>2, <1>3, <1>4, <1>5 DEF IInv

(* reboot_now keeps it: stage and boot target go together. *)
LEMMA RebootInv == ASSUME IInv, Rebooted PROVE IInv'
<1>1. /\ status = "run" /\ status' = "off" /\ prog # <<>> /\ prog' = <<>> /\ Head(prog) \in Rebooting(c)
      /\ bcb' = IF Head(prog).with = "recovery" THEN "recovery" ELSE "boot"
      /\ UNCHANGED <<c, script, running, losses, meta, img, boot, rec, stage, resized, wiped, mounted>>
  BY DEF Rebooted
<1>2. TypeInv /\ StageInv /\ RunInv
  BY DEF IInv
<1>3. /\ \A B : Free(prog, B) => Head(prog) \notin B
      /\ \A A, B : Before(prog, A, B) => Head(prog) \notin B
  <2>1. prog \in Seq(Shaped(c))
    BY <1>2 DEF TypeInv
  <2> QED BY <1>1, <2>1, TailLemma
<1>4. \/ c.two_step /\ bcb' = "boot" /\ boot = "rec" /\ stage = "2/3"
      \/ c.two_step /\ bcb' = "recovery" /\ rec = "tgt" /\ stage = "3/3"
  <2>1. CASE AtOne
    <3>1. Head(prog) \notin RebootNotTo(c, "")
      BY <2>1, <1>3 DEF AtOne
    <3>2. bcb' = "boot"
      BY <3>1, <1>1 DEF RebootNotTo
    <3>3. boot = "rec" /\ stage = "2/3" /\ c.two_step
      BY <2>1, <1>1, <1>3 DEF AtOne
    <3> QED BY <3>2, <3>3
  <2>2. CASE AtTwo
    <3>1. Head(prog) \notin RebootNotTo(c, "recovery")
      BY <2>2, <1>3 DEF AtTwo
    <3>2. bcb' = "recovery"
      BY <3>1, <1>1 DEF RebootNotTo
    <3>3. rec = "tgt" /\ stage = "3/3" /\ c.two_step
      BY <2>2, <1>1, <1>3 DEF AtTwo
    <3> QED BY <3>2, <3>3
  <2>3. CASE AtThree
    <3>1. Head(prog) \notin Rebooting(c)
      BY <2>3, <1>3 DEF AtThree
    <3> QED BY <3>1, <1>1
  <2> QED BY <2>1, <2>2, <2>3, <1>1, <1>2 DEF RunInv
<1>5. TypeInv'
  BY <1>1, <1>2, <1>4, EmptySequence DEF TypeInv
<1>6. StageInv' /\ LossInv'
  BY <1>1, <1>2, <1>4 DEF StageInv, LossInv, InStep
<1>7. RunInv'
  BY <1>1, <1>2 DEF RunInv
<1>8. UnfitInv'
  <2>1. (Refused' <=> Refused) /\ (Damaged' <=> Damaged)
    BY <1>1 DEF Refused, Damaged
  <2>2. ~(Refused \/ Damaged)
    BY <1>1, UnfitHead, WritingSets
  <2> QED BY <1>1, <2>1, <2>2 DEF UnfitInv
<1>9. DoneInv'
  BY <1>1 DEF DoneInv, InstalledTarget
<1> QED BY <1>5, <1>6, <1>7, <1>8, <1>9 DEF IInv

(* The end of the script keeps it: all that had to run has run. *)
LEMMA FinishInv == ASSUME IInv, Finish PROVE IInv'
<1>1. /\ status = "run" /\ prog = <<>> /\ status' = "done"
      /\ UNCHANGED <<c, script, running, prog, losses, meta, img, boot, rec, stage, bcb, resized, wiped, mounted>>
  BY DEF Finish, device
<1>2. \A A : ~Has(prog, A)
  BY <1>1 DEF Has
<1>3. AtThree
  BY <1>1, <1>2 DEF IInv, RunInv, AtOne, AtTwo
<1>4. TypeInv' /\ StageInv' /\ RunInv' /\ LossInv'
  BY <1>1 DEF IInv, TypeInv, StageInv, RunInv, LossInv
<1>5. UnfitInv'
  <2>1. (Refused' <=> Refused) /\ (Damaged' <=> Damaged)
    BY <1>1 DEF Refused, Damaged
  <2>2. ~(Refused \/ Damaged)
    BY <1>1, UnfitHead
  <2> QED BY <1>1, <2>1, <2>2 DEF UnfitInv
<1>6. DoneInv'
  <2>1. /\ \A p \in Diffs(c) : c.u.tgtSize[p] > 0 => img[p] = "tgt"
        /\ c.bootChanged => boot = "tgt"
        /\ stage = "" /\ mounted = {}
        /\ c.two_step => rec = "tgt"
    BY <1>2, <1>3 DEF AtThree
  <2>2. c.dynamic => resized
    BY <1>2, <1>3 DEF AtThree
  <2>3. wiped = c.wipe
    <3>1. wiped \in BOOLEAN /\ c.wipe \in BOOLEAN
      BY AllPackages DEF IInv, TypeInv, IsPackage
    <3>2. c.wipe => wiped
      BY <1>2, <1>3 DEF AtThree
    <3>3. ~c.wipe => ~wiped
      BY DEF IInv, RunInv
    <3> QED BY <3>1, <3>2, <3>3
  <2> QED BY <1>1, <2>1, <2>2, <2>3 DEF DoneInv, InstalledTarget, Diffs
<1> QED BY <1>4, <1>5, <1>6 DEF IInv

(* The first boot keeps it. *)
LEMMA InstallRecoveryInv == ASSUME IInv, InstallRecovery PROVE IInv'
<1>1. /\ status = "done" /\ status' = "booted"
      /\ rec' = IF c.recoveryFstab /\ rec # "tgt" /\ (c.fullRecovery \/ boot = "tgt" \/ ~c.bootChanged)
                THEN "tgt" ELSE rec
      /\ UNCHANGED <<c, script, running, prog, losses, meta, img, boot, stage, bcb, resized, wiped, mounted>>
  BY DEF InstallRecovery
<1>2. (c.recoveryFstab => rec' = "tgt") /\ rec' \in {"tgt", rec} /\ stage = ""
  BY <1>1 DEF IInv, DoneInv, InstalledTarget
<1>3. TypeInv' /\ StageInv' /\ RunInv' /\ LossInv'
  BY <1>1, <1>2 DEF IInv, TypeInv, StageInv, RunInv, LossInv
<1>4. UnfitInv'
  <2>1. (Refused' <=> Refused) /\ (Damaged' <=> Damaged)
    BY <1>1 DEF Refused, Damaged
  <2>2. ~(Refused \/ Damaged)
    BY <1>1 DEF IInv, UnfitInv
  <2> QED BY <1>1, <2>1, <2>2 DEF UnfitInv
<1>5. DoneInv'
  BY <1>1, <1>2 DEF IInv, DoneInv, InstalledTarget
<1> QED BY <1>3, <1>4, <1>5 DEF IInv

(* A loss of power keeps it. *)
LEMMA PowerLossInv == ASSUME IInv, PowerLoss PROVE IInv'
<1> DEFINE h == Head(prog)
           N == ToSet(PartitionNames)
<1>1. /\ status = "run" /\ status' = "off" /\ prog' = <<>> /\ losses' = losses + 1
      /\ UNCHANGED <<c, script, running, meta, stage, bcb, resized, wiped, mounted>>
  BY DEF PowerLoss
<1>2. TypeInv /\ StageInv /\ RunInv /\ LossInv /\ UnfitInv /\ prog \in Seq(Shaped(c)) /\ losses \in Nat
  BY DEF IInv, TypeInv
<1>3. prog # <<>> => h \in Shaped(c) /\ \A B : Free(prog, B) => h \notin B
  BY <1>2, TailFacts, TailLemma
<1>4. \/ UNCHANGED <<img, boot, rec>>
      \/ /\ prog # <<>> /\ h.op = "block_image_update" /\ img[h.on] # "bad" /\ img' = [img EXCEPT ![h.on] = "mix"]
         /\ UNCHANGED <<boot, rec>>
      \/ /\ prog # <<>> /\ h \in RecoveryToBoot(c) \union BootTarget(c) /\ boot' = "mix" /\ UNCHANGED <<img, rec>>
      \/ /\ prog # <<>> /\ h \in RecoveryWrite(c) /\ rec' = "mix" /\ UNCHANGED <<img, boot>>
  <2>1. \/ UNCHANGED <<img, boot, rec>>
        \/ /\ prog # <<>> /\ h.op = "block_image_update" /\ img[h.on] # "bad" /\ img' = [img EXCEPT ![h.on] = "mix"]
           /\ UNCHANGED <<boot, rec>>
        \/ /\ prog # <<>> /\ h.op \in {"package_extract_file", "patch_partition"} /\ h.on = "boot"
           /\ boot' = "mix" /\ UNCHANGED <<img, rec>>
        \/ /\ prog # <<>> /\ h.op = "package_extract_file" /\ h.on = "recovery"
           /\ rec' = "mix" /\ UNCHANGED <<img, boot>>
    BY DEF PowerLoss, on
  <2>2. /\ h \in Shaped(c) /\ h.op \in {"package_extract_file", "patch_partition"} /\ h.on = "boot"
              => h \in RecoveryToBoot(c) \union BootTarget(c)
        /\ h \in Shaped(c) /\ h.op = "package_extract_file" /\ h.on = "recovery" => h \in RecoveryWrite(c)
    BY DEF Shaped, RecoveryToBoot, BootTarget, RecoveryWrite, Of
  <2> QED BY <1>3, <2>1, <2>2
<1>5. h \in Shaped(c) /\ h.op = "block_image_update" => h.on \in N /\ h \in Of(c, Writings)
  BY <1>2, AllPackages, BlockDifferences DEF Shaped, Of, Writings
<1>6. img' \in [N -> {"src", "tgt", "mix", "bad"}] /\ \A p \in N : img'[p] = "bad" => img[p] = "bad"
  <2>1. img \in [N -> {"src", "tgt", "mix", "bad"}]
    BY <1>2 DEF TypeInv
  <2> QED BY <1>3, <1>4, <1>5, <2>1
<1> HIDE DEF h
<1>7. TypeInv'
  <2>1. boot' \in {"src", "tgt", "mix", "rec"} /\ rec' \in {"src", "tgt", "mix"}
    BY <1>2, <1>4 DEF TypeInv
  <2>2. losses' \in Nat
    BY <1>1, <1>2
  <2>3. prog' \in Seq(Shaped(c))
    BY <1>1, EmptySequence
  <2>4. /\ c \in Packages /\ stage \in {"", "2/3", "3/3"} /\ bcb \in {"boot", "recovery"} /\ wiped \in BOOLEAN
        /\ mounted \subseteq {"oem"} /\ script = GenerateNonAbOtaPackage(c)
    BY <1>1, <1>2 DEF TypeInv
  <2> QED BY <1>1, <1>6, <2>1, <2>2, <2>3, <2>4 DEF TypeInv
<1>8. /\ h \in RecoveryToBoot(c) \union BootTarget(c) /\ prog # <<>> => stage # "2/3"
      /\ h \in RecoveryWrite(c) /\ prog # <<>> => stage = "2/3"
  <2>1. CASE AtOne
    BY <2>1, <1>3 DEF AtOne
  <2>2. CASE AtTwo
    <3>1. stage \in {"2/3", "3/3"}
      BY <2>2, <1>2 DEF AtTwo, TypeInv
    <3> QED BY <2>2, <3>1, <1>3 DEF AtTwo
  <2>3. CASE AtThree
    BY <2>3, <1>2, <1>3 DEF AtThree, StageInv
  <2> QED BY <2>1, <2>2, <2>3, <1>1, <1>2 DEF RunInv
<1>9. StageInv'
  BY <1>1, <1>2, <1>4, <1>8 DEF StageInv
<1>10. RunInv'
  BY <1>1, <1>2 DEF RunInv
<1>11. LossInv'
  <2>1. losses' # 0 /\ (losses' <= 1 => losses = 0)
    BY <1>1, <1>2
  <2>2. losses = 0 => IF bcb = "boot" THEN boot' = "rec" ELSE rec' # "mix"
    BY <1>1, <1>2, <1>3, <1>4 DEF LossInv
  <2> QED BY <1>1, <2>1, <2>2 DEF LossInv
<1>12. UnfitInv'
  <2>1. Refused' <=> Refused
    BY <1>1 DEF Refused
  <2>2. Damaged' => Damaged
    <3>1. c.bad \subseteq N
      BY <1>2, AllPackages DEF IsPackage
    <3> QED BY <1>1, <1>6, <3>1 DEF Damaged
  <2>3. ASSUME Refused' \/ Damaged'
        PROVE  /\ boot' = "src" /\ rec' = "src" /\ ~wiped' /\ ~resized' /\ stage' = "" /\ bcb' = "recovery"
               /\ \A p \in N : img'[p] \in {"src", "bad"}
    <3>1. Refused \/ Damaged
      BY <2>1, <2>2, <2>3
    <3>2. h \in Shaped(c) /\ h \notin Of(c, Writings)
      BY <3>1, <1>1, UnfitHead DEF h
    <3>3. UNCHANGED <<img, boot, rec>>
      BY <3>2, <1>4, <1>5, WritingSets
    <3>4. /\ boot = "src" /\ rec = "src" /\ ~wiped /\ ~resized /\ stage = "" /\ bcb = "recovery"
          /\ \A p \in N : img[p] \in {"src", "bad"}
      BY <3>1, <1>2 DEF UnfitInv
    <3> QED BY <1>1, <3>3, <3>4
  <2> QED BY <1>1, <2>3 DEF UnfitInv
<1>13. DoneInv'
  BY <1>1 DEF DoneInv, InstalledTarget
<1> QED BY <1>7, <1>9, <1>10, <1>11, <1>12, <1>13 DEF IInv

(* Every step keeps it. *)
LEMMA NextInv == IInv /\ [Next]_vars => IInv'
<1> SUFFICES ASSUME IInv, [Next]_vars PROVE IInv'
  OBVIOUS
<1>1. CASE Generate
  BY <1>1, GenerateInv
<1>2. CASE BootRecovery
  BY <1>2, BootInv
<1>3. CASE RunCommand
  <2>1. Ran \/ Aborted \/ Rebooted
    BY <1>3, CommandStep DEF IInv
  <2> QED BY <2>1, RanInv, AbortInv, RebootInv
<1>4. CASE Finish
  BY <1>4, FinishInv
<1>5. CASE InstallRecovery
  BY <1>5, InstallRecoveryInv
<1>6. CASE PowerLoss
  BY <1>6, PowerLossInv
<1>7. CASE Over \/ UNCHANGED vars
  <2>1. UNCHANGED vars
    BY <1>7 DEF Over
  <2>2. UNCHANGED <<c, status, script, meta, img, boot, rec, stage, bcb, running, prog, resized,
                    mounted, wiped, losses>>
    BY <2>1 DEF vars
  <2>3. TypeInv' /\ StageInv' /\ LossInv'
    BY <2>2 DEF IInv, TypeInv, StageInv, LossInv, InStep
  <2>4. RunInv'
    BY <2>2 DEF IInv, RunInv, AtOne, AtTwo, AtThree
  <2>5. UnfitInv'
    BY <2>2 DEF IInv, UnfitInv, Refused, Damaged
  <2>6. DoneInv'
    BY <2>2 DEF IInv, DoneInv, InstalledTarget
  <2> QED BY <2>3, <2>4, <2>5, <2>6 DEF IInv
<1> QED BY <1>1, <1>2, <1>3, <1>4, <1>5, <1>6, <1>7 DEF Next

(* The inductive invariant of the installation: every program that runs     *)
(* has, in what is left of it, the order that the script was written in.    *)
THEOREM Inductive == Spec => []IInv
BY InitInv, NextInv, PTL DEF Spec

(* WriteFullOTAPackage, _WriteRecoveryImageToBoot: for every package and    *)
(* any number of power losses, the image that the device boots next is a    *)
(* complete recovery system (after several losses: if the last reboot_now   *)
(* belongs to the stage).                                                   *)
THEOREM ResumableAlways == Spec => []Resumable
<1>1. IInv => Resumable
  BY DEF IInv, LossInv, StageInv, InStep, Bootable, Resumable
<1> QED BY <1>1, Inductive, PTL

(* WriteBlockIncrementalOTAPackage, WriteVerifyScript: a device that the    *)
(* package is not for is left as it was, for every package.                 *)
THEOREM UnfitUntouchedAlways == Spec => []UnfitUntouched
<1>1. IInv => UnfitUntouched
  BY DEF IInv, TypeInv, UnfitInv, UnfitUntouched
<1> QED BY <1>1, Inductive, PTL

(* GenerateNonAbOtaPackage, MakeRecoveryPatch: a script that comes to its   *)
(* end has installed the target, for every package and every power loss     *)
(* before.                                                                  *)
THEOREM InstalledTargetAlways == Spec => []InstalledTarget
<1>1. IInv => InstalledTarget
  BY DEF IInv, DoneInv
<1> QED BY <1>1, Inductive, PTL

-----------------------------------------------------------------------------
(* Sums over finite sets of partitions.                                    *)

(* The partial results of a sum over the subsets of S.                     *)
Pick(s) == CHOOSE y \in s : TRUE
Sums(f, S, g) ==
  /\ g \in [SUBSET S -> Nat]
  /\ \A s \in SUBSET S : g[s] = IF s = {} THEN 0 ELSE f[Pick(s)] + g[s \ {Pick(s)}]

(* An element of a finite set is picked; without it the set is smaller.    *)
LEMMA PickFacts ==
  ASSUME NEW S, IsFiniteSet(S), NEW s \in SUBSET S
  PROVE  /\ IsFiniteSet(s) /\ Cardinality(s) \in Nat /\ Cardinality(s) <= Cardinality(S)
         /\ Cardinality(s) = 0 <=> s = {}
         /\ s # {} => /\ Pick(s) \in s /\ s \ {Pick(s)} \in SUBSET S
                      /\ Cardinality(s \ {Pick(s)}) = Cardinality(s) - 1
<1>1. IsFiniteSet(s) /\ Cardinality(s) <= Cardinality(S)
  BY FS_Subset
<1>2. Cardinality(s) \in Nat /\ (Cardinality(s) = 0 <=> s = {})
  BY <1>1, FS_CardinalityType, FS_EmptySet
<1>3. ASSUME s # {} PROVE Pick(s) \in s
  BY <1>3 DEF Pick
<1>4. ASSUME s # {} PROVE Cardinality(s \ {Pick(s)}) = Cardinality(s) - 1
  BY <1>1, <1>3, <1>4, FS_RemoveElement
<1> QED BY <1>1, <1>2, <1>3, <1>4

(* The numbers of elements of the subsets of a finite set.                 *)
LEMMA BySize ==
  ASSUME NEW S, IsFiniteSet(S), NEW T, {} \in T,
         \A s \in SUBSET S : s # {} /\ s \ {Pick(s)} \in T => s \in T
  PROVE  \A s \in SUBSET S : s \in T
<1> DEFINE n == Cardinality(S)
           K == {m \in 0..n : \A s \in SUBSET S : Cardinality(s) = m => s \in T}
<1>1. n \in Nat
  BY FS_CardinalityType
<1>0. ASSUME NEW s \in SUBSET S
      PROVE  /\ Cardinality(s) \in 0..n /\ (Cardinality(s) = 0 => s = {})
             /\ s # {} => s \ {Pick(s)} \in SUBSET S /\ Cardinality(s \ {Pick(s)}) = Cardinality(s) - 1
  <2>1. /\ Cardinality(s) \in Nat /\ Cardinality(s) <= Cardinality(S)
        /\ Cardinality(s) = 0 => s = {}
        /\ s # {} => s \ {Pick(s)} \in SUBSET S /\ Cardinality(s \ {Pick(s)}) = Cardinality(s) - 1
    BY PickFacts
  <2> QED BY <1>1, <2>1
<1> HIDE DEF n
<1>2. 0 \in K
  <2>1. 0 \in 0..n
    BY <1>1
  <2>2. \A s \in SUBSET S : Cardinality(s) = 0 => s \in T
    BY <1>0
  <2> QED BY <2>1, <2>2
<1>3. ASSUME NEW m \in 0..(n - 1), m \in K PROVE m + 1 \in K
  <2>1. ASSUME NEW s \in SUBSET S, Cardinality(s) = m + 1 PROVE s \in T
    <3>1. s # {} /\ s \ {Pick(s)} \in SUBSET S /\ Cardinality(s \ {Pick(s)}) = m
      <4>1. m + 1 # 0
        OBVIOUS
      <4>2. Cardinality({}) = 0
        BY FS_EmptySet
      <4>3. s # {}
        BY <2>1, <4>1, <4>2
      <4> QED BY <2>1, <4>3, <1>0
    <3>2. s \ {Pick(s)} \in T
      BY <3>1, <1>3
    <3> QED BY <3>1, <3>2
  <2> QED BY <2>1, <1>1
<1>4. \A m \in 0..n : m \in K
  <2> HIDE DEF n, K
  <2> QED BY <1>1, <1>2, <1>3, UpTo
<1> QED BY <1>0, <1>4

(* The partial sums that MapThenSumSet's recursion needs exist, whatever    *)
(* element it picks first.                                                  *)
LEMMA SumsExist ==
  ASSUME NEW S, IsFiniteSet(S), NEW f \in [S -> Nat]
  PROVE  \E g : Sums(f, S, g)
<1> DEFINE n == Cardinality(S)
           Good(g, m) == \A s \in SUBSET S : Cardinality(s) <= m =>
                            g[s] = IF s = {} THEN 0 ELSE f[Pick(s)] + g[s \ {Pick(s)}]
           K == {m \in 0..n : \E g \in [SUBSET S -> Nat] : Good(g, m)}
<1>1. n \in Nat
  BY FS_CardinalityType
<1>0. ASSUME NEW s \in SUBSET S
      PROVE  /\ Cardinality(s) \in 0..n /\ (Cardinality(s) = 0 <=> s = {})
             /\ s # {} => Pick(s) \in S /\ s \ {Pick(s)} \in SUBSET S /\ Cardinality(s \ {Pick(s)}) = Cardinality(s) - 1
  <2>1. /\ Cardinality(s) \in Nat /\ Cardinality(s) <= Cardinality(S)
        /\ Cardinality(s) = 0 <=> s = {}
        /\ s # {} => Pick(s) \in S /\ s \ {Pick(s)} \in SUBSET S /\ Cardinality(s \ {Pick(s)}) = Cardinality(s) - 1
    BY PickFacts
  <2> QED BY <1>1, <2>1
<1> HIDE DEF n
<1>2. 0 \in K
  <2> DEFINE g == [s \in SUBSET S |-> 0]
  <2>1. g \in [SUBSET S -> Nat]
    OBVIOUS
  <2>2. ASSUME NEW s \in SUBSET S, Cardinality(s) <= 0 PROVE s = {}
    <3>1. Cardinality(s) \in Nat
      BY PickFacts
    <3>2. Cardinality(s) = 0
      BY <2>2, <3>1
    <3> QED BY <3>2, <1>0
  <2>3. \A s \in SUBSET S : g[s] = 0
    OBVIOUS
  <2> HIDE DEF g
  <2>4. Good(g, 0)
    BY <2>2, <2>3
  <2>5. 0 \in 0..n
    BY <1>1
  <2> HIDE DEF Good
  <2> QED BY <2>1, <2>4, <2>5
<1>3. ASSUME NEW m \in 0..(n - 1), m \in K PROVE m + 1 \in K
  <2>1. PICK g \in [SUBSET S -> Nat] : Good(g, m)
    BY <1>3
  <2> DEFINE r(s) == IF s = {} THEN 0 ELSE f[Pick(s)] + g[s \ {Pick(s)}]
             h == [s \in SUBSET S |-> IF Cardinality(s) <= m THEN g[s] ELSE r(s)]
  <2>2. \A s \in SUBSET S : r(s) \in Nat
    <3>1. ASSUME NEW s \in SUBSET S, s # {} PROVE f[Pick(s)] \in Nat /\ g[s \ {Pick(s)}] \in Nat
      <4>1. Pick(s) \in S /\ s \ {Pick(s)} \in SUBSET S
        BY <3>1, PickFacts
      <4> QED BY <4>1
    <3> QED BY <3>1
  <2>3. h \in [SUBSET S -> Nat]
    <3> HIDE DEF r
    <3> QED BY <2>2
  <2>4. \A s \in SUBSET S : h[s] = IF Cardinality(s) <= m THEN g[s] ELSE r(s)
    OBVIOUS
  <2> HIDE DEF h
  <2>5. ASSUME NEW s \in SUBSET S, Cardinality(s) <= m + 1
        PROVE  h[s] = IF s = {} THEN 0 ELSE f[Pick(s)] + h[s \ {Pick(s)}]
    <3>1. CASE s = {}
      <4>1. Cardinality(s) = 0
        BY <3>1, FS_EmptySet
      <4>2. Cardinality(s) <= m
        BY <4>1
      <4> QED BY <2>1, <2>4, <3>1, <4>2
    <3>2. CASE s # {}
      <4>1. s \ {Pick(s)} \in SUBSET S /\ Cardinality(s \ {Pick(s)}) <= m
        BY <2>5, <3>2, <1>0
      <4>2. h[s \ {Pick(s)}] = g[s \ {Pick(s)}]
        BY <4>1, <2>4
      <4>3. h[s] = f[Pick(s)] + g[s \ {Pick(s)}]
        BY <2>1, <2>4, <3>2
      <4> QED BY <4>2, <4>3, <3>2
    <3> QED BY <3>1, <3>2
  <2>6. Good(h, m + 1)
    BY <2>5
  <2> HIDE DEF Good
  <2>7. m + 1 \in 0..n
    BY <1>1
  <2> QED BY <2>3, <2>6, <2>7
<1>4. \A m \in 0..n : m \in K
  <2> HIDE DEF n, K
  <2> QED BY <1>1, <1>2, <1>3, UpTo
<1>5. PICK g \in [SUBSET S -> Nat] : Good(g, n)
  <2>1. n \in 0..n
    BY <1>1
  <2>2. n \in K
    <3> HIDE DEF K
    <3> QED BY <2>1, <1>4
  <2> QED BY <2>2
<1>6. ASSUME NEW s \in SUBSET S PROVE Cardinality(s) <= n
  <2>1. Cardinality(s) \in 0..n
    BY <1>0
  <2> QED BY <1>1, <2>1
<1>7. Sums(f, S, g)
  BY <1>5, <1>6 DEF Sums
<1> QED BY <1>7

(* What Total returns. *)
LEMMA TotalIs ==
  ASSUME NEW S, IsFiniteSet(S), NEW f \in [S -> Nat]
  PROVE  \E g : Sums(f, S, g) /\ Total(f) = g[S]
<1> DEFINE R(h) == h = [s \in SUBSET S |-> IF s = {} THEN 0
                                           ELSE f[CHOOSE y \in s : TRUE] + h[s \ {CHOOSE y \in s : TRUE}]]
           h0 == CHOOSE h : R(h)
<1>1. Total(f) = h0[S]
  <2>1. DOMAIN f = S
    OBVIOUS
  <2> QED BY <2>1 DEF Total, MapThenSumSet, MapThenFoldSet
<1>2. PICK g : Sums(f, S, g)
  BY SumsExist
<1>3. R(g)
  BY <1>2 DEF Sums, Pick
<1>4. R(h0)
  <2> HIDE DEF R
  <2> QED BY <1>3
<1> HIDE DEF h0
<1>5. \A s \in SUBSET S : h0[s] = IF s = {} THEN 0 ELSE f[Pick(s)] + h0[s \ {Pick(s)}]
  BY <1>4 DEF Pick
<1>6. \A s \in SUBSET S : h0[s] \in Nat
  <2> DEFINE T == {s \in SUBSET S : h0[s] \in Nat}
  <2>1. {} \in T
    <3>1. {} \in SUBSET S
      OBVIOUS
    <3>2. h0[{}] = 0
      BY <3>1, <1>5
    <3> QED BY <3>1, <3>2
  <2>2. ASSUME NEW s \in SUBSET S, s # {}, s \ {Pick(s)} \in T PROVE s \in T
    <3>1. Pick(s) \in S
      BY <2>2, PickFacts
    <3>2. f[Pick(s)] \in Nat
      BY <3>1
    <3> QED BY <3>2, <2>2, <1>5
  <2> HIDE DEF T
  <2>3. \A s \in SUBSET S : s \in T
    BY <2>1, <2>2, BySize
  <2> QED BY <2>3 DEF T
<1>7. Sums(f, S, h0)
  <2>1. h0 = [s \in SUBSET S |-> h0[s]]
    BY <1>4
  <2> QED BY <2>1, <1>5, <1>6 DEF Sums
<1> QED BY <1>1, <1>7

(* A sum of natural numbers is one. *)
LEMMA TotalType ==
  ASSUME NEW S, IsFiniteSet(S), NEW f \in [S -> Nat]
  PROVE  Total(f) \in Nat
<1>1. PICK g : Sums(f, S, g) /\ Total(f) = g[S]
  BY TotalIs
<1> QED BY <1>1 DEF Sums

(* A sum of smaller numbers is smaller. *)
LEMMA TotalLeq ==
  ASSUME NEW S, IsFiniteSet(S), NEW f \in [S -> Nat], NEW e \in [S -> Nat], \A y \in S : f[y] <= e[y]
  PROVE  Total(f) <= Total(e)
<1>1. PICK g : Sums(f, S, g) /\ Total(f) = g[S]
  BY TotalIs
<1>2. PICK h : Sums(e, S, h) /\ Total(e) = h[S]
  BY TotalIs
<1> DEFINE T == {s \in SUBSET S : g[s] <= h[s]}
<1>3. {} \in T
  <2>1. {} \in SUBSET S
    OBVIOUS
  <2>2. g[{}] = 0 /\ h[{}] = 0
    BY <1>1, <1>2, <2>1 DEF Sums
  <2> QED BY <2>1, <2>2
<1>4. ASSUME NEW s \in SUBSET S, s # {}, s \ {Pick(s)} \in T PROVE s \in T
  <2>1. Pick(s) \in S
    BY <1>4, PickFacts
  <2>2. f[Pick(s)] <= e[Pick(s)] /\ f[Pick(s)] \in Nat /\ e[Pick(s)] \in Nat
    BY <2>1
  <2>3. g[s] = f[Pick(s)] + g[s \ {Pick(s)}] /\ h[s] = e[Pick(s)] + h[s \ {Pick(s)}]
    BY <1>1, <1>2, <1>4 DEF Sums
  <2>4. g[s \ {Pick(s)}] \in Nat /\ h[s \ {Pick(s)}] \in Nat /\ g[s \ {Pick(s)}] <= h[s \ {Pick(s)}]
    BY <1>1, <1>2, <1>4 DEF Sums
  <2> QED BY <2>2, <2>3, <2>4
<1> HIDE DEF T
<1>5. \A s \in SUBSET S : s \in T
  BY <1>3, <1>4, BySize
<1>6. S \in T
  BY <1>5
<1> QED BY <1>1, <1>2, <1>6 DEF T

(* One number of a sum changes. *)
LEMMA TotalChange ==
  ASSUME NEW S, IsFiniteSet(S), NEW f \in [S -> Nat], NEW e \in [S -> Nat], NEW q \in S,
         \A y \in S \ {q} : f[y] = e[y]
  PROVE  Total(e) = Total(f) - f[q] + e[q]
<1>1. PICK g : Sums(f, S, g) /\ Total(f) = g[S]
  BY TotalIs
<1>2. PICK h : Sums(e, S, h) /\ Total(e) = h[S]
  BY TotalIs
<1> DEFINE T == {s \in SUBSET S : h[s] = IF q \in s THEN g[s] - f[q] + e[q] ELSE g[s]}
<1>3. {} \in T
  <2>1. {} \in SUBSET S
    OBVIOUS
  <2>2. g[{}] = 0 /\ h[{}] = 0
    BY <1>1, <1>2, <2>1 DEF Sums
  <2> QED BY <2>1, <2>2
<1>4. ASSUME NEW s \in SUBSET S, s # {}, s \ {Pick(s)} \in T PROVE s \in T
  <2>1. Pick(s) \in S /\ Pick(s) \in s
    BY <1>4, PickFacts
  <2>2. f[Pick(s)] \in Nat /\ e[Pick(s)] \in Nat /\ f[q] \in Nat /\ e[q] \in Nat
    BY <2>1
  <2>3. g[s] = f[Pick(s)] + g[s \ {Pick(s)}] /\ h[s] = e[Pick(s)] + h[s \ {Pick(s)}]
    BY <1>1, <1>2, <1>4 DEF Sums
  <2>4. g[s \ {Pick(s)}] \in Nat /\ h[s \ {Pick(s)}] \in Nat
    BY <1>1, <1>2, <1>4 DEF Sums
  <2>5. CASE Pick(s) = q
    <3>1. h[s \ {Pick(s)}] = g[s \ {Pick(s)}] /\ q \in s
      BY <1>4, <2>1, <2>5
    <3> QED BY <2>2, <2>3, <2>4, <2>5, <3>1
  <2>6. CASE Pick(s) # q
    <3>1. q \in s \ {Pick(s)} <=> q \in s
      BY <2>6
    <3>2. h[s \ {Pick(s)}] = IF q \in s THEN g[s \ {Pick(s)}] - f[q] + e[q] ELSE g[s \ {Pick(s)}]
      BY <1>4, <3>1
    <3>3. f[Pick(s)] = e[Pick(s)]
      BY <2>1, <2>6
    <3> QED BY <2>2, <2>3, <2>4, <3>2, <3>3
  <2> QED BY <2>5, <2>6
<1> HIDE DEF T
<1>5. \A s \in SUBSET S : s \in T
  BY <1>3, <1>4, BySize
<1>6. S \in T
  BY <1>5
<1> QED BY <1>1, <1>2, <1>6 DEF T

(* The operations ops, one after the other, turn the metadata m into e.    *)
Leads(m, ops, e) ==
  \E r : /\ DOMAIN r = 0..Len(ops) /\ r[0] = m /\ r[Len(ops)] = e
         /\ \A k \in 1..Len(ops) : r[k] = ApplyOp(r[k - 1], ops[k])

(* A list that leads from m to e gives e and nothing else on the device. *)
LEMMA LeadsApply ==
  ASSUME NEW X, NEW ops \in Seq(X), NEW m, NEW e, Leads(m, ops, e)
  PROVE  Apply(m, ops) = {e}
<1> DEFINE n == Len(ops)
           R(h) == h = [k \in 0..Len(ops) |-> IF k = 0 THEN {m} ELSE {ApplyOp(y, ops[k]) : y \in h[k - 1]}]
           h0 == CHOOSE h : R(h)
<1>1. Apply(m, ops) = h0[Len(ops)]
  BY DEF Apply
<1>2. PICK r : /\ DOMAIN r = 0..Len(ops) /\ r[0] = m /\ r[Len(ops)] = e
               /\ \A k \in 1..Len(ops) : r[k] = ApplyOp(r[k - 1], ops[k])
  BY DEF Leads
<1>3. n \in Nat
  OBVIOUS
<1>4. \E h : R(h)
  <2> DEFINE g == [k \in 0..n |-> {r[k]}]
  <2>1. ASSUME NEW k \in 0..n PROVE g[k] = IF k = 0 THEN {m} ELSE {ApplyOp(y, ops[k]) : y \in g[k - 1]}
    <3>1. CASE k = 0
      BY <3>1, <1>2
    <3>2. CASE k # 0
      <4>1. k \in 1..n /\ k - 1 \in 0..n
        BY <1>3, <3>2
      <4>2. g[k - 1] = {r[k - 1]} /\ g[k] = {r[k]}
        BY <4>1
      <4>3. r[k] = ApplyOp(r[k - 1], ops[k])
        BY <4>1, <1>2
      <4> HIDE DEF g
      <4> QED BY <3>2, <4>2, <4>3
    <3> QED BY <3>1, <3>2
  <2>2. DOMAIN g = 0..n /\ g = [k \in 0..n |-> g[k]]
    OBVIOUS
  <2>3. R(g)
    <3> HIDE DEF g
    <3> QED BY <2>1, <2>2
  <2> QED BY <2>3
<1>5. R(h0)
  <2> HIDE DEF R
  <2> QED BY <1>4
<1> HIDE DEF h0
<1>6. \A k \in 0..n : h0[k] = IF k = 0 THEN {m} ELSE {ApplyOp(y, ops[k]) : y \in h0[k - 1]}
  BY <1>5
<1> DEFINE K == {k \in 0..n : h0[k] = {r[k]}}
<1> HIDE DEF n, R
<1>7. 0 \in K
  <2>1. 0 \in 0..n
    BY <1>3
  <2>2. h0[0] = {m}
    BY <2>1, <1>6
  <2> QED BY <2>1, <2>2, <1>2
<1>8. ASSUME NEW k \in 0..(n - 1), k \in K PROVE k + 1 \in K
  <2>1. k + 1 \in 1..n /\ k + 1 \in 0..n /\ (k + 1) - 1 = k /\ k + 1 # 0
    BY <1>3
  <2>2. h0[k + 1] = {ApplyOp(y, ops[k + 1]) : y \in h0[k]}
    BY <2>1, <1>6
  <2>3. r[k + 1] = ApplyOp(r[k], ops[k + 1])
    BY <2>1, <1>2 DEF n
  <2>4. h0[k] = {r[k]}
    BY <1>8
  <2> QED BY <2>1, <2>2, <2>3, <2>4
<1> HIDE DEF K
<1>9. \A k \in 0..n : k \in K
  BY <1>3, <1>7, <1>8, UpTo
<1>10. h0[n] = {r[n]}
  <2>1. n \in 0..n
    BY <1>3
  <2> QED BY <2>1, <1>9 DEF K
<1> QED BY <1>1, <1>2, <1>10 DEF n

(* An empty list changes nothing. *)
LEMMA LeadsNone ==
  ASSUME NEW m
  PROVE  Leads(m, <<>>, m)
<1> DEFINE r == [k \in 0..0 |-> m]
<1>1. DOMAIN r = 0..Len(<<>>) /\ r[0] = m /\ r[Len(<<>>)] = m
  OBVIOUS
<1>2. \A k \in 1..Len(<<>>) : FALSE
  OBVIOUS
<1> HIDE DEF r
<1> QED BY <1>1, <1>2 DEF Leads

(* A list of one operation does that operation. *)
LEMMA LeadsOne ==
  ASSUME NEW m, NEW o
  PROVE  Leads(m, <<o>>, ApplyOp(m, o))
<1> DEFINE s == <<o>>
           e == ApplyOp(m, o)
           r == [k \in 0..1 |-> IF k = 0 THEN m ELSE e]
<1>0. Len(s) = 1 /\ s[1] = o
  OBVIOUS
<1>1. DOMAIN r = 0..1 /\ r[0] = m /\ r[1] = e
  OBVIOUS
<1> HIDE DEF r, s
<1>2. ASSUME NEW k \in 1..Len(s) PROVE r[k] = ApplyOp(r[k - 1], s[k])
  <2>1. k = 1 /\ k - 1 = 0
    BY <1>0
  <2> QED BY <2>1, <1>0, <1>1 DEF e
<1> HIDE DEF e
<1>3. Leads(m, s, e)
  BY <1>0, <1>1, <1>2 DEF Leads
<1> QED BY <1>3 DEF s, e

(* A list after another one starts from what that one left. *)
LEMMA LeadsConcat ==
  ASSUME NEW X, NEW s \in Seq(X), NEW t \in Seq(X), NEW m, NEW d, NEW e, Leads(m, s, d), Leads(d, t, e)
  PROVE  Leads(m, s \o t, e)
<1>1. PICK a : /\ DOMAIN a = 0..Len(s) /\ a[0] = m /\ a[Len(s)] = d
               /\ \A k \in 1..Len(s) : a[k] = ApplyOp(a[k - 1], s[k])
  BY DEF Leads
<1>2. PICK b : /\ DOMAIN b = 0..Len(t) /\ b[0] = d /\ b[Len(t)] = e
               /\ \A k \in 1..Len(t) : b[k] = ApplyOp(b[k - 1], t[k])
  BY DEF Leads
<1> DEFINE st == s \o t
           i == Len(s)
           j == Len(t)
           r == [k \in 0..(i + j) |-> IF k <= i THEN a[k] ELSE b[k - i]]
<1>3. /\ Len(st) = i + j /\ i \in Nat /\ j \in Nat
      /\ \A k \in 1..i : st[k] = s[k]
      /\ \A k \in 1..j : st[i + k] = t[k]
  BY ConcatFacts
<1> HIDE DEF st, i, j
<1>4. /\ DOMAIN r = 0..(i + j) /\ \A k \in 0..i : r[k] = a[k]
      /\ \A k \in 1..j : r[i + k] = b[k]
  BY <1>3
<1> HIDE DEF r
<1>5. r[0] = m
  <2>1. 0 \in 0..i
    BY <1>3
  <2> QED BY <2>1, <1>1, <1>4
<1>6. r[i] = d
  <2>1. i \in 0..i
    BY <1>3
  <2> QED BY <2>1, <1>1, <1>4 DEF i
<1>7. r[i + j] = e
  <2>1. CASE j = 0
    <3>1. b[0] = e /\ i + j = i
      BY <2>1, <1>2, <1>3 DEF j
    <3> QED BY <3>1, <1>2, <1>6
  <2>2. CASE j # 0
    <3>1. j \in 1..j
      BY <2>2, <1>3
    <3> QED BY <3>1, <1>2, <1>4 DEF j
  <2> QED BY <2>1, <2>2
<1>8. ASSUME NEW k \in 1..(i + j) PROVE r[k] = ApplyOp(r[k - 1], st[k])
  <2>1. CASE k <= i
    <3>1. k \in 1..i /\ k \in 0..i /\ k - 1 \in 0..i
      BY <2>1, <1>3
    <3>2. a[k] = ApplyOp(a[k - 1], s[k])
      BY <3>1, <1>1 DEF i
    <3> QED BY <3>1, <3>2, <1>3, <1>4
  <2>2. CASE k > i
    <3>1. k - i \in 1..j /\ i + (k - i) = k
      BY <2>2, <1>3
    <3>2. r[k] = b[k - i] /\ st[k] = t[k - i]
      BY <3>1, <1>3, <1>4
    <3>3. b[k - i] = ApplyOp(b[(k - i) - 1], t[k - i])
      BY <3>1, <1>2 DEF j
    <3>4. r[k - 1] = b[(k - i) - 1]
      <4>1. CASE k - i = 1
        <5>1. k - 1 = i /\ (k - i) - 1 = 0
          BY <4>1, <1>3
        <5> QED BY <5>1, <1>2, <1>6
      <4>2. CASE k - i # 1
        <5>1. (k - i) - 1 \in 1..j /\ i + ((k - i) - 1) = k - 1
          BY <3>1, <4>2, <1>3
        <5> QED BY <5>1, <1>4
      <4> QED BY <4>1, <4>2
    <3> QED BY <3>2, <3>3, <3>4
  <2> QED BY <2>1, <2>2, <1>3
<1>9. Leads(m, st, e)
  BY <1>3, <1>4, <1>5, <1>7, <1>8 DEF Leads
<1> QED BY <1>9 DEF st

(* A loop whose turns lead from f[k - 1] to f[k].                          *)
LEMMA LeadsFlatten ==
  ASSUME NEW X, NEW ss \in Seq(Seq(X)), NEW f,
         \A k \in 1..Len(ss) : Leads(f[k - 1], ss[k], f[k])
  PROVE  Leads(f[0], FlattenSeq(ss), f[Len(ss)])
<1> DEFINE n == Len(ss)
           K == {k \in 0..n : Leads(f[0], FlattenSeq(Prefix(ss, k)), f[k])}
<1>1. n \in Nat
  OBVIOUS
<1>2. /\ Prefix(ss, 0) = <<>> /\ Prefix(ss, n) = ss
      /\ \A k \in 0..n : Prefix(ss, k) \in Seq(Seq(X))
      /\ \A k \in 0..(n - 1) : ss[k + 1] \in Seq(X) /\ Prefix(ss, k + 1) = Append(Prefix(ss, k), ss[k + 1])
  BY PrefixFacts
<1> HIDE DEF n
<1>3. 0 \in K
  <2>1. 0 \in 0..n
    BY <1>1
  <2>2. Leads(f[0], FlattenSeq(Prefix(ss, 0)), f[0])
    BY <1>2, FlattenEmpty, LeadsNone
  <2> QED BY <2>1, <2>2
<1>4. ASSUME NEW k \in 0..(n - 1), k \in K PROVE k + 1 \in K
  <2> DEFINE a == FlattenSeq(Prefix(ss, k))
             b == FlattenSeq(Prefix(ss, k + 1))
  <2>1. k + 1 \in 1..n /\ k + 1 \in 0..n /\ (k + 1) - 1 = k /\ k \in 0..n
    BY <1>1
  <2>2. a \in Seq(X) /\ b = a \o ss[k + 1] /\ ss[k + 1] \in Seq(X)
    BY <2>1, <1>2, FlattenAppend
  <2>3. Leads(f[0], a, f[k])
    BY <1>4
  <2>4. Leads(f[k], ss[k + 1], f[k + 1])
    BY <2>1 DEF n
  <2> HIDE DEF a, b
  <2>5. Leads(f[0], b, f[k + 1])
    BY <2>2, <2>3, <2>4, LeadsConcat
  <2> QED BY <2>1, <2>5 DEF b
<1> HIDE DEF K
<1>5. \A k \in 0..n : k \in K
  BY <1>1, <1>3, <1>4, UpTo
<1>6. n \in 0..n
  BY <1>1
<1>7. Leads(f[0], FlattenSeq(Prefix(ss, n)), f[n])
  BY <1>5, <1>6 DEF K
<1> QED BY <1>2, <1>7 DEF n

(* A loop over the elements of s, which are different, that turns f[D]     *)
(* into f[D \union {p}] when it comes to p.                                *)
Distinct(s) == \A i, j \in 1..Len(s) : s[i] = s[j] => i = j
Stepwise(N, s, L, f) == \A D \in SUBSET N : \A p \in ToSet(s) \ D : Leads(f[D], L[p], f[D \union {p}])

(* The loop as a whole goes from f of the empty set to f of all the         *)
(* elements.                                                                *)
LEMMA LeadsEach ==
  ASSUME NEW X, NEW N, NEW s \in Seq(N), NEW L \in [N -> Seq(X)], NEW f,
         Distinct(s), Stepwise(N, s, L, f)
  PROVE  Leads(f[{}], Each(s, L), f[ToSet(s)])
<1> DEFINE n == Len(s)
           Done(k) == {s[j] : j \in 1..k}
           ss == [k \in 1..n |-> L[s[k]]]
           g == [k \in 0..n |-> f[Done(k)]]
<1>1. n \in Nat /\ \A k \in 1..n : s[k] \in N
  OBVIOUS
<1>2. Each(s, L) = FlattenSeq(ss)
  BY DEF Each
<1>3. ss \in Seq(Seq(X)) /\ Len(ss) = n
  <2>1. \A k \in 1..n : L[s[k]] \in Seq(X)
    BY <1>1
  <2> QED BY <1>1, <2>1
<1>4. \A k \in 1..n : ss[k] = L[s[k]]
  OBVIOUS
<1>5. \A k \in 0..n : g[k] = f[Done(k)]
  OBVIOUS
<1>6. ToSet(s) = Done(n) /\ Done(0) = {}
  <2>1. DOMAIN s = 1..n
    OBVIOUS
  <2> QED BY <2>1 DEF ToSet
<1> HIDE DEF n, ss, g
<1>7. ASSUME NEW k \in 1..n PROVE Leads(g[k - 1], ss[k], g[k])
  <2>1. k - 1 \in 0..n /\ k \in 0..n
    BY <1>1
  <2>2. s[k] \in ToSet(s)
    BY <1>6
  <2>3. s[k] \notin Done(k - 1)
    <3>1. \A j \in 1..(k - 1) : j \in 1..n /\ j # k
      BY <1>1
    <3>2. \A j \in 1..(k - 1) : s[j] # s[k]
      BY <3>1 DEF n, Distinct
    <3> QED BY <3>2
  <2>4. Done(k) = Done(k - 1) \union {s[k]}
    <3>1. \A j : j \in 1..k <=> j \in 1..(k - 1) \/ j = k
      BY <1>1
    <3> QED BY <3>1
  <2>5. Done(k - 1) \in SUBSET N
    <3>1. \A j \in 1..(k - 1) : j \in 1..n
      BY <1>1
    <3> QED BY <3>1, <1>1
  <2> HIDE DEF Done
  <2>6. Leads(f[Done(k - 1)], L[s[k]], f[Done(k - 1) \union {s[k]}])
    BY <2>2, <2>3, <2>5 DEF Stepwise
  <2> QED BY <2>1, <2>4, <2>6, <1>4, <1>5
<1>8. Leads(g[0], FlattenSeq(ss), g[n])
  BY <1>3, <1>7, LeadsFlatten
<1>9. 0 \in 0..n /\ n \in 0..n
  BY <1>1
<1> QED BY <1>2, <1>5, <1>6, <1>8, <1>9

-----------------------------------------------------------------------------
(* The metadata of super, and what partitions take of it.                  *)
Meta(ga, sz, li) == [ok |-> TRUE, group |-> ga, size |-> sz, limit |-> li]
Share(ga, sz, g) == [q \in DOMAIN ga |-> IF ga[q] = g THEN sz[q] ELSE 0]

(* The parts of metadata, *)
LEMMA MetaFields ==
  ASSUME NEW ga, NEW sz, NEW li
  PROVE  Meta(ga, sz, li).group = ga /\ Meta(ga, sz, li).size = sz /\ Meta(ga, sz, li).limit = li
BY DEF Meta

(* which no operation has been refused of, *)
LEMMA MetaOk ==
  ASSUME NEW ga, NEW sz, NEW li
  PROVE  Meta(ga, sz, li).ok
BY DEF Meta

(* and what its partitions take of a group and of super. *)
LEMMA MetaUse ==
  ASSUME NEW ga, NEW sz, NEW li, NEW g
  PROVE  Used(Meta(ga, sz, li), g) = Total(Share(ga, sz, g)) /\ Allocated(Meta(ga, sz, li)) = Total(sz)
BY DEF Used, Allocated, Meta, Share

(* Two functions that differ at most in p.                                 *)
Beyond(N, p, f, e) == \A y \in N \ {p} : e[y] = f[y]
Within(N, ga, sz, ha, tz, g) == \A q \in N : ga[q] = g => ha[q] = g /\ sz[q] <= tz[q]

(* A group takes no more than with other partitions, if each of its        *)
(* partitions is one of these and no larger.                               *)
LEMMA ShareLeq ==
  ASSUME NEW N, IsFiniteSet(N), NEW H, NEW ga \in [N -> H], NEW ha \in [N -> H],
         NEW sz \in [N -> Nat], NEW tz \in [N -> Nat], NEW g,
         Within(N, ga, sz, ha, tz, g)
  PROVE  /\ Total(Share(ga, sz, g)) <= Total(Share(ha, tz, g))
         /\ Total(Share(ga, sz, g)) \in Nat /\ Total(Share(ha, tz, g)) \in Nat
<1> DEFINE a == Share(ga, sz, g)
           b == Share(ha, tz, g)
<1>1. a \in [N -> Nat] /\ b \in [N -> Nat]
  BY DEF Share
<1>2. \A y \in N : a[y] <= b[y]
  <2> SUFFICES ASSUME NEW y \in N PROVE a[y] <= b[y]
    OBVIOUS
  <2>1. a[y] = (IF ga[y] = g THEN sz[y] ELSE 0) /\ b[y] = (IF ha[y] = g THEN tz[y] ELSE 0)
    BY DEF Share
  <2>2. sz[y] \in Nat /\ tz[y] \in Nat /\ (ga[y] = g => ha[y] = g /\ sz[y] <= tz[y])
    BY DEF Within
  <2> HIDE DEF a, b
  <2> QED BY <2>1, <2>2
<1> HIDE DEF a, b
<1>3. Total(a) <= Total(b) /\ Total(a) \in Nat /\ Total(b) \in Nat
  BY <1>1, <1>2, TotalLeq, TotalType
<1> QED BY <1>3 DEF a, b

-----------------------------------------------------------------------------
(* Records of metadata with one field changed.                             *)
LEMMA WithGroup ==
  ASSUME NEW a, NEW b, NEW d, NEW e, NEW f
  PROVE  [[ok |-> a, group |-> b, size |-> d, limit |-> e] EXCEPT !.group = f] = [ok |-> a, group |-> f, size |-> d, limit |-> e]
OBVIOUS

(* The same for metadata: the groups of the partitions, *)
LEMMA MetaGroup ==
  ASSUME NEW ga, NEW sz, NEW li, NEW f
  PROVE  [Meta(ga, sz, li) EXCEPT !.group = f] = Meta(f, sz, li)
<1> DEFINE tt == TRUE
<1> HIDE DEF tt
<1>1. /\ Meta(ga, sz, li) = [ok |-> tt, group |-> ga, size |-> sz, limit |-> li]
      /\ Meta(f, sz, li) = [ok |-> tt, group |-> f, size |-> sz, limit |-> li]
  BY DEF Meta, tt
<1> QED BY <1>1, WithGroup

(* The sizes changed, *)
LEMMA WithSize ==
  ASSUME NEW a, NEW b, NEW d, NEW e, NEW f
  PROVE  [[ok |-> a, group |-> b, size |-> d, limit |-> e] EXCEPT !.size = f] = [ok |-> a, group |-> b, size |-> f, limit |-> e]
OBVIOUS

(* their sizes, *)
LEMMA MetaSize ==
  ASSUME NEW ga, NEW sz, NEW li, NEW f
  PROVE  [Meta(ga, sz, li) EXCEPT !.size = f] = Meta(ga, f, li)
<1> DEFINE tt == TRUE
<1> HIDE DEF tt
<1>1. /\ Meta(ga, sz, li) = [ok |-> tt, group |-> ga, size |-> sz, limit |-> li]
      /\ Meta(ga, f, li) = [ok |-> tt, group |-> ga, size |-> f, limit |-> li]
  BY DEF Meta, tt
<1> QED BY <1>1, WithSize

(* and the limits changed. *)
LEMMA WithLimit ==
  ASSUME NEW a, NEW b, NEW d, NEW e, NEW f
  PROVE  [[ok |-> a, group |-> b, size |-> d, limit |-> e] EXCEPT !.limit = f] = [ok |-> a, group |-> b, size |-> d, limit |-> f]
OBVIOUS

(* and the limits of the groups. *)
LEMMA MetaLimit ==
  ASSUME NEW ga, NEW sz, NEW li, NEW f
  PROVE  [Meta(ga, sz, li) EXCEPT !.limit = f] = Meta(ga, sz, f)
<1> DEFINE tt == TRUE
<1> HIDE DEF tt
<1>1. /\ Meta(ga, sz, li) = [ok |-> tt, group |-> ga, size |-> sz, limit |-> li]
      /\ Meta(ga, sz, f) = [ok |-> tt, group |-> ga, size |-> sz, limit |-> f]
  BY DEF Meta, tt
<1> QED BY <1>1, WithLimit

-----------------------------------------------------------------------------
(* What each operation does when it is accepted.                           *)
Removing(N, H, ga, sz, p, ha, tz) ==
  /\ ga \in [N -> H] /\ ha \in [N -> H] /\ sz \in [N -> Nat] /\ tz \in [N -> Nat] /\ p \in N
  /\ ga[p] # NoGroup /\ ha[p] = NoGroup /\ tz[p] = 0
  /\ Beyond(N, p, ga, ha) /\ Beyond(N, p, sz, tz)

(* The device accepts to remove a partition that is there, and does it. *)
LEMMA DoRemove ==
  ASSUME NEW N, NEW H, NEW ga, NEW sz, NEW p, NEW ha, NEW tz, NEW li,
         Removing(N, H, ga, sz, p, ha, tz)
  PROVE  ApplyOp(Meta(ga, sz, li), Op("remove", p, NoGroup, 0)) = Meta(ha, tz, li)
<1>0. /\ ga \in [N -> H] /\ ha \in [N -> H] /\ sz \in [N -> Nat] /\ tz \in [N -> Nat] /\ p \in N
      /\ ga[p] # NoGroup /\ ha[p] = NoGroup /\ tz[p] = 0
      /\ Beyond(N, p, ga, ha) /\ Beyond(N, p, sz, tz)
  BY DEF Removing
<1> DEFINE m == Meta(ga, sz, li)
           o == Op("remove", p, NoGroup, 0)
           w == Meta(ha, sz, li)
<1>1. o.op = "remove" /\ o.name = p
  BY DEF Op
<1>2. m.group = ga /\ m.size = sz /\ w.size = sz
  BY MetaFields
<1>3. m.ok
  BY MetaOk
<1>4. Accepts(m, o)
  <2> HIDE DEF m, o
  <2> QED BY <1>0, <1>1, <1>2 DEF Accepts
<1>5. Effect(m, o) = [m EXCEPT !.group[p] = NoGroup, !.size[p] = 0]
  <2> HIDE DEF m, o
  <2> QED BY <1>1 DEF Effect
<1>6. [m EXCEPT !.group = ha] = w
  BY MetaGroup
<1>7. [w EXCEPT !.size = tz] = Meta(ha, tz, li)
  BY MetaSize
<1> HIDE DEF m, o, w
<1>8. [m EXCEPT !.group[p] = NoGroup, !.size[p] = 0] = [[m EXCEPT !.group[p] = NoGroup] EXCEPT !.size[p] = 0]
  OBVIOUS
<1>9. [m EXCEPT !.group[p] = NoGroup] = [m EXCEPT !.group = ha]
  <2>1. ha = [ga EXCEPT ![p] = NoGroup]
    BY <1>0 DEF Beyond
  <2> QED BY <1>2, <2>1
<1>10. [w EXCEPT !.size[p] = 0] = [w EXCEPT !.size = tz]
  <2>1. tz = [sz EXCEPT ![p] = 0]
    BY <1>0 DEF Beyond
  <2> QED BY <1>2, <2>1
<1>11. ApplyOp(m, o) = Meta(ha, tz, li)
  BY <1>3, <1>4, <1>5, <1>6, <1>7, <1>8, <1>9, <1>10 DEF ApplyOp
<1> QED BY <1>11 DEF m, o

Moving(N, H, ga, sz, li, p, g, ha) ==
  /\ IsFiniteSet(N) /\ ga \in [N -> H] /\ ha \in [N -> H] /\ sz \in [N -> Nat] /\ p \in N
  /\ ga[p] # NoGroup /\ ga[p] # g /\ ha[p] = g /\ Beyond(N, p, ga, ha)
  /\ g = Default \/ (li[g] # NoLimit /\ (li[g] = 0 \/ Total(Share(ha, sz, g)) <= li[g]))

(* It accepts a move to a group that exists and has room for the partition. *)
LEMMA DoMove ==
  ASSUME NEW N, NEW H, NEW ga, NEW sz, NEW li, NEW p, NEW g, NEW ha,
         Moving(N, H, ga, sz, li, p, g, ha)
  PROVE  ApplyOp(Meta(ga, sz, li), Op("move", p, g, 0)) = Meta(ha, sz, li)
<1>0. /\ IsFiniteSet(N) /\ ga \in [N -> H] /\ ha \in [N -> H] /\ sz \in [N -> Nat] /\ p \in N
      /\ ga[p] # NoGroup /\ ga[p] # g /\ ha[p] = g /\ Beyond(N, p, ga, ha)
      /\ g = Default \/ (li[g] # NoLimit /\ (li[g] = 0 \/ Total(Share(ha, sz, g)) <= li[g]))
  BY DEF Moving
<1> DEFINE m == Meta(ga, sz, li)
           o == Op("move", p, g, 0)
<1>1. o.op = "move" /\ o.name = p /\ o.group = g
  BY DEF Op
<1>2. m.group = ga /\ m.size = sz /\ m.limit = li
  BY MetaFields
<1>3. m.ok
  BY MetaOk
<1>4. Accepts(m, o)
  <2>1. Used(m, g) = Total(Share(ga, sz, g))
    BY MetaUse
  <2>2. Total(Share(ha, sz, g)) = Total(Share(ga, sz, g)) + sz[p]
    <3> DEFINE a == Share(ga, sz, g)
               b == Share(ha, sz, g)
    <3>1. a \in [N -> Nat] /\ a[p] = 0
      BY <1>0 DEF Share
    <3>2. b \in [N -> Nat] /\ b[p] = sz[p]
      BY <1>0 DEF Share
    <3>3. \A y \in N \ {p} : a[y] = b[y]
      BY <1>0 DEF Share, Beyond
    <3> HIDE DEF a, b
    <3>4. Total(b) = Total(a) - a[p] + b[p]
      BY <1>0, <3>1, <3>2, <3>3, TotalChange
    <3>5. Total(a) \in Nat /\ sz[p] \in Nat
      BY <1>0, <3>1, TotalType
    <3> QED BY <3>1, <3>2, <3>4, <3>5 DEF a, b
  <2>3. g = Default \/ (li[g] # NoLimit /\ (li[g] = 0 \/ Total(Share(ga, sz, g)) + sz[p] <= li[g]))
    BY <1>0, <2>2
  <2> HIDE DEF m, o
  <2>4. GroupExists(m, g) /\ Fits(m, g, sz[p])
    BY <1>2, <2>1, <2>3 DEF GroupExists, Fits
  <2> QED BY <1>0, <1>1, <1>2, <2>4 DEF Accepts
<1>5. Effect(m, o) = [m EXCEPT !.group[p] = g]
  <2> HIDE DEF m, o
  <2> QED BY <1>1 DEF Effect
<1>6. [m EXCEPT !.group = ha] = Meta(ha, sz, li)
  BY MetaGroup
<1> HIDE DEF m, o
<1>7. [m EXCEPT !.group[p] = g] = [m EXCEPT !.group = ha]
  <2>1. ha = [ga EXCEPT ![p] = g]
    BY <1>0 DEF Beyond
  <2> QED BY <1>2, <2>1
<1>8. ApplyOp(m, o) = Meta(ha, sz, li)
  BY <1>3, <1>4, <1>5, <1>6, <1>7 DEF ApplyOp
<1> QED BY <1>8 DEF m, o

Adding(N, H, ga, li, p, g, ha) ==
  /\ ga \in [N -> H] /\ ha \in [N -> H] /\ p \in N
  /\ ga[p] = NoGroup /\ li[g] # NoLimit /\ ha[p] = g /\ Beyond(N, p, ga, ha)

(* It accepts a partition that is not there, for a group that exists. *)
LEMMA DoAdd ==
  ASSUME NEW N, NEW H, NEW ga, NEW li, NEW p, NEW g, NEW ha, NEW sz,
         Adding(N, H, ga, li, p, g, ha)
  PROVE  ApplyOp(Meta(ga, sz, li), Op("add", p, g, 0)) = Meta(ha, sz, li)
<1>0. /\ ga \in [N -> H] /\ ha \in [N -> H] /\ p \in N
      /\ ga[p] = NoGroup /\ li[g] # NoLimit /\ ha[p] = g /\ Beyond(N, p, ga, ha)
  BY DEF Adding
<1> DEFINE m == Meta(ga, sz, li)
           o == Op("add", p, g, 0)
<1>1. o.op = "add" /\ o.name = p /\ o.group = g
  BY DEF Op
<1>2. m.group = ga /\ m.size = sz /\ m.limit = li
  BY MetaFields
<1>3. m.ok
  BY MetaOk
<1>4. Accepts(m, o)
  <2> HIDE DEF m, o
  <2> QED BY <1>0, <1>1, <1>2 DEF Accepts, GroupExists
<1>5. Effect(m, o) = [m EXCEPT !.group[p] = g]
  <2> HIDE DEF m, o
  <2> QED BY <1>1 DEF Effect
<1>6. [m EXCEPT !.group = ha] = Meta(ha, sz, li)
  BY MetaGroup
<1> HIDE DEF m, o
<1>7. [m EXCEPT !.group[p] = g] = [m EXCEPT !.group = ha]
  <2>1. ha = [ga EXCEPT ![p] = g]
    BY <1>0 DEF Beyond
  <2> QED BY <1>2, <2>1
<1>8. ApplyOp(m, o) = Meta(ha, sz, li)
  BY <1>3, <1>4, <1>5, <1>6, <1>7 DEF ApplyOp
<1> QED BY <1>8 DEF m, o

Resizing(N, H, ga, sz, li, p, g, tz) ==
  /\ IsFiniteSet(N) /\ ga \in [N -> H] /\ sz \in [N -> Nat] /\ tz \in [N -> Nat] /\ p \in N
  /\ ga[p] = g /\ g # NoGroup /\ Beyond(N, p, sz, tz)
  /\ g = Default \/ li[g] = 0 \/ Total(Share(ga, tz, g)) <= li[g]
  /\ Total(tz) <= SuperSize

(* It accepts a size that the group and super have room for. *)
LEMMA DoResize ==
  ASSUME NEW N, NEW H, NEW ga, NEW sz, NEW li, NEW p, NEW g, NEW tz,
         Resizing(N, H, ga, sz, li, p, g, tz)
  PROVE  ApplyOp(Meta(ga, sz, li), Op("resize", p, NoGroup, tz[p])) = Meta(ga, tz, li)
<1>0. /\ IsFiniteSet(N) /\ ga \in [N -> H] /\ sz \in [N -> Nat] /\ tz \in [N -> Nat] /\ p \in N
      /\ ga[p] = g /\ g # NoGroup /\ Beyond(N, p, sz, tz)
      /\ g = Default \/ li[g] = 0 \/ Total(Share(ga, tz, g)) <= li[g]
      /\ Total(tz) <= SuperSize
  BY DEF Resizing
<1> DEFINE m == Meta(ga, sz, li)
           o == Op("resize", p, NoGroup, tz[p])
<1>1. o.op = "resize" /\ o.name = p /\ o.size = tz[p]
  BY DEF Op
<1>2. m.group = ga /\ m.size = sz /\ m.limit = li
  BY MetaFields
<1>3. m.ok
  BY MetaOk
<1>4. Accepts(m, o)
  <2>1. Total(Share(ga, tz, g)) = Total(Share(ga, sz, g)) + (tz[p] - sz[p])
    <3> DEFINE a == Share(ga, sz, g)
               b == Share(ga, tz, g)
    <3>1. a \in [N -> Nat] /\ a[p] = sz[p]
      BY <1>0 DEF Share
    <3>2. b \in [N -> Nat] /\ b[p] = tz[p]
      BY <1>0 DEF Share
    <3>3. \A y \in N \ {p} : a[y] = b[y]
      BY <1>0 DEF Share, Beyond
    <3> HIDE DEF a, b
    <3>4. Total(b) = Total(a) - a[p] + b[p]
      BY <1>0, <3>1, <3>2, <3>3, TotalChange
    <3>5. Total(a) \in Nat /\ sz[p] \in Nat /\ tz[p] \in Nat
      BY <1>0, <3>1, TotalType
    <3> QED BY <3>1, <3>2, <3>4, <3>5 DEF a, b
  <2>2. Total(tz) = Total(sz) - sz[p] + tz[p]
    BY <1>0, TotalChange DEF Beyond
  <2>3. g = Default \/ li[g] = 0 \/ Total(Share(ga, sz, g)) + (tz[p] - sz[p]) <= li[g]
    BY <1>0, <2>1
  <2>4. Total(sz) - sz[p] + tz[p] <= SuperSize
    BY <1>0, <2>2
  <2>5. Used(m, g) = Total(Share(ga, sz, g)) /\ Allocated(m) = Total(sz)
    BY MetaUse
  <2> HIDE DEF m, o
  <2>6. m.group[p] = g /\ Fits(m, g, tz[p] - m.size[p])
    BY <1>0, <1>2, <2>3, <2>5 DEF Fits
  <2>7. Allocated(m) - m.size[p] + tz[p] <= SuperSize
    BY <1>2, <2>4, <2>5
  <2> QED BY <1>0, <1>1, <1>2, <2>6, <2>7 DEF Accepts
<1>5. Effect(m, o) = [m EXCEPT !.size[p] = tz[p]]
  <2> HIDE DEF m, o
  <2> QED BY <1>1 DEF Effect
<1>6. [m EXCEPT !.size = tz] = Meta(ga, tz, li)
  BY MetaSize
<1> HIDE DEF m, o
<1>7. [m EXCEPT !.size[p] = tz[p]] = [m EXCEPT !.size = tz]
  <2>1. tz = [sz EXCEPT ![p] = tz[p]]
    BY <1>0 DEF Beyond
  <2> QED BY <1>2, <2>1
<1>8. ApplyOp(m, o) = Meta(ga, tz, li)
  BY <1>3, <1>4, <1>5, <1>6, <1>7 DEF ApplyOp
<1> QED BY <1>8 DEF m, o

RemovingGroup(N, H, ga, G, li, g, ki) ==
  /\ ga \in [N -> H] /\ li \in [G -> Int] /\ ki \in [G -> Int] /\ g \in G
  /\ \A q \in N : ga[q] # g
  /\ li[g] # NoLimit /\ ki[g] = NoLimit /\ Beyond(G, g, li, ki)

(* It accepts to remove a group that has no partitions, *)
LEMMA DoRemoveGroup ==
  ASSUME NEW N, NEW H, NEW ga, NEW G, NEW li, NEW g, NEW ki, NEW sz,
         RemovingGroup(N, H, ga, G, li, g, ki)
  PROVE  ApplyOp(Meta(ga, sz, li), Op("remove_group", g, NoGroup, 0)) = Meta(ga, sz, ki)
<1>0. /\ ga \in [N -> H] /\ li \in [G -> Int] /\ ki \in [G -> Int] /\ g \in G
      /\ \A q \in N : ga[q] # g
      /\ li[g] # NoLimit /\ ki[g] = NoLimit /\ Beyond(G, g, li, ki)
  BY DEF RemovingGroup
<1> DEFINE m == Meta(ga, sz, li)
           o == Op("remove_group", g, NoGroup, 0)
<1>1. o.op = "remove_group" /\ o.name = g
  BY DEF Op
<1>2. m.group = ga /\ m.size = sz /\ m.limit = li
  BY MetaFields
<1>3. m.ok
  BY MetaOk
<1>4. Accepts(m, o)
  <2> HIDE DEF m, o
  <2> QED BY <1>0, <1>1, <1>2 DEF Accepts, GroupExists
<1>5. Effect(m, o) = [m EXCEPT !.limit[g] = NoLimit]
  <2> HIDE DEF m, o
  <2> QED BY <1>1 DEF Effect
<1>6. [m EXCEPT !.limit = ki] = Meta(ga, sz, ki)
  BY MetaLimit
<1> HIDE DEF m, o
<1>7. [m EXCEPT !.limit[g] = NoLimit] = [m EXCEPT !.limit = ki]
  <2>1. ki = [li EXCEPT ![g] = NoLimit]
    BY <1>0 DEF Beyond
  <2> QED BY <1>2, <2>1
<1>8. ApplyOp(m, o) = Meta(ga, sz, ki)
  BY <1>3, <1>4, <1>5, <1>6, <1>7 DEF ApplyOp
<1> QED BY <1>8 DEF m, o

ResizingGroup(N, H, ga, sz, G, li, g, n, ki) ==
  /\ ga \in [N -> H] /\ li \in [G -> Int] /\ ki \in [G -> Int] /\ g \in G
  /\ n = 0 \/ Total(Share(ga, sz, g)) <= n
  /\ li[g] # NoLimit /\ ki[g] = n /\ Beyond(G, g, li, ki)

(* a limit that the partitions of the group keep to, *)
LEMMA DoResizeGroup ==
  ASSUME NEW N, NEW H, NEW ga, NEW sz, NEW G, NEW li, NEW g, NEW n, NEW ki,
         ResizingGroup(N, H, ga, sz, G, li, g, n, ki)
  PROVE  ApplyOp(Meta(ga, sz, li), Op("resize_group", g, NoGroup, n)) = Meta(ga, sz, ki)
<1>0. /\ ga \in [N -> H] /\ li \in [G -> Int] /\ ki \in [G -> Int] /\ g \in G
      /\ n = 0 \/ Total(Share(ga, sz, g)) <= n
      /\ li[g] # NoLimit /\ ki[g] = n /\ Beyond(G, g, li, ki)
  BY DEF ResizingGroup
<1> DEFINE m == Meta(ga, sz, li)
           o == Op("resize_group", g, NoGroup, n)
<1>1. o.op = "resize_group" /\ o.name = g /\ o.size = n
  BY DEF Op
<1>2. m.group = ga /\ m.size = sz /\ m.limit = li
  BY MetaFields
<1>3. m.ok
  BY MetaOk
<1>4. Accepts(m, o)
  <2>1. Used(m, g) = Total(Share(ga, sz, g))
    BY MetaUse
  <2> HIDE DEF m, o
  <2> QED BY <1>0, <1>1, <1>2, <2>1 DEF Accepts, GroupExists
<1>5. Effect(m, o) = [m EXCEPT !.limit[g] = n]
  <2> HIDE DEF m, o
  <2> QED BY <1>1 DEF Effect
<1>6. [m EXCEPT !.limit = ki] = Meta(ga, sz, ki)
  BY MetaLimit
<1> HIDE DEF m, o
<1>7. [m EXCEPT !.limit[g] = n] = [m EXCEPT !.limit = ki]
  <2>1. ki = [li EXCEPT ![g] = n]
    BY <1>0 DEF Beyond
  <2> QED BY <1>2, <2>1
<1>8. ApplyOp(m, o) = Meta(ga, sz, ki)
  BY <1>3, <1>4, <1>5, <1>6, <1>7 DEF ApplyOp
<1> QED BY <1>8 DEF m, o

AddingGroup(G, li, g, n, ki) ==
  /\ li \in [G -> Int] /\ ki \in [G -> Int] /\ g \in G /\ g # Default
  /\ li[g] = NoLimit /\ ki[g] = n /\ Beyond(G, g, li, ki)

(* and a group that does not exist. *)
LEMMA DoAddGroup ==
  ASSUME NEW G, NEW li, NEW g, NEW n, NEW ki, NEW ga, NEW sz,
         AddingGroup(G, li, g, n, ki)
  PROVE  ApplyOp(Meta(ga, sz, li), Op("add_group", g, NoGroup, n)) = Meta(ga, sz, ki)
<1>0. /\ li \in [G -> Int] /\ ki \in [G -> Int] /\ g \in G /\ g # Default
      /\ li[g] = NoLimit /\ ki[g] = n /\ Beyond(G, g, li, ki)
  BY DEF AddingGroup
<1> DEFINE m == Meta(ga, sz, li)
           o == Op("add_group", g, NoGroup, n)
<1>1. o.op = "add_group" /\ o.name = g /\ o.size = n
  BY DEF Op
<1>2. m.group = ga /\ m.size = sz /\ m.limit = li
  BY MetaFields
<1>3. m.ok
  BY MetaOk
<1>4. Accepts(m, o)
  <2> HIDE DEF m, o
  <2> QED BY <1>0, <1>1, <1>2 DEF Accepts, GroupExists
<1>5. Effect(m, o) = [m EXCEPT !.limit[g] = n]
  <2> HIDE DEF m, o
  <2> QED BY <1>1 DEF Effect
<1>6. [m EXCEPT !.limit = ki] = Meta(ga, sz, ki)
  BY MetaLimit
<1> HIDE DEF m, o
<1>7. [m EXCEPT !.limit[g] = n] = [m EXCEPT !.limit = ki]
  <2>1. ki = [li EXCEPT ![g] = n]
    BY <1>0 DEF Beyond
  <2> QED BY <1>2, <2>1
<1>8. ApplyOp(m, o) = Meta(ga, sz, ki)
  BY <1>3, <1>4, <1>5, <1>6, <1>7 DEF ApplyOp
<1> QED BY <1>8 DEF m, o

(* A layout that the partitions of N can be given, from a valid one.       *)
Groups0(v) == ToSet(v.groups)
Layout(v, N) ==
  /\ IsFiniteSet(N)
  /\ v.names \in Seq(N) /\ Distinct(v.names)
  /\ v.groups \in Seq(Groups0(v)) /\ Distinct(v.groups)
  /\ NoGroup \notin Groups0(v) /\ Default \notin Groups0(v)
  /\ v.srcGroup \in [N -> Groups0(v) \union {NoGroup}] /\ v.tgtGroup \in [N -> Groups0(v) \union {NoGroup}]
  /\ v.srcSize \in [N -> Nat] /\ v.tgtSize \in [N -> Nat]
  /\ v.srcLimit \in [Groups0(v) -> Nat \union {NoLimit}] /\ v.tgtLimit \in [Groups0(v) -> Nat \union {NoLimit}]
  /\ \A q \in N : v.srcGroup[q] = NoGroup <=> v.srcSize[q] = 0
  /\ \A q \in N : v.tgtGroup[q] = NoGroup <=> v.tgtSize[q] = 0
  /\ \A q \in N \ ToSet(v.names) : v.srcGroup[q] = NoGroup /\ v.tgtGroup[q] = NoGroup
  /\ Total(v.srcSize) <= SuperSize /\ Total(v.tgtSize) <= SuperSize
  /\ \A q \in N : v.srcGroup[q] # NoGroup => v.srcLimit[v.srcGroup[q]] # NoLimit
  /\ \A q \in N : v.tgtGroup[q] # NoGroup => v.tgtLimit[v.tgtGroup[q]] # NoLimit
  /\ \A g \in Groups0(v) : v.srcLimit[g] \notin {NoLimit, 0} => Total(Share(v.srcGroup, v.srcSize, g)) <= v.srcLimit[g]
  /\ \A g \in Groups0(v) : v.tgtLimit[g] \notin {NoLimit, 0} => Total(Share(v.tgtGroup, v.tgtSize, g)) <= v.tgtLimit[g]

(* The groups and the sizes of partitions, and the limits of groups, after *)
(* each loop of _Compute.                                                  *)
Kept(v) == [q \in DOMAIN v.srcGroup |-> IF Leaves(v, q) THEN NoGroup ELSE v.srcGroup[q]]
KeptSize(v) == [q \in DOMAIN v.srcSize |-> IF Leaves(v, q) THEN 0 ELSE v.srcSize[q]]
Parked(v) == [q \in DOMAIN v.srcGroup |-> IF Moves(v, q) THEN Default ELSE Kept(v)[q]]
Shrunk(v) == [q \in DOMAIN v.srcSize |-> IF Shrinks(v, q) THEN v.tgtSize[q] ELSE KeptSize(v)[q]]
ShrunkLimit(v) ==
  [g \in DOMAIN v.srcLimit |-> IF v.srcLimit[g] # NoLimit /\ (v.tgtLimit[g] = NoLimit \/ v.srcLimit[g] > v.tgtLimit[g])
                               THEN v.tgtLimit[g] ELSE v.srcLimit[g]]
Added(v) == [q \in DOMAIN v.srcGroup |-> IF Enters(v, q) THEN v.tgtGroup[q] ELSE Parked(v)[q]]

(* A loop that has done the elements of D.                                 *)
Mix(a, b, D) == [q \in DOMAIN a |-> IF q \in D THEN b[q] ELSE a[q]]

(* Where a partition may be while the list runs.                           *)
Places0(v) == Groups0(v) \union {NoGroup, Default}

(* The types of what the loops leave. *)
LEMMA LoopTypes ==
  ASSUME NEW v, NEW N, Layout(v, N)
  PROVE  /\ v.srcGroup \in [N -> Places0(v)] /\ v.tgtGroup \in [N -> Places0(v)]
         /\ Kept(v) \in [N -> Places0(v)] /\ Parked(v) \in [N -> Places0(v)] /\ Added(v) \in [N -> Places0(v)]
         /\ KeptSize(v) \in [N -> Nat] /\ Shrunk(v) \in [N -> Nat]
         /\ v.srcLimit \in [Groups0(v) -> Int] /\ v.tgtLimit \in [Groups0(v) -> Int] /\ ShrunkLimit(v) \in [Groups0(v) -> Int]
<1>1. /\ v.srcGroup \in [N -> Groups0(v) \union {NoGroup}] /\ v.tgtGroup \in [N -> Groups0(v) \union {NoGroup}]
      /\ v.srcSize \in [N -> Nat] /\ v.tgtSize \in [N -> Nat]
      /\ v.srcLimit \in [Groups0(v) -> Nat \union {NoLimit}] /\ v.tgtLimit \in [Groups0(v) -> Nat \union {NoLimit}]
  BY DEF Layout
<1>2. v.srcGroup \in [N -> Places0(v)] /\ v.tgtGroup \in [N -> Places0(v)]
  BY <1>1 DEF Places0
<1>3. Kept(v) \in [N -> Places0(v)]
  BY <1>2 DEF Kept, Places0
<1>4. Parked(v) \in [N -> Places0(v)]
  BY <1>2, <1>3 DEF Parked, Places0
<1>5. Added(v) \in [N -> Places0(v)]
  BY <1>2, <1>4 DEF Added
<1>6. KeptSize(v) \in [N -> Nat]
  BY <1>1 DEF KeptSize
<1>7. Shrunk(v) \in [N -> Nat]
  BY <1>1, <1>6 DEF Shrunk
<1>8. v.srcLimit \in [Groups0(v) -> Int] /\ v.tgtLimit \in [Groups0(v) -> Int]
  BY <1>1 DEF NoLimit
<1>9. ShrunkLimit(v) \in [Groups0(v) -> Int]
  BY <1>8 DEF ShrunkLimit
<1> QED BY <1>2, <1>3, <1>4, <1>5, <1>6, <1>7, <1>8, <1>9

(* What the loops do to one partition.                                     *)
LEMMA LoopSteps ==
  ASSUME NEW v, NEW N, Layout(v, N), NEW q \in N
  PROVE  /\ Kept(v)[q] = IF Leaves(v, q) THEN NoGroup ELSE v.srcGroup[q]
         /\ KeptSize(v)[q] = IF Leaves(v, q) THEN 0 ELSE v.srcSize[q]
         /\ Parked(v)[q] = IF Moves(v, q) THEN Default ELSE Kept(v)[q]
         /\ Shrunk(v)[q] = IF Shrinks(v, q) THEN v.tgtSize[q] ELSE KeptSize(v)[q]
         /\ Added(v)[q] = IF Enters(v, q) THEN v.tgtGroup[q] ELSE Parked(v)[q]
<1>1. DOMAIN v.srcGroup = N /\ DOMAIN v.srcSize = N
  BY DEF Layout
<1> QED BY <1>1 DEF Kept, KeptSize, Parked, Shrunk, Added

(* What the loops leave for one partition. *)
LEMMA LoopFacts ==
  ASSUME NEW v, NEW N, Layout(v, N), NEW q \in N
  PROVE  /\ q \notin ToSet(v.names) => v.srcGroup[q] = NoGroup /\ v.tgtGroup[q] = NoGroup
         /\ Moves(v, q) => Kept(v)[q] = v.srcGroup[q] /\ Parked(v)[q] = Default /\ Added(v)[q] = Default
         /\ Shrinks(v, q) => Parked(v)[q] # NoGroup
         /\ Parked(v)[q] \notin {NoGroup, Default} =>
              v.srcGroup[q] = Parked(v)[q] /\ v.tgtGroup[q] = Parked(v)[q]
         /\ Enters(v, q) => Parked(v)[q] = NoGroup
         /\ Grows(v, q) => Added(v)[q] # NoGroup
         /\ Added(v)[q] \notin {NoGroup, Default} => v.tgtGroup[q] = Added(v)[q]
         /\ ~Moves(v, q) => Added(v)[q] = v.tgtGroup[q]
<1>1. /\ Kept(v)[q] = IF Leaves(v, q) THEN NoGroup ELSE v.srcGroup[q]
      /\ Parked(v)[q] = IF Moves(v, q) THEN Default ELSE Kept(v)[q]
      /\ Added(v)[q] = IF Enters(v, q) THEN v.tgtGroup[q] ELSE Parked(v)[q]
  BY LoopSteps
<1>2. /\ q \notin ToSet(v.names) => v.srcGroup[q] = NoGroup /\ v.tgtGroup[q] = NoGroup
      /\ v.srcGroup[q] = NoGroup <=> v.srcSize[q] = 0
      /\ v.tgtGroup[q] = NoGroup <=> v.tgtSize[q] = 0
      /\ v.srcSize[q] \in Nat /\ v.tgtSize[q] \in Nat
      /\ v.srcGroup[q] # Default /\ v.tgtGroup[q] # Default
  BY DEF Layout, NoGroup, Default
<1>3. NoGroup # Default
  BY DEF NoGroup, Default
<1> QED BY <1>1, <1>2, <1>3 DEF Leaves, Moves, Shrinks, Enters, Grows

(* No loop takes more than the source or the target has. *)
LEMMA LoopSizes ==
  ASSUME NEW v, NEW N, Layout(v, N), NEW q \in N
  PROVE  /\ KeptSize(v)[q] <= v.srcSize[q] /\ Shrunk(v)[q] <= v.srcSize[q] /\ Shrunk(v)[q] <= v.tgtSize[q]
         /\ ~Grows(v, q) => Shrunk(v)[q] = v.tgtSize[q]
<1>1. /\ KeptSize(v)[q] = IF Leaves(v, q) THEN 0 ELSE v.srcSize[q]
      /\ Shrunk(v)[q] = IF Shrinks(v, q) THEN v.tgtSize[q] ELSE KeptSize(v)[q]
  BY LoopSteps
<1>2. /\ v.srcGroup[q] = NoGroup <=> v.srcSize[q] = 0
      /\ v.tgtGroup[q] = NoGroup <=> v.tgtSize[q] = 0
      /\ v.srcSize[q] \in Nat /\ v.tgtSize[q] \in Nat
  BY DEF Layout
<1> QED BY <1>1, <1>2 DEF Leaves, Shrinks, Grows
LEMMA LoopUntouched ==
  ASSUME NEW v, NEW N, Layout(v, N), NEW q \in N \ ToSet(v.names)
  PROVE  ~Shrinks(v, q) /\ ~Grows(v, q)
<1>1. v.srcGroup[q] = NoGroup /\ v.tgtGroup[q] = NoGroup
  BY DEF Layout
<1>2. v.srcSize[q] = 0 /\ v.tgtSize[q] = 0
  BY <1>1 DEF Layout
<1> QED BY <1>2 DEF Shrinks, Grows

(* A loop over s that writes the operation of each element of A.           *)
Loop(s, A, o) == FlattenSeq([k \in 1..Len(s) |-> IF s[k] \in A THEN <<o[s[k]]>> ELSE <<>>])

Applies(N, A, o, f) ==
  \A D \in SUBSET N : \A p \in N \ D : IF p \in A THEN ApplyOp(f[D], o[p]) = f[D \union {p}]
                                                 ELSE f[D \union {p}] = f[D]

(* A loop over partitions, each step of which is applied as it should be,   *)
(* leads from its first metadata to its last.                               *)
LEMMA LoopLeads ==
  ASSUME NEW X, NEW N, NEW s \in Seq(N), Distinct(s),
         NEW A, NEW o, \A p \in N : p \in A => o[p] \in X, NEW f, Applies(N, A, o, f)
  PROVE  Loop(s, A, o) \in Seq(X) /\ Leads(f[{}], Loop(s, A, o), f[ToSet(s)])
<1> DEFINE L == [p \in N |-> IF p \in A THEN <<o[p]>> ELSE <<>>]
<1>1. L \in [N -> Seq(X)]
  <2>1. \A p \in N : (IF p \in A THEN <<o[p]>> ELSE <<>>) \in Seq(X)
    OBVIOUS
  <2> QED BY <2>1
<1>2. Loop(s, A, o) = Each(s, L)
  <2>1. \A k \in 1..Len(s) : s[k] \in N
    OBVIOUS
  <2>2. [k \in 1..Len(s) |-> IF s[k] \in A THEN <<o[s[k]]>> ELSE <<>>] = [k \in 1..Len(s) |-> L[s[k]]]
    BY <2>1
  <2> QED BY <2>2 DEF Loop, Each
<1>3. ASSUME NEW D \in SUBSET N, NEW p \in ToSet(s) \ D PROVE Leads(f[D], L[p], f[D \union {p}])
  <2>1. p \in N
    BY DEF ToSet
  <2>2. CASE p \in A
    <3>1. L[p] = <<o[p]>>
      BY <2>1, <2>2
    <3>2. ApplyOp(f[D], o[p]) = f[D \union {p}]
      BY <2>1, <2>2 DEF Applies
    <3> QED BY <3>1, <3>2, LeadsOne
  <2>3. CASE p \notin A
    <3>1. L[p] = <<>> /\ f[D \union {p}] = f[D]
      BY <2>1, <2>3 DEF Applies
    <3> QED BY <3>1, LeadsNone
  <2> QED BY <2>2, <2>3
<1>4. Each(s, L) \in Seq(X)
  <2> HIDE DEF L
  <2> QED BY <1>1, EachFacts
<1>5. Leads(f[{}], Each(s, L), f[ToSet(s)])
  <2> HIDE DEF L
  <2>1. Stepwise(N, s, L, f)
    BY <1>3 DEF Stepwise
  <2> QED BY <1>1, <2>1, LeadsEach
<1> QED BY <1>2, <1>4, <1>5

(* The operations that _Compute writes.                                    *)
OpSet(v, N) ==
  [op : {"remove", "move", "resize", "remove_group", "resize_group", "add_group", "add", "remove_all_groups"},
   name : N \union Places0(v), group : Places0(v), size : Nat]

(* The operations of the list. *)
LEMMA OpTypes ==
  ASSUME NEW v, NEW N, Layout(v, N)
  PROVE  /\ \A p \in N : /\ Op("remove", p, NoGroup, 0) \in OpSet(v, N)
                         /\ Op("move", p, Default, 0) \in OpSet(v, N)
                         /\ Op("move", p, v.tgtGroup[p], 0) \in OpSet(v, N)
                         /\ Op("add", p, v.tgtGroup[p], 0) \in OpSet(v, N)
                         /\ Op("resize", p, NoGroup, v.tgtSize[p]) \in OpSet(v, N)
         /\ \A g \in Groups0(v) : /\ Op("remove_group", g, NoGroup, 0) \in OpSet(v, N)
                                  /\ v.tgtLimit[g] # NoLimit =>
                                       /\ Op("resize_group", g, NoGroup, v.tgtLimit[g]) \in OpSet(v, N)
                                       /\ Op("add_group", g, NoGroup, v.tgtLimit[g]) \in OpSet(v, N)
<1>1. NoGroup \in Places0(v) /\ Default \in Places0(v) /\ Groups0(v) \subseteq Places0(v)
  BY DEF Places0
<1>2. \A p \in N : v.tgtGroup[p] \in Places0(v) /\ v.tgtSize[p] \in Nat
  <2>1. v.tgtGroup \in [N -> Places0(v)]
    BY LoopTypes
  <2> QED BY <2>1 DEF Layout
<1>3. \A g \in Groups0(v) : v.tgtLimit[g] # NoLimit => v.tgtLimit[g] \in Nat
  BY DEF Layout
<1> QED BY <1>1, <1>2, <1>3 DEF OpSet, Op

(* The first loop removes partitions.                                      *)
Removals(v) == ForEach(v.names, LAMBDA p : Leaves(v, p), LAMBDA p : <<Op("remove", p, NoGroup, 0)>>)

(* The first loop: partitions that leave are removed. *)
LEMMA RemovalsLead ==
  ASSUME NEW v, NEW N, Layout(v, N)
  PROVE  /\ Removals(v) \in Seq(OpSet(v, N))
         /\ Leads(Meta(v.srcGroup, v.srcSize, v.srcLimit), Removals(v), Meta(Kept(v), KeptSize(v), v.srcLimit))
<1> DEFINE A == {p \in N : Leaves(v, p)}
           o == [p \in N |-> Op("remove", p, NoGroup, 0)]
           a(D) == Mix(v.srcGroup, Kept(v), D)
           b(D) == Mix(v.srcSize, KeptSize(v), D)
           f == [D \in SUBSET N |-> Meta(a(D), b(D), v.srcLimit)]
<1>1. /\ v.names \in Seq(N) /\ Distinct(v.names)
      /\ v.srcSize \in [N -> Nat] /\ KeptSize(v) \in [N -> Nat]
      /\ v.srcGroup \in [N -> Places0(v)] /\ Kept(v) \in [N -> Places0(v)]
  BY LoopTypes DEF Layout
<1>2. Removals(v) = Loop(v.names, A, o)
  <2>1. \A k \in 1..Len(v.names) : v.names[k] \in N
    BY <1>1
  <2>2. [k \in 1..Len(v.names) |-> IF Leaves(v, v.names[k]) THEN <<Op("remove", v.names[k], NoGroup, 0)>> ELSE <<>>]
          = [k \in 1..Len(v.names) |-> IF v.names[k] \in A THEN <<o[v.names[k]]>> ELSE <<>>]
    BY <2>1
  <2> HIDE DEF A, o
  <2> QED BY <2>2 DEF Loop, Removals, ForEach
<1>3. \A p \in N : p \in A => o[p] \in OpSet(v, N)
  BY OpTypes
<1>4. \A D \in SUBSET N : f[D] = Meta(a(D), b(D), v.srcLimit)
  OBVIOUS
<1>5. /\ \A p \in A : Leaves(v, p) /\ o[p] = Op("remove", p, NoGroup, 0)
      /\ \A p \in N \ A : ~Leaves(v, p)
  OBVIOUS
<1> HIDE DEF f, o, A
<1>6. ASSUME NEW D \in SUBSET N, NEW p \in N \ D, p \in A PROVE ApplyOp(f[D], o[p]) = f[D \union {p}]
  <2> DEFINE E == D \union {p}
  <2>1. /\ a(D) \in [N -> Places0(v)] /\ \A q \in N : a(D)[q] = IF q \in D THEN Kept(v)[q] ELSE v.srcGroup[q]
        /\ a(E) \in [N -> Places0(v)] /\ \A q \in N : a(E)[q] = IF q \in E THEN Kept(v)[q] ELSE v.srcGroup[q]
        /\ b(D) \in [N -> Nat] /\ \A q \in N : b(D)[q] = IF q \in D THEN KeptSize(v)[q] ELSE v.srcSize[q]
        /\ b(E) \in [N -> Nat] /\ \A q \in N : b(E)[q] = IF q \in E THEN KeptSize(v)[q] ELSE v.srcSize[q]
    BY <1>1 DEF Mix
  <2>2. Kept(v)[p] = NoGroup /\ KeptSize(v)[p] = 0 /\ v.srcGroup[p] # NoGroup
    BY <1>5, <1>6, LoopSteps DEF Leaves
  <2> HIDE DEF a, b
  <2>3. a(D)[p] # NoGroup /\ a(E)[p] = NoGroup /\ b(E)[p] = 0
    BY <2>1, <2>2
  <2>4. Beyond(N, p, a(D), a(E)) /\ Beyond(N, p, b(D), b(E))
    BY <2>1 DEF Beyond
  <2> HIDE DEF E
  <2>5. ApplyOp(Meta(a(D), b(D), v.srcLimit), Op("remove", p, NoGroup, 0)) = Meta(a(E), b(E), v.srcLimit)
    <3>1. Removing(N, Places0(v), a(D), b(D), p, a(E), b(E))
      BY <2>1, <2>3, <2>4 DEF Removing
    <3> QED BY <3>1, DoRemove
  <2>6. E \in SUBSET N
    BY DEF E
  <2> QED BY <1>4, <1>5, <1>6, <2>5, <2>6 DEF E
<1>7. ASSUME NEW D \in SUBSET N, NEW p \in N \ D, p \notin A PROVE f[D \union {p}] = f[D]
  <2>1. v.srcGroup[p] = Kept(v)[p] /\ v.srcSize[p] = KeptSize(v)[p]
    BY <1>5, <1>7, LoopSteps
  <2>2. a(D \union {p}) = a(D) /\ b(D \union {p}) = b(D)
    BY <1>1, <2>1 DEF Mix
  <2> HIDE DEF a, b
  <2>3. D \union {p} \in SUBSET N
    OBVIOUS
  <2> QED BY <1>4, <2>2, <2>3
<1>8. Loop(v.names, A, o) \in Seq(OpSet(v, N)) /\ Leads(f[{}], Loop(v.names, A, o), f[ToSet(v.names)])
  <2>1. Applies(N, A, o, f)
    BY <1>6, <1>7 DEF Applies
  <2> QED BY <1>1, <1>3, <2>1, LoopLeads
<1>9. f[{}] = Meta(v.srcGroup, v.srcSize, v.srcLimit) /\ f[ToSet(v.names)] = Meta(Kept(v), KeptSize(v), v.srcLimit)
  <2>1. {} \in SUBSET N /\ ToSet(v.names) \in SUBSET N
    BY <1>1 DEF ToSet
  <2>2. \A q \in N \ ToSet(v.names) : v.srcGroup[q] = Kept(v)[q] /\ v.srcSize[q] = KeptSize(v)[q]
    BY LoopFacts, LoopSteps DEF Leaves
  <2>3. a({}) = v.srcGroup /\ a(ToSet(v.names)) = Kept(v)
    BY <1>1, <2>2 DEF Mix
  <2>4. b({}) = v.srcSize /\ b(ToSet(v.names)) = KeptSize(v)
    BY <1>1, <2>2 DEF Mix
  <2> QED BY <1>4, <2>1, <2>3, <2>4
<1> QED BY <1>2, <1>8, <1>9

(* The second one moves partitions that change their group to "default". *)
Parkings(v) == ForEach(v.names, LAMBDA p : Moves(v, p), LAMBDA p : <<Op("move", p, Default, 0)>>)

(* Partitions that change their group go to the default group. *)
LEMMA ParkingsLead ==
  ASSUME NEW v, NEW N, Layout(v, N)
  PROVE  /\ Parkings(v) \in Seq(OpSet(v, N))
         /\ Leads(Meta(Kept(v), KeptSize(v), v.srcLimit), Parkings(v),
                  Meta(Parked(v), KeptSize(v), v.srcLimit))
<1> DEFINE A == {p \in N : Moves(v, p)}
           o == [p \in N |-> Op("move", p, Default, 0)]
           a(D) == Mix(Kept(v), Parked(v), D)
           f == [D \in SUBSET N |-> Meta(a(D), KeptSize(v), v.srcLimit)]
<1>1. /\ v.names \in Seq(N) /\ Distinct(v.names) /\ IsFiniteSet(N)
      /\ Kept(v) \in [N -> Places0(v)] /\ Parked(v) \in [N -> Places0(v)]
  BY LoopTypes DEF Layout
<1>2. Parkings(v) = Loop(v.names, A, o)
  <2>1. \A k \in 1..Len(v.names) : v.names[k] \in N
    BY <1>1
  <2>2. [k \in 1..Len(v.names) |-> IF Moves(v, v.names[k]) THEN <<Op("move", v.names[k], Default, 0)>> ELSE <<>>]
          = [k \in 1..Len(v.names) |-> IF v.names[k] \in A THEN <<o[v.names[k]]>> ELSE <<>>]
    BY <2>1
  <2> HIDE DEF A, o
  <2> QED BY <2>2 DEF Loop, Parkings, ForEach
<1>3. \A p \in N : p \in A => o[p] \in OpSet(v, N)
  BY OpTypes
<1>4. \A D \in SUBSET N : f[D] = Meta(a(D), KeptSize(v), v.srcLimit)
  OBVIOUS
<1>5. /\ \A p \in A : Moves(v, p) /\ o[p] = Op("move", p, Default, 0)
      /\ \A p \in N \ A : ~Moves(v, p)
  OBVIOUS
<1> HIDE DEF f, o, A
<1>6. ASSUME NEW D \in SUBSET N, NEW p \in N \ D, p \in A PROVE ApplyOp(f[D], o[p]) = f[D \union {p}]
  <2> DEFINE E == D \union {p}
  <2>1. /\ a(D) \in [N -> Places0(v)] /\ \A q \in N : a(D)[q] = IF q \in D THEN Parked(v)[q] ELSE Kept(v)[q]
        /\ a(E) \in [N -> Places0(v)] /\ \A q \in N : a(E)[q] = IF q \in E THEN Parked(v)[q] ELSE Kept(v)[q]
    BY <1>1 DEF Mix
  <2> HIDE DEF a
  <2>2. a(D)[p] = Kept(v)[p] /\ a(E)[p] = Parked(v)[p] /\ Beyond(N, p, a(D), a(E))
    BY <2>1 DEF Beyond
  <2>3. E \in SUBSET N /\ a(D) \in [N -> Places0(v)] /\ a(E) \in [N -> Places0(v)]
    BY <2>1
  <2>4. Moves(v, p) /\ o[p] = Op("move", p, Default, 0)
    BY <1>5, <1>6
  <2> HIDE DEF E
  <2>5. Kept(v)[p] # NoGroup /\ Kept(v)[p] # Default /\ Parked(v)[p] = Default
    <3>1. Kept(v)[p] = v.srcGroup[p] /\ Parked(v)[p] = Default
      BY <2>4, LoopFacts
    <3>2. v.srcGroup[p] # Default
      BY DEF Layout, NoGroup, Default
    <3> QED BY <2>4, <3>1, <3>2 DEF Moves
  <2>6. KeptSize(v) \in [N -> Nat]
    BY LoopTypes
  <2>7. a(D)[p] # NoGroup /\ a(D)[p] # Default /\ a(E)[p] = Default
    BY <2>2, <2>5
  <2>10. ApplyOp(Meta(a(D), KeptSize(v), v.srcLimit), Op("move", p, Default, 0)) = Meta(a(E), KeptSize(v), v.srcLimit)
    <3>1. Moving(N, Places0(v), a(D), KeptSize(v), v.srcLimit, p, Default, a(E))
      BY <1>1, <2>2, <2>3, <2>6, <2>7 DEF Moving
    <3> QED BY <3>1, DoMove
  <2> QED BY <1>4, <2>3, <2>4, <2>10 DEF E
<1>7. ASSUME NEW D \in SUBSET N, NEW p \in N \ D, p \notin A PROVE f[D \union {p}] = f[D]
  <2>1. Kept(v)[p] = Parked(v)[p]
    BY <1>5, <1>7, LoopSteps
  <2>2. a(D \union {p}) = a(D)
    BY <1>1, <2>1 DEF Mix
  <2> HIDE DEF a
  <2>3. D \union {p} \in SUBSET N
    OBVIOUS
  <2> QED BY <1>4, <2>2, <2>3
<1>8. Loop(v.names, A, o) \in Seq(OpSet(v, N)) /\ Leads(f[{}], Loop(v.names, A, o), f[ToSet(v.names)])
  <2>1. Applies(N, A, o, f)
    BY <1>6, <1>7 DEF Applies
  <2> QED BY <1>1, <1>3, <2>1, LoopLeads
<1>9. f[{}] = Meta(Kept(v), KeptSize(v), v.srcLimit) /\ f[ToSet(v.names)] = Meta(Parked(v), KeptSize(v), v.srcLimit)
  <2>1. {} \in SUBSET N /\ ToSet(v.names) \in SUBSET N
    BY <1>1 DEF ToSet
  <2>2. \A q \in N \ ToSet(v.names) : Kept(v)[q] = Parked(v)[q]
    BY LoopFacts, LoopSteps DEF Moves
  <2>3. a({}) = Kept(v) /\ a(ToSet(v.names)) = Parked(v)
    BY <1>1, <2>2 DEF Mix
  <2> QED BY <1>4, <2>1, <2>3
<1> QED BY <1>2, <1>8, <1>9

(* The third one shrinks partitions: no group and no super gets fuller. *)
Shrinkings(v) == ForEach(v.names, LAMBDA p : Shrinks(v, p), LAMBDA p : <<Op("resize", p, NoGroup, v.tgtSize[p])>>)

(* Partitions that shrink are resized, which never needs room. *)
LEMMA ShrinkingsLead ==
  ASSUME NEW v, NEW N, Layout(v, N)
  PROVE  /\ Shrinkings(v) \in Seq(OpSet(v, N))
         /\ Leads(Meta(Parked(v), KeptSize(v), v.srcLimit), Shrinkings(v),
                  Meta(Parked(v), Shrunk(v), v.srcLimit))
<1> DEFINE A == {p \in N : Shrinks(v, p)}
           o == [p \in N |-> Op("resize", p, NoGroup, v.tgtSize[p])]
           a(D) == Mix(KeptSize(v), Shrunk(v), D)
           f == [D \in SUBSET N |-> Meta(Parked(v), a(D), v.srcLimit)]
<1>1. /\ v.names \in Seq(N) /\ Distinct(v.names) /\ IsFiniteSet(N)
      /\ KeptSize(v) \in [N -> Nat] /\ Shrunk(v) \in [N -> Nat]
  BY LoopTypes DEF Layout
<1>2. Shrinkings(v) = Loop(v.names, A, o)
  <2>1. \A k \in 1..Len(v.names) : v.names[k] \in N
    BY <1>1
  <2>2. [k \in 1..Len(v.names) |-> IF Shrinks(v, v.names[k]) THEN <<Op("resize", v.names[k], NoGroup, v.tgtSize[v.names[k]])>> ELSE <<>>]
          = [k \in 1..Len(v.names) |-> IF v.names[k] \in A THEN <<o[v.names[k]]>> ELSE <<>>]
    BY <2>1
  <2> HIDE DEF A, o
  <2> QED BY <2>2 DEF Loop, Shrinkings, ForEach
<1>3. \A p \in N : p \in A => o[p] \in OpSet(v, N)
  BY OpTypes
<1>4. \A D \in SUBSET N : f[D] = Meta(Parked(v), a(D), v.srcLimit)
  OBVIOUS
<1>5. /\ \A p \in A : Shrinks(v, p) /\ o[p] = Op("resize", p, NoGroup, v.tgtSize[p])
      /\ \A p \in N \ A : ~Shrinks(v, p)
  OBVIOUS
<1> HIDE DEF f, o, A
<1>6. ASSUME NEW D \in SUBSET N, NEW p \in N \ D, p \in A PROVE ApplyOp(f[D], o[p]) = f[D \union {p}]
  <2> DEFINE E == D \union {p}
  <2>1. /\ a(D) \in [N -> Nat] /\ \A q \in N : a(D)[q] = IF q \in D THEN Shrunk(v)[q] ELSE KeptSize(v)[q]
        /\ a(E) \in [N -> Nat] /\ \A q \in N : a(E)[q] = IF q \in E THEN Shrunk(v)[q] ELSE KeptSize(v)[q]
    BY <1>1 DEF Mix
  <2> HIDE DEF a
  <2>2. a(D)[p] = KeptSize(v)[p] /\ a(E)[p] = Shrunk(v)[p] /\ Beyond(N, p, a(D), a(E))
    BY <2>1 DEF Beyond
  <2>3. E \in SUBSET N /\ a(D) \in [N -> Nat] /\ a(E) \in [N -> Nat]
    BY <2>1
  <2>4. Shrinks(v, p) /\ o[p] = Op("resize", p, NoGroup, v.tgtSize[p])
    BY <1>5, <1>6
  <2> HIDE DEF E
  <2>5. Parked(v) \in [N -> Places0(v)] /\ v.srcGroup \in [N -> Places0(v)] /\ v.srcSize \in [N -> Nat]
    BY LoopTypes DEF Layout
  <2>6. Shrunk(v)[p] = v.tgtSize[p] /\ Parked(v)[p] # NoGroup
    BY <2>4, LoopSteps, LoopFacts
  <2>7. \A q \in N : a(E)[q] <= v.srcSize[q]
    BY <2>1, LoopSizes
  <2> DEFINE g == Parked(v)[p]
  <2>8. g = Default \/ v.srcLimit[g] = 0 \/ Total(Share(Parked(v), a(E), g)) <= v.srcLimit[g]
    <3> SUFFICES ASSUME g # Default, v.srcLimit[g] # 0 PROVE Total(Share(Parked(v), a(E), g)) <= v.srcLimit[g]
      OBVIOUS
    <3>1. g = v.srcGroup[p] /\ g \in Groups0(v) /\ v.srcLimit[g] # NoLimit
      <4>1. g \notin {NoGroup, Default}
        BY <2>6
      <4>2. g = v.srcGroup[p]
        BY <4>1, LoopFacts
      <4> QED BY <4>1, <4>2 DEF Layout
    <3>2. \A q \in N : Parked(v)[q] = g => v.srcGroup[q] = g
      BY <2>6, LoopFacts
    <3>3. Total(Share(v.srcGroup, v.srcSize, g)) <= v.srcLimit[g] /\ v.srcLimit[g] \in Int
      <4>1. v.srcLimit \in [Groups0(v) -> Int]
        BY LoopTypes
      <4> QED BY <3>1, <4>1 DEF Layout
    <3> HIDE DEF g
    <3>4. /\ Total(Share(Parked(v), a(E), g)) <= Total(Share(v.srcGroup, v.srcSize, g))
          /\ Total(Share(Parked(v), a(E), g)) \in Nat /\ Total(Share(v.srcGroup, v.srcSize, g)) \in Nat
      <4>1. Within(N, Parked(v), a(E), v.srcGroup, v.srcSize, g)
        BY <2>7, <3>2 DEF Within
      <4> QED BY <1>1, <2>1, <2>5, <4>1, ShareLeq
    <3> QED BY <3>3, <3>4
  <2>9. Total(a(E)) <= SuperSize
    <3>1. Total(a(E)) <= Total(v.srcSize)
      BY <1>1, <2>1, <2>5, <2>7, TotalLeq
    <3>2. Total(a(E)) \in Nat /\ Total(v.srcSize) \in Nat /\ Total(v.srcSize) <= SuperSize
      BY <1>1, <2>1, <2>5, TotalType DEF Layout
    <3> QED BY <3>1, <3>2, SuperSizeAssumption
  <2>10. ApplyOp(Meta(Parked(v), a(D), v.srcLimit), Op("resize", p, NoGroup, v.tgtSize[p])) = Meta(Parked(v), a(E), v.srcLimit)
    <3>1. a(E)[p] = v.tgtSize[p] /\ g # NoGroup /\ Parked(v)[p] = g
      BY <2>2, <2>6
    <3> HIDE DEF g
    <3>2. Resizing(N, Places0(v), Parked(v), a(D), v.srcLimit, p, g, a(E))
      BY <1>1, <2>2, <2>3, <2>5, <2>8, <2>9, <3>1 DEF Resizing
    <3>3. ApplyOp(Meta(Parked(v), a(D), v.srcLimit), Op("resize", p, NoGroup, a(E)[p])) = Meta(Parked(v), a(E), v.srcLimit)
      BY <3>2, DoResize
    <3> QED BY <3>1, <3>3
  <2> QED BY <1>4, <2>3, <2>4, <2>10 DEF E
<1>7. ASSUME NEW D \in SUBSET N, NEW p \in N \ D, p \notin A PROVE f[D \union {p}] = f[D]
  <2>1. KeptSize(v)[p] = Shrunk(v)[p]
    BY <1>5, <1>7, LoopSteps
  <2>2. a(D \union {p}) = a(D)
    BY <1>1, <2>1 DEF Mix
  <2> HIDE DEF a
  <2>3. D \union {p} \in SUBSET N
    OBVIOUS
  <2> QED BY <1>4, <2>2, <2>3
<1>8. Loop(v.names, A, o) \in Seq(OpSet(v, N)) /\ Leads(f[{}], Loop(v.names, A, o), f[ToSet(v.names)])
  <2>1. Applies(N, A, o, f)
    BY <1>6, <1>7 DEF Applies
  <2> QED BY <1>1, <1>3, <2>1, LoopLeads
<1>9. f[{}] = Meta(Parked(v), KeptSize(v), v.srcLimit) /\ f[ToSet(v.names)] = Meta(Parked(v), Shrunk(v), v.srcLimit)
  <2>1. {} \in SUBSET N /\ ToSet(v.names) \in SUBSET N
    BY <1>1 DEF ToSet
  <2>2. \A q \in N \ ToSet(v.names) : KeptSize(v)[q] = Shrunk(v)[q]
    BY LoopFacts, LoopSteps, LoopUntouched
  <2>3. a({}) = KeptSize(v) /\ a(ToSet(v.names)) = Shrunk(v)
    BY <1>1, <2>2 DEF Mix
  <2> QED BY <1>4, <2>1, <2>3
<1> QED BY <1>2, <1>8, <1>9

(* When the groups have their new limits, partitions are added. *)
Additions(v) == ForEach(v.names, LAMBDA p : Enters(v, p), LAMBDA p : <<Op("add", p, v.tgtGroup[p], 0)>>)

(* Partitions that come are added to groups that by now exist, with no size *)
(* yet.                                                                     *)
LEMMA AdditionsLead ==
  ASSUME NEW v, NEW N, Layout(v, N)
  PROVE  /\ Additions(v) \in Seq(OpSet(v, N))
         /\ Leads(Meta(Parked(v), Shrunk(v), v.tgtLimit), Additions(v),
                  Meta(Added(v), Shrunk(v), v.tgtLimit))
<1> DEFINE A == {p \in N : Enters(v, p)}
           o == [p \in N |-> Op("add", p, v.tgtGroup[p], 0)]
           a(D) == Mix(Parked(v), Added(v), D)
           f == [D \in SUBSET N |-> Meta(a(D), Shrunk(v), v.tgtLimit)]
<1>1. /\ v.names \in Seq(N) /\ Distinct(v.names) /\ IsFiniteSet(N)
      /\ Parked(v) \in [N -> Places0(v)] /\ Added(v) \in [N -> Places0(v)]
  BY LoopTypes DEF Layout
<1>2. Additions(v) = Loop(v.names, A, o)
  <2>1. \A k \in 1..Len(v.names) : v.names[k] \in N
    BY <1>1
  <2>2. [k \in 1..Len(v.names) |-> IF Enters(v, v.names[k]) THEN <<Op("add", v.names[k], v.tgtGroup[v.names[k]], 0)>> ELSE <<>>]
          = [k \in 1..Len(v.names) |-> IF v.names[k] \in A THEN <<o[v.names[k]]>> ELSE <<>>]
    BY <2>1
  <2> HIDE DEF A, o
  <2> QED BY <2>2 DEF Loop, Additions, ForEach
<1>3. \A p \in N : p \in A => o[p] \in OpSet(v, N)
  BY OpTypes
<1>4. \A D \in SUBSET N : f[D] = Meta(a(D), Shrunk(v), v.tgtLimit)
  OBVIOUS
<1>5. /\ \A p \in A : Enters(v, p) /\ o[p] = Op("add", p, v.tgtGroup[p], 0)
      /\ \A p \in N \ A : ~Enters(v, p)
  OBVIOUS
<1> HIDE DEF f, o, A
<1>6. ASSUME NEW D \in SUBSET N, NEW p \in N \ D, p \in A PROVE ApplyOp(f[D], o[p]) = f[D \union {p}]
  <2> DEFINE E == D \union {p}
  <2>1. /\ a(D) \in [N -> Places0(v)] /\ \A q \in N : a(D)[q] = IF q \in D THEN Added(v)[q] ELSE Parked(v)[q]
        /\ a(E) \in [N -> Places0(v)] /\ \A q \in N : a(E)[q] = IF q \in E THEN Added(v)[q] ELSE Parked(v)[q]
    BY <1>1 DEF Mix
  <2> HIDE DEF a
  <2>2. a(D)[p] = Parked(v)[p] /\ a(E)[p] = Added(v)[p] /\ Beyond(N, p, a(D), a(E))
    BY <2>1 DEF Beyond
  <2>3. E \in SUBSET N /\ a(D) \in [N -> Places0(v)] /\ a(E) \in [N -> Places0(v)]
    BY <2>1
  <2>4. Enters(v, p) /\ o[p] = Op("add", p, v.tgtGroup[p], 0)
    BY <1>5, <1>6
  <2> HIDE DEF E
  <2>5. Parked(v)[p] = NoGroup /\ Added(v)[p] = v.tgtGroup[p]
    BY <2>4, LoopFacts, LoopSteps
  <2>6. Shrunk(v) \in [N -> Nat]
    BY LoopTypes
  <2>7. v.tgtLimit[v.tgtGroup[p]] # NoLimit
    BY <2>4 DEF Enters, Layout
  <2> DEFINE g == v.tgtGroup[p]
  <2>8. a(D)[p] = NoGroup /\ a(E)[p] = g /\ v.tgtLimit[g] # NoLimit
    BY <2>2, <2>5, <2>7
  <2>10. ApplyOp(Meta(a(D), Shrunk(v), v.tgtLimit), Op("add", p, v.tgtGroup[p], 0)) = Meta(a(E), Shrunk(v), v.tgtLimit)
    <3> HIDE DEF g
    <3>1. ApplyOp(Meta(a(D), Shrunk(v), v.tgtLimit), Op("add", p, g, 0)) = Meta(a(E), Shrunk(v), v.tgtLimit)
      <4>1. Adding(N, Places0(v), a(D), v.tgtLimit, p, g, a(E))
        BY <2>2, <2>3, <2>8 DEF Adding
      <4> QED BY <4>1, DoAdd
    <3> QED BY <3>1 DEF g
  <2> QED BY <1>4, <2>3, <2>4, <2>10 DEF E
<1>7. ASSUME NEW D \in SUBSET N, NEW p \in N \ D, p \notin A PROVE f[D \union {p}] = f[D]
  <2>1. Parked(v)[p] = Added(v)[p]
    BY <1>5, <1>7, LoopSteps
  <2>2. a(D \union {p}) = a(D)
    BY <1>1, <2>1 DEF Mix
  <2> HIDE DEF a
  <2>3. D \union {p} \in SUBSET N
    OBVIOUS
  <2> QED BY <1>4, <2>2, <2>3
<1>8. Loop(v.names, A, o) \in Seq(OpSet(v, N)) /\ Leads(f[{}], Loop(v.names, A, o), f[ToSet(v.names)])
  <2>1. Applies(N, A, o, f)
    BY <1>6, <1>7 DEF Applies
  <2> QED BY <1>1, <1>3, <2>1, LoopLeads
<1>9. f[{}] = Meta(Parked(v), Shrunk(v), v.tgtLimit) /\ f[ToSet(v.names)] = Meta(Added(v), Shrunk(v), v.tgtLimit)
  <2>1. {} \in SUBSET N /\ ToSet(v.names) \in SUBSET N
    BY <1>1 DEF ToSet
  <2>2. \A q \in N \ ToSet(v.names) : Parked(v)[q] = Added(v)[q]
    BY LoopFacts, LoopSteps DEF Enters
  <2>3. a({}) = Parked(v) /\ a(ToSet(v.names)) = Added(v)
    BY <1>1, <2>2 DEF Mix
  <2> QED BY <1>4, <2>1, <2>3
<1> QED BY <1>2, <1>8, <1>9

(* Then partitions grow: no group and no super gets fuller than in the target. *)
Growings(v) == ForEach(v.names, LAMBDA p : Grows(v, p), LAMBDA p : <<Op("resize", p, NoGroup, v.tgtSize[p])>>)

(* Partitions that grow are resized: those that leave, move or shrink have  *)
(* made the room that the target's layout needs.                            *)
LEMMA GrowingsLead ==
  ASSUME NEW v, NEW N, Layout(v, N)
  PROVE  /\ Growings(v) \in Seq(OpSet(v, N))
         /\ Leads(Meta(Added(v), Shrunk(v), v.tgtLimit), Growings(v),
                  Meta(Added(v), v.tgtSize, v.tgtLimit))
<1> DEFINE A == {p \in N : Grows(v, p)}
           o == [p \in N |-> Op("resize", p, NoGroup, v.tgtSize[p])]
           a(D) == Mix(Shrunk(v), v.tgtSize, D)
           f == [D \in SUBSET N |-> Meta(Added(v), a(D), v.tgtLimit)]
<1>1. /\ v.names \in Seq(N) /\ Distinct(v.names) /\ IsFiniteSet(N)
      /\ Shrunk(v) \in [N -> Nat] /\ v.tgtSize \in [N -> Nat]
  BY LoopTypes DEF Layout
<1>2. Growings(v) = Loop(v.names, A, o)
  <2>1. \A k \in 1..Len(v.names) : v.names[k] \in N
    BY <1>1
  <2>2. [k \in 1..Len(v.names) |-> IF Grows(v, v.names[k]) THEN <<Op("resize", v.names[k], NoGroup, v.tgtSize[v.names[k]])>> ELSE <<>>]
          = [k \in 1..Len(v.names) |-> IF v.names[k] \in A THEN <<o[v.names[k]]>> ELSE <<>>]
    BY <2>1
  <2> HIDE DEF A, o
  <2> QED BY <2>2 DEF Loop, Growings, ForEach
<1>3. \A p \in N : p \in A => o[p] \in OpSet(v, N)
  BY OpTypes
<1>4. \A D \in SUBSET N : f[D] = Meta(Added(v), a(D), v.tgtLimit)
  OBVIOUS
<1>5. /\ \A p \in A : Grows(v, p) /\ o[p] = Op("resize", p, NoGroup, v.tgtSize[p])
      /\ \A p \in N \ A : ~Grows(v, p)
  OBVIOUS
<1> HIDE DEF f, o, A
<1>6. ASSUME NEW D \in SUBSET N, NEW p \in N \ D, p \in A PROVE ApplyOp(f[D], o[p]) = f[D \union {p}]
  <2> DEFINE E == D \union {p}
  <2>1. /\ a(D) \in [N -> Nat] /\ \A q \in N : a(D)[q] = IF q \in D THEN v.tgtSize[q] ELSE Shrunk(v)[q]
        /\ a(E) \in [N -> Nat] /\ \A q \in N : a(E)[q] = IF q \in E THEN v.tgtSize[q] ELSE Shrunk(v)[q]
    BY <1>1 DEF Mix
  <2> HIDE DEF a
  <2>2. a(D)[p] = Shrunk(v)[p] /\ a(E)[p] = v.tgtSize[p] /\ Beyond(N, p, a(D), a(E))
    BY <2>1 DEF Beyond
  <2>3. E \in SUBSET N /\ a(D) \in [N -> Nat] /\ a(E) \in [N -> Nat]
    BY <2>1
  <2>4. Grows(v, p) /\ o[p] = Op("resize", p, NoGroup, v.tgtSize[p])
    BY <1>5, <1>6
  <2> HIDE DEF E
  <2>5. Added(v) \in [N -> Places0(v)] /\ v.tgtGroup \in [N -> Places0(v)]
    BY LoopTypes
  <2>6. Added(v)[p] # NoGroup
    BY <2>4, LoopFacts
  <2>7. \A q \in N : a(E)[q] <= v.tgtSize[q]
    <3>1. \A q \in N : Shrunk(v)[q] <= v.tgtSize[q] /\ v.tgtSize[q] <= v.tgtSize[q]
      BY <1>1, LoopSizes
    <3> QED BY <2>1, <3>1
  <2> DEFINE g == Added(v)[p]
  <2>8. g = Default \/ v.tgtLimit[g] = 0 \/ Total(Share(Added(v), a(E), g)) <= v.tgtLimit[g]
    <3> SUFFICES ASSUME g # Default, v.tgtLimit[g] # 0 PROVE Total(Share(Added(v), a(E), g)) <= v.tgtLimit[g]
      OBVIOUS
    <3>1. g = v.tgtGroup[p] /\ g \in Groups0(v) /\ v.tgtLimit[g] # NoLimit
      <4>1. g \notin {NoGroup, Default}
        BY <2>6
      <4>2. g = v.tgtGroup[p]
        BY <4>1, LoopFacts
      <4> QED BY <4>1, <4>2 DEF Layout
    <3>2. \A q \in N : Added(v)[q] = g => v.tgtGroup[q] = g
      BY <2>6, LoopFacts
    <3>3. Total(Share(v.tgtGroup, v.tgtSize, g)) <= v.tgtLimit[g] /\ v.tgtLimit[g] \in Int
      <4>1. v.tgtLimit \in [Groups0(v) -> Int]
        BY LoopTypes
      <4> QED BY <3>1, <4>1 DEF Layout
    <3> HIDE DEF g
    <3>4. /\ Total(Share(Added(v), a(E), g)) <= Total(Share(v.tgtGroup, v.tgtSize, g))
          /\ Total(Share(Added(v), a(E), g)) \in Nat /\ Total(Share(v.tgtGroup, v.tgtSize, g)) \in Nat
      <4>1. Within(N, Added(v), a(E), v.tgtGroup, v.tgtSize, g)
        BY <2>7, <3>2 DEF Within
      <4> QED BY <1>1, <2>1, <2>5, <4>1, ShareLeq
    <3> QED BY <3>3, <3>4
  <2>9. Total(a(E)) <= SuperSize
    <3>1. Total(a(E)) <= Total(v.tgtSize)
      BY <1>1, <2>1, <2>7, TotalLeq
    <3>2. Total(a(E)) \in Nat /\ Total(v.tgtSize) \in Nat /\ Total(v.tgtSize) <= SuperSize
      BY <1>1, <2>1, TotalType DEF Layout
    <3> QED BY <3>1, <3>2, SuperSizeAssumption
  <2>10. ApplyOp(Meta(Added(v), a(D), v.tgtLimit), Op("resize", p, NoGroup, v.tgtSize[p])) = Meta(Added(v), a(E), v.tgtLimit)
    <3>1. a(E)[p] = v.tgtSize[p] /\ g # NoGroup /\ Added(v)[p] = g
      BY <2>2, <2>6
    <3> HIDE DEF g
    <3>2. Resizing(N, Places0(v), Added(v), a(D), v.tgtLimit, p, g, a(E))
      BY <1>1, <2>2, <2>3, <2>5, <2>8, <2>9, <3>1 DEF Resizing
    <3>3. ApplyOp(Meta(Added(v), a(D), v.tgtLimit), Op("resize", p, NoGroup, a(E)[p])) = Meta(Added(v), a(E), v.tgtLimit)
      BY <3>2, DoResize
    <3> QED BY <3>1, <3>3
  <2> QED BY <1>4, <2>3, <2>4, <2>10 DEF E
<1>7. ASSUME NEW D \in SUBSET N, NEW p \in N \ D, p \notin A PROVE f[D \union {p}] = f[D]
  <2>1. Shrunk(v)[p] = v.tgtSize[p]
    BY <1>5, <1>7, LoopSizes
  <2>2. a(D \union {p}) = a(D)
    BY <1>1, <2>1 DEF Mix
  <2> HIDE DEF a
  <2>3. D \union {p} \in SUBSET N
    OBVIOUS
  <2> QED BY <1>4, <2>2, <2>3
<1>8. Loop(v.names, A, o) \in Seq(OpSet(v, N)) /\ Leads(f[{}], Loop(v.names, A, o), f[ToSet(v.names)])
  <2>1. Applies(N, A, o, f)
    BY <1>6, <1>7 DEF Applies
  <2> QED BY <1>1, <1>3, <2>1, LoopLeads
<1>9. f[{}] = Meta(Added(v), Shrunk(v), v.tgtLimit) /\ f[ToSet(v.names)] = Meta(Added(v), v.tgtSize, v.tgtLimit)
  <2>1. {} \in SUBSET N /\ ToSet(v.names) \in SUBSET N
    BY <1>1 DEF ToSet
  <2>2. \A q \in N \ ToSet(v.names) : Shrunk(v)[q] = v.tgtSize[q]
    BY LoopFacts, LoopSizes, LoopUntouched
  <2>3. a({}) = Shrunk(v) /\ a(ToSet(v.names)) = v.tgtSize
    BY <1>1, <2>2 DEF Mix
  <2> QED BY <1>4, <2>1, <2>3
<1> QED BY <1>2, <1>8, <1>9

(* The last one moves partitions from "default" to their new group. *)
Arrivals(v) == ForEach(v.names, LAMBDA p : Moves(v, p), LAMBDA p : <<Op("move", p, v.tgtGroup[p], 0)>>)

(* Partitions that change their group go from the default group to their    *)
(* new one, whose limit is the target's.                                    *)
LEMMA ArrivalsLead ==
  ASSUME NEW v, NEW N, Layout(v, N)
  PROVE  /\ Arrivals(v) \in Seq(OpSet(v, N))
         /\ Leads(Meta(Added(v), v.tgtSize, v.tgtLimit), Arrivals(v),
                  Meta(v.tgtGroup, v.tgtSize, v.tgtLimit))
<1> DEFINE A == {p \in N : Moves(v, p)}
           o == [p \in N |-> Op("move", p, v.tgtGroup[p], 0)]
           a(D) == Mix(Added(v), v.tgtGroup, D)
           f == [D \in SUBSET N |-> Meta(a(D), v.tgtSize, v.tgtLimit)]
<1>1. /\ v.names \in Seq(N) /\ Distinct(v.names) /\ IsFiniteSet(N)
      /\ Added(v) \in [N -> Places0(v)] /\ v.tgtGroup \in [N -> Places0(v)]
  BY LoopTypes DEF Layout
<1>2. Arrivals(v) = Loop(v.names, A, o)
  <2>1. \A k \in 1..Len(v.names) : v.names[k] \in N
    BY <1>1
  <2>2. [k \in 1..Len(v.names) |-> IF Moves(v, v.names[k]) THEN <<Op("move", v.names[k], v.tgtGroup[v.names[k]], 0)>> ELSE <<>>]
          = [k \in 1..Len(v.names) |-> IF v.names[k] \in A THEN <<o[v.names[k]]>> ELSE <<>>]
    BY <2>1
  <2> HIDE DEF A, o
  <2> QED BY <2>2 DEF Loop, Arrivals, ForEach
<1>3. \A p \in N : p \in A => o[p] \in OpSet(v, N)
  BY OpTypes
<1>4. \A D \in SUBSET N : f[D] = Meta(a(D), v.tgtSize, v.tgtLimit)
  OBVIOUS
<1>5. /\ \A p \in A : Moves(v, p) /\ o[p] = Op("move", p, v.tgtGroup[p], 0)
      /\ \A p \in N \ A : ~Moves(v, p)
  OBVIOUS
<1> HIDE DEF f, o, A
<1>6. ASSUME NEW D \in SUBSET N, NEW p \in N \ D, p \in A PROVE ApplyOp(f[D], o[p]) = f[D \union {p}]
  <2> DEFINE E == D \union {p}
  <2>1. /\ a(D) \in [N -> Places0(v)] /\ \A q \in N : a(D)[q] = IF q \in D THEN v.tgtGroup[q] ELSE Added(v)[q]
        /\ a(E) \in [N -> Places0(v)] /\ \A q \in N : a(E)[q] = IF q \in E THEN v.tgtGroup[q] ELSE Added(v)[q]
    BY <1>1 DEF Mix
  <2> HIDE DEF a
  <2>2. a(D)[p] = Added(v)[p] /\ a(E)[p] = v.tgtGroup[p] /\ Beyond(N, p, a(D), a(E))
    BY <2>1 DEF Beyond
  <2>3. E \in SUBSET N /\ a(D) \in [N -> Places0(v)] /\ a(E) \in [N -> Places0(v)]
    BY <2>1
  <2>4. Moves(v, p) /\ o[p] = Op("move", p, v.tgtGroup[p], 0)
    BY <1>5, <1>6
  <2> HIDE DEF E
  <2>5. Added(v)[p] = Default /\ NoGroup # Default
    BY <2>4, LoopFacts DEF NoGroup, Default
  <2>6. v.tgtSize \in [N -> Nat] /\ \A q \in N : v.tgtSize[q] <= v.tgtSize[q]
    BY DEF Layout
  <2> DEFINE g == v.tgtGroup[p]
  <2>7. g \in Groups0(v) /\ g # Default /\ g # NoGroup /\ v.tgtLimit[g] # NoLimit
    BY <2>4 DEF Moves, Layout
  <2>8. v.tgtLimit[g] = 0 \/ Total(Share(a(E), v.tgtSize, g)) <= v.tgtLimit[g]
    <3> SUFFICES ASSUME v.tgtLimit[g] # 0 PROVE Total(Share(a(E), v.tgtSize, g)) <= v.tgtLimit[g]
      OBVIOUS
    <3>1. \A q \in N : a(E)[q] = g => v.tgtGroup[q] = g
      <4>1. \A q \in N : Added(v)[q] = g => v.tgtGroup[q] = g
        BY <2>7, LoopFacts
      <4> QED BY <2>1, <4>1
    <3>2. Total(Share(v.tgtGroup, v.tgtSize, g)) <= v.tgtLimit[g] /\ v.tgtLimit[g] \in Int
      <4>1. v.tgtLimit \in [Groups0(v) -> Int]
        BY LoopTypes
      <4> QED BY <2>7, <4>1 DEF Layout
    <3> HIDE DEF g
    <3>3. /\ Total(Share(a(E), v.tgtSize, g)) <= Total(Share(v.tgtGroup, v.tgtSize, g))
          /\ Total(Share(a(E), v.tgtSize, g)) \in Nat /\ Total(Share(v.tgtGroup, v.tgtSize, g)) \in Nat
      <4>1. Within(N, a(E), v.tgtSize, v.tgtGroup, v.tgtSize, g)
        BY <2>6, <3>1 DEF Within
      <4> QED BY <1>1, <2>1, <2>6, <4>1, ShareLeq
    <3> QED BY <3>2, <3>3
  <2>10. ApplyOp(Meta(a(D), v.tgtSize, v.tgtLimit), Op("move", p, v.tgtGroup[p], 0)) = Meta(a(E), v.tgtSize, v.tgtLimit)
    <3>1. a(D)[p] # NoGroup /\ a(D)[p] # g /\ a(E)[p] = g
      BY <2>2, <2>5, <2>7
    <3> HIDE DEF g
    <3>2. ApplyOp(Meta(a(D), v.tgtSize, v.tgtLimit), Op("move", p, g, 0)) = Meta(a(E), v.tgtSize, v.tgtLimit)
      <4>1. Moving(N, Places0(v), a(D), v.tgtSize, v.tgtLimit, p, g, a(E))
        BY <1>1, <2>2, <2>3, <2>6, <2>7, <2>8, <3>1 DEF Moving
      <4> QED BY <4>1, DoMove
    <3> QED BY <3>2 DEF g
  <2> QED BY <1>4, <2>3, <2>4, <2>10 DEF E
<1>7. ASSUME NEW D \in SUBSET N, NEW p \in N \ D, p \notin A PROVE f[D \union {p}] = f[D]
  <2>1. Added(v)[p] = v.tgtGroup[p]
    BY <1>5, <1>7, LoopFacts
  <2>2. a(D \union {p}) = a(D)
    BY <1>1, <2>1 DEF Mix
  <2> HIDE DEF a
  <2>3. D \union {p} \in SUBSET N
    OBVIOUS
  <2> QED BY <1>4, <2>2, <2>3
<1>8. Loop(v.names, A, o) \in Seq(OpSet(v, N)) /\ Leads(f[{}], Loop(v.names, A, o), f[ToSet(v.names)])
  <2>1. Applies(N, A, o, f)
    BY <1>6, <1>7 DEF Applies
  <2> QED BY <1>1, <1>3, <2>1, LoopLeads
<1>9. f[{}] = Meta(Added(v), v.tgtSize, v.tgtLimit) /\ f[ToSet(v.names)] = Meta(v.tgtGroup, v.tgtSize, v.tgtLimit)
  <2>1. {} \in SUBSET N /\ ToSet(v.names) \in SUBSET N
    BY <1>1 DEF ToSet
  <2>2. \A q \in N \ ToSet(v.names) : Added(v)[q] = v.tgtGroup[q]
    BY LoopFacts DEF Moves
  <2>3. a({}) = Added(v) /\ a(ToSet(v.names)) = v.tgtGroup
    BY <1>1, <2>2 DEF Mix
  <2> QED BY <1>4, <2>1, <2>3
<1> QED BY <1>2, <1>8, <1>9

(* A group takes no more than in the target, once partitions have shrunk.  *)
LEMMA ShrunkShare ==
  ASSUME NEW v, NEW N, Layout(v, N), NEW g \in Groups0(v)
  PROVE  /\ v.tgtLimit[g] = NoLimit => \A q \in N : Parked(v)[q] # g
         /\ v.tgtLimit[g] \notin {NoLimit, 0} => Total(Share(Parked(v), Shrunk(v), g)) <= v.tgtLimit[g]
<1>1. IsFiniteSet(N) /\ v.tgtSize \in [N -> Nat] /\ g \notin {NoGroup, Default}
  BY DEF Layout
<1>2. /\ Parked(v) \in [N -> Places0(v)] /\ v.tgtGroup \in [N -> Places0(v)] /\ Shrunk(v) \in [N -> Nat]
      /\ v.tgtLimit \in [Groups0(v) -> Int]
  BY LoopTypes
<1>3. \A q \in N : Parked(v)[q] = g => v.tgtGroup[q] = g
  BY <1>1, LoopFacts
<1>4. ASSUME v.tgtLimit[g] = NoLimit, NEW q \in N PROVE Parked(v)[q] # g
  BY <1>1, <1>3, <1>4 DEF Layout
<1>5. ASSUME v.tgtLimit[g] \notin {NoLimit, 0}
      PROVE  Total(Share(Parked(v), Shrunk(v), g)) <= v.tgtLimit[g]
  <2>1. Within(N, Parked(v), Shrunk(v), v.tgtGroup, v.tgtSize, g)
    BY <1>3, LoopSizes DEF Within
  <2>2. /\ Total(Share(Parked(v), Shrunk(v), g)) <= Total(Share(v.tgtGroup, v.tgtSize, g))
        /\ Total(Share(Parked(v), Shrunk(v), g)) \in Nat /\ Total(Share(v.tgtGroup, v.tgtSize, g)) \in Nat
    BY <1>1, <1>2, <2>1, ShareLeq
  <2>3. Total(Share(v.tgtGroup, v.tgtSize, g)) <= v.tgtLimit[g] /\ v.tgtLimit[g] \in Int
    BY <1>2, <1>5 DEF Layout
  <2> QED BY <2>2, <2>3
<1> QED BY <1>4, <1>5

(* Limits of groups come down, and groups that are empty by now go.        *)
GroupShrinkings(v) == ForEach(v.groups, LAMBDA g : TRUE, LAMBDA g : ShrinkGroup(v, g))

(* Groups that go are empty by now, and groups that get a lower limit keep  *)
(* to it.                                                                   *)
LEMMA GroupShrinkingsLead ==
  ASSUME NEW v, NEW N, Layout(v, N)
  PROVE  /\ GroupShrinkings(v) \in Seq(OpSet(v, N))
         /\ Leads(Meta(Parked(v), Shrunk(v), v.srcLimit), GroupShrinkings(v),
                  Meta(Parked(v), Shrunk(v), ShrunkLimit(v)))
<1> DEFINE G == Groups0(v)
           R(g) == v.srcLimit[g] # NoLimit /\ v.tgtLimit[g] = NoLimit
           C(g) == v.srcLimit[g] # NoLimit /\ v.tgtLimit[g] # NoLimit /\ v.srcLimit[g] > v.tgtLimit[g]
           A == {g \in G : R(g) \/ C(g)}
           o == [g \in G |-> IF R(g) THEN Op("remove_group", g, NoGroup, 0)
                             ELSE Op("resize_group", g, NoGroup, v.tgtLimit[g])]
           a(D) == Mix(v.srcLimit, ShrunkLimit(v), D)
           f == [D \in SUBSET G |-> Meta(Parked(v), Shrunk(v), a(D))]
<1>1. /\ v.groups \in Seq(G) /\ Distinct(v.groups) /\ Parked(v) \in [N -> Places0(v)]
      /\ v.srcLimit \in [G -> Int] /\ v.tgtLimit \in [G -> Int] /\ ShrunkLimit(v) \in [G -> Int]
  BY LoopTypes DEF Layout
<1>2. \A g \in G : ShrinkGroup(v, g) = IF g \in A THEN <<o[g]>> ELSE <<>>
  <2> SUFFICES ASSUME NEW g \in G PROVE ShrinkGroup(v, g) = IF g \in A THEN <<o[g]>> ELSE <<>>
    OBVIOUS
  <2> DEFINE r == <<Op("remove_group", g, NoGroup, 0)>>
             t == <<Op("resize_group", g, NoGroup, v.tgtLimit[g])>>
  <2>1. ShrinkGroup(v, g) = (IF R(g) THEN r ELSE <<>>) \o (IF C(g) THEN t ELSE <<>>)
    BY DEF ShrinkGroup
  <2>2. (g \in A <=> R(g) \/ C(g)) /\ o[g] = IF R(g) THEN Op("remove_group", g, NoGroup, 0)
                                         ELSE Op("resize_group", g, NoGroup, v.tgtLimit[g])
    OBVIOUS
  <2>3. ~(R(g) /\ C(g))
    OBVIOUS
  <2>4. r \o <<>> = r /\ <<>> \o t = t /\ <<>> \o <<>> = <<>>
    OBVIOUS
  <2>5. CASE R(g)
    <3>1. ShrinkGroup(v, g) = r
      BY <2>1, <2>3, <2>4, <2>5
    <3> QED BY <2>2, <2>5, <3>1
  <2>6. CASE C(g)
    <3>1. ShrinkGroup(v, g) = t
      BY <2>1, <2>3, <2>4, <2>6
    <3> QED BY <2>2, <2>3, <2>6, <3>1
  <2>7. CASE ~R(g) /\ ~C(g)
    <3>1. ShrinkGroup(v, g) = <<>>
      BY <2>1, <2>4, <2>7
    <3> QED BY <2>2, <2>7, <3>1
  <2> QED BY <2>5, <2>6, <2>7
<1>3. GroupShrinkings(v) = Loop(v.groups, A, o)
  <2>1. \A k \in 1..Len(v.groups) : v.groups[k] \in G
    BY <1>1
  <2> HIDE DEF A, o, G
  <2>2. [k \in 1..Len(v.groups) |-> IF TRUE THEN ShrinkGroup(v, v.groups[k]) ELSE <<>>]
          = [k \in 1..Len(v.groups) |-> IF v.groups[k] \in A THEN <<o[v.groups[k]]>> ELSE <<>>]
    BY <1>2, <2>1
  <2> QED BY <2>2 DEF Loop, GroupShrinkings, ForEach
<1>4. \A g \in G : g \in A => o[g] \in OpSet(v, N)
  BY OpTypes
<1>5. \A D \in SUBSET G : f[D] = Meta(Parked(v), Shrunk(v), a(D))
  OBVIOUS
<1>6. \A g \in G : /\ g \in A <=> R(g) \/ C(g)
                   /\ R(g) => o[g] = Op("remove_group", g, NoGroup, 0)
                   /\ C(g) => o[g] = Op("resize_group", g, NoGroup, v.tgtLimit[g])
  OBVIOUS
<1>7. \A g \in G : ShrunkLimit(v)[g] = IF R(g) \/ C(g) THEN v.tgtLimit[g] ELSE v.srcLimit[g]
  BY <1>1 DEF ShrunkLimit
<1> HIDE DEF f, o, A
<1>8. ASSUME NEW D \in SUBSET G, NEW g \in G \ D, g \in A PROVE ApplyOp(f[D], o[g]) = f[D \union {g}]
  <2> DEFINE E == D \union {g}
  <2>1. /\ a(D) \in [G -> Int] /\ a(E) \in [G -> Int] /\ a(D)[g] = v.srcLimit[g] /\ a(E)[g] = ShrunkLimit(v)[g]
        /\ Beyond(G, g, a(D), a(E))
    BY <1>1 DEF Mix, Beyond
  <2>2. E \in SUBSET G
    OBVIOUS
  <2>3. a(E)[g] = v.tgtLimit[g]
    BY <1>6, <1>7, <1>8, <2>1
  <2> HIDE DEF a, E
  <2>4. CASE R(g)
    <3>1. RemovingGroup(N, Places0(v), Parked(v), G, a(D), g, a(E))
      BY <1>1, <2>1, <2>3, <2>4, ShrunkShare DEF RemovingGroup
    <3>2. ApplyOp(Meta(Parked(v), Shrunk(v), a(D)), Op("remove_group", g, NoGroup, 0)) = Meta(Parked(v), Shrunk(v), a(E))
      BY <3>1, DoRemoveGroup
    <3> QED BY <1>5, <1>6, <2>2, <2>4, <3>2 DEF E
  <2>5. CASE C(g)
    <3> DEFINE n == v.tgtLimit[g]
    <3>1. n = 0 \/ Total(Share(Parked(v), Shrunk(v), g)) <= n
      BY <2>5, ShrunkShare
    <3>2. a(E)[g] = n /\ a(D)[g] # NoLimit
      BY <2>1, <2>3, <2>5
    <3> HIDE DEF n
    <3>3. ResizingGroup(N, Places0(v), Parked(v), Shrunk(v), G, a(D), g, n, a(E))
      BY <1>1, <2>1, <3>1, <3>2 DEF ResizingGroup
    <3>4. ApplyOp(Meta(Parked(v), Shrunk(v), a(D)), Op("resize_group", g, NoGroup, n)) = Meta(Parked(v), Shrunk(v), a(E))
      BY <3>3, DoResizeGroup
    <3>5. o[g] = Op("resize_group", g, NoGroup, n)
      BY <1>6, <2>5 DEF n
    <3> QED BY <1>5, <2>2, <3>4, <3>5 DEF E
  <2> QED BY <1>6, <1>8, <2>4, <2>5
<1>9. ASSUME NEW D \in SUBSET G, NEW g \in G \ D, g \notin A PROVE f[D \union {g}] = f[D]
  <2>1. v.srcLimit[g] = ShrunkLimit(v)[g]
    BY <1>6, <1>7, <1>9
  <2>2. a(D \union {g}) = a(D)
    BY <1>1, <2>1 DEF Mix
  <2> HIDE DEF a
  <2>3. D \union {g} \in SUBSET G
    OBVIOUS
  <2> QED BY <1>5, <2>2, <2>3
<1>10. Loop(v.groups, A, o) \in Seq(OpSet(v, N)) /\ Leads(f[{}], Loop(v.groups, A, o), f[ToSet(v.groups)])
  <2> HIDE DEF G
  <2>1. Applies(G, A, o, f)
    BY <1>8, <1>9 DEF Applies
  <2> QED BY <1>1, <1>4, <2>1, LoopLeads
<1>11. /\ f[{}] = Meta(Parked(v), Shrunk(v), v.srcLimit)
       /\ f[ToSet(v.groups)] = Meta(Parked(v), Shrunk(v), ShrunkLimit(v))
  <2>1. {} \in SUBSET G /\ ToSet(v.groups) = G
    BY DEF Groups0
  <2>2. a({}) = v.srcLimit /\ a(G) = ShrunkLimit(v)
    BY <1>1 DEF Mix
  <2> QED BY <1>5, <2>1, <2>2
<1> QED BY <1>3, <1>10, <1>11

(* Limits go up, and new groups come.                                      *)
GroupGrowings(v) == ForEach(v.groups, LAMBDA g : TRUE, LAMBDA g : GrowGroup(v, g))

(* Groups that come, or get a higher limit, take the target's. *)
LEMMA GroupGrowingsLead ==
  ASSUME NEW v, NEW N, Layout(v, N)
  PROVE  /\ GroupGrowings(v) \in Seq(OpSet(v, N))
         /\ Leads(Meta(Parked(v), Shrunk(v), ShrunkLimit(v)), GroupGrowings(v),
                  Meta(Parked(v), Shrunk(v), v.tgtLimit))
<1> DEFINE G == Groups0(v)
           R(g) == v.srcLimit[g] = NoLimit /\ v.tgtLimit[g] # NoLimit
           C(g) == v.srcLimit[g] # NoLimit /\ v.tgtLimit[g] # NoLimit /\ v.srcLimit[g] < v.tgtLimit[g]
           A == {g \in G : R(g) \/ C(g)}
           o == [g \in G |-> IF R(g) THEN Op("add_group", g, NoGroup, v.tgtLimit[g])
                             ELSE Op("resize_group", g, NoGroup, v.tgtLimit[g])]
           a(D) == Mix(ShrunkLimit(v), v.tgtLimit, D)
           f == [D \in SUBSET G |-> Meta(Parked(v), Shrunk(v), a(D))]
<1>1. /\ v.groups \in Seq(G) /\ Distinct(v.groups) /\ Parked(v) \in [N -> Places0(v)]
      /\ v.srcLimit \in [G -> Int] /\ v.tgtLimit \in [G -> Int] /\ ShrunkLimit(v) \in [G -> Int]
      /\ Default \notin G
  BY LoopTypes DEF Layout
<1>2. \A g \in G : GrowGroup(v, g) = IF g \in A THEN <<o[g]>> ELSE <<>>
  <2> SUFFICES ASSUME NEW g \in G PROVE GrowGroup(v, g) = IF g \in A THEN <<o[g]>> ELSE <<>>
    OBVIOUS
  <2> DEFINE r == <<Op("add_group", g, NoGroup, v.tgtLimit[g])>>
             t == <<Op("resize_group", g, NoGroup, v.tgtLimit[g])>>
  <2>1. GrowGroup(v, g) = (IF R(g) THEN r ELSE <<>>) \o (IF C(g) THEN t ELSE <<>>)
    BY DEF GrowGroup
  <2>2. (g \in A <=> R(g) \/ C(g)) /\ o[g] = IF R(g) THEN Op("add_group", g, NoGroup, v.tgtLimit[g])
                                         ELSE Op("resize_group", g, NoGroup, v.tgtLimit[g])
    OBVIOUS
  <2>3. ~(R(g) /\ C(g))
    OBVIOUS
  <2>4. r \o <<>> = r /\ <<>> \o t = t /\ <<>> \o <<>> = <<>>
    OBVIOUS
  <2>5. CASE R(g)
    <3>1. GrowGroup(v, g) = r
      BY <2>1, <2>3, <2>4, <2>5
    <3> QED BY <2>2, <2>5, <3>1
  <2>6. CASE C(g)
    <3>1. GrowGroup(v, g) = t
      BY <2>1, <2>3, <2>4, <2>6
    <3> QED BY <2>2, <2>3, <2>6, <3>1
  <2>7. CASE ~R(g) /\ ~C(g)
    <3>1. GrowGroup(v, g) = <<>>
      BY <2>1, <2>4, <2>7
    <3> QED BY <2>2, <2>7, <3>1
  <2> QED BY <2>5, <2>6, <2>7
<1>3. GroupGrowings(v) = Loop(v.groups, A, o)
  <2>1. \A k \in 1..Len(v.groups) : v.groups[k] \in G
    BY <1>1
  <2> HIDE DEF A, o, G
  <2>2. [k \in 1..Len(v.groups) |-> IF TRUE THEN GrowGroup(v, v.groups[k]) ELSE <<>>]
          = [k \in 1..Len(v.groups) |-> IF v.groups[k] \in A THEN <<o[v.groups[k]]>> ELSE <<>>]
    BY <1>2, <2>1
  <2> QED BY <2>2 DEF Loop, GroupGrowings, ForEach
<1>4. \A g \in G : g \in A => o[g] \in OpSet(v, N)
  BY OpTypes
<1>5. \A D \in SUBSET G : f[D] = Meta(Parked(v), Shrunk(v), a(D))
  OBVIOUS
<1>6. \A g \in G : /\ g \in A <=> R(g) \/ C(g)
                   /\ R(g) => o[g] = Op("add_group", g, NoGroup, v.tgtLimit[g])
                   /\ C(g) => o[g] = Op("resize_group", g, NoGroup, v.tgtLimit[g])
  OBVIOUS
<1>7. \A g \in G : IF R(g) \/ C(g) THEN ShrunkLimit(v)[g] = v.srcLimit[g] ELSE ShrunkLimit(v)[g] = v.tgtLimit[g]
  <2>1. \A g \in G : v.srcLimit[g] \in Int /\ v.tgtLimit[g] \in Int
    BY <1>1
  <2>2. \A g \in G : ShrunkLimit(v)[g] = IF v.srcLimit[g] # NoLimit /\ (v.tgtLimit[g] = NoLimit \/ v.srcLimit[g] > v.tgtLimit[g])
                                         THEN v.tgtLimit[g] ELSE v.srcLimit[g]
    BY <1>1 DEF ShrunkLimit
  <2> QED BY <2>1, <2>2
<1> HIDE DEF f, o, A
<1>8. ASSUME NEW D \in SUBSET G, NEW g \in G \ D, g \in A PROVE ApplyOp(f[D], o[g]) = f[D \union {g}]
  <2> DEFINE E == D \union {g}
             n == v.tgtLimit[g]
  <2>1. /\ a(D) \in [G -> Int] /\ a(E) \in [G -> Int] /\ a(D)[g] = ShrunkLimit(v)[g] /\ a(E)[g] = n
        /\ Beyond(G, g, a(D), a(E))
    BY <1>1 DEF Mix, Beyond
  <2>2. E \in SUBSET G
    OBVIOUS
  <2>3. a(D)[g] = v.srcLimit[g]
    BY <1>6, <1>7, <1>8, <2>1
  <2> HIDE DEF a, E
  <2>4. CASE R(g)
    <3>0. a(D)[g] = NoLimit
      BY <2>3, <2>4
    <3>1. o[g] = Op("add_group", g, NoGroup, n)
      BY <1>6, <2>4
    <3> HIDE DEF n
    <3>2. AddingGroup(G, a(D), g, n, a(E))
      BY <1>1, <2>1, <3>0 DEF AddingGroup
    <3>3. ApplyOp(Meta(Parked(v), Shrunk(v), a(D)), Op("add_group", g, NoGroup, n)) = Meta(Parked(v), Shrunk(v), a(E))
      BY <3>2, DoAddGroup
    <3> QED BY <1>5, <2>2, <3>1, <3>3 DEF E
  <2>5. CASE C(g)
    <3>1. n = 0 \/ Total(Share(Parked(v), Shrunk(v), g)) <= n
      BY <2>5, ShrunkShare
    <3>2. a(D)[g] # NoLimit
      BY <2>3, <2>5
    <3>5. o[g] = Op("resize_group", g, NoGroup, n)
      BY <1>6, <2>5
    <3> HIDE DEF n
    <3>3. ResizingGroup(N, Places0(v), Parked(v), Shrunk(v), G, a(D), g, n, a(E))
      BY <1>1, <2>1, <3>1, <3>2 DEF ResizingGroup
    <3>4. ApplyOp(Meta(Parked(v), Shrunk(v), a(D)), Op("resize_group", g, NoGroup, n)) = Meta(Parked(v), Shrunk(v), a(E))
      BY <3>3, DoResizeGroup
    <3> QED BY <1>5, <2>2, <3>4, <3>5 DEF E
  <2> QED BY <1>6, <1>8, <2>4, <2>5
<1>9. ASSUME NEW D \in SUBSET G, NEW g \in G \ D, g \notin A PROVE f[D \union {g}] = f[D]
  <2>1. v.tgtLimit[g] = ShrunkLimit(v)[g]
    BY <1>6, <1>7, <1>9
  <2>2. a(D \union {g}) = a(D)
    BY <1>1, <2>1 DEF Mix
  <2> HIDE DEF a
  <2>3. D \union {g} \in SUBSET G
    OBVIOUS
  <2> QED BY <1>5, <2>2, <2>3
<1>10. Loop(v.groups, A, o) \in Seq(OpSet(v, N)) /\ Leads(f[{}], Loop(v.groups, A, o), f[ToSet(v.groups)])
  <2> HIDE DEF G
  <2>1. Applies(G, A, o, f)
    BY <1>8, <1>9 DEF Applies
  <2> QED BY <1>1, <1>4, <2>1, LoopLeads
<1>11. /\ f[{}] = Meta(Parked(v), Shrunk(v), ShrunkLimit(v))
       /\ f[ToSet(v.groups)] = Meta(Parked(v), Shrunk(v), v.tgtLimit)
  <2>1. {} \in SUBSET G /\ ToSet(v.groups) = G
    BY DEF Groups0
  <2>2. a({}) = ShrunkLimit(v) /\ a(G) = v.tgtLimit
    BY <1>1 DEF Mix
  <2> QED BY <1>5, <2>1, <2>2
<1> QED BY <1>3, <1>10, <1>11

(* remove_all_groups leaves an empty super.                                *)
LEMMA DoRemoveAll ==
  ASSUME NEW ga, NEW sz, NEW li
  PROVE  ApplyOp(Meta(ga, sz, li), Op("remove_all_groups", NoGroup, NoGroup, 0))
           = Meta([p \in DOMAIN ga |-> NoGroup], [p \in DOMAIN sz |-> 0], [g \in DOMAIN li |-> NoLimit])
<1> DEFINE m == Meta(ga, sz, li)
           o == Op("remove_all_groups", NoGroup, NoGroup, 0)
           a == [p \in DOMAIN ga |-> NoGroup]
           b == [p \in DOMAIN sz |-> 0]
           d == [g \in DOMAIN li |-> NoLimit]
<1>1. o.op = "remove_all_groups"
  BY DEF Op
<1>2. m.group = ga /\ m.size = sz /\ m.limit = li
  BY MetaFields
<1>3. m.ok
  BY MetaOk
<1>4. Accepts(m, o)
  <2> HIDE DEF m, o
  <2> QED BY <1>1 DEF Accepts
<1>5. Effect(m, o) = [m EXCEPT !.group = a, !.size = b, !.limit = d]
  <2> HIDE DEF m, o
  <2> QED BY <1>1, <1>2 DEF Effect
<1> HIDE DEF a, b, d
<1>6. /\ [m EXCEPT !.group = a] = Meta(a, sz, li) /\ [Meta(a, sz, li) EXCEPT !.size = b] = Meta(a, b, li)
      /\ [Meta(a, b, li) EXCEPT !.limit = d] = Meta(a, b, d)
  BY MetaGroup, MetaSize, MetaLimit
<1> HIDE DEF m, o
<1>7. [m EXCEPT !.group = a, !.size = b, !.limit = d] = [[[m EXCEPT !.group = a] EXCEPT !.size = b] EXCEPT !.limit = d]
  OBVIOUS
<1>8. ApplyOp(m, o) = Meta(a, b, d)
  BY <1>3, <1>4, <1>5, <1>6, <1>7 DEF ApplyOp
<1> QED BY <1>8 DEF m, o, a, b, d

(* The list as a whole.                                                    *)
LEMMA ComputeLeads ==
  ASSUME NEW v, NEW N, Layout(v, N), NEW m,
         IF v.removeAll THEN ApplyOp(m, Op("remove_all_groups", NoGroup, NoGroup, 0)) = Meta(v.srcGroup, v.srcSize, v.srcLimit)
         ELSE m = Meta(v.srcGroup, v.srcSize, v.srcLimit)
  PROVE  Compute(v) \in Seq(OpSet(v, N)) /\ Leads(m, Compute(v), Meta(v.tgtGroup, v.tgtSize, v.tgtLimit))
<1> DEFINE X == OpSet(v, N)
           o == Op("remove_all_groups", NoGroup, NoGroup, 0)
           all == IF v.removeAll THEN <<o>> ELSE <<>>
           m0 == Meta(v.srcGroup, v.srcSize, v.srcLimit)
           m1 == Meta(Kept(v), KeptSize(v), v.srcLimit)
           m2 == Meta(Parked(v), KeptSize(v), v.srcLimit)
           m3 == Meta(Parked(v), Shrunk(v), v.srcLimit)
           m4 == Meta(Parked(v), Shrunk(v), ShrunkLimit(v))
           m5 == Meta(Parked(v), Shrunk(v), v.tgtLimit)
           m6 == Meta(Added(v), Shrunk(v), v.tgtLimit)
           m7 == Meta(Added(v), v.tgtSize, v.tgtLimit)
           m8 == Meta(v.tgtGroup, v.tgtSize, v.tgtLimit)
           r == Removals(v)
           p == Parkings(v)
           s == Shrinkings(v)
           g == GroupShrinkings(v)
           h == GroupGrowings(v)
           a == Additions(v)
           w == Growings(v)
           b == Arrivals(v)
<1>1. /\ r \in Seq(X) /\ p \in Seq(X) /\ s \in Seq(X) /\ g \in Seq(X) /\ h \in Seq(X)
      /\ a \in Seq(X) /\ w \in Seq(X) /\ b \in Seq(X)
  BY RemovalsLead, ParkingsLead, ShrinkingsLead, GroupShrinkingsLead, GroupGrowingsLead, AdditionsLead, GrowingsLead, ArrivalsLead
<1>2. /\ Leads(m0, r, m1) /\ Leads(m1, p, m2) /\ Leads(m2, s, m3) /\ Leads(m3, g, m4) /\ Leads(m4, h, m5)
      /\ Leads(m5, a, m6) /\ Leads(m6, w, m7) /\ Leads(m7, b, m8)
  BY RemovalsLead, ParkingsLead, ShrinkingsLead, GroupShrinkingsLead, GroupGrowingsLead, AdditionsLead, GrowingsLead, ArrivalsLead
<1>3. Compute(v) = ((all \o ((r \o p) \o s)) \o (g \o h)) \o ((a \o w) \o b)
  BY DEF Compute, Releases, Groups, Acquires, Removals, Parkings, Shrinkings, GroupShrinkings, GroupGrowings, Additions, Growings, Arrivals
<1>4. all \in Seq(X) /\ Leads(m, all, m0)
  <2>1. o \in X
    BY DEF OpSet, Op, Places0
  <2>2. CASE v.removeAll
    <3>1. all = <<o>>
      BY <2>2
    <3>2. ApplyOp(m, o) = m0
      BY <2>2
    <3>3. Leads(m, <<o>>, ApplyOp(m, o))
      BY LeadsOne
    <3> HIDE DEF X, o, m0
    <3> QED BY <2>1, <3>1, <3>2, <3>3
  <2>3. CASE ~v.removeAll
    <3>1. all = <<>> /\ m = m0
      BY <2>3
    <3>3. Leads(m, <<>>, m)
      BY LeadsNone
    <3> HIDE DEF X, m0
    <3> QED BY <3>1, <3>3
  <2> QED BY <2>2, <2>3
<1> HIDE DEF X, all, m0, m1, m2, m3, m4, m5, m6, m7, m8, r, p, s, g, h, a, w, b
<1>5. (r \o p) \in Seq(X) /\ Leads(m0, r \o p, m2)
  BY <1>1, <1>2, LeadsConcat, ConcatFacts
<1>6. ((r \o p) \o s) \in Seq(X) /\ Leads(m0, (r \o p) \o s, m3)
  BY <1>1, <1>2, <1>5, LeadsConcat, ConcatFacts
<1>7. (all \o ((r \o p) \o s)) \in Seq(X) /\ Leads(m, all \o ((r \o p) \o s), m3)
  BY <1>4, <1>6, LeadsConcat, ConcatFacts
<1>8. (g \o h) \in Seq(X) /\ Leads(m3, g \o h, m5)
  BY <1>1, <1>2, LeadsConcat, ConcatFacts
<1>9. /\ ((all \o ((r \o p) \o s)) \o (g \o h)) \in Seq(X)
      /\ Leads(m, (all \o ((r \o p) \o s)) \o (g \o h), m5)
  BY <1>7, <1>8, LeadsConcat, ConcatFacts
<1>10. (a \o w) \in Seq(X) /\ Leads(m5, a \o w, m7)
  BY <1>1, <1>2, LeadsConcat, ConcatFacts
<1>11. ((a \o w) \o b) \in Seq(X) /\ Leads(m5, (a \o w) \o b, m8)
  BY <1>1, <1>2, <1>10, LeadsConcat, ConcatFacts
<1>12. /\ (((all \o ((r \o p) \o s)) \o (g \o h)) \o ((a \o w) \o b)) \in Seq(X)
       /\ Leads(m, ((all \o ((r \o p) \o s)) \o (g \o h)) \o ((a \o w) \o b), m8)
  BY <1>9, <1>11, LeadsConcat, ConcatFacts
<1> QED BY <1>3, <1>12 DEF X, m8

-----------------------------------------------------------------------------
(* The elements of s that are in A, in order, are different if those of s  *)
(* are.                                                                    *)
LEMMA SelectedDistinct ==
  ASSUME NEW X, NEW s \in Seq(X), Distinct(s), NEW A, NEW w, DOMAIN w = 1..Len(s), w \in Seq(Seq(X)),
         \A k \in 1..Len(s) : w[k] = IF s[k] \in A THEN <<s[k]>> ELSE <<>>
  PROVE  /\ FlattenSeq(w) \in Seq(X) /\ Distinct(FlattenSeq(w))
         /\ \A i \in 1..Len(FlattenSeq(w)) : FlattenSeq(w)[i] \in A
<1> DEFINE n == Len(s)
           F(k) == FlattenSeq(Prefix(w, k))
           Good(k) == /\ F(k) \in Seq(X) /\ Distinct(F(k))
                      /\ \A i \in 1..Len(F(k)) : F(k)[i] \in A /\ \E j \in 1..k : F(k)[i] = s[j]
           K == {k \in 0..n : Good(k)}
<1>1. n \in Nat /\ Len(w) = n /\ \A k \in 1..n : s[k] \in X
  OBVIOUS
<1>2. 0 \in K
  <2>1. F(0) = <<>>
    BY PrefixFacts, FlattenEmpty
  <2>2. Len(<<>>) = 0 /\ <<>> \in Seq(X)
    OBVIOUS
  <2>3. \A i \in 1..Len(<<>>) : FALSE
    BY <2>2
  <2>4. Distinct(<<>>)
    BY <2>3 DEF Distinct
  <2>5. /\ F(0) \in Seq(X) /\ Distinct(F(0))
        /\ \A i \in 1..Len(F(0)) : F(0)[i] \in A /\ \E j \in 1..0 : F(0)[i] = s[j]
    <3> HIDE DEF F
    <3> QED BY <2>1, <2>2, <2>3, <2>4
  <2> QED BY <1>1, <2>5
<1>3. ASSUME NEW k \in 0..(n - 1), k \in K PROVE k + 1 \in K
  <2>1. k + 1 \in 1..n /\ k \in 0..n /\ k \in Nat /\ k + 1 \in 0..n
    BY <1>1
  <2>2. /\ Prefix(w, k) \in Seq(Seq(X)) /\ w[k + 1] \in Seq(X)
        /\ Prefix(w, k + 1) = Append(Prefix(w, k), w[k + 1])
    BY <1>1, <2>1, PrefixFacts
  <2>3. F(k + 1) = F(k) \o w[k + 1]
    BY <2>2, FlattenAppend
  <2>4. Good(k)
    BY <1>3
  <2>5. CASE s[k + 1] \notin A
    <3>1. w[k + 1] = <<>>
      BY <2>1, <2>5
    <3>2. F(k + 1) = F(k)
      <4>1. F(k) \in Seq(X)
        BY <2>4
      <4> HIDE DEF F
      <4> QED BY <2>3, <3>1, <4>1
    <3>3. \A j \in 1..k : j \in 1..(k + 1)
      BY <2>1
    <3>4. Good(k + 1)
      <4>1. /\ F(k) \in Seq(X) /\ Distinct(F(k))
            /\ \A i \in 1..Len(F(k)) : F(k)[i] \in A /\ \E j \in 1..k : F(k)[i] = s[j]
        BY <2>4
      <4> HIDE DEF F
      <4> QED BY <3>2, <3>3, <4>1
    <3> QED BY <2>1, <3>4
  <2>6. CASE s[k + 1] \in A
    <3>1. w[k + 1] = <<s[k + 1]>>
      BY <2>1, <2>6
    <3> DEFINE t == F(k)
    <3>2. /\ t \in Seq(X) /\ Distinct(t)
          /\ \A i \in 1..Len(t) : t[i] \in A /\ \E j \in 1..k : t[i] = s[j]
      BY <2>4
    <3>3. F(k + 1) = t \o <<s[k + 1]>>
      BY <2>3, <3>1
    <3> DEFINE y == s[k + 1]
               r == F(k + 1)
    <3>4. y \in X
      BY <1>1, <2>1
    <3>5. \A j \in 1..k : s[j] # y /\ j \in 1..(k + 1)
      <4>1. \A j \in 1..k : j \in 1..n /\ j # k + 1
        BY <1>1, <2>1
      <4> QED BY <2>1, <4>1 DEF Distinct
    <3>6. y \in A /\ \E j \in 1..(k + 1) : y = s[j]
      BY <2>1, <2>6
    <3>7. r = t \o <<y>>
      BY <3>3
    <3> HIDE DEF F, t, y, r
    <3>8. r \in Seq(X) /\ Len(r) = Len(t) + 1 /\ Len(t) \in Nat /\ r[Len(t) + 1] = y
      BY <3>2, <3>4, <3>7
    <3>9. \A i \in 1..Len(t) : r[i] = t[i]
      BY <3>2, <3>4, <3>7
    <3>10. \A i \in 1..Len(r) : i \in 1..Len(t) \/ i = Len(t) + 1
      BY <3>8
    <3>11. \A i \in 1..Len(t) : t[i] # y
      BY <3>2, <3>5
    <3>12. Distinct(r)
      <4> SUFFICES ASSUME NEW i \in 1..Len(r), NEW j \in 1..Len(r), r[i] = r[j] PROVE i = j
        BY DEF Distinct
      <4>1. CASE i \in 1..Len(t) /\ j \in 1..Len(t)
        <5>1. t[i] = t[j]
          BY <3>9, <4>1
        <5> QED BY <3>2, <4>1, <5>1 DEF Distinct
      <4>2. CASE i \in 1..Len(t) /\ j = Len(t) + 1
        BY <3>8, <3>9, <3>11, <4>2
      <4>3. CASE i = Len(t) + 1 /\ j \in 1..Len(t)
        BY <3>8, <3>9, <3>11, <4>3
      <4>4. CASE i = Len(t) + 1 /\ j = Len(t) + 1
        BY <4>4
      <4> QED BY <3>10, <4>1, <4>2, <4>3, <4>4
    <3>13. \A i \in 1..Len(r) : r[i] \in A /\ \E j \in 1..(k + 1) : r[i] = s[j]
      <4> SUFFICES ASSUME NEW i \in 1..Len(r) PROVE r[i] \in A /\ \E j \in 1..(k + 1) : r[i] = s[j]
        OBVIOUS
      <4>1. CASE i \in 1..Len(t)
        BY <3>2, <3>5, <3>9, <4>1
      <4>2. CASE i = Len(t) + 1
        BY <3>6, <3>8, <4>2
      <4> QED BY <3>10, <4>1, <4>2
    <3> QED BY <2>1, <3>8, <3>12, <3>13 DEF r
  <2> QED BY <2>5, <2>6
<1>4. n \in K
  <2> HIDE DEF K
  <2>1. \A k \in 0..n : k \in K
    BY <1>1, <1>2, <1>3, UpTo
  <2> QED BY <1>1, <2>1
<1>5. Prefix(w, n) = w
  BY <1>1, PrefixFacts
<1> QED BY <1>4, <1>5

(* There are finitely many partitions. *)
LEMMA NamesFinite ==
  IsFiniteSet(ToSet(PartitionNames))
<1> DEFINE n == Len(PartitionNames)
           T == ToSet(PartitionNames)
<1>1. PartitionNames \in Seq(T) /\ n \in Nat
  BY PartitionNamesAssumption
<1>2. DOMAIN PartitionNames = 1..n /\ PartitionNames \in [1..n -> T]
  BY <1>1
<1>3. \A t \in T : \E k \in 1..n : PartitionNames[k] = t
  BY <1>2 DEF ToSet
<1> HIDE DEF T, n
<1>4. PartitionNames \in Surjection(1..n, T)
  BY <1>2, <1>3 DEF Surjection
<1>5. IsFiniteSet(1..n)
  BY <1>1, FS_Interval
<1>6. IsFiniteSet(T)
  BY <1>4, <1>5, FS_Surjection
<1> QED BY <1>6 DEF T

(* No partition has two BlockDifferences.                                  *)
LEMMA DifferencesDistinct ==
  ASSUME NEW x
  PROVE  Distinct(GetBlockDifferences(x))
<1> DEFINE P == ToSet(PartitionNames)
           n == Len(PartitionNames)
           A == {p \in P : p \notin x.specific /\ x.u.tgtSize[p] > 0}
           B == {p \in P : p \in x.specific}
           gs == [k \in 1..n |->
                    IF PartitionNames[k] \notin x.specific /\ x.u.tgtSize[PartitionNames[k]] > 0
                    THEN <<PartitionNames[k]>> ELSE <<>>]
           ss == [k \in 1..n |->
                    IF PartitionNames[k] \in x.specific THEN <<PartitionNames[k]>> ELSE <<>>]
           g == FlattenSeq(gs)
           s == FlattenSeq(ss)
<1>1. PartitionNames \in Seq(P)
  BY PartitionNamesAssumption
<1>2. Generic(x) = g /\ Specific(x) = s
  BY DEF Generic, Specific, ForEach
<1> HIDE DEF P
<1>3. n \in Nat /\ DOMAIN PartitionNames = 1..n /\ \A k \in 1..n : PartitionNames[k] \in P /\ <<PartitionNames[k]>> \in Seq(P) /\ <<>> \in Seq(P)
  BY <1>1
<1>4. gs \in Seq(Seq(P)) /\ ss \in Seq(Seq(P)) /\ DOMAIN gs = 1..n /\ DOMAIN ss = 1..n
  BY <1>3
<1>5. Distinct(PartitionNames)
  BY <1>3, PartitionNamesAssumption DEF IsInjective, Distinct
<1>6. \A k \in 1..n : /\ gs[k] = IF PartitionNames[k] \in A THEN <<PartitionNames[k]>> ELSE <<>>
                      /\ ss[k] = IF PartitionNames[k] \in B THEN <<PartitionNames[k]>> ELSE <<>>
  BY <1>3
<1>6a. A \cap B = {}
  OBVIOUS
<1> HIDE DEF gs, ss, A, B
<1>7. g \in Seq(P) /\ Distinct(g) /\ \A i \in 1..Len(g) : g[i] \in A
  BY <1>1, <1>4, <1>5, <1>6, SelectedDistinct
<1>8. s \in Seq(P) /\ Distinct(s) /\ \A i \in 1..Len(s) : s[i] \in B
  BY <1>1, <1>4, <1>5, <1>6, SelectedDistinct
<1> HIDE DEF g, s
<1> DEFINE r == g \o s
<1>9. /\ Len(g) \in Nat /\ Len(s) \in Nat /\ Len(r) = Len(g) + Len(s)
      /\ \A i \in 1..Len(g) : r[i] = g[i]
      /\ \A i \in 1..Len(r) : i \notin 1..Len(g) => i - Len(g) \in 1..Len(s) /\ r[i] = s[i - Len(g)]
      /\ \A i \in 1..Len(r) : i \in Int
  BY <1>7, <1>8
<1> HIDE DEF r
<1>10. Distinct(r)
  <2> SUFFICES ASSUME NEW i \in 1..Len(r), NEW j \in 1..Len(r), r[i] = r[j] PROVE i = j
    BY DEF Distinct
  <2>1. CASE i \in 1..Len(g) /\ j \in 1..Len(g)
    BY <2>1, <1>7, <1>9 DEF Distinct
  <2>2. CASE i \notin 1..Len(g) /\ j \notin 1..Len(g)
    <3>1. i - Len(g) = j - Len(g)
      BY <2>2, <1>8, <1>9 DEF Distinct
    <3> QED BY <3>1, <1>9
  <2>3. CASE i \in 1..Len(g) /\ j \notin 1..Len(g)
    <3>1. r[i] \in A /\ r[j] \in B
      BY <2>3, <1>7, <1>8, <1>9
    <3> QED BY <3>1, <1>6a
  <2>4. CASE i \notin 1..Len(g) /\ j \in 1..Len(g)
    <3>1. r[i] \in B /\ r[j] \in A
      BY <2>4, <1>7, <1>8, <1>9
    <3> QED BY <3>1, <1>6a
  <2> QED BY <2>1, <2>2, <2>3, <2>4
<1> QED BY <1>2, <1>10 DEF r, GetBlockDifferences

(* What a device and a build can have.                                     *)
Laid(N, G, ga, sz, li) ==
  /\ IsFiniteSet(N) /\ NoGroup \notin G /\ Default \notin G
  /\ ga \in [N -> G \union {NoGroup}] /\ sz \in [N -> Nat] /\ li \in [G -> Nat \union {NoLimit}]
  /\ Valid(Meta(ga, sz, li))
InBounds(N, G, ga, sz, li) ==
  /\ Total(sz) <= SuperSize
  /\ \A q \in N : ga[q] = NoGroup <=> sz[q] = 0
  /\ \A q \in N : ga[q] # NoGroup => li[ga[q]] # NoLimit
  /\ \A g \in G : li[g] \notin {NoLimit, 0} => Total(Share(ga, sz, g)) <= li[g]

(* What Valid says of metadata. *)
LEMMA ValidFacts ==
  ASSUME NEW N, NEW G, NEW ga, NEW sz, NEW li, Laid(N, G, ga, sz, li)
  PROVE  InBounds(N, G, ga, sz, li)
<1> USE DEF Laid
<1> DEFINE m == Meta(ga, sz, li)
<1>1. m.group = ga /\ m.size = sz /\ m.limit = li
  BY MetaFields
<1>2. Allocated(m) = Total(sz) /\ \A g : Used(m, g) = Total(Share(ga, sz, g))
  BY MetaUse
<1>3. Valid(m)
  OBVIOUS
<1> HIDE DEF m
<1>4. Total(sz) <= SuperSize
  BY <1>2, <1>3 DEF Valid
<1>5. \A q \in N : ga[q] = NoGroup <=> sz[q] = 0
  BY <1>1, <1>3 DEF Valid
<1>6. ASSUME NEW q \in N, ga[q] # NoGroup PROVE li[ga[q]] # NoLimit
  <2>1. GroupExists(m, ga[q]) /\ ga[q] \in G
    BY <1>1, <1>3, <1>6 DEF Valid
  <2> QED BY <1>1, <2>1 DEF GroupExists
<1>7. ASSUME NEW g \in G, li[g] \notin {NoLimit, 0} PROVE Total(Share(ga, sz, g)) <= li[g]
  <2>1. Fits(m, g, 0) /\ g # Default
    BY <1>1, <1>3, <1>7 DEF Valid
  <2>2. Used(m, g) + 0 <= li[g]
    BY <1>1, <1>7, <2>1 DEF Fits
  <2>3. Share(ga, sz, g) \in [N -> Nat]
    BY DEF Share
  <2>4. Total(Share(ga, sz, g)) \in Nat
    BY <2>3, TotalType
  <2> QED BY <1>2, <2>2, <2>4
<1> QED BY <1>4, <1>5, <1>6, <1>7 DEF InBounds

(* What a package that the tool does not refuse has.                       *)
LEMMA PackageLayout ==
  ASSUME NEW x, IsPackage(x), x.dynamic, ~Raises(x)
  PROVE  Layout(Updates(x), ToSet(PartitionNames))
<1> DEFINE v == Updates(x)
           N == ToSet(PartitionNames)
           G == ToSet(x.u.groups)
           u == x.u
<1>1. /\ u.groups \in Seq(G) /\ IsInjective(u.groups) /\ NoGroup \notin G /\ Default \notin G
      /\ u.srcGroup \in [N -> G \union {NoGroup}] /\ u.tgtGroup \in [N -> G \union {NoGroup}]
      /\ u.srcSize \in [N -> Nat] /\ u.tgtSize \in [N -> Nat]
      /\ u.srcLimit \in [G -> Nat \union {NoLimit}] /\ u.tgtLimit \in [G -> Nat \union {NoLimit}]
      /\ x.incremental \in BOOLEAN
  BY DEF IsPackage
<1>2. Valid(Meta(u.srcGroup, u.srcSize, u.srcLimit)) /\ Valid(Meta(u.tgtGroup, u.tgtSize, u.tgtLimit))
  BY DEF IsPackage, SourceMetadata, TargetMetadata, Meta
<1>3. Consistent(v)
  BY DEF Raises
<1>4. /\ v.names = GetBlockDifferences(x) /\ v.groups = u.groups
      /\ v.tgtGroup = u.tgtGroup /\ v.tgtSize = u.tgtSize /\ v.tgtLimit = u.tgtLimit
  BY DEF IsPackage, Updates
<1>5. /\ x.incremental => v.srcGroup = u.srcGroup /\ v.srcSize = u.srcSize /\ v.srcLimit = u.srcLimit
      /\ ~x.incremental => /\ v.srcGroup = [p \in N |-> NoGroup] /\ v.srcSize = [p \in N |-> 0]
                           /\ v.srcLimit = [g \in G |-> NoLimit]
  BY DEF IsPackage, Updates
<1>6. IsFiniteSet(N)
  BY NamesFinite
<1>7. v.names \in Seq(N) /\ Distinct(v.names)
  BY <1>4, BlockDifferences, DifferencesDistinct
<1>8. Groups0(v) = G
  BY <1>4 DEF Groups0
<1>9. Distinct(u.groups)
  <2>1. DOMAIN u.groups = 1..Len(u.groups)
    BY <1>1
  <2> HIDE DEF u
  <2> QED BY <1>1, <2>1 DEF IsInjective, Distinct
<1> HIDE DEF v, N, G, u
<1>10. /\ Total(v.tgtSize) <= SuperSize
       /\ \A q \in N : v.tgtGroup[q] = NoGroup <=> v.tgtSize[q] = 0
       /\ \A q \in N : v.tgtGroup[q] # NoGroup => v.tgtLimit[v.tgtGroup[q]] # NoLimit
       /\ \A g \in G : v.tgtLimit[g] \notin {NoLimit, 0} => Total(Share(v.tgtGroup, v.tgtSize, g)) <= v.tgtLimit[g]
  <2>1. Laid(N, G, v.tgtGroup, v.tgtSize, v.tgtLimit)
    BY <1>1, <1>2, <1>4, <1>6 DEF Laid
  <2>2. InBounds(N, G, v.tgtGroup, v.tgtSize, v.tgtLimit)
    BY <2>1, ValidFacts
  <2> QED BY <2>2 DEF InBounds
<1>11. /\ v.srcGroup \in [N -> G \union {NoGroup}] /\ v.srcSize \in [N -> Nat]
       /\ v.srcLimit \in [G -> Nat \union {NoLimit}]
       /\ Total(v.srcSize) <= SuperSize
       /\ \A q \in N : v.srcGroup[q] = NoGroup <=> v.srcSize[q] = 0
       /\ \A q \in N : v.srcGroup[q] # NoGroup => v.srcLimit[v.srcGroup[q]] # NoLimit
       /\ \A g \in G : v.srcLimit[g] \notin {NoLimit, 0} => Total(Share(v.srcGroup, v.srcSize, g)) <= v.srcLimit[g]
  <2>1. CASE x.incremental
    <3>1. /\ Total(u.srcSize) <= SuperSize
          /\ \A q \in N : u.srcGroup[q] = NoGroup <=> u.srcSize[q] = 0
          /\ \A q \in N : u.srcGroup[q] # NoGroup => u.srcLimit[u.srcGroup[q]] # NoLimit
          /\ \A g \in G : u.srcLimit[g] \notin {NoLimit, 0} => Total(Share(u.srcGroup, u.srcSize, g)) <= u.srcLimit[g]
      <4>1. Laid(N, G, u.srcGroup, u.srcSize, u.srcLimit)
        BY <1>1, <1>2, <1>6 DEF Laid
      <4>2. InBounds(N, G, u.srcGroup, u.srcSize, u.srcLimit)
        BY <4>1, ValidFacts
      <4> QED BY <4>2 DEF InBounds
    <3> QED BY <1>1, <1>5, <2>1, <3>1
  <2>2. CASE ~x.incremental
    <3>1. /\ \A q \in N : v.srcGroup[q] = NoGroup /\ v.srcSize[q] = 0
          /\ \A g \in G : v.srcLimit[g] = NoLimit
          /\ v.srcGroup \in [N -> G \union {NoGroup}] /\ v.srcSize \in [N -> Nat]
          /\ v.srcLimit \in [G -> Nat \union {NoLimit}]
      BY <1>5, <2>2
    <3>2. v.tgtSize \in [N -> Nat]
      BY <1>1, <1>4
    <3>3. \A q \in N : v.srcSize[q] <= v.tgtSize[q]
      BY <3>1, <3>2
    <3>4. Total(v.srcSize) <= Total(v.tgtSize) /\ Total(v.srcSize) \in Nat /\ Total(v.tgtSize) \in Nat
      BY <1>6, <3>1, <3>2, <3>3, TotalLeq, TotalType
    <3>5. Total(v.srcSize) <= SuperSize
      BY <1>10, <3>4, SuperSizeAssumption
    <3> QED BY <3>1, <3>5
  <2> QED BY <1>1, <2>1, <2>2
<1>12. \A q \in N \ ToSet(v.names) : v.srcGroup[q] = NoGroup /\ v.tgtGroup[q] = NoGroup
  <2>1. DOMAIN v.srcGroup = N
    BY <1>11
  <2> QED BY <1>3, <2>1 DEF Consistent
<1>13. /\ v.groups \in Seq(G) /\ Distinct(v.groups)
       /\ v.tgtGroup \in [N -> G \union {NoGroup}] /\ v.tgtSize \in [N -> Nat]
       /\ v.tgtLimit \in [G -> Nat \union {NoLimit}]
  BY <1>1, <1>4, <1>9
<1>14. Layout(v, N)
  BY <1>1, <1>6, <1>7, <1>8, <1>10, <1>11, <1>12, <1>13 DEF Layout
<1> QED BY <1>14 DEF v, N

(* Every operation of the list is accepted: the list turns the source's    *)
(* metadata into the target's.                                             *)
THEOREM ComputeReachesTarget ==
  ASSUME NEW x, IsPackage(x), x.dynamic, ~Raises(x)
  PROVE  Apply(SourceMetadata(x.u), Compute(Updates(x))) = {TargetMetadata(x.u)}
<1> DEFINE v == Updates(x)
           N == ToSet(PartitionNames)
           m == SourceMetadata(x.u)
           o == Op("remove_all_groups", NoGroup, NoGroup, 0)
           e == Meta(v.tgtGroup, v.tgtSize, v.tgtLimit)
           d == Meta(v.srcGroup, v.srcSize, v.srcLimit)
<1>1. Layout(v, N)
  BY PackageLayout
<1>2. e = TargetMetadata(x.u)
  BY DEF TargetMetadata, Meta, IsPackage, Updates
<1>3. IF v.removeAll THEN ApplyOp(m, o) = d ELSE m = d
  <2>0. m = Meta(x.u.srcGroup, x.u.srcSize, x.u.srcLimit)
    BY DEF SourceMetadata, Meta
  <2>1. CASE x.incremental
    <3>1. v.srcGroup = x.u.srcGroup /\ v.srcSize = x.u.srcSize /\ v.srcLimit = x.u.srcLimit
      BY <2>1 DEF IsPackage, Updates
    <3>2. ~v.removeAll
      BY <2>1 DEF IsPackage, Updates
    <3> HIDE DEF v, m, o
    <3> QED BY <2>0, <3>1, <3>2
  <2>2. CASE ~x.incremental
    <3>1. /\ v.srcGroup = [p \in DOMAIN x.u.srcGroup |-> NoGroup] /\ v.srcSize = [p \in DOMAIN x.u.srcSize |-> 0]
          /\ v.srcLimit = [g \in DOMAIN x.u.srcLimit |-> NoLimit]
      BY <2>2 DEF IsPackage, Updates
    <3>2. v.removeAll
      BY <2>2 DEF IsPackage, Updates
    <3>3. ApplyOp(Meta(x.u.srcGroup, x.u.srcSize, x.u.srcLimit), o)
            = Meta([p \in DOMAIN x.u.srcGroup |-> NoGroup], [p \in DOMAIN x.u.srcSize |-> 0], [g \in DOMAIN x.u.srcLimit |-> NoLimit])
      BY DoRemoveAll
    <3> HIDE DEF v, m, o
    <3> QED BY <2>0, <3>1, <3>2, <3>3
  <2> QED BY <2>1, <2>2
<1> HIDE DEF v, N, m
<1>4. Compute(v) \in Seq(OpSet(v, N)) /\ Leads(m, Compute(v), e)
  BY <1>1, <1>3, ComputeLeads
<1> HIDE DEF e
<1>5. Apply(m, Compute(v)) = {e}
  BY <1>4, LeadsApply
<1> QED BY <1>2, <1>5 DEF v, m

(* What the installation of dynamic partitions keeps. *)
Ordered ==
  /\ \A q \in Diffs(c) : img[q] = "tgt" \/ Before(prog, Upd(c, q), PostV(c, q))
  /\ c.dynamic =>
       /\ resized \/ Before(prog, Dyn(c), UpdLater(c))
       /\ \A p \in Diffs(c) : Shrinks(Updates(c), p) => img[p] = "tgt" \/ Before(prog, Upd(c, p), Dyn(c))
MetaInv == c.dynamic => meta = IF resized THEN TargetMetadata(c.u) ELSE SourceMetadata(c.u)
ShrunkInv == c.dynamic /\ resized => \A p \in Diffs(c) : Shrinks(Updates(c), p) => img[p] = "tgt"
PatchInv ==
  /\ status \notin {"make", "raised"} => ~Raises(c)
  /\ \A p \in ToSet(PartitionNames) : img[p] = "bad" => p \in c.bad
  /\ MetaInv /\ ShrunkInv
  /\ status = "run" => Ordered
  /\ Fit => status # "abort"

(* The device starts with the source's metadata and images. *)
LEMMA InitPatch == Init => PatchInv
<1> SUFFICES ASSUME Init PROVE PatchInv
  OBVIOUS
<1>1. IsPackage(c)
  BY PackagesAssumption DEF Init
<1>2. DOMAIN c.u.srcSize = ToSet(PartitionNames)
  BY <1>1 DEF IsPackage
<1>3. \A p \in ToSet(PartitionNames) : img[p] = "bad" => p \in c.bad
  BY <1>2 DEF Init
<1>4. ~resized /\ meta = SourceMetadata(c.u) /\ status = "make"
  BY DEF Init
<1> QED BY <1>3, <1>4 DEF PatchInv, MetaInv, ShrunkInv

(* A script is only written for a package that GenerateNonAbOtaPackage does *)
(* not raise for.                                                           *)
LEMMA GeneratePatch == ASSUME IInv, PatchInv, Generate PROVE PatchInv'
<1>1. /\ status = "make" /\ status' \in {"raised", "off"} /\ (status' = "off" => ~Raises(c))
      /\ UNCHANGED <<c, meta, img, resized>>
  BY DEF Generate, device
<1>2. MetaInv' /\ ShrunkInv'
  BY <1>1 DEF PatchInv, MetaInv, ShrunkInv
<1> QED BY <1>1, <1>2 DEF PatchInv

(* What a program without updates, checks of them and a resize has.        *)
LEMMA NotPatching ==
  ASSUME NEW x, NEW s \in Seq(Shaped(x)), Free(s, Patching(x)), NEW A, NEW p
  PROVE  /\ Before(s, A, PostV(x, p)) /\ Before(s, A, Dyn(x)) /\ Before(s, A, UpdLater(x))
<1>1. \A y \in Shaped(x) : y \notin Patching(x) => y \notin PostV(x, p) /\ y \notin Dyn(x) /\ y \notin UpdLater(x)
  BY DEF Patching, Of, PostV, Dyn, UpdLater
<1>2. Free(s, PostV(x, p)) /\ Free(s, Dyn(x)) /\ Free(s, UpdLater(x))
  BY <1>1 DEF Free
<1> QED BY <1>2, FreeBefore

(* The program that a boot starts has its commands in the right order, in   *)
(* whichever stage it runs.                                                 *)
LEMMA BootPatch == ASSUME IInv, PatchInv, BootRecovery PROVE PatchInv'
<1> DEFINE b == Branch(stage)
           P == Program(c, b)
<1>1. /\ status = "off" /\ status' = "run"
      /\ prog' = InBranch(script, Branch(stage))
      /\ UNCHANGED <<c, meta, img, resized>>
  BY DEF BootRecovery, device, InBranch
<1>2. IsPackage(c) /\ script = GenerateNonAbOtaPackage(c) /\ stage \in {"", "2/3", "3/3"} /\ StageInv
  BY <1>1, AllPackages DEF IInv, TypeInv
<1>3. b \in Branches /\ (stage = "" => b = "1/3") /\ (stage = "2/3" => b = "2/3") /\ (stage = "3/3" => b = "3/3")
  BY <1>2 DEF Branch, Branches
<1>4. prog' = P /\ P \in Seq(Shaped(c))
  BY <1>1, <1>2, <1>3, ProgramIs, BodyTypes
<1> HIDE DEF b
<1> DEFINE Good == /\ \A q \in Diffs(c) : Before(P, Upd(c, q), PostV(c, q))
                   /\ c.dynamic => /\ Before(P, Dyn(c), UpdLater(c))
                                   /\ \A p \in Diffs(c) : Shrinks(Updates(c), p) => Before(P, Upd(c, p), Dyn(c))
<1>5. ASSUME c.two_step, stage = "" PROVE Good
  <2>1. Free(P, Patching(c))
    BY <1>2, <1>3, <1>5, ProgramOne
  <2> HIDE DEF P
  <2> QED BY <1>4, <2>1, NotPatching
<1>6. ASSUME c.two_step, stage = "2/3" PROVE Good
  <2>1. Free(P, Patching(c))
    BY <1>2, <1>3, <1>6, ProgramTwo
  <2> HIDE DEF P
  <2> QED BY <1>4, <2>1, NotPatching
<1>7. ASSUME ~c.two_step \/ stage = "3/3" PROVE Good
  <2>1. c.two_step => b = "3/3"
    BY <1>3, <1>7
  <2> QED BY <1>2, <1>3, <2>1, ProgramThree
<1>8. Good
  BY <1>2, <1>5, <1>6, <1>7
<1> HIDE DEF P
<1>9. Ordered'
  BY <1>1, <1>4, <1>8 DEF Ordered
<1>10. MetaInv' /\ ShrunkInv'
  BY <1>1 DEF PatchInv, MetaInv, ShrunkInv
<1> QED BY <1>1, <1>9, <1>10 DEF PatchInv

(* A command that runs to its end.                                         *)
LEMMA RanPatch == ASSUME IInv, PatchInv, Ran PROVE PatchInv'
<1> DEFINE h == Head(prog)
           t == Tail(prog)
           N == ToSet(PartitionNames)
<1>1. /\ status = "run" /\ status' = "run" /\ prog # <<>> /\ c' = c /\ prog' = t
      /\ \A p \in N :
           \/ img'[p] = img[p] /\ h \notin Upd(c, p)
           \/ img'[p] = "tgt" /\ h \in Upd(c, p)
           \/ img'[p] = "src" /\ img[p] = "bad" /\ h \in Verifying(c, p)
      /\ IF h \in Dyn(c)
         THEN resized' /\ ((resized /\ meta' = meta) \/ (~resized /\ meta' \in Apply(meta, h.with)))
         ELSE resized' = resized /\ meta' = meta
  BY DEF Ran
<1>2. IsPackage(c) /\ prog \in Seq(Shaped(c)) /\ h \in Shaped(c)
  <2>1. prog \in Seq(Shaped(c)) /\ IsPackage(c)
    BY AllPackages DEF IInv, TypeInv
  <2> QED BY <1>1, <2>1, TailFacts
<1>3. /\ \A A, B : Before(prog, A, B) => h \notin B /\ (h \in A \/ Before(t, A, B))
  BY <1>1, <1>2, TailLemma
<1>4. Diffs(c) \subseteq N
  BY BlockDifferences
<1>5. h \in Dyn(c) => c.dynamic /\ h.with = Compute(Updates(c)) /\ \A p : h \notin Upd(c, p) /\ h \notin Verifying(c, p)
  BY <1>2 DEF Shaped, Dyn, Upd, Verifying, Of
<1>6. ~Raises(c) /\ Ordered /\ MetaInv /\ ShrunkInv /\ \A p \in N : img[p] = "bad" => p \in c.bad
  BY <1>1 DEF PatchInv
<1> HIDE DEF h, t, N
<1>7. \A p \in N : img'[p] = "bad" => p \in c.bad
  BY <1>1, <1>6
<1>8. \A p \in N : img[p] = "tgt" => img'[p] = "tgt"
  BY <1>1
<1>8a. \A p \in N : h \in Upd(c, p) => img'[p] = "tgt"
  BY <1>1 DEF Upd, Verifying, Of
<1>9. MetaInv'
  <2>1. CASE h \notin Dyn(c)
    BY <1>1, <1>6, <2>1 DEF MetaInv
  <2>2. CASE h \in Dyn(c) /\ resized
    <3>1. resized' /\ meta' = meta
      BY <1>1, <2>2
    <3> QED BY <1>1, <1>6, <2>2, <3>1 DEF MetaInv
  <2>3. CASE h \in Dyn(c) /\ ~resized
    <3>1. resized' /\ meta' \in Apply(meta, Compute(Updates(c))) /\ c.dynamic
      BY <1>1, <1>5, <2>3
    <3>2. meta = SourceMetadata(c.u)
      BY <1>6, <2>3, <3>1 DEF MetaInv
    <3>3. Apply(SourceMetadata(c.u), Compute(Updates(c))) = {TargetMetadata(c.u)}
      BY <1>2, <1>6, <3>1, ComputeReachesTarget
    <3>4. meta' = TargetMetadata(c.u)
      BY <3>1, <3>2, <3>3
    <3> QED BY <1>1, <3>1, <3>4 DEF MetaInv
  <2> QED BY <2>1, <2>2, <2>3
<1>10. ShrunkInv'
  <2> SUFFICES ASSUME c.dynamic, resized', NEW p \in Diffs(c), Shrinks(Updates(c), p) PROVE img'[p] = "tgt"
    BY <1>1 DEF ShrunkInv
  <2>1. CASE resized
    BY <1>4, <1>6, <1>8, <2>1 DEF ShrunkInv
  <2>2. CASE ~resized
    <3>1. h \in Dyn(c)
      BY <1>1, <2>2
    <3>2. img[p] = "tgt"
      BY <1>3, <1>6, <3>1 DEF Ordered
    <3> QED BY <1>4, <1>8, <3>2
  <2> QED BY <2>1, <2>2
<1>11. Ordered'
  <2>1. ASSUME NEW q \in Diffs(c) PROVE img'[q] = "tgt" \/ Before(t, Upd(c, q), PostV(c, q))
    BY <1>3, <1>4, <1>6, <1>8, <1>8a DEF Ordered
  <2>2. ASSUME c.dynamic PROVE resized' \/ Before(t, Dyn(c), UpdLater(c))
    <3>1. CASE h \in Dyn(c)
      BY <1>1, <3>1
    <3>2. CASE h \notin Dyn(c)
      BY <1>1, <1>3, <1>6, <2>2, <3>2 DEF Ordered
    <3> QED BY <3>1, <3>2
  <2>3. ASSUME c.dynamic, NEW p \in Diffs(c), Shrinks(Updates(c), p)
        PROVE  img'[p] = "tgt" \/ Before(t, Upd(c, p), Dyn(c))
    BY <1>3, <1>4, <1>6, <1>8, <1>8a, <2>3 DEF Ordered
  <2> QED BY <1>1, <2>1, <2>2, <2>3 DEF Ordered
<1> QED BY <1>1, <1>6, <1>7, <1>9, <1>10, <1>11 DEF PatchInv, N

(* Why a command aborts.                                                   *)
Reason(h) ==
  \/ h.op \in {"assert_older", "assert_build"} /\ c.build = "other"
  \/ h.op = "assert_device" /\ c.build = "device"
  \/ h.op = "apply_patch_space" /\ ~(h.with <= c.free)
  \/ h.op = "verify" /\ img[h.on] = "bad"
  \/ h.op = "block_image_update" /\ HasSource(c, h.on) /\ h.on \in c.touched /\ img[h.on] = "bad"
  \/ h.op = "post_verify" /\ img[h.on] # "tgt"
  \/ h.op = "update_dynamic_partitions" /\ ~resized /\ \E m \in Apply(meta, h.with) : ~m.ok

(* A command that aborts has one of these reasons. *)
LEMMA AbortReason ==
  ASSUME TypeInv, RunCommand, status' = "abort"
  PROVE  Reason(Head(prog))
<1> DEFINE h == Head(prog)
<1>1. on = h.on /\ with = h.with /\ boot # "bad"
  BY DEF on, with, TypeInv
<1>2. ASSUME NEW op, NEW ok, Do(op, ok) PROVE h.op = op /\ ~ok
  BY <1>2 DEF Do
<1> HIDE DEF h
<1>3. CASE RunAssert
  <2>1. CASE Do("assert_older", RunsTarget \/ c.build # "other")
    BY <1>2, <2>1 DEF Reason, h
  <2>2. CASE Do("assert_build", RunsTarget \/ c.build # "other")
    BY <1>2, <2>2 DEF Reason, h
  <2>3. CASE Do("assert_device", c.build # "device")
    BY <1>2, <2>3 DEF Reason, h
  <2>4. CASE Do("apply_patch_space", with <= c.free)
    <3>1. h.op = "apply_patch_space" /\ ~(h.with <= c.free)
      BY <1>1, <1>2, <2>4
    <3> QED BY <3>1 DEF Reason, h
  <2> QED BY <1>3, <2>1, <2>2, <2>3, <2>4 DEF RunAssert
<1>4. CASE RunMount
  BY <1>2, <1>4 DEF RunMount
<1>5. CASE RunVerify
  <2>1. Do("verify", img[on] # "bad") \/ Do("verify", TRUE)
    BY <1>5 DEF RunVerify
  <2>2. h.op = "verify" /\ img[h.on] = "bad"
    BY <1>1, <1>2, <2>1
  <2> QED BY <2>2 DEF Reason, h
<1>6. CASE RunPatchCheck
  BY <1>1, <1>2, <1>6 DEF RunPatchCheck
<1>7. CASE RunUpdate
  <2>1. \/ Do("block_image_update", ~HasSource(c, on) \/ on \notin c.touched \/ img[on] # "bad")
        \/ Do("post_verify", img[on] = "tgt")
    BY <1>7 DEF RunUpdate
  <2>2. \/ h.op = "block_image_update" /\ HasSource(c, h.on) /\ h.on \in c.touched /\ img[h.on] = "bad"
        \/ h.op = "post_verify" /\ img[h.on] # "tgt"
    BY <1>1, <1>2, <2>1
  <2> QED BY <2>2 DEF Reason, h
<1>8. CASE RunUpdateDynamic
  <2>1. \/ Do("update_dynamic_partitions", TRUE)
        \/ \E m \in Apply(meta, with) : ~resized /\ Do("update_dynamic_partitions", m.ok)
    BY <1>8 DEF RunUpdateDynamic
  <2>2. \E m \in Apply(meta, h.with) : ~resized /\ h.op = "update_dynamic_partitions" /\ ~m.ok
    <3>1. ~Do("update_dynamic_partitions", TRUE)
      BY <1>2
    <3>2. PICK m \in Apply(meta, with) : ~resized /\ Do("update_dynamic_partitions", m.ok)
      BY <2>1, <3>1
    <3>3. h.op = "update_dynamic_partitions" /\ ~m.ok
      BY <1>2, <3>2
    <3> QED BY <1>1, <3>2, <3>3
  <2> QED BY <2>2 DEF Reason, h
<1>9. CASE RunWrite
  BY <1>2, <1>9 DEF RunWrite
<1>10. CASE RunSetStage
  BY <1>2, <1>10 DEF RunSetStage
<1>11. CASE RunReboot
  BY <1>11 DEF RunReboot
<1> QED BY <1>3, <1>4, <1>5, <1>6, <1>7, <1>8, <1>9, <1>10, <1>11 DEF RunCommand

(* None of them holds on a device that the package is for.                 *)
LEMMA FitRuns ==
  ASSUME IInv, PatchInv, RunCommand, Fit
  PROVE  status' # "abort"
<1> SUFFICES ASSUME status' = "abort" PROVE FALSE
  OBVIOUS
<1> DEFINE h == Head(prog)
           N == ToSet(PartitionNames)
<1>1. status = "run" /\ prog # <<>>
  BY DEF RunCommand, RunAssert, RunMount, RunVerify, RunPatchCheck, RunUpdate, RunUpdateDynamic, RunWrite, RunSetStage,
         RunReboot, Do
<1>2. TypeInv /\ prog \in Seq(Shaped(c)) /\ IsPackage(c)
  BY AllPackages DEF IInv, TypeInv
<1>3. h \in Shaped(c)
  BY <1>1, <1>2, TailFacts
<1>4. Reason(h)
  BY <1>2, AbortReason
<1>5. \A A, B : Before(prog, A, B) => h \notin B
  BY <1>1, <1>2, TailLemma
<1> HIDE DEF h
<1>6. ~Raises(c) /\ Ordered /\ MetaInv /\ \A p \in N : img[p] = "bad" => p \in c.bad
  BY <1>1 DEF PatchInv
<1>7. /\ c.build = "src" /\ (c.incremental => c.bad \cap c.touched = {})
      /\ c.incremental => /\ \A p \in Diffs(c) : ~(c.stash[p] > c.free)
                          /\ ~(UpdatingBoot(c) /\ c.bootPatch /\ c.bootSize > c.free)
  BY DEF Fit, Refused, Diffs
<1>8. c.touched \subseteq N /\ Diffs(c) \subseteq N
  BY <1>2, BlockDifferences DEF IsPackage, Diffs
<1>9. h.op \notin {"assert_older", "assert_build", "assert_device"}
  BY <1>4, <1>7 DEF Reason
<1>10. h.op # "apply_patch_space"
  <2> SUFFICES ASSUME h.op = "apply_patch_space" PROVE FALSE
    OBVIOUS
  <2>1. h.with = RequiredCache(c) /\ c.incremental
    BY <1>3 DEF Shaped
  <2>2. ~(RequiredCache(c) <= c.free)
    BY <1>4, <2>1 DEF Reason
  <2>3. "system" \in Diffs(c)
    BY <1>6, BlockDifferences DEF Raises
  <2>4. c.free \in Nat /\ c.bootSize \in Nat /\ \A p \in Diffs(c) : c.stash[p] \in Nat
    BY <1>2, <1>8 DEF IsPackage
  <2>5. \/ \E p \in Diffs(c) : RequiredCache(c) = c.stash[p]
        \/ UpdatingBoot(c) /\ c.bootPatch /\ RequiredCache(c) = c.bootSize
    BY <1>2, <2>3, CacheFacts
  <2> QED BY <1>7, <2>1, <2>2, <2>4, <2>5
<1>11. h.op # "verify"
  <2> SUFFICES ASSUME h.op = "verify" PROVE FALSE
    OBVIOUS
  <2>1. Verifies(c, h.on) /\ img[h.on] = "bad"
    BY <1>3, <1>4 DEF Shaped, Reason
  <2> QED BY <1>6, <1>7, <1>8, <2>1 DEF Verifies, HasSource
<1>12. h.op # "block_image_update"
  BY <1>4, <1>6, <1>7, <1>8 DEF Reason, HasSource
<1>13. h.op # "post_verify"
  <2> SUFFICES ASSUME h.op = "post_verify" PROVE FALSE
    OBVIOUS
  <2>1. h.on \in Diffs(c) /\ h \in PostV(c, h.on) /\ img[h.on] # "tgt"
    BY <1>3, <1>4 DEF Shaped, Reason, PostV
  <2> QED BY <1>5, <1>6, <2>1 DEF Ordered
<1>14. h.op # "update_dynamic_partitions"
  <2> SUFFICES ASSUME h.op = "update_dynamic_partitions" PROVE FALSE
    OBVIOUS
  <2>1. h.with = Compute(Updates(c)) /\ ~resized /\ c.dynamic
    BY <1>3, <1>4 DEF Shaped, Reason
  <2>2. PICK m \in Apply(meta, Compute(Updates(c))) : ~m.ok
    BY <1>4, <2>1 DEF Reason
  <2>3. meta = SourceMetadata(c.u)
    BY <1>6, <2>1 DEF MetaInv
  <2>4. m = TargetMetadata(c.u)
    BY <1>2, <1>6, <2>1, <2>2, <2>3, ComputeReachesTarget
  <2>5. TargetMetadata(c.u).ok
    BY DEF TargetMetadata
  <2> QED BY <2>2, <2>4, <2>5
<1> QED BY <1>4, <1>9, <1>10, <1>11, <1>12, <1>13, <1>14 DEF Reason

(* So only a device that the package is not for aborts it. *)
LEMMA AbortPatch == ASSUME IInv, PatchInv, RunCommand, Aborted PROVE PatchInv'
<1>1. /\ status = "run" /\ status' = "abort" /\ UNCHANGED <<c, meta, img>> /\ (resized' <=> resized)
  BY DEF Aborted
<1>2. ~Fit
  BY <1>1, FitRuns
<1>3. Fit' <=> Fit
  BY <1>1 DEF Fit, Refused
<1>4. MetaInv' /\ ShrunkInv'
  <2>1. MetaInv /\ ShrunkInv
    BY DEF PatchInv
  <2>2. CASE resized
    BY <1>1, <2>1, <2>2 DEF MetaInv, ShrunkInv
  <2>3. CASE ~resized
    BY <1>1, <2>1, <2>3 DEF MetaInv, ShrunkInv
  <2> QED BY <2>2, <2>3
<1> QED BY <1>1, <1>2, <1>3, <1>4 DEF PatchInv

(* The power fails: what had its target's image and had a source keeps it. *)
LEMMA PowerLossPatch == ASSUME IInv, PatchInv, PowerLoss PROVE PatchInv'
<1> DEFINE N == ToSet(PartitionNames)
<1>1. status = "run" /\ status' = "off" /\ UNCHANGED <<c, meta, resized>>
  BY DEF PowerLoss
<1>2. \/ img' = img
      \/ /\ img' = [img EXCEPT ![on] = "mix"]
         /\ ~(HasSource(c, on) /\ img[on] = "tgt")
  BY DEF PowerLoss
<1>3. IsPackage(c) /\ img \in [N -> {"src", "tgt", "mix", "bad"}]
  BY AllPackages DEF IInv, TypeInv
<1>4. \A p \in N : img'[p] = "bad" => img[p] = "bad"
  BY <1>2, <1>3
<1>5. \A p \in N : HasSource(c, p) /\ img[p] = "tgt" => img'[p] = "tgt"
  BY <1>2, <1>3
<1>6. \A p \in Diffs(c) : p \in N /\ (Shrinks(Updates(c), p) => HasSource(c, p))
  <2> SUFFICES ASSUME NEW p \in Diffs(c) PROVE p \in N /\ (Shrinks(Updates(c), p) => HasSource(c, p))
    OBVIOUS
  <2>1. p \in N
    BY BlockDifferences
  <2>2. CASE c.incremental
    <3>1. Updates(c).srcSize = c.u.srcSize
      BY <1>3, <2>2, UpdatesFacts
    <3> QED BY <2>1, <2>2, <3>1 DEF Shrinks, HasSource
  <2>3. CASE ~c.incremental
    <3>1. Updates(c).srcSize[p] = 0
      BY <1>3, <2>1, <2>3, UpdatesFacts
    <3> QED BY <2>1, <3>1 DEF Shrinks
  <2> QED BY <2>2, <2>3
<1>7. MetaInv' /\ ShrunkInv'
  <2>1. MetaInv /\ ShrunkInv
    BY DEF PatchInv
  <2>2. MetaInv'
    BY <1>1, <2>1 DEF MetaInv
  <2>3. ShrunkInv'
    BY <1>1, <1>5, <1>6, <2>1 DEF ShrunkInv
  <2> QED BY <2>2, <2>3
<1> QED BY <1>1, <1>4, <1>7 DEF PatchInv

(* Every step keeps what the installation of dynamic partitions needs, *)
LEMMA NextPatch == IInv /\ PatchInv /\ [Next]_vars => PatchInv'
<1> SUFFICES ASSUME IInv, PatchInv, [Next]_vars PROVE PatchInv'
  OBVIOUS
<1> USE DEF PatchInv
<1>1. ASSUME UNCHANGED <<c, meta, img, resized>> PROVE MetaInv' /\ ShrunkInv' /\ (Fit' <=> Fit)
  BY <1>1 DEF MetaInv, ShrunkInv, Fit, Refused
<1>2. CASE Generate
  BY <1>2, GeneratePatch
<1>3. CASE BootRecovery
  BY <1>3, BootPatch
<1>4. CASE RunCommand
  <2>1. CASE Ran
    BY <2>1, RanPatch
  <2>2. CASE Aborted
    BY <1>4, <2>2, AbortPatch
  <2>3. CASE Rebooted
    BY <1>1, <2>3 DEF Rebooted
  <2>4. Ran \/ Aborted \/ Rebooted
    BY <1>4, CommandStep DEF IInv
  <2> QED BY <2>1, <2>2, <2>3, <2>4
<1>5. CASE Finish
  BY <1>1, <1>5 DEF Finish, device
<1>6. CASE InstallRecovery
  BY <1>1, <1>6 DEF InstallRecovery
<1>7. CASE PowerLoss
  BY <1>7, PowerLossPatch
<1>8. CASE UNCHANGED vars
  BY <1>1, <1>8 DEF vars, Ordered
<1>9. CASE Over
  BY <1>8, <1>9 DEF Over
<1> QED BY <1>2, <1>3, <1>4, <1>5, <1>6, <1>7, <1>8, <1>9 DEF Next

(* and that is enough for PatchFits. *)
LEMMA PatchInvFits == IInv /\ PatchInv => PatchFits
<1> SUFFICES ASSUME IInv, PatchInv, c.dynamic
             PROVE  /\ meta = IF resized THEN TargetMetadata(c.u) ELSE SourceMetadata(c.u)
                    /\ Fit => status # "abort"
                    /\ status = "run" /\ prog # <<>> /\ Head(prog).op = "block_image_update" =>
                         /\ meta.size[on] >= c.u.tgtSize[on]
                         /\ HasSource(c, on) /\ img[on] # "tgt" => meta.size[on] >= c.u.srcSize[on]
  BY DEF PatchFits
<1> DEFINE h == Head(prog)
           N == ToSet(PartitionNames)
<1>1. meta = IF resized THEN TargetMetadata(c.u) ELSE SourceMetadata(c.u)
  BY DEF PatchInv, MetaInv
<1>2. meta.size = IF resized THEN c.u.tgtSize ELSE c.u.srcSize
  BY <1>1 DEF TargetMetadata, SourceMetadata
<1>3. ASSUME status = "run", prog # <<>>, h.op = "block_image_update"
      PROVE  /\ meta.size[h.on] >= c.u.tgtSize[h.on]
             /\ HasSource(c, h.on) /\ img[h.on] # "tgt" => meta.size[h.on] >= c.u.srcSize[h.on]
  <2>1. prog \in Seq(Shaped(c)) /\ IsPackage(c)
    BY AllPackages DEF IInv, TypeInv
  <2>2. h \in Shaped(c) /\ \A A, B : Before(prog, A, B) => h \notin B
    BY <1>3, <2>1, TailFacts, TailLemma
  <2> HIDE DEF h
  <2>3. h.on \in Diffs(c) /\ c.u.tgtSize[h.on] > 0 /\ h \in Cmds(c)
    BY <1>3, <2>2 DEF Shaped, Updated
  <2>4. c.u.srcSize[h.on] \in Nat /\ c.u.tgtSize[h.on] \in Nat
    BY <2>1, <2>3, BlockDifferences DEF IsPackage
  <2>5. /\ Updates(c).tgtSize = c.u.tgtSize
        /\ c.incremental => Updates(c).srcSize = c.u.srcSize
        /\ ~c.incremental => Updates(c).srcSize[h.on] = 0
    BY <2>1, <2>3, UpdatesFacts, BlockDifferences
  <2>6. Ordered /\ ShrunkInv
    BY <1>3 DEF PatchInv
  <2>7. CASE resized
    <3>1. HasSource(c, h.on) /\ img[h.on] # "tgt" => c.u.tgtSize[h.on] >= c.u.srcSize[h.on]
      <4>1. HasSource(c, h.on) /\ img[h.on] # "tgt" => c.incremental /\ ~Shrinks(Updates(c), h.on)
        BY <2>3, <2>6, <2>7 DEF ShrunkInv, HasSource
      <4> QED BY <2>3, <2>4, <2>5, <4>1 DEF Shrinks
    <3> QED BY <1>2, <2>4, <2>7, <3>1
  <2>8. CASE ~resized
    <3>1. h \notin UpdLater(c)
      BY <2>2, <2>6, <2>8 DEF Ordered
    <3>2. Shrinks(Updates(c), h.on)
      BY <1>3, <2>3, <3>1 DEF UpdLater
    <3>3. c.u.srcSize[h.on] >= c.u.tgtSize[h.on]
      <4>1. CASE c.incremental
        BY <2>4, <2>5, <3>2, <4>1 DEF Shrinks
      <4>2. CASE ~c.incremental
        BY <2>4, <2>5, <3>2, <4>2 DEF Shrinks
      <4> QED BY <4>1, <4>2
    <3> QED BY <1>2, <2>4, <2>8, <3>3
  <2> QED BY <2>7, <2>8
<1>4. on = h.on
  BY DEF on
<1> QED BY <1>1, <1>3, <1>4 DEF PatchInv

(* DynamicPartitionsDifference.WriteScript and _Compute: PatchFits holds of *)
(* every run, for every package and layout, and any number of power losses: *)
(* the device accepts the whole list of operations, a partition is patched  *)
(* while it is large enough for both its images, and a device that the      *)
(* package is for never aborts.                                             *)
THEOREM PatchFitsAlways == Spec => []PatchFits
<1>1. Init => PatchInv
  BY InitPatch
<1>2. IInv /\ PatchInv /\ [Next]_vars => PatchInv'
  BY NextPatch
<1>3. IInv /\ PatchInv => PatchFits
  BY PatchInvFits
<1>4. Spec => []IInv
  BY Inductive
<1> QED BY <1>1, <1>2, <1>3, <1>4, PTL DEF Spec

(* Whatever the package, a device that it is for never aborts it.          *)
THEOREM FitRunsOnAlways == Spec => [](Fit => status # "abort")
<1>1. Init => PatchInv
  BY InitPatch
<1>2. IInv /\ PatchInv /\ [Next]_vars => PatchInv'
  BY NextPatch
<1>3. PatchInv => (Fit => status # "abort")
  BY DEF PatchInv
<1>4. Spec => []IInv
  BY Inductive
<1> QED BY <1>1, <1>2, <1>3, <1>4, PTL DEF Spec
=============================================================================
