--------------------------- MODULE PackagesProofs ----------------------------
(***************************************************************************)
(* merge_ota: every operation of a merged payload finds its own data.      *)
(* sign_target_files_apks: a finished package is signed with mapped keys.  *)
(* merge_target_files: what a merged package says is of one build.         *)
(***************************************************************************)
EXTENDS Packages, SequenceTheorems, WellFoundedInduction, FiniteSetTheorems, TLAPS

-----------------------------------------------------------------------------
(* Numbers.                                                                *)

(* A nonempty set of naturals has a smallest element.                      *)
LEMMA Smallest ==
  ASSUME NEW S, S \subseteq Nat, S # {}
  PROVE  \E m \in S : \A k \in S : m <= k
<1> DEFINE below == {p \in Nat \X Nat : p[1] < p[2]}
<1>1. IsWellFoundedOn(below, Nat)
  BY NatLessThanWellFounded DEF OpToRel
<1> HIDE DEF below
<1>2. PICK m \in S : \A k \in S : ~(<<k, m>> \in below)
  BY <1>1, WFMin
<1>3. ASSUME NEW k \in S PROVE m <= k
  <2>1. k \in Nat /\ m \in Nat /\ <<k, m>> \notin below
    BY <1>2
  <2> QED BY <2>1 DEF below
<1> QED BY <1>3

(* One that is bounded has a largest one.                                  *)
LEMMA Largest ==
  ASSUME NEW S, NEW n \in Nat, S \subseteq 0..n, S # {}
  PROVE  \E m \in S : \A k \in S : k <= m
<1> DEFINE gaps == {n - k : k \in S}
<1>1. gaps \subseteq Nat /\ gaps # {}
  <2>1. \A k \in S : n - k \in Nat
    OBVIOUS
  <2> QED BY <2>1
<1>2. PICK g \in gaps : \A k \in gaps : g <= k
  <2> HIDE DEF gaps
  <2> QED BY <1>1, Smallest
<1>3. PICK m \in S : g = n - m
  BY <1>2
<1>4. ASSUME NEW k \in S PROVE k <= m
  <2>1. n - k \in gaps
    OBVIOUS
  <2>2. n - m <= n - k /\ m \in 0..n /\ k \in 0..n
    BY <1>2, <1>3, <2>1
  <2> QED BY <2>2
<1> QED BY <1>4

(* What holds of 0 and from each number to the next holds up to n.         *)
LEMMA UpTo ==
  ASSUME NEW n \in Nat, NEW S, 0 \in S, \A m \in 0..(n - 1) : m \in S => m + 1 \in S
  PROVE  \A m \in 0..n : m \in S
<1> DEFINE bad == {m \in 0..n : m \notin S}
<1> SUFFICES ASSUME bad # {} PROVE FALSE
  OBVIOUS
<1>1. PICK m \in bad : \A k \in bad : m <= k
  <2>1. bad \subseteq Nat
    OBVIOUS
  <2> HIDE DEF bad
  <2> QED BY <2>1, Smallest
<1>2. m # 0 /\ m \in 0..n /\ m \notin S
  BY <1>1
<1>3. m - 1 \in 0..(n - 1) /\ m - 1 \in 0..n /\ m - 1 \notin bad
  BY <1>1, <1>2
<1>4. m - 1 \in S /\ (m - 1) + 1 = m
  BY <1>3
<1> QED BY <1>2, <1>3, <1>4

-----------------------------------------------------------------------------
(* The operations of a payload.                                            *)

(* A place of an operation with data.                                      *)
LEMMA Places ==
  ASSUME NEW ps, IsPayload(ps)
  PROVE  /\ \A x : x \in WithData(ps) <=>
              \E i \in 1..Len(ps) : \E j \in 1..Len(ps[i].ops) : x = <<i, j>> /\ ps[i].ops[j].len > 0
         /\ Len(ps) \in Nat /\ DOMAIN ps = 1..Len(ps)
         /\ \A i \in 1..Len(ps) : Len(ps[i].ops) \in Nat /\ DOMAIN ps[i].ops = 1..Len(ps[i].ops)
<1>1. Len(ps) \in Nat /\ DOMAIN ps = 1..Len(ps)
  BY DEF IsPayload
<1>2. \A i \in 1..Len(ps) : Len(ps[i].ops) \in Nat /\ DOMAIN ps[i].ops = 1..Len(ps[i].ops)
  BY <1>1 DEF IsPayload
<1>3. ASSUME NEW x, x \in WithData(ps)
      PROVE  \E i \in 1..Len(ps) : \E j \in 1..Len(ps[i].ops) : x = <<i, j>> /\ ps[i].ops[j].len > 0
  <2>1. PICK i \in DOMAIN ps : x \in {i} \X DOMAIN ps[i].ops
    BY <1>3 DEF WithData
  <2>2. PICK j \in DOMAIN ps[i].ops : x = <<i, j>>
    BY <2>1
  <2>3. ps[i].ops[j].len > 0
    BY <1>3, <2>2 DEF WithData
  <2> QED BY <1>1, <1>2, <2>2, <2>3
<1>4. ASSUME NEW i \in 1..Len(ps), NEW j \in 1..Len(ps[i].ops), ps[i].ops[j].len > 0
      PROVE  <<i, j>> \in WithData(ps)
  <2>1. <<i, j>> \in {i} \X DOMAIN ps[i].ops
    BY <1>2
  <2>2. <<i, j>> \in UNION {{k} \X DOMAIN ps[k].ops : k \in DOMAIN ps}
    BY <1>1, <2>1
  <2> QED BY <1>4, <2>2 DEF WithData
<1> QED BY <1>1, <1>2, <1>3, <1>4

(* What an operation with data says.                                       *)
LEMMA OpFacts ==
  ASSUME NEW ps, IsPayload(ps), NEW x \in WithData(ps)
  PROVE  /\ x[1] \in Nat /\ x[2] \in Nat /\ x = <<x[1], x[2]>>
         /\ {"off", "len", "src"} \subseteq DOMAIN OpAt(ps, x)
         /\ OpAt(ps, x).off \in Nat /\ OpAt(ps, x).len \in Nat /\ OpAt(ps, x).len > 0
         /\ End(OpAt(ps, x)) \in Nat
<1>0. PICK i \in 1..Len(ps) : \E j \in 1..Len(ps[i].ops) : x = <<i, j>> /\ ps[i].ops[j].len > 0
  BY Places
<1>1. PICK j \in 1..Len(ps[i].ops) : x = <<i, j>> /\ ps[i].ops[j].len > 0
  BY <1>0
<1>2. i \in DOMAIN ps /\ j \in DOMAIN ps[i].ops /\ i \in Nat /\ j \in Nat
  BY <1>1, Places
<1>3. /\ {"off", "len", "src"} \subseteq DOMAIN ps[i].ops[j]
      /\ ps[i].ops[j].off \in Nat /\ ps[i].ops[j].len \in Nat
  BY <1>2 DEF IsPayload
<1>4. x[1] = i /\ x[2] = j /\ OpAt(ps, x) = ps[i].ops[j]
  BY <1>1 DEF OpAt
<1> QED BY <1>1, <1>2, <1>3, <1>4 DEF End

(* Of two places one comes first.                                          *)
LEMMA InOrder ==
  ASSUME NEW ps, IsPayload(ps), NEW x \in WithData(ps), NEW y \in WithData(ps)
  PROVE  /\ x = y \/ Precedes(x, y) \/ Precedes(y, x)
         /\ ~(Precedes(x, y) /\ Precedes(y, x)) /\ ~Precedes(x, x)
  BY OpFacts DEF Precedes

(* There is a last one, and the total length is where its data ends.       *)
LEMMA LastPlace ==
  ASSUME NEW ps, IsPayload(ps), WithData(ps) # {}
  PROVE  \E x \in WithData(ps) : /\ \A y \in WithData(ps) : y = x \/ Precedes(y, x)
                                 /\ TotalDataLength(ps) = End(OpAt(ps, x))
<1> DEFINE rows == {x[1] : x \in WithData(ps)}
<1>1. rows \subseteq 0..Len(ps) /\ rows # {} /\ Len(ps) \in Nat
  <2>1. ASSUME NEW x \in WithData(ps) PROVE x[1] \in 0..Len(ps)
    <3>1. PICK i \in 1..Len(ps) : \E j \in 1..Len(ps[i].ops) : x = <<i, j>>
      BY Places
    <3> QED BY <3>1, Places
  <2> QED BY <2>1, Places
<1>2. PICK i \in rows : \A k \in rows : k <= i
  <2> HIDE DEF rows
  <2> QED BY <1>1, Largest
<1> DEFINE cells == {x[2] : x \in {y \in WithData(ps) : y[1] = i}}
<1>3. cells # {} /\ Len(ps[i].ops) \in Nat /\ cells \subseteq 0..Len(ps[i].ops)
  <2>1. ASSUME NEW x \in WithData(ps), x[1] = i
        PROVE  Len(ps[i].ops) \in Nat /\ x[2] \in 0..Len(ps[i].ops)
    <3>0. PICK k \in 1..Len(ps) : \E j \in 1..Len(ps[k].ops) : x = <<k, j>>
      BY Places
    <3>1. PICK j \in 1..Len(ps[k].ops) : x = <<k, j>>
      BY <3>0
    <3>2. k = i /\ x[2] = j
      BY <2>1, <3>1
    <3> QED BY <3>1, <3>2, Places
  <2>2. PICK x \in WithData(ps) : x[1] = i
    OBVIOUS
  <2> QED BY <2>1, <2>2
<1>4. PICK j \in cells : \A k \in cells : k <= j
  <2> HIDE DEF cells
  <2> QED BY <1>3, Largest
<1>5. PICK x \in WithData(ps) : x[1] = i /\ x[2] = j
  BY <1>4
<1>6. ASSUME NEW y \in WithData(ps) PROVE y = x \/ Precedes(y, x)
  <2>1. y[1] <= i /\ (y[1] = i => y[2] <= j)
    BY <1>2, <1>4
  <2>2. y[1] \in Nat /\ y[2] \in Nat /\ x[1] \in Nat /\ x[2] \in Nat /\ x = <<x[1], x[2]>> /\ y = <<y[1], y[2]>>
    BY OpFacts
  <2> QED BY <1>5, <2>1, <2>2 DEF Precedes
<1> DEFINE z == CHOOSE u \in WithData(ps) : \A y \in WithData(ps) : y = u \/ Precedes(y, u)
<1>7. z \in WithData(ps) /\ \A y \in WithData(ps) : y = z \/ Precedes(y, z)
  BY <1>6
<1>8. TotalDataLength(ps) = End(OpAt(ps, z))
  BY DEF TotalDataLength
<1> HIDE DEF z
<1> QED BY <1>7, <1>8

(* The data of a payload, byte by byte.                                    *)
Own(ps, blob) ==
  \A x \in WithData(ps) :
    /\ End(OpAt(ps, x)) <= Len(blob)
    /\ \A b \in (OpAt(ps, x).off + 1)..End(OpAt(ps, x)) : blob[b] = OpAt(ps, x).src
IsBlob(blob) == blob \in Seq(ToSet(blob))

(* A function on 1..n is a sequence.                                       *)
LEMMA AsSequence ==
  ASSUME NEW n \in Nat, NEW f, f = [b \in 1..n |-> f[b]]
  PROVE  f \in Seq(ToSet(f)) /\ Len(f) = n /\ DOMAIN f = 1..n
<1>1. DOMAIN f = 1..n
  OBVIOUS
<1>2. \A b \in 1..n : f[b] \in ToSet(f)
  BY <1>1 DEF ToSet
<1>3. f \in [1..n -> ToSet(f)]
  BY <1>2
<1>4. f \in Seq(ToSet(f))
  BY <1>3
<1> QED BY <1>1, <1>4

(* What a payload is read as: each operation finds its data there.         *)
LEMMA DataBytes ==
  ASSUME NEW ps, WellFormed(ps)
  PROVE  /\ IsBlob(DataOf(ps)) /\ Len(DataOf(ps)) = TotalDataLength(ps)
         /\ TotalDataLength(ps) \in Nat /\ Own(ps, DataOf(ps))
<1>0. IsPayload(ps)
  BY DEF WellFormed
<1>1. TotalDataLength(ps) \in Nat
  <2>1. CASE WithData(ps) = {}
    BY <2>1 DEF TotalDataLength
  <2>2. CASE WithData(ps) # {}
    BY <1>0, <2>2, LastPlace, OpFacts
  <2> QED BY <2>1, <2>2
<1> DEFINE n == TotalDataLength(ps)
           d == DataOf(ps)
           At2(b) == CHOOSE x \in WithData(ps) : OpAt(ps, x).off < b /\ b <= End(OpAt(ps, x))
<1>2. d = [b \in 1..n |-> OpAt(ps, At2(b)).src]
  BY DEF DataOf, PayloadDataLength
<1>3. d = [b \in 1..n |-> d[b]]
  BY <1>2
<1>4. IsBlob(d) /\ Len(d) = n
  BY <1>1, <1>3, AsSequence DEF IsBlob
<1>5. ASSUME NEW x \in WithData(ps)
      PROVE  End(OpAt(ps, x)) <= n
  <2>1. PICK z \in WithData(ps) : /\ \A y \in WithData(ps) : y = z \/ Precedes(y, z)
                                  /\ n = End(OpAt(ps, z))
    BY <1>0, LastPlace
  <2>2. x = z \/ End(OpAt(ps, x)) <= OpAt(ps, z).off
    BY <2>1 DEF WellFormed
  <2>3. End(OpAt(ps, x)) \in Nat /\ OpAt(ps, z).off \in Nat /\ OpAt(ps, z).len \in Nat
    BY <1>0, OpFacts
  <2> QED BY <2>1, <2>2, <2>3 DEF End
<1>6. ASSUME NEW x \in WithData(ps), NEW b \in (OpAt(ps, x).off + 1)..End(OpAt(ps, x))
      PROVE  d[b] = OpAt(ps, x).src
  <2>1. OpAt(ps, x).off \in Nat /\ End(OpAt(ps, x)) \in Nat
    BY <1>0, OpFacts
  <2>2. OpAt(ps, x).off < b /\ b <= End(OpAt(ps, x)) /\ b \in Nat
    BY <2>1
  <2>3. b \in 1..n
    BY <1>1, <1>5, <2>1, <2>2
  <2> DEFINE y == At2(b)
  <2>4. y \in WithData(ps) /\ OpAt(ps, y).off < b /\ b <= End(OpAt(ps, y))
    BY <2>2
  <2>5. d[b] = OpAt(ps, y).src
    BY <1>2, <2>3
  <2> HIDE DEF y, d, n
  <2>6. OpAt(ps, y).off \in Nat /\ End(OpAt(ps, y)) \in Nat
    BY <1>0, <2>4, OpFacts
  <2>7. ~Precedes(x, y)
    <3>1. Precedes(x, y) => End(OpAt(ps, x)) <= OpAt(ps, y).off
      BY <2>4 DEF WellFormed
    <3> QED BY <2>1, <2>2, <2>4, <2>6, <3>1
  <2>8. ~Precedes(y, x)
    <3>1. Precedes(y, x) => End(OpAt(ps, y)) <= OpAt(ps, x).off
      BY <2>4 DEF WellFormed
    <3> QED BY <2>1, <2>2, <2>4, <2>6, <3>1
  <2>9. y = x
    BY <1>0, <2>4, <2>7, <2>8, InOrder
  <2> QED BY <2>5, <2>9
<1> HIDE DEF d, n
<1>7. Own(ps, d)
  BY <1>4, <1>5, <1>6 DEF Own
<1> QED BY <1>1, <1>4, <1>7 DEF d, n

-----------------------------------------------------------------------------
(* One payload more.                                                       *)

(* Joining two sequences.                                                  *)
LEMMA Joined ==
  ASSUME NEW s, NEW u, s \in Seq(ToSet(s)), u \in Seq(ToSet(u))
  PROVE  /\ s \o u \in Seq(ToSet(s \o u)) /\ Len(s) \in Nat /\ Len(u) \in Nat /\ Len(s \o u) = Len(s) + Len(u)
         /\ DOMAIN s = 1..Len(s) /\ DOMAIN u = 1..Len(u) /\ DOMAIN (s \o u) = 1..(Len(s) + Len(u))
         /\ \A i \in 1..Len(s) : (s \o u)[i] = s[i]
         /\ \A i \in 1..Len(u) : (s \o u)[Len(s) + i] = u[i]
<1> DEFINE X == ToSet(s) \union ToSet(u)
<1>1. s \in Seq(X) /\ u \in Seq(X)
  <2>1. Len(s) \in Nat /\ s \in [1..Len(s) -> ToSet(s)] /\ Len(u) \in Nat /\ u \in [1..Len(u) -> ToSet(u)]
    OBVIOUS
  <2>2. s \in [1..Len(s) -> X] /\ u \in [1..Len(u) -> X]
    BY <2>1
  <2> QED BY <2>1, <2>2
<1> HIDE DEF X
<1>2. s \o u \in Seq(X) /\ Len(s \o u) = Len(s) + Len(u) /\ Len(s) \in Nat /\ Len(u) \in Nat
  BY <1>1, ConcatProperties
<1>3. /\ \A i \in 1..Len(s) : (s \o u)[i] = s[i]
      /\ \A i \in 1..Len(u) : (s \o u)[Len(s) + i] = u[i]
  BY <1>1
<1>4. DOMAIN s = 1..Len(s) /\ DOMAIN u = 1..Len(u) /\ DOMAIN (s \o u) = 1..(Len(s) + Len(u))
  BY <1>1, <1>2
<1>6. s \o u \in Seq(ToSet(s \o u))
  <2> DEFINE v == s \o u
  <2>1. v \in Seq(X)
    BY <1>2
  <2> HIDE DEF v
  <2>2. Len(v) \in Nat /\ v \in [1..Len(v) -> X]
    BY <2>1, LenProperties
  <2>3. v = [i \in 1..Len(v) |-> v[i]]
    BY <2>2
  <2>4. v \in Seq(ToSet(v))
    BY <2>2, <2>3, AsSequence
  <2> QED BY <2>4 DEF v
<1> QED BY <1>2, <1>3, <1>4, <1>6

(* The operations of a payload whose data comes after k bytes.             *)
LEMMA Shifted ==
  ASSUME NEW new, IsPayload(new), NEW k \in Nat
  PROVE  /\ IsPayload(ShiftOps(new, k)) /\ Len(ShiftOps(new, k)) = Len(new)
         /\ WithData(ShiftOps(new, k)) = WithData(new)
         /\ \A y \in WithData(new) : /\ OpAt(ShiftOps(new, k), y).off = OpAt(new, y).off + k
                                     /\ OpAt(ShiftOps(new, k), y).len = OpAt(new, y).len
                                     /\ OpAt(ShiftOps(new, k), y).src = OpAt(new, y).src
<1> DEFINE w == ShiftOps(new, k)
<1>1. Len(new) \in Nat /\ DOMAIN new = 1..Len(new)
  BY Places
<1>2. w = [i \in 1..Len(new) |-> w[i]]
  BY <1>1 DEF ShiftOps
<1>3. w \in Seq(ToSet(w)) /\ Len(w) = Len(new) /\ DOMAIN w = 1..Len(new)
  BY <1>1, <1>2, AsSequence
<1>4. ASSUME NEW i \in 1..Len(new)
      PROVE  /\ "ops" \in DOMAIN w[i] /\ Len(new[i].ops) \in Nat /\ DOMAIN new[i].ops = 1..Len(new[i].ops)
             /\ w[i].ops = [j \in 1..Len(new[i].ops) |-> ShiftOp(new[i].ops[j], k)]
  <2>1. "ops" \in DOMAIN new[i] /\ Len(new[i].ops) \in Nat /\ DOMAIN new[i].ops = 1..Len(new[i].ops)
    BY <1>1, Places DEF IsPayload
  <2>2. w[i] = [new[i] EXCEPT !.ops = [j \in DOMAIN new[i].ops |-> ShiftOp(new[i].ops[j], k)]]
    BY <1>1 DEF ShiftOps
  <2> QED BY <2>1, <2>2
<1> HIDE DEF w
<1>5. ASSUME NEW i \in 1..Len(new)
      PROVE  w[i].ops \in Seq(ToSet(w[i].ops)) /\ Len(w[i].ops) = Len(new[i].ops) /\ DOMAIN w[i].ops = 1..Len(new[i].ops)
  <2>1. w[i].ops = [j \in 1..Len(new[i].ops) |-> w[i].ops[j]]
    BY <1>4
  <2> QED BY <1>4, <2>1, AsSequence
<1>6. ASSUME NEW i \in 1..Len(new), NEW j \in 1..Len(new[i].ops)
      PROVE  /\ {"off", "len", "src"} \subseteq DOMAIN w[i].ops[j] /\ w[i].ops[j].off \in Nat
             /\ w[i].ops[j].len = new[i].ops[j].len /\ w[i].ops[j].len \in Nat /\ w[i].ops[j].src = new[i].ops[j].src
             /\ w[i].ops[j].len > 0 => w[i].ops[j].off = new[i].ops[j].off + k
  <2>1. {"off", "len", "src"} \subseteq DOMAIN new[i].ops[j] /\ new[i].ops[j].off \in Nat /\ new[i].ops[j].len \in Nat
    BY <1>1, <1>4 DEF IsPayload
  <2>2. w[i].ops[j] = ShiftOp(new[i].ops[j], k)
    BY <1>4
  <2> QED BY <2>1, <2>2 DEF ShiftOp
<1>7. IsPayload(w)
  BY <1>3, <1>4, <1>5, <1>6 DEF IsPayload
<1>8. WithData(w) = WithData(new)
  <2>1. \A x : x \in WithData(w) <=>
          \E i \in 1..Len(new) : \E j \in 1..Len(new[i].ops) : x = <<i, j>> /\ w[i].ops[j].len > 0
    BY <1>3, <1>5, <1>7, Places
  <2>2. \A x : x \in WithData(new) <=>
          \E i \in 1..Len(new) : \E j \in 1..Len(new[i].ops) : x = <<i, j>> /\ new[i].ops[j].len > 0
    BY Places
  <2>3. \A i \in 1..Len(new) : \A j \in 1..Len(new[i].ops) : w[i].ops[j].len = new[i].ops[j].len
    BY <1>6
  <2>4. WithData(w) \subseteq WithData(new) /\ WithData(new) \subseteq WithData(w)
    <3>1. ASSUME NEW x \in WithData(w) PROVE x \in WithData(new)
      <4>1. PICK i \in 1..Len(new) : \E j \in 1..Len(new[i].ops) : x = <<i, j>> /\ w[i].ops[j].len > 0
        BY <2>1
      <4> QED BY <2>2, <2>3, <4>1
    <3>2. ASSUME NEW x \in WithData(new) PROVE x \in WithData(w)
      <4>1. PICK i \in 1..Len(new) : \E j \in 1..Len(new[i].ops) : x = <<i, j>> /\ new[i].ops[j].len > 0
        BY <2>2
      <4> QED BY <2>1, <2>3, <4>1
    <3> QED BY <3>1, <3>2
  <2> QED BY <2>4
<1>9. ASSUME NEW y \in WithData(new)
      PROVE  OpAt(w, y).off = OpAt(new, y).off + k /\ OpAt(w, y).len = OpAt(new, y).len /\ OpAt(w, y).src = OpAt(new, y).src
  <2>0. PICK i \in 1..Len(new) : \E j \in 1..Len(new[i].ops) : y = <<i, j>> /\ new[i].ops[j].len > 0
    BY Places
  <2>1. PICK j \in 1..Len(new[i].ops) : y = <<i, j>> /\ new[i].ops[j].len > 0
    BY <2>0
  <2> QED BY <1>6, <2>1 DEF OpAt
<1> QED BY <1>3, <1>7, <1>8, <1>9 DEF w

(* The operations of two payloads, one after the other.                    *)
LEMMA Appended ==
  ASSUME NEW ps, NEW new, IsPayload(ps), IsPayload(new)
  PROVE  LET w == ps \o new
             Moved(y) == <<Len(ps) + y[1], y[2]>>
         IN  /\ IsPayload(w)
             /\ \A x \in WithData(ps) : x \in WithData(w) /\ OpAt(w, x) = OpAt(ps, x)
             /\ \A y \in WithData(new) : Moved(y) \in WithData(w) /\ OpAt(w, Moved(y)) = OpAt(new, y)
             /\ \A z \in WithData(w) : z \in WithData(ps) \/ \E y \in WithData(new) : z = Moved(y)
             /\ \A x \in WithData(ps), y \in WithData(new) : Precedes(x, Moved(y)) /\ ~Precedes(Moved(y), x) /\ x # Moved(y)
             /\ \A x, y \in WithData(new) : Precedes(x, y) => Precedes(Moved(x), Moved(y))
<1> DEFINE w == ps \o new
           Moved(y) == <<Len(ps) + y[1], y[2]>>
<1>1. /\ w \in Seq(ToSet(w)) /\ Len(ps) \in Nat /\ Len(new) \in Nat /\ Len(w) = Len(ps) + Len(new)
      /\ DOMAIN w = 1..(Len(ps) + Len(new)) /\ DOMAIN ps = 1..Len(ps) /\ DOMAIN new = 1..Len(new)
      /\ \A i \in 1..Len(ps) : w[i] = ps[i]
      /\ \A i \in 1..Len(new) : w[Len(ps) + i] = new[i]
  BY Joined DEF IsPayload
<1> HIDE DEF w
<1>2. ASSUME NEW i \in 1..(Len(ps) + Len(new))
      PROVE  (i \in 1..Len(ps) /\ w[i] = ps[i]) \/ (\E h \in 1..Len(new) : i = Len(ps) + h /\ w[i] = new[h])
  <2>1. CASE i <= Len(ps)
    BY <1>1, <2>1
  <2>2. CASE i > Len(ps)
    <3>1. i - Len(ps) \in 1..Len(new) /\ i = Len(ps) + (i - Len(ps))
      BY <1>1, <2>2
    <3> QED BY <1>1, <3>1
  <2> QED BY <1>1, <2>1, <2>2
<1>3. IsPayload(w)
  <2>1. ASSUME NEW i \in DOMAIN w
        PROVE  /\ "ops" \in DOMAIN w[i] /\ w[i].ops \in Seq(ToSet(w[i].ops))
               /\ \A j \in DOMAIN w[i].ops :
                    {"off", "len", "src"} \subseteq DOMAIN w[i].ops[j] /\ w[i].ops[j].off \in Nat /\ w[i].ops[j].len \in Nat
    <3>1. CASE i \in 1..Len(ps) /\ w[i] = ps[i]
      BY <1>1, <3>1 DEF IsPayload
    <3>2. ASSUME NEW h \in 1..Len(new), w[i] = new[h]
          PROVE  /\ "ops" \in DOMAIN w[i] /\ w[i].ops \in Seq(ToSet(w[i].ops))
                 /\ \A j \in DOMAIN w[i].ops :
                      {"off", "len", "src"} \subseteq DOMAIN w[i].ops[j] /\ w[i].ops[j].off \in Nat /\ w[i].ops[j].len \in Nat
      BY <1>1, <3>2 DEF IsPayload
    <3> QED BY <1>1, <1>2, <3>1, <3>2
  <2> QED BY <1>1, <2>1 DEF IsPayload
<1>4. ASSUME NEW x \in WithData(ps)
      PROVE  x \in WithData(w) /\ OpAt(w, x) = OpAt(ps, x) /\ x[1] \in 1..Len(ps)
  <2>0. PICK i \in 1..Len(ps) : \E j \in 1..Len(ps[i].ops) : x = <<i, j>> /\ ps[i].ops[j].len > 0
    BY Places
  <2>1. PICK j \in 1..Len(ps[i].ops) : x = <<i, j>> /\ ps[i].ops[j].len > 0
    BY <2>0
  <2>2. i \in 1..Len(w) /\ w[i] = ps[i]
    BY <1>1
  <2>3. x \in WithData(w)
    BY <1>3, <2>1, <2>2, Places
  <2> QED BY <2>1, <2>2, <2>3 DEF OpAt
<1>5. ASSUME NEW y \in WithData(new)
      PROVE  Moved(y) \in WithData(w) /\ OpAt(w, Moved(y)) = OpAt(new, y) /\ y[1] \in 1..Len(new) /\ y[2] \in Nat
  <2>0. PICK i \in 1..Len(new) : \E j \in 1..Len(new[i].ops) : y = <<i, j>> /\ new[i].ops[j].len > 0
    BY Places
  <2>1. PICK j \in 1..Len(new[i].ops) : y = <<i, j>> /\ new[i].ops[j].len > 0
    BY <2>0
  <2>2. Len(ps) + i \in 1..Len(w) /\ w[Len(ps) + i] = new[i] /\ Moved(y) = <<Len(ps) + i, j>>
    BY <1>1, <2>1
  <2>3. Moved(y) \in WithData(w)
    BY <1>3, <2>1, <2>2, Places
  <2>4. y[2] \in Nat
    BY OpFacts
  <2> QED BY <2>1, <2>2, <2>3, <2>4 DEF OpAt
<1>6. ASSUME NEW z \in WithData(w)
      PROVE  z \in WithData(ps) \/ \E y \in WithData(new) : z = Moved(y)
  <2>0. PICK i \in 1..Len(w) : \E j \in 1..Len(w[i].ops) : z = <<i, j>> /\ w[i].ops[j].len > 0
    BY <1>3, Places
  <2>1. PICK j \in 1..Len(w[i].ops) : z = <<i, j>> /\ w[i].ops[j].len > 0
    BY <2>0
  <2>2. CASE i \in 1..Len(ps) /\ w[i] = ps[i]
    BY <2>1, <2>2, Places
  <2>3. ASSUME NEW h \in 1..Len(new), i = Len(ps) + h, w[i] = new[h]
        PROVE  \E y \in WithData(new) : z = Moved(y)
    <3>1. <<h, j>> \in WithData(new)
      BY <2>1, <2>3, Places
    <3>2. z = Moved(<<h, j>>)
      BY <2>1, <2>3
    <3> QED BY <3>1, <3>2
  <2> QED BY <1>1, <1>2, <2>2, <2>3
<1>7. ASSUME NEW x \in WithData(ps), NEW y \in WithData(new)
      PROVE  Precedes(x, Moved(y)) /\ ~Precedes(Moved(y), x) /\ x # Moved(y)
  <2>1. x[1] \in 1..Len(ps) /\ y[1] \in 1..Len(new)
    BY <1>4, <1>5
  <2>2. Moved(y)[1] = Len(ps) + y[1]
    OBVIOUS
  <2>3. x[1] < Moved(y)[1] /\ ~(Moved(y)[1] < x[1]) /\ x[1] # Moved(y)[1]
    BY <1>1, <2>1, <2>2
  <2> QED BY <2>3 DEF Precedes
<1>8. ASSUME NEW x \in WithData(new), NEW y \in WithData(new), Precedes(x, y)
      PROVE  Precedes(Moved(x), Moved(y))
  <2>1. x[1] \in Nat /\ y[1] \in Nat
    BY OpFacts
  <2>2. Moved(x)[1] = Len(ps) + x[1] /\ Moved(x)[2] = x[2] /\ Moved(y)[1] = Len(ps) + y[1] /\ Moved(y)[2] = y[2]
    OBVIOUS
  <2> HIDE DEF Moved
  <2> QED BY <1>1, <1>8, <2>1, <2>2 DEF Precedes
<1> QED BY <1>3, <1>4, <1>5, <1>6, <1>7, <1>8 DEF w

(* The place that comes last decides the total length.                     *)
LEMMA TotalAt ==
  ASSUME NEW ps, IsPayload(ps), NEW x \in WithData(ps),
         \A y \in WithData(ps) : y = x \/ Precedes(y, x)
  PROVE  TotalDataLength(ps) = End(OpAt(ps, x))
<1>1. PICK z \in WithData(ps) : /\ \A y \in WithData(ps) : y = z \/ Precedes(y, z)
                                /\ TotalDataLength(ps) = End(OpAt(ps, z))
  BY LastPlace
<1>2. x = z
  BY <1>1, InOrder
<1> QED BY <1>1, <1>2

(* ExtendPartitionUpdates and ConcatBlobs keep up with each other: what the *)
(* operations say stays true, and the total length is that of the data.    *)
LEMMA OwnStep ==
  ASSUME NEW ps, NEW blob, NEW new, IsPayload(ps), IsBlob(blob), TotalDataLength(ps) = Len(blob),
         Own(ps, blob), WellFormed(new)
  PROVE  LET w == ExtendPartitionUpdates(ps, new)
             v == blob \o DataOf(new)
         IN  IsPayload(w) /\ IsBlob(v) /\ TotalDataLength(w) = Len(v) /\ Own(w, v)
<1> DEFINE k == Len(blob)
           s == ShiftOps(new, k)
           w == ps \o s
           v == blob \o DataOf(new)
           Moved(y) == <<Len(ps) + y[1], y[2]>>
<1>1. ExtendPartitionUpdates(ps, new) = w
  BY DEF ExtendPartitionUpdates, WellFormed
<1>2. IsPayload(new) /\ k \in Nat
  BY DEF WellFormed, IsBlob
<1>3. /\ IsPayload(s) /\ WithData(s) = WithData(new)
      /\ \A y \in WithData(new) : /\ OpAt(s, y).off = OpAt(new, y).off + k
                                  /\ OpAt(s, y).len = OpAt(new, y).len
                                  /\ OpAt(s, y).src = OpAt(new, y).src
  BY <1>2, Shifted
<1>4. /\ IsBlob(DataOf(new)) /\ Len(DataOf(new)) = TotalDataLength(new)
      /\ TotalDataLength(new) \in Nat /\ Own(new, DataOf(new))
  BY DataBytes
<1>5. /\ IsBlob(v) /\ Len(v) = k + TotalDataLength(new)
      /\ \A b \in 1..k : v[b] = blob[b]
      /\ \A b \in 1..TotalDataLength(new) : v[k + b] = DataOf(new)[b]
  BY <1>4, Joined DEF IsBlob
<1> HIDE DEF s, v
<1>6. /\ IsPayload(w)
      /\ \A x \in WithData(ps) : x \in WithData(w) /\ OpAt(w, x) = OpAt(ps, x)
      /\ \A y \in WithData(new) : Moved(y) \in WithData(w) /\ OpAt(w, Moved(y)) = OpAt(s, y)
      /\ \A z \in WithData(w) : z \in WithData(ps) \/ \E y \in WithData(new) : z = Moved(y)
      /\ \A x \in WithData(ps), y \in WithData(new) : Precedes(x, Moved(y))
      /\ \A x, y \in WithData(new) : Precedes(x, y) => Precedes(Moved(x), Moved(y))
  BY <1>3, Appended
<1> HIDE DEF w, k, Moved
<1>7. ASSUME NEW y \in WithData(new)
      PROVE  /\ OpAt(w, Moved(y)).off = OpAt(new, y).off + k /\ OpAt(w, Moved(y)).src = OpAt(new, y).src
             /\ End(OpAt(w, Moved(y))) = End(OpAt(new, y)) + k
             /\ OpAt(new, y).off \in Nat /\ End(OpAt(new, y)) \in Nat
  <2>1. OpAt(new, y).off \in Nat /\ OpAt(new, y).len \in Nat
    BY <1>2, OpFacts
  <2> QED BY <1>2, <1>3, <1>6, <2>1 DEF End
<1>8. TotalDataLength(w) = Len(v)
  <2>1. CASE WithData(new) = {}
    <3>1. TotalDataLength(new) = 0
      BY <2>1 DEF TotalDataLength
    <3>2. \A z \in WithData(w) : z \in WithData(ps)
      BY <1>6, <2>1
    <3>3. CASE WithData(ps) = {}
      <4>1. WithData(w) = {}
        BY <3>2, <3>3
      <4> QED BY <1>2, <1>5, <3>1, <3>3, <4>1 DEF TotalDataLength, k
    <3>4. CASE WithData(ps) # {}
      <4>1. PICK x \in WithData(ps) : /\ \A y \in WithData(ps) : y = x \/ Precedes(y, x)
                                      /\ TotalDataLength(ps) = End(OpAt(ps, x))
        BY <3>4, LastPlace
      <4>2. x \in WithData(w) /\ OpAt(w, x) = OpAt(ps, x)
        BY <1>6
      <4>3. TotalDataLength(w) = End(OpAt(w, x))
        BY <1>6, <3>2, <4>1, <4>2, TotalAt
      <4> QED BY <1>2, <1>5, <3>1, <4>1, <4>2, <4>3 DEF k
    <3> QED BY <3>3, <3>4
  <2>2. CASE WithData(new) # {}
    <3>1. PICK y \in WithData(new) : /\ \A x \in WithData(new) : x = y \/ Precedes(x, y)
                                     /\ TotalDataLength(new) = End(OpAt(new, y))
      BY <1>2, <2>2, LastPlace
    <3>2. ASSUME NEW z \in WithData(w) PROVE z = Moved(y) \/ Precedes(z, Moved(y))
      <4>1. CASE z \in WithData(ps)
        BY <1>6, <4>1
      <4>2. ASSUME NEW x \in WithData(new), z = Moved(x) PROVE z = Moved(y) \/ Precedes(z, Moved(y))
        BY <1>6, <3>1, <4>2
      <4> QED BY <1>6, <4>1, <4>2
    <3>3. TotalDataLength(w) = End(OpAt(w, Moved(y)))
      BY <1>6, <3>2, TotalAt
    <3> QED BY <1>2, <1>5, <1>7, <3>1, <3>3
  <2> QED BY <2>1, <2>2
<1>9. ASSUME NEW z \in WithData(w)
      PROVE  /\ End(OpAt(w, z)) <= Len(v)
             /\ \A b \in (OpAt(w, z).off + 1)..End(OpAt(w, z)) : v[b] = OpAt(w, z).src
  <2>1. CASE z \in WithData(ps)
    <3>1. OpAt(w, z) = OpAt(ps, z) /\ OpAt(ps, z).off \in Nat /\ End(OpAt(ps, z)) \in Nat
      BY <1>6, <2>1, OpFacts
    <3>2. End(OpAt(ps, z)) <= k
      BY <2>1 DEF Own, k
    <3>3. \A b \in (OpAt(ps, z).off + 1)..End(OpAt(ps, z)) : blob[b] = OpAt(ps, z).src
      BY <2>1 DEF Own
    <3>4. ASSUME NEW b \in (OpAt(ps, z).off + 1)..End(OpAt(ps, z)) PROVE v[b] = OpAt(ps, z).src
      <4>1. b \in 1..k
        BY <1>2, <3>1, <3>2
      <4> QED BY <1>5, <3>3, <4>1
    <3> QED BY <1>2, <1>4, <1>5, <3>1, <3>2, <3>4
  <2>2. ASSUME NEW y \in WithData(new), z = Moved(y)
        PROVE  /\ End(OpAt(w, z)) <= Len(v)
               /\ \A b \in (OpAt(w, z).off + 1)..End(OpAt(w, z)) : v[b] = OpAt(w, z).src
    <3>1. /\ OpAt(w, z).off = OpAt(new, y).off + k /\ OpAt(w, z).src = OpAt(new, y).src
          /\ End(OpAt(w, z)) = End(OpAt(new, y)) + k
          /\ OpAt(new, y).off \in Nat /\ End(OpAt(new, y)) \in Nat
      BY <1>7, <2>2
    <3>2. /\ End(OpAt(new, y)) <= TotalDataLength(new)
          /\ \A b \in (OpAt(new, y).off + 1)..End(OpAt(new, y)) : DataOf(new)[b] = OpAt(new, y).src
      BY <1>4 DEF Own
    <3>3. ASSUME NEW b \in (OpAt(w, z).off + 1)..End(OpAt(w, z)) PROVE v[b] = OpAt(w, z).src
      <4> DEFINE c == b - k
      <4>1. /\ c \in (OpAt(new, y).off + 1)..End(OpAt(new, y)) /\ b = k + c
            /\ c \in 1..TotalDataLength(new)
        BY <1>2, <1>4, <3>1, <3>2
      <4> HIDE DEF c
      <4>2. v[b] = DataOf(new)[c] /\ DataOf(new)[c] = OpAt(new, y).src
        BY <1>5, <3>2, <4>1
      <4> QED BY <3>1, <4>2
    <3> QED BY <1>2, <1>4, <1>5, <3>1, <3>2, <3>3
  <2> QED BY <1>6, <2>1, <2>2
<1>10. Own(w, v)
  BY <1>9 DEF Own
<1> QED BY <1>1, <1>5, <1>6, <1>8, <1>10 DEF w, v

-----------------------------------------------------------------------------
(* All payloads.                                                           *)

(* The data written so far.                                                *)
Writes(m, f, n) ==
  /\ f = [i \in 0..n |-> f[i]] /\ f[0] = <<>>
  /\ \A i \in 1..n : f[i] = f[i - 1] \o DataOf(m[i].partitions)

(* The recursion of ConcatBlobs defines a function.                        *)
LEMMA WritesExists ==
  ASSUME NEW m, NEW l \in Nat
  PROVE  \A n \in 0..l : \E f : Writes(m, f, n)
<1> DEFINE T == {n \in 0..l : \E f : Writes(m, f, n)}
<1>1. 0 \in T
  <2> DEFINE e == [i \in 0..0 |-> <<>>]
  <2>1. Writes(m, e, 0)
    BY DEF Writes
  <2> QED BY <2>1
<1>2. ASSUME NEW n \in 0..(l - 1), n \in T PROVE n + 1 \in T
  <2>1. PICK f : Writes(m, f, n)
    BY <1>2
  <2> DEFINE g == [i \in 0..(n + 1) |-> IF i = n + 1 THEN f[n] \o DataOf(m[n + 1].partitions) ELSE f[i]]
  <2>2. g[0] = <<>>
    BY <2>1 DEF Writes
  <2>3. ASSUME NEW i \in 1..(n + 1) PROVE g[i] = g[i - 1] \o DataOf(m[i].partitions)
    <3>1. CASE i = n + 1
      BY <3>1
    <3>2. CASE i # n + 1
      <4>1. i \in 1..n /\ i \in 0..(n + 1) /\ i - 1 \in 0..(n + 1) /\ i - 1 # n + 1
        BY <3>2
      <4>2. g[i] = f[i] /\ g[i - 1] = f[i - 1]
        BY <3>2, <4>1
      <4> QED BY <2>1, <4>1, <4>2 DEF Writes
    <3> QED BY <3>1, <3>2
  <2>4. g = [i \in 0..(n + 1) |-> g[i]]
    OBVIOUS
  <2> HIDE DEF g
  <2>5. Writes(m, g, n + 1)
    BY <2>2, <2>3, <2>4 DEF Writes
  <2> QED BY <2>5
<1> HIDE DEF T
<1>3. \A n \in 0..l : n \in T
  BY <1>1, <1>2, UpTo
<1> QED BY <1>3 DEF T

LEMMA ConcatUnfolds ==
  ASSUME NEW m, Len(m) \in Nat
  PROVE  \E f : Writes(m, f, Len(m)) /\ ConcatBlobs(m) = f[Len(m)]
<1> DEFINE R(h) == h = [n \in 0..Len(m) |-> IF n = 0 THEN <<>> ELSE h[n - 1] \o DataOf(m[n].partitions)]
           f == CHOOSE h : R(h)
<1>1. PICK g : Writes(m, g, Len(m))
  <2>1. Len(m) \in 0..Len(m)
    OBVIOUS
  <2> QED BY <2>1, WritesExists
<1>2. R(g)
  <2>1. \A n \in 0..Len(m) : n # 0 => n \in 1..Len(m)
    OBVIOUS
  <2>2. \A n \in 0..Len(m) : g[n] = IF n = 0 THEN <<>> ELSE g[n - 1] \o DataOf(m[n].partitions)
    BY <1>1, <2>1 DEF Writes
  <2>3. g = [n \in 0..Len(m) |-> g[n]]
    BY <1>1 DEF Writes
  <2> QED BY <2>2, <2>3
<1>3. R(f)
  BY <1>2
<1>4. ConcatBlobs(m) = f[Len(m)]
  BY DEF ConcatBlobs
<1> HIDE DEF f
<1>5. Writes(m, f, Len(m))
  <2>1. f = [n \in 0..Len(m) |-> f[n]] /\ f[0] = <<>>
    BY <1>3
  <2>2. ASSUME NEW i \in 1..Len(m) PROVE f[i] = f[i - 1] \o DataOf(m[i].partitions)
    <3>1. i \in 0..Len(m) /\ i # 0
      OBVIOUS
    <3> QED BY <1>3, <3>1
  <2> QED BY <2>1, <2>2 DEF Writes
<1> QED BY <1>4, <1>5

(* The manifest after each payload.                                        *)
Merges(m, e, f, n) ==
  /\ f = [i \in 0..n |-> f[i]] /\ f[0] = e
  /\ \A i \in 1..n : f[i] = MergeOne(f[i - 1], m[i])

(* So does that of MergeManifests.                                         *)
LEMMA MergesExists ==
  ASSUME NEW m, NEW e, NEW l \in Nat
  PROVE  \A n \in 0..l : \E f : Merges(m, e, f, n)
<1> DEFINE T == {n \in 0..l : \E f : Merges(m, e, f, n)}
<1>1. 0 \in T
  <2> DEFINE z == [i \in 0..0 |-> e]
  <2>1. Merges(m, e, z, 0)
    BY DEF Merges
  <2> QED BY <2>1
<1>2. ASSUME NEW n \in 0..(l - 1), n \in T PROVE n + 1 \in T
  <2>1. PICK f : Merges(m, e, f, n)
    BY <1>2
  <2> DEFINE g == [i \in 0..(n + 1) |-> IF i = n + 1 THEN MergeOne(f[n], m[n + 1]) ELSE f[i]]
  <2>2. g[0] = e
    BY <2>1 DEF Merges
  <2>3. ASSUME NEW i \in 1..(n + 1) PROVE g[i] = MergeOne(g[i - 1], m[i])
    <3>1. CASE i = n + 1
      BY <3>1
    <3>2. CASE i # n + 1
      <4>1. i \in 1..n /\ i \in 0..(n + 1) /\ i - 1 \in 0..(n + 1) /\ i - 1 # n + 1
        BY <3>2
      <4>2. g[i] = f[i] /\ g[i - 1] = f[i - 1]
        BY <3>2, <4>1
      <4> QED BY <2>1, <4>1, <4>2 DEF Merges
    <3> QED BY <3>1, <3>2
  <2>4. g = [i \in 0..(n + 1) |-> g[i]]
    OBVIOUS
  <2> HIDE DEF g
  <2>5. Merges(m, e, g, n + 1)
    BY <2>2, <2>3, <2>4 DEF Merges
  <2> QED BY <2>5
<1> HIDE DEF T
<1>3. \A n \in 0..l : n \in T
  BY <1>1, <1>2, UpTo
<1> QED BY <1>3 DEF T

LEMMA MergeUnfolds ==
  ASSUME NEW m, Len(m) \in Nat, Len(m) # 1, "partitions" \in DOMAIN m[1]
  PROVE  \E e, f : /\ Merges(m, e, f, Len(m)) /\ MergeManifests(m) = f[Len(m)]
                   /\ "partitions" \in DOMAIN e /\ e.partitions = <<>>
<1> DEFINE e == [m[1] EXCEPT !.minor = 0, !.max_timestamp = 0, !.partial = TRUE, !.partitions = <<>>,
                             !.meta = [@ EXCEPT !.groups = <<>>, !.cow = 0]]
<1>1. "partitions" \in DOMAIN e /\ e.partitions = <<>>
  OBVIOUS
<1> DEFINE R(h) == h = [n \in 0..Len(m) |-> IF n = 0 THEN e ELSE MergeOne(h[n - 1], m[n])]
           f == CHOOSE h : R(h)
<1>2. MergeManifests(m) = f[Len(m)]
  BY DEF MergeManifests
<1> HIDE DEF e
<1>3. PICK g : Merges(m, e, g, Len(m))
  <2>1. Len(m) \in 0..Len(m)
    OBVIOUS
  <2> QED BY <2>1, MergesExists
<1>4. R(g)
  <2>1. \A n \in 0..Len(m) : n # 0 => n \in 1..Len(m)
    OBVIOUS
  <2>2. \A n \in 0..Len(m) : g[n] = IF n = 0 THEN e ELSE MergeOne(g[n - 1], m[n])
    BY <1>3, <2>1 DEF Merges
  <2>3. g = [n \in 0..Len(m) |-> g[n]]
    BY <1>3 DEF Merges
  <2> QED BY <2>2, <2>3
<1>5. R(f)
  BY <1>4
<1> HIDE DEF f
<1>6. Merges(m, e, f, Len(m))
  <2>1. f = [n \in 0..Len(m) |-> f[n]] /\ f[0] = e
    BY <1>5
  <2>2. ASSUME NEW i \in 1..Len(m) PROVE f[i] = MergeOne(f[i - 1], m[i])
    <3>1. i \in 0..Len(m) /\ i # 0
      OBVIOUS
    <3> QED BY <1>5, <3>1
  <2> QED BY <2>1, <2>2 DEF Merges
<1> QED BY <1>1, <1>2, <1>6

(* One manifest more, when it is not refused.                              *)
LEMMA MergeOnePartitions ==
  ASSUME NEW out, NEW manifest, MergeOne(out, manifest) # None, out # None => "partitions" \in DOMAIN out
  PROVE  /\ out # None /\ "partitions" \in DOMAIN MergeOne(out, manifest)
         /\ MergeOne(out, manifest).partitions = ExtendPartitionUpdates(out.partitions, manifest.partitions)
<1>1. out # None
  BY DEF MergeOne
<1> QED BY <1>1 DEF MergeOne

(* The operations of the merged manifest find their data.                  *)
LEMMA AllOwn ==
  ASSUME NEW m, Len(m) \in Nat, Len(m) > 0,
         \A i \in 1..Len(m) : "partitions" \in DOMAIN m[i] /\ WellFormed(m[i].partitions),
         MergeManifests(m) # None
  PROVE  Own(MergeManifests(m).partitions, ConcatBlobs(m))
<1>1. PICK f : Writes(m, f, Len(m)) /\ ConcatBlobs(m) = f[Len(m)]
  BY ConcatUnfolds
<1>2. CASE Len(m) = 1
  <2>1. MergeManifests(m) = m[1] /\ 1 \in 1..Len(m)
    BY <1>2 DEF MergeManifests
  <2>2. ConcatBlobs(m) = <<>> \o DataOf(m[1].partitions)
    <3>1. f[0] = <<>> /\ f[1] = f[1 - 1] \o DataOf(m[1].partitions)
      BY <1>1, <2>1 DEF Writes
    <3>2. 1 - 1 = 0 /\ ConcatBlobs(m) = f[1]
      BY <1>1, <1>2
    <3> QED BY <3>1, <3>2
  <2>3. IsBlob(DataOf(m[1].partitions)) /\ Own(m[1].partitions, DataOf(m[1].partitions))
    BY <2>1, DataBytes
  <2>4. ConcatBlobs(m) = DataOf(m[1].partitions)
    BY <2>2, <2>3, ConcatEmptySeq DEF IsBlob
  <2> QED BY <2>1, <2>3, <2>4
<1>3. CASE Len(m) # 1
  <2>1. 1 \in 1..Len(m)
    OBVIOUS
  <2>2. PICK e, g : /\ Merges(m, e, g, Len(m)) /\ MergeManifests(m) = g[Len(m)]
                    /\ "partitions" \in DOMAIN e /\ e.partitions = <<>>
    BY <1>3, <2>1, MergeUnfolds
  <2> DEFINE Good(n) == g[n] # None => /\ "partitions" \in DOMAIN g[n] /\ IsPayload(g[n].partitions) /\ IsBlob(f[n])
                                       /\ TotalDataLength(g[n].partitions) = Len(f[n]) /\ Own(g[n].partitions, f[n])
             T == {n \in 0..Len(m) : Good(n)}
  <2>3. Good(0)
    <3>1. f[0] = <<>> /\ g[0] = e
      BY <1>1, <2>2 DEF Writes, Merges
    <3>2. IsPayload(<<>>) /\ IsBlob(<<>>)
      BY DEF IsPayload, IsBlob
    <3>3. WithData(<<>>) = {}
      BY DEF WithData
    <3>4. TotalDataLength(<<>>) = 0 /\ Own(<<>>, <<>>)
      BY <3>3 DEF TotalDataLength, Own
    <3> QED BY <2>2, <3>1, <3>2, <3>4
  <2>4. ASSUME NEW n \in 0..(Len(m) - 1), Good(n) PROVE Good(n + 1)
    <3> SUFFICES ASSUME g[n + 1] # None PROVE Good(n + 1)
      OBVIOUS
    <3>1. n + 1 \in 1..Len(m) /\ (n + 1) - 1 = n
      OBVIOUS
    <3>2. g[n + 1] = MergeOne(g[n], m[n + 1]) /\ f[n + 1] = f[n] \o DataOf(m[n + 1].partitions)
      BY <1>1, <2>2, <3>1 DEF Merges, Writes
    <3>3. /\ g[n] # None /\ "partitions" \in DOMAIN g[n + 1]
          /\ g[n + 1].partitions = ExtendPartitionUpdates(g[n].partitions, m[n + 1].partitions)
      BY <2>4, <3>2, MergeOnePartitions
    <3>4. WellFormed(m[n + 1].partitions)
      BY <3>1
    <3>5. /\ IsPayload(g[n].partitions) /\ IsBlob(f[n])
          /\ TotalDataLength(g[n].partitions) = Len(f[n]) /\ Own(g[n].partitions, f[n])
      BY <2>4, <3>3
    <3>6. /\ IsPayload(g[n + 1].partitions) /\ IsBlob(f[n + 1])
          /\ TotalDataLength(g[n + 1].partitions) = Len(f[n + 1]) /\ Own(g[n + 1].partitions, f[n + 1])
      <4> DEFINE old == g[n].partitions
                 blob == f[n]
                 new == m[n + 1].partitions
      <4>1. IsPayload(old) /\ IsBlob(blob) /\ TotalDataLength(old) = Len(blob) /\ Own(old, blob) /\ WellFormed(new)
        BY <3>4, <3>5
      <4>2. g[n + 1].partitions = ExtendPartitionUpdates(old, new) /\ f[n + 1] = blob \o DataOf(new)
        BY <3>2, <3>3
      <4> HIDE DEF old, blob, new
      <4> QED BY <4>1, <4>2, OwnStep
    <3> QED BY <3>3, <3>6
  <2> HIDE DEF Good
  <2>5. 0 \in T /\ \A n \in 0..(Len(m) - 1) : n \in T => n + 1 \in T
    BY <2>3, <2>4
  <2> HIDE DEF T
  <2>6. \A n \in 0..Len(m) : n \in T
    BY <2>5, UpTo
  <2>7. Good(Len(m))
    BY <2>6 DEF T
  <2> QED BY <1>1, <2>2, <2>7 DEF Good
<1> QED BY <1>2, <1>3

-----------------------------------------------------------------------------
(* merge_ota.                                                              *)

Manifests == [i \in 1..Len(otas) |-> otas[i].manifest]

(* What main of merge_ota knows.                                           *)
OtaInv ==
  /\ mpc # "idle" => /\ Len(otas) \in Nat /\ Len(otas) > 0
                     /\ \A i \in 1..Len(otas) : /\ "partitions" \in DOMAIN otas[i].manifest
                                                 /\ WellFormed(otas[i].manifest.partitions)
  /\ mpc \in {"write", "done"} => /\ {"manifest", "blob"} \subseteq DOMAIN merged
                                  /\ merged.manifest = MergeManifests(Manifests) /\ merged.manifest # None
  /\ mpc = "done" => merged.blob = ConcatBlobs(Manifests)

LEMMA InitOta ==
  Init => OtaInv
<1> SUFFICES ASSUME Init PROVE OtaInv
  OBVIOUS
<1>1. CASE job.kind = "ota"
  <2>1. job \in Jobs /\ otas = job.otas /\ mpc = "merge_ota"
    BY <1>1 DEF Init
  <2>2. /\ otas \in Seq(ToSet(otas)) /\ otas # <<>>
        /\ \A i \in DOMAIN otas : "partitions" \in DOMAIN otas[i].manifest /\ WellFormed(otas[i].manifest.partitions)
    BY <1>1, <2>1, PayloadsAssumption
  <2>3. Len(otas) \in Nat /\ Len(otas) > 0 /\ DOMAIN otas = 1..Len(otas)
    BY <2>2
  <2> QED BY <2>1, <2>2, <2>3 DEF OtaInv
<1>2. CASE job.kind # "ota"
  BY <1>2 DEF Init, OtaInv
<1> QED BY <1>1, <1>2

LEMMA NextOta ==
  OtaInv /\ [Next]_vars => OtaInv'
<1> SUFFICES ASSUME OtaInv, [Next]_vars PROVE OtaInv'
  OBVIOUS
<1>1. CASE UNCHANGED otaVars
  BY <1>1 DEF OtaInv, otaVars, Manifests
<1>2. CASE MergeOtaPackages
  <2>1. otas' = otas /\ mpc = "merge_ota" /\ mpc' \in {"failed", "write"}
    BY <1>2 DEF MergeOtaPackages
  <2>2. CASE mpc' = "failed"
    BY <2>1, <2>2 DEF OtaInv
  <2>3. CASE mpc' = "write"
    <3>1. /\ MergeManifests(Manifests) # None
          /\ merged' = [manifest |-> MergeManifests(Manifests), blob |-> <<>>, care_map |-> {}, apex_info |-> {}, metadata |-> None]
      BY <1>2, <2>3 DEF MergeOtaPackages, Manifests
    <3>2. Manifests' = Manifests
      BY <2>1 DEF Manifests
    <3> QED BY <2>1, <2>3, <3>1, <3>2 DEF OtaInv
  <2> QED BY <2>1, <2>2, <2>3
<1>3. CASE WriteMergedOta
  <2>1. otas' = otas /\ mpc = "write" /\ mpc' = "done"
    BY <1>3 DEF WriteMergedOta
  <2>2. Manifests' = Manifests
    BY <2>1 DEF Manifests
  <2>3. PICK k \in DOMAIN otas :
          merged' = [merged EXCEPT !.blob = ConcatBlobs(Manifests), !.care_map = MergeCareMap(otas),
                                   !.apex_info = ApexInfo(otas), !.metadata = otas[k].metadata]
    BY <1>3 DEF WriteMergedOta, Manifests
  <2>4. {"manifest", "blob"} \subseteq DOMAIN merged
    BY <2>1 DEF OtaInv
  <2>5. {"manifest", "blob"} \subseteq DOMAIN merged' /\ merged'.manifest = merged.manifest /\ merged'.blob = ConcatBlobs(Manifests)
    BY <2>3, <2>4
  <2> QED BY <2>1, <2>2, <2>5 DEF OtaInv
<1> QED BY <1>1, <1>2, <1>3 DEF Next, vars, MergeOtas

(* merge_ota, for any number of payloads with any number of partitions and *)
(* operations, with or without data: each operation of the merged manifest *)
(* points at the data its own payload had for it.                          *)
THEOREM MergedFindTheirData == Spec => []OwnBlobs
<1>1. OtaInv => OwnBlobs
  <2> SUFFICES ASSUME OtaInv, mpc = "done" PROVE OwnBlobs
    BY DEF OwnBlobs
  <2>1. /\ Len(otas) \in Nat /\ Len(otas) > 0
        /\ \A i \in 1..Len(otas) : "partitions" \in DOMAIN otas[i].manifest /\ WellFormed(otas[i].manifest.partitions)
        /\ merged.manifest = MergeManifests(Manifests) /\ merged.manifest # None /\ merged.blob = ConcatBlobs(Manifests)
    BY DEF OtaInv
  <2>2. Len(Manifests) = Len(otas) /\ \A i \in 1..Len(otas) : Manifests[i] = otas[i].manifest
    BY <2>1, AsSequence DEF Manifests
  <2>3. Own(merged.manifest.partitions, merged.blob)
    BY <2>1, <2>2, AllOwn
  <2> QED BY <2>3 DEF Own, OwnBlobs
<1>2. Init => OtaInv
  BY InitOta
<1>3. OtaInv /\ [Next]_vars => OtaInv'
  BY NextOta
<1> QED BY <1>1, <1>2, <1>3, PTL DEF Spec

-----------------------------------------------------------------------------
(* Signing: the frame of add_img_to_target_files.                           *)

(* What no step of add_img_to_target_files replaces: files outside of the   *)
(* directories it writes to, and the images b of boot and dtbo.             *)
BootImages == {Img("boot"), Img("dtbo")}
WrittenLists == {Meta(n) : n \in {"apex_info", "care_map", "vbmeta_digest"}}
Touched(f) == f[1] \in {"IMAGES", "OTA"} \/ f \in WrittenLists \/ f[2] = "recovery_patch"
Kept(f, b) == ~Touched(f) \/ f \in b
Agrees(tree, out, b) == \A f \in DOMAIN out : Kept(f, b) => f \in DOMAIN tree /\ tree[f] = out[f]
Spares(new, tree, b) == \A f \in DOMAIN new : f \in DOMAIN tree => ~Kept(f, b)

LEMMA OverDomain ==
  ASSUME NEW f, NEW g
  PROVE  /\ DOMAIN (f ++ g) = DOMAIN f \union DOMAIN g
         /\ \A x \in DOMAIN f : (f ++ g)[x] = f[x]
         /\ \A x \in DOMAIN g : x \notin DOMAIN f => (f ++ g)[x] = g[x]
BY DEF ++

LEMMA OneDomain ==
  ASSUME NEW x, NEW v
  PROVE  DOMAIN (x <: v) = {x} /\ (x <: v)[x] = v
BY DEF <:

LEMMA AgreesSpared ==
  ASSUME NEW b \in SUBSET BootImages, NEW tree, NEW z, NEW out, NEW new,
         Agrees(tree, out, b), Spares(new, tree, b)
  PROVE  /\ Agrees(new ++ tree, out, b)
         /\ Agrees(z, out, b) => Agrees(new ++ z, out, b) /\ Agrees(z ++ new, out, b)
<1>1. \A f \in DOMAIN out : Kept(f, b) => f \in DOMAIN tree /\ f \notin DOMAIN new
  BY DEF Agrees, Spares
<1>2. Agrees(new ++ tree, out, b)
  BY <1>1 DEF Agrees, ++
<1>3. ASSUME Agrees(z, out, b) PROVE Agrees(new ++ z, out, b) /\ Agrees(z ++ new, out, b)
  BY <1>1, <1>3 DEF Agrees, ++
<1> QED BY <1>2, <1>3

LEMMA Grown ==
  ASSUME NEW b \in SUBSET BootImages, NEW tree, NEW out, NEW big,
         Agrees(tree, out, b), \A f \in DOMAIN tree : f \in DOMAIN big /\ big[f] = tree[f]
  PROVE  Agrees(big, out, b)
BY DEF Agrees

LEMMA Paths ==
  ASSUME NEW b \in SUBSET BootImages
  PROVE  /\ \A p : Img(p) \notin b => ~Kept(Img(p), b)
         /\ \A p : p \notin {"boot", "dtbo"} => ~Kept(Img(p), b)
         /\ \A n \in {"apex_info", "care_map", "vbmeta_digest"} : ~Kept(Meta(n), b)
         /\ \A p : ~Kept(<<p, "recovery_patch">>, b)
         /\ \A n : ~Kept(<<"OTA", n>>, b)
<1>1. \A p : Img(p)[1] = "IMAGES" /\ Img(p)[2] = p
  BY DEF Img
<1>2. \A n : Meta(n)[1] = "META" /\ Meta(n)[2] = n
  BY DEF Meta
<1>3. \A p : <<p, "recovery_patch">> \notin BootImages
  BY DEF BootImages, Img
<1>4. \A n : <<"OTA", n>> \notin BootImages /\ Meta(n) \notin BootImages
  BY DEF BootImages, Img, Meta
<1>5. \A p : Img(p) \in BootImages => p \in {"boot", "dtbo"}
  BY <1>1 DEF BootImages
<1> QED BY <1>1, <1>2, <1>3, <1>4, <1>5 DEF Kept, Touched, WrittenLists

\* The package and the zip, as long as there is one, agree with out.
AgreeBoth(out, b) == Agrees(t, out, b) /\ (zip = None \/ Agrees(zip, out, b))

LEMMA BothSpared ==
  ASSUME NEW b \in SUBSET BootImages, NEW out, NEW new, AgreeBoth(out, b), Spares(new, t, b),
         t' = new ++ t, zip' = (IF zip = None THEN None ELSE new ++ zip) \/ zip' = (IF zip = None THEN None ELSE zip ++ new)
  PROVE  AgreeBoth(out, b)'
BY AgreesSpared DEF AgreeBoth

LEMMA FrameBoot ==
  ASSUME NEW b \in SUBSET BootImages, NEW out, AgreeBoth(out, b), AddBootImages
  PROVE  AgreeBoth(out, b)'
<1> DEFINE images == Restrict(Bootables, {n \in DOMAIN Bootables : Bootables[n] # None})
           new == {n \in DOMAIN images : Img(n) \notin DOMAIN t}
           twoStep == IF "recovery" \in new THEN <<"OTA", "recovery-two-step">> <: GetBootableImage("recovery-two-step", "recovery") ELSE <<>>
           written == [f \in {Img(n) : n \in new} |-> images[f[2]]] ++ Without(twoStep, DOMAIN t)
<1>1. (t' = t /\ zip' = zip) \/ (t' = written ++ t /\ zip' = IF zip = None THEN None ELSE written ++ zip)
  BY DEF AddBootImages, ZipAppend, imgVars
<1>2. Spares(written, t, b)
  <2>1. DOMAIN Without(twoStep, DOMAIN t) = DOMAIN twoStep \ DOMAIN t
    BY DEF Without, Restrict
  <2>2. DOMAIN written = {Img(n) : n \in new} \union (DOMAIN twoStep \ DOMAIN t)
    BY <2>1, OverDomain
  <2> QED BY <2>2 DEF Spares
<1> HIDE DEF written
<1> QED BY <1>1, <1>2, BothSpared DEF AgreeBoth

LEMMA FramePartition ==
  ASSUME NEW b \in SUBSET BootImages, NEW out, AgreeBoth(out, b), NEW p \in Partitions, StartPartition(p) \/ BuildPartition(p)
  PROVE  AgreeBoth(out, b)'
<1>1. CASE StartPartition(p)
  <2>1. /\ t' = RecoveryPatch(p) ++ t
        /\ zip' = IF zip = None THEN None ELSE zip ++ RecoveryPatch(p)
    BY <1>1 DEF StartPartition, OutputFiles
  <2>2. DOMAIN RecoveryPatch(p) \subseteq {<<p, "recovery_patch">>}
    <3>1. DOMAIN <<>> = {}
      OBVIOUS
    <3> QED BY <3>1, OneDomain DEF RecoveryPatch
  <2>3. Spares(RecoveryPatch(p), t, b)
    BY <2>2, Paths DEF Spares
  <2> QED BY <2>1, <2>3, BothSpared
<1>2. CASE BuildPartition(p)
  <2> DEFINE image == Build(t, p, ImageProps(info, p), Used(p))
             new == Img(p) <: image
  <2>1. (t' = t /\ zip' = zip) \/ (t' = new ++ t /\ zip' = IF zip = None THEN None ELSE new ++ zip)
    BY <1>2 DEF BuildPartition, ZipAppend
  <2>2. DOMAIN new = {Img(p)}
    BY OneDomain
  <2>3. p \notin {"boot", "dtbo"}
    BY DEF Partitions, PartitionCalls, ToSet
  <2>4. Spares(new, t, b)
    BY <2>2, <2>3, Paths DEF Spares
  <2> HIDE DEF new
  <2> QED BY <2>1, <2>4, BothSpared DEF AgreeBoth
<1> QED BY <1>1, <1>2

LEMMA FrameOthers ==
  ASSUME NEW b \in SUBSET BootImages, NEW out, AgreeBoth(out, b), AddOtherImages
  PROVE  AgreeBoth(out, b)'
<1> DEFINE images == NewPrebuilts ++ EmptyImages
<1>1. \/ t' = t /\ zip' = zip
      \/ /\ t' = AddApexInfo ++ images ++ t
         /\ zip' = IF zip = None THEN None ELSE images ++ zip ++ AddApexInfo
  BY DEF AddOtherImages, imgVars
<1>2. DOMAIN AddApexInfo = {Meta("apex_info")}
  BY OneDomain DEF AddApexInfo
<1>3. \A f \in DOMAIN NewPrebuilts : f \notin DOMAIN t
  BY DEF NewPrebuilts, MissingPrebuilts, ++
<1>4. \A f \in DOMAIN EmptyImages : f \notin DOMAIN t
  BY DEF EmptyImages, EmptyWanted
<1>5. \A f \in DOMAIN images : f \notin DOMAIN t
  BY <1>3, <1>4, OverDomain
<1> HIDE DEF images
<1>6. Spares(images, t, b) /\ Spares(AddApexInfo ++ images, t, b)
  <2>1. DOMAIN (AddApexInfo ++ images) = DOMAIN AddApexInfo \union DOMAIN images
    BY OverDomain
  <2> QED BY <1>2, <1>5, <2>1, Paths DEF Spares
<1>7. CASE /\ t' = AddApexInfo ++ images ++ t
           /\ zip' = IF zip = None THEN None ELSE images ++ zip ++ AddApexInfo
  <2>1. Agrees(t', out, b)
    BY <1>6, <1>7, AgreesSpared DEF AgreeBoth
  <2>2. ASSUME zip # None PROVE Agrees(zip', out, b)
    <3>1. Agrees(images ++ zip, out, b)
      BY <1>6, <2>2, AgreesSpared DEF AgreeBoth
    <3>2. Spares(AddApexInfo, t, b)
      BY <1>2, Paths DEF Spares
    <3>3. Agrees((images ++ zip) ++ AddApexInfo, out, b)
      BY <3>1, <3>2, AgreesSpared DEF AgreeBoth
    <3> QED BY <1>7, <2>2, <3>3
  <2> QED BY <1>7, <2>1, <2>2 DEF AgreeBoth
<1> QED BY <1>1, <1>7 DEF AgreeBoth

-----------------------------------------------------------------------------
(* A package that gains nothing but vbmeta images.                           *)
GrowsTo(tree, big) ==
  /\ \A f \in DOMAIN tree : f \in DOMAIN big /\ big[f] = tree[f]
  /\ \A f \in DOMAIN big : f \in DOMAIN tree \/ \E n \in VbmetaNames : f = Img(n)

LEMMA FrameVbmeta ==
  ASSUME NEW b \in SUBSET BootImages, NEW out, AgreeBoth(out, b), AddVBMetaImages
  PROVE  AgreeBoth(out, b)' /\ GrowsTo(t, t')
<1> DEFINE before == [t |-> t, parts |-> parts, rest |-> AvbPartitions \union AvbCustomNames, ok |-> TRUE]
           s == IF True(info, <<"avb_enable">>) THEN TopLevelImage(ChainedImages(before)) ELSE before
           new == Restrict(s.t, {Img(n) : n \in VbmetaNames} \intersect (DOMAIN s.t \ DOMAIN t))
<1>1. (t' = t /\ zip' = zip) \/ (t' = new ++ t /\ zip' = IF zip = None THEN None ELSE new ++ zip)
  BY DEF AddVBMetaImages, ZipAppend
<1>2. DOMAIN new = {Img(n) : n \in VbmetaNames} \intersect (DOMAIN s.t \ DOMAIN t)
  BY DEF Restrict
<1> HIDE DEF s, new
<1>3. Spares(new, t, b)
  BY <1>2 DEF Spares
<1>4. GrowsTo(t, new ++ t)
  BY <1>2 DEF GrowsTo, ++
<1>5. GrowsTo(t, t')
  BY <1>1, <1>4 DEF GrowsTo
<1> QED BY <1>1, <1>3, <1>5, BothSpared DEF AgreeBoth

LEMMA FrameMeta ==
  ASSUME NEW b \in SUBSET BootImages, NEW out, AgreeBoth(out, b),
         AddSuperEmpty \/ AddCareMapForAbOta \/ AddPackRadioImages \/ AddVbmetaDigest \/ ReplaceUpdatedFiles
  PROVE  AgreeBoth(out, b)'
<1>0. DOMAIN <<>> = {}
  OBVIOUS
<1>1. CASE AddSuperEmpty
  <2> DEFINE new == IF True(info, <<"use_dynamic_partitions">>) /\ True(info, <<"build_super_empty_partition">>) /\ Img("super_empty") \notin DOMAIN t
                    THEN Img("super_empty") <: BuildSuperImageFromDict(info) ELSE <<>>
  <2>1. t' = new ++ t /\ zip' = IF zip = None THEN None ELSE new ++ zip
    BY <1>1 DEF AddSuperEmpty, ZipAppend
  <2>2. \A f \in DOMAIN new : f \notin DOMAIN t
    <3>1. DOMAIN (Img("super_empty") <: BuildSuperImageFromDict(info)) = {Img("super_empty")}
      BY OneDomain
    <3>2. Img("super_empty") \in DOMAIN t => new = <<>>
      OBVIOUS
    <3>3. new = <<>> \/ new = Img("super_empty") <: BuildSuperImageFromDict(info)
      OBVIOUS
    <3> QED BY <1>0, <3>1, <3>2, <3>3
  <2> HIDE DEF new
  <2>3. Spares(new, t, b)
    BY <2>2 DEF Spares
  <2> QED BY <2>1, <2>3, BothSpared
<1>2. CASE AddCareMapForAbOta
  <2> DEFINE ab == OrElse(Get(t, Meta("ab_partitions")), {})
             new == IF DOMAIN CareMap(ab) = {} THEN <<>> ELSE Meta("care_map") <: CareMap(ab)
  <2>1. (t' = t /\ zip' = zip) \/ (t' = new ++ t /\ zip' = IF zip = None THEN None ELSE zip ++ new)
    BY <1>2 DEF AddCareMapForAbOta, OutputFiles
  <2>2. DOMAIN new \subseteq {Meta("care_map")}
    BY <1>0, OneDomain
  <2> HIDE DEF new
  <2>3. Spares(new, t, b)
    BY <2>2, Paths DEF Spares
  <2> QED BY <2>1, <2>3, BothSpared DEF AgreeBoth
<1>3. CASE AddPackRadioImages
  <2> DEFINE names == {n \in OrElse(Get(t, Meta("pack_radioimages")), {}) : Img(n) \notin DOMAIN t}
             new == [f \in {Img(n) : n \in names} |-> t[<<"RADIO", f[2]>>]]
  <2>1. (t' = t /\ zip' = zip) \/ (t' = (IF zip = None THEN new ++ t ELSE t) /\ zip' = IF zip = None THEN None ELSE new ++ zip)
    BY <1>3 DEF AddPackRadioImages, ZipAppend
  <2>2. \A f \in DOMAIN new : f \notin DOMAIN t
    OBVIOUS
  <2> HIDE DEF new
  <2>3. Spares(new, t, b)
    BY <2>2 DEF Spares
  <2> QED BY <2>1, <2>3, AgreesSpared DEF AgreeBoth
<1>4. CASE AddVbmetaDigest
  <2> DEFINE wanted == True(info, <<"avb_enable">>) /\ ~BootContainer /\ True(info, <<"avb_building_vbmeta_image">>)
             new == IF wanted THEN Meta("vbmeta_digest") <: CalculateVbmetaDigest(t) ELSE <<>>
  <2>1. (t' = t /\ zip' = zip) \/ (t' = new ++ t /\ zip' = IF zip = None THEN None ELSE zip ++ new)
    BY <1>4 DEF AddVbmetaDigest, OutputFiles
  <2>2. DOMAIN new \subseteq {Meta("vbmeta_digest")}
    BY <1>0, OneDomain
  <2> HIDE DEF new
  <2>3. Spares(new, t, b)
    BY <2>2, Paths DEF Spares
  <2> QED BY <2>1, <2>3, BothSpared DEF AgreeBoth
<1>5. CASE ReplaceUpdatedFiles
  BY <1>5 DEF ReplaceUpdatedFiles, AgreeBoth, Agrees
<1> QED BY <1>1, <1>2, <1>3, <1>4, <1>5

(* No step of add_img_to_target_files touches what is to be kept.            *)
AddPcs == {"add_images", "boot", "partitions", "others", "vbmeta", "super", "radio", "pack", "digest", "replace", "added"}

LEMMA AddFrame ==
  ASSUME NEW b \in SUBSET BootImages, NEW out, AgreeBoth(out, b), AddImages
  PROVE  AgreeBoth(out, b)'
<1>1. CASE AddImagesToTargetFiles
  BY <1>1 DEF AddImagesToTargetFiles, AgreeBoth
<1>2. CASE AddBootImages
  BY <1>2, FrameBoot
<1>3. ASSUME NEW p \in Partitions, StartPartition(p) \/ BuildPartition(p) PROVE AgreeBoth(out, b)'
  BY <1>3, FramePartition
<1>4. ASSUME NEW p \in Partitions, SkipExisting(p) \/ WalkInfoDict(p) \/ StampInfoDict(p) \/ RecordSizes(p) PROVE AgreeBoth(out, b)'
  BY <1>4 DEF SkipExisting, WalkInfoDict, StampInfoDict, RecordSizes, AgreeBoth
<1>5. CASE JoinThreads
  BY <1>5 DEF JoinThreads, imgVars, AgreeBoth
<1>6. CASE AddOtherImages
  BY <1>6, FrameOthers
<1>7. CASE AddVBMetaImages
  BY <1>7, FrameVbmeta
<1>8. CASE AddSuperEmpty \/ AddCareMapForAbOta \/ AddPackRadioImages \/ AddVbmetaDigest \/ ReplaceUpdatedFiles
  BY <1>8, FrameMeta
<1> QED BY <1>1, <1>2, <1>3, <1>4, <1>5, <1>6, <1>7, <1>8 DEF AddImages

LEMMA AddSteps ==
  ASSUME AddImages
  PROVE  pc \in AddPcs /\ pc # "added" /\ pc' \in AddPcs \union {"failed", "exit"} /\ job' = job
<1>1. CASE AddImagesToTargetFiles
  BY <1>1 DEF AddImagesToTargetFiles, AddPcs
<1>2. CASE AddBootImages
  BY <1>2 DEF AddBootImages, AddPcs
<1>3. ASSUME NEW p \in Partitions, SkipExisting(p) \/ StartPartition(p) \/ WalkInfoDict(p) \/ StampInfoDict(p) \/ BuildPartition(p) \/ RecordSizes(p)
      PROVE  pc = "partitions" /\ pc' = pc /\ job' = job
  BY <1>3 DEF SkipExisting, StartPartition, WalkInfoDict, StampInfoDict, BuildPartition, RecordSizes
<1>4. CASE JoinThreads
  <2>1. "system" \in Partitions
    BY DEF Partitions, PartitionCalls, ToSet
  <2> QED BY <1>4, <2>1 DEF JoinThreads, AddPcs
<1>5. CASE AddOtherImages
  BY <1>5 DEF AddOtherImages, AddPcs
<1>6. CASE AddVBMetaImages
  <2>1. pc = "vbmeta" /\ pc' \in {"super", "failed"} /\ job' = job
    BY <1>6 DEF AddVBMetaImages
  <2> QED BY <2>1 DEF AddPcs
<1>7. CASE AddSuperEmpty
  BY <1>7 DEF AddSuperEmpty, AddPcs
<1>8. CASE AddCareMapForAbOta
  BY <1>8 DEF AddCareMapForAbOta, AddPcs
<1>9. CASE AddPackRadioImages
  BY <1>9 DEF AddPackRadioImages, AddPcs
<1>10. CASE AddVbmetaDigest
  BY <1>10 DEF AddVbmetaDigest, AddPcs
<1>11. CASE ReplaceUpdatedFiles
  BY <1>11 DEF ReplaceUpdatedFiles, AddPcs
<1> QED BY <1>1, <1>2, <1>3, <1>4, <1>5, <1>6, <1>7, <1>8, <1>9, <1>10, <1>11 DEF AddImages, AddPcs

-----------------------------------------------------------------------------
(* sign_target_files_apks.                                                   *)

SgFields == {"keyMap", "apk", "apex", "ext", "passwords", "asked", "package_key", "out", "rebuild_recovery", "nested"}
Early == {"sign_options", "passwords", "avb_keys", "kernel", "entries", "ota_keys"}
Late == {"vendor", "signed"} \union AddPcs

(* The keys once LoadKeys has read them.                                     *)
KeysLoaded ==
  /\ ReplacedOnce(sg.keyMap)
  /\ \A n \in DOMAIN sg.apk : sg.apk[n] = NewKey(KeyFor(n))
  /\ \A f \in FilesNamed("apk") : \A n \in DOMAIN job.t[f] : IsApk(job.t[f][n], sg.ext)
  /\ \A f \in FilesNamed("apex") : \A a \in DOMAIN job.t[f] : Special(sg.apex[a].payload) = Special(sg.apex[a].container)

Present(out, names) == \A n \in names : \A f \in FilesNamed(n) : f \in DOMAIN out
OtasMade(out) ==
  /\ OtasInstall(out)
  /\ \A n \in BootOtas : \A f \in FilesNamed(n) : \A p \in DOMAIN out[f].images : p \in {"boot", "dtbo"} /\ (Replaced(p) \/ Img(p) \in DOMAIN out)
EntriesMade(out) ==
  Present(out, SignedFiles \ {"otacerts"}) /\ ApksSigned(out) /\ InnerApksSigned(out) /\ SignersReplaced(out) /\ OtasMade(out)
\* The images of boot and dtbo no later step replaces.
KeptBoots == {f \in BootImages : f = Img("boot") => ~VendorRebuilds}
OutMade(out) == EntriesMade(out) /\ Present(out, {"otacerts"}) /\ OtacertsReplaced(out)

SignInv ==
  job.kind = "sign" =>
    /\ job \in Jobs /\ DOMAIN sg = SgFields /\ pc \in Early \union Late \union {"failed", "exit"}
    /\ pc \in Early => t = job.t /\ ~sg.nested
    /\ pc \in (Early \ {"sign_options"}) \union Late => KeysLoaded
    /\ pc = "entries" => DOMAIN sg.out \subseteq BootImages
    /\ pc = "ota_keys" => EntriesMade(sg.out) /\ (~so.replace_ota_keys => Present(sg.out, {"otacerts"}))
    /\ pc \in {"ota_keys"} \union Late => sg.rebuild_recovery = (RecoveryFiles \intersect DOMAIN job.t # {})
    /\ pc \in Late => OutMade(sg.out)
    /\ pc \in {"vendor", "signed"} => ~sg.nested
    /\ sg.nested => so.vendor_partitions # {} /\ so.vendor_tools
    /\ pc \in AddPcs \union {"signed"} => sg.nested \/ AgreeBoth(sg.out, KeptBoots)

LEMMA AtMostOne ==
  ASSUME NEW S, IsFiniteSet(S), ~(Cardinality(S) > 1), NEW x \in S, NEW y \in S
  PROVE  x = y
<1> SUFFICES ASSUME x # y PROVE FALSE
  OBVIOUS
<1>1. IsFiniteSet({x}) /\ Cardinality({x}) = 1
  BY FS_Singleton
<1>2. Cardinality({x} \cup {y}) = 1 + 1
  BY <1>1, FS_AddElement
<1>3. Cardinality({x} \cup {y}) <= Cardinality(S)
  BY FS_Subset
<1>4. Cardinality(S) \in Nat
  BY FS_CardinalityType
<1> QED BY <1>2, <1>3, <1>4

LEMMA CertsMapped ==
  ASSUME NEW keyMap, NEW n \in DOMAIN GetApkCerts([m \in DOMAIN job.t[Meta("apkcerts")] |-> job.t[Meta("apkcerts")][m].cert], keyMap)
  PROVE  GetApkCerts([m \in DOMAIN job.t[Meta("apkcerts")] |-> job.t[Meta("apkcerts")][m].cert], keyMap)[n] = Mapped(keyMap, KeyFor(n))
<1> DEFINE certmap == [m \in DOMAIN job.t[Meta("apkcerts")] |-> job.t[Meta("apkcerts")][m].cert]
           certs == IF so.override_apk_keys = None THEN certmap ELSE [m \in DOMAIN certmap |-> so.override_apk_keys]
           kept == {m \in DOMAIN certs : so.override_apk_keys # None \/ certs[m] \in DOMAIN keyMap \/ certs[m] = Presigned}
           E == [m \in DOMAIN so.extra_apks |-> Mapped(keyMap, OrElse(so.extra_apks[m], Presigned))]
           K == [m \in kept |-> Mapped(keyMap, certs[m])]
<1>1. GetApkCerts(certmap, keyMap) = E ++ K
  BY DEF GetApkCerts
<1>2. DOMAIN E = DOMAIN so.extra_apks /\ DOMAIN K = kept
  OBVIOUS
<1>5. /\ n \in DOMAIN E \union DOMAIN K
      /\ GetApkCerts(certmap, keyMap)[n] = IF n \in DOMAIN E THEN E[n] ELSE K[n]
  <2> HIDE DEF E, K
  <2> QED BY <1>1 DEF ++
<1>3. CASE n \in DOMAIN so.extra_apks
  <2>1. E[n] = Mapped(keyMap, KeyFor(n))
    BY <1>3 DEF KeyFor
  <2> HIDE DEF E, K
  <2> QED BY <1>2, <1>3, <1>5, <2>1
<1>4. CASE n \notin DOMAIN so.extra_apks
  <2>1. n \in kept
    <3> HIDE DEF E, K, kept
    <3> QED BY <1>2, <1>4, <1>5
  <2>2. certs[n] = KeyFor(n)
    BY <1>4, <2>1 DEF KeyFor, OrElse
  <2>3. K[n] = Mapped(keyMap, KeyFor(n))
    BY <2>1, <2>2
  <2> HIDE DEF E, K, kept
  <2> QED BY <1>2, <1>4, <1>5, <2>1, <2>3
<1> QED BY <1>3, <1>4

LEMMA ExtensionKnown ==
  ASSUME ApksListed(t), NEW exts, exts = CompressedExtensions(t[Meta("apkcerts")]), ~(Cardinality(exts) > 1),
         NEW ext, ext = (IF exts = {} THEN None ELSE CHOOSE e \in exts : TRUE),
         NEW f \in DOMAIN t, f[2] = "apk", NEW n \in DOMAIN t[f]
  PROVE  IsApk(t[f][n], ext)
<1> DEFINE certs == t[Meta("apkcerts")]
           some == {m \in DOMAIN certs : certs[m].ext # None /\ \E a \in ApksNamed(m) : a.ext = certs[m].ext}
<1> SUFFICES ASSUME t[f][n].ext # None PROVE t[f][n].ext = ext
  BY DEF IsApk
<1>1. n \in DOMAIN certs /\ certs[n].ext = t[f][n].ext
  BY DEF ApksListed, ToSign
<1>2. t[f][n] \in ApksNamed(n)
  BY DEF ApksNamed
<1>3. n \in some
  BY <1>1, <1>2
<1>4. exts = {certs[m].ext : m \in some}
  BY DEF CompressedExtensions
<1>5. IsFiniteSet(exts)
  <2>1. IsFiniteSet(some)
    <3>1. IsFiniteSet(DOMAIN certs)
      BY DEF ApksListed
    <3> QED BY <3>1, FS_Subset
  <2> DEFINE e == [m \in some |-> certs[m].ext]
  <2>2. exts = {e[m] : m \in some}
    BY <1>4
  <2>4. e \in Surjection(some, exts)
    <3>1. e \in [some -> exts] /\ \A x \in exts : \E m \in some : e[m] = x
      BY <2>2
    <3> HIDE DEF e, some
    <3> QED BY <3>1 DEF Surjection
  <2> HIDE DEF some, e
  <2> QED BY <2>1, <2>4, FS_Surjection
<1>6. t[f][n].ext \in exts
  BY <1>1, <1>3, <1>4
<1>7. ext \in exts
  BY <1>6
<1> QED BY <1>5, <1>6, <1>7, AtMostOne

LEMMA LoadsKeys ==
  ASSUME job.kind = "sign", SignInv, LoadKeys
  PROVE  SignInv'
<1>0. job \in Jobs /\ DOMAIN sg = SgFields /\ t = job.t /\ ~sg.nested /\ pc = "sign_options"
  BY DEF SignInv, LoadKeys, Early
<1>1. job' = job /\ t' = t /\ zip' = zip /\ pc' \in {"failed", "passwords"}
  BY DEF LoadKeys
<1>2. CASE pc' = "failed"
  <2>1. sg' = sg
    BY <1>2 DEF LoadKeys
  <2> QED BY <1>0, <1>1, <1>2, <2>1 DEF SignInv, Early, Late, AddPcs
<1>3. CASE pc' = "passwords"
  <2> DEFINE misc == LoadInfoDict(t, FALSE)
             keyMap == BuildKeyMap(misc, so.mappings)
             exts == CompressedExtensions(t[Meta("apkcerts")])
             ext == IF exts = {} THEN None ELSE CHOOSE e \in exts : TRUE
             apk == GetApkCerts(ReadApkCerts, keyMap)
             apex == GetApexKeys(ReadApexKeysInfo, apk)
  <2>1. /\ misc # None /\ ~(Cardinality(exts) > 1) /\ CheckApkAndApexKeysAvailable(apk, apex, ext)
        /\ \E known, pk : sg' = [sg EXCEPT !.keyMap = keyMap, !.apk = apk, !.apex = apex, !.ext = ext, !.passwords = known, !.package_key = pk]
    BY <1>3 DEF LoadKeys
  <2> HIDE DEF misc, keyMap, exts, ext, apk, apex
  <2>2. PICK known, pk : sg' = [sg EXCEPT !.keyMap = keyMap, !.apk = apk, !.apex = apex, !.ext = ext, !.passwords = known, !.package_key = pk]
    BY <2>1
  <2>3. /\ DOMAIN sg' = SgFields /\ sg'.keyMap = keyMap /\ sg'.apk = apk /\ sg'.apex = apex /\ sg'.ext = ext /\ sg'.nested = sg.nested
    BY <1>0, <2>2 DEF SgFields
  <2>4. ReplacedOnce(keyMap)
    BY <1>0, <2>1, SigningAssumption DEF misc, keyMap, so
  <2>5. \A n \in DOMAIN apk : apk[n] = Mapped(keyMap, KeyFor(n))
    BY <1>0, CertsMapped DEF apk, ReadApkCerts
  <2>6. \A f \in FilesNamed("apk") : \A n \in DOMAIN job.t[f] : IsApk(job.t[f][n], ext)
    <3>1. ApksListed(t)
      BY <1>0, SigningAssumption
    <3> QED BY <1>0, <2>1, <3>1, ExtensionKnown DEF exts, ext, FilesNamed, ToSign
  <2>7. \A f \in FilesNamed("apex") : \A a \in DOMAIN job.t[f] : Special(apex[a].payload) = Special(apex[a].container)
    BY <1>0, <2>1 DEF CheckApkAndApexKeysAvailable, Installed, FilesNamed, ToSign
  <2>8. KeysLoaded'
    BY <1>1, <2>3, <2>4, <2>5, <2>6, <2>7 DEF KeysLoaded, NewKey, KeyFor, FilesNamed, so
  <2> QED BY <1>0, <1>1, <1>3, <2>3, <2>8 DEF SignInv, Early, Late, AddPcs
<1> QED BY <1>1, <1>2, <1>3

(* While nothing but passwords and AVB keys changes.                         *)
LEMMA KeepsKeys ==
  ASSUME job' = job, sg'.keyMap = sg.keyMap, sg'.apk = sg.apk, sg'.apex = sg.apex, sg'.ext = sg.ext
  PROVE  KeysLoaded' <=> KeysLoaded
BY DEF KeysLoaded, NewKey, KeyFor, FilesNamed, so

LEMMA SmallSteps ==
  ASSUME job.kind = "sign", SignInv, GetKeyPasswords \/ UpdatePasswords \/ RefusePasswords \/ ReplaceKeys
  PROVE  SignInv'
<1>0. job \in Jobs /\ DOMAIN sg = SgFields /\ t = job.t /\ ~sg.nested /\ KeysLoaded /\ pc \in {"passwords", "avb_keys"}
  BY DEF SignInv, GetKeyPasswords, UpdatePasswords, RefusePasswords, ReplaceKeys, Early
<1>1. job' = job /\ t' = t /\ pc' \in {"passwords", "avb_keys", "kernel", "failed"}
  BY <1>0 DEF GetKeyPasswords, UpdatePasswords, RefusePasswords, ReplaceKeys, imgVars
<1>2. /\ DOMAIN sg' = SgFields /\ sg'.keyMap = sg.keyMap /\ sg'.apk = sg.apk /\ sg'.apex = sg.apex /\ sg'.ext = sg.ext
      /\ sg'.nested = sg.nested
  <2>1. CASE sg' = sg
    BY <1>0, <2>1
  <2>2. CASE UpdatePasswords
    <3>1. PICK given : sg' = [sg EXCEPT !.passwords = given, !.asked = TRUE]
      BY <2>2 DEF UpdatePasswords
    <3> QED BY <1>0, <3>1 DEF SgFields
  <2> QED BY <2>1, <2>2 DEF GetKeyPasswords, RefusePasswords, ReplaceKeys
<1>3. KeysLoaded'
  BY <1>0, <1>1, <1>2, KeepsKeys
<1> QED BY <1>0, <1>1, <1>2, <1>3 DEF SignInv, Early, Late, AddPcs

LEMMA KernelStep ==
  ASSUME job.kind = "sign", SignInv, RegenerateKernelPartitions
  PROVE  SignInv'
<1> DEFINE prebuilt == Get(t, <<"PREBUILT_IMAGES", "dtbo">>)
           boot == IF KernelImage = None THEN <<>> ELSE Img("boot") <: KernelImage
           dtbo == IF True(info, <<"has", "dtbo">>) THEN Img("dtbo") <: Signed(<<prebuilt>>, "dtbo") ELSE <<>>
           images == boot ++ dtbo
<1>0. job \in Jobs /\ DOMAIN sg = SgFields /\ t = job.t /\ ~sg.nested /\ KeysLoaded /\ pc = "kernel"
  BY DEF SignInv, RegenerateKernelPartitions, Early
<1>1. job' = job /\ t' = t /\ ((pc' = "failed" /\ sg' = sg) \/ (pc' = "entries" /\ sg' = [sg EXCEPT !.out = images]))
  BY DEF RegenerateKernelPartitions, imgVars
<1>2. DOMAIN images \subseteq BootImages
  <2>0. DOMAIN <<>> = {}
    OBVIOUS
  <2>1. DOMAIN (Img("boot") <: KernelImage) = {Img("boot")} /\ DOMAIN (Img("dtbo") <: Signed(<<prebuilt>>, "dtbo")) = {Img("dtbo")}
    BY OneDomain
  <2>2. DOMAIN boot \subseteq BootImages
    BY <2>0, <2>1 DEF BootImages
  <2>3. DOMAIN dtbo \subseteq BootImages
    BY <2>0, <2>1 DEF BootImages
  <2> HIDE DEF boot, dtbo
  <2> QED BY <2>2, <2>3, OverDomain
<1> HIDE DEF images
<1>3. /\ DOMAIN sg' = SgFields /\ sg'.keyMap = sg.keyMap /\ sg'.apk = sg.apk /\ sg'.apex = sg.apex /\ sg'.ext = sg.ext
      /\ sg'.nested = sg.nested /\ (pc' = "entries" => sg'.out = images)
  BY <1>0, <1>1 DEF SgFields
<1>4. KeysLoaded'
  BY <1>0, <1>1, <1>3, KeepsKeys
<1> QED BY <1>0, <1>1, <1>2, <1>3, <1>4 DEF SignInv, Early, Late, AddPcs

-----------------------------------------------------------------------------
(* The entries ProcessTargetFiles writes, each as it has to be.              *)

LEMMA NewKeySpecial ==
  ASSUME KeysLoaded, NEW k, ~Special(k)
  PROVE  ~Special(NewKey(k))
BY DEF KeysLoaded, ReplacedOnce, NewKey, Mapped

LEMMA SignedSig ==
  ASSUME NEW apk, "sig" \in DOMAIN apk, NEW key
  PROVE  [apk EXCEPT !.sig = key].sig = key
OBVIOUS

LEMMA ApkEntry ==
  ASSUME KeysLoaded, t = job.t, ApksListed(t), NEW f \in FilesNamed("apk"), f[1] \notin so.skip_apks_with_path_prefix,
         SignApks(f) # None, NEW n \in DOMAIN t[f], ~Special(KeyFor(n))
  PROVE  SignApks(f)[n].sig = NewKey(KeyFor(n))
<1> DEFINE recognized == {m \in DOMAIN t[f] : f[1] \notin so.skip_apks_with_path_prefix /\ IsApk(t[f][m], sg.ext)}
           signed == [m \in DOMAIN t[f] |-> IF m \notin recognized \/ Special(Get(sg.apk, m)) THEN t[f][m] ELSE SignApk(t[f][m], sg.apk[m])]
<1>1. SignApks(f) = signed /\ recognized \subseteq DOMAIN sg.apk /\ None \notin Range(signed)
  BY DEF SignApks
<1>2. n \in recognized /\ n \in DOMAIN sg.apk
  BY <1>1 DEF KeysLoaded
<1>3. Get(sg.apk, n) = NewKey(KeyFor(n)) /\ sg.apk[n] = NewKey(KeyFor(n))
  BY <1>2 DEF KeysLoaded, Get
<1>4. ~Special(Get(sg.apk, n))
  BY <1>3, NewKeySpecial
<1>5. signed[n] = SignApk(t[f][n], NewKey(KeyFor(n)))
  BY <1>2, <1>3, <1>4
<1>6. signed[n] # None
  BY <1>1 DEF Range
<1> HIDE DEF signed
<1>7. "sig" \in DOMAIN t[f][n]
  BY DEF ApksListed, FilesNamed, ToSign
<1>8. signed[n] = [t[f][n] EXCEPT !.sig = NewKey(KeyFor(n))]
  BY <1>5, <1>6 DEF SignApk, SignFile
<1> QED BY <1>1, <1>7, <1>8, SignedSig

LEMMA ApexEntry ==
  ASSUME KeysLoaded, t = job.t, ApksListed(t), NEW f \in FilesNamed("apex"), SignApexes(f) # None,
         NEW a \in DOMAIN t[f], NEW n \in DOMAIN t[f][a].apks, ~Special(KeyFor(n)), ~Special(sg.apex[a].payload)
  PROVE  SignApexes(f)[a].apks[n].sig = NewKey(KeyFor(n))
<1> DEFINE apex == t[f][a]
           keys == sg.apex[a]
           signed == [m \in DOMAIN t[f] |-> IF Special(sg.apex[m].payload) \/ Special(sg.apex[m].container) THEN t[f][m]
                                            ELSE SignApex(t[f][m], sg.apex[m])]
           apks == SignContentsInPayload(apex)
           inner == ProcessApexFile(apex)
           outer == SignUncompressedApex(apex, keys)
<1>1. SignApexes(f) = signed /\ None \notin Range(signed)
  BY DEF SignApexes
<1>2. ~Special(keys.payload) /\ ~Special(keys.container)
  BY DEF KeysLoaded
<1>3. signed[a] = SignApex(apex, keys) /\ signed[a] # None
  BY <1>1, <1>2 DEF Range
<1> HIDE DEF signed
<1>4. SignApex(apex, keys) # None
  BY <1>3
<1>5. /\ "apks" \in DOMAIN apex /\ "sig" \in DOMAIN apex.apks[n]
  BY DEF ApksListed, FilesNamed, ToSign
<1> HIDE DEF apex, keys
<1>6. outer # None /\ (signed[a] = outer \/ signed[a] = [outer EXCEPT !.outer = keys.container])
  BY <1>3, <1>4 DEF SignApex
<1>7. inner # None /\ outer = [inner EXCEPT !.payload = keys.payload, !.pubkey = keys.payload, !.container = keys.container, !.tool = keys.tool]
  BY <1>6 DEF SignUncompressedApex
<1>8. DOMAIN apex.apks \subseteq DOMAIN sg.apk /\ None \notin Range(apks) /\ inner = [apex EXCEPT !.apks = apks]
  BY <1>7 DEF ProcessApexFile
<1>9. inner.apks = apks /\ "apks" \in DOMAIN inner
  <2> HIDE DEF apks, inner
  <2> QED BY <1>5, <1>8
<1>10. outer.apks = apks /\ "apks" \in DOMAIN outer
  <2> HIDE DEF apks, inner, outer
  <2> QED BY <1>7, <1>9
<1>11. signed[a].apks = apks
  <2> HIDE DEF apks, inner, outer
  <2> QED BY <1>6, <1>10
<1>12. n \in DOMAIN apex.apks /\ n \in DOMAIN sg.apk
  BY <1>8 DEF apex
<1>13. sg.apk[n] = NewKey(KeyFor(n)) /\ ~Special(sg.apk[n])
  BY <1>12, NewKeySpecial DEF KeysLoaded
<1>14. apks[n] = SignFile(apex.apks[n], NewKey(KeyFor(n))) /\ apks[n] # None
  BY <1>8, <1>12, <1>13 DEF SignContentsInPayload, Range
<1>15. apks[n] = [apex.apks[n] EXCEPT !.sig = NewKey(KeyFor(n))]
  <2> HIDE DEF apks
  <2> QED BY <1>14 DEF SignFile
<1>16. apks[n].sig = NewKey(KeyFor(n))
  BY <1>5, <1>15, SignedSig
<1> QED BY <1>1, <1>11, <1>16

LEMMA SignersEntry ==
  ASSUME KeysLoaded, NEW signers, ReplaceCerts(signers) # None, NEW n \in DOMAIN signers,
         {signers[n], NewKey(signers[n])} \subseteq so.certs
  PROVE  ReplaceCerts(signers)[n] = NewKey(signers[n])
<1> DEFINE usable == {k \in DOMAIN sg.keyMap : {k, sg.keyMap[k]} \subseteq so.certs}
           R(h) == h = [k \in usable |-> IF sg.keyMap[k] \in usable /\ AddedBefore(info, k, sg.keyMap[k]) THEN h[sg.keyMap[k]] ELSE sg.keyMap[k]]
           replaced == CHOOSE h : R(h)
           new == [m \in DOMAIN signers |-> IF signers[m] \in usable THEN replaced[signers[m]] ELSE signers[m]]
<1>1. \A k \in usable : sg.keyMap[k] \notin usable
  BY DEF KeysLoaded, ReplacedOnce
<1>2. R([k \in usable |-> sg.keyMap[k]])
  BY <1>1
<1>3. R(replaced)
  BY <1>2
<1>4. ReplaceCerts(signers) = new
  BY DEF ReplaceCerts
<1> HIDE DEF replaced
<1>5. \A k \in usable : replaced[k] = sg.keyMap[k]
  BY <1>1, <1>3
<1>6. signers[n] \in usable <=> signers[n] \in DOMAIN sg.keyMap
  BY DEF NewKey, Mapped
<1> HIDE DEF usable
<1> QED BY <1>4, <1>5, <1>6 DEF NewKey, Mapped

LEMMA OtaEntry ==
  ASSUME t = job.t, BootOtasGiven(job), NEW n \in BootOtas, NEW f \in FilesNamed(n), RegenerateBootOTA(f) # None,
         NEW p \in DOMAIN RegenerateBootOTA(f).images
  PROVE  /\ p \in {"boot", "dtbo"} /\ Img(p) \in DOMAIN sg.out
         /\ n = "boot_ota_4k" => Last(RegenerateBootOTA(f).images[p]) = sg.out[Img(p)]
         /\ n = "boot_ota_16k" => /\ Head(RegenerateBootOTA(f).images[p]) = sg.out[Img(p)]
                                  /\ Get(job.t, Big(p)) \in {None, Last(RegenerateBootOTA(f).images[p])}
<1> DEFINE ota == t[f]
           is4k == f[2] = "boot_ota_4k"
           r == RegenerateBootOTA(f)
<1>1. f[2] = n /\ "images" \in DOMAIN ota /\ ota.partitions \subseteq {"boot", "dtbo"}
  BY DEF BootOtasGiven, FilesNamed, ToSign
<1>2. is4k \in BOOLEAN
  OBVIOUS
<1>3. /\ r = [ota EXCEPT !.images = OtaImages(ota, is4k), !.key = sg.package_key]
      /\ \A q \in ota.partitions : Img(q) \in DOMAIN sg.out
      /\ ~is4k => ota.incremental
  BY DEF RegenerateBootOTA
<1>4. r.images = OtaImages(ota, is4k)
  <2> HIDE DEF r, ota, is4k
  <2> QED BY <1>1, <1>3
<1>5. p \in ota.partitions
  BY <1>4 DEF OtaImages
<1> DEFINE signed == Get(sg.out, Img(p))
           big == Get(t, Big(p))
<1>6. r.images[p] = IF ~ota.incremental \/ big = None THEN <<signed>> ELSE IF is4k THEN <<big, signed>> ELSE <<signed, big>>
  <2> HIDE DEF r, ota, is4k
  <2> QED BY <1>4, <1>5 DEF OtaImages, Big
<1>7. signed = sg.out[Img(p)]
  BY <1>3, <1>5 DEF Get
<1>8. \A x, y : Last(<<x>>) = x /\ Last(<<x, y>>) = y /\ Head(<<x>>) = x /\ Head(<<x, y>>) = x
  BY DEF Last
<1> HIDE DEF signed, big, r, ota
<1>9. n = "boot_ota_4k" => Last(r.images[p]) = signed
  BY <1>1, <1>6, <1>8
<1>10. n = "boot_ota_16k" => Head(r.images[p]) = signed /\ big \in {None, Last(r.images[p])}
  BY <1>1, <1>3, <1>6, <1>8
<1> QED BY <1>1, <1>3, <1>5, <1>7, <1>9, <1>10 DEF r, big

LEMMA Entered ==
  ASSUME WellPlaced(t), NEW n \in SignedFiles, NEW f \in ToSign(t, n), n = "otacerts" => ~so.replace_ota_keys
  PROVE  f \in DOMAIN t \ LeftOut
<1>1. f \in DOMAIN t /\ f[2] = n /\ f[1] \notin {"IMAGES", "OTA", "META", "SIGNED_PREBUILTS", "boot/avb"}
  BY DEF WellPlaced, ToSign
<1>2. f \notin RecoveryFiles /\ f # EmbeddedKey /\ f # <<"PREBUILT_IMAGES", "pvmfw">>
  BY <1>1 DEF RecoveryFiles, EmbeddedKey, SignedFiles, BootOtas
<1>3. \A m : f # Meta(m)
  BY <1>1 DEF Meta
<1>4. f[2] # "system_other_avbpubkey" /\ ~(f[2] = "otacerts" /\ so.replace_ota_keys)
  BY <1>1 DEF SignedFiles, BootOtas
<1>5. f \notin OtaImg
  BY <1>1 DEF OtaImg
<1> QED BY <1>1, <1>2, <1>3, <1>4, <1>5 DEF LeftOut

LEMMA EntryOf ==
  ASSUME NEW f
  PROVE  /\ f[2] = "apk" => NewEntry(f) = SignApks(f)
         /\ f[2] = "apex" => NewEntry(f) = SignApexes(f)
         /\ f[2] \in BootOtas => NewEntry(f) = RegenerateBootOTA(f)
         /\ f[2] = "mac_permissions" => NewEntry(f) = ReplaceCerts(t[f])
<1>1. f[2] \in {"apk", "apex", "boot_ota_4k", "boot_ota_16k", "mac_permissions"} =>
        ~Refused(f) /\ f # <<"PREBUILT_IMAGES", "pvmfw">>
  BY DEF Refused
<1> QED BY <1>1 DEF NewEntry, BootOtas

LEMMA KeepsEntries ==
  ASSUME job' = job, sg'.keyMap = sg.keyMap, sg'.apex = sg.apex, NEW o, o = sg'.out
  PROVE  /\ EntriesMade(o) => EntriesMade(sg.out)'
         /\ OutMade(o) => OutMade(sg.out)'
         /\ \A names : Present(o, names) => Present(sg.out, names)'
<1>1. EntriesMade(o) => EntriesMade(sg.out)'
  BY DEF EntriesMade, Present, ApksSigned, InnerApksSigned, SignersReplaced, OtasMade, OtasInstall, Replaced, VendorRebuilds, FilesNamed, KeyFor, NewKey, so
<1>2. \A names : Present(o, names) => Present(sg.out, names)'
  BY DEF Present, FilesNamed
<1>3. OtacertsReplaced(o) => OtacertsReplaced(sg.out)'
  BY DEF OtacertsReplaced, FilesNamed, so
<1> QED BY <1>1, <1>2, <1>3 DEF OutMade

LEMMA EntriesStep ==
  ASSUME job.kind = "sign", SignInv, ProcessTargetFiles
  PROVE  SignInv'
<1> DEFINE entries == [f \in DOMAIN t \ LeftOut |-> NewEntry(f)]
           pvmfw == <<"PREBUILT_IMAGES", "pvmfw">>
           embedded == IF pvmfw \in DOMAIN entries /\ PvmfwKey # None THEN EmbeddedKey <: PvmfwKey ELSE <<>>
           out == entries ++ embedded ++ sg.out
<1>0. /\ job \in Jobs /\ DOMAIN sg = SgFields /\ t = job.t /\ ~sg.nested /\ KeysLoaded /\ pc = "entries"
      /\ DOMAIN sg.out \subseteq BootImages
  BY DEF SignInv, ProcessTargetFiles, Early
<1>1. WellPlaced(t) /\ ApksListed(t) /\ BootOtasGiven(job)
  BY <1>0, SigningAssumption
<1>2. /\ job' = job /\ t' = t
      /\ \/ pc' = "failed" /\ sg' = sg
         \/ /\ None \notin Range(entries) /\ pc' = "ota_keys"
            /\ sg' = [sg EXCEPT !.out = out, !.rebuild_recovery = RecoveryFiles \intersect DOMAIN t # {}]
  BY DEF ProcessTargetFiles, imgVars
<1>3. DOMAIN entries = DOMAIN t \ LeftOut /\ \A f \in DOMAIN entries : entries[f] = NewEntry(f)
  OBVIOUS
<1>4. DOMAIN embedded \subseteq {EmbeddedKey}
  <2>1. DOMAIN <<>> = {}
    OBVIOUS
  <2>2. DOMAIN (EmbeddedKey <: PvmfwKey) = {EmbeddedKey}
    BY OneDomain
  <2> HIDE DEF entries
  <2> QED BY <2>1, <2>2
<1> HIDE DEF entries, embedded
<1>5. \A f \in DOMAIN entries : f \in DOMAIN out /\ out[f] = NewEntry(f)
  BY <1>3 DEF ++
<1>6. \A f \in BootImages : f \in DOMAIN sg.out => f \in DOMAIN out /\ out[f] = sg.out[f]
  <2>1. \A f \in BootImages : f \notin DOMAIN entries
    BY <1>3 DEF BootImages, Img, LeftOut
  <2>2. \A f \in BootImages : f \notin DOMAIN embedded
    BY <1>4 DEF BootImages, Img, EmbeddedKey
  <2> QED BY <2>1, <2>2 DEF ++
<1> HIDE DEF out
<1>7. CASE pc' = "failed" /\ sg' = sg
  BY <1>0, <1>2, <1>7 DEF SignInv, Early, Late, AddPcs
<1>8. CASE /\ None \notin Range(entries) /\ pc' = "ota_keys"
           /\ sg' = [sg EXCEPT !.out = out, !.rebuild_recovery = RecoveryFiles \intersect DOMAIN t # {}]
  <2>1. \A f \in DOMAIN entries : NewEntry(f) # None
    BY <1>3, <1>8 DEF Range
  <2>2. \A n \in SignedFiles : \A f \in FilesNamed(n) : (n = "otacerts" => ~so.replace_ota_keys) => f \in DOMAIN entries /\ f[2] = n
    BY <1>0, <1>1, <1>3, Entered DEF FilesNamed, ToSign
  <2>3. Present(out, SignedFiles \ {"otacerts"}) /\ (~so.replace_ota_keys => Present(out, {"otacerts"}))
    BY <1>5, <2>2 DEF Present, SignedFiles, BootOtas
  <2>4. \A n \in {"apk", "apex", "mac_permissions"} \union BootOtas : \A f \in FilesNamed(n) :
          out[f] = NewEntry(f) /\ NewEntry(f) # None /\ f[2] = n
    BY <1>5, <2>1, <2>2 DEF SignedFiles, BootOtas
  <2>5. ApksSigned(out)
    <3> SUFFICES ASSUME NEW f \in FilesNamed("apk"), f[1] \notin so.skip_apks_with_path_prefix, NEW n \in DOMAIN job.t[f], ~Special(KeyFor(n))
                 PROVE  out[f][n].sig = NewKey(KeyFor(n))
      BY DEF ApksSigned
    <3>1. out[f] = SignApks(f) /\ SignApks(f) # None
      BY <2>4, EntryOf
    <3> QED BY <1>0, <1>1, <3>1, ApkEntry
  <2>6. InnerApksSigned(out)
    <3> SUFFICES ASSUME NEW f \in FilesNamed("apex"), NEW a \in DOMAIN job.t[f], NEW n \in DOMAIN job.t[f][a].apks,
                        ~Special(KeyFor(n)), ~Special(sg.apex[a].payload)
                 PROVE  out[f][a].apks[n].sig = NewKey(KeyFor(n))
      BY DEF InnerApksSigned
    <3>1. out[f] = SignApexes(f) /\ SignApexes(f) # None
      BY <2>4, EntryOf
    <3> QED BY <1>0, <1>1, <3>1, ApexEntry
  <2>7. SignersReplaced(out)
    <3> SUFFICES ASSUME NEW f \in FilesNamed("mac_permissions"), NEW n \in DOMAIN job.t[f],
                        {job.t[f][n], NewKey(job.t[f][n])} \subseteq so.certs
                 PROVE  out[f][n] = NewKey(job.t[f][n])
      BY DEF SignersReplaced
    <3>1. out[f] = ReplaceCerts(job.t[f]) /\ ReplaceCerts(job.t[f]) # None
      BY <1>0, <2>4, EntryOf
    <3> QED BY <1>0, <3>1, SignersEntry
  <2>8. OtasMade(out)
    <3>1. ASSUME NEW n \in BootOtas, NEW f \in FilesNamed(n), NEW p \in DOMAIN out[f].images
          PROVE  /\ p \in {"boot", "dtbo"} /\ Img(p) \in DOMAIN out
                 /\ n = "boot_ota_4k" => Last(out[f].images[p]) = out[Img(p)]
                 /\ n = "boot_ota_16k" => Head(out[f].images[p]) = out[Img(p)] /\ Get(job.t, Big(p)) \in {None, Last(out[f].images[p])}
      <4>1. out[f] = RegenerateBootOTA(f) /\ RegenerateBootOTA(f) # None
        BY <2>4, <3>1, EntryOf
      <4>2. /\ p \in {"boot", "dtbo"} /\ Img(p) \in DOMAIN sg.out
            /\ n = "boot_ota_4k" => Last(out[f].images[p]) = sg.out[Img(p)]
            /\ n = "boot_ota_16k" => Head(out[f].images[p]) = sg.out[Img(p)] /\ Get(job.t, Big(p)) \in {None, Last(out[f].images[p])}
        BY <1>0, <1>1, <3>1, <4>1, OtaEntry
      <4>3. Img(p) \in BootImages
        BY <4>2 DEF BootImages
      <4> QED BY <1>6, <4>2, <4>3
    <3> QED BY <3>1 DEF OtasMade, OtasInstall, BootOtas
  <2>9. EntriesMade(out)
    BY <2>3, <2>5, <2>6, <2>7, <2>8 DEF EntriesMade
  <2>10. /\ DOMAIN sg' = SgFields /\ sg'.keyMap = sg.keyMap /\ sg'.apk = sg.apk /\ sg'.apex = sg.apex /\ sg'.ext = sg.ext
         /\ sg'.nested = sg.nested /\ sg'.out = out /\ sg'.rebuild_recovery = (RecoveryFiles \intersect DOMAIN t # {})
    BY <1>0, <1>8 DEF SgFields
  <2>11. EntriesMade(sg.out)' /\ ((~so.replace_ota_keys)' => Present(sg.out, {"otacerts"})')
    BY <1>2, <2>3, <2>9, <2>10, KeepsEntries DEF so
  <2>12. KeysLoaded'
    BY <1>0, <1>2, <2>10, KeepsKeys
  <2>13. pc' = "ota_keys"
    BY <1>8
  <2> QED BY <1>0, <1>2, <2>10, <2>11, <2>12, <2>13 DEF SignInv, Early, Late, AddPcs
<1> QED BY <1>2, <1>7, <1>8

-----------------------------------------------------------------------------
(* From the entries to the finished package.                                 *)

LEMMA MappedOnce ==
  ASSUME ReplacedOnce(sg.keyMap), NEW keys
  PROVE  MappedKeys(keys) \intersect DOMAIN sg.keyMap = {}
BY DEF ReplacedOnce, MappedKeys, Mapped

LEMMA NoOldCerts ==
  ASSUME ReplacedOnce(sg.keyMap), NEW dir
  PROVE  WriteOtacerts(dir) \intersect DOMAIN sg.keyMap = {}
<1>1. \A k : Mapped(sg.keyMap, k) \notin DOMAIN sg.keyMap
  BY DEF ReplacedOnce, Mapped
<1>2. OtaKeys \intersect DOMAIN sg.keyMap = {}
  BY <1>1, MappedOnce DEF OtaKeys
<1>3. \A name : ExtraKeys(name) \intersect DOMAIN sg.keyMap = {}
  BY MappedOnce DEF ExtraKeys
<1> QED BY <1>2, <1>3 DEF WriteOtacerts

(* A package with the same signed files is as well signed.                  *)
LEMMA SameEntries ==
  ASSUME NEW out, NEW pkg, EntriesMade(out),
         \A n \in SignedFiles \ {"otacerts"} : \A f \in FilesNamed(n) : f \in DOMAIN pkg /\ pkg[f] = out[f],
         \A f \in KeptBoots : f \in DOMAIN out => f \in DOMAIN pkg /\ pkg[f] = out[f]
  PROVE  EntriesMade(pkg)
<1>1. Present(pkg, SignedFiles \ {"otacerts"})
  BY DEF Present
<1>2. \A f \in FilesNamed("apk") \union FilesNamed("apex") \union FilesNamed("mac_permissions") : pkg[f] = out[f]
  BY DEF SignedFiles
<1>3. ApksSigned(pkg) /\ InnerApksSigned(pkg) /\ SignersReplaced(pkg)
  BY <1>2 DEF EntriesMade, ApksSigned, InnerApksSigned, SignersReplaced
<1>4. OtasMade(pkg)
  <2>1. \A n \in BootOtas : \A f \in FilesNamed(n) : pkg[f] = out[f]
    BY DEF SignedFiles, BootOtas
  <2>2. \A p \in {"boot", "dtbo"} : ~Replaced(p) => Img(p) \in KeptBoots
    BY DEF KeptBoots, BootImages, Img, Replaced
  <2>3. OtasMade(out)
    BY DEF EntriesMade
  <2>4. \A n \in BootOtas : \A f \in FilesNamed(n) : \A p \in DOMAIN pkg[f].images :
          /\ p \in {"boot", "dtbo"} /\ p \in DOMAIN out[f].images
          /\ Replaced(p) \/ (Img(p) \in DOMAIN pkg /\ pkg[Img(p)] = out[Img(p)])
    BY <2>1, <2>2, <2>3 DEF OtasMade
  <2> QED BY <2>1, <2>3, <2>4 DEF OtasMade, OtasInstall, BootOtas
<1> QED BY <1>1, <1>3, <1>4 DEF EntriesMade

LEMMA OtaKeysStep ==
  ASSUME job.kind = "sign", SignInv, ReplaceOtaKeys
  PROVE  SignInv'
<1> DEFINE certs == IF so.replace_ota_keys THEN [f \in {g \in DOMAIN t : g[2] = "otacerts"} |-> WriteOtacerts(f[1])] ELSE <<>>
<1>0. /\ job \in Jobs /\ DOMAIN sg = SgFields /\ t = job.t /\ ~sg.nested /\ KeysLoaded /\ pc = "ota_keys"
      /\ EntriesMade(sg.out) /\ (~so.replace_ota_keys => Present(sg.out, {"otacerts"}))
      /\ sg.rebuild_recovery = (RecoveryFiles \intersect DOMAIN job.t # {})
  BY DEF SignInv, ReplaceOtaKeys, Early
<1>1. WellPlaced(t)
  BY <1>0, SigningAssumption
<1>2. /\ job' = job /\ t' = t
      /\ \/ pc' = "failed" /\ sg' = sg
         \/ pc' = "vendor" /\ \E m : sg' = [sg EXCEPT !.out = (Meta("misc_info") <: m) ++ certs ++ sg.out]
  BY DEF ReplaceOtaKeys, imgVars
<1>3. CASE pc' = "failed" /\ sg' = sg
  BY <1>0, <1>2, <1>3 DEF SignInv, Early, Late, AddPcs
<1>4. ASSUME NEW m, pc' = "vendor", sg' = [sg EXCEPT !.out = (Meta("misc_info") <: m) ++ certs ++ sg.out]
      PROVE  SignInv'
  <2> DEFINE one == Meta("misc_info") <: m
             out == one ++ certs ++ sg.out
  <2>1. DOMAIN one = {Meta("misc_info")}
    BY OneDomain
  <2>2. /\ so.replace_ota_keys => /\ DOMAIN certs = FilesNamed("otacerts")
                                  /\ \A f \in DOMAIN certs : certs[f] = WriteOtacerts(f[1])
        /\ ~so.replace_ota_keys => DOMAIN certs = {}
    <3>1. DOMAIN <<>> = {}
      OBVIOUS
    <3> QED BY <1>0, <3>1 DEF FilesNamed, ToSign
  <2>3. \A f \in DOMAIN certs : f[2] = "otacerts"
    BY <2>2 DEF FilesNamed, ToSign
  <2> HIDE DEF one, certs
  <2>4. \A f \in DOMAIN sg.out : f \notin DOMAIN one /\ f \notin DOMAIN certs => f \in DOMAIN out /\ out[f] = sg.out[f]
    BY DEF ++
  <2>5. \A f \in DOMAIN certs : f \notin DOMAIN one => f \in DOMAIN out /\ out[f] = certs[f]
    BY DEF ++
  <2> HIDE DEF out
  <2>6. \A n \in SignedFiles : \A f \in FilesNamed(n) : f[2] = n /\ f \notin DOMAIN one
    BY <1>0, <1>1, <2>1 DEF WellPlaced, FilesNamed, ToSign, Meta
  <2>7. \A n \in SignedFiles \ {"otacerts"} : \A f \in FilesNamed(n) : f \in DOMAIN out /\ out[f] = sg.out[f]
    BY <1>0, <2>3, <2>4, <2>6 DEF EntriesMade, Present
  <2>8. \A f \in BootImages : f \in DOMAIN sg.out => f \in DOMAIN out /\ out[f] = sg.out[f]
    <3>1. \A f \in BootImages : f[2] # "otacerts" /\ f # Meta("misc_info")
      BY DEF BootImages, Img, Meta
    <3> QED BY <2>1, <2>3, <2>4, <3>1
  <2>9. EntriesMade(out)
    BY <1>0, <2>7, <2>8, SameEntries DEF KeptBoots
  <2>10. Present(out, {"otacerts"}) /\ OtacertsReplaced(out)
    <3>1. CASE so.replace_ota_keys
      <4>1. \A f \in FilesNamed("otacerts") : f \in DOMAIN out /\ out[f] = WriteOtacerts(f[1])
        BY <2>2, <2>5, <2>6, <3>1 DEF SignedFiles
      <4> QED BY <1>0, <4>1, NoOldCerts DEF Present, OtacertsReplaced, KeysLoaded
    <3>2. CASE ~so.replace_ota_keys
      BY <1>0, <2>2, <2>4, <2>6, <3>2 DEF Present, OtacertsReplaced, SignedFiles
    <3> QED BY <3>1, <3>2
  <2>11. /\ DOMAIN sg' = SgFields /\ sg'.keyMap = sg.keyMap /\ sg'.apk = sg.apk /\ sg'.apex = sg.apex /\ sg'.ext = sg.ext
         /\ sg'.nested = sg.nested /\ sg'.out = out /\ sg'.rebuild_recovery = sg.rebuild_recovery
    BY <1>0, <1>4 DEF SgFields, out, one
  <2>12. OutMade(sg.out)'
    BY <1>2, <2>9, <2>10, <2>11, KeepsEntries DEF OutMade
  <2>13. KeysLoaded'
    BY <1>0, <1>2, <2>11, KeepsKeys
  <2> QED BY <1>0, <1>2, <1>4, <2>11, <2>12, <2>13 DEF SignInv, Early, Late, AddPcs
<1> QED BY <1>2, <1>3, <1>4

(* The three ways on: with the vendor's tools, back from them, without.      *)
LEMMA StartStep ==
  ASSUME job.kind = "sign", SignInv, BuildVendorPartitions \/ TakeVendorImages \/ AddMissingImages \/ SignDone
  PROVE  SignInv'
<1> DEFINE b == KeptBoots
<1>0. /\ job \in Jobs /\ DOMAIN sg = SgFields /\ pc \in {"vendor", "added"} /\ KeysLoaded /\ OutMade(sg.out)
      /\ sg.rebuild_recovery = (RecoveryFiles \intersect DOMAIN job.t # {})
      /\ (sg.nested => so.vendor_partitions # {} /\ so.vendor_tools) /\ (pc = "vendor" => ~sg.nested)
      /\ (pc = "added" => sg.nested \/ AgreeBoth(sg.out, b))
  BY DEF SignInv, BuildVendorPartitions, TakeVendorImages, AddMissingImages, SignDone, Late, AddPcs
<1>1. job' = job /\ b' = b
  BY DEF BuildVendorPartitions, TakeVendorImages, AddMissingImages, SignDone, KeptBoots, VendorRebuilds, so
<1>2. ASSUME /\ DOMAIN sg' = SgFields /\ sg'.keyMap = sg.keyMap /\ sg'.apk = sg.apk /\ sg'.apex = sg.apex /\ sg'.ext = sg.ext
             /\ sg'.out = sg.out /\ sg'.rebuild_recovery = sg.rebuild_recovery
             /\ pc' \in {"add_images", "signed", "failed"}
             /\ sg'.nested => so.vendor_partitions # {} /\ so.vendor_tools
             /\ pc' = "signed" => ~sg'.nested
             /\ pc' # "failed" => sg'.nested \/ AgreeBoth(sg.out, b)'
      PROVE  SignInv'
  <2>1. OutMade(sg.out)' /\ KeysLoaded'
    BY <1>0, <1>1, <1>2, KeepsEntries, KeepsKeys
  <2>2. so' = so
    BY <1>1 DEF so
  <2> QED BY <1>0, <1>1, <1>2, <2>1, <2>2 DEF SignInv, Early, Late, AddPcs
<1>3. Agrees(sg.out, sg.out, b)
  BY DEF Agrees
<1>b. b \in SUBSET BootImages
  BY DEF KeptBoots
<1>4. CASE BuildVendorPartitions
  <2>1. sg' = [sg EXCEPT !.nested = TRUE] /\ pc' = "add_images" /\ so.vendor_partitions # {} /\ so.vendor_tools
    BY <1>4 DEF BuildVendorPartitions, StartAddImages
  <2>2. /\ DOMAIN sg' = SgFields /\ sg'.keyMap = sg.keyMap /\ sg'.apk = sg.apk /\ sg'.apex = sg.apex /\ sg'.ext = sg.ext
        /\ sg'.out = sg.out /\ sg'.rebuild_recovery = sg.rebuild_recovery /\ sg'.nested = TRUE
    BY <1>0, <2>1 DEF SgFields
  <2> QED BY <1>2, <2>1, <2>2
<1>5. CASE TakeVendorImages
  <2> DEFINE wanted == {Img(p) : p \in VendorPartitions}
                       \union (IF sg.rebuild_recovery THEN {Img("recovery"), Img("boot"), <<"vendor", "recovery_patch">>} ELSE {})
  <2>1. CASE pc' = "failed"
    <3>1. sg' = sg
      BY <1>5, <2>1 DEF TakeVendorImages, StartAddImages
    <3> QED BY <1>0, <1>2, <2>1, <3>1
  <2>2. CASE pc' # "failed"
    <3>1. /\ t' = Restrict(t, wanted) ++ sg.out /\ sg' = [sg EXCEPT !.nested = FALSE]
          /\ pc' = "add_images" /\ zip' = None /\ sg.nested
      BY <1>5, <2>2 DEF TakeVendorImages, StartAddImages
    <3>2. DOMAIN Restrict(t, wanted) = wanted
      BY DEF Restrict
    <3>3. \A f \in wanted : ~Kept(f, b)
      <4>1. \A p \in VendorPartitions : p \notin {"boot", "dtbo"}
        BY DEF VendorPartitions
      <4>2. sg.rebuild_recovery => Img("boot") \notin b
        BY <1>0, <3>1 DEF KeptBoots, VendorRebuilds
      <4>3. "recovery" \notin {"boot", "dtbo"}
        OBVIOUS
      <4> HIDE DEF b
      <4> QED BY <1>b, <4>1, <4>2, <4>3, Paths
    <3> HIDE DEF wanted
    <3>4. Spares(Restrict(t, wanted), sg.out, b)
      BY <3>2, <3>3 DEF Spares
    <3>5. Agrees(Restrict(t, wanted) ++ sg.out, sg.out, b)
      BY <1>b, <1>3, <3>4, AgreesSpared
    <3>6. /\ DOMAIN sg' = SgFields /\ sg'.keyMap = sg.keyMap /\ sg'.apk = sg.apk /\ sg'.apex = sg.apex /\ sg'.ext = sg.ext
          /\ sg'.out = sg.out /\ sg'.rebuild_recovery = sg.rebuild_recovery /\ sg'.nested = FALSE
      BY <1>0, <3>1 DEF SgFields
    <3>7. AgreeBoth(sg.out, b)'
      BY <1>1, <3>1, <3>5, <3>6 DEF AgreeBoth
    <3> QED BY <1>2, <3>1, <3>6, <3>7
  <2> QED BY <2>1, <2>2
<1>6. CASE AddMissingImages
  <2>1. sg' = sg /\ t' = sg.out /\ zip' = None /\ pc' = "add_images" /\ pc = "vendor"
    BY <1>6 DEF AddMissingImages, StartAddImages
  <2>2. AgreeBoth(sg.out, b)'
    BY <1>1, <1>3, <2>1 DEF AgreeBoth
  <2> QED BY <1>0, <1>2, <2>1, <2>2
<1>7. CASE SignDone
  <2>1. sg' = sg /\ t' = t /\ zip' = zip /\ pc' = "signed" /\ pc = "added" /\ ~sg.nested
    BY <1>7 DEF SignDone, imgVars
  <2>2. AgreeBoth(sg.out, b)'
    BY <1>0, <1>1, <2>1 DEF AgreeBoth
  <2> QED BY <1>0, <1>2, <2>1, <2>2
<1> QED BY <1>4, <1>5, <1>6, <1>7

-----------------------------------------------------------------------------
(* Only sign_target_files_apks finishes a signed package.                    *)
OnlySigned == pc = "signed" => job.kind = "sign"

LEMMA InitSign == Init => SignInv /\ OnlySigned
<1> SUFFICES ASSUME Init PROVE SignInv /\ OnlySigned
  OBVIOUS
<1>1. job \in Jobs /\ job.kind \in {"image", "merge", "sign", "ota"}
  BY KindsAssumption DEF Init
<1>2. pc # "signed"
  BY <1>1 DEF Init, InitialStep
<1>3. ASSUME job.kind = "sign" PROVE SignInv
  <2>1. pc = "sign_options" /\ t = job.t
    BY <1>3 DEF Init, InitialStep
  <2>2. DOMAIN sg = SgFields /\ sg.nested = FALSE
    BY DEF Init, SignInit, SgFields
  <2> QED BY <1>1, <2>1, <2>2 DEF SignInv, Early, Late, AddPcs
<1> QED BY <1>2, <1>3 DEF SignInv, OnlySigned

LEMMA SameJob ==
  ASSUME Next
  PROVE  job' = job
<1>1. AddImages => job' = job
  BY AddSteps
<1>2. Merge => job' = job
  BY DEF Merge, ParseMergeOptions, CreateMergedPackage, MergeMetaFiles, MergeDexopt, CheckCompatibility,
         RebuildImageWithSepolicy, TakeRebuiltImage, GenerateSuperEmptyImage, CreateTargetFilesArchive
<1>3. Sign => job' = job
  BY DEF Sign, LoadKeys, GetKeyPasswords, UpdatePasswords, RefusePasswords, ReplaceKeys, RegenerateKernelPartitions,
         ProcessTargetFiles, ReplaceOtaKeys, BuildVendorPartitions, TakeVendorImages, AddMissingImages, SignDone
<1> QED BY <1>1, <1>2, <1>3 DEF Next, vars

\* No step of merge_target_files is one of a job that signs.
MergePcs == {"merge_options", "collect", "meta", "dexopt", "compatibility", "sepolicy", "outputs"}
LEMMA MergeSteps ==
  ASSUME Merge
  PROVE  (pc \in MergePcs \/ job.kind = "merge") /\ pc' # "signed"
<1>1. CASE ParseMergeOptions
  BY <1>1 DEF ParseMergeOptions, MergePcs
<1>2. CASE CreateMergedPackage
  BY <1>2 DEF CreateMergedPackage, MergePcs
<1>3. CASE MergeMetaFiles
  BY <1>3 DEF MergeMetaFiles, MergePcs
<1>4. CASE MergeDexopt
  BY <1>4 DEF MergeDexopt, MergePcs
<1>5. CASE CheckCompatibility
  BY <1>5 DEF CheckCompatibility, MergePcs
<1>6. CASE RebuildImageWithSepolicy
  BY <1>6 DEF RebuildImageWithSepolicy, StartAddImages, MergePcs
<1>7. CASE TakeRebuiltImage
  BY <1>7 DEF TakeRebuiltImage, StartAddImages
<1>8. CASE GenerateSuperEmptyImage
  BY <1>8 DEF GenerateSuperEmptyImage
<1>9. CASE CreateTargetFilesArchive
  BY <1>9 DEF CreateTargetFilesArchive, MergePcs
<1> QED BY <1>1, <1>2, <1>3, <1>4, <1>5, <1>6, <1>7, <1>8, <1>9 DEF Merge

LEMMA SignSteps ==
  ASSUME Sign, pc' = "signed"
  PROVE  SignDone
BY DEF Sign, LoadKeys, GetKeyPasswords, UpdatePasswords, RefusePasswords, ReplaceKeys, RegenerateKernelPartitions,
       ProcessTargetFiles, ReplaceOtaKeys, BuildVendorPartitions, TakeVendorImages, AddMissingImages, StartAddImages

\* While add_img_to_target_files runs, what signing knows stays.
LEMMA AddStep ==
  ASSUME job.kind = "sign", SignInv, AddImages, sg' = sg
  PROVE  SignInv'
<1> DEFINE b == KeptBoots
<1>0. /\ job \in Jobs /\ DOMAIN sg = SgFields /\ KeysLoaded /\ OutMade(sg.out)
      /\ sg.rebuild_recovery = (RecoveryFiles \intersect DOMAIN job.t # {})
      /\ (sg.nested => so.vendor_partitions # {} /\ so.vendor_tools) /\ (sg.nested \/ AgreeBoth(sg.out, b))
  BY AddSteps DEF SignInv, Late
<1>1. job' = job /\ b' = b /\ so' = so /\ pc' \in AddPcs \union {"failed", "exit"}
  BY AddSteps DEF KeptBoots, VendorRebuilds, so
<1>2. OutMade(sg.out)' /\ KeysLoaded'
  BY <1>0, <1>1, KeepsEntries, KeepsKeys
<1>3. sg.nested \/ AgreeBoth(sg.out, b)'
  <2>1. b \in SUBSET BootImages
    BY DEF KeptBoots
  <2>2. ASSUME NEW out, out = sg.out, AgreeBoth(out, b) PROVE AgreeBoth(sg.out, b)'
    <3>1. Agrees(t', out, b) /\ (zip' = None \/ Agrees(zip', out, b))
      BY <2>1, <2>2, AddFrame DEF AgreeBoth
    <3> QED BY <1>1, <2>2, <3>1 DEF AgreeBoth
  <2> QED BY <1>0, <2>2
<1> QED BY <1>0, <1>1, <1>2, <1>3 DEF SignInv, Early, Late, AddPcs

LEMMA NextSign == SignInv /\ OnlySigned /\ [Next]_vars => SignInv' /\ OnlySigned'
<1> SUFFICES ASSUME SignInv, OnlySigned, [Next]_vars PROVE SignInv' /\ OnlySigned'
  OBVIOUS
<1>1. ASSUME job' = job, pc' = pc, t' = t, zip' = zip, sg' = sg PROVE SignInv' /\ OnlySigned'
  <2>1. OnlySigned'
    BY <1>1 DEF OnlySigned
  <2>2. ASSUME job.kind = "sign" PROVE SignInv'
    <3>1. so' = so /\ KeptBoots' = KeptBoots
      BY <1>1 DEF so, KeptBoots, VendorRebuilds
    <3>2. (KeysLoaded => KeysLoaded') /\ (EntriesMade(sg.out) => EntriesMade(sg.out)') /\ (OutMade(sg.out) => OutMade(sg.out)')
          /\ (Present(sg.out, {"otacerts"}) => Present(sg.out, {"otacerts"})')
      BY <1>1, KeepsEntries, KeepsKeys DEF Present, FilesNamed
    <3>3. AgreeBoth(sg.out, KeptBoots) => AgreeBoth(sg.out, KeptBoots)'
      BY <1>1, <3>1 DEF AgreeBoth
    <3> QED BY <1>1, <2>2, <3>1, <3>2, <3>3 DEF SignInv
  <2> QED BY <1>1, <2>1, <2>2 DEF SignInv
<1>2. CASE UNCHANGED vars
  BY <1>1, <1>2 DEF vars, imgVars
<1>3. CASE MergeOtas /\ UNCHANGED <<job, pc, imgVars, mg, sg>>
  BY <1>1, <1>3 DEF imgVars
<1>4. CASE AddImages /\ UNCHANGED <<mg, sg, otaVars>>
  <2>1. pc' # "signed" /\ job' = job
    BY <1>4, AddSteps DEF AddPcs
  <2> QED BY <1>4, <2>1, AddStep DEF SignInv, OnlySigned
<1>5. CASE Merge /\ UNCHANGED <<sg, otaVars>>
  <2>1. pc' # "signed" /\ job' = job /\ (pc \in MergePcs \/ job.kind = "merge")
    BY <1>5, MergeSteps, SameJob DEF Next
  <2>2. job.kind # "sign"
    BY <2>1 DEF SignInv, MergePcs, Early, Late, AddPcs
  <2> QED BY <2>1, <2>2 DEF SignInv, OnlySigned
<1>6. CASE Sign /\ UNCHANGED <<mg, otaVars>>
  <2>1. job' = job
    BY <1>6, SameJob DEF Next
  <2>2. OnlySigned'
    BY <1>6, <2>1, SignSteps DEF OnlySigned, SignDone
  <2>3. CASE job.kind # "sign"
    BY <2>1, <2>2, <2>3 DEF SignInv
  <2>4. CASE job.kind = "sign"
    BY <1>6, <2>2, <2>4, LoadsKeys, SmallSteps, KernelStep, EntriesStep, OtaKeysStep, StartStep DEF Sign
  <2> QED BY <2>3, <2>4
<1> QED BY <1>2, <1>3, <1>4, <1>5, <1>6 DEF Next

(* The finished package has the signed entries.                              *)
LEMMA FinishedSigned ==
  ASSUME SignInv, OnlySigned, pc = "signed"
  PROVE  OutMade(Package)
<1> DEFINE b == KeptBoots
<1>0. job.kind = "sign"
  BY DEF OnlySigned
<1>1. job \in Jobs /\ OutMade(sg.out) /\ Agrees(Package, sg.out, b)
  BY <1>0 DEF SignInv, Late, AgreeBoth, Package
<1>2. WellPlaced(job.t) /\ BootOtasGiven(job)
  BY <1>0, <1>1, SigningAssumption
<1>3. \A n \in SignedFiles : \A f \in FilesNamed(n) : Kept(f, b)
  BY <1>2 DEF WellPlaced, FilesNamed, ToSign, Kept, Touched, WrittenLists, Meta, SignedFiles, BootOtas
<1>4. \A f \in b : Kept(f, b)
  BY DEF Kept
<1> HIDE DEF b
<1>5. \A n \in SignedFiles : \A f \in FilesNamed(n) : f \in DOMAIN Package /\ Package[f] = sg.out[f]
  BY <1>1, <1>3 DEF OutMade, EntriesMade, Present, Agrees
<1>6. EntriesMade(Package)
  <2>1. \A f \in KeptBoots : f \in DOMAIN sg.out => f \in DOMAIN Package /\ Package[f] = sg.out[f]
    BY <1>1, <1>4 DEF Agrees, b
  <2> QED BY <1>1, <1>5, <2>1, SameEntries DEF OutMade
<1>7. Present(Package, {"otacerts"}) /\ OtacertsReplaced(Package)
  BY <1>1, <1>5 DEF OutMade, Present, OtacertsReplaced, SignedFiles
<1> QED BY <1>6, <1>7 DEF OutMade

(* Every APK of a package sign_target_files_apks finishes, those in APEXes  *)
(* too, is signed with the key its old one is mapped to or the one given    *)
(* for it, mac_permissions and otacerts follow the same mapping, whatever   *)
(* add_img_to_target_files, once or twice, did to the package afterwards.   *)
THEOREM KeysAreMapped == Spec => []SignedWithMappedKeys
<1>1. SignInv /\ OnlySigned => SignedWithMappedKeys
  BY FinishedSigned DEF SignedWithMappedKeys, OutMade, EntriesMade
<1> QED BY <1>1, InitSign, NextSign, PTL DEF Spec

(* The boot OTAs of a finished package, those to 4k and those to 16k pages, *)
(* were made from the boot and dtbo images that are in it: the ones made    *)
(* before the entries were signed are those add_img_to_target_files leaves  *)
(* in the package.  For boot this does not hold when vendor partitions are  *)
(* built by the vendor's tools in a package that has a recovery patch: the  *)
(* image they make replaces it.                                             *)
THEOREM BootOtasFit == Spec => []BootOtasInstallImages
<1>1. SignInv /\ OnlySigned => BootOtasInstallImages
  BY FinishedSigned DEF BootOtasInstallImages, OutMade, EntriesMade, OtasMade
<1> QED BY <1>1, InitSign, NextSign, PTL DEF Spec

-----------------------------------------------------------------------------
(* merge_target_files.                                                       *)

VendorOnly == Partitions \ FrameworkPartitions
Fc(p) == FcSource(Owner(p), FcName(p))

(* The contexts an image of p may be made with: those of the build p comes  *)
(* from and, where the dictionary of the framework package names some for p, *)
(* the framework's.                                                          *)
FwFc == FcSource(job.fw, "framework_file_contexts")
Fcs(p) == {Fc(p)} \union (IF FcKey(p) \in DOMAIN FwMeta("misc_info") THEN {FwFc} ELSE {})

(* What is said of a package: its files and the keys of its packages are    *)
(* those of the builds; it has directories only of partitions of which the  *)
(* build has one; the images and the contexts the dictionary names for them *)
(* are right, for the partitions of S.                                       *)
FilesOwned(tree) == \A f \in DOMAIN tree : f[1] \in Partitions /\ f[2] \notin Added => f \in DOMAIN Owner(f[1]) /\ tree[f] = Owner(f[1])[f]
KeysOwned(tree) ==
  \A n \in {"apkcerts", "apexkeys"} :
    /\ Meta(n) \in DOMAIN tree
    /\ \A a \in DOMAIN tree[Meta(n)] :
         LET entry == tree[Meta(n)][a]
         IN a \in DOMAIN Owner(entry.partition)[Meta(n)] /\ Owner(entry.partition)[Meta(n)][a] = entry
DirsOwned(tree, S) == \A p \in S : IsDir(tree, p) => IsDir(Owner(p), p)
ImagesOwned(tree, S) == \A p \in S : Img(p) \in DOMAIN tree /\ tree[Img(p)].type = "fs" => tree[Img(p)].fc \in Fcs(p)
BlobsOnly(tree) == \A f \in DOMAIN tree : f[1] \in {"BOOTABLE_IMAGES", "RADIO"} => tree[f].type # "fs"
DictNames(tree, S) ==
  /\ Meta("misc_info") \in DOMAIN tree
  /\ \A p \in S : IsDir(Owner(p), p) =>
       LET misc == tree[Meta("misc_info")]
       IN /\ FcKey(p) \in DOMAIN misc /\ misc[FcKey(p)] \in ContextFiles
          /\ Meta(misc[FcKey(p)]) \in DOMAIN tree /\ tree[Meta(misc[FcKey(p)])] \in Fcs(p)
InfoNames(S) == \A p \in S : IsDir(Owner(p), p) => FcKey(p) \in DOMAIN info /\ info[FcKey(p)] \in Fcs(p)

Collected(tree) == FilesOwned(tree) /\ DirsOwned(tree, Partitions) /\ ImagesOwned(tree, Partitions) /\ BlobsOnly(tree)
Whole(tree) == Collected(tree) /\ KeysOwned(tree) /\ DictNames(tree, Partitions)
PartOfIt(tree, S) == DirsOwned(tree, S) /\ ImagesOwned(tree, S) /\ BlobsOnly(tree) /\ DictNames(tree, S)

\* The partitions that count in the package that add_img_to_target_files is given.
Counted == IF mg.nested THEN VendorOnly ELSE Partitions
ThreadsOwned ==
  /\ DOMAIN th = Partitions
  /\ \A p \in Partitions :
       th[p] \in {"ready", "walk", "stamp", "build"} => IsDir(t, p) \/ (th[p] = "ready" /\ Img(p) \in DOMAIN t)

ListsRead ==
  /\ Tidy(mg.fw, TRUE) /\ Tidy(mg.vn, FALSE)
  /\ \A p \in mg.fwSet : p \in FrameworkPartitions
  /\ \A p \in mg.vnSet : p \notin FrameworkPartitions

MgFields == {"fw", "vn", "keys", "fwSet", "vnSet", "aside", "nested", "super_empty", "dir", "archive"}
MergeInv ==
  job.kind = "merge" =>
    /\ job \in Jobs /\ DOMAIN mg = MgFields /\ opt.zip = FALSE /\ zip = None
    /\ pc \in MergePcs \union AddPcs \union {"merged", "failed", "exit"}
    /\ pc \notin AddPcs \union {"failed", "exit"} => ~mg.nested
    /\ pc \notin {"merge_options", "failed", "exit"} => ListsRead
    /\ pc = "meta" => Collected(t)
    /\ pc \in {"dexopt", "compatibility", "sepolicy", "outputs", "merged"} \union AddPcs => Whole(IF mg.nested THEN mg.aside ELSE t)
    /\ pc \in AddPcs => PartOfIt(t, Counted)
    /\ pc \in {"boot", "partitions"} => InfoNames(Counted)
    /\ pc = "partitions" => ThreadsOwned

\* Only merge_target_files takes its steps.
OnlyMerged == pc \in MergePcs \union {"merged"} => job.kind = "merge"

-----------------------------------------------------------------------------
(* What the steps of add_img_to_target_files add to a package.               *)
Fresh(f) ==
  \/ f[1] = "OTA" \/ f \in WrittenLists
  \/ \E q \in Partitions : f = <<q, "recovery_patch">> /\ pc = "partitions" /\ th[q] = "ready" /\ Img(q) \notin DOMAIN t
  \/ \E q \in Partitions : f = Img(q) /\ pc = "partitions" /\ th[q] = "build" /\ t'[f].fc = ImageProps(info, q).selinux_fc
  \/ f[1] = "IMAGES" /\ (f[2] \notin Partitions \/ t'[f].type # "fs")
Grew == DOMAIN t \subseteq DOMAIN t' /\ \A f \in DOMAIN t' : (f \in DOMAIN t /\ t'[f] = t[f]) \/ Fresh(f)

LEMMA GrewOver ==
  ASSUME NEW new, t' = new ++ t, \A f \in DOMAIN new : t'[f] = new[f] => Fresh(f)
  PROVE  Grew
BY DEF Grew, ++

LEMMA Unchanged ==
  ASSUME t' = t
  PROVE  Grew
BY DEF Grew

LEMMA PartitionNames ==
  /\ Partitions = {"system", "vendor", "product", "system_ext", "odm", "vendor_dlkm", "odm_dlkm", "system_dlkm", "system_other"}
  /\ VendorOnly = {"vendor", "odm", "vendor_dlkm", "odm_dlkm", "system_dlkm"}
<1>1. Partitions = {"system", "vendor", "product", "system_ext", "odm", "vendor_dlkm", "odm_dlkm", "system_dlkm", "system_other"}
  BY DEF Partitions, PartitionCalls, ToSet
<1> QED BY <1>1 DEF VendorOnly, FrameworkPartitions

LEMMA BootBlobs ==
  ASSUME BlobsOnly(t), NEW n \in DOMAIN Bootables, Bootables[n] # None, Img(n) \notin DOMAIN t
  PROVE  Bootables[n].type # "fs"
<1>1. \A from, p : Signed(from, p).type = "blob"
  BY DEF Signed
<1>2. ASSUME NEW dir, GetBootableImage(n, dir) # None PROVE GetBootableImage(n, dir).type # "fs"
  <2>1. CASE <<"BOOTABLE_IMAGES", n>> \in DOMAIN t
    <3>1. GetBootableImage(n, dir) = t[<<"BOOTABLE_IMAGES", n>>]
      BY <2>1 DEF GetBootableImage
    <3> QED BY <2>1, <3>1 DEF BlobsOnly
  <2>2. CASE <<"BOOTABLE_IMAGES", n>> \notin DOMAIN t
    <3>1. GetBootableImage(n, dir) = IF <<"PREBUILT_IMAGES", n>> \in DOMAIN t THEN Signed(<<t[<<"PREBUILT_IMAGES", n>>]>>, dir)
                                     ELSE BuildBootableImage(n, dir)
      BY <2>2 DEF GetBootableImage
    <3>2. BuildBootableImage(n, dir) # None => \E from : BuildBootableImage(n, dir) = Signed(from, dir)
      BY DEF BuildBootableImage
    <3>3. \E from : GetBootableImage(n, dir) = Signed(from, dir)
      BY <1>2, <3>1, <3>2
    <3>4. GetBootableImage(n, dir).type = "blob"
      BY <1>1, <3>3
    <3> QED BY <3>4
  <2> QED BY <2>1, <2>2
<1>3. GetVendorBootImage(n).type # "fs"
  BY <1>1 DEF GetVendorBootImage, BuildVendorBootImage
<1>4. (\E dir : Bootables[n] = GetBootableImage(n, dir)) \/ Bootables[n] = GetVendorBootImage(n)
  <2> DEFINE A == [m \in ToSet(BootNames) |-> GetBootableImage(m, "boot")]
             B == IF True(info, <<"init_boot">>) THEN "init_boot" <: GetBootableImage("init_boot", "init_boot") ELSE <<>>
             C == [m \in {l \in {"vendor_boot", "vendor_kernel_boot"} : True(info, <<l>>)} |-> GetVendorBootImage(m)]
             D == IF HasRecovery THEN "recovery" <: GetBootableImage("recovery", "recovery") ELSE <<>>
  <2>0. DOMAIN <<>> = {}
    OBVIOUS
  <2>1. n \in DOMAIN A => A[n] = GetBootableImage(n, "boot")
    OBVIOUS
  <2>2. n \in DOMAIN B => B[n] = GetBootableImage(n, "init_boot")
    BY <2>0 DEF <:
  <2>3. n \in DOMAIN C => C[n] = GetVendorBootImage(n)
    OBVIOUS
  <2>4. n \in DOMAIN D => D[n] = GetBootableImage(n, "recovery")
    BY <2>0 DEF <:
  <2>5. Bootables = A ++ B ++ C ++ D
    BY DEF Bootables
  <2> HIDE DEF A, B, C, D
  <2>6. \/ n \in DOMAIN A /\ Bootables[n] = A[n]
        \/ n \in DOMAIN B /\ Bootables[n] = B[n]
        \/ n \in DOMAIN C /\ Bootables[n] = C[n]
        \/ n \in DOMAIN D /\ Bootables[n] = D[n]
    BY <2>5 DEF ++
  <2> QED BY <2>1, <2>2, <2>3, <2>4, <2>6
<1> QED BY <1>2, <1>3, <1>4

LEMMA BootGrew ==
  ASSUME BlobsOnly(t), AddBootImages
  PROVE  Grew
<1> DEFINE images == Restrict(Bootables, {n \in DOMAIN Bootables : Bootables[n] # None})
           new == {n \in DOMAIN images : Img(n) \notin DOMAIN t}
           twoStep == IF "recovery" \in new THEN <<"OTA", "recovery-two-step">> <: GetBootableImage("recovery-two-step", "recovery") ELSE <<>>
           left == Without(twoStep, DOMAIN t)
           first == [f \in {Img(n) : n \in new} |-> images[f[2]]]
           written == first ++ left
<1>0. DOMAIN <<>> = {}
  OBVIOUS
<1>1. t' = t \/ t' = written ++ t
  BY DEF AddBootImages, imgVars
<1>2. \A f \in DOMAIN left : f = <<"OTA", "recovery-two-step">>
  <2>1. DOMAIN twoStep \subseteq {<<"OTA", "recovery-two-step">>}
    BY <1>0, OneDomain
  <2> HIDE DEF twoStep
  <2> QED BY <2>1 DEF Without, Restrict
<1>3. \A n \in new : images[n].type # "fs"
  BY BootBlobs DEF Restrict
<1> HIDE DEF images, left
<1>4. \A f \in DOMAIN first : f[1] = "IMAGES" /\ first[f].type # "fs"
  <2> SUFFICES ASSUME NEW n \in new PROVE Img(n)[1] = "IMAGES" /\ images[Img(n)[2]].type # "fs"
    OBVIOUS
  <2>1. Img(n)[1] = "IMAGES" /\ Img(n)[2] = n
    BY DEF Img
  <2> QED BY <1>3, <2>1
<1> HIDE DEF first
<1>5. \A f \in DOMAIN written : (f[1] = "IMAGES" /\ written[f].type # "fs") \/ f[1] = "OTA"
  BY <1>2, <1>4 DEF ++
<1> HIDE DEF written
<1> QED BY <1>1, <1>5, GrewOver, Unchanged DEF Fresh

LEMMA PartitionGrew ==
  ASSUME NEW p \in Partitions, StartPartition(p) \/ BuildPartition(p)
  PROVE  Grew
<1>1. CASE StartPartition(p)
  <2>1. t' = RecoveryPatch(p) ++ t /\ pc = "partitions" /\ th[p] = "ready" /\ Img(p) \notin DOMAIN t
    BY <1>1 DEF StartPartition, OutputFiles
  <2>2. DOMAIN RecoveryPatch(p) \subseteq {<<p, "recovery_patch">>}
    <3>1. DOMAIN <<>> = {}
      OBVIOUS
    <3> QED BY <3>1, OneDomain DEF RecoveryPatch
  <2> QED BY <2>1, <2>2, GrewOver DEF Fresh
<1>2. CASE BuildPartition(p)
  <2> DEFINE image == Build(t, p, ImageProps(info, p), Used(p))
             new == Img(p) <: image
  <2>1. t' = t \/ (t' = new ++ t /\ image # None /\ pc = "partitions" /\ th[p] = "build")
    BY <1>2 DEF BuildPartition
  <2>2. image # None => image.fc = ImageProps(info, p).selinux_fc
    BY DEF Build
  <2>3. DOMAIN new = {Img(p)} /\ new[Img(p)] = image
    BY OneDomain
  <2> HIDE DEF new, image
  <2> QED BY <2>1, <2>2, <2>3, GrewOver, Unchanged DEF Fresh
<1> QED BY <1>1, <1>2

LEMMA OthersGrew ==
  ASSUME AddOtherImages
  PROVE  Grew
<1> DEFINE images == NewPrebuilts ++ EmptyImages
<1>1. t' = t \/ t' = (AddApexInfo ++ images) ++ t
  BY DEF AddOtherImages, imgVars, ++
<1>2. DOMAIN AddApexInfo = {Meta("apex_info")}
  BY OneDomain DEF AddApexInfo
<1>3. \A f \in DOMAIN NewPrebuilts : f[1] = "IMAGES" /\ NewPrebuilts[f].type # "fs"
  <2>1. \A from, p : Signed(from, p).type = "blob"
    BY DEF Signed
  <2>2. \A p, n : CustomImage(p, n).type = "blob"
    BY <2>1 DEF CustomImage
  <2> DEFINE A == [f \in {Img(n) : n \in PrebuiltNames \intersect MissingPrebuilts} |-> Signed(<<t[<<"PREBUILT_IMAGES", f[2]>>]>>, f[2])]
             B == [f \in {Img(n) : n \in MissingPrebuilts \ PrebuiltNames} |->
                     CustomImage(CHOOSE p \in CustomNames \union AvbCustomNames : f[2] \in CustomImageList(p), f[2])]
  <2>3. NewPrebuilts = A ++ B
    BY DEF NewPrebuilts
  <2>4. \A f \in DOMAIN A : f[1] = "IMAGES" /\ A[f].type # "fs"
    BY <2>1 DEF Img
  <2>5. \A f \in DOMAIN B : f[1] = "IMAGES" /\ B[f].type # "fs"
    BY <2>2 DEF Img
  <2> HIDE DEF A, B
  <2> QED BY <2>3, <2>4, <2>5 DEF ++
<1>4. \A f \in DOMAIN EmptyImages : f[1] = "IMAGES" /\ f[2] \notin Partitions
  <2>1. \A f \in DOMAIN EmptyImages : \E p \in {"userdata", "cache"} : f = Img(p)
    BY DEF EmptyImages, EmptyWanted
  <2>2. \A p \in {"userdata", "cache"} : Img(p)[1] = "IMAGES" /\ Img(p)[2] \notin Partitions
    BY PartitionNames DEF Img
  <2> QED BY <2>1, <2>2
<1>5. \A f \in DOMAIN images : f[1] = "IMAGES" /\ (f[2] \notin Partitions \/ images[f].type # "fs")
  BY <1>3, <1>4 DEF ++
<1> HIDE DEF images
<1>6. \A f \in DOMAIN (AddApexInfo ++ images) :
        \/ f = Meta("apex_info")
        \/ f[1] = "IMAGES" /\ (f[2] \notin Partitions \/ (AddApexInfo ++ images)[f].type # "fs")
  BY <1>2, <1>5 DEF ++
<1>7. PICK new : new = AddApexInfo ++ images
  OBVIOUS
<1>8. \A f \in DOMAIN new : f = Meta("apex_info") \/ (f[1] = "IMAGES" /\ (f[2] \notin Partitions \/ new[f].type # "fs"))
  BY <1>6, <1>7
<1>9. Meta("apex_info") \in WrittenLists
  BY DEF WrittenLists
<1> QED BY <1>1, <1>7, <1>8, <1>9, GrewOver, Unchanged DEF Fresh

LEMMA MetaGrew ==
  ASSUME BlobsOnly(t), AddSuperEmpty \/ AddCareMapForAbOta \/ AddPackRadioImages \/ AddVbmetaDigest \/ ReplaceUpdatedFiles
  PROVE  Grew
<1>0. DOMAIN <<>> = {} /\ Meta("care_map") \in WrittenLists /\ Meta("vbmeta_digest") \in WrittenLists
  BY DEF WrittenLists
<1>1. CASE AddSuperEmpty
  <2> DEFINE new == IF True(info, <<"use_dynamic_partitions">>) /\ True(info, <<"build_super_empty_partition">>) /\ Img("super_empty") \notin DOMAIN t
                    THEN Img("super_empty") <: BuildSuperImageFromDict(info) ELSE <<>>
  <2>1. t' = new ++ t
    BY <1>1 DEF AddSuperEmpty
  <2>2. DOMAIN new \subseteq {Img("super_empty")}
    BY <1>0, OneDomain
  <2>3. Img("super_empty")[1] = "IMAGES" /\ Img("super_empty")[2] \notin Partitions
    BY PartitionNames DEF Img
  <2> HIDE DEF new
  <2> QED BY <2>1, <2>2, <2>3, GrewOver DEF Fresh
<1>2. CASE AddCareMapForAbOta
  <2> DEFINE ab == OrElse(Get(t, Meta("ab_partitions")), {})
             new == IF DOMAIN CareMap(ab) = {} THEN <<>> ELSE Meta("care_map") <: CareMap(ab)
  <2>1. t' = t \/ t' = new ++ t
    BY <1>2 DEF AddCareMapForAbOta, OutputFiles
  <2>2. DOMAIN new \subseteq {Meta("care_map")}
    BY <1>0, OneDomain
  <2> HIDE DEF new
  <2> QED BY <1>0, <2>1, <2>2, GrewOver, Unchanged DEF Fresh
<1>3. CASE AddPackRadioImages
  <2> DEFINE names == {n \in OrElse(Get(t, Meta("pack_radioimages")), {}) : Img(n) \notin DOMAIN t}
             new == [f \in {Img(n) : n \in names} |-> t[<<"RADIO", f[2]>>]]
  <2>1. t' = t \/ (t' = new ++ t /\ \A n \in names : <<"RADIO", n>> \in DOMAIN t)
    BY <1>3 DEF AddPackRadioImages
  <2>2. ASSUME \A n \in names : <<"RADIO", n>> \in DOMAIN t PROVE \A f \in DOMAIN new : f[1] = "IMAGES" /\ new[f].type # "fs"
    <3> SUFFICES ASSUME NEW n \in names PROVE Img(n)[1] = "IMAGES" /\ t[<<"RADIO", Img(n)[2]>>].type # "fs"
      OBVIOUS
    <3>1. Img(n)[1] = "IMAGES" /\ Img(n)[2] = n
      BY DEF Img
    <3>2. t[<<"RADIO", n>>].type # "fs"
      BY <2>2 DEF BlobsOnly
    <3> QED BY <3>1, <3>2
  <2> HIDE DEF new, names
  <2> QED BY <2>1, <2>2, GrewOver, Unchanged DEF Fresh
<1>4. CASE AddVbmetaDigest
  <2> DEFINE wanted == True(info, <<"avb_enable">>) /\ ~BootContainer /\ True(info, <<"avb_building_vbmeta_image">>)
             new == IF wanted THEN Meta("vbmeta_digest") <: CalculateVbmetaDigest(t) ELSE <<>>
  <2>1. t' = t \/ t' = new ++ t
    BY <1>4 DEF AddVbmetaDigest, OutputFiles
  <2>2. DOMAIN new \subseteq {Meta("vbmeta_digest")}
    BY <1>0, OneDomain
  <2> HIDE DEF new
  <2> QED BY <1>0, <2>1, <2>2, GrewOver, Unchanged DEF Fresh
<1>5. CASE ReplaceUpdatedFiles
  BY <1>5, Unchanged DEF ReplaceUpdatedFiles
<1> QED BY <1>1, <1>2, <1>3, <1>4, <1>5

LEMMA AddGrew ==
  ASSUME AddImages, BlobsOnly(t), zip = None
  PROVE  Grew
<1>1. CASE AddImagesToTargetFiles
  BY <1>1, Unchanged DEF AddImagesToTargetFiles
<1>2. CASE AddBootImages
  BY <1>2, BootGrew
<1>3. ASSUME NEW p \in Partitions, StartPartition(p) \/ BuildPartition(p) PROVE Grew
  BY <1>3, PartitionGrew
<1>4. ASSUME NEW p \in Partitions, SkipExisting(p) \/ WalkInfoDict(p) \/ StampInfoDict(p) \/ RecordSizes(p) PROVE Grew
  BY <1>4, Unchanged DEF SkipExisting, WalkInfoDict, StampInfoDict, RecordSizes
<1>5. CASE JoinThreads
  BY <1>5, Unchanged DEF JoinThreads, imgVars
<1>6. CASE AddOtherImages
  BY <1>6, OthersGrew
<1>7. CASE AddVBMetaImages
  <2>1. AgreeBoth(t, {})
    BY DEF AgreeBoth, Agrees
  <2>2. GrowsTo(t, t')
    <3>1. PICK out : out = t
      OBVIOUS
    <3> QED BY <1>7, <2>1, <3>1, FrameVbmeta
  <2>3. \A n \in VbmetaNames : Img(n)[1] = "IMAGES" /\ Img(n)[2] \notin Partitions
    BY PartitionNames DEF Img, VbmetaNames
  <2> QED BY <2>2, <2>3 DEF GrowsTo, Grew, Fresh
<1>8. CASE AddSuperEmpty \/ AddCareMapForAbOta \/ AddPackRadioImages \/ AddVbmetaDigest \/ ReplaceUpdatedFiles
  BY <1>8, MetaGrew
<1> QED BY <1>1, <1>2, <1>3, <1>4, <1>5, <1>6, <1>7, <1>8 DEF AddImages

LEMMA FreshPlaces ==
  ASSUME NEW f, Fresh(f)
  PROVE  /\ f[1] \in {"OTA", "IMAGES"} \/ f \in WrittenLists \/ (f[1] \in Partitions /\ f[2] = "recovery_patch")
         /\ f[1] \in Partitions => pc = "partitions" /\ th[f[1]] = "ready" /\ Img(f[1]) \notin DOMAIN t
<1>1. \A q : Img(q)[1] = "IMAGES"
  BY DEF Img
<1>2. f \in WrittenLists => f[1] = "META"
  BY DEF WrittenLists, Meta
<1>3. "META" \notin Partitions /\ "OTA" \notin Partitions /\ "IMAGES" \notin Partitions
  BY PartitionNames
<1> QED BY <1>1, <1>2, <1>3 DEF Fresh

LEMMA FreshImage ==
  ASSUME NEW p \in Partitions, Fresh(Img(p)), t'[Img(p)].type = "fs"
  PROVE  pc = "partitions" /\ th[p] = "build" /\ t'[Img(p)].fc = ImageProps(info, p).selinux_fc
<1>1. \A q : Img(q)[1] = "IMAGES" /\ Img(q)[2] = q
  BY DEF Img
<1>2. Img(p) \notin WrittenLists /\ "IMAGES" \notin Partitions /\ \A q : Img(p) = Img(q) => p = q
  BY <1>1, PartitionNames DEF WrittenLists, Meta
<1>3. ~\E q \in Partitions : Img(p) = <<q, "recovery_patch">>
  BY <1>1, <1>2
<1> QED BY <1>1, <1>2, <1>3 DEF Fresh

LEMMA PropsFc ==
  ASSUME NEW p \in Partitions, FcKey(p) \in DOMAIN info, info[FcKey(p)] # None
  PROVE  ImageProps(info, p).selinux_fc = info[FcKey(p)]
<1> DEFINE copied == [n \in {x[3] : x \in {y \in FmtProps : y[1] => p \in RoMountPoints}} |->
                        CopyProp(info, p, CHOOSE y \in FmtProps : y[3] = n)]
           x0 == <<FALSE, "selinux_fc", "selinux_fc">>
<1>1. x0 \in FmtProps /\ x0[1] = FALSE /\ x0[3] = "selinux_fc"
  BY DEF FmtProps
<1>2. ASSUME NEW y \in FmtProps, y[3] = "selinux_fc" PROVE y = x0
  <2>1. \/ y = <<FALSE, "fs_type", "fs_type">> \/ y = x0 \/ y = <<FALSE, "size", "partition_size">>
        \/ y = <<TRUE, "reserved_size", "partition_reserved_size">>
        \/ \E w : w # "selinux_fc" /\ y = <<TRUE, w, w>>
    BY DEF FmtProps
  <2>2. <<FALSE, "fs_type", "fs_type">>[3] # "selinux_fc" /\ <<FALSE, "size", "partition_size">>[3] # "selinux_fc"
        /\ <<TRUE, "reserved_size", "partition_reserved_size">>[3] # "selinux_fc"
    OBVIOUS
  <2>3. ASSUME NEW w, w # "selinux_fc" PROVE <<TRUE, w, w>>[3] # "selinux_fc"
    BY <2>3
  <2> QED BY <1>2, <2>1, <2>2, <2>3
<1>3. (CHOOSE y \in FmtProps : y[3] = "selinux_fc") = x0
  <2> HIDE DEF x0
  <2> QED BY <1>1, <1>2
<1>4. "selinux_fc" \in DOMAIN copied /\ copied["selinux_fc"] = CopyProp(info, p, x0)
  <2>1. "selinux_fc" \in {x[3] : x \in {y \in FmtProps : y[1] => p \in RoMountPoints}}
    <3> HIDE DEF x0
    <3> QED BY <1>1
  <2> HIDE DEF x0
  <2> QED BY <1>3, <2>1
<1>5. CopyProp(info, p, x0) = info[FcKey(p)]
  <2>1. p # "data"
    BY PartitionNames
  <2> QED BY <2>1 DEF CopyProp, Get, FcKey
<1>6. \E g : ImageProps(info, p) = copied ++ g
  <2> DEFINE commons == [n \in CommonProps |-> Get(info, <<n>>)]
             special == IF p = "system" THEN [partition_headroom |-> Get(info, <<"system_headroom">>), root |-> Get(info, <<"root">>)]
                        ELSE [partition_headroom |-> None, root |-> None]
             mount == [mount_point |-> p]
             rest == [n \in {x[3] : x \in FmtProps} |-> None]
  <2>1. ImageProps(info, p) = copied ++ commons ++ special ++ mount ++ rest
    BY DEF ImageProps
  <2> HIDE DEF copied, commons, special, mount, rest
  <2>2. copied ++ commons ++ special ++ mount ++ rest = copied ++ (commons ++ special ++ mount ++ rest)
    BY DEF ++
  <2> QED BY <2>1, <2>2
<1> HIDE DEF copied, x0
<1>7. ImageProps(info, p)["selinux_fc"] = copied["selinux_fc"]
  BY <1>4, <1>6 DEF ++
<1> QED BY <1>4, <1>5, <1>7

LEMMA LoadedFc ==
  ASSUME NEW S, DictNames(t, S), LoadInfoDict(t, TRUE) # None, NEW p \in S, IsDir(Owner(p), p)
  PROVE  FcKey(p) \in DOMAIN LoadInfoDict(t, TRUE) /\ LoadInfoDict(t, TRUE)[FcKey(p)] \in Fcs(p)
<1> DEFINE raw == t[Meta("misc_info")]
           k == FcKey(p)
           packed == Repack(t, raw)
           props == LoadBuildProps(t, packed)
<1>1. k \in DOMAIN raw /\ t[Meta(raw[k])] \in Fcs(p) /\ Meta("misc_info") \in DOMAIN t
  BY DEF DictNames
<1>2. LoadInfoDict(t, TRUE) = MetaEntries(t, AvbIdentity(packed ++ props))
  BY <1>1 DEF LoadInfoDict, Get
<1>3. k \in FcKeys(raw) /\ k \notin OptionalFileKeys(raw)
  BY <1>1 DEF FcKeys, OptionalFileKeys, FcKey
<1> HIDE DEF raw
<1>4. k \in DOMAIN packed /\ packed[k] \in Fcs(p)
  <2> DEFINE inner == [l \in DOMAIN raw |-> IF l \in FcKeys(raw) \union (OptionalFileKeys(raw) \ MissingFiles(t, raw))
                                            THEN t[Meta(raw[l])] ELSE raw[l]]
             kept == Without(inner, MissingFiles(t, raw))
  <2>1. k \notin MissingFiles(t, raw)
    BY <1>3 DEF MissingFiles
  <2>2. k \in DOMAIN inner /\ inner[k] \in Fcs(p)
    BY <1>1, <1>3
  <2> HIDE DEF inner
  <2>3. k \in DOMAIN kept /\ kept[k] \in Fcs(p)
    BY <2>1, <2>2 DEF Without, Restrict
  <2>4. packed = kept ++ (<<"root">> <: Content(t, "root"))
    BY DEF Repack, inner
  <2> HIDE DEF kept, packed
  <2> QED BY <2>3, <2>4 DEF ++
<1> HIDE DEF packed, props
<1>5. k \in DOMAIN (packed ++ props) /\ (packed ++ props)[k] \in Fcs(p)
  BY <1>4 DEF ++
<1>6. PICK d : d = packed ++ props
  OBVIOUS
<1>7. k \in DOMAIN AvbIdentity(d) /\ AvbIdentity(d)[k] \in Fcs(p)
  <2>1. k \in DOMAIN d /\ d[k] \in Fcs(p)
    BY <1>5, <1>6
  <2>2. AvbIdentity(d) = d \/ \E x, y : AvbIdentity(d) = d ++ (<<"fingerprint">> <: x) ++ (<<"avb_salt">> <: y)
    BY DEF AvbIdentity
  <2>3. ASSUME NEW x, NEW y, AvbIdentity(d) = d ++ x ++ y PROVE k \in DOMAIN AvbIdentity(d) /\ AvbIdentity(d)[k] \in Fcs(p)
    BY <2>1, <2>3 DEF ++
  <2> QED BY <2>1, <2>2, <2>3
<1>8. PICK e : e = AvbIdentity(d)
  OBVIOUS
<1>9. k \in DOMAIN MetaEntries(t, e) /\ MetaEntries(t, e)[k] \in Fcs(p)
  <2> DEFINE digest == IF True(e, <<"avb_enable">>) /\ Meta("vbmeta_digest") \in DOMAIN t
                       THEN <<"vbmeta_digest">> <: t[Meta("vbmeta_digest")] ELSE <<>>
             ab == IF Meta("ab_partitions") \in DOMAIN t THEN <<"ab_partitions">> <: t[Meta("ab_partitions")] ELSE <<>>
  <2>1. DOMAIN <<>> = {}
    OBVIOUS
  <2>2. DOMAIN digest \subseteq {<<"vbmeta_digest">>} /\ DOMAIN ab \subseteq {<<"ab_partitions">>}
    BY <2>1, OneDomain
  <2>3. k # <<"vbmeta_digest">> /\ k # <<"ab_partitions">>
    BY DEF FcKey
  <2>4. MetaEntries(t, e) = digest ++ ab ++ e
    BY DEF MetaEntries
  <2>5. k \in DOMAIN e /\ e[k] \in Fcs(p) /\ k \notin DOMAIN digest /\ k \notin DOMAIN ab
    BY <1>7, <1>8, <2>2, <2>3
  <2> HIDE DEF digest, ab, k
  <2> QED BY <2>4, <2>5 DEF ++
<1> QED BY <1>2, <1>6, <1>8, <1>9

-----------------------------------------------------------------------------
(* What is said of a package stays true while it grows.                      *)

\* What the threads that add an image know.
Known(S) == pc = "partitions" => ThreadsOwned /\ InfoNames(S)

LEMMA OldMeta ==
  ASSUME Grew, NEW f \in DOMAIN t, f[1] \notin Partitions \union {"OTA", "IMAGES"}, f \notin WrittenLists
  PROVE  f \in DOMAIN t' /\ t'[f] = t[f]
BY FreshPlaces DEF Grew

LEMMA GrewDirs ==
  ASSUME NEW S \in SUBSET Partitions, Grew, Known(S), DirsOwned(t, S)
  PROVE  DirsOwned(t', S)
<1> SUFFICES ASSUME NEW p \in S, NEW f \in DOMAIN t', f[1] = p PROVE IsDir(Owner(p), p)
  BY DEF DirsOwned, IsDir, Files
<1>1. CASE f \in DOMAIN t
  BY <1>1 DEF DirsOwned, IsDir, Files
<1>2. CASE Fresh(f)
  <2>1. pc = "partitions" /\ th[p] = "ready" /\ Img(p) \notin DOMAIN t
    BY <1>2, FreshPlaces
  <2>2. IsDir(t, p)
    BY <2>1 DEF Known, ThreadsOwned
  <2> QED BY <2>2 DEF DirsOwned
<1> QED BY <1>1, <1>2 DEF Grew

LEMMA GrewImages ==
  ASSUME NEW S \in SUBSET Partitions, Grew, Known(S), DirsOwned(t, S), ImagesOwned(t, S), \A p \in S : None \notin Fcs(p)
  PROVE  ImagesOwned(t', S)
<1> SUFFICES ASSUME NEW p \in S, Img(p) \in DOMAIN t', t'[Img(p)].type = "fs" PROVE t'[Img(p)].fc \in Fcs(p)
  BY DEF ImagesOwned
<1>1. CASE Img(p) \in DOMAIN t /\ t'[Img(p)] = t[Img(p)]
  BY <1>1 DEF ImagesOwned
<1>2. CASE Fresh(Img(p))
  <2>1. pc = "partitions" /\ th[p] = "build" /\ t'[Img(p)].fc = ImageProps(info, p).selinux_fc
    BY <1>2, FreshImage
  <2>2. IsDir(Owner(p), p)
    BY <2>1 DEF Known, ThreadsOwned, DirsOwned
  <2>3. FcKey(p) \in DOMAIN info /\ info[FcKey(p)] \in Fcs(p)
    BY <2>1, <2>2 DEF Known, InfoNames
  <2> QED BY <2>1, <2>3, PropsFc
<1> QED BY <1>1, <1>2 DEF Grew

LEMMA GrewDict ==
  ASSUME NEW S, Grew, DictNames(t, S)
  PROVE  DictNames(t', S)
<1>1. \A n : Meta(n)[1] = "META" /\ Meta(n)[2] = n
  BY DEF Meta
<1>2. "META" \notin Partitions \union {"OTA", "IMAGES"} /\ Meta("misc_info") \notin WrittenLists
  BY <1>1, PartitionNames DEF WrittenLists
<1>3. Meta("misc_info") \in DOMAIN t' /\ t'[Meta("misc_info")] = t[Meta("misc_info")]
  BY <1>1, <1>2, OldMeta DEF DictNames
<1>4. \A n \in ContextFiles : Meta(n) \in DOMAIN t => Meta(n) \in DOMAIN t' /\ t'[Meta(n)] = t[Meta(n)]
  BY <1>1, <1>2, OldMeta DEF ContextFiles, WrittenLists
<1> QED BY <1>3, <1>4 DEF DictNames

LEMMA GrewPart ==
  ASSUME NEW S \in SUBSET Partitions, Grew, Known(S), PartOfIt(t, S), \A p \in S : None \notin Fcs(p)
  PROVE  PartOfIt(t', S)
<1>1. BlobsOnly(t')
  BY FreshPlaces, PartitionNames DEF PartOfIt, BlobsOnly, Grew, WrittenLists, Meta
<1> QED BY <1>1, GrewDirs, GrewImages, GrewDict DEF PartOfIt

LEMMA GrewWhole ==
  ASSUME Grew, Known(Partitions), Whole(t), \A p \in Partitions : None \notin Fcs(p)
  PROVE  Whole(t')
<1>1. PartOfIt(t', Partitions)
  BY GrewPart DEF Whole, Collected, PartOfIt
<1>2. FilesOwned(t')
  BY FreshPlaces, PartitionNames DEF Whole, Collected, FilesOwned, Grew, Added, WrittenLists, Meta
<1>3. KeysOwned(t')
  <2>1. \A n \in {"apkcerts", "apexkeys"} : Meta(n) \in DOMAIN t' /\ t'[Meta(n)] = t[Meta(n)]
    BY OldMeta, PartitionNames DEF Whole, KeysOwned, WrittenLists, Meta
  <2> QED BY <2>1 DEF Whole, KeysOwned
<1> QED BY <1>1, <1>2, <1>3 DEF Whole, Collected, PartOfIt

LEMMA AddQuiet ==
  ASSUME AddImages, zip = None, opt.zip = FALSE
  PROVE  zip' = None /\ opt' = opt
<1>1. CASE AddImagesToTargetFiles
  BY <1>1 DEF AddImagesToTargetFiles
<1>2. CASE AddBootImages
  BY <1>2 DEF AddBootImages, ZipAppend, imgVars
<1>3. ASSUME NEW p \in Partitions, SkipExisting(p) \/ StartPartition(p) \/ WalkInfoDict(p) \/ StampInfoDict(p) \/ BuildPartition(p) \/ RecordSizes(p)
      PROVE  zip' = None /\ opt' = opt
  BY <1>3 DEF SkipExisting, StartPartition, WalkInfoDict, StampInfoDict, BuildPartition, RecordSizes, OutputFiles, ZipAppend
<1>4. CASE JoinThreads
  BY <1>4 DEF JoinThreads, imgVars
<1>5. CASE AddOtherImages
  BY <1>5 DEF AddOtherImages, imgVars
<1>6. CASE AddVBMetaImages
  BY <1>6 DEF AddVBMetaImages, ZipAppend
<1>7. CASE AddSuperEmpty
  BY <1>7 DEF AddSuperEmpty, ZipAppend
<1>8. CASE AddCareMapForAbOta
  BY <1>8 DEF AddCareMapForAbOta, OutputFiles
<1>9. CASE AddPackRadioImages
  BY <1>9 DEF AddPackRadioImages, ZipAppend
<1>10. CASE AddVbmetaDigest
  BY <1>10 DEF AddVbmetaDigest, OutputFiles
<1>11. CASE ReplaceUpdatedFiles
  BY <1>11 DEF ReplaceUpdatedFiles
<1> QED BY <1>1, <1>2, <1>3, <1>4, <1>5, <1>6, <1>7, <1>8, <1>9, <1>10, <1>11 DEF AddImages

-----------------------------------------------------------------------------
(* The steps of add_img_to_target_files, called by merge_target_files.       *)

LEMMA MergeJob ==
  ASSUME job.kind = "merge", job \in Jobs
  PROVE  /\ OneContexts(job.fw, TRUE) /\ OneContexts(job.vn, FALSE) /\ ListsTidy(job) /\ IsDir(job.vn, "vendor")
         /\ FcKeys(OrElse(Get(job.vn, Meta("dynamic_partitions_info")), <<>>)) = {}
BY MergingAssumption

LEMMA ContextsGiven ==
  ASSUME job.kind = "merge", job \in Jobs
  PROVE  FwFc # None /\ \A p \in Partitions : None \notin Fcs(p)
<1>1. \A p \in Partitions : Fc(p) # None
  <2> SUFFICES ASSUME NEW p \in Partitions PROVE Fc(p) # None
    OBVIOUS
  <2>1. CASE p \in FrameworkPartitions
    BY <2>1, MergeJob DEF OneContexts, Expected, Fc, Owner
  <2>2. CASE p \notin FrameworkPartitions
    <3>1. Expected(p, FALSE)
      BY <2>2 DEF Expected
    <3>2. Fc(p) = FcSource(job.vn, FcName(p))
      BY <2>2 DEF Fc, Owner
    <3>3. OneContexts(job.vn, FALSE)
      BY MergeJob
    <3> QED BY <3>1, <3>2, <3>3 DEF OneContexts
  <2> QED BY <2>1, <2>2
<1>2. FwFc # None
  <2>1. "system" \in Partitions /\ "system" \in FrameworkPartitions
    BY PartitionNames DEF FrameworkPartitions
  <2>2. Fc("system") = FwFc
    BY <2>1 DEF Fc, FwFc, Owner, FcName
  <2> QED BY <1>1, <2>1, <2>2
<1> QED BY <1>1, <1>2 DEF Fcs

Later == {"dexopt", "compatibility", "sepolicy", "outputs", "merged"} \union AddPcs

\* The invariant, from what is known of the state a step leads to.
LEMMA Established ==
  ASSUME job' = job, job \in Jobs, DOMAIN mg' = MgFields, opt'.zip = FALSE, zip' = None,
         pc' \in MergePcs \union AddPcs \union {"merged", "failed", "exit"},
         pc' \notin AddPcs \union {"failed", "exit"} => ~mg'.nested,
         pc' \notin {"merge_options", "failed", "exit"} => ListsRead',
         pc' = "meta" => Collected(t'),
         pc' \in Later => IF mg'.nested THEN Whole(mg'.aside) ELSE Whole(t'),
         pc' \in AddPcs => PartOfIt(t', Counted'),
         pc' \in {"boot", "partitions"} => InfoNames(Counted)',
         pc' = "partitions" => ThreadsOwned'
  PROVE  MergeInv'
<1>1. \A p : Owner(p)' = Owner(p) /\ Fcs(p)' = Fcs(p)
  BY DEF Owner, Fc, Fcs, FwFc, FwMeta
<1>2. Collected(t') => Collected(t)'
  BY <1>1 DEF Collected, FilesOwned, DirsOwned, ImagesOwned, BlobsOnly
<1>3. Whole(t') => Whole(t)'
  BY <1>1, <1>2 DEF Whole, KeysOwned, DictNames
<1>4. Whole(mg'.aside) => Whole(mg.aside)'
  BY <1>1 DEF Whole, Collected, FilesOwned, DirsOwned, ImagesOwned, BlobsOnly, KeysOwned, DictNames
<1>5. PartOfIt(t', Counted') => PartOfIt(t, Counted)'
  BY <1>1 DEF PartOfIt, DirsOwned, ImagesOwned, BlobsOnly, DictNames
<1>6. pc' \in Later => Whole(IF mg.nested THEN mg.aside ELSE t)'
  BY <1>3, <1>4
<1> QED BY <1>2, <1>5, <1>6 DEF MergeInv, Later

LEMMA PartitionKnown ==
  ASSUME NEW S, NEW q \in Partitions, ThreadsOwned, InfoNames(S), job' = job, Grew,
         SkipExisting(q) \/ StartPartition(q) \/ WalkInfoDict(q) \/ StampInfoDict(q) \/ BuildPartition(q) \/ RecordSizes(q)
  PROVE  ThreadsOwned' /\ InfoNames(S)'
<1>1. \A p \in Partitions : IsDir(t, p) => IsDir(t', p)
  BY DEF Grew, IsDir, Files
<1>2. /\ DOMAIN th' = Partitions /\ \A p \in Partitions \ {q} : th'[p] = th[p]
      /\ th'[q] \in {"ready", "walk", "stamp", "build"} => IsDir(t, q)
  <2>1. CASE SkipExisting(q)
    BY <2>1 DEF SkipExisting, ThreadsOwned
  <2>2. CASE StartPartition(q)
    BY <2>2 DEF StartPartition, ThreadsOwned
  <2>3. CASE WalkInfoDict(q)
    BY <2>3 DEF WalkInfoDict, ThreadsOwned
  <2>4. CASE StampInfoDict(q)
    BY <2>4 DEF StampInfoDict, ThreadsOwned
  <2>5. CASE BuildPartition(q)
    <3>1. th[q] = "build" /\ \E w \in {"failed", "record"} : th' = [th EXCEPT ![q] = w]
      BY <2>5 DEF BuildPartition
    <3> QED BY <3>1 DEF ThreadsOwned
  <2>6. CASE RecordSizes(q)
    BY <2>6 DEF RecordSizes, ThreadsOwned
  <2> QED BY <2>1, <2>2, <2>3, <2>4, <2>5, <2>6
<1>3. ThreadsOwned'
  BY <1>1, <1>2 DEF ThreadsOwned, Grew
<1>4. \A p : FcKey(p) \in DOMAIN info => FcKey(p) \in DOMAIN info' /\ info'[FcKey(p)] = info[FcKey(p)]
  <2>0. DOMAIN <<>> = {} /\ \A p : FcKey(p) # <<"fingerprint">> /\ FcKey(p) # <<"timestamp">>
    BY DEF FcKey
  <2>1. \A p, r : FcKey(p) # <<"image_size", r>> /\ FcKey(p) # <<"size", r>>
    BY DEF FcKey
  <2>2. ASSUME NEW x, NEW v, info' = (x <: v) ++ info, \A p : FcKey(p) # x
        PROVE  \A p : FcKey(p) \in DOMAIN info => FcKey(p) \in DOMAIN info' /\ info'[FcKey(p)] = info[FcKey(p)]
    <3>1. DOMAIN info' = {x} \union DOMAIN info /\ \A k \in DOMAIN info : k # x => info'[k] = info[k]
      BY <2>2 DEF ++, <:
    <3> QED BY <2>2, <3>1
  <2>3. CASE info' = info
    BY <2>3
  <2>4. CASE WalkInfoDict(q)
    BY <2>0, <2>2, <2>3, <2>4 DEF WalkInfoDict, TryParseFingerprint
  <2>5. CASE StampInfoDict(q)
    BY <2>0, <2>2, <2>3, <2>5 DEF StampInfoDict, Timestamp
  <2>6. CASE RecordSizes(q)
    <3> DEFINE image == t[Img(q)]
               verified == image.footer \/ ImageProps(info, q).verity_block_device # None
               size == IF verified /\ True(info, <<"avb_enable">>) THEN <<"image_size", q>> <: image.image_size ELSE <<>>
               dynamic == True(info, <<"use_dynamic_partition_size">>) /\ q \in OrElse(Get(info, <<"dynamic_partition_list">>), {})
               total == IF dynamic THEN <<"size", q>> <: image.partition_size ELSE <<>>
    <3>1. info' = size ++ total ++ info
      BY <2>6 DEF RecordSizes
    <3>2. DOMAIN size \subseteq {<<"image_size", q>>} /\ DOMAIN total \subseteq {<<"size", q>>}
      BY <2>0, OneDomain
    <3> HIDE DEF size, total
    <3>3. \A p : FcKey(p) \notin DOMAIN size /\ FcKey(p) \notin DOMAIN total
      BY <2>1, <3>2
    <3> QED BY <3>1, <3>3 DEF ++
  <2> QED BY <2>3, <2>4, <2>5, <2>6 DEF SkipExisting, StartPartition, BuildPartition
<1>5. InfoNames(S)'
  BY <1>4 DEF InfoNames, Owner, Fc, Fcs, FwFc, FwMeta
<1> QED BY <1>3, <1>5

LEMMA MergeAddStep ==
  ASSUME job.kind = "merge", MergeInv, AddImages, mg' = mg
  PROVE  MergeInv'
<1>0. /\ job \in Jobs /\ DOMAIN mg = MgFields /\ opt.zip = FALSE /\ zip = None /\ ListsRead
      /\ Whole(IF mg.nested THEN mg.aside ELSE t) /\ PartOfIt(t, Counted) /\ Known(Counted)
      /\ pc \in {"boot", "partitions"} => InfoNames(Counted)
  BY AddSteps DEF MergeInv, Known, AddPcs
<1>1. pc' \in AddPcs \union {"failed", "exit"} /\ job' = job /\ zip' = None /\ opt' = opt /\ Counted' = Counted
  BY <1>0, AddSteps, AddQuiet DEF Counted
<1>2. Grew /\ (\A p \in Partitions : None \notin Fcs(p)) /\ Counted \in SUBSET Partitions
  BY <1>0, AddGrew, ContextsGiven DEF PartOfIt, Counted, VendorOnly
<1>3. PartOfIt(t', Counted')
  <2>1. PICK S : S = Counted
    OBVIOUS
  <2>2. PartOfIt(t', S)
    BY <1>0, <1>2, <2>1, GrewPart
  <2> QED BY <1>1, <2>1, <2>2
<1>4. IF mg'.nested THEN Whole(mg'.aside) ELSE Whole(t')
  BY <1>0, <1>2, GrewWhole DEF Counted
<1>5. pc' \in {"boot", "partitions"} => InfoNames(Counted)' /\ (pc' = "partitions" => ThreadsOwned')
  <2>0. PICK S : S = Counted
    OBVIOUS
  <2>1. CASE AddImagesToTargetFiles
    <3>1. pc' # "partitions" /\ (pc' = "boot" => info' = LoadInfoDict(t, TRUE) /\ info' # None)
      BY <2>1 DEF AddImagesToTargetFiles
    <3>2. ASSUME pc' = "boot" PROVE InfoNames(Counted)'
      <4>1. DictNames(t, S) /\ LoadInfoDict(t, TRUE) # None
        BY <1>0, <2>0, <3>1, <3>2 DEF PartOfIt
      <4>2. \A p \in S : IsDir(Owner(p), p) => FcKey(p) \in DOMAIN info' /\ info'[FcKey(p)] \in Fcs(p)
        BY <3>1, <3>2, <4>1, LoadedFc
      <4> QED BY <1>1, <2>0, <4>2 DEF InfoNames, Owner, Fc, Fcs, FwFc, FwMeta
    <3> QED BY <3>1, <3>2
  <2>2. CASE AddBootImages
    <3>1. pc' # "boot" /\ (pc' = "partitions" => info' = info /\ th' = [p \in Partitions |-> IF HasPartition(p) THEN "ready" ELSE "done"])
      BY <2>2 DEF AddBootImages
    <3>2. ASSUME pc' = "partitions" PROVE InfoNames(Counted)' /\ ThreadsOwned'
      <4>1. InfoNames(S)
        BY <1>0, <2>0, <2>2 DEF AddBootImages
      <4>2. InfoNames(Counted)'
        BY <1>1, <2>0, <3>1, <3>2, <4>1 DEF InfoNames, Owner, Fc, Fcs, FwFc, FwMeta
      <4>3. \A p \in Partitions : HasPartition(p) => IsDir(t', p) \/ Img(p) \in DOMAIN t'
        BY <1>2 DEF HasPartition, Grew, IsDir, Files
      <4>4. ThreadsOwned'
        BY <3>1, <3>2, <4>3 DEF ThreadsOwned
      <4> QED BY <4>2, <4>4
    <3> QED BY <3>1, <3>2
  <2>3. ASSUME NEW q \in Partitions,
               SkipExisting(q) \/ StartPartition(q) \/ WalkInfoDict(q) \/ StampInfoDict(q) \/ BuildPartition(q) \/ RecordSizes(q)
        PROVE  InfoNames(Counted)' /\ ThreadsOwned'
    <3>1. pc = "partitions"
      BY <2>3 DEF SkipExisting, StartPartition, WalkInfoDict, StampInfoDict, BuildPartition, RecordSizes
    <3>2. ThreadsOwned /\ InfoNames(S)
      BY <1>0, <2>0, <3>1 DEF Known
    <3>3. ThreadsOwned' /\ InfoNames(S)'
      BY <1>1, <1>2, <2>3, <3>2, PartitionKnown
    <3> QED BY <1>1, <2>0, <3>3 DEF InfoNames
  <2>4. CASE JoinThreads \/ AddOtherImages \/ AddVBMetaImages \/ AddSuperEmpty \/ AddCareMapForAbOta \/ AddPackRadioImages
             \/ AddVbmetaDigest \/ ReplaceUpdatedFiles
    <3>1. pc' \notin {"boot", "partitions"}
      BY <2>4, PartitionNames DEF JoinThreads, AddOtherImages, AddVBMetaImages, AddSuperEmpty, AddCareMapForAbOta, AddPackRadioImages,
                  AddVbmetaDigest, ReplaceUpdatedFiles
    <3> QED BY <3>1
  <2> QED BY <2>1, <2>2, <2>3, <2>4 DEF AddImages
<1>6. ListsRead'
  BY <1>0 DEF ListsRead
<1>7. pc' # "meta" /\ pc' \in MergePcs \union AddPcs \union {"merged", "failed", "exit"}
  BY <1>1 DEF AddPcs
<1> QED BY <1>0, <1>1, <1>3, <1>4, <1>5, <1>6, <1>7, Established

-----------------------------------------------------------------------------
(* The lists of items.                                                       *)

LEMMA InferredTidy ==
  ASSUME NEW build, NEW framework \in BOOLEAN, \A f \in DOMAIN build : f[2] # "*"
  PROVE  Tidy(InferItemList(build, framework), framework)
<1> DEFINE always == IF framework THEN {"postinstall_config", "zucchini_config"} ELSE {"kernel_version", "otakeys", "pack_radioimages"}
           images == {f \in DOMAIN build : f[1] \in {"IMAGES", "PREBUILT_IMAGES"} /\ f[2] # "vbmeta" /\ Expected(f[2], framework)}
           dirs == {d \in {f[1] : f \in DOMAIN build} \ NotADirectory : Expected(d, framework)}
<1>1. ASSUME NEW i \in InferItemList(build, framework)
      PROVE  \/ i[1] \in {"META", "META/fs_config"}
             \/ i[1] \in {"IMAGES", "PREBUILT_IMAGES"} /\ i[2] # "*" /\ Expected(i[2], framework)
             \/ i[1] \notin NotADirectory /\ Expected(i[1], framework)
  <2>1. (\E n \in always : i = Meta(n)) \/ i \in images \/ \E d \in dirs : i = <<d, "*">> \/ i = FsConfig(d)
    BY <1>1 DEF InferItemList
  <2>2. CASE \E n \in always : i = Meta(n)
    BY <2>2 DEF Meta
  <2>3. CASE i \in images
    BY <2>3
  <2>4. ASSUME NEW d \in dirs, i = <<d, "*">> \/ i = FsConfig(d)
        PROVE  i[1] = "META/fs_config" \/ (i[1] \notin NotADirectory /\ Expected(i[1], framework))
    <3>1. d \notin NotADirectory /\ Expected(d, framework)
      OBVIOUS
    <3>2. i[1] = d \/ i[1] = "META/fs_config"
      BY <2>4 DEF FsConfig
    <3> QED BY <3>1, <3>2
  <2> QED BY <2>1, <2>2, <2>3, <2>4
<1> HIDE DEF always, images, dirs
<1>2. ASSUME NEW i \in InferItemList(build, framework), i[1] = "IMAGES" PROVE i[2] # "*"
  BY <1>1, <1>2 DEF NotADirectory
<1>3. ASSUME NEW p \in ItemListToPartitionSet(InferItemList(build, framework)) PROVE Expected(p, framework)
  <2>1. PICK i \in InferItemList(build, framework) :
          (i[1] \notin NotADirectory /\ p = i[1]) \/ (i[1] \in {"IMAGES", "PREBUILT_IMAGES"} /\ p = i[2])
    BY <1>3 DEF ItemListToPartitionSet
  <2> QED BY <1>1, <2>1 DEF NotADirectory
<1> QED BY <1>2, <1>3 DEF Tidy

LEMMA OptionsStep ==
  ASSUME job.kind = "merge", MergeInv, ParseMergeOptions
  PROVE  MergeInv'
<1> DEFINE fw == OrElse(mo.fw_items, InferItemList(job.fw, TRUE))
           vn == OrElse(mo.vn_items, InferItemList(job.vn, FALSE))
           keys == OrElse(mo.keys, InferFrameworkMiscInfoKeys(job.fw, mo.zips))
<1>0. /\ job \in Jobs /\ DOMAIN mg = MgFields /\ opt.zip = FALSE /\ zip = None /\ ~mg.nested
      /\ job' = job /\ opt' = opt /\ zip' = zip
  BY DEF MergeInv, ParseMergeOptions, AddPcs, imgVars
<1>1. CASE pc' = "exit" /\ mg' = mg
  <2>1. pc' = "exit" /\ DOMAIN mg' = MgFields /\ pc' \notin Later \union AddPcs
    BY <1>0, <1>1 DEF Later, AddPcs
  <2> QED BY <1>0, <2>1, Established
<1>2. CASE pc' = "collect" /\ ~(~UsageOk \/ ~ValidateConfigLists(fw, vn, keys))
           /\ mg' = [mg EXCEPT !.fw = fw, !.vn = vn, !.keys = keys,
                                !.fwSet = ItemListToPartitionSet(fw), !.vnSet = ItemListToPartitionSet(vn)]
  <2>1. OneContexts(job.fw, TRUE) /\ OneContexts(job.vn, FALSE) /\ ListsTidy(job)
    BY <1>0, MergeJob
  <2>2. ItemListToPartitionSet(fw) \intersect ItemListToPartitionSet(vn) = {}
    BY <1>2 DEF ValidateConfigLists
  <2>3. Tidy(fw, TRUE) /\ Tidy(vn, FALSE)
    <3>1. (mo.fw_items # None => Tidy(fw, TRUE)) /\ (mo.vn_items # None => Tidy(vn, FALSE))
      BY <2>1, <2>2 DEF ListsTidy, mo
    <3>2. Tidy(InferItemList(job.fw, TRUE), TRUE) /\ Tidy(InferItemList(job.vn, FALSE), FALSE)
      BY <2>1, InferredTidy DEF OneContexts
    <3> QED BY <3>1, <3>2 DEF OrElse
  <2> HIDE DEF fw, vn, keys
  <2>4. /\ DOMAIN mg' = MgFields /\ mg'.nested = mg.nested /\ mg'.fw = fw /\ mg'.vn = vn
        /\ mg'.fwSet = ItemListToPartitionSet(fw) /\ mg'.vnSet = ItemListToPartitionSet(vn)
    BY <1>0, <1>2 DEF MgFields
  <2>5. ListsRead'
    BY <2>3, <2>4 DEF ListsRead, Tidy, Expected
  <2>6. pc' = "collect" /\ pc' \notin Later \union AddPcs /\ pc' \in MergePcs /\ ~mg'.nested
    BY <1>0, <1>2, <2>4 DEF Later, AddPcs, MergePcs
  <2> QED BY <1>0, <2>4, <2>5, <2>6, Established
<1> QED BY <1>1, <1>2 DEF ParseMergeOptions

(* What a list takes from its build is of the partitions of that build.      *)
LEMMA TakenOwned ==
  ASSUME NEW build, NEW items, NEW framework \in BOOLEAN, Tidy(items, framework), NEW f \in DOMAIN CollectTargetFiles(build, items)
  PROVE  /\ f \in DOMAIN build /\ CollectTargetFiles(build, items)[f] = build[f]
         /\ f[1] \notin NotADirectory => Expected(f[1], framework)
         /\ f[1] = "IMAGES" => Expected(f[2], framework)
<1>1. f \in DOMAIN build /\ CollectTargetFiles(build, items)[f] = build[f]
  BY DEF CollectTargetFiles, Restrict
<1>2. PICK i \in items : i = f \/ (i[1] = f[1] /\ i[2] = "*")
  BY DEF CollectTargetFiles, Restrict, Matches
<1>3. f[1] \notin NotADirectory => f[1] \in ItemListToPartitionSet(items)
  BY <1>2 DEF ItemListToPartitionSet
<1>4. f[1] = "IMAGES" => f[2] \in ItemListToPartitionSet(items)
  BY <1>2 DEF ItemListToPartitionSet, Tidy
<1> QED BY <1>1, <1>3, <1>4 DEF Tidy

LEMMA CollectStep ==
  ASSUME job.kind = "merge", MergeInv, CreateMergedPackage
  PROVE  MergeInv'
<1> DEFINE boot == IF mo.boot_dir = None THEN <<>> ELSE Img("boot") <: mo.boot_dir
           vn == CollectTargetFiles(job.vn, mg.vn)
           fw == CollectTargetFiles(job.fw, mg.fw)
<1>0. /\ job \in Jobs /\ DOMAIN mg = MgFields /\ opt.zip = FALSE /\ zip = None /\ ~mg.nested /\ ListsRead
      /\ job' = job /\ opt' = opt /\ zip' = zip /\ mg' = mg /\ pc' = "meta"
  BY DEF MergeInv, CreateMergedPackage, AddPcs
<1>1. OneContexts(job.fw, TRUE) /\ OneContexts(job.vn, FALSE) /\ Tidy(mg.fw, TRUE) /\ Tidy(mg.vn, FALSE)
  BY <1>0, MergeJob DEF ListsRead
<1>2. t' = boot ++ vn ++ fw
  BY DEF CreateMergedPackage
<1>3. DOMAIN boot \subseteq {Img("boot")}
  <2>1. DOMAIN <<>> = {}
    OBVIOUS
  <2> QED BY <2>1, OneDomain
<1>4. \A f \in DOMAIN vn : /\ f \in DOMAIN job.vn /\ vn[f] = job.vn[f]
                           /\ f[1] \notin NotADirectory => f[1] \notin FrameworkPartitions
                           /\ f[1] = "IMAGES" => f[2] \notin FrameworkPartitions
  <2>1. \A p : Expected(p, FALSE) => p \notin FrameworkPartitions
    BY DEF Expected
  <2>2. ASSUME NEW f \in DOMAIN vn
        PROVE  /\ f \in DOMAIN job.vn /\ vn[f] = job.vn[f]
               /\ f[1] \notin NotADirectory => Expected(f[1], FALSE)
               /\ f[1] = "IMAGES" => Expected(f[2], FALSE)
    BY <1>1, TakenOwned
  <2> QED BY <2>1, <2>2
<1>5. \A f \in DOMAIN fw : /\ f \in DOMAIN job.fw /\ fw[f] = job.fw[f]
                           /\ f[1] \notin NotADirectory => f[1] \in FrameworkPartitions
                           /\ f[1] = "IMAGES" => f[2] \in FrameworkPartitions
  <2>1. \A p : Expected(p, TRUE) => p \in FrameworkPartitions
    BY DEF Expected
  <2>2. ASSUME NEW f \in DOMAIN fw
        PROVE  /\ f \in DOMAIN job.fw /\ fw[f] = job.fw[f]
               /\ f[1] \notin NotADirectory => Expected(f[1], TRUE)
               /\ f[1] = "IMAGES" => Expected(f[2], TRUE)
    BY <1>1, TakenOwned
  <2> QED BY <2>1, <2>2
<1> HIDE DEF boot, vn, fw
<1>6. \A f \in DOMAIN t' : \/ f = Img("boot") \/ (f \in DOMAIN vn /\ t'[f] = vn[f]) \/ (f \in DOMAIN fw /\ t'[f] = fw[f])
  BY <1>2, <1>3 DEF ++
<1>7. Img("boot")[1] = "IMAGES" /\ Partitions \intersect NotADirectory = {} /\ "IMAGES" \notin Partitions
  BY PartitionNames DEF NotADirectory, Img
<1>8. \A f \in DOMAIN t' : f[1] \in Partitions => f \in DOMAIN Owner(f[1]) /\ t'[f] = Owner(f[1])[f]
  BY <1>4, <1>5, <1>6, <1>7 DEF Owner
<1>9. FilesOwned(t') /\ DirsOwned(t', Partitions)
  BY <1>8 DEF FilesOwned, DirsOwned, IsDir, Files
<1>10. ImagesOwned(t', Partitions)
  <2> SUFFICES ASSUME NEW p \in Partitions, Img(p) \in DOMAIN t', t'[Img(p)].type = "fs" PROVE t'[Img(p)].fc \in Fcs(p)
    BY DEF ImagesOwned
  <2>1. Img(p)[1] = "IMAGES" /\ Img(p)[2] = p /\ Img(p) # Img("boot")
    BY PartitionNames DEF Img
  <2>2. Img(p) \in DOMAIN Owner(p) /\ t'[Img(p)] = Owner(p)[Img(p)]
    BY <1>4, <1>5, <1>6, <2>1 DEF Owner
  <2>3. Owner(p)[Img(p)].fc = Fc(p)
    <3>1. CASE p \in FrameworkPartitions
      BY <1>1, <2>2, <3>1 DEF OneContexts, Expected, Owner, Fc
    <3>2. CASE p \notin FrameworkPartitions
      BY <1>1, <2>2, <3>2 DEF OneContexts, Expected, Owner, Fc
    <3> QED BY <3>1, <3>2
  <2> QED BY <2>2, <2>3 DEF Fcs
<1>11. BlobsOnly(t')
  BY <1>1, <1>4, <1>5, <1>6, <1>7 DEF BlobsOnly, OneContexts
<1>12. Collected(t') /\ ListsRead'
  BY <1>0, <1>9, <1>10, <1>11 DEF Collected, ListsRead
<1>13. pc' \notin Later \union AddPcs /\ pc' \in MergePcs
  BY <1>0 DEF Later, AddPcs, MergePcs
<1> QED BY <1>0, <1>12, <1>13, Established

-----------------------------------------------------------------------------
(* META: the keys and the dictionary of the merged package.                  *)

LEMMA KeysMerged ==
  ASSUME job.kind = "merge", job \in Jobs, ListsRead, NEW n \in {"apkcerts", "apexkeys"}, NEW dup,
         NEW m, m = MergePackageKeys(FwMeta(n), VnMeta(n), mg.fwSet, mg.vnSet, dup), m # None, NEW a \in DOMAIN m
  PROVE  a \in DOMAIN Owner(m[a].partition)[Meta(n)] /\ Owner(m[a].partition)[Meta(n)][a] = m[a]
<1>1. FwMeta(n) = job.fw[Meta(n)] /\ VnMeta(n) = job.vn[Meta(n)]
  BY MergeJob DEF OneContexts, FwMeta, VnMeta, Get
<1> DEFINE f == job.fw[Meta(n)]
           v == job.vn[Meta(n)]
           ours == {x \in DOMAIN f : f[x].partition \in mg.fwSet}
           theirs == {x \in DOMAIN v : v[x].partition \in mg.vnSet}
<1>2. m = Restrict(f, ours) ++ Restrict(v, theirs)
  BY <1>1 DEF MergePackageKeys
<1>3. (a \in ours /\ m[a] = f[a]) \/ (a \in theirs /\ m[a] = v[a])
  <2> HIDE DEF ours, theirs, f, v
  <2> QED BY <1>2 DEF ++, Restrict
<1>4. CASE a \in ours /\ m[a] = f[a]
  BY <1>4 DEF ListsRead, Owner
<1>5. CASE a \in theirs /\ m[a] = v[a]
  BY <1>5 DEF ListsRead, Owner
<1> QED BY <1>3, <1>4, <1>5

\* The name of the file of file contexts of a partition in a merged package.
ContextsOf(p) == IF FcKey(p) \in DOMAIN FwMeta("misc_info") THEN "framework_file_contexts" ELSE "vendor_file_contexts"

LEMMA NamedContexts ==
  ASSUME job.kind = "merge", job \in Jobs, NEW d, NEW p \in Partitions, IsDir(Owner(p), p),
         d = MergeMiscInfo(FwMeta("misc_info"), VnMeta("misc_info"), mg.keys)
  PROVE  /\ FcKey(p) \in DOMAIN Contexts(d) /\ Contexts(d)[FcKey(p)] = ContextsOf(p)
         /\ p \in FrameworkPartitions => ContextsOf(p) = "framework_file_contexts"
<1> DEFINE f == FwMeta("misc_info")
           v == VnMeta("misc_info")
           A == [k \in FcKeys(f) |-> "framework_file_contexts"]
           B == [k \in FcKeys(d) |-> "vendor_file_contexts"]
<1>1. f = job.fw[Meta("misc_info")] /\ v = job.vn[Meta("misc_info")]
  BY MergeJob DEF OneContexts, FwMeta, VnMeta, Get
<1>2. FcKey(p)[1] = "selinux_fc"
  BY DEF FcKey
<1>3. /\ p \in FrameworkPartitions => FcKey(p) \in DOMAIN f
      /\ p \notin FrameworkPartitions => FcKey(p) \in DOMAIN v
  <2>1. CASE p \in FrameworkPartitions
    BY <1>1, <2>1, MergeJob DEF OneContexts, Expected, Owner
  <2>2. CASE p \notin FrameworkPartitions
    <3>1. Expected(p, FALSE)
      BY <2>2 DEF Expected
    <3>2. IsDir(job.vn, p)
      BY <2>2 DEF Owner
    <3>3. OneContexts(job.vn, FALSE)
      BY MergeJob
    <3> QED BY <1>1, <2>2, <3>1, <3>2, <3>3 DEF OneContexts
  <2> QED BY <2>1, <2>2
<1>4. Contexts(d) = A ++ B ++ d
  BY DEF Contexts, CopyNamedFileContexts
<1>5. CASE FcKey(p) \in DOMAIN f
  <2>1. FcKey(p) \in DOMAIN A /\ A[FcKey(p)] = "framework_file_contexts"
    BY <1>2, <1>5 DEF FcKeys
  <2>2. ContextsOf(p) = "framework_file_contexts"
    BY <1>5 DEF ContextsOf
  <2> HIDE DEF A, B
  <2> QED BY <1>4, <2>1, <2>2 DEF ++
<1>6. CASE FcKey(p) \notin DOMAIN f
  <2>1. FcKey(p) \in DOMAIN d
    <3> DEFINE own == Restrict(f, mg.keys \intersect DOMAIN f) ++ v
    <3>1. FcKey(p) \in DOMAIN own
      <4>1. PICK g : g = Restrict(f, mg.keys \intersect DOMAIN f)
        OBVIOUS
      <4> QED BY <1>3, <1>6, <4>1 DEF ++
    <3>2. \E g : d = g ++ own
      BY DEF MergeMiscInfo
    <3> HIDE DEF own
    <3> QED BY <3>1, <3>2 DEF ++
  <2>2. FcKey(p) \notin DOMAIN A /\ FcKey(p) \in DOMAIN B /\ B[FcKey(p)] = "vendor_file_contexts"
    BY <1>2, <1>6, <2>1 DEF FcKeys
  <2>3. ContextsOf(p) = "vendor_file_contexts"
    BY <1>6 DEF ContextsOf
  <2> HIDE DEF A, B
  <2> QED BY <1>3, <1>4, <1>6, <2>2, <2>3 DEF ++
<1> QED BY <1>5, <1>6

LEMMA DynamicInfoKeys ==
  ASSUME job.kind = "merge", job \in Jobs, MergedDynamicInfo # None
  PROVE  \A p : FcKey(p) \notin DOMAIN MergedDynamicInfo
<1> DEFINE f == FwMeta("dynamic_partitions_info")
           v == VnMeta("dynamic_partitions_info")
           groups == v[<<"super_partition_groups">>]
           devices == OrElse(Get(v, <<"super_block_devices">>), {})
           needed == {<<"super_group_size", g>> : g \in groups} \union {<<"super_device_size", d>> : d \in devices}
           common == {k \in DOMAIN v \intersect DOMAIN f : f[k] = v[k]}
           vendors == {k \in DOMAIN v : k[1] \in {"super_block_devices", "super_partition_groups", "virtual_ab", "super_metadata_device"}}
           cow == <<"vabc_cow_version">>
           versions == IF cow \in DOMAIN f \intersect DOMAIN v THEN {f[cow], v[cow]} ELSE {2}
           A == [k \in {<<"super_partition_list", g>> : g \in groups} \union {<<"dynamic_partition_list">>} |-> UniqConcat(f, v, k)]
           B == cow <: Min(versions)
           C == Restrict(v, needed \union vendors \union common)
<1>1. v # None /\ MergedDynamicInfo = MergeDynamicPartitionInfoDicts(f, v)
  BY DEF MergedDynamicInfo
<1>2. MergedDynamicInfo = A ++ B ++ C
  BY <1>1 DEF MergeDynamicPartitionInfoDicts
<1>3. \A p : FcKey(p) \notin DOMAIN v
  <2>1. v = Get(job.vn, Meta("dynamic_partitions_info")) /\ OrElse(v, <<>>) = v
    BY <1>1 DEF VnMeta, OrElse
  <2>2. FcKeys(v) = {}
    BY <2>1, MergeJob
  <2>3. \A p : FcKey(p)[1] = "selinux_fc"
    BY DEF FcKey
  <2> QED BY <2>2, <2>3 DEF FcKeys
<1>4. \A p : FcKey(p) \notin DOMAIN A
  BY DEF FcKey
<1>5. \A p : FcKey(p) \notin DOMAIN B
  <2>1. DOMAIN B = {cow}
    BY OneDomain
  <2>2. \A p : FcKey(p) # cow
    BY DEF FcKey
  <2> QED BY <2>1, <2>2
<1>6. \A p : FcKey(p) \notin DOMAIN C
  <2>1. \A p : FcKey(p) \notin needed
    BY DEF FcKey
  <2>2. DOMAIN C = needed \union vendors \union common /\ vendors \subseteq DOMAIN v /\ common \subseteq DOMAIN v
    BY DEF Restrict
  <2> HIDE DEF needed, vendors, common, C, v
  <2> QED BY <1>3, <2>1, <2>2
<1> HIDE DEF A, B, C
<1> QED BY <1>2, <1>4, <1>5, <1>6 DEF ++

LEMMA FinalDict ==
  ASSUME job.kind = "merge", job \in Jobs, NEW d, NEW p \in Partitions, IsDir(Owner(p), p),
         d = MergeMiscInfo(FwMeta("misc_info"), VnMeta("misc_info"), mg.keys), WithImageSizes(WithDynamicInfo(Contexts(d))) # None
  PROVE  LET final == WithImageSizes(WithDynamicInfo(Contexts(d)))
         IN  /\ FcKey(p) \in DOMAIN final /\ final[FcKey(p)] = ContextsOf(p)
             /\ p \in FrameworkPartitions => ContextsOf(p) = "framework_file_contexts"
<1>1. PICK one : one = Contexts(d)
  OBVIOUS
<1>2. PICK two : two = WithDynamicInfo(one)
  OBVIOUS
<1>3. FcKey(p) \in DOMAIN one /\ one[FcKey(p)] = ContextsOf(p)
  BY <1>1, NamedContexts
<1>4. two # None
  BY <1>1, <1>2 DEF WithImageSizes
<1>5. FcKey(p) \in DOMAIN two /\ two[FcKey(p)] = ContextsOf(p)
  <2>1. CASE two = one
    BY <1>3, <2>1
  <2>2. CASE two # one
    <3> DEFINE new == <<"build_super_partition">> <: "true"
    <3>1. MergedDynamicInfo # None /\ two = new ++ MergedDynamicInfo ++ one
      BY <1>2, <1>4, <2>2 DEF WithDynamicInfo
    <3>2. FcKey(p) \notin DOMAIN new /\ FcKey(p) \notin DOMAIN MergedDynamicInfo
      <4>1. DOMAIN new = {<<"build_super_partition">>}
        BY OneDomain
      <4>2. FcKey(p) # <<"build_super_partition">>
        BY DEF FcKey
      <4> QED BY <3>1, <4>1, <4>2, DynamicInfoKeys
    <3> HIDE DEF new
    <3> QED BY <1>3, <3>1, <3>2 DEF ++
  <2> QED BY <2>1, <2>2
<1>6. PICK final : final = WithImageSizes(two)
  OBVIOUS
<1>7. FcKey(p) \in DOMAIN final /\ final[FcKey(p)] = ContextsOf(p)
  <2>1. CASE final = two
    BY <1>5, <2>1
  <2>2. CASE final # two
    <3> DEFINE present == {q \in PartitionsWithCareMap : Img(q) \in DOMAIN t}
               new == [k \in {<<"image_size", q>> : q \in present} |-> CalculateMaxImageSize(t[Img(k[2])].partition_size)]
    <3>1. final = new ++ two
      BY <1>1, <1>2, <1>6, <2>2 DEF WithImageSizes, UpdateCareMapImageSizeProps
    <3>2. FcKey(p) \notin DOMAIN new
      BY DEF FcKey
    <3> HIDE DEF new
    <3> QED BY <1>5, <3>1, <3>2 DEF ++
  <2> QED BY <2>1, <2>2
<1>8. p \in FrameworkPartitions => ContextsOf(p) = "framework_file_contexts"
  BY NamedContexts
<1> QED BY <1>1, <1>2, <1>6, <1>7, <1>8

LEMMA MetaStep ==
  ASSUME job.kind = "merge", MergeInv, MergeMetaFiles
  PROVE  MergeInv'
<1> DEFINE misc == MergeMiscInfo(FwMeta("misc_info"), VnMeta("misc_info"), mg.keys)
           ab == True(misc, <<"ab_update">>)
           final == WithImageSizes(WithDynamicInfo(Contexts(misc)))
           fwc == FcSource(job.fw, "framework_file_contexts")
           vnc == FcSource(job.vn, "vendor_file_contexts")
           contexts == ("framework_file_contexts" <: fwc) ++ ("vendor_file_contexts" <: vnc)
           keys == [n \in {"apkcerts", "apexkeys"} |-> MergePackageKeys(FwMeta(n), VnMeta(n), mg.fwSet, mg.vnSet, mo.duplicates)]
           update == IF ~ab THEN <<>>
                     ELSE ("ab_partitions" <: MergeAbPartitions(FwMeta("ab_partitions"), VnMeta("ab_partitions"), mg.fwSet, mo.partial))
                          ++ ("update_engine_config" <: MergeUpdateEngineConfig(FwMeta("update_engine_config"), VnMeta("update_engine_config"), mo.partial))
                          ++ ("postinstall_config" <: MergePostinstallConfig(LoadKeyValueText(job.fw, "postinstall_config"),
                                                                             LoadKeyValueText(job.vn, "postinstall_config")))
           dynamic == IF True(misc, <<"use_dynamic_partitions">>) THEN "dynamic_partitions_info" <: MergedDynamicInfo ELSE <<>>
           files == ("misc_info" <: final) ++ contexts ++ keys ++ update ++ dynamic
<1>0. /\ job \in Jobs /\ DOMAIN mg = MgFields /\ opt.zip = FALSE /\ zip = None /\ ~mg.nested /\ ListsRead /\ Collected(t)
      /\ job' = job /\ opt' = opt /\ zip' = zip /\ mg' = mg /\ ListsRead'
  BY DEF MergeInv, MergeMetaFiles, AddPcs, ListsRead
<1>1. \/ pc' = "failed" /\ t' = t
      \/ pc' = "dexopt" /\ None \notin Range(files) /\ t' = [f \in {Meta(n) : n \in DOMAIN files} |-> files[f[2]]] ++ t
  BY DEF MergeMetaFiles
<1>2. CASE pc' = "failed"
  <2>1. pc' \notin Later \union AddPcs
    BY <1>2 DEF Later, AddPcs
  <2> QED BY <1>0, <1>2, <2>1, Established
<1>3. CASE pc' = "dexopt" /\ None \notin Range(files) /\ t' = [f \in {Meta(n) : n \in DOMAIN files} |-> files[f[2]]] ++ t
  <2>1. /\ DOMAIN contexts = {"framework_file_contexts", "vendor_file_contexts"}
        /\ contexts["framework_file_contexts"] = fwc /\ contexts["vendor_file_contexts"] = vnc
    <3> HIDE DEF fwc, vnc
    <3> QED BY DEF ++, <:
  <2>2. DOMAIN ("misc_info" <: final) = {"misc_info"} /\ ("misc_info" <: final)["misc_info"] = final
    BY OneDomain
  <2>3. PICK A : A = ("misc_info" <: final)
    OBVIOUS
  <2>4. DOMAIN keys = {"apkcerts", "apexkeys"}
    OBVIOUS
  <2> HIDE DEF contexts, keys, update, dynamic
  <2>5. PICK out : out = files
    OBVIOUS
  <2>6. /\ {"misc_info", "framework_file_contexts", "vendor_file_contexts", "apkcerts", "apexkeys"} \subseteq DOMAIN out
        /\ out["misc_info"] = final /\ out["framework_file_contexts"] = fwc /\ out["vendor_file_contexts"] = vnc
        /\ \A n \in {"apkcerts", "apexkeys"} : out[n] = keys[n]
    <3> HIDE DEF final, fwc, vnc
    <3>1. out = A ++ contexts ++ keys ++ update ++ dynamic /\ DOMAIN A = {"misc_info"} /\ A["misc_info"] = final
      BY <2>2, <2>3, <2>5
    <3> QED BY <2>1, <2>4, <3>1 DEF ++
  <2>7. \A n \in DOMAIN out : out[n] # None
    BY <1>3, <2>5 DEF Range
  <2>8. t' = [f \in {Meta(n) : n \in DOMAIN out} |-> out[f[2]]] ++ t
    BY <1>3, <2>5
  <2> HIDE DEF files, final, fwc, vnc
  <2>9. \A n : Meta(n)[1] = "META" /\ Meta(n)[2] = n
    BY DEF Meta
  <2>10. \A n \in DOMAIN out : Meta(n) \in DOMAIN t' /\ t'[Meta(n)] = out[n]
    BY <2>8, <2>9 DEF ++
  <2>11. \A f \in DOMAIN t' : f[1] # "META" => f \in DOMAIN t /\ t'[f] = t[f]
    BY <2>8, <2>9 DEF ++
  <2>12. "META" \notin Partitions
    BY PartitionNames
  <2>13. Collected(t')
    BY <1>0, <2>11, <2>12 DEF Collected, FilesOwned, DirsOwned, ImagesOwned, BlobsOnly, IsDir, Files, Img
  <2>14. KeysOwned(t')
    <3> SUFFICES ASSUME NEW n \in {"apkcerts", "apexkeys"}
                 PROVE  /\ Meta(n) \in DOMAIN t'
                        /\ \A a \in DOMAIN t'[Meta(n)] :
                             LET entry == t'[Meta(n)][a]
                             IN a \in DOMAIN Owner(entry.partition)[Meta(n)] /\ Owner(entry.partition)[Meta(n)][a] = entry
      BY DEF KeysOwned
    <3>1. Meta(n) \in DOMAIN t' /\ t'[Meta(n)] = keys[n] /\ keys[n] # None
      BY <2>6, <2>7, <2>10
    <3>2. keys[n] = MergePackageKeys(FwMeta(n), VnMeta(n), mg.fwSet, mg.vnSet, mo.duplicates)
      BY DEF keys
    <3>3. PICK m, dup : m = keys[n] /\ dup = mo.duplicates
      OBVIOUS
    <3>4. \A a \in DOMAIN m : a \in DOMAIN Owner(m[a].partition)[Meta(n)] /\ Owner(m[a].partition)[Meta(n)][a] = m[a]
      BY <1>0, <3>1, <3>2, <3>3, KeysMerged
    <3> QED BY <3>1, <3>3, <3>4
  <2>15. DictNames(t', Partitions)
    <3>1. Meta("misc_info") \in DOMAIN t' /\ t'[Meta("misc_info")] = final /\ final # None
      BY <2>6, <2>7, <2>10
    <3>2. fwc = FwFc /\ \A p \in Partitions : Fc(p) = IF p \in FrameworkPartitions THEN fwc ELSE vnc
      BY DEF fwc, vnc, FwFc, Fc, FcName, Owner
    <3>3. ASSUME NEW p \in Partitions, IsDir(Owner(p), p)
          PROVE  /\ FcKey(p) \in DOMAIN final /\ final[FcKey(p)] = ContextsOf(p) /\ ContextsOf(p) \in ContextFiles
                 /\ Meta(ContextsOf(p)) \in DOMAIN t' /\ t'[Meta(ContextsOf(p))] \in Fcs(p)
      <4>1. PICK d : d = misc
        OBVIOUS
      <4>2. final = WithImageSizes(WithDynamicInfo(Contexts(d)))
        BY <4>1 DEF final
      <4>3. /\ FcKey(p) \in DOMAIN final /\ final[FcKey(p)] = ContextsOf(p)
            /\ p \in FrameworkPartitions => ContextsOf(p) = "framework_file_contexts"
        BY <1>0, <3>1, <3>3, <4>1, <4>2, FinalDict
      <4>4. ContextsOf(p) \in ContextFiles /\ Meta(ContextsOf(p)) \in DOMAIN t' /\ t'[Meta(ContextsOf(p))] = out[ContextsOf(p)]
        BY <2>6, <2>10 DEF ContextsOf, ContextFiles
      <4>5. out[ContextsOf(p)] \in Fcs(p)
        BY <2>6, <3>2, <4>3 DEF ContextsOf, Fcs
      <4> QED BY <4>3, <4>4, <4>5
    <3> QED BY <3>1, <3>3 DEF DictNames
  <2>16. Whole(t')
    BY <2>13, <2>14, <2>15 DEF Whole
  <2>17. pc' = "dexopt" /\ pc' \notin AddPcs /\ pc' \in MergePcs
    BY <1>3 DEF AddPcs, MergePcs
  <2> QED BY <1>0, <2>16, <2>17, Established
<1> QED BY <1>1, <1>2, <1>3

-----------------------------------------------------------------------------
(* The later steps of merge_target_files.                                    *)

(* What a later step may put into a merged package.                          *)
Harmless(f, v) ==
  /\ f[1] \notin {"BOOTABLE_IMAGES", "RADIO"}
  /\ f[1] \in Partitions => f[2] \in Added /\ IsDir(Owner(f[1]), f[1])
  /\ f[1] = "META" => f[2] \notin {"misc_info", "apkcerts", "apexkeys"} \union ContextFiles
  /\ \A p \in Partitions : f = Img(p) /\ v.type = "fs" => v.fc \in Fcs(p)

LEMMA Adds ==
  ASSUME NEW tree, NEW new, Whole(tree), \A f \in DOMAIN new : Harmless(f, new[f])
  PROVE  Whole(new ++ tree)
<1>1. PICK big : big = new ++ tree
  OBVIOUS
<1>2. /\ DOMAIN tree \subseteq DOMAIN big
      /\ \A f \in DOMAIN big : (f \in DOMAIN tree /\ f \notin DOMAIN new /\ big[f] = tree[f]) \/ (f \in DOMAIN new /\ big[f] = new[f])
  BY <1>1 DEF ++
<1>3. \A f \in DOMAIN big : (f \in DOMAIN tree /\ big[f] = tree[f]) \/ Harmless(f, big[f])
  BY <1>2
<1>4. \A n \in {"misc_info", "apkcerts", "apexkeys"} \union ContextFiles : Meta(n) \in DOMAIN tree => Meta(n) \in DOMAIN big /\ big[Meta(n)] = tree[Meta(n)]
  <2>1. \A n : Meta(n)[1] = "META" /\ Meta(n)[2] = n
    BY DEF Meta
  <2> QED BY <1>2, <2>1 DEF Harmless
<1>5. FilesOwned(big) /\ BlobsOnly(big)
  BY <1>3 DEF Harmless, Whole, Collected, FilesOwned, BlobsOnly
<1>6. DirsOwned(big, Partitions)
  BY <1>3 DEF Harmless, Whole, Collected, DirsOwned, IsDir, Files
<1>7. ImagesOwned(big, Partitions)
  BY <1>3 DEF Harmless, Whole, Collected, ImagesOwned
<1>8. KeysOwned(big)
  BY <1>4 DEF Whole, KeysOwned
<1>9. DictNames(big, Partitions)
  BY <1>4 DEF Whole, DictNames
<1> QED BY <1>1, <1>5, <1>6, <1>7, <1>8, <1>9 DEF Whole, Collected

LEMMA Drops ==
  ASSUME NEW tree, NEW p, Whole(tree)
  PROVE  Whole(Without(tree, {Img(p)}))
<1>1. PICK small : small = Without(tree, {Img(p)})
  OBVIOUS
<1>2. DOMAIN small = DOMAIN tree \ {Img(p)} /\ \A f \in DOMAIN small : small[f] = tree[f]
  BY <1>1 DEF Without, Restrict
<1>3. \A n : Meta(n) \in DOMAIN tree => Meta(n) \in DOMAIN small /\ small[Meta(n)] = tree[Meta(n)]
  BY <1>2 DEF Meta, Img
<1>4. Collected(small)
  BY <1>2 DEF Whole, Collected, FilesOwned, BlobsOnly, DirsOwned, ImagesOwned, IsDir, Files
<1>5. KeysOwned(small) /\ DictNames(small, Partitions)
  BY <1>3 DEF Whole, KeysOwned, DictNames
<1> QED BY <1>1, <1>4, <1>5 DEF Whole

LEMMA VendorThere ==
  ASSUME job.kind = "merge", job \in Jobs
  PROVE  IsDir(Owner("vendor"), "vendor") /\ {"vendor", "odm"} \subseteq VendorOnly /\ "vendor" \in Partitions
<1>1. "vendor" \notin FrameworkPartitions
  BY DEF FrameworkPartitions
<1> QED BY <1>1, MergeJob, PartitionNames DEF Owner

LEMMA MetaHarmless ==
  ASSUME NEW n, NEW v, n \notin {"misc_info", "apkcerts", "apexkeys"} \union ContextFiles
  PROVE  Harmless(Meta(n), v)
BY PartitionNames DEF Harmless, Meta, Img

LEMMA DexoptStep ==
  ASSUME job.kind = "merge", MergeInv, MergeDexopt
  PROVE  MergeInv'
<1> DEFINE wanted == True(t[Meta("misc_info")], <<"building_with_vsdk">>) /\ mo.dexpreopt # None
           apps == IF wanted THEN {a \in mo.dexpreopt : <<"vendor", a>> \in DOMAIN t} ELSE {}
           A == <<"vendor", "odex">> <: [apps |-> apps, against |-> Content(t, "system")]
           B == FsConfig("vendor") <: [own |-> Get(t, FsConfig("vendor")), odex |-> apps]
           compiled == IF apps = {} THEN <<>> ELSE A ++ B
           left == IF wanted THEN Without(t, {Img("vendor")}) ELSE t
<1>0. /\ job \in Jobs /\ DOMAIN mg = MgFields /\ opt.zip = FALSE /\ zip = None /\ ~mg.nested /\ ListsRead /\ Whole(t)
      /\ job' = job /\ opt' = opt /\ zip' = zip /\ mg' = mg /\ ListsRead' /\ pc' = "compatibility"
  BY DEF MergeInv, MergeDexopt, AddPcs, ListsRead
<1>1. t' = compiled ++ left
  BY DEF MergeDexopt
<1>2. Whole(left)
  BY <1>0, Drops
<1>3. DOMAIN compiled \subseteq {<<"vendor", "odex">>, FsConfig("vendor")}
  <2>0. DOMAIN <<>> = {}
    OBVIOUS
  <2>1. DOMAIN A = {<<"vendor", "odex">>} /\ DOMAIN B = {FsConfig("vendor")}
    <3>1. \A x, v : DOMAIN (x <: v) = {x}
      BY OneDomain
    <3> QED BY <3>1
  <2> HIDE DEF A, B
  <2> QED BY <2>0, <2>1 DEF ++
<1> HIDE DEF compiled, left
<1>4. \A f \in DOMAIN compiled : Harmless(f, compiled[f])
  <2>1. \A v : Harmless(<<"vendor", "odex">>, v)
    BY <1>0, VendorThere DEF Harmless, Added, Img
  <2>2. \A v : Harmless(FsConfig("vendor"), v)
    BY PartitionNames DEF Harmless, FsConfig, Img
  <2> QED BY <1>3, <2>1, <2>2
<1>5. Whole(t')
  <2>1. PICK new, tree : new = compiled /\ tree = left
    OBVIOUS
  <2> QED BY <1>1, <1>2, <1>4, <2>1, Adds
<1>6. pc' \notin AddPcs /\ pc' \in MergePcs
  BY <1>0 DEF AddPcs, MergePcs
<1> QED BY <1>0, <1>5, <1>6, Established

LEMMA CompatibilityStep ==
  ASSUME job.kind = "merge", MergeInv, CheckCompatibility
  PROVE  MergeInv'
<1>w. PICK wrong \in SUBSET (InitVerifiers \union SepolicyTools(t)) :
        t' = (IF CheckInitRcFiles(t) /\ SepolicyCompiles(t) /\ "secilc" \notin wrong
              THEN Meta("combined_sepolicy") <: CombinedSepolicy(t) ELSE <<>>)
             ++ (Meta("shareduid_violation_modules") <: SharedUids(t)) ++ t
  BY DEF CheckCompatibility
<1> DEFINE A == IF CheckInitRcFiles(t) /\ SepolicyCompiles(t) /\ "secilc" \notin wrong THEN Meta("combined_sepolicy") <: CombinedSepolicy(t) ELSE <<>>
           B == Meta("shareduid_violation_modules") <: SharedUids(t)
<1>0. /\ job \in Jobs /\ DOMAIN mg = MgFields /\ opt.zip = FALSE /\ zip = None /\ ~mg.nested /\ ListsRead /\ Whole(t)
      /\ job' = job /\ opt' = opt /\ zip' = zip /\ mg' = mg /\ ListsRead' /\ pc' \in {"sepolicy", "failed"}
  BY DEF MergeInv, CheckCompatibility, AddPcs, ListsRead
<1>1. t' = A ++ B ++ t
  BY <1>w
<1>2. DOMAIN A \subseteq {Meta("combined_sepolicy")} /\ DOMAIN B = {Meta("shareduid_violation_modules")}
  <2>1. DOMAIN <<>> = {}
    OBVIOUS
  <2> QED BY <2>1, OneDomain
<1> HIDE DEF A, B
<1>3. \A v : Harmless(Meta("combined_sepolicy"), v) /\ Harmless(Meta("shareduid_violation_modules"), v)
  BY MetaHarmless DEF ContextFiles
<1>4. A ++ B ++ t = (A ++ B) ++ t /\ DOMAIN (A ++ B) = DOMAIN A \union DOMAIN B
  BY DEF ++
<1>5. Whole(t')
  <2>1. PICK new, tree : new = A ++ B /\ tree = t
    OBVIOUS
  <2>2. \A f \in DOMAIN new : Harmless(f, new[f])
    BY <1>2, <1>3, <1>4, <2>1
  <2> QED BY <1>0, <1>1, <1>4, <2>1, <2>2, Adds
<1>6. pc' \notin AddPcs /\ pc' \in MergePcs \union {"failed"} /\ pc' # "meta"
  BY <1>0 DEF AddPcs, MergePcs
<1> QED BY <1>0, <1>5, <1>6, Established

LEMMA SepolicyCopied ==
  ASSUME job.kind = "merge", job \in Jobs, NEW tree, Whole(tree)
  PROVE  Whole(CopySelinuxFiles(tree, PolicyPartition(tree))) /\ PolicyPartition(tree) \in {"vendor", "odm"}
<1> DEFINE p == PolicyPartition(tree)
           hashes == {<<p, s>> : s \in {q \in {"system", "system_ext", "product"} : <<q, "policy_hash">> \in DOMAIN tree}}
           A == <<p, "precompiled_sepolicy">> <: tree[Meta("combined_sepolicy")]
           B == [f \in hashes |-> tree[<<f[2], "policy_hash">>]]
<1>1. p \in {"vendor", "odm"} /\ p \in Partitions /\ IsDir(Owner(p), p)
  BY VendorThere, PartitionNames DEF PolicyPartition, Whole, Collected, DirsOwned
<1>2. CopySelinuxFiles(tree, p) = A ++ B ++ tree
  BY DEF CopySelinuxFiles
<1>3. DOMAIN A = {<<p, "precompiled_sepolicy">>} /\ \A f \in DOMAIN B : \E s \in {"system", "system_ext", "product"} : f = <<p, s>>
  BY OneDomain
<1> HIDE DEF A, B, p
<1>4. \A s \in Added : \A v : Harmless(<<p, s>>, v)
  BY <1>1 DEF Harmless, Img
<1>5. PICK new : new = A ++ B
  OBVIOUS
<1>6. A ++ B ++ tree = new ++ tree /\ DOMAIN new = DOMAIN A \union DOMAIN B
  BY <1>5 DEF ++
<1>7. \A f \in DOMAIN new : \E s \in Added : f = <<p, s>>
  BY <1>3, <1>6 DEF Added
<1>8. \A f \in DOMAIN new : Harmless(f, new[f])
  BY <1>4, <1>7
<1>9. Whole(new ++ tree)
  BY <1>8, Adds
<1> QED BY <1>1, <1>2, <1>6, <1>9 DEF p

(* The package the vendor's tools are given.                                 *)
LEMMA VendorCopied ==
  ASSUME job.kind = "merge", job \in Jobs, NEW tree, NEW items, NEW p \in {"vendor", "odm"}, DirsOwned(tree, Partitions)
  PROVE  PartOfIt(Restrict(tree, Files(tree, p))
                  ++ Without(CollectTargetFiles(job.vn, IncludeExtra(items)), Files(job.vn, p) \union {Img(p)}), VendorOnly)
<1> DEFINE A == Restrict(tree, Files(tree, p))
           all == CollectTargetFiles(job.vn, IncludeExtra(items))
           B == Without(all, Files(job.vn, p) \union {Img(p)})
<1>0. OneContexts(job.vn, FALSE)
  BY MergeJob
<1>1. PICK copy : copy = A ++ B
  OBVIOUS
<1>2. \A f \in DOMAIN A : f \in DOMAIN tree /\ f[1] = p
  BY DEF Restrict, Files
<1>3. \A f \in DOMAIN all : f \in DOMAIN job.vn /\ all[f] = job.vn[f]
  BY DEF CollectTargetFiles, Restrict
<1>4. \A f \in DOMAIN job.vn : f[1] = "META" => f \in DOMAIN all
  <2>1. <<"META", "*">> \in IncludeExtra(items) /\ <<"META", "*">>[1] = "META" /\ <<"META", "*">>[2] = "*"
    BY DEF IncludeExtra
  <2> QED BY <2>1 DEF CollectTargetFiles, Restrict, Matches
<1> HIDE DEF all
<1>5. /\ \A f \in DOMAIN B : f \in DOMAIN job.vn /\ B[f] = job.vn[f]
      /\ \A f \in DOMAIN job.vn : f[1] = "META" => f \in DOMAIN B
  <2>1. DOMAIN B = DOMAIN all \ (Files(job.vn, p) \union {Img(p)}) /\ \A f \in DOMAIN B : B[f] = all[f]
    BY DEF Without, Restrict
  <2>2. Img(p)[1] # "META" /\ p # "META"
    BY DEF Img
  <2> QED BY <1>3, <1>4, <2>1, <2>2 DEF Files
<1> HIDE DEF A, B
<1>6. /\ \A f \in DOMAIN copy : (f \in DOMAIN tree /\ f[1] = p) \/ (f \in DOMAIN job.vn /\ copy[f] = job.vn[f])
      /\ \A f \in DOMAIN copy : f[1] # p => f \in DOMAIN job.vn /\ copy[f] = job.vn[f]
      /\ \A f \in DOMAIN job.vn : f[1] = "META" => f \in DOMAIN copy /\ copy[f] = job.vn[f]
  <2>1. p # "META"
    OBVIOUS
  <2> QED BY <1>1, <1>2, <1>5, <2>1 DEF ++
<1>7. \A q \in VendorOnly : Owner(q) = job.vn /\ q \in Partitions
  BY DEF VendorOnly, Owner
<1>8. DirsOwned(copy, VendorOnly)
  BY <1>6, <1>7 DEF DirsOwned, IsDir, Files
<1>9. ImagesOwned(copy, VendorOnly) /\ BlobsOnly(copy)
  <2>1. \A q : Img(q)[1] = "IMAGES" /\ "IMAGES" # p
    BY DEF Img
  <2>2. p \notin {"BOOTABLE_IMAGES", "RADIO"}
    OBVIOUS
  <2> QED BY <1>0, <1>6, <1>7, <2>1, <2>2 DEF ImagesOwned, BlobsOnly, OneContexts, Fc, Fcs, Expected, VendorOnly
<1>10. DictNames(copy, VendorOnly)
  <2> DEFINE misc == job.vn[Meta("misc_info")]
  <2>0. \A n : Meta(n)[1] = "META"
    BY DEF Meta
  <2>1. Meta("misc_info") \in DOMAIN copy /\ copy[Meta("misc_info")] = misc
    BY <1>0, <1>6, <2>0 DEF OneContexts
  <2>2. ASSUME NEW q \in VendorOnly, IsDir(Owner(q), q)
        PROVE  /\ FcKey(q) \in DOMAIN misc /\ misc[FcKey(q)] \in ContextFiles
               /\ Meta(misc[FcKey(q)]) \in DOMAIN copy /\ copy[Meta(misc[FcKey(q)])] \in Fcs(q)
    <3>1. q \in Partitions /\ Expected(q, FALSE) /\ IsDir(job.vn, q) /\ Fc(q) = FcSource(job.vn, FcName(q))
      BY <1>7, <2>2 DEF VendorOnly, Expected, Fc
    <3>2. /\ FcKey(q) \in DOMAIN misc /\ misc[FcKey(q)] \in ContextFiles
          /\ Fc(q) # None /\ Get(job.vn, Meta(misc[FcKey(q)])) = Fc(q)
      BY <1>0, <3>1 DEF OneContexts
    <3>3. Meta(misc[FcKey(q)]) \in DOMAIN job.vn /\ job.vn[Meta(misc[FcKey(q)])] = Fc(q)
      BY <3>2 DEF Get
    <3> QED BY <1>6, <2>0, <3>2, <3>3 DEF Fcs
  <2> HIDE DEF misc
  <2> QED BY <2>1, <2>2 DEF DictNames
<1> QED BY <1>1, <1>8, <1>9, <1>10 DEF PartOfIt, A, B, all

LEMMA WholeParts ==
  ASSUME NEW tree, Whole(tree)
  PROVE  PartOfIt(tree, Partitions)
BY DEF Whole, Collected, PartOfIt

LEMMA RebuildStep ==
  ASSUME job.kind = "merge", MergeInv, RebuildImageWithSepolicy
  PROVE  MergeInv'
<1> DEFINE p == PolicyPartition(t)
           tree == IF mo.rebuild_sepolicy THEN CopySelinuxFiles(t, p) ELSE t
           vendorCopy == Restrict(tree, Files(tree, p))
                         ++ Without(CollectTargetFiles(job.vn, IncludeExtra(mg.vn)), Files(job.vn, p) \union {Img(p)})
<1>0. /\ job \in Jobs /\ DOMAIN mg = MgFields /\ ~mg.nested /\ ListsRead /\ Whole(t) /\ job' = job
  BY DEF MergeInv, RebuildImageWithSepolicy, AddPcs
<1>1. Whole(tree) /\ p \in {"vendor", "odm"}
  BY <1>0, SepolicyCopied
<1>2. \/ t' = vendorCopy /\ mg' = [mg EXCEPT !.aside = tree, !.nested = TRUE] /\ StartAddImages(AddImgOptions)
      \/ t' \in {tree, Without(tree, {Img(p)})} /\ mg' = mg /\ StartAddImages([AddImgOptions EXCEPT !.resolve = mo.resolve])
  BY DEF RebuildImageWithSepolicy
<1>3. AddImgOptions.zip = FALSE /\ [AddImgOptions EXCEPT !.resolve = mo.resolve].zip = FALSE
  BY DEF AddImgOptions, Defaults
<1>4. pc' = "add_images" /\ opt'.zip = FALSE /\ zip' = None
  BY <1>2, <1>3 DEF StartAddImages
<1>5. pc' \in AddPcs /\ pc' \notin {"boot", "partitions", "meta", "failed", "exit"}
  BY <1>4 DEF AddPcs
<1>6. CASE t' = vendorCopy /\ mg' = [mg EXCEPT !.aside = tree, !.nested = TRUE]
  <2>1. PICK w : w = tree
    OBVIOUS
  <2>2. DOMAIN mg' = MgFields /\ mg'.nested = TRUE /\ mg'.aside = w /\ mg'.fw = mg.fw /\ mg'.vn = mg.vn /\ mg'.fwSet = mg.fwSet /\ mg'.vnSet = mg.vnSet
    <3> HIDE DEF tree
    <3> QED BY <1>0, <1>6, <2>1 DEF MgFields
  <2>3. ListsRead' /\ Counted' = VendorOnly
    BY <1>0, <2>2 DEF ListsRead, Counted
  <2>4. PartOfIt(t', Counted')
    <3>1. DirsOwned(w, Partitions)
      BY <1>1, <2>1 DEF Whole, Collected
    <3>2. PICK items, q : items = mg.vn /\ q = p
      OBVIOUS
    <3>3. t' = Restrict(w, Files(w, q)) ++ Without(CollectTargetFiles(job.vn, IncludeExtra(items)), Files(job.vn, q) \union {Img(q)})
      BY <1>6, <2>1, <3>2
    <3>4. PartOfIt(t', VendorOnly)
      <4> HIDE DEF p, tree, vendorCopy
      <4> QED BY <1>0, <1>1, <3>1, <3>2, <3>3, VendorCopied
    <3> QED BY <2>3, <3>4
  <2>5. mg'.nested /\ Whole(mg'.aside)
    BY <1>1, <2>1, <2>2
  <2> HIDE DEF tree, vendorCopy
  <2> QED BY <1>0, <1>4, <1>5, <2>2, <2>3, <2>4, <2>5, Established
<1>7. CASE t' \in {tree, Without(tree, {Img(p)})} /\ mg' = mg
  <2>1. PICK w, q : w = tree /\ q = p
    OBVIOUS
  <2>2. Whole(t')
    <3>1. Whole(w) /\ Whole(Without(w, {Img(q)})) /\ t' \in {w, Without(w, {Img(q)})}
      BY <1>1, <1>7, <2>1, Drops
    <3> QED BY <3>1
  <2>3. PartOfIt(t', Partitions) /\ Counted' = Partitions /\ ListsRead'
    BY <1>0, <1>7, <2>2, WholeParts DEF Counted, ListsRead
  <2> HIDE DEF tree
  <2> QED BY <1>0, <1>4, <1>5, <1>7, <2>2, <2>3, Established
<1> QED BY <1>2, <1>6, <1>7

LEMMA TakeStep ==
  ASSUME job.kind = "merge", MergeInv, TakeRebuiltImage
  PROVE  MergeInv'
<1> DEFINE p == PolicyPartition(mg.aside)
           taken == {Img(p)} \union (IF mo.rebuild_recovery THEN {<<"vendor", "recovery_patch">>} ELSE {})
<1>0. /\ job \in Jobs /\ DOMAIN mg = MgFields /\ ListsRead /\ mg.nested /\ Whole(mg.aside) /\ PartOfIt(t, VendorOnly) /\ job' = job
      /\ opt.zip = FALSE /\ zip = None
  BY DEF MergeInv, TakeRebuiltImage, AddPcs, Counted
<1>1. p \in {"vendor", "odm"} /\ p \in VendorOnly
  BY <1>0, SepolicyCopied, VendorThere
<1>2. CASE pc' = "failed" /\ UNCHANGED <<imgVars, mg>>
  <2>1. pc' = "failed" /\ pc' \notin Later \union AddPcs /\ opt' = opt /\ zip' = zip /\ mg' = mg
    BY <1>2 DEF Later, AddPcs, imgVars
  <2> QED BY <1>0, <2>1, Established
<1>3. CASE /\ t' = Restrict(t, taken \intersect DOMAIN t) ++ mg.aside
           /\ mg' = [mg EXCEPT !.aside = None, !.nested = FALSE]
           /\ StartAddImages([AddImgOptions EXCEPT !.resolve = mo.resolve])
  <2>1. [AddImgOptions EXCEPT !.resolve = mo.resolve].zip = FALSE
    BY DEF AddImgOptions, Defaults
  <2>2. pc' = "add_images" /\ opt'.zip = FALSE /\ zip' = None
    BY <1>3, <2>1 DEF StartAddImages
  <2>3. pc' \in AddPcs /\ pc' \notin {"boot", "partitions", "meta", "failed", "exit"}
    BY <2>2 DEF AddPcs
  <2>4. DOMAIN mg' = MgFields /\ mg'.nested = FALSE /\ mg'.fw = mg.fw /\ mg'.vn = mg.vn /\ mg'.fwSet = mg.fwSet /\ mg'.vnSet = mg.vnSet
    BY <1>0, <1>3 DEF MgFields
  <2>5. ListsRead' /\ Counted' = Partitions
    BY <1>0, <2>4 DEF ListsRead, Counted
  <2>6. Whole(t')
    <3>1. PICK new, tree : new = Restrict(t, taken \intersect DOMAIN t) /\ tree = mg.aside
      OBVIOUS
    <3>2. DOMAIN new = taken \intersect DOMAIN t /\ \A f \in DOMAIN new : new[f] = t[f]
      BY <3>1 DEF Restrict
    <3>3. \A f \in taken : f = Img(p) \/ f = <<"vendor", "recovery_patch">>
      OBVIOUS
    <3> HIDE DEF p, taken
    <3>4. \A v : Harmless(<<"vendor", "recovery_patch">>, v)
      BY <1>0, VendorThere DEF Harmless, Added, Img
    <3>5. ASSUME Img(p) \in DOMAIN t PROVE Harmless(Img(p), t[Img(p)])
      <4>1. t[Img(p)].type = "fs" => t[Img(p)].fc \in Fcs(p)
        BY <1>0, <1>1, <3>5 DEF PartOfIt, ImagesOwned
      <4>2. Img(p)[1] = "IMAGES" /\ \A q : Img(p) = Img(q) => p = q
        BY DEF Img
      <4>3. "IMAGES" \notin Partitions
        BY PartitionNames
      <4> QED BY <4>1, <4>2, <4>3 DEF Harmless
    <3>6. \A f \in DOMAIN new : Harmless(f, new[f])
      BY <3>2, <3>3, <3>4, <3>5
    <3>7. Whole(new ++ tree)
      BY <1>0, <3>1, <3>6, Adds
    <3> QED BY <1>3, <3>1, <3>7
  <2>7. PartOfIt(t', Partitions)
    BY <2>6, WholeParts
  <2> QED BY <1>0, <2>2, <2>3, <2>4, <2>5, <2>6, <2>7, Established
<1> QED BY <1>2, <1>3 DEF TakeRebuiltImage

LEMMA SuperEmptyStep ==
  ASSUME job.kind = "merge", MergeInv, GenerateSuperEmptyImage
  PROVE  MergeInv'
<1> DEFINE misc == t[Meta("misc_info")]
           dynamic == True(misc, <<"use_dynamic_partitions">>)
           new == IF dynamic THEN Img("super_empty") <: BuildSuperImageFromDict(misc) ELSE <<>>
<1>0. /\ job \in Jobs /\ DOMAIN mg = MgFields /\ opt.zip = FALSE /\ zip = None /\ ~mg.nested /\ ListsRead /\ Whole(t)
      /\ job' = job /\ opt' = opt /\ zip' = zip
  BY DEF MergeInv, GenerateSuperEmptyImage, AddPcs
<1>1. \/ pc' = "failed" /\ mg' = mg
      \/ pc' = "outputs" /\ t' = new ++ t /\ \E x : mg' = [mg EXCEPT !.super_empty = x]
  BY DEF GenerateSuperEmptyImage
<1>2. CASE pc' = "failed" /\ mg' = mg
  <2>1. pc' \notin Later \union AddPcs
    BY <1>2 DEF Later, AddPcs
  <2> QED BY <1>0, <1>2, <2>1, Established
<1>3. CASE pc' = "outputs" /\ t' = new ++ t /\ \E x : mg' = [mg EXCEPT !.super_empty = x]
  <2>1. DOMAIN new \subseteq {Img("super_empty")}
    <3>1. DOMAIN <<>> = {}
      OBVIOUS
    <3> QED BY <3>1, OneDomain
  <2> HIDE DEF new
  <2>2. \A v : Harmless(Img("super_empty"), v)
    BY PartitionNames DEF Harmless, Img
  <2>3. Whole(t')
    <3>1. PICK w, tree : w = new /\ tree = t
      OBVIOUS
    <3> QED BY <1>0, <1>3, <2>1, <2>2, <3>1, Adds
  <2>4. DOMAIN mg' = MgFields /\ mg'.nested = mg.nested /\ mg'.fw = mg.fw /\ mg'.vn = mg.vn /\ mg'.fwSet = mg.fwSet /\ mg'.vnSet = mg.vnSet
    BY <1>0, <1>3 DEF MgFields
  <2>5. ListsRead' /\ pc' \notin AddPcs /\ pc' \in MergePcs
    BY <1>0, <1>3, <2>4 DEF ListsRead, AddPcs, MergePcs
  <2> QED BY <1>0, <1>3, <2>3, <2>4, <2>5, Established
<1> QED BY <1>1, <1>2, <1>3

LEMMA ArchiveStep ==
  ASSUME job.kind = "merge", MergeInv, CreateTargetFilesArchive
  PROVE  MergeInv'
<1>0. /\ job \in Jobs /\ DOMAIN mg = MgFields /\ opt.zip = FALSE /\ zip = None /\ ~mg.nested /\ ListsRead /\ Whole(t)
      /\ job' = job /\ opt' = opt /\ zip' = zip /\ t' = t /\ pc' = "merged"
  BY DEF MergeInv, CreateTargetFilesArchive, AddPcs, imgVars
<1>1. \E x, y : mg' = [mg EXCEPT !.dir = x, !.archive = y]
  BY DEF CreateTargetFilesArchive
<1>2. DOMAIN mg' = MgFields /\ mg'.nested = mg.nested /\ mg'.fw = mg.fw /\ mg'.vn = mg.vn /\ mg'.fwSet = mg.fwSet /\ mg'.vnSet = mg.vnSet
  BY <1>0, <1>1 DEF MgFields
<1>3. ListsRead' /\ pc' \notin AddPcs
  BY <1>0, <1>2 DEF ListsRead, AddPcs
<1> QED BY <1>0, <1>2, <1>3, Established

LEMMA InitMerge == Init => MergeInv /\ OnlyMerged
<1> SUFFICES ASSUME Init PROVE MergeInv /\ OnlyMerged
  OBVIOUS
<1>1. job \in Jobs /\ job.kind \in {"image", "merge", "sign", "ota"}
  BY KindsAssumption DEF Init
<1>2. OnlyMerged
  BY <1>1 DEF Init, InitialStep, OnlyMerged, MergePcs
<1>3. ASSUME job.kind = "merge" PROVE MergeInv
  <2>1. pc = "merge_options" /\ opt = Defaults /\ zip = None
    BY <1>3 DEF Init, InitialStep, ImgInit
  <2>2. DOMAIN mg = MgFields /\ mg.nested = FALSE
    BY DEF Init, MergeInit, MgFields
  <2>3. opt.zip = FALSE
    BY <2>1 DEF Defaults
  <2> QED BY <1>1, <2>1, <2>2, <2>3 DEF MergeInv, MergePcs, AddPcs
<1> QED BY <1>2, <1>3 DEF MergeInv

\* No step of sign_target_files_apks is one of a job that merges.
LEMMA SignApart ==
  ASSUME Sign
  PROVE  (pc \in Early \union {"vendor"} \/ job.kind = "sign") /\ pc' \notin MergePcs \union {"merged"}
<1>1. CASE LoadKeys
  <2>1. pc = "sign_options" /\ pc' \in {"failed", "passwords"}
    BY <1>1 DEF LoadKeys
  <2> QED BY <2>1 DEF Early, MergePcs
<1>2. CASE GetKeyPasswords \/ UpdatePasswords \/ RefusePasswords
  BY <1>2 DEF GetKeyPasswords, UpdatePasswords, RefusePasswords, Early, MergePcs
<1>3. CASE ReplaceKeys
  BY <1>3 DEF ReplaceKeys, Early, MergePcs
<1>4. CASE RegenerateKernelPartitions
  BY <1>4 DEF RegenerateKernelPartitions, Early, MergePcs
<1>5. CASE ProcessTargetFiles
  BY <1>5 DEF ProcessTargetFiles, Early, MergePcs
<1>6. CASE ReplaceOtaKeys
  BY <1>6 DEF ReplaceOtaKeys, Early, MergePcs
<1>7. CASE BuildVendorPartitions \/ TakeVendorImages \/ AddMissingImages \/ SignDone
  BY <1>7 DEF BuildVendorPartitions, TakeVendorImages, AddMissingImages, SignDone, StartAddImages, Early, MergePcs
<1> QED BY <1>1, <1>2, <1>3, <1>4, <1>5, <1>6, <1>7 DEF Sign

LEMMA NextMerge == MergeInv /\ OnlyMerged /\ [Next]_vars => MergeInv' /\ OnlyMerged'
<1> SUFFICES ASSUME MergeInv, OnlyMerged, [Next]_vars PROVE MergeInv' /\ OnlyMerged'
  OBVIOUS
<1>1. ASSUME job' = job, pc' = pc, imgVars' = imgVars, mg' = mg PROVE MergeInv' /\ OnlyMerged'
  <2>1. OnlyMerged'
    BY <1>1 DEF OnlyMerged
  <2>2. ASSUME job.kind = "merge" PROVE MergeInv'
    <3>0. opt' = opt /\ t' = t /\ info' = info /\ th' = th /\ zip' = zip
      BY <1>1 DEF imgVars
    <3>1. /\ job \in Jobs /\ DOMAIN mg = MgFields /\ opt.zip = FALSE /\ zip = None
          /\ pc \in MergePcs \union AddPcs \union {"merged", "failed", "exit"}
          /\ pc \notin AddPcs \union {"failed", "exit"} => ~mg.nested
          /\ pc \notin {"merge_options", "failed", "exit"} => ListsRead
          /\ pc = "meta" => Collected(t)
          /\ pc \in Later => IF mg.nested THEN Whole(mg.aside) ELSE Whole(t)
          /\ pc \in AddPcs => PartOfIt(t, Counted)
          /\ pc \in {"boot", "partitions"} => InfoNames(Counted)
          /\ pc = "partitions" => ThreadsOwned
      BY <2>2 DEF MergeInv, Later
    <3>2. Counted' = Counted /\ (ListsRead => ListsRead') /\ (ThreadsOwned => ThreadsOwned')
      BY <1>1, <3>0 DEF Counted, ListsRead, ThreadsOwned
    <3>3. InfoNames(Counted) => InfoNames(Counted)'
      BY <1>1, <3>0, <3>2 DEF InfoNames, Owner, Fc, Fcs, FwFc, FwMeta
    <3> QED BY <1>1, <3>0, <3>1, <3>2, <3>3, Established
  <2> QED BY <1>1, <2>1, <2>2 DEF MergeInv
<1>2. CASE UNCHANGED vars
  BY <1>1, <1>2 DEF vars
<1>3. CASE MergeOtas /\ UNCHANGED <<job, pc, imgVars, mg, sg>>
  BY <1>1, <1>3
<1>4. CASE AddImages /\ UNCHANGED <<mg, sg, otaVars>>
  <2>1. pc' \notin MergePcs \union {"merged"} /\ job' = job
    BY <1>4, AddSteps DEF AddPcs, MergePcs
  <2>2. job.kind = "merge" => MergeInv'
    BY <1>4, MergeAddStep
  <2> QED BY <2>1, <2>2 DEF MergeInv, OnlyMerged
<1>5. CASE Merge /\ UNCHANGED <<sg, otaVars>>
  <2>1. job' = job /\ (pc \in MergePcs \/ job.kind = "merge")
    BY <1>5, MergeSteps, SameJob DEF Next
  <2>2. job.kind = "merge"
    BY <2>1 DEF OnlyMerged
  <2>3. MergeInv'
    BY <1>5, <2>2, OptionsStep, CollectStep, MetaStep, DexoptStep, CompatibilityStep, RebuildStep, TakeStep, SuperEmptyStep, ArchiveStep DEF Merge
  <2> QED BY <2>1, <2>2, <2>3 DEF OnlyMerged
<1>6. CASE Sign /\ UNCHANGED <<mg, otaVars>>
  <2>1. job' = job /\ pc' \notin MergePcs \union {"merged"} /\ (pc \in Early \union {"vendor"} \/ job.kind = "sign")
    BY <1>6, SignApart, SameJob DEF Next
  <2>2. job.kind # "merge"
    BY <2>1 DEF MergeInv, MergePcs, AddPcs, Early
  <2> QED BY <2>1, <2>2 DEF MergeInv, OnlyMerged
<1> QED BY <1>2, <1>3, <1>4, <1>5, <1>6 DEF Next

(* A package merge_target_files finishes says of a partition what the build *)
(* the partition comes from says: its files, but those that are made from   *)
(* both builds, the keys of its packages, the file contexts its image was   *)
(* made with, whether the image was copied, rebuilt with the vendor's tools *)
(* for a new policy, or added from the merged dictionary.  Where the        *)
(* framework package names file contexts for a partition of the vendor, as  *)
(* one that was merged before does, the image may have the framework's.     *)
THEOREM MergedOfOneBuild == Spec => []OneBuild
<1>1. MergeInv /\ OnlyMerged => OneBuild
  <2> SUFFICES ASSUME MergeInv, OnlyMerged, pc = "merged" PROVE OneBuild
    BY DEF OneBuild
  <2>1. job.kind = "merge" /\ job \in Jobs /\ zip = None /\ Whole(t)
    BY DEF MergeInv, OnlyMerged, AddPcs
  <2>2. FilesOwned(t) /\ KeysOwned(t) /\ ImagesOwned(t, Partitions)
    BY <2>1 DEF Whole, Collected
  <2>3. \A p \in FsImages : t[Img(p)].fc \in Fcs(p)
    BY <2>1, <2>2 DEF FsImages, Package, ImagesOwned
  <2>4. \A p \in FsImages : \/ t[Img(p)].fc = FcSource(Owner(p), FcName(p))
                            \/ FcKey(p) \in DOMAIN FwMeta("misc_info") /\ t[Img(p)].fc = FcSource(job.fw, "framework_file_contexts")
    BY <2>3 DEF Fcs, Fc, FwFc
  <2>5. \A f \in DOMAIN t : f[1] \in Partitions /\ f[2] \notin Added => Get(Owner(f[1]), f) = t[f]
    BY <2>2 DEF FilesOwned, Get
  <2>6. \A n \in {"apkcerts", "apexkeys"} : \A a \in DOMAIN t[Meta(n)] :
          LET entry == t[Meta(n)][a] IN Get(Owner(entry.partition)[Meta(n)], a) = entry
    BY <2>2 DEF KeysOwned, Get
  <2> QED BY <2>4, <2>5, <2>6 DEF OneBuild
<1> QED BY <1>1, InitMerge, NextMerge, PTL DEF Spec
=============================================================================
