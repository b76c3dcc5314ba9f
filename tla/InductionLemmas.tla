--------------------------- MODULE InductionLemmas ---------------------------
(***************************************************************************)
(* Induction for the other proofs, as the existence of a least or greatest *)
(* number: a fact about every number is proved by looking at the least one *)
(* it does not hold of.                                                    *)
(***************************************************************************)
EXTENDS Integers, SequencesExt, SequenceTheorems, WellFoundedInduction, TLAPS

(* A set of natural numbers has a least one. *)
LEMMA LeastNumber ==
    ASSUME NEW S, S \subseteq Nat, S # {}
    PROVE  \E n \in S : \A m \in S : n <= m
<1> DEFINE R == OpToRel(<, Nat)
<1>1. IsWellFoundedOn(R, Nat)
  BY NatLessThanWellFounded
<1>2. \A x, y \in Nat : x < y => <<x, y>> \in R
  BY DEF OpToRel
<1> HIDE DEF R
<1>3. PICK x \in S : \A y \in S : ~ (<<y, x>> \in R)
  BY <1>1, WFMin
<1>4. ASSUME NEW m \in S PROVE x <= m
  <2>1. x \in Nat /\ m \in Nat /\ ~ (m < x)
    BY <1>2, <1>3
  <2> QED
    BY <2>1
<1> QED
  BY <1>4

(* A set of numbers below a bound has a greatest one. *)
LEMMA GreatestNumber ==
    ASSUME NEW S, S \subseteq Int, S # {}, NEW b \in Int, \A n \in S : n <= b
    PROVE  \E n \in S : \A m \in S : m <= n
<1> DEFINE T == {b - n : n \in S}
<1>1. T \subseteq Nat /\ T # {}
  <2>1. ASSUME NEW n \in S PROVE b - n \in Nat
    <3>1. n \in Int /\ n <= b
      OBVIOUS
    <3> QED
      BY <3>1
  <2> QED
    BY <2>1
<1>2. PICK t \in T : \A u \in T : t <= u
  <2> HIDE DEF T
  <2> QED
    BY <1>1, LeastNumber
<1>3. PICK n \in S : t = b - n
  BY <1>2
<1>4. ASSUME NEW m \in S PROVE m <= n
  <2>1. b - n <= b - m
    BY <1>2, <1>3
  <2>2. m \in Int /\ n \in Int
    OBVIOUS
  <2> QED
    BY <2>1, <2>2
<1> QED
  BY <1>4

-----------------------------------------------------------------------------
(***************************************************************************)
(* FlattenSeq of the community modules is a recursive function: the        *)
(* function exists, so FlattenSeq obeys its equation.                      *)
(***************************************************************************)
Flattens(f, ss) ==
    \A i \in 1 .. Len(ss) : f[i] = IF i = 1 THEN ss[i] ELSE f[i - 1] \o ss[i]

LEMMA FlattenExtends ==
    ASSUME NEW T, NEW ss \in Seq(Seq(T)), NEW s \in Seq(T),
           NEW f \in [1 .. Len(ss) -> Seq(T)], Flattens(f, ss)
    PROVE  \E g \in [1 .. Len(Append(ss, s)) -> Seq(T)] :
               /\ Flattens(g, Append(ss, s))
               /\ g[Len(ss) + 1] = IF ss = <<>> THEN s ELSE f[Len(ss)] \o s
<1> DEFINE n == Len(ss)
           tt == Append(ss, s)
           g == [i \in 1 .. n + 1 |-> IF i <= n THEN f[i] ELSE IF n = 0 THEN s ELSE f[n] \o s]
<1>1. /\ n \in Nat /\ Len(tt) = n + 1 /\ tt[n + 1] = s
      /\ \A i \in 1 .. n : tt[i] = ss[i] /\ ss[i] \in Seq(T)
  BY AppendProperties
<1>2. ss = <<>> <=> n = 0
  BY EmptySeq
<1> HIDE DEF n, tt
<1>3. n # 0 => n \in 1 .. n /\ f[n] \in Seq(T) /\ f[n] \o s \in Seq(T)
  <2>1. n # 0 => n \in 1 .. n
    BY <1>1
  <2> QED
    BY <2>1, ConcatProperties DEF n
<1>4. g \in [1 .. n + 1 -> Seq(T)]
  BY <1>1, <1>3 DEF n
<1>5. ASSUME NEW i \in 1 .. n + 1
      PROVE  g[i] = IF i = 1 THEN tt[i] ELSE g[i - 1] \o tt[i]
  <2>1. CASE i <= n
    <3>1. i \in 1 .. n /\ (i # 1 => i - 1 \in 1 .. n)
      BY <1>1, <2>1
    <3>2. f[i] = IF i = 1 THEN ss[i] ELSE f[i - 1] \o ss[i]
      BY <3>1 DEF Flattens, n
    <3>3. g[i] = f[i] /\ (i # 1 => g[i - 1] = f[i - 1])
      BY <1>1, <3>1
    <3> HIDE DEF g
    <3> QED
      BY <1>1, <3>1, <3>2, <3>3
  <2>2. CASE i = n + 1
    <3>1. CASE n = 0
      BY <1>1, <2>2, <3>1
    <3>2. CASE n # 0
      <4>1. g[i] = f[n] \o s /\ g[i - 1] = f[n] /\ i # 1
        BY <1>1, <2>2, <3>2
      <4> HIDE DEF g
      <4> QED
        BY <1>1, <2>2, <4>1
    <3> QED
      BY <3>1, <3>2
  <2> QED
    BY <1>1, <2>1, <2>2
<1>6. g[n + 1] = IF ss = <<>> THEN s ELSE f[n] \o s
  BY <1>1, <1>2
<1> HIDE DEF g
<1>7. Flattens(g, tt)
  BY <1>1, <1>5 DEF Flattens
<1> QED
  BY <1>1, <1>4, <1>6, <1>7 DEF n, tt

LEMMA FlattenExists ==
    ASSUME NEW T, NEW ss \in Seq(Seq(T))
    PROVE  \E f \in [1 .. Len(ss) -> Seq(T)] : Flattens(f, ss)
<1> DEFINE Has(s) == \E f \in [1 .. Len(s) -> Seq(T)] : Flattens(f, s)
           bad == {n \in Nat : \E s \in Seq(Seq(T)) : Len(s) = n /\ ~ Has(s)}
<1> HIDE DEF Has
<1> SUFFICES ASSUME bad # {} PROVE FALSE
  <2>1. Len(ss) \in Nat
    OBVIOUS
  <2> QED
    BY <2>1 DEF Has
<1>1. PICK n \in bad : \A m \in bad : n <= m
  <2>1. bad \subseteq Nat
    OBVIOUS
  <2> HIDE DEF bad
  <2> QED
    BY <2>1, LeastNumber
<1>2. n \in Nat
  BY <1>1
<1>3. PICK s \in Seq(Seq(T)) : Len(s) = n /\ ~ Has(s)
  BY <1>1
<1>4. CASE s = <<>>
  <2> DEFINE f == [i \in 1 .. Len(s) |-> s[i]]
  <2>1. f \in [1 .. Len(s) -> Seq(T)]
    BY LenProperties
  <2>2. Len(s) = 0
    BY <1>4, EmptySeq
  <2>3. Flattens(f, s)
    BY <2>2 DEF Flattens
  <2> QED
    BY <1>3, <2>1, <2>3 DEF Has
<1>5. CASE s # <<>>
  <2>1. PICK r \in Seq(Seq(T)), e \in Seq(T) : s = Append(r, e)
    BY <1>5, SequenceEmptyOrAppend
  <2>2. Len(r) \in Nat /\ Len(s) = Len(r) + 1
    BY <2>1, AppendProperties
  <2>3. Len(r) \notin bad
    <3>1. Len(r) \in bad => n <= Len(r)
      BY <1>1
    <3> HIDE DEF bad
    <3> QED
      BY <1>2, <1>3, <2>2, <3>1
  <2>4. Has(r)
    BY <2>2, <2>3
  <2>5. PICK f \in [1 .. Len(r) -> Seq(T)] : Flattens(f, r)
    BY <2>4 DEF Has
  <2>6. Has(s)
    BY <2>1, <2>5, FlattenExtends DEF Has
  <2> QED
    BY <1>3, <2>6
<1> QED
  BY <1>4, <1>5

LEMMA FlattenIs ==
    ASSUME NEW T, NEW ss \in Seq(Seq(T)), ss # <<>>,
           NEW f \in [1 .. Len(ss) -> Seq(T)], Flattens(f, ss)
    PROVE  FlattenSeq(ss) = f[Len(ss)]
<1> DEFINE n == Len(ss)
           IsFlat(h) == h = [i \in 1 .. n |-> IF i = 1 THEN ss[i] ELSE h[i - 1] \o ss[i]]
           flatten == CHOOSE h : IsFlat(h)
<1>1. n \in Nat /\ n # 0 /\ n \in 1 .. n
  BY EmptySeq
<1>2. IsFlat(f)
  <2>1. f = [i \in 1 .. n |-> f[i]]
    OBVIOUS
  <2>2. \A i \in 1 .. n : f[i] = IF i = 1 THEN ss[i] ELSE f[i - 1] \o ss[i]
    BY DEF Flattens
  <2> QED
    BY <2>1, <2>2
<1>3. IsFlat(flatten)
  BY <1>2
<1>4. \A i \in 1 .. n : flatten[i] = IF i = 1 THEN ss[i] ELSE flatten[i - 1] \o ss[i]
  <2> HIDE DEF flatten
  <2> QED
    BY <1>3
<1>5. \A i \in 1 .. n : flatten[i] = f[i]
  <2> DEFINE bad == {i \in 1 .. n : flatten[i] # f[i]}
  <2> HIDE DEF flatten
  <2> SUFFICES ASSUME bad # {} PROVE FALSE
    OBVIOUS
  <2>1. PICK i \in bad : \A j \in bad : i <= j
    <3>1. bad \subseteq Nat
      BY <1>1
    <3> HIDE DEF bad
    <3> QED
      BY <3>1, LeastNumber
  <2>2. i \in 1 .. n /\ f[i] = IF i = 1 THEN ss[i] ELSE f[i - 1] \o ss[i]
    BY DEF Flattens
  <2>3. i # 1 => i - 1 \in 1 .. n /\ i - 1 \notin bad
    BY <1>1, <2>1, <2>2
  <2>4. i # 1 => flatten[i - 1] = f[i - 1]
    BY <2>3
  <2> QED
    BY <1>4, <2>1, <2>2, <2>4
<1>6. FlattenSeq(ss) = flatten[n]
  BY <1>1 DEF FlattenSeq
<1> QED
  BY <1>1, <1>5, <1>6

(* No sequences, one more sequence at the end, and the type.               *)
LEMMA FlattenEmpty == FlattenSeq(<<>>) = <<>>
<1>1. Len(<<>>) = 0
  OBVIOUS
<1> QED
  BY <1>1 DEF FlattenSeq

LEMMA FlattenAppend ==
    ASSUME NEW T, NEW ss \in Seq(Seq(T)), NEW s \in Seq(T)
    PROVE  FlattenSeq(Append(ss, s)) = FlattenSeq(ss) \o s
<1>1. PICK f \in [1 .. Len(ss) -> Seq(T)] : Flattens(f, ss)
  BY FlattenExists
<1>2. PICK g \in [1 .. Len(Append(ss, s)) -> Seq(T)] :
          /\ Flattens(g, Append(ss, s))
          /\ g[Len(ss) + 1] = IF ss = <<>> THEN s ELSE f[Len(ss)] \o s
  BY <1>1, FlattenExtends
<1>3. Append(ss, s) \in Seq(Seq(T)) /\ Append(ss, s) # <<>> /\ Len(Append(ss, s)) = Len(ss) + 1
  BY AppendProperties
<1>4. FlattenSeq(Append(ss, s)) = g[Len(ss) + 1]
  BY <1>2, <1>3, FlattenIs
<1>5. CASE ss = <<>>
  <2>1. <<>> \o s = s
    BY ConcatEmptySeq
  <2> QED
    BY <1>2, <1>4, <1>5, <2>1, FlattenEmpty
<1>6. CASE ss # <<>>
  BY <1>1, <1>2, <1>4, <1>6, FlattenIs
<1> QED
  BY <1>5, <1>6

LEMMA FlattenType ==
    ASSUME NEW T, NEW ss \in Seq(Seq(T))
    PROVE  FlattenSeq(ss) \in Seq(T)
<1>1. CASE ss = <<>>
  BY <1>1, FlattenEmpty, EmptySeq
<1>2. CASE ss # <<>>
  <2>1. PICK f \in [1 .. Len(ss) -> Seq(T)] : Flattens(f, ss)
    BY FlattenExists
  <2>2. Len(ss) \in 1 .. Len(ss)
    BY <1>2, EmptySeq
  <2>3. FlattenSeq(ss) = f[Len(ss)]
    BY <1>2, <2>1, FlattenIs
  <2>4. f[Len(ss)] \in Seq(T)
    BY <2>1, <2>2
  <2> QED
    BY <2>3, <2>4
<1> QED
  BY <1>1, <1>2

LEMMA FlattenOne ==
    ASSUME NEW T, NEW s \in Seq(T) PROVE FlattenSeq(<<s>>) = s
<1>1. <<>> \in Seq(Seq(T)) /\ Append(<<>>, s) = <<s>>
  OBVIOUS
<1>2. FlattenSeq(<<s>>) = FlattenSeq(<<>>) \o s
  BY <1>1, FlattenAppend
<1> QED
  BY <1>2, FlattenEmpty, ConcatEmptySeq

(* Sequences that are joined.                                              *)
LEMMA FlattenConcat ==
    ASSUME NEW T, NEW ss \in Seq(Seq(T)), NEW tt \in Seq(Seq(T))
    PROVE  FlattenSeq(ss \o tt) = FlattenSeq(ss) \o FlattenSeq(tt)
<1>0. \A x, y, z \in Seq(T) : (x \o y) \o z = x \o (y \o z)
  <2> SUFFICES ASSUME NEW x \in Seq(T), NEW y \in Seq(T), NEW z \in Seq(T)
               PROVE  (x \o y) \o z = x \o (y \o z)
    OBVIOUS
  <2> QED
    BY ConcatAssociative
<1> DEFINE Joins(t) == FlattenSeq(ss \o t) = FlattenSeq(ss) \o FlattenSeq(t)
           bad == {n \in Nat : \E t \in Seq(Seq(T)) : Len(t) = n /\ ~ Joins(t)}
<1> HIDE DEF Joins
<1> SUFFICES ASSUME bad # {} PROVE FALSE
  <2>1. Len(tt) \in Nat
    OBVIOUS
  <2> QED
    BY <2>1 DEF Joins
<1>1. PICK n \in bad : \A m \in bad : n <= m
  <2>1. bad \subseteq Nat
    OBVIOUS
  <2> HIDE DEF bad
  <2> QED
    BY <2>1, LeastNumber
<1>2. n \in Nat
  BY <1>1
<1>3. PICK t \in Seq(Seq(T)) : Len(t) = n /\ ~ Joins(t)
  BY <1>1
<1>4. FlattenSeq(ss) \in Seq(T)
  BY FlattenType
<1>5. CASE t = <<>>
  <2>1. ss \o <<>> = ss /\ FlattenSeq(ss) \o <<>> = FlattenSeq(ss)
    BY <1>4, ConcatEmptySeq
  <2> QED
    BY <1>3, <1>5, <2>1, FlattenEmpty DEF Joins
<1>6. CASE t # <<>>
  <2>1. PICK r \in Seq(Seq(T)), e \in Seq(T) : t = Append(r, e)
    BY <1>6, SequenceEmptyOrAppend
  <2>2. Len(r) \in Nat /\ Len(t) = Len(r) + 1
    BY <2>1, AppendProperties
  <2>3. Joins(r)
    <3>1. Len(r) \in bad => n <= Len(r)
      BY <1>1
    <3>2. Len(r) \notin bad
      <4> HIDE DEF bad
      <4> QED
        BY <1>2, <1>3, <2>2, <3>1
    <3> QED
      BY <2>2, <3>2
  <2>4. <<e>> \in Seq(Seq(T)) /\ ss \o r \in Seq(Seq(T))
    BY ConcatProperties
  <2>5. ss \o t = Append(ss \o r, e)
    <3>1. ss \o (r \o <<e>>) = (ss \o r) \o <<e>>
      BY <2>4, ConcatAssociative
    <3> QED
      BY <2>1, <2>4, <3>1, AppendIsConcat
  <2>6. FlattenSeq(ss \o t) = FlattenSeq(ss \o r) \o e
    BY <2>4, <2>5, FlattenAppend
  <2>7. FlattenSeq(t) = FlattenSeq(r) \o e /\ FlattenSeq(r) \in Seq(T)
    BY <2>1, FlattenAppend, FlattenType
  <2>8. (FlattenSeq(ss) \o FlattenSeq(r)) \o e = FlattenSeq(ss) \o (FlattenSeq(r) \o e)
    <3>1. FlattenSeq(ss) \in Seq(T) /\ FlattenSeq(r) \in Seq(T) /\ e \in Seq(T)
      BY <1>4, <2>7
    <3> QED
      BY <1>0, <3>1, Zenon
  <2> QED
    BY <1>3, <2>3, <2>6, <2>7, <2>8 DEF Joins
<1> QED
  BY <1>5, <1>6
=============================================================================
