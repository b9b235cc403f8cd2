----------------------------- MODULE SequenceFacts -----------------------------
(* Facts about numbers, sequences and finite sets that the proofs of       *)
(* several components cite.                                                *)
EXTENDS Integers, SequencesExt, FiniteSets, FiniteSetTheorems, SequenceTheorems,
        WellFoundedInduction, TLAPS

-----------------------------------------------------------------------------
(* Induction.  The library's theorem takes a predicate; the least member   *)
(* of a set of numbers serves as well, for a concrete one.                 *)
LEMMA LeastNumber ==
    ASSUME NEW T, T \subseteq Nat, T # {}
    PROVE  \E n \in T : \A m \in T : n <= m
<1> DEFINE R == OpToRel(<, Nat)
<1>1. IsWellFoundedOn(R, Nat)
  BY NatLessThanWellFounded, Zenon
<1>2. \A x, y \in Nat : x < y => <<x, y>> \in R
  BY DEF OpToRel
<1> HIDE DEF R
<1>3. PICK n \in T : \A m \in T : ~(<<m, n>> \in R)
  BY <1>1, WFMin
<1>4. ASSUME NEW m \in T
      PROVE  n <= m
  <2>1. ~(m < n)
    BY <1>2, <1>3, Zenon
  <2> QED
    BY <2>1
<1> QED
  BY <1>4

(* A set with zero, and with the successor of each of its members, up to a *)
(* bound, has all numbers up to it.                                        *)
LEMMA UpTo ==
    ASSUME NEW n \in Nat, NEW P, 0 \in P,
           \A i \in 1..n : i - 1 \in P => i \in P
    PROVE  0..n \subseteq P
<1> SUFFICES ASSUME 0..n \ P # {} PROVE FALSE
  OBVIOUS
<1> DEFINE T == 0..n \ P
<1>1. PICK i \in T : \A j \in T : i <= j
  <2>1. T \subseteq Nat /\ T # {}
    OBVIOUS
  <2> HIDE DEF T
  <2> QED
    BY <2>1, LeastNumber
<1>2. i \in 1..n
  BY <1>1
<1>3. i - 1 \in P
  BY <1>1, <1>2
<1> QED
  BY <1>1, <1>2, <1>3

-----------------------------------------------------------------------------
(* The sequence that sequences join up to, and what one more adds to it.   *)
IsJoins(f, bs, n) ==
    f = [i \in 1..n |-> IF i = 1 THEN bs[i] ELSE f[i - 1] \o bs[i]]
Joins(bs) == CHOOSE f : IsJoins(f, bs, Len(bs))

LEMMA JoinsExist ==
    ASSUME NEW bs, NEW n \in Nat
    PROVE  \E f : IsJoins(f, bs, n)
<1> DEFINE P == {k \in 0..n : \E f : IsJoins(f, bs, k)}
<1>1. 0 \in P
  <2>1. IsJoins([i \in 1..0 |-> 0], bs, 0)
    BY DEF IsJoins
  <2> QED
    BY <2>1
<1>2. ASSUME NEW k \in 1..n, k - 1 \in P
      PROVE  k \in P
  <2>1. PICK f : IsJoins(f, bs, k - 1)
    BY <1>2
  <2> DEFINE g == [i \in 1..k |->
                    IF i # k THEN f[i]
                    ELSE IF k = 1 THEN bs[k] ELSE f[k - 1] \o bs[k]]
  <2>2. \A i \in 1..(k - 1) : f[i] = IF i = 1 THEN bs[i] ELSE f[i - 1] \o bs[i]
    BY <2>1 DEF IsJoins
  <2>3. ASSUME NEW i \in 1..k
        PROVE  g[i] = IF i = 1 THEN bs[i] ELSE g[i - 1] \o bs[i]
    BY <2>2
  <2>4. g = [i \in 1..k |-> g[i]]
    OBVIOUS
  <2>5. IsJoins(g, bs, k)
    <3> HIDE DEF g
    <3> QED
      BY <2>3, <2>4 DEF IsJoins
  <2> QED
    BY <2>5
<1> HIDE DEF P
<1>3. 0..n \subseteq P
  BY <1>1, <1>2, UpTo
<1> QED
  BY <1>3 DEF P

LEMMA JoinFacts ==
    ASSUME NEW C, NEW bs \in Seq(Seq(C))
    PROVE  /\ Len(bs) # 0 => Joins(bs)[1] = bs[1]
           /\ \A i \in 2..Len(bs) : Joins(bs)[i] = Joins(bs)[i - 1] \o bs[i]
           /\ \A i \in 1..Len(bs) : Joins(bs)[i] \in Seq(C)
           /\ FlattenSeq(bs) = IF Len(bs) = 0 THEN bs ELSE Joins(bs)[Len(bs)]
<1> DEFINE n == Len(bs)
           f == Joins(bs)
           P == {i \in 0..n : i = 0 \/ f[i] \in Seq(C)}
<1>1. n \in Nat /\ \A i \in 1..n : bs[i] \in Seq(C)
  OBVIOUS
<1>2. IsJoins(f, bs, n)
  <2>1. \E g : IsJoins(g, bs, n)
    BY <1>1, JoinsExist
  <2>2. IsJoins(CHOOSE g : IsJoins(g, bs, n), bs, n)
    BY <2>1, Zenon
  <2> QED
    BY <2>2, Zenon DEF Joins
<1>3. FlattenSeq(bs) = IF n = 0 THEN bs ELSE f[n]
  BY DEF FlattenSeq, Joins, IsJoins
<1> HIDE DEF f, n
<1>4. \A i \in 1..n : f[i] = IF i = 1 THEN bs[i] ELSE f[i - 1] \o bs[i]
  BY <1>2 DEF IsJoins
<1>5. n # 0 => f[1] = bs[1]
  BY <1>1, <1>4
<1>6. ASSUME NEW i \in 2..n
      PROVE  f[i] = f[i - 1] \o bs[i]
  <2>1. i \in 1..n /\ i # 1
    BY <1>1
  <2> QED
    BY <1>4, <2>1, Zenon
<1>7. 0 \in P
  BY <1>1
<1>8. ASSUME NEW i \in 1..n, i - 1 \in P
      PROVE  i \in P
  <2>1. CASE i = 1
    BY <1>1, <1>4, <2>1
  <2>2. CASE i # 1
    <3>1. f[i - 1] \in Seq(C) /\ bs[i] \in Seq(C)
      BY <1>1, <1>8, <2>2
    <3>2. f[i] = f[i - 1] \o bs[i]
      <4>1. i \in 2..n
        BY <1>1, <2>2
      <4> QED
        BY <1>6, <4>1, Zenon
    <3>3. f[i] \in Seq(C)
      BY <3>1, <3>2, ConcatProperties, Zenon
    <3> QED
      BY <3>3
  <2> QED
    BY <2>1, <2>2
<1> HIDE DEF P
<1>9. 0..n \subseteq P
  BY <1>1, <1>7, <1>8, UpTo
<1>10. \A i \in 1..n : f[i] \in Seq(C)
  BY <1>9 DEF P
<1> QED
  BY <1>3, <1>5, <1>6, <1>10 DEF f, n

LEMMA FlattenFacts ==
    ASSUME NEW C, NEW bs \in Seq(Seq(C)), NEW b \in Seq(C)
    PROVE  /\ FlattenSeq(<<>>) = <<>>
           /\ FlattenSeq(bs) \in Seq(C)
           /\ FlattenSeq(Append(bs, b)) = FlattenSeq(bs) \o b
<1> DEFINE cs == Append(bs, b)
           n == Len(bs)
           P == {i \in 0..n : i = 0 \/ Joins(bs)[i] = Joins(cs)[i]}
<1>1. /\ cs \in Seq(Seq(C)) /\ Len(cs) = n + 1 /\ n \in Nat
      /\ \A i \in 1..n : bs[i] = cs[i]
      /\ cs[n + 1] = b
  OBVIOUS
<1>2. FlattenSeq(<<>>) = <<>>
  <2>1. <<>> \in Seq(Seq(C)) /\ Len(<<>>) = 0
    OBVIOUS
  <2> QED
    BY <2>1, JoinFacts
<1>3. n = 0 => bs = <<>>
  OBVIOUS
<1> HIDE DEF cs, n
<1>4. FlattenSeq(bs) = IF n = 0 THEN bs ELSE Joins(bs)[n]
  BY JoinFacts DEF n
<1>5. FlattenSeq(bs) \in Seq(C)
  <2>1. CASE n = 0
    BY <1>3, <1>4, <2>1
  <2>2. CASE n # 0
    <3>1. n \in 1..Len(bs)
      BY <1>1, <2>2 DEF n
    <3>2. Joins(bs)[n] \in Seq(C)
      BY <3>1, JoinFacts
    <3> QED
      BY <1>4, <2>2, <3>2
  <2> QED
    BY <2>1, <2>2
<1>6. FlattenSeq(cs) = Joins(cs)[n + 1]
  <2>1. FlattenSeq(cs) = IF Len(cs) = 0 THEN cs ELSE Joins(cs)[Len(cs)]
    BY <1>1, JoinFacts, Zenon
  <2> QED
    BY <1>1, <2>1
<1>7. 0 \in P
  BY <1>1
<1>8. ASSUME NEW i \in 1..n, i - 1 \in P
      PROVE  i \in P
  <2>1. bs[i] = cs[i]
    BY <1>1, Zenon
  <2>4. i \in Nat
    BY <1>1
  <2>2. CASE i = 1
    <3>1. n # 0 /\ n + 1 # 0
      BY <1>1, <2>2
    <3>2. Joins(bs)[1] = bs[1]
      BY <3>1, JoinFacts DEF n
    <3>3. Joins(cs)[1] = cs[1]
      BY <1>1, <3>1, JoinFacts
    <3> QED
      BY <2>1, <2>2, <3>2, <3>3
  <2>3. CASE i # 1
    <3>1. i \in 2..n /\ i \in 2..(n + 1)
      BY <1>1, <2>3
    <3>2. Joins(bs)[i] = Joins(bs)[i - 1] \o bs[i]
      BY <3>1, JoinFacts DEF n
    <3>3. Joins(cs)[i] = Joins(cs)[i - 1] \o cs[i]
      BY <1>1, <3>1, JoinFacts
    <3>4. Joins(bs)[i - 1] = Joins(cs)[i - 1]
      BY <1>8, <2>3, <2>4
    <3>5. Joins(bs)[i] = Joins(cs)[i]
      BY <2>1, <3>2, <3>3, <3>4, Zenon
    <3> QED
      BY <3>5
  <2> QED
    BY <2>2, <2>3
<1> HIDE DEF P
<1>9. 0..n \subseteq P
  BY <1>1, <1>7, <1>8, UpTo
<1>10. FlattenSeq(cs) = FlattenSeq(bs) \o b
  <2>1. CASE n = 0
    <3>1. Joins(cs)[1] = cs[1]
      <4>1. Len(cs) # 0
        BY <1>1
      <4> QED
        BY <1>1, <4>1, JoinFacts, Zenon
    <3>2. FlattenSeq(cs) = b /\ FlattenSeq(bs) = <<>>
      BY <1>1, <1>3, <1>4, <1>6, <2>1, <3>1
    <3>3. <<>> \o b = b
      OBVIOUS
    <3> QED
      BY <3>2, <3>3, Zenon
  <2>2. CASE n # 0
    <3>1. n + 1 \in 2..Len(cs) /\ (n + 1) - 1 = n /\ n \in 0..n
      BY <1>1, <2>2
    <3>2. Joins(cs)[n + 1] = Joins(cs)[(n + 1) - 1] \o cs[n + 1]
      BY <1>1, <3>1, JoinFacts, Zenon
    <3>3. Joins(bs)[n] = Joins(cs)[n]
      BY <1>9, <2>2, <3>1 DEF P
    <3>4. (n + 1) - 1 = n
      BY <3>1
    <3>5. FlattenSeq(bs) = Joins(bs)[n] /\ cs[n + 1] = b
      BY <1>1, <1>4, <2>2
    <3> QED
      BY <1>6, <3>2, <3>3, <3>4, <3>5, Zenon
  <2> QED
    BY <2>1, <2>2
<1> QED
  BY <1>2, <1>5, <1>10 DEF cs

(* One sequence joins up to itself.                                        *)
LEMMA FlattenOne ==
    ASSUME NEW C, NEW b \in Seq(C)
    PROVE  FlattenSeq(<<b>>) = b
<1>1. <<>> \in Seq(Seq(C)) /\ Append(<<>>, b) = <<b>> /\ <<>> \o b = b
  OBVIOUS
<1>2. FlattenSeq(Append(<<>>, b)) = FlattenSeq(<<>>) \o b
  BY <1>1, FlattenFacts, Zenon
<1>3. FlattenSeq(<<>>) = <<>>
  BY <1>1, FlattenFacts, Zenon
<1> QED
  BY <1>1, <1>2, <1>3, Zenon

(* The members of a sequence, and of two put together.                     *)
LEMMA MembersOf ==
    ASSUME NEW C, NEW s \in Seq(C)
    PROVE  /\ ToSet(s) = {s[k] : k \in 1..Len(s)} /\ ToSet(s) \subseteq C
           /\ ToSet(s) = {} <=> s = <<>>
           /\ DOMAIN s = 1..Len(s) /\ Len(s) \in Nat
           /\ IsFiniteSet(ToSet(s))
<1>1. DOMAIN s = 1..Len(s) /\ Len(s) \in Nat
  OBVIOUS
<1>2. ToSet(s) = {s[k] : k \in 1..Len(s)}
  BY <1>1 DEF ToSet
<1>3. ToSet(s) \subseteq C
  BY <1>2
<1>4. ToSet(s) = {} <=> s = <<>>
  <2>1. CASE s = <<>>
    BY <1>2, <2>1
  <2>2. CASE s # <<>>
    <3>1. 1 \in 1..Len(s)
      BY <2>2
    <3> QED
      BY <1>2, <2>2, <3>1
  <2> QED
    BY <2>1, <2>2
<1>5. IsFiniteSet(ToSet(s))
  <2> DEFINE n == Len(s)  D == 1..n
  <2>1. IsFiniteSet(D)
    <3> HIDE DEF n
    <3> QED
      BY <1>1, FS_Interval DEF n
  <2> HIDE DEF D
  <2> DEFINE f == [k \in D |-> s[k]]
  <2>2. f \in Surjection(D, ToSet(s))
    BY <1>2 DEF Surjection, D
  <2> QED
    BY <2>1, <2>2, FS_Surjection
<1> QED
  BY <1>1, <1>2, <1>3, <1>4, <1>5

LEMMA MembersOfJoin ==
    ASSUME NEW C, NEW s \in Seq(C), NEW t \in Seq(C)
    PROVE  s \o t \in Seq(C) /\ ToSet(s \o t) = ToSet(s) \cup ToSet(t)
<1> DEFINE u == s \o t
<1>1. /\ u \in Seq(C) /\ Len(u) = Len(s) + Len(t)
      /\ Len(s) \in Nat /\ Len(t) \in Nat
      /\ \A k \in 1..Len(s) : u[k] = s[k]
      /\ \A k \in 1..Len(t) : u[Len(s) + k] = t[k]
  OBVIOUS
<1>2. /\ ToSet(u) = {u[k] : k \in 1..Len(u)}
      /\ ToSet(s) = {s[k] : k \in 1..Len(s)} /\ ToSet(t) = {t[k] : k \in 1..Len(t)}
  BY <1>1, MembersOf
<1> HIDE DEF u
<1>3. ASSUME NEW k \in 1..Len(u)
      PROVE  u[k] \in ToSet(s) \cup ToSet(t)
  <2>1. CASE k <= Len(s)
    BY <1>1, <1>2, <2>1
  <2>2. CASE k > Len(s)
    <3>1. k - Len(s) \in 1..Len(t) /\ Len(s) + (k - Len(s)) = k
      BY <1>1, <2>2
    <3>2. u[k] = t[k - Len(s)]
      BY <1>1, <3>1
    <3> QED
      BY <1>2, <3>1, <3>2
  <2> QED
    BY <1>1, <2>1, <2>2
<1>4. ASSUME NEW k \in 1..Len(s)
      PROVE  s[k] \in ToSet(u)
  <2>1. k \in 1..Len(u)
    BY <1>1
  <2> QED
    BY <1>1, <1>2, <2>1
<1>5. ASSUME NEW k \in 1..Len(t)
      PROVE  t[k] \in ToSet(u)
  <2>1. Len(s) + k \in 1..Len(u)
    BY <1>1
  <2> QED
    BY <1>1, <1>2, <2>1
<1>6. ToSet(u) = ToSet(s) \cup ToSet(t)
  BY <1>2, <1>3, <1>4, <1>5
<1> QED
  BY <1>1, <1>6 DEF u

(* What sequences join up to has the members of each.                      *)
LEMMA FlattenMembers ==
    ASSUME NEW C, NEW bs \in Seq(Seq(C))
    PROVE  /\ FlattenSeq(bs) \in Seq(C)
           /\ ToSet(FlattenSeq(bs)) = UNION {ToSet(bs[k]) : k \in 1..Len(bs)}
<1> DEFINE n == Len(bs)
           all(k) == UNION {ToSet(bs[i]) : i \in 1..k}
           P == {k \in 0..n : ToSet(FlattenSeq(SubSeq(bs, 1, k))) = all(k)}
<1>1. n \in Nat /\ \A k \in 1..n : bs[k] \in Seq(C)
  OBVIOUS
<1>2. \A k \in 0..n : SubSeq(bs, 1, k) \in Seq(Seq(C))
  OBVIOUS
<1>3. 0 \in P
  <2>1. SubSeq(bs, 1, 0) = <<>>
    OBVIOUS
  <2>2. FlattenSeq(<<>>) = <<>>
    <3>1. <<>> \in Seq(Seq(C)) /\ <<>> \in Seq(C)
      OBVIOUS
    <3> QED
      BY <3>1, FlattenFacts, Zenon
  <2>3. ToSet(<<>>) = {} /\ all(0) = {}
    BY DEF ToSet
  <2>4. ToSet(FlattenSeq(SubSeq(bs, 1, 0))) = all(0)
    BY <2>1, <2>2, <2>3, Zenon
  <2>5. 0 \in 0..n
    BY <1>1
  <2> QED
    BY <2>4, <2>5
<1>4. ASSUME NEW k \in 1..n, k - 1 \in P
      PROVE  k \in P
  <2> DEFINE before == SubSeq(bs, 1, k - 1)
  <2>1. SubSeq(bs, 1, k) = Append(before, bs[k])
    OBVIOUS
  <2>2. before \in Seq(Seq(C)) /\ bs[k] \in Seq(C)
    BY <1>1
  <2>3. ToSet(FlattenSeq(before)) = all(k - 1)
    BY <1>4
  <2> HIDE DEF before
  <2>4. /\ FlattenSeq(SubSeq(bs, 1, k)) = FlattenSeq(before) \o bs[k]
        /\ FlattenSeq(before) \in Seq(C)
    BY <2>1, <2>2, FlattenFacts
  <2> DEFINE f == FlattenSeq(before)
  <2>8. ToSet(f \o bs[k]) = ToSet(f) \cup ToSet(bs[k])
    <3>1. f \in Seq(C)
      BY <2>4
    <3> HIDE DEF f
    <3> QED
      BY <2>2, <3>1, MembersOfJoin
  <2>5. ToSet(FlattenSeq(SubSeq(bs, 1, k))) = all(k - 1) \cup ToSet(bs[k])
    BY <2>3, <2>4, <2>8, Zenon
  <2>6. 1..k = 1..(k - 1) \cup {k}
    BY <1>1
  <2>7. all(k) = all(k - 1) \cup ToSet(bs[k])
    BY <2>6, Zenon
  <2>9. ToSet(FlattenSeq(SubSeq(bs, 1, k))) = all(k)
    BY <2>5, <2>7, Zenon
  <2>10. k \in 0..n
    BY <1>1
  <2> QED
    BY <2>9, <2>10
<1> HIDE DEF P
<1>5. 0..n \subseteq P
  BY <1>1, <1>3, <1>4, UpTo
<1>6. SubSeq(bs, 1, n) = bs
  OBVIOUS
<1>7. n \in P
  BY <1>1, <1>5
<1>8. FlattenSeq(bs) \in Seq(C)
  <2>1. <<>> \in Seq(C)
    OBVIOUS
  <2> QED
    BY <2>1, FlattenFacts
<1> QED
  BY <1>6, <1>7, <1>8 DEF P

(* A finite set of numbers with a member has a greatest one.               *)
LEMMA GreatestOf ==
    ASSUME NEW S, S \subseteq Nat, IsFiniteSet(S), S # {}
    PROVE  \E m \in S : \A k \in S : k <= m
<1> DEFINE above(m) == {k \in S : k > m}
           sizes == {Cardinality(above(m)) : m \in S}
<1>1. \A m \in S : IsFiniteSet(above(m)) /\ Cardinality(above(m)) \in Nat
  <2> SUFFICES ASSUME NEW m \in S
               PROVE  IsFiniteSet(above(m)) /\ Cardinality(above(m)) \in Nat
    OBVIOUS
  <2>1. above(m) \in SUBSET S
    OBVIOUS
  <2> HIDE DEF above
  <2> QED
    BY <2>1, FS_Subset, FS_CardinalityType
<1>2. sizes \subseteq Nat /\ sizes # {}
  BY <1>1
<1>3. PICK n \in sizes : \A k \in sizes : n <= k
  <2> HIDE DEF sizes
  <2> QED
    BY <1>2, LeastNumber
<1>4. PICK m \in S : n = Cardinality(above(m))
  BY <1>3
<1>5. ASSUME NEW k \in S, k > m
      PROVE  FALSE
  <2>1. above(k) \subseteq above(m) \ {k} /\ k \in above(m)
    <3>1. ASSUME NEW j \in S, j > k
          PROVE  j > m /\ j # k
      <4>1. j \in Nat /\ k \in Nat /\ m \in Nat
        OBVIOUS
      <4> QED
        BY <1>5, <3>1, <4>1
    <3> QED
      BY <1>5, <3>1
  <2>2. Cardinality(above(k)) <= Cardinality(above(m) \ {k})
    <3> HIDE DEF above
    <3>1. IsFiniteSet(above(m) \ {k})
      BY <1>1, FS_RemoveElement
    <3> QED
      BY <2>1, <3>1, FS_Subset
  <2>3. Cardinality(above(m) \ {k}) = Cardinality(above(m)) - 1
    <3> HIDE DEF above
    <3> QED
      BY <1>1, <2>1, FS_RemoveElement
  <2>4. Cardinality(above(k)) \in sizes
    OBVIOUS
  <2>5. n <= Cardinality(above(k))
    BY <1>3, <2>4
  <2>6. Cardinality(above(k)) \in Nat /\ Cardinality(above(m)) \in Nat
    BY <1>1
  <2> HIDE DEF above, sizes
  <2> QED
    BY <1>4, <2>2, <2>3, <2>5, <2>6
<1> QED
  BY <1>5

(* A function that counts the members of a set one by one.                 *)
Counts(f, n, S) ==
    /\ f \in [1..n -> S]
    /\ \A i, j \in 1..n : i # j => f[i] # f[j]
    /\ \A x \in S : \E i \in 1..n : f[i] = x
LEMMA CountedBy ==
    ASSUME NEW S, NEW n \in Nat, NEW f, Counts(f, n, S)
    PROVE  IsFiniteSet(S) /\ Cardinality(S) = n
<1> DEFINE D == 1..n
<1>1. IsFiniteSet(D) /\ Cardinality(D) = n
  BY FS_Interval
<1>2. f \in Bijection(D, S)
  BY DEF Counts, Bijection, Injection, Surjection, IsInjective
<1>3. ExistsBijection(D, S)
  BY <1>2 DEF ExistsBijection
<1> HIDE DEF D
<1> QED
  BY <1>1, <1>3, FS_Bijection

LEMMA ImageFinite ==
    ASSUME NEW S, IsFiniteSet(S), NEW f, NEW T,
           \A y \in T : \E x \in S : y = f[x]
    PROVE  IsFiniteSet(T)
<1> DEFINE D == {x \in S : f[x] \in T}
           g == [x \in D |-> f[x]]
<1>1. IsFiniteSet(D)
  BY FS_Subset
<1>2. g \in Surjection(D, T)
  BY DEF Surjection
<1> HIDE DEF D, g
<1> QED
  BY <1>1, <1>2, FS_Surjection
=============================================================================
