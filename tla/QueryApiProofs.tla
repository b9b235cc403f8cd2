---------------------------- MODULE QueryApiProofs ----------------------------
(* Proofs about QueryApi, for any tables, rows, requests and deployments.  *)
(* First the operators of QueryTranslator: what a page, an entity and a    *)
(* group are made of.  Then the data, whose tables a request is given, how *)
(* far its search for a type and a removal are: tenants are kept apart,    *)
(* and a deletion that says so is complete.  Then how far a query is, with *)
(* all it has still to run and has found: that no row is missing from its  *)
(* answer, and that pages meet.                                            *)
EXTENDS QueryApi, SequenceFacts

-----------------------------------------------------------------------------
(* Ascending lists a finite set of numbers in their order.                 *)
LEMMA AscendingFacts ==
    ASSUME NEW N, N \subseteq Nat, IsFiniteSet(N)
    PROVE  LET s == Ascending(N)  n == Cardinality(N) IN
           /\ n \in Nat /\ s \in Seq(N) /\ Len(s) = n /\ DOMAIN s = 1..n
           /\ \A i, j \in 1..n : i < j => s[i] < s[j]
           /\ \A m \in N : \E k \in 1..n : s[k] = m
<1> DEFINE n == Cardinality(N)
           upTo(m) == {i \in N : i <= m}
           rank == [m \in N |-> Cardinality(upTo(m))]
           s == Ascending(N)
<1>1. n \in Nat
  BY FS_CardinalityType
<1>2. ASSUME NEW m \in N
      PROVE  IsFiniteSet(upTo(m)) /\ rank[m] \in 1..n
  <2>1. upTo(m) \in SUBSET N /\ m \in upTo(m)
    OBVIOUS
  <2> DEFINE U == upTo(m)
  <2>2. rank[m] = Cardinality(U)
    OBVIOUS
  <2>3. U \in SUBSET N /\ U # {}
    BY <2>1
  <2> HIDE DEF U, rank
  <2>4. IsFiniteSet(U) /\ Cardinality(U) <= n
    BY <2>3, FS_Subset
  <2>5. Cardinality(U) \in Nat /\ Cardinality(U) # 0
    BY <2>3, <2>4, FS_EmptySet, FS_CardinalityType
  <2>6. IsFiniteSet(upTo(m))
    BY <2>4 DEF U
  <2>7. rank[m] \in 1..n
    <3> HIDE DEF n, upTo
    <3> QED
      BY <1>1, <2>2, <2>4, <2>5
  <2> QED
    BY <2>6, <2>7
<1>3. ASSUME NEW m \in N, NEW k \in N, m < k
      PROVE  rank[m] < rank[k]
  <2> DEFINE U == upTo(m)  V == upTo(k)
  <2>1. U \in SUBSET V /\ U # V
    <3>1. k \in V /\ k \notin U
      <4>1. m \in Nat /\ k \in Nat
        OBVIOUS
      <4> QED
        BY <1>3, <4>1
    <3>2. ASSUME NEW i \in N, i <= m
          PROVE  i <= k
      <4>1. i \in Nat /\ m \in Nat /\ k \in Nat
        OBVIOUS
      <4> QED
        BY <1>3, <3>2, <4>1
    <3> QED
      BY <3>1, <3>2
  <2>2. rank[m] = Cardinality(U) /\ rank[k] = Cardinality(V)
    OBVIOUS
  <2>3. IsFiniteSet(U) /\ IsFiniteSet(V)
    BY <1>2
  <2> HIDE DEF U, V, rank
  <2>4. Cardinality(U) <= Cardinality(V) /\ Cardinality(U) # Cardinality(V)
    BY <2>1, <2>3, FS_Subset
  <2>5. Cardinality(U) \in Nat /\ Cardinality(V) \in Nat
    BY <2>3, FS_CardinalityType
  <2> QED
    BY <2>2, <2>4, <2>5
<1>4. \A k \in 1..n : \E m \in N : rank[m] = k
  <2> DEFINE D == 1..n
  <2>1. IsFiniteSet(D) /\ Cardinality(D) = n
    <3> HIDE DEF n
    <3> QED
      BY <1>1, FS_Interval
  <2>2. rank \in [N -> D]
    <3>1. \A m \in N : rank[m] \in D
      BY <1>2
    <3>2. rank = [m \in N |-> rank[m]]
      OBVIOUS
    <3> HIDE DEF rank, D
    <3> QED
      BY <3>1, <3>2
  <2>3. \A m, k \in N : m # k => rank[m] # rank[k]
    <3> SUFFICES ASSUME NEW m \in N, NEW k \in N, m # k
                 PROVE  rank[m] # rank[k]
      OBVIOUS
    <3>1. m < k \/ k < m
      <4>1. m \in Nat /\ k \in Nat
        OBVIOUS
      <4> QED
        BY <4>1
    <3>2. rank[m] \in Nat /\ rank[k] \in Nat
      BY <1>1, <1>2
    <3> HIDE DEF rank
    <3> QED
      BY <1>3, <3>1, <3>2
  <2> HIDE DEF rank, D
  <2>4. rank \in Injection(N, D)
    BY <2>2, <2>3 DEF Injection, IsInjective
  <2>5. rank \in Surjection(N, D)
    BY <2>1, <2>4, FS_Injection DEF n
  <2> QED
    BY <2>5 DEF Surjection, D
<1>5. s = [k \in 1..n |-> CHOOSE m \in N : Cardinality(upTo(m)) = k]
  BY DEF Ascending
<1>6. \A k \in 1..n : s[k] \in N /\ rank[s[k]] = k
  <2> SUFFICES ASSUME NEW k \in 1..n
               PROVE  s[k] \in N /\ rank[s[k]] = k
    OBVIOUS
  <2> DEFINE chosen == CHOOSE m \in N : Cardinality(upTo(m)) = k
  <2>1. \E m \in N : Cardinality(upTo(m)) = k
    BY <1>4
  <2>2. chosen \in N /\ Cardinality(upTo(chosen)) = k
    <3> HIDE DEF upTo
    <3> QED
      BY <2>1, Zenon
  <2>3. s[k] = chosen
    <3> HIDE DEF s, upTo, n
    <3> QED
      BY <1>5
  <2> HIDE DEF chosen, s, n
  <2> QED
    BY <2>2, <2>3
<1> HIDE DEF rank, n, s, upTo
<1>7. s \in Seq(N) /\ Len(s) = n /\ DOMAIN s = 1..n
  <2>1. s = [k \in 1..n |-> s[k]]
    BY <1>5
  <2> QED
    BY <1>1, <1>6, <2>1
<1>8. ASSUME NEW i \in 1..n, NEW j \in 1..n, i < j
      PROVE  s[i] < s[j]
  <2>1. s[i] \in N /\ s[j] \in N /\ rank[s[i]] = i /\ rank[s[j]] = j
    BY <1>6
  <2>2. s[i] \in Nat /\ s[j] \in Nat
    BY <2>1
  <2>3. ~(s[j] < s[i]) /\ s[i] # s[j]
    <3>1. s[j] < s[i] => j < i
      BY <1>3, <2>1
    <3> QED
      BY <1>1, <1>8, <2>1, <3>1
  <2> QED
    BY <2>2, <2>3
<1>9. ASSUME NEW m \in N
      PROVE  \E k \in 1..n : s[k] = m
  <2>1. rank[m] \in 1..n /\ s[rank[m]] \in N /\ rank[s[rank[m]]] = rank[m]
    BY <1>2, <1>6
  <2> DEFINE x == s[rank[m]]
  <2>2. ~(x < m) /\ ~(m < x)
    <3>1. x \in N /\ rank[x] = rank[m] /\ rank[m] \in Nat
      BY <1>1, <2>1
    <3> HIDE DEF x
    <3> QED
      BY <1>3, <3>1
  <2>3. x \in Nat /\ m \in Nat
    BY <2>1
  <2> QED
    BY <2>1, <2>2, <2>3
<1> QED
  BY <1>1, <1>7, <1>8, <1>9 DEF s, n

(* Those keeps the members that are asked for, each at a later position    *)
(* than those it kept before.                                              *)
LEMMA ThoseFacts ==
    ASSUME NEW C, NEW s \in Seq(C), NEW S
    PROVE  LET t == Those(s, S) IN
           /\ t \in Seq(C) /\ ToSet(t) = ToSet(s) \cap S /\ Len(t) <= Len(s)
           /\ \E at \in [1..Len(t) -> 1..Len(s)] :
                /\ \A j \in 1..Len(t) : t[j] = s[at[j]]
                /\ \A i, j \in 1..Len(t) : i < j => at[i] < at[j]
                /\ \A k \in 1..Len(s) : s[k] \in S => \E j \in 1..Len(t) : at[j] = k
<1> DEFINE N == {k \in DOMAIN s : s[k] \in S}
           at == Ascending(N)
           n == Cardinality(N)
           t == Those(s, S)
<1>1. DOMAIN s = 1..Len(s) /\ Len(s) \in Nat /\ \A k \in 1..Len(s) : s[k] \in C
  OBVIOUS
<1>2. N \subseteq Nat /\ IsFiniteSet(N) /\ Cardinality(N) <= Len(s)
  <2> DEFINE m == Len(s)  D == 1..m
  <2>1. IsFiniteSet(D) /\ Cardinality(D) = m
    <3>1. m \in Nat
      BY <1>1
    <3> HIDE DEF m
    <3> QED
      BY <3>1, FS_Interval
  <2>2. N \in SUBSET D /\ N \subseteq Nat
    BY <1>1
  <2> HIDE DEF N, D
  <2> QED
    BY <2>1, <2>2, FS_Subset
<1>3. /\ n \in Nat /\ at \in Seq(N) /\ Len(at) = n /\ DOMAIN at = 1..n
      /\ \A i, j \in 1..n : i < j => at[i] < at[j]
      /\ \A k \in N : \E j \in 1..n : at[j] = k
  <2> HIDE DEF N
  <2> QED
    BY <1>2, AscendingFacts
<1>4. t = [j \in DOMAIN at |-> s[at[j]]]
  BY DEF Those
<1>5. \A j \in 1..n : at[j] \in 1..Len(s) /\ s[at[j]] \in S /\ s[at[j]] \in C
  <2>1. \A j \in 1..n : at[j] \in N
    <3> HIDE DEF N, at, n
    <3> QED
      BY <1>3
  <2>2. \A k \in N : k \in 1..Len(s) /\ s[k] \in S
    BY <1>1
  <2> HIDE DEF N, at, n
  <2> QED
    BY <1>1, <2>1, <2>2
<1>6. \A k \in 1..Len(s) : s[k] \in S => k \in N
  BY <1>1
<1> HIDE DEF N, at, n, t
<1>7. t \in Seq(C) /\ Len(t) = n /\ \A j \in 1..n : t[j] = s[at[j]]
  BY <1>3, <1>4, <1>5
<1>8. ToSet(t) = {t[j] : j \in 1..n} /\ ToSet(s) = {s[k] : k \in 1..Len(s)}
  BY <1>7, MembersOf
<1>9. ToSet(t) = ToSet(s) \cap S
  <2>1. ASSUME NEW j \in 1..n
        PROVE  t[j] \in ToSet(s) \cap S
    BY <1>5, <1>7, <1>8
  <2>2. ASSUME NEW k \in 1..Len(s), s[k] \in S
        PROVE  s[k] \in ToSet(t)
    <3>1. PICK j \in 1..n : at[j] = k
      BY <1>3, <1>6, <2>2
    <3> QED
      BY <1>7, <1>8, <3>1
  <2> QED
    BY <1>8, <2>1, <2>2
<1>10. at \in [1..n -> 1..Len(s)]
  BY <1>3, <1>5
<1>11. \A k \in 1..Len(s) : s[k] \in S => \E j \in 1..n : at[j] = k
  BY <1>3, <1>6
<1>12. \E f \in [1..Len(t) -> 1..Len(s)] :
                /\ \A j \in 1..Len(t) : t[j] = s[f[j]]
                /\ \A i, j \in 1..Len(t) : i < j => f[i] < f[j]
                /\ \A k \in 1..Len(s) : s[k] \in S => \E j \in 1..Len(t) : f[j] = k
  <2>1. /\ at \in [1..Len(t) -> 1..Len(s)]
        /\ \A j \in 1..Len(t) : t[j] = s[at[j]]
        /\ \A i, j \in 1..Len(t) : i < j => at[i] < at[j]
        /\ \A k \in 1..Len(s) : s[k] \in S => \E j \in 1..Len(t) : at[j] = k
    BY <1>3, <1>7, <1>10, <1>11
  <2> QED
    BY <2>1, Zenon
<1>13. Len(t) <= Len(s)
  BY <1>2, <1>7 DEF n
<1> QED
  BY <1>7, <1>9, <1>12, <1>13 DEF t

(* So whatever relates all earlier members to later ones still does.       *)
LEMMA ThoseOrdered ==
    ASSUME NEW C, NEW s \in Seq(C), NEW S, NEW R,
           \A i, j \in 1..Len(s) : i < j => <<s[i], s[j]>> \in R
    PROVE  LET t == Those(s, S) IN
           \A i, j \in 1..Len(t) : i < j => <<t[i], t[j]>> \in R
<1> DEFINE t == Those(s, S)
<1>1. PICK at \in [1..Len(t) -> 1..Len(s)] :
                /\ \A j \in 1..Len(t) : t[j] = s[at[j]]
                /\ \A i, j \in 1..Len(t) : i < j => at[i] < at[j]
  BY ThoseFacts
<1> HIDE DEF t
<1>2. ASSUME NEW i \in 1..Len(t), NEW j \in 1..Len(t), i < j
      PROVE  <<t[i], t[j]>> \in R
  <2>1. at[i] \in 1..Len(s) /\ at[j] \in 1..Len(s) /\ at[i] < at[j]
    BY <1>1, <1>2
  <2> QED
    BY <1>1, <2>1
<1> QED
  BY <1>2 DEF t

-----------------------------------------------------------------------------
(* A sorted listing of a finite set has each member once, in order.        *)
LEMMA SortedFacts ==
    ASSUME NEW S, IsFiniteSet(S), NEW R, NEW s \in SortedBy(S, R)
    PROVE  /\ s \in Seq(S) /\ Len(s) = Cardinality(S) /\ DOMAIN s = 1..Len(s)
           /\ \A x \in S : \E k \in 1..Len(s) : s[k] = x
           /\ \A i, j \in 1..Len(s) : i # j => s[i] # s[j]
           /\ \A i, j \in 1..Len(s) : i < j => <<s[i], s[j]>> \in R
<1> DEFINE n == Cardinality(S)  D == 1..n
<1>1. s \in SetToSeqs(S) /\ \A i, j \in DOMAIN s : i < j => <<s[i], s[j]>> \in R
  BY DEF SortedBy
<1>2. n \in Nat
  BY FS_CardinalityType
<1>3. s \in [D -> S] /\ \A i, j \in D : i # j => s[i] # s[j]
  BY <1>1 DEF SetToSeqs
<1>4. s \in Seq(S) /\ Len(s) = n /\ DOMAIN s = D
  <2> HIDE DEF n
  <2> QED
    BY <1>2, <1>3
<1>5. \A x \in S : \E k \in D : s[k] = x
  <2>1. IsFiniteSet(D) /\ Cardinality(D) = n
    <3> HIDE DEF n
    <3> QED
      BY <1>2, FS_Interval
  <2> HIDE DEF D
  <2>2. s \in Injection(D, S)
    BY <1>3 DEF Injection, IsInjective
  <2>3. s \in Surjection(D, S)
    BY <2>1, <2>2, FS_Injection DEF n
  <2> QED
    BY <2>3 DEF Surjection
<1> QED
  BY <1>1, <1>3, <1>4, <1>5

(* A page is a part of what it is taken of.                                *)
LEMMA WindowFacts ==
    ASSUME NEW C, NEW s \in Seq(C), NEW skip \in Nat, NEW count \in Nat
    PROVE  LET w == Window(s, skip, count) IN
           /\ w \in Seq(C) /\ Len(w) <= count
           /\ \A k \in 1..Len(w) : skip + k \in 1..Len(s) /\ w[k] = s[skip + k]
           /\ \A k \in 1..count : skip + k <= Len(s) => k \in 1..Len(w)
<1> DEFINE m == IF skip + count < Len(s) THEN skip + count ELSE Len(s)
           w == Window(s, skip, count)
<1>1. Len(s) \in Nat /\ m \in Nat /\ m <= Len(s) /\ m <= skip + count
  OBVIOUS
<1>2. w = SubSeq(s, skip + 1, m)
  BY DEF Window
<1>3. \A k \in 1..count : skip + k <= Len(s) => skip + k <= m
  OBVIOUS
<1> HIDE DEF m, w
<1>4. CASE skip + 1 <= m
  <2>1. /\ w \in Seq(C) /\ Len(w) = m - skip
        /\ \A k \in 1..(m - skip) : w[k] = s[skip + k]
    <3> PICK from : from = skip + 1
      OBVIOUS
    <3>1. /\ from \in Int /\ m \in Int /\ from <= m
          /\ \A k \in from..m : s[k] \in C
      BY <1>1, <1>4
    <3>2. w = SubSeq(s, from, m)
      BY <1>2
    <3>3. /\ w \in Seq(C) /\ Len(w) = m - from + 1
          /\ \A k \in 1..(m - from + 1) : w[k] = s[from + k - 1]
      BY ONLY <3>1, <3>2, SubSeqProperties
    <3> QED
      BY <1>1, <3>3
  <2> QED
    BY <1>1, <1>3, <2>1 DEF w
<1>5. CASE skip + 1 > m
  <2>1. w = <<>>
    BY <1>1, <1>2, <1>5
  <2>2. w \in Seq(C) /\ Len(w) = 0
    BY <2>1
  <2> QED
    BY <1>1, <1>3, <1>5, <2>2 DEF w
<1> QED
  BY <1>1, <1>4, <1>5

-----------------------------------------------------------------------------
(* What is fs keeps its members when it is put in the order of time.  *)
LEMMA TimeOrderFacts ==
    ASSUME NEW r, NEW C, NEW s \in Seq(C)
    PROVE  LET t == InTimeOrder(r, s) IN
           /\ t \in Seq(C) /\ Len(t) = Len(s) /\ ToSet(t) = ToSet(s)
           /\ r.lastN = 0 => t = s
           /\ r.lastN # 0 => \A k \in 1..Len(s) : t[k] = s[Len(s) - k + 1]
<1>1. CASE r.lastN = 0
  BY <1>1 DEF InTimeOrder
<1>2. CASE r.lastN # 0
  <2> DEFINE n == Len(s)  t == Reverse(s)
  <2>1. n \in Nat /\ \A k \in 1..n : s[k] \in C
    OBVIOUS
  <2>2. t = [k \in 1..n |-> s[(n - k) + 1]]
    BY DEF Reverse
  <2> HIDE DEF n, t
  <2>3. \A k \in 1..n : n - k + 1 \in 1..n /\ (n - k) + 1 = n - k + 1
    BY <2>1
  <2>4. t \in Seq(C) /\ Len(t) = n /\ \A k \in 1..n : t[k] = s[n - k + 1]
    BY <2>1, <2>2, <2>3
  <2>5. ToSet(t) = {t[k] : k \in 1..n} /\ ToSet(s) = {s[k] : k \in 1..n}
    BY <2>4, MembersOf DEF n
  <2>6. ASSUME NEW k \in 1..n
        PROVE  s[k] \in ToSet(t) /\ t[k] \in ToSet(s)
    <3>1. n - k + 1 \in 1..n /\ n - (n - k + 1) + 1 = k
      BY <2>1
    <3> QED
      BY <2>4, <2>5, <3>1
  <2>7. ToSet(t) = ToSet(s)
    BY <2>5, <2>6
  <2> QED
    BY <1>2, <2>4, <2>7 DEF InTimeOrder, n, t
<1> QED
  BY <1>1, <1>2

(* The rows that _format_response takes: those of a table with metadata.   *)
TakenFrom(s, ts, known, taken) ==
    \A x : x \in ToSet(taken) <=>
                x \in ToSet(s) /\ \E tb \in ToSet(ts) \cap known : InTable(tb, x)
LEMMA TakenFacts ==
    ASSUME NEW r, NEW B, NEW ts \in Seq(B), NEW known, NEW C, NEW s \in Seq(C)
    PROVE  LET taken == Taken(r, ts, known, s) IN
           taken \in Seq(C) /\ TakenFrom(s, ts, known, taken)
<1> DEFINE named == Those(ts, known)
           t == InTimeOrder(r, s)
           of(tb) == {x \in ToSet(s) : InTable(tb, x)}
           bs == [k \in DOMAIN named |-> Those(t, of(named[k]))]
           taken == Taken(r, ts, known, s)
<1>1. named \in Seq(B) /\ ToSet(named) = ToSet(ts) \cap known
  BY ThoseFacts
<1>2. t \in Seq(C) /\ ToSet(t) = ToSet(s)
  BY TimeOrderFacts
<1>3. taken = FlattenSeq(bs)
  BY DEF Taken
<1> HIDE DEF named, t, taken
<1>4. DOMAIN named = 1..Len(named) /\ Len(named) \in Nat
  BY <1>1
<1>5. \A k \in 1..Len(named) : /\ bs[k] \in Seq(C)
                               /\ ToSet(bs[k]) = of(named[k])
  <2> SUFFICES ASSUME NEW k \in 1..Len(named)
               PROVE  bs[k] \in Seq(C) /\ ToSet(bs[k]) = of(named[k])
    OBVIOUS
  <2>1. bs[k] = Those(t, of(named[k]))
    BY <1>4
  <2> DEFINE S == of(named[k])
  <2>2. S \subseteq ToSet(s)
    OBVIOUS
  <2> HIDE DEF S, bs
  <2>3. Those(t, S) \in Seq(C) /\ ToSet(Those(t, S)) = ToSet(t) \cap S
    BY <1>2, ThoseFacts
  <2>4. ToSet(t) \cap S = S
    BY <1>2, <2>2
  <2>5. bs[k] = Those(t, S)
    BY <2>1 DEF S
  <2>6. bs[k] \in Seq(C) /\ ToSet(bs[k]) = S
    BY <2>3, <2>4, <2>5
  <2> QED
    BY <2>6 DEF S
<1>6. bs \in Seq(Seq(C)) /\ Len(bs) = Len(named)
  <2>1. bs = [k \in 1..Len(named) |-> bs[k]]
    BY <1>4
  <2> DEFINE n == Len(named)
  <2>2. n \in Nat /\ \A k \in 1..n : bs[k] \in Seq(C)
    BY <1>4, <1>5
  <2>3. bs = [k \in 1..n |-> bs[k]]
    BY <2>1
  <2> HIDE DEF bs, n
  <2>4. bs \in [1..n -> Seq(C)]
    BY <2>2, <2>3
  <2>5. bs \in Seq(Seq(C)) /\ Len(bs) = n
    BY <2>2, <2>4
  <2> QED
    BY <2>5 DEF n
<1>7. /\ FlattenSeq(bs) \in Seq(C)
      /\ ToSet(FlattenSeq(bs)) = UNION {ToSet(bs[k]) : k \in 1..Len(bs)}
  <2> HIDE DEF bs
  <2> QED
    BY <1>6, FlattenMembers
<1>8. ToSet(named) = {named[k] : k \in 1..Len(named)}
  BY <1>1, MembersOf
<1>9. ToSet(taken) = {x \in ToSet(s) :
                    \E tb \in ToSet(ts) \cap known : InTable(tb, x)}
  <2>1. ToSet(taken) = UNION {of(named[k]) : k \in 1..Len(named)}
    <3> HIDE DEF bs, of
    <3> QED
      BY <1>3, <1>5, <1>6, <1>7
  <2>2. UNION {of(named[k]) : k \in 1..Len(named)} = UNION {of(tb) : tb \in ToSet(named)}
    <3> HIDE DEF of
    <3> QED
      BY <1>8
  <2> QED
    BY <1>1, <2>1, <2>2
<1> QED
  BY <1>3, <1>7, <1>9 DEF taken, TakenFrom

(* With one table they come in the order of time.                          *)
LEMMA TakenOrdered ==
    ASSUME NEW r, NEW tb, NEW known, NEW C, NEW s \in Seq(C), NEW R,
           LET t == InTimeOrder(r, s) IN
              \A i, j \in 1..Len(t) : i < j => <<t[i], t[j]>> \in R
    PROVE  LET taken == Taken(r, <<tb>>, known, s) IN
           /\ \A i, j \in 1..Len(taken) : i < j => <<taken[i], taken[j]>> \in R
           /\ tb \notin known => taken = <<>>
<1> DEFINE named == Those(<<tb>>, known)
           t == InTimeOrder(r, s)
           of(b) == {x \in ToSet(s) : InTable(b, x)}
           taken == Taken(r, <<tb>>, known, s)
           B == {tb}
           one == <<tb>>
<1>1. t \in Seq(C)
  BY TimeOrderFacts
<1>2. taken = FlattenSeq([k \in DOMAIN named |-> Those(t, of(named[k]))])
  BY DEF Taken
<1>3. one \in Seq(B) /\ ToSet(one) = B /\ Len(one) = 1
  BY DEF ToSet
<1>4. named \in Seq(B) /\ ToSet(named) = B \cap known /\ Len(named) <= 1
  <2>2. named = Those(one, known)
    OBVIOUS
  <2> HIDE DEF one, named, B
  <2> QED
    BY <1>3, <2>2, ThoseFacts
<1> HIDE DEF named, t, taken, one, B
<1>5. CASE tb \notin known
  <2>1. ToSet(named) = {}
    BY <1>4, <1>5 DEF B
  <2>2. named = <<>>
    BY <1>4, <2>1, MembersOf
  <2>3. [k \in DOMAIN named |-> Those(t, of(named[k]))] = <<>>
    BY <2>2
  <2>4. FlattenSeq(<<>>) = <<>>
    <3>1. <<>> \in Seq(Seq(C)) /\ <<>> \in Seq(C)
      OBVIOUS
    <3> QED
      BY <3>1, FlattenFacts, Zenon
  <2>5. taken = <<>>
    BY <1>2, <2>3, <2>4, Zenon
  <2>6. \A i, j \in 1..Len(taken) : i < j => <<taken[i], taken[j]>> \in R
    BY <2>5
  <2> QED
    BY <2>5, <2>6 DEF taken
<1>6. CASE tb \in known
  <2>1. Len(named) = 1 /\ named[1] = tb
    <3>1. named # <<>> /\ Len(named) \in Nat
      <4>1. tb \in ToSet(named)
        BY <1>4, <1>6 DEF B
      <4> QED
        BY <1>4, <4>1, MembersOf
    <3>3. Len(named) # 0
      BY <1>4, <3>1
    <3>4. Len(named) = 1
      <4> DEFINE n == Len(named)
      <4>1. n \in Nat /\ n <= 1 /\ n # 0
        BY <1>4, <3>1, <3>3
      <4> HIDE DEF n
      <4>2. n = 1
        BY <4>1
      <4> QED
        BY <4>2 DEF n
    <3>5. named[1] \in B
      <4>1. \A k \in 1..Len(named) : named[k] \in B
        BY <1>4
      <4>2. 1 \in 1..Len(named)
        BY <3>4
      <4> QED
        BY <4>1, <4>2, Zenon
    <3> QED
      BY <3>4, <3>5 DEF B
  <2> DEFINE S == of(tb)  bs == [k \in DOMAIN named |-> Those(t, of(named[k]))]
  <2>2. bs = <<Those(t, S)>>
    <3>1. DOMAIN named = 1..1
      BY <1>4, <2>1
    <3>4. bs[1] = Those(t, of(named[1]))
      BY <3>1
    <3>2. bs[1] = Those(t, S)
      BY <2>1, <3>4, Zenon
    <3>3. bs = [k \in 1..1 |-> bs[k]]
      BY <3>1
    <3> HIDE DEF bs, S
    <3> QED
      BY <3>2, <3>3
  <2> HIDE DEF S
  <2>3. Those(t, S) \in Seq(C)
    BY <1>1, ThoseFacts
  <2>4. taken = Those(t, S)
    <3>1. FlattenSeq(<<Those(t, S)>>) = Those(t, S)
      BY <2>3, FlattenOne
    <3> QED
      BY <1>2, <2>2, <3>1, Zenon
  <2>5. \A i, j \in 1..Len(t) : i < j => <<t[i], t[j]>> \in R
    BY DEF t
  <2>6. \A i, j \in 1..Len(taken) : i < j => <<taken[i], taken[j]>> \in R
    BY <1>1, <2>4, <2>5, ThoseOrdered
  <2> QED
    BY <1>6, <2>6 DEF taken
<1> QED
  BY <1>5, <1>6

(* An entity is made of the rows taken that have its id: none is left out, *)
(* and they keep their order.                                              *)
EntityFrom(taken, i, own, e) ==
    /\ own # <<>>
    /\ \A y : y \in ToSet(own) <=> y \in ToSet(taken) /\ y.id = i
    /\ e.id = i /\ \E y \in ToSet(own) : e.type = y.type
    /\ DOMAIN e.index = 1..Len(own)
    /\ \A k \in 1..Len(own) : e.index[k] = own[k].time
    /\ \A z : z \in e.rows <=> \E y \in ToSet(own) : z \in ToSet(y.row)
LEMMA EntityFacts ==
    ASSUME NEW C, NEW taken \in Seq(C), NEW x \in ToSet(taken), NEW i, i = x.id,
           NEW own, own = Own(taken, i), NEW e, e = Entity(i, own)
    PROVE  own \in Seq(C) /\ EntityFrom(taken, i, own, e)
<1> DEFINE S == {y \in ToSet(taken) : y.id = x.id}
<1>1. own = Those(taken, S) /\ x \in S /\ ToSet(taken) \cap S = S
  BY DEF Own
<1>2. own \in Seq(C) /\ ToSet(own) = S
  <2> PICK T : T = S
    OBVIOUS
  <2>1. Those(taken, T) \in Seq(C) /\ ToSet(Those(taken, T)) = ToSet(taken) \cap T
    BY ONLY taken \in Seq(C), ThoseFacts
  <2> HIDE DEF S
  <2> QED
    BY <1>1, <2>1
<1> HIDE DEF S
<1>3. own # <<>>
  BY <1>1, <1>2, MembersOf
<1>4. DOMAIN own = 1..Len(own) /\ Len(own) \in 1..Len(own)
  BY <1>2, <1>3
<1>5. ToSet(own) = {own[k] : k \in 1..Len(own)}
  BY <1>2, MembersOf
<1>6. e = [id |-> x.id, type |-> own[Len(own)].type,
           index |-> [k \in DOMAIN own |-> own[k].time],
           rows |-> UNION {ToSet(own[k].row) : k \in DOMAIN own}]
  BY DEF Entity, Last
<1>7. e.type = own[Len(own)].type /\ own[Len(own)] \in ToSet(own) /\ e.id = x.id
  BY <1>4, <1>5, <1>6
<1>8. DOMAIN e.index = 1..Len(own) /\ \A k \in 1..Len(own) : e.index[k] = own[k].time
  BY <1>4, <1>6
<1>9. e.rows = UNION {ToSet(y.row) : y \in ToSet(own)}
  BY <1>4, <1>5, <1>6
<1> QED
  BY <1>2, <1>3, <1>7, <1>8, <1>9 DEF S, EntityFrom

(* The entities of a response: one for each id among the rows taken.       *)
LEMMA FormatFacts ==
    ASSUME NEW r, NEW ts, NEW known, NEW fs, NEW C,
           Taken(r, ts, known, fs) \in Seq(C), \A x \in C : x.id \in Nat
    PROVE  LET taken == Taken(r, ts, known, fs)
               es == Format(r, ts, known, fs) IN
           /\ \A k \in 1..Len(es) : \E x \in ToSet(taken) :
                    es[k] = Entity(x.id, Own(taken, x.id))
           /\ \A x \in ToSet(taken) : \E k \in 1..Len(es) :
                    es[k] = Entity(x.id, Own(taken, x.id))
           /\ es = [k \in 1..Len(es) |-> es[k]] /\ Len(es) \in Nat
           /\ \A i, j \in 1..Len(es) : i < j => es[i].id < es[j].id
<1> DEFINE taken == Taken(r, ts, known, fs)
           es == Format(r, ts, known, fs)
           I == {x.id : x \in ToSet(taken)}
           ids == Ascending(I)
           n == Cardinality(I)
<1>1. I \subseteq Nat /\ IsFiniteSet(I)
  <2>1. ToSet(taken) \subseteq C /\ IsFiniteSet(ToSet(taken))
    BY MembersOf
  <2>2. I \subseteq Nat
    BY <2>1
  <2> DEFINE X == ToSet(taken)  f == [x \in X |-> x.id]
  <2>3. f \in Surjection(X, I)
    BY DEF Surjection
  <2> HIDE DEF I, X, f
  <2> QED
    BY <2>1, <2>2, <2>3, FS_Surjection DEF X
<1>2. /\ n \in Nat /\ DOMAIN ids = 1..n /\ \A k \in 1..n : ids[k] \in I
      /\ \A i, j \in 1..n : i < j => ids[i] < ids[j]
      /\ \A i \in I : \E k \in 1..n : ids[k] = i
  <2> HIDE DEF I
  <2>1. /\ n \in Nat /\ ids \in Seq(I) /\ Len(ids) = n /\ DOMAIN ids = 1..n
        /\ \A i, j \in 1..n : i < j => ids[i] < ids[j]
        /\ \A i \in I : \E k \in 1..n : ids[k] = i
    BY <1>1, AscendingFacts, Zenon
  <2> HIDE DEF ids, n
  <2>2. \A k \in 1..n : ids[k] \in I
    BY <2>1
  <2> QED
    BY <2>1, <2>2
<1>3. es = [k \in DOMAIN ids |-> Entity(ids[k], Own(taken, ids[k]))]
  BY DEF Format
<1> HIDE DEF es, ids, n, taken
<1>4. Len(es) = n /\ \A k \in 1..n : es[k] = Entity(ids[k], Own(taken, ids[k]))
  BY <1>2, <1>3
<1>5. ASSUME NEW k \in 1..n
      PROVE  \E x \in ToSet(taken) : x.id = ids[k] /\ es[k] = Entity(x.id, Own(taken, x.id))
  <2>1. PICK x \in ToSet(taken) : ids[k] = x.id
    BY <1>2
  <2> QED
    BY <1>4, <2>1
<1>6. ASSUME NEW x \in ToSet(taken)
      PROVE  \E k \in 1..n : es[k] = Entity(x.id, Own(taken, x.id))
  <2>1. x.id \in I
    OBVIOUS
  <2>2. PICK k \in 1..n : ids[k] = x.id
    BY <1>2, <2>1
  <2> QED
    BY <1>4, <2>2
<1>7. es = [k \in 1..n |-> es[k]]
  BY <1>2, <1>3
<1>8. \A k \in 1..n : es[k].id = ids[k]
  BY <1>4 DEF Entity
<1>9. \A i, j \in 1..n : i < j => es[i].id < es[j].id
  BY <1>2, <1>8
<1> QED
  BY <1>2, <1>4, <1>5, <1>6, <1>7, <1>9 DEF es, taken

-----------------------------------------------------------------------------
(* What the requests of a deployment are about, and the rows there can be. *)
AllRows == UNION {s.begin \cup s.arrivals : s \in Scenarios}
Domains ==
    /\ DOMAIN phase = Requests /\ DOMAIN work = Requests /\ DOMAIN found = Requests
    /\ DOMAIN answer = Requests /\ DOMAIN listed = Requests /\ DOMAIN struck = Requests
    /\ DOMAIN fetched = Requests /\ DOMAIN names = Tenants
DataInv ==
    /\ \A q \in Requests : IsRequest(ask[q])
    /\ IsFiniteSet(rows \cup arrivals)
    /\ \A x \in rows \cup arrivals : IsRow(x) /\ x \in AllRows
    /\ meta \subseteq AllTables
    /\ Domains

(* The names that are cached for a tenant, and those a request was given,  *)
(* are of tables of the tenant.                                            *)
OwnTables ==
    \A q \in Requests : \A tb \in listed[q] : tb.tenant = Tenant(q)
OwnInv == OwnTables /\ \A t \in Tenants : \A tb \in names[t] : tb.tenant = t

(* How far the search for the type of an entity is: which tables are still *)
(* to be searched, and which types were found in the others.               *)
FindOps == {"1T1E1A", "1T1ENA", "delete_entity"}
Sought(q, x) == x.table.tenant = Tenant(q) /\ x.id = ask[q].ids[1]
SearchInv(q) ==
    /\ work[q] \in Seq([tables : {<<tb>> : tb \in AllTables}, ids : {ask[q].ids}])
    /\ found[q] \in Seq(DOMAIN Lower)
    /\ \A x \in stable[q] : Sought(q, x) =>
            \/ \E k \in 1..Len(work[q]) : work[q][k].tables = <<x.table>>
            \/ \E k \in 1..Len(found[q]) : found[q][k] = x.type
FindingInv(q) ==
    /\ phase[q] \notin {"waiting", "done"} => stable[q] \subseteq Visible
    /\ phase[q] \in {"find", "search"} => ask[q].op \in FindOps /\ ask[q].type = "none"
    /\ phase[q] \in {"waiting", "find", "list", "fill", "listed", "done"}
         => found[q] = <<>>
    /\ phase[q] = "search" => SearchInv(q)

(* How far a removal is: which table it erases from, and when nothing      *)
(* doomed is left.                                                         *)
EraseInv(q) ==
    \E type \in DOMAIN Lower :
        /\ work[q] = <<[tables |-> <<Table(q, type)>>, ids |-> ask[q].ids]>>
        /\ \A x \in stable[q] : Doomed(q, x) => x.table = Table(q, type)
NoneDoomed(q) == \A x \in stable[q] : ~Doomed(q, x)
Removing(q) ==
    /\ phase[q] \in {"waiting", "find", "search", "erase", "drop", "unmeta",
                     "forget", "done"}
    /\ phase[q] = "erase" => EraseInv(q) /\ ask[q].op # "drop"
    /\ phase[q] \in {"drop", "unmeta"} => ask[q].op = "drop"
    /\ phase[q] \in {"unmeta", "forget"} /\ ~struck[q] => NoneDoomed(q)
    /\ phase[q] = "done" /\ answer[q].code \in {200, 204} /\ ~struck[q]
         => NoneDoomed(q)
RemovalInv(q) == ask[q].op \in RemovalOps => Removing(q)

-----------------------------------------------------------------------------
(* What the removals' handlers say.                                        *)
LEMMA RemovalHandlers ==
    /\ Removal.call = "delete" /\ DeleteEntity.call = "delete" /\ DropTable.call = "drop"
    /\ Removal.clash = 400 /\ DeleteEntity.clash = 409 /\ DropTable.clash = 400
    /\ Removal.badDate = 500 /\ DeleteEntity.badDate = 500 /\ DropTable.badDate = 500
<1>1. /\ Removal.call = "delete" /\ Removal.clash = 400
      /\ Removal.badDate = 500
  BY DEF Removal, Listing
<1>2. /\ DeleteEntity.call = "delete"
      /\ DeleteEntity.clash = 409 /\ DeleteEntity.badDate = 500
  BY DEF DeleteEntity, Removal, Listing
<1>3. /\ DropTable.call = "drop"
      /\ DropTable.clash = 400 /\ DropTable.badDate = 500
  BY DEF DropTable, Removal, Listing
<1> QED
  BY <1>1, <1>2, <1>3

LEMMA HandlerOfRemoval ==
    ASSUME NEW q, ask[q].op \in RemovalOps
    PROVE  /\ ask[q].op = "delete_entity" => Handler(q) = DeleteEntity
           /\ ask[q].op = "delete_entities" => Handler(q) = Removal
           /\ ask[q].op = "drop" => Handler(q) = DropTable
<1>1. HandlerOf("delete_entity") = DeleteEntity
  BY DEF HandlerOf
<1>2. HandlerOf("delete_entities") = DeleteEntities
  BY DEF HandlerOf
<1>3. HandlerOf("drop") = DropTable
  BY DEF HandlerOf
<1> QED
  BY <1>1, <1>2, <1>3 DEF Handler, DeleteEntities

LEMMA HandlerFacts ==
    ASSUME NEW q, ask[q].op \in RemovalOps
    PROVE  /\ ask[q].op = "drop" => Handler(q).call = "drop"
           /\ ask[q].op # "drop" => Handler(q).call = "delete"
           /\ Handler(q).clash # 200 /\ Handler(q).clash # 204
           /\ Handler(q).badDate = 500
<1>1. CASE ask[q].op = "delete_entity"
  <2>1. Handler(q) = DeleteEntity
    BY <1>1, HandlerOfRemoval
  <2> QED
    BY <1>1, <2>1, RemovalHandlers
<1>2. CASE ask[q].op = "delete_entities"
  <2>1. Handler(q) = Removal
    BY <1>2, HandlerOfRemoval
  <2> QED
    BY <1>2, <2>1, RemovalHandlers
<1>3. CASE ask[q].op = "drop"
  <2>1. Handler(q) = DropTable
    BY <1>3, HandlerOfRemoval
  <2> QED
    BY <1>3, <2>1, RemovalHandlers
<1> QED
  BY <1>1, <1>2, <1>3 DEF RemovalOps

(* Only delete_entity searches for the type.                               *)
LEMMA OnlyEntityFinds ==
    ASSUME NEW q, ask[q].op \in RemovalOps
    PROVE  /\ ask[q].op = "delete_entity" => Handler(q).finds
           /\ ask[q].op # "delete_entity" => ~Handler(q).finds
<1>1. ask[q].op = "delete_entity" => Handler(q) = DeleteEntity
  BY HandlerOfRemoval
<1>2. ask[q].op = "delete_entities" => Handler(q) = Removal
  BY HandlerOfRemoval
<1>3. ask[q].op = "drop" => Handler(q) = DropTable
  BY HandlerOfRemoval
<1>4. Removal.finds = FALSE /\ DeleteEntity.finds = TRUE /\ DropTable.finds = FALSE
  BY DEF Removal, DeleteEntity, DropTable, Listing
<1> QED
  BY <1>1, <1>2, <1>3, <1>4, Zenon DEF RemovalOps

(* What the handlers of the queries say.                                   *)
LEMMA QueryHandlers ==
    ASSUME NEW q, ask[q].op \in SeriesOps \cup {"NTNE", "op"}
    PROVE  /\ Handler(q).finds => ask[q].op \in FindOps
           /\ ask[q].op \in SeriesOps => Handler(q).call = "query"
           /\ ask[q].op = "NTNE" => Handler(q).call = "ids"
           /\ ask[q].op = "op" => Handler(q).call = "last_value"
           /\ ask[q].op \in {"1T1E1A", "1T1ENA"} => Handler(q).body = "first"
           /\ ask[q].op = "1TNE1A" => Handler(q).body = "asked"
           /\ ask[q].op \in {"1TNENA", "NTNE", "op"} => Handler(q).body = "all"
           /\ ask[q].op \in {"NTNE1A", "NTNENA"} => Handler(q).body = "types"
           /\ Handler(q).badDate \in {422, 500} /\ Handler(q).clash = 400
<1> DEFINE h == Handler(q)
<1>1. /\ Listing.call = "query" /\ Listing.finds = FALSE /\ Listing.clash = 400
      /\ Listing.badDate = 422 /\ Listing.body = "all"
  BY DEF Listing
<1>2. CASE ask[q].op = "1T1E1A"
  <2>1. h = Query1T1E1A
    BY <1>2 DEF Handler, HandlerOf
  <2>2. /\ Query1T1E1A.call = "query" /\ Query1T1E1A.clash = 400
        /\ Query1T1E1A.badDate = 500 /\ Query1T1E1A.body = "first"
    BY DEF Query1T1E1A, Listing
  <2> QED
    BY <1>2, <2>1, <2>2 DEF FindOps
<1>3. CASE ask[q].op = "1T1ENA"
  <2>1. h = Query1T1ENA
    BY <1>3 DEF Handler, HandlerOf
  <2>2. /\ Query1T1ENA.call = "query" /\ Query1T1ENA.clash = 400
        /\ Query1T1ENA.badDate = 422 /\ Query1T1ENA.body = "first"
    BY DEF Query1T1ENA, Listing
  <2> QED
    BY <1>3, <2>1, <2>2 DEF FindOps
<1>4. CASE ask[q].op = "1TNE1A"
  <2>1. h = Query1TNE1A
    BY <1>4 DEF Handler, HandlerOf
  <2>2. /\ Query1TNE1A.call = "query" /\ Query1TNE1A.clash = 400
        /\ Query1TNE1A.badDate = 422 /\ Query1TNE1A.body = "asked"
        /\ Query1TNE1A.finds = FALSE
    BY DEF Query1TNE1A, Listing
  <2> QED
    BY <1>4, <2>1, <2>2
<1>5. CASE ask[q].op = "1TNENA"
  <2>1. h = Listing
    BY <1>5 DEF Handler, HandlerOf, Query1TNENA
  <2> QED
    BY <1>1, <1>5, <2>1
<1>6. CASE ask[q].op = "NTNE"
  <2>1. h = QueryNTNE
    BY <1>6 DEF Handler, HandlerOf
  <2>2. /\ QueryNTNE.call = "ids" /\ QueryNTNE.clash = 400
        /\ QueryNTNE.badDate = 422 /\ QueryNTNE.body = "all" /\ QueryNTNE.finds = FALSE
    BY DEF QueryNTNE, Listing
  <2> QED
    BY <1>6, <2>1, <2>2 DEF SeriesOps
<1>7. CASE ask[q].op = "NTNE1A"
  <2>1. h = QueryNTNE1A
    BY <1>7 DEF Handler, HandlerOf
  <2>2. /\ QueryNTNE1A.call = "query" /\ QueryNTNE1A.clash = 400
        /\ QueryNTNE1A.badDate = 422 /\ QueryNTNE1A.body = "types"
        /\ QueryNTNE1A.finds = FALSE
    BY DEF QueryNTNE1A, Listing
  <2> QED
    BY <1>7, <2>1, <2>2
<1>8. CASE ask[q].op = "NTNENA"
  <2>1. h = QueryNTNENA
    BY <1>8 DEF Handler, HandlerOf
  <2>2. /\ QueryNTNENA.call = "query" /\ QueryNTNENA.clash = 400
        /\ QueryNTNENA.badDate = 422 /\ QueryNTNENA.body = "types"
        /\ QueryNTNENA.finds = FALSE
    BY DEF QueryNTNENA, Listing
  <2> QED
    BY <1>8, <2>1, <2>2
<1>9. CASE ask[q].op = "op"
  <2>1. h = OpQuery
    BY <1>9 DEF Handler, HandlerOf
  <2>2. /\ OpQuery.call = "last_value" /\ OpQuery.clash = 400
        /\ OpQuery.badDate = 422 /\ OpQuery.body = "all" /\ OpQuery.finds = FALSE
    BY DEF OpQuery, Listing
  <2> QED
    BY <1>9, <2>1, <2>2 DEF SeriesOps
<1> QED
  BY <1>2, <1>3, <1>4, <1>5, <1>6, <1>7, <1>8, <1>9 DEF SeriesOps

(* A refusal is an error.                                                  *)
LEMMA RefusalCodes ==
    ASSUME NEW r
    PROVE  Refusal(r) \in {0, 400, 422, 500, 501}
<1>1. GeoRefusal(r.geo) \in {0, 400, 422}
  BY DEF GeoRefusal
<1> QED
  BY <1>1 DEF Refusal

(* A listing of a finite set has all its members.                          *)
LEMMA ListingIsOnto ==
    ASSUME NEW S, IsFiniteSet(S), NEW s \in SetToSeqs(S)
    PROVE  s \in Seq(S) /\ \A x \in S : \E k \in 1..Len(s) : s[k] = x
<1> DEFINE n == Cardinality(S)  D == 1..n
<1>1. n \in Nat /\ IsFiniteSet(D) /\ Cardinality(D) = n
  <2>1. n \in Nat
    BY FS_CardinalityType
  <2> HIDE DEF n
  <2> QED
    BY <2>1, FS_Interval
<1>2. s \in [D -> S] /\ \A i, j \in D : i # j => s[i] # s[j]
  BY DEF SetToSeqs
<1>3. s \in Seq(S) /\ Len(s) = n
  <2> HIDE DEF n
  <2> QED
    BY <1>1, <1>2
<1>4. ASSUME NEW x \in S, \A k \in D : s[k] # x
      PROVE  FALSE
  <2>1. IsFiniteSet(S \ {x}) /\ Cardinality(S \ {x}) = n - 1
    BY FS_RemoveElement
  <2>2. s \in [D -> S \ {x}]
    BY <1>2, <1>4
  <2>3. Cardinality(S \ {x}) < Cardinality(D)
    <3> HIDE DEF n
    <3> QED
      BY <1>1, <2>1
  <2> HIDE DEF D
  <2>4. \E i, j \in D : i # j /\ s[i] = s[j]
    BY <1>1, <2>1, <2>2, <2>3, FS_PigeonHole
  <2> QED
    BY <1>2, <2>4
<1> QED
  BY <1>3, <1>4

(* What a request is known to be.                                          *)
LEMMA RequestFacts ==
    ASSUME NEW r, IsRequest(r)
    PROVE  /\ r.service \in Tenants /\ r.ngsild \in Tenants
           /\ r.type \in DOMAIN Lower \cup {"none"} /\ r.ids \in Seq(Nat)
           /\ r.op \in {"delete_entities", "drop"} => r.type # "none"
           /\ r.op = "delete_entity" => Len(r.ids) = 1
           /\ [r EXCEPT !.ids = r.ids] = r
<1>1. r \in Asks
  BY DEF IsRequest
<1>2. [r EXCEPT !.ids = r.ids] = r
  BY <1>1 DEF Asks
<1> QED
  BY <1>1, <1>2 DEF IsRequest, Asks

LEMMA TenantType ==
    ASSUME NEW q, IsRequest(ask[q])
    PROVE  Tenant(q) \in Tenants
  BY RequestFacts DEF Tenant

(* There are finitely many tables.                                         *)
LEMMA TablesFinite == IsFiniteSet(AllTables)
<1>1. TableOrder \in Seq([tenant : Tenants, base : STRING])
  BY TablesAssumption
<1> DEFINE n == Len(TableOrder)  D == 1..n
<1>2. n \in Nat /\ DOMAIN TableOrder = D
  BY <1>1
<1>3. IsFiniteSet(D)
  <2> HIDE DEF n
  <2> QED
    BY <1>2, FS_Interval
<1>4. AllTables = {TableOrder[k] : k \in D}
  BY <1>2 DEF AllTables, ToSet
<1> HIDE DEF D
<1> DEFINE f == [k \in D |-> TableOrder[k]]
<1>5. f \in Surjection(D, AllTables)
  BY <1>4 DEF Surjection
<1> QED
  BY <1>3, <1>5, FS_Surjection

(* A table is its tenant and its base.                                     *)
LEMMA TableIsPair ==
    ASSUME NEW tb \in AllTables
    PROVE  tb = [tenant |-> tb.tenant, base |-> tb.base]
<1>1. PICK k \in DOMAIN TableOrder : tb = TableOrder[k]
  BY DEF AllTables, ToSet
<1> DEFINE P == [tenant : Tenants, base : STRING]
<1>2. TableOrder \in Seq(P)
  BY TablesAssumption
<1> HIDE DEF P
<1>3. tb \in P
  BY <1>1, <1>2
<1>4. tb \in [tenant : Tenants, base : STRING]
  BY <1>3 DEF P
<1> QED
  BY <1>4

-----------------------------------------------------------------------------
(* A step of a request touches what is kept for that request only.  The    *)
(* lemmas follow the operators the handlers are built of.                  *)
At(f, g, q) == DOMAIN g = DOMAIN f /\ \A p \in Requests \ {q} : g[p] = f[p]
Touches(q) ==
    /\ At(phase, phase', q) /\ At(work, work', q) /\ At(found, found', q)
    /\ At(answer, answer', q) /\ At(fetched, fetched', q)
Moves(q) == Touches(q) /\ listed' = listed

LEMMA AnswerMoves ==
    ASSUME NEW q \in Requests, NEW code, NEW body, Domains, Answer(q, code, body)
    PROVE  Moves(q)
  BY DEF Domains, Answer, Step, Moves, Touches, At

LEMMA QueryMoves ==
    ASSUME NEW q \in Requests, NEW T, Domains, Query(q, T)
    PROVE  Moves(q)
<1> DEFINE s == Statements(q, T)
<1>1. CASE s = <<>>
  <2>1. Answer(q, 200, <<>>)
    BY <1>1 DEF Query
  <2> QED
    BY <2>1, AnswerMoves
<1>2. CASE s # <<>>
  <2>1. /\ Step(q, "select")
        /\ work' = [work EXCEPT ![q] = s]
        /\ found' = [found EXCEPT ![q] = <<>>]
        /\ UNCHANGED <<fetched, answer, listed>>
    BY <1>2 DEF Query
  <2> HIDE DEF s
  <2> QED
    BY <2>1 DEF Domains, Step, Moves, Touches, At
<1> QED
  BY <1>1, <1>2

(* A query leaves out tables that are hidden from it, and no others; none  *)
(* in a series.                                                            *)
LEMMA WhatIsLeft ==
    ASSUME NEW q, NEW T, QueryLeft(q, T)
    PROVE  \E K \in SUBSET T :
            /\ Query(q, K)
            /\ \A tb \in T \ K : Hidden(q, tb)
            /\ Handler(q).call = "query" => K = T
<1>1. CASE DropsDotted(q)
  <2>1. PICK K \in Undotted(T) : Query(q, K)
    BY <1>1 DEF QueryLeft
  <2>2. K \subseteq T /\ \A tb \in T \ K : tb.base \in Dotted
    BY DEF Undotted
  <2>3. Handler(q).call # "query" /\ \A tb \in T \ K : Hidden(q, tb)
    BY <1>1, <2>2 DEF Hidden, DropsDotted
  <2> QED
    BY <2>1, <2>2, <2>3
<1>2. CASE ~DropsDotted(q)
  BY <1>2 DEF QueryLeft
<1> QED
  BY <1>1, <1>2

LEMMA LeftMoves ==
    ASSUME NEW q \in Requests, NEW T, Domains, QueryLeft(q, T)
    PROVE  Moves(q)
  BY QueryMoves DEF QueryLeft

LEMMA WithTypeMoves ==
    ASSUME NEW q \in Requests, NEW type, Domains, WithType(q, type)
    PROVE  Moves(q)
<1>1. CASE BadClause(q)
  BY <1>1, AnswerMoves DEF BadClause
<1>2. CASE /\ Step(q, "erase")
           /\ work' = [work EXCEPT ![q] =
                 <<[tables |-> <<Table(q, type)>>, ids |-> ask[q].ids]>>]
           /\ found' = [found EXCEPT ![q] = <<>>]
           /\ UNCHANGED <<fetched, answer, listed>>
  BY <1>2 DEF Domains, Step, Moves, Touches, At
<1>3. CASE Step(q, "drop") /\ UNCHANGED <<work, fetched, found, answer, listed>>
  BY <1>3 DEF Domains, Step, Moves, Touches, At
<1>4. CASE QueryLeft(q, {Table(q, type)})
  BY <1>4, LeftMoves
<1> QED
  BY <1>1, <1>2, <1>3, <1>4 DEF WithType

LEMMA ProceedMoves ==
    ASSUME NEW q \in Requests, NEW entities, Domains, Proceed(q, entities)
    PROVE  Moves(q)
<1>1. CASE Respond(q, entities)
  BY <1>1, AnswerMoves DEF Respond
<1>2. CASE /\ Step(q, "select")
           /\ work' = [work EXCEPT ![q] = Tail(@)]
           /\ found' = [found EXCEPT ![q] = entities]
           /\ fetched' = [fetched EXCEPT ![q] = <<>>]
           /\ UNCHANGED <<answer, listed>>
  BY <1>2 DEF Domains, Step, Moves, Touches, At
<1> QED
  BY <1>1, <1>2 DEF Proceed

LEMMA WithoutValueMoves ==
    ASSUME NEW q \in Requests, Domains, WithoutValue(q)
    PROVE  Moves(q)
  BY AnswerMoves, ProceedMoves DEF WithoutValue

LEMMA StrikeStruck ==
    ASSUME NEW q \in Requests, NEW kind, Domains, Strike(q, kind)
    PROVE  At(struck, struck', q) /\ struck'[q] = TRUE
  BY DEF Domains, Strike, At

(* One step of a request: what it leaves alone, and that the database only *)
(* loses by it.  Only its start finds it waiting, and changes no data.     *)
ServeMove(q) ==
    /\ Touches(q) /\ At(struck, struck', q) /\ At(listed, listed', q)
    /\ ask' = ask /\ conf' = conf /\ arrivals' = arrivals
    /\ rows' \subseteq rows /\ meta' \subseteq meta
    /\ phase[q] = "waiting" => rows' = rows /\ meta' = meta /\ tables' = tables
    /\ phase[q] \in {"find", "search", "unmeta", "forget", "erase"}
         => tables' = tables
    /\ phase[q] \in {"find", "search"} => rows' = rows /\ meta' = meta
    /\ DOMAIN names' = DOMAIN names
    /\ phase[q] # "done"

LEMMA ServeMoves ==
    ASSUME NEW q \in Requests, Domains, Serve(q)
    PROVE  ServeMove(q)
<1> USE DEF database
<1>1. ask' = ask /\ conf' = conf
  BY DEF Serve
<1>2. \A kind : Strike(q, kind) => At(struck, struck', q)
  BY StrikeStruck
<1>3. UNCHANGED struck => At(struck, struck', q)
  BY DEF At
<1>4. Moves(q) => Touches(q) /\ At(listed, listed', q)
  BY DEF Moves, At
<1>5. \A code, body : Answer(q, code, body) => Moves(q)
  BY AnswerMoves
<1>6. CASE Start(q)
  <2>1. Moves(q)
    <3>1. \A code, body : Answer(q, code, body) => Moves(q)
      BY AnswerMoves
    <3>2. \A type : WithType(q, type) => Moves(q)
      BY WithTypeMoves
    <3>3. BadClause(q) => Moves(q)
      BY <3>1 DEF BadClause
    <3>4. \A next : /\ Step(q, next)
                    /\ UNCHANGED <<work, fetched, found, answer, listed>>
                   => Moves(q)
      BY DEF Domains, Step, Moves, Touches, At
    <3> QED
      BY <1>6, <3>1, <3>2, <3>3, <3>4 DEF Start
  <2>2. /\ phase[q] = "waiting" /\ UNCHANGED <<database, names, struck>>
    BY <1>6 DEF Start
  <2> QED
    BY <1>1, <1>3, <1>4, <2>1, <2>2 DEF ServeMove
<1>7. CASE Find(q)
  <2>1. phase[q] = "find" /\ UNCHANGED <<database, names>>
    BY <1>7 DEF Find
  <2>2. Moves(q) /\ At(struck, struck', q)
    <3>1. CASE /\ Step(q, "search")
               /\ \E listing : work' = [work EXCEPT ![q] =
                        [k \in DOMAIN listing |->
                            [tables |-> <<listing[k]>>, ids |-> ask[q].ids]]]
               /\ UNCHANGED <<fetched, found, answer, listed, struck>>
      BY <3>1 DEF Domains, Step, Moves, Touches, At
    <3>2. ASSUME NEW kind, NEW code, Strike(q, kind), Answer(q, code, <<>>)
          PROVE  Moves(q) /\ At(struck, struck', q)
      BY <3>2, <1>2, AnswerMoves
    <3> QED
      BY <1>7, <3>1, <3>2, ZenonT(30) DEF Find
  <2> QED
    BY <1>1, <1>4, <2>1, <2>2 DEF ServeMove
<1>8. CASE Search(q)
  <2>1. phase[q] = "search" /\ UNCHANGED <<database, names>>
    BY <1>8 DEF Search
  <2>2. Moves(q) /\ At(struck, struck', q)
    <3>1. CASE SearchTable(q)
      <4>1. ASSUME NEW types, found' = [found EXCEPT ![q] = @ \o types],
                   work' = [work EXCEPT ![q] = Tail(@)],
                   UNCHANGED <<phase, fetched, answer, listed, struck>>
            PROVE  Moves(q) /\ At(struck, struck', q)
        BY <4>1 DEF Domains, Moves, Touches, At
      <4>2. ASSUME NEW kind, NEW code, Strike(q, kind), Answer(q, code, <<>>)
            PROVE  Moves(q) /\ At(struck, struck', q)
        BY <4>2, <1>2, AnswerMoves
      <4> QED
        BY <3>1, <1>3, <1>5, <4>1, <4>2, ZenonT(30) DEF SearchTable
    <3>2. CASE \E code : Answer(q, code, <<>>) /\ UNCHANGED struck
      BY <3>2, <1>3, <1>5
    <3>3. CASE \E type : WithType(q, type) /\ UNCHANGED struck
      BY <3>3, <1>3, WithTypeMoves
    <3> QED
      BY <1>8, <3>1, <3>2, <3>3 DEF Search
  <2> QED
    BY <1>1, <1>4, <2>1, <2>2 DEF ServeMove
<1>9. CASE List(q)
  <2>1. phase[q] = "list" /\ UNCHANGED <<database, names>>
    BY <1>9 DEF List
  <2>2. Touches(q) /\ At(listed, listed', q) /\ At(struck, struck', q)
    <3>1. ASSUME NEW next, NEW T, Step(q, next), Given(q, T),
                 UNCHANGED <<work, fetched, found, answer>>
          PROVE  Touches(q) /\ At(listed, listed', q)
      BY <3>1 DEF Domains, Step, Given, Touches, At
    <3>2. ReadNames(q) => Touches(q) /\ At(listed, listed', q)
      BY <3>1 DEF ReadNames
    <3>3. ASSUME NEW kind, NEW code, Strike(q, kind), Answer(q, code, <<>>)
          PROVE  Moves(q) /\ At(struck, struck', q)
      BY <3>3, <1>2, AnswerMoves
    <3> QED
      BY <1>9, <1>2, <1>3, <1>4, <3>1, <3>2, <3>3 DEF List
  <2> QED
    BY <1>1, <2>1, <2>2 DEF ServeMove
<1>10. CASE Fill(q)
  <2>1. phase[q] = "fill" /\ UNCHANGED database /\ DOMAIN names' = DOMAIN names
    BY <1>10 DEF Fill
  <2>2. Moves(q)
    BY <1>10 DEF Fill, Domains, Step, Moves, Touches, At
  <2>3. At(struck, struck', q)
    BY <1>10, <1>2, <1>3 DEF Fill
  <2> QED
    BY <1>1, <1>4, <2>1, <2>2, <2>3 DEF ServeMove
<1>11. CASE Begin(q)
  <2>1. phase[q] = "listed" /\ UNCHANGED <<database, names, struck>>
    BY <1>11 DEF Begin
  <2>2. Moves(q)
    BY <1>11, LeftMoves DEF Begin
  <2> QED
    BY <1>1, <1>3, <1>4, <2>1, <2>2 DEF ServeMove
<1>12. CASE Select(q)
  <2>1. phase[q] = "select" /\ UNCHANGED <<database, names>>
    BY <1>12 DEF Select
  <2>2. Moves(q) /\ At(struck, struck', q)
    <3>1. ASSUME NEW s, fetched' = [fetched EXCEPT ![q] = s], Step(q, "format"),
                 UNCHANGED <<work, found, answer, listed, struck>>
          PROVE  Moves(q) /\ At(struck, struck', q)
      BY <3>1 DEF Domains, Step, Moves, Touches, At
    <3>2. WithoutValue(q) => Moves(q)
      BY WithoutValueMoves
    <3>3. \A entities : Proceed(q, entities) => Moves(q)
      BY ProceedMoves
    <3> QED
      BY <1>12, <1>2, <1>3, <1>5, <3>1, <3>2, <3>3 DEF Select
  <2> QED
    BY <1>1, <1>4, <2>1, <2>2 DEF ServeMove
<1>13. CASE FormatRows(q)
  <2>1. phase[q] = "format" /\ UNCHANGED <<database, names>>
    BY <1>13 DEF FormatRows
  <2>2. Moves(q) /\ At(struck, struck', q)
    <3>1. WithoutValue(q) => Moves(q)
      BY WithoutValueMoves
    <3>2. \A entities : Proceed(q, entities) => Moves(q)
      BY ProceedMoves
    <3> QED
      BY <1>13, <1>2, <1>3, <1>5, <3>1, <3>2 DEF FormatRows
  <2> QED
    BY <1>1, <1>4, <2>1, <2>2 DEF ServeMove
<1>14. CASE Erase(q)
  <2>1. phase[q] = "erase" /\ names' = names /\ tables' = tables /\ meta' = meta
        /\ arrivals' = arrivals /\ rows' \subseteq rows
    BY <1>14 DEF Erase, EraseRows
  <2>2. Moves(q) /\ At(struck, struck', q)
    <3>1. CASE EraseRows(q)
      <4>1. /\ Step(q, "forget") /\ UNCHANGED <<work, fetched, answer, listed, struck>>
            /\ \E some : found' = [found EXCEPT ![q] = some]
        BY <3>1 DEF EraseRows
      <4> QED
        BY <4>1 DEF Domains, Step, Moves, Touches, At
    <3> QED
      BY <1>14, <1>2, <1>3, <1>5, <3>1 DEF Erase
  <2> QED
    BY <1>1, <1>4, <2>1, <2>2 DEF ServeMove
<1>15. CASE Drop(q)
  <2>1. phase[q] = "drop" /\ names' = names /\ meta' = meta
        /\ arrivals' = arrivals /\ rows' \subseteq rows
    BY <1>15 DEF Drop
  <2>2. Moves(q) /\ At(struck, struck', q)
    <3>1. Step(q, "unmeta") /\ UNCHANGED <<answer, work, fetched, found, listed>>
            => Moves(q)
      BY DEF Domains, Step, Moves, Touches, At
    <3> QED
      BY <1>15, <1>2, <1>3, <1>5, <3>1 DEF Drop
  <2> QED
    BY <1>1, <1>4, <2>1, <2>2 DEF ServeMove
<1>16. CASE Unmeta(q)
  <2>1. phase[q] = "unmeta" /\ names' = names /\ meta' \subseteq meta
        /\ arrivals' = arrivals /\ rows' = rows /\ tables' = tables
    BY <1>16 DEF Unmeta
  <2>2. Moves(q) /\ At(struck, struck', q)
    <3>1. Step(q, "forget") /\ UNCHANGED <<answer, work, fetched, found, listed>>
            => Moves(q)
      BY DEF Domains, Step, Moves, Touches, At
    <3> QED
      BY <1>16, <1>2, <1>3, <1>5, <3>1 DEF Unmeta
  <2> QED
    BY <1>1, <1>4, <2>1, <2>2 DEF ServeMove
<1>17. CASE Forget(q)
  <2>1. phase[q] = "forget" /\ UNCHANGED database /\ DOMAIN names' = DOMAIN names
    BY <1>17 DEF Forget
  <2>2. Moves(q) /\ At(struck, struck', q)
    BY <1>17, <1>2, <1>3, <1>5 DEF Forget
  <2> QED
    BY <1>1, <1>4, <2>1, <2>2 DEF ServeMove
<1> QED
  BY <1>6, <1>7, <1>8, <1>9, <1>10, <1>11, <1>12, <1>13, <1>14, <1>15, <1>16,
     <1>17 DEF Serve

-----------------------------------------------------------------------------
(* What requests are about, and which rows there can be, stays as it is.   *)
LEMMA DataInit ==
    ASSUME Init
    PROVE  DataInv
<1>1. PICK s \in Scenarios : /\ conf = s.conf /\ ask = s.ask
                             /\ arrivals = s.arrivals /\ rows = s.begin
  BY DEF Init
<1>2. /\ \A q \in Requests : IsRequest(ask[q])
      /\ IsFiniteSet(rows \cup arrivals)
      /\ \A x \in rows \cup arrivals : IsRow(x) /\ x \in AllRows
  BY <1>1, ScenariosAssumption DEF AllRows
<1>3. meta \subseteq AllTables
  BY <1>2 DEF Init, IsRow
<1>4. Domains
  BY DEF Init, Domains
<1> QED
  BY <1>2, <1>3, <1>4 DEF DataInv

LEMMA ServeDomains ==
    ASSUME NEW q \in Requests, Domains, ServeMove(q)
    PROVE  Domains'
  BY DEF Domains, ServeMove, Touches, At

LEMMA AgainMoves ==
    ASSUME NEW q \in Requests, Domains, Again(q)
    PROVE  /\ Touches(q) /\ At(listed, listed', q) /\ At(struck, struck', q)
           /\ phase[q] = "done" /\ phase'[q] = "waiting" /\ found' = found
           /\ UNCHANGED <<database, names>>
  BY DEF Again, Given, Step, Domains, Touches, At

LEMMA DataStep ==
    ASSUME DataInv, [Next]_vars
    PROVE  DataInv'
<1>1. ASSUME NEW q \in Requests, Serve(q)
      PROVE  DataInv'
  <2>1. ServeMove(q)
    BY <1>1, ServeMoves DEF DataInv
  <2>2. Domains'
    BY <2>1, ServeDomains DEF DataInv
  <2>3. IsFiniteSet((rows \cup arrivals)')
    <3>1. (rows \cup arrivals)' \subseteq rows \cup arrivals
      BY <2>1 DEF ServeMove
    <3> QED
      BY <3>1, FS_Subset DEF DataInv
  <2>4. ask' = ask /\ meta' \subseteq meta
        /\ rows' \subseteq rows /\ arrivals' = arrivals
    BY <2>1 DEF ServeMove
  <2> QED
    BY <2>2, <2>3, <2>4 DEF DataInv
<1>2. ASSUME NEW q \in Requests, Again(q), UNCHANGED <<conf, ask>>
      PROVE  DataInv'
  <2>1. /\ Touches(q) /\ At(listed, listed', q) /\ At(struck, struck', q)
        /\ UNCHANGED <<database, names>>
    BY <1>2, AgainMoves DEF DataInv
  <2>2. Domains'
    BY <2>1 DEF DataInv, Domains, Touches, At
  <2> QED
    BY <1>2, <2>1, <2>2 DEF DataInv, database
<1>3. ASSUME NEW x \in arrivals, Insert(x)
      PROVE  DataInv'
  <2>1. /\ arrivals' = arrivals \ {x} /\ rows' = rows \cup {x}
        /\ meta' = meta \cup {x.table}
        /\ UNCHANGED <<ask, names, request, struck>>
    BY <1>3 DEF Insert
  <2>2. (rows \cup arrivals)' = rows \cup arrivals
    BY <2>1
  <2>3. x.table \in AllTables
    BY DEF DataInv, IsRow
  <2>4. Domains'
    BY <2>1 DEF DataInv, Domains, request
  <2>5. IsFiniteSet((rows \cup arrivals)')
    BY <2>2 DEF DataInv
  <2> QED
    BY <2>1, <2>2, <2>3, <2>4, <2>5 DEF DataInv
<1>4. ASSUME NEW t \in Tenants, Expire(t)
      PROVE  DataInv'
  BY <1>4 DEF Expire, DataInv, Domains, database, request
<1>5. CASE UNCHANGED vars
  BY <1>5 DEF vars, DataInv, Domains, database, request
<1> QED
  BY <1>1, <1>2, <1>3, <1>4, <1>5 DEF Next

-----------------------------------------------------------------------------
(* Names: those of a tenant are read from the metadata by the exact name,  *)
(* cached under a key of its own, and given to its requests only.          *)
LEMMA OwnStep ==
    ASSUME DataInv, OwnInv, [Next]_vars
    PROVE  OwnInv'
<1>1. \A q \in Requests : Tenant(q) \in Tenants
  BY TenantType DEF DataInv
<1>2. ASSUME UNCHANGED <<ask, listed, names>>
      PROVE  OwnInv'
  BY <1>2 DEF OwnInv, OwnTables, Tenant, Handler
<1>3. ASSUME NEW q \in Requests, ask' = ask, names' = names, NEW T,
             Given(q, T), \A tb \in T : tb.tenant = Tenant(q)
      PROVE  OwnInv'
  BY <1>3 DEF OwnInv, OwnTables, Tenant, Handler, Given, DataInv, Domains
<1>4. ASSUME NEW t \in Tenants, NEW T, ask' = ask, listed' = listed,
             names' = [names EXCEPT ![t] = T], \A tb \in T : tb.tenant = t
      PROVE  OwnInv'
  BY <1>4 DEF OwnInv, OwnTables, Tenant, Handler, DataInv, Domains
<1>5. ASSUME NEW q \in Requests, Serve(q)
      PROVE  OwnInv'
  <2>1. ask' = ask /\ Domains
    BY <1>5 DEF Serve, DataInv
  <2>2. \A code, body : Answer(q, code, body) => listed' = listed
    BY <2>1, AnswerMoves DEF Moves
  <2>3. \A type : WithType(q, type) => listed' = listed
    BY <2>1, WithTypeMoves DEF Moves
  <2>4. WithoutValue(q) => listed' = listed
    BY <2>1, WithoutValueMoves DEF Moves
  <2>5. \A entities : Proceed(q, entities) => listed' = listed
    BY <2>1, ProceedMoves DEF Moves
  <2>6. CASE Start(q)
    BY <1>2, <2>1, <2>2, <2>3, <2>6 DEF Start, BadClause
  <2>7. CASE Find(q)
    BY <1>2, <2>1, <2>2, <2>7 DEF Find
  <2>8. CASE Search(q)
    BY <1>2, <2>1, <2>2, <2>3, <2>8 DEF Search, SearchTable
  <2>9. CASE List(q)
    <3>1. names' = names
      BY <2>9 DEF List
    <3>2. ReadNames(q) => OwnInv'
      BY <1>3, <2>1, <3>1 DEF ReadNames, TablesOf
    <3>3. \A tb \in names[CacheKey(q)] : tb.tenant = Tenant(q)
      BY <1>1 DEF OwnInv, CacheKey
    <3>4. Given(q, names[CacheKey(q)]) => OwnInv'
      BY <1>3, <2>1, <3>1, <3>3
    <3> QED
      BY <2>9, <1>2, <2>1, <2>2, <3>1, <3>2, <3>4 DEF List
  <2>10. CASE Fill(q)
    <3>1. \A tb \in listed[q] : tb.tenant = Tenant(q)
      BY DEF OwnInv, OwnTables
    <3>2. Tenant(q) \in Tenants /\ listed' = listed
      BY <1>1, <2>10 DEF Fill
    <3>3. names' = names \/ names' = [names EXCEPT ![Tenant(q)] = listed[q]]
      BY <2>10 DEF Fill, CacheKey
    <3> QED
      BY <1>2, <1>4, <2>1, <3>1, <3>2, <3>3
  <2>11. CASE Begin(q)
    <3>1. Moves(q)
      BY <2>1, <2>11, LeftMoves DEF Begin
    <3> QED
      BY <1>2, <2>1, <2>11, <3>1 DEF Begin, Moves
  <2>12. CASE Select(q)
    BY <1>2, <2>1, <2>2, <2>4, <2>5, <2>12 DEF Select
  <2>13. CASE FormatRows(q)
    BY <1>2, <2>1, <2>2, <2>4, <2>5, <2>13 DEF FormatRows
  <2>14. CASE Erase(q)
    BY <1>2, <2>1, <2>2, <2>14 DEF Erase, EraseRows
  <2>15. CASE Drop(q)
    BY <1>2, <2>1, <2>2, <2>15 DEF Drop
  <2>16. CASE Unmeta(q)
    BY <1>2, <2>1, <2>2, <2>16 DEF Unmeta
  <2>17. CASE Forget(q)
    <3>1. Tenant(q) \in Tenants /\ listed' = listed
      BY <1>1, <2>2, <2>17 DEF Forget
    <3>2. names' = names \/ names' = [names EXCEPT ![Tenant(q)] = {}]
      BY <2>17 DEF Forget, CacheKey
    <3> QED
      BY <1>2, <1>4, <2>1, <3>1, <3>2
  <2> QED
    BY <1>5, <2>6, <2>7, <2>8, <2>9, <2>10, <2>11, <2>12, <2>13, <2>14, <2>15,
       <2>16, <2>17 DEF Serve
<1>6. ASSUME NEW q \in Requests, Again(q), UNCHANGED <<conf, ask>>
      PROVE  OwnInv'
  BY <1>3, <1>6 DEF Again
<1>7. ASSUME NEW x \in arrivals, Insert(x)
      PROVE  OwnInv'
  BY <1>2, <1>7 DEF Insert, request
<1>8. ASSUME NEW t \in Tenants, Expire(t)
      PROVE  OwnInv'
  <2> DEFINE none == {}
  <2>1. ask' = ask /\ listed' = listed /\ names' = [names EXCEPT ![t] = none]
    BY <1>8 DEF Expire, request
  <2>2. \A tb \in none : tb.tenant = t
    OBVIOUS
  <2> HIDE DEF none
  <2> QED
    BY <1>4, <2>1, <2>2
<1>9. CASE UNCHANGED vars
  BY <1>2, <1>9 DEF vars, request
<1> QED
  BY <1>5, <1>6, <1>7, <1>8, <1>9 DEF Next

(* No request is given the table of another tenant, whether its list comes *)
(* from the cache or from the metadata.                                    *)
THEOREM TablesAreOwn == Spec => []OwnTables
<1>1. Init => DataInv /\ OwnInv
  <2> SUFFICES ASSUME Init PROVE DataInv /\ OwnInv
    OBVIOUS
  <2>1. OwnInv
    BY DEF Init, OwnInv, OwnTables
  <2> QED
    BY <2>1, DataInit
<1>2. DataInv /\ OwnInv /\ [Next]_vars => DataInv' /\ OwnInv'
  BY DataStep, OwnStep
<1>3. OwnInv => OwnTables
  BY DEF OwnInv
<1> QED
  BY <1>1, <1>2, <1>3, PTL DEF Spec

-----------------------------------------------------------------------------
(* What a step leaves of the rows that were visible all along, if it does  *)
(* not start the request: fewer of them, and all visible still.            *)
Kept(q) ==
    /\ stable'[q] \subseteq stable[q]
    /\ phase'[q] \notin {"waiting", "done"} => stable'[q] \subseteq Visible'
    /\ phase[q] \notin {"waiting", "done"}
         => stable'[q] \subseteq stable[q] \cap Visible'

LEMMA TrackKeeps ==
    ASSUME NEW q \in Requests, Track,
           phase[q] = "waiting" => phase'[q] = "waiting",
           phase[q] = "done" => phase'[q] \in {"waiting", "done"}
    PROVE  Kept(q)
  BY DEF Track, Kept

(* The start of a request: all that is visible is visible all along so far. *)
LEMMA TrackStarts ==
    ASSUME NEW q \in Requests, Track, phase[q] = "waiting",
           rows' = rows, meta' = meta, tables' = tables
    PROVE  stable'[q] \subseteq Visible'
  BY DEF Track, Visible

LEMMA DoomedStays ==
    ASSUME ask' = ask, conf' = conf, NEW q, NEW x
    PROVE  Doomed(q, x)' <=> Doomed(q, x)
  BY DEF Doomed, Table, Tenant, Handler

LEMMA SoughtStays ==
    ASSUME ask' = ask, NEW q, NEW x
    PROVE  Sought(q, x)' <=> Sought(q, x)
  BY DEF Sought, Tenant, Handler

(* A step that does not touch a request leaves its search and its removal  *)
(* where they are.                                                         *)
LEMMA OthersFind ==
    ASSUME NEW q \in Requests, FindingInv(q), Track, ask' = ask,
           phase'[q] = phase[q], work'[q] = work[q], found'[q] = found[q]
    PROVE  FindingInv(q)'
<1>1. Kept(q)
  BY TrackKeeps
<1>2. \A x : Sought(q, x)' <=> Sought(q, x)
  BY SoughtStays
<1>3. SearchInv(q) => SearchInv(q)'
  BY <1>1, <1>2 DEF SearchInv, Kept
<1> QED
  BY <1>1, <1>3 DEF FindingInv, Kept

LEMMA OthersKeep ==
    ASSUME NEW q \in Requests, RemovalInv(q), Track, ask' = ask, conf' = conf,
           phase'[q] = phase[q], work'[q] = work[q],
           answer'[q] = answer[q], struck'[q] = struck[q]
    PROVE  RemovalInv(q)'
<1>1. Kept(q)
  BY TrackKeeps
<1>2. \A x : Doomed(q, x)' <=> Doomed(q, x)
  BY DoomedStays
<1>3. stable'[q] \subseteq stable[q]
  BY <1>1 DEF Kept
<1>4. NoneDoomed(q) => NoneDoomed(q)'
  BY <1>2, <1>3 DEF NoneDoomed
<1>6. EraseInv(q) => EraseInv(q)'
  <2>1. \A type : Table(q, type)' = Table(q, type)
    BY DEF Table, Tenant, Handler
  <2> QED
    BY <1>2, <1>3, <2>1 DEF EraseInv
<1>7. Removing(q) => Removing(q)'
  BY <1>4, <1>6 DEF Removing
<1> QED
  BY <1>7 DEF RemovalInv

-----------------------------------------------------------------------------
(* The search for the type of an entity.                                   *)

(* A step that ends the search, or that does not come near it.             *)
Elsewhere == {"list", "fill", "listed", "select", "format", "erase", "drop", "unmeta",
              "forget", "done"}
LEMMA SearchEnds ==
    ASSUME NEW q \in Requests, Track, phase[q] # "done",
           phase[q] = "waiting" => UNCHANGED database,
           phase'[q] \in Elsewhere,
           phase'[q] \in {"list", "fill", "listed", "done"} => found'[q] = <<>>
    PROVE  FindingInv(q)'
<1>1. phase'[q] # "done" => stable'[q] \subseteq Visible'
  <2>1. CASE phase[q] = "waiting"
    BY <2>1, TrackStarts DEF database
  <2>2. CASE phase[q] # "waiting"
    BY <2>2, TrackKeeps DEF Kept, Elsewhere
  <2> QED
    BY <2>1, <2>2
<1> QED
  BY <1>1 DEF FindingInv, Elsewhere

LEMMA AnswerElsewhere ==
    ASSUME NEW q \in Requests, Domains, NEW code, NEW body, Answer(q, code, body)
    PROVE  phase'[q] = "done" /\ found'[q] = <<>>
  BY DEF Answer, Step, Domains

LEMMA QueryElsewhere ==
    ASSUME NEW q \in Requests, Domains, NEW T, Query(q, T)
    PROVE  phase'[q] = "select" \/ (phase'[q] = "done" /\ found'[q] = <<>>)
<1>1. Answer(q, 200, <<>>) => phase'[q] = "done" /\ found'[q] = <<>>
  BY AnswerElsewhere
<1>2. Step(q, "select") => phase'[q] = "select"
  BY DEF Step, Domains
<1> QED
  BY <1>1, <1>2, Zenon DEF Query

LEMMA WithTypeElsewhere ==
    ASSUME NEW q \in Requests, Domains, NEW type, WithType(q, type)
    PROVE  \/ phase'[q] \in {"select", "erase", "drop"}
           \/ phase'[q] = "done" /\ found'[q] = <<>>
<1>1. \A code : Answer(q, code, <<>>) => phase'[q] = "done" /\ found'[q] = <<>>
  BY AnswerElsewhere
<1>2. \A next : Step(q, next) => phase'[q] = next
  BY DEF Step, Domains
<1>3. QueryLeft(q, {Table(q, type)}) =>
        phase'[q] = "select" \/ (phase'[q] = "done" /\ found'[q] = <<>>)
  BY QueryElsewhere DEF QueryLeft
<1> QED
  BY <1>1, <1>2, <1>3 DEF WithType, BadClause

LEMMA ProceedElsewhere ==
    ASSUME NEW q \in Requests, Domains, NEW entities, Proceed(q, entities)
    PROVE  phase'[q] = "select" \/ (phase'[q] = "done" /\ found'[q] = <<>>)
<1>1. \A code, body : Answer(q, code, body) => phase'[q] = "done" /\ found'[q] = <<>>
  BY AnswerElsewhere
<1>2. Step(q, "select") => phase'[q] = "select"
  BY DEF Step, Domains
<1>3. Respond(q, entities) => phase'[q] = "done" /\ found'[q] = <<>>
  BY <1>1 DEF Respond
<1> QED
  BY <1>2, <1>3 DEF Proceed

(* The listing has every table of the tenant that has metadata.            *)
LEMMA FindFinds ==
    ASSUME NEW q \in Requests, DataInv, FindingInv(q), Find(q), ask' = ask, Track
    PROVE  FindingInv(q)'
<1> DEFINE T == {tb \in meta : tb.tenant \in Alike[Tenant(q)]}
<1>1. phase[q] = "find" /\ UNCHANGED <<database, names>>
  BY DEF Find
<1>2. found[q] = <<>> /\ ask[q].op \in FindOps /\ ask[q].type = "none"
  BY <1>1 DEF FindingInv
<1>3. CASE \E code : Answer(q, code, <<>>)
  BY <1>1, <1>3, AnswerElsewhere, SearchEnds DEF DataInv, Elsewhere
<1>4. ASSUME Step(q, "search"), NEW listing \in SetToSeqs(T),
             work' = [work EXCEPT ![q] =
                [k \in DOMAIN listing |->
                    [tables |-> <<listing[k]>>, ids |-> ask[q].ids]]],
             UNCHANGED <<fetched, found, answer, listed, struck>>
      PROVE  FindingInv(q)'
  <2>1. IsFiniteSet(T) /\ T \subseteq AllTables
    <3>1. T \subseteq AllTables
      BY DEF DataInv
    <3> HIDE DEF T
    <3> QED
      BY <3>1, TablesFinite, FS_Subset
  <2>2. listing \in Seq(T) /\ \A tb \in T : \E k \in 1..Len(listing) : listing[k] = tb
    <3> HIDE DEF T
    <3> QED
      BY <1>4, <2>1, ListingIsOnto
  <2>3. phase'[q] = "search" /\ found'[q] = <<>>
    BY <1>2, <1>4 DEF Step, DataInv, Domains
  <2>4. work'[q] = [k \in DOMAIN listing |->
                        [tables |-> <<listing[k]>>, ids |-> ask[q].ids]]
    BY <1>4 DEF DataInv, Domains
  <2>5. DOMAIN listing = 1..Len(listing) /\ Len(listing) \in Nat
    <3> HIDE DEF T
    <3> QED
      BY <2>2
  <2>6. work'[q] \in Seq([tables : {<<tb>> : tb \in AllTables}, ids : {ask'[q].ids}])
    <3> DEFINE R == [tables : {<<tb>> : tb \in AllTables}, ids : {ask'[q].ids}]
               n == Len(listing)
    <3>1. ASSUME NEW k \in 1..n
          PROVE  [tables |-> <<listing[k]>>, ids |-> ask[q].ids] \in R
      <4>1. listing[k] \in AllTables
        <5> HIDE DEF T
        <5> QED
          BY <2>1, <2>2, <3>1
      <4> QED
        BY <4>1
    <3>2. work'[q] \in [1..n -> R]
      <4> HIDE DEF n, R
      <4> QED
        BY <2>4, <2>5, <3>1 DEF n
    <3>3. n \in Nat
      BY <2>5
    <3> HIDE DEF n, R
    <3>4. work'[q] \in Seq(R)
      BY <3>2, <3>3
    <3> QED
      BY <3>4 DEF R
  <2>7. Len(work'[q]) = Len(listing)
    BY <2>4, <2>5
  <2>8. stable'[q] \subseteq stable[q] \cap Visible'
    BY <1>1, <2>3, TrackKeeps DEF Kept
  <2>9. ASSUME NEW x \in stable'[q], Sought(q, x)'
        PROVE  \E k \in 1..Len(work'[q]) : work'[q][k].tables = <<x.table>>
    <3>1. x.table.tenant = Tenant(q)
      BY <2>9, SoughtStays DEF Sought
    <3>2. x.table \in meta
      BY <1>1, <2>8 DEF Visible, database
    <3>3. Tenant(q) \in Alike[Tenant(q)]
      BY TenantType, AlikeAssumption DEF DataInv
    <3>4. x.table \in T
      BY <3>1, <3>2, <3>3
    <3>5. PICK k \in 1..Len(listing) : listing[k] = x.table
      <4> HIDE DEF T
      <4> QED
        BY <2>2, <3>4
    <3>6. work'[q][k].tables = <<x.table>>
      BY <2>4, <2>5, <3>5
    <3> QED
      BY <2>7, <3>6
  <2>10. SearchInv(q)'
    <3>1. found'[q] \in Seq(DOMAIN Lower)
      BY <2>3
    <3> QED
      BY <2>6, <2>9, <3>1, Zenon DEF SearchInv
  <2> QED
    BY <1>2, <2>3, <2>8, <2>10 DEF FindingInv
<1> QED
  BY <1>3, <1>4, ZenonT(30) DEF Find

(* One more table is searched: a row of it that is sought gives its type.  *)
LEMMA SearchTableFinds ==
    ASSUME NEW q \in Requests, DataInv, FindingInv(q),
           phase[q] = "search", work[q] # <<>>, SearchTable(q),
           UNCHANGED database, ask' = ask, Track
    PROVE  FindingInv(q)'
<1> DEFINE R == [tables : {<<tb>> : tb \in AllTables}, ids : {ask[q].ids}]
           tb == Head(work[q]).tables[1]
           kinds == TypesIn(tb, ask[q].ids[1])
<1>1. /\ ask[q].op \in FindOps /\ ask[q].type = "none"
      /\ SearchInv(q) /\ stable[q] \subseteq Visible
  BY DEF FindingInv
<1>2. /\ work[q] \in Seq(R) /\ found[q] \in Seq(DOMAIN Lower)
      /\ \A x \in stable[q] : Sought(q, x) =>
            \/ \E k \in 1..Len(work[q]) : work[q][k].tables = <<x.table>>
            \/ \E k \in 1..Len(found[q]) : found[q][k] = x.type
  BY <1>1 DEF SearchInv
<1>3. CASE \E code : Answer(q, code, <<>>)
  BY <1>3, AnswerElsewhere, SearchEnds DEF DataInv, Elsewhere
<1>5. ASSUME NEW types \in SetToSeqs(kinds),
             found' = [found EXCEPT ![q] = @ \o types],
             work' = [work EXCEPT ![q] = Tail(@)],
             UNCHANGED <<phase, fetched, answer, listed, struck>>
      PROVE  FindingInv(q)'
  <2>1. IsFiniteSet(kinds) /\ kinds \subseteq DOMAIN Lower
    <3> DEFINE X == {x \in rows : x.table = tb /\ x.id = ask[q].ids[1]}
               f == [x \in X |-> x.type]
    <3>1. IsFiniteSet(X)
      <4>1. X \subseteq rows \cup arrivals
        OBVIOUS
      <4> HIDE DEF X
      <4> QED
        BY <4>1, FS_Subset DEF DataInv
    <3>2. kinds = {x.type : x \in X}
      BY DEF TypesIn
    <3>3. kinds \subseteq DOMAIN Lower
      BY <3>2 DEF DataInv, IsRow
    <3> HIDE DEF X, kinds
    <3>4. f \in Surjection(X, kinds)
      BY <3>2 DEF Surjection
    <3> QED
      BY <3>1, <3>3, <3>4, FS_Surjection
  <2>2. types \in Seq(kinds) /\ \A type \in kinds : \E k \in 1..Len(types) : types[k] = type
    <3> HIDE DEF kinds
    <3> QED
      BY <1>5, <2>1, ListingIsOnto
  <2>3. types \in Seq(DOMAIN Lower)
    <3> HIDE DEF kinds
    <3> QED
      BY <2>1, <2>2
  <2>4. /\ found'[q] = found[q] \o types /\ work'[q] = Tail(work[q])
        /\ phase'[q] = phase[q]
    BY <1>5 DEF DataInv, Domains
  <2>5. /\ found'[q] \in Seq(DOMAIN Lower)
        /\ Len(found'[q]) = Len(found[q]) + Len(types)
        /\ \A k \in 1..Len(found[q]) : found'[q][k] = found[q][k]
        /\ \A k \in 1..Len(types) : found'[q][Len(found[q]) + k] = types[k]
    BY <1>2, <2>3, <2>4
  <2>6. /\ work'[q] \in Seq(R) /\ Len(work'[q]) = Len(work[q]) - 1
        /\ \A k \in 1..Len(work'[q]) : work'[q][k] = work[q][k + 1]
    <3> HIDE DEF R
    <3> QED
      BY <1>2, <2>4
  <2>7. Kept(q)
    BY <2>4, TrackKeeps
  <2>8. stable'[q] \subseteq stable[q] /\ stable'[q] \subseteq Visible'
    BY <2>4, <2>7 DEF Kept
  <2>9. ASSUME NEW x \in stable'[q], Sought(q, x)'
        PROVE  \/ \E k \in 1..Len(work'[q]) : work'[q][k].tables = <<x.table>>
               \/ \E k \in 1..Len(found'[q]) : found'[q][k] = x.type
    <3>1. Sought(q, x) /\ x \in stable[q]
      BY <2>8, <2>9, SoughtStays
    <3>2. CASE \E k \in 1..Len(found[q]) : found[q][k] = x.type
      <4>1. PICK k \in 1..Len(found[q]) : found[q][k] = x.type
        BY <3>2
      <4>2. k \in 1..Len(found'[q]) /\ found'[q][k] = x.type
        BY <1>2, <2>3, <2>5, <4>1
      <4> QED
        BY <4>2
    <3>3. CASE \E k \in 1..Len(work[q]) : work[q][k].tables = <<x.table>>
      <4>1. PICK k \in 1..Len(work[q]) : work[q][k].tables = <<x.table>>
        BY <3>3
      <4>2. Len(work[q]) \in Nat
        <5> HIDE DEF R
        <5> QED
          BY <1>2
      <4>3. CASE k # 1
        <5>1. k - 1 \in 1..Len(work'[q]) /\ work'[q][k - 1] = work[q][k]
          BY <2>6, <4>1, <4>2, <4>3
        <5> QED
          BY <4>1, <5>1
      <4>4. CASE k = 1
        <5>1. tb = x.table
          BY <4>1, <4>4
        <5>2. x \in rows /\ x.id = ask[q].ids[1]
          BY <1>1, <3>1 DEF Visible, Sought
        <5>3. x.type \in kinds
          BY <5>1, <5>2 DEF TypesIn
        <5>4. PICK j \in 1..Len(types) : types[j] = x.type
          <6> HIDE DEF kinds
          <6> QED
            BY <2>2, <5>3
        <5>5. Len(found[q]) + j \in 1..Len(found'[q])
          BY <1>2, <2>3, <2>5, <5>4, SMTT(30)
        <5>6. found'[q][Len(found[q]) + j] = x.type
          BY <2>5, <5>4
        <5> QED
          BY <5>5, <5>6
      <4> QED
        BY <4>3, <4>4
    <3> QED
      BY <1>2, <3>1, <3>2, <3>3
  <2>10. SearchInv(q)'
    <3>1. work'[q] \in Seq([tables : {<<t>> : t \in AllTables}, ids : {ask'[q].ids}])
      BY <2>6
    <3> QED
      BY <2>5, <2>9, <3>1, Zenon DEF SearchInv
  <2> QED
    BY <1>1, <2>4, <2>8, <2>10 DEF FindingInv
<1> QED
  BY <1>3, <1>5 DEF SearchTable

(* When all tables are searched, what is sought is of the types found: with *)
(* none there is nothing, and with one it is in its table.                 *)
LEMMA SearchFinds ==
    ASSUME NEW q \in Requests, DataInv, FindingInv(q), Search(q), ask' = ask, Track
    PROVE  FindingInv(q)'
<1>1. phase[q] = "search" /\ UNCHANGED database /\ Domains
  BY DEF Search, DataInv
<1>2. CASE work[q] # <<>>
  BY <1>1, <1>2, SearchTableFinds DEF Search
<1>3. CASE work[q] = <<>>
  <2>1. \/ \E code : Answer(q, code, <<>>)
        \/ WithType(q, found[q][1])
    BY <1>3 DEF Search
  <2>2. \/ phase'[q] \in {"select", "erase", "drop"}
        \/ phase'[q] = "done" /\ found'[q] = <<>>
    BY <1>1, <2>1, AnswerElsewhere, WithTypeElsewhere
  <2> QED
    BY <1>1, <2>2, SearchEnds DEF Elsewhere
<1> QED
  BY <1>2, <1>3

LEMMA SearchedTypes ==
    ASSUME NEW q \in Requests, DataInv, FindingInv(q), phase[q] = "search", work[q] = <<>>
    PROVE  /\ found[q] \in Seq(DOMAIN Lower)
           /\ found[q] = <<>> => \A x \in stable[q] : ~Sought(q, x)
           /\ Len(found[q]) = 1 => \A x \in stable[q] : Sought(q, x) =>
                    x.table = Table(q, found[q][1])
<1>1. /\ stable[q] \subseteq Visible /\ found[q] \in Seq(DOMAIN Lower)
      /\ \A x \in stable[q] : Sought(q, x) =>
            \E k \in 1..Len(found[q]) : found[q][k] = x.type
  BY DEF FindingInv, SearchInv
<1>2. ASSUME Len(found[q]) = 1, NEW x \in stable[q], Sought(q, x)
      PROVE  x.table = Table(q, found[q][1])
  <2>1. x.type = found[q][1]
    BY <1>1, <1>2
  <2>2. IsRow(x)
    BY <1>1 DEF Visible, DataInv
  <2>3. x.table.base = Lower[found[q][1]] /\ x.table \in AllTables
    BY <2>1, <2>2 DEF IsRow
  <2> QED
    BY <1>2, <2>3, TableIsPair DEF Table, Sought
<1> QED
  BY <1>1, <1>2

LEMMA ServeFinds ==
    ASSUME NEW q \in Requests, DataInv, FindingInv(q), Serve(q), Track
    PROVE  FindingInv(q)'
<1>1. ServeMove(q) /\ Domains
  BY ServeMoves DEF DataInv
<1>2. ask' = ask /\ conf' = conf /\ phase[q] # "done"
  BY <1>1 DEF ServeMove
<1>3. phase[q] = "waiting" => UNCHANGED database
  BY <1>1 DEF ServeMove, database
<1>4. /\ \A code, body : Answer(q, code, body) => phase'[q] = "done" /\ found'[q] = <<>>
      /\ \A next : Step(q, next) => phase'[q] = next
      /\ WithoutValue(q) =>
            phase'[q] = "select" \/ (phase'[q] = "done" /\ found'[q] = <<>>)
      /\ \A es : Proceed(q, es) =>
            phase'[q] = "select" \/ (phase'[q] = "done" /\ found'[q] = <<>>)
  <2>1. \A es : Proceed(q, es) =>
            phase'[q] = "select" \/ (phase'[q] = "done" /\ found'[q] = <<>>)
    BY <1>1, ProceedElsewhere
  <2>2. \A code, body : Answer(q, code, body) => phase'[q] = "done" /\ found'[q] = <<>>
    BY <1>1, AnswerElsewhere
  <2> QED
    BY <1>1, <2>1, <2>2 DEF Step, Domains, WithoutValue
<1>5. CASE Start(q)
  <2>1. phase[q] = "waiting" /\ found[q] = <<>>
    BY <1>5 DEF Start, FindingInv
  <2>2. CASE /\ Handler(q).finds /\ ask[q].type = "none" /\ Step(q, "find")
             /\ UNCHANGED found
    <3>1. phase'[q] = "find" /\ found'[q] = <<>>
      BY <1>4, <2>1, <2>2
    <3>2. ask[q].op \in FindOps
      <4>1. ask[q].op \in RemovalOps => ask[q].op = "delete_entity"
        BY <2>2, OnlyEntityFinds
      <4>2. ask[q].op \in SeriesOps \cup {"NTNE", "op"} => ask[q].op \in FindOps
        BY <2>2, QueryHandlers
      <4>3. ask[q].op \in SeriesOps \cup RemovalOps \cup {"NTNE", "op"}
        BY DEF DataInv, IsRequest, Asks
      <4> QED
        BY <4>1, <4>2, <4>3 DEF FindOps
    <3>3. stable'[q] \subseteq Visible'
      BY <1>3, <2>1, TrackStarts DEF database
    <3> QED
      BY <1>2, <2>2, <3>1, <3>2, <3>3 DEF FindingInv
  <2>3. CASE \/ \E type : WithType(q, type)
             \/ \E code : Answer(q, code, <<>>)
             \/ Step(q, "list") /\ UNCHANGED found
    <3>1. \/ phase'[q] \in {"select", "erase", "drop"}
          \/ phase'[q] \in {"done", "list"} /\ found'[q] = <<>>
      BY <1>1, <1>4, <2>1, <2>3, WithTypeElsewhere
    <3> QED
      BY <1>2, <1>3, <3>1, SearchEnds DEF Elsewhere
  <2> QED
    BY <1>5, <2>2, <2>3 DEF Start, BadClause
<1>6. CASE Find(q)
  BY <1>2, <1>6, FindFinds
<1>7. CASE Search(q)
  BY <1>2, <1>7, SearchFinds
<1>8. CASE List(q) \/ Fill(q) \/ Begin(q)
  <2>1. phase[q] \in {"list", "fill", "listed"}
    BY <1>8 DEF List, Fill, Begin
  <2>2. found[q] = <<>>
    BY <2>1 DEF FindingInv
  <2>3. \/ phase'[q] = "select"
        \/ phase'[q] \in {"done", "fill", "listed"} /\ found'[q] = <<>>
    <3>1. CASE List(q)
      BY <1>4, <2>2, <3>1 DEF List, ReadNames
    <3>2. CASE Fill(q)
      BY <1>4, <2>2, <3>2 DEF Fill
    <3>3. CASE Begin(q)
      BY <1>1, <3>3, QueryElsewhere DEF Begin, QueryLeft
    <3> QED
      BY <1>8, <3>1, <3>2, <3>3
  <2> QED
    BY <1>2, <1>3, <2>3, SearchEnds DEF Elsewhere
<1>9. CASE Select(q) \/ FormatRows(q) \/ Erase(q) \/ Drop(q) \/ Unmeta(q) \/ Forget(q)
  <2>1. \/ phase'[q] \in {"select", "format", "unmeta", "forget"}
        \/ phase'[q] = "done" /\ found'[q] = <<>>
    <3>1. CASE Select(q)
      BY <1>4, <3>1 DEF Select
    <3>2. CASE FormatRows(q)
      BY <1>4, <3>2 DEF FormatRows
    <3>3. CASE Erase(q)
      BY <1>4, <3>3 DEF Erase, EraseRows
    <3>4. CASE Drop(q)
      BY <1>4, <3>4 DEF Drop
    <3>5. CASE Unmeta(q)
      BY <1>4, <3>5 DEF Unmeta
    <3>6. CASE Forget(q)
      BY <1>4, <3>6 DEF Forget
    <3> QED
      BY <1>9, <3>1, <3>2, <3>3, <3>4, <3>5, <3>6
  <2> QED
    BY <1>2, <1>3, <2>1, SearchEnds DEF Elsewhere
<1> QED
  BY <1>5, <1>6, <1>7, <1>8, <1>9 DEF Serve

LEMMA AgainFinds ==
    ASSUME NEW q \in Requests, DataInv, FindingInv(q), Again(q), ask' = ask
    PROVE  FindingInv(q)'
<1>1. phase[q] = "done" /\ phase'[q] = "waiting" /\ found' = found
  BY AgainMoves DEF DataInv
<1> QED
  BY <1>1 DEF FindingInv

LEMMA FindingStep ==
    ASSUME DataInv, \A q \in Requests : FindingInv(q), [Next]_vars
    PROVE  (\A q \in Requests : FindingInv(q))'
<1> SUFFICES ASSUME NEW p \in Requests
             PROVE  FindingInv(p)'
  OBVIOUS
<1>1. FindingInv(p)
  OBVIOUS
<1>2. ASSUME Track, UNCHANGED <<ask, request>>
      PROVE  FindingInv(p)'
  BY <1>1, <1>2, OthersFind DEF request
<1>3. ASSUME NEW q \in Requests, Serve(q), Track
      PROVE  FindingInv(p)'
  <2>1. CASE p = q
    BY <1>1, <1>3, <2>1, ServeFinds
  <2>2. CASE p # q
    <3>1. ServeMove(q)
      BY <1>3, ServeMoves DEF DataInv
    <3> QED
      BY <1>1, <1>3, <2>2, <3>1, OthersFind DEF ServeMove, Touches, At
  <2> QED
    BY <2>1, <2>2
<1>4. ASSUME NEW q \in Requests, Again(q), UNCHANGED <<conf, ask>>, Track
      PROVE  FindingInv(p)'
  <2>1. CASE p = q
    BY <1>1, <1>4, <2>1, AgainFinds
  <2>2. CASE p # q
    <3>1. Touches(q)
      BY <1>4, AgainMoves DEF DataInv
    <3> QED
      BY <1>1, <1>4, <2>2, <3>1, OthersFind DEF Touches, At
  <2> QED
    BY <2>1, <2>2
<1>5. ASSUME NEW x \in arrivals, Insert(x), Track
      PROVE  FindingInv(p)'
  BY <1>2, <1>5 DEF Insert
<1>6. ASSUME NEW t \in Tenants, Expire(t), Track
      PROVE  FindingInv(p)'
  BY <1>2, <1>6 DEF Expire
<1>7. CASE UNCHANGED vars
  <2>1. stable' = stable /\ Visible' = Visible
    BY <1>7 DEF vars, database, Visible
  <2>2. \A x : Sought(p, x)' <=> Sought(p, x)
    BY <1>7, SoughtStays DEF vars
  <2>3. SearchInv(p) => SearchInv(p)'
    BY <1>7, <2>1, <2>2 DEF SearchInv, vars, request
  <2> QED
    BY <1>1, <1>7, <2>1, <2>3 DEF FindingInv, vars, request
<1> QED
  BY <1>3, <1>4, <1>5, <1>6, <1>7 DEF Next

-----------------------------------------------------------------------------
(* The steps of a removal itself.                                          *)

(* An answer ends it: one that says it was done needs nothing doomed left. *)
LEMMA AnswerEnds ==
    ASSUME NEW q \in Requests, Domains, NEW code, NEW body, Answer(q, code, body),
           code \in {200, 204} /\ ~struck'[q] => NoneDoomed(q)'
    PROVE  RemovalInv(q)'
<1>1. phase'[q] = "done" /\ answer'[q].code = code
  BY DEF Answer, Step, Domains
<1> QED
  BY <1>1 DEF RemovalInv, Removing

(* So does one that failed or that a fault struck.                         *)
LEMMA FailureEnds ==
    ASSUME NEW q \in Requests, Domains, NEW code, NEW body, Answer(q, code, body),
           code \notin {200, 204} \/ struck'[q] = TRUE
    PROVE  RemovalInv(q)'
<1>1. code \in {200, 204} /\ ~struck'[q] => NoneDoomed(q)'
  OBVIOUS
<1> QED
  BY <1>1, AnswerEnds

LEMMA InternalErrorEnds ==
    ASSUME NEW q \in Requests, Domains, Answer(q, 500, <<>>)
    PROVE  RemovalInv(q)'
<1> DEFINE code == 500
<1>1. code \notin {200, 204} /\ Answer(q, code, <<>>)
  OBVIOUS
<1> HIDE DEF code
<1> QED
  BY <1>1, FailureEnds

(* With the type known, the rows to remove are those of its table.         *)
LEMMA TypeLeadsToTable ==
    ASSUME NEW q \in Requests, DataInv, ask[q].op \in RemovalOps,
           ask' = ask, conf' = conf, NEW type \in DOMAIN Lower, WithType(q, type),
           ask[q].op # "drop" =>
             \A x \in stable'[q] : Doomed(q, x) => x.table = Table(q, type)
    PROVE  RemovalInv(q)'
<1>1. CASE Malformed(ask[q])
  <2>1. BadClause(q)
    BY <1>1 DEF WithType
  <2>2. Handler(q).badDate = 500
    BY HandlerFacts
  <2>3. Answer(q, 500, <<>>)
    BY <2>1, <2>2 DEF BadClause
  <2>4. Domains /\ 500 \notin {200, 204}
    BY DEF DataInv
  <2> QED
    BY <2>3, <2>4, InternalErrorEnds
<1>2. CASE ~Malformed(ask[q]) /\ ask[q].op = "drop"
  <2>1. Handler(q).call = "drop"
    BY <1>2, HandlerFacts
  <2>2. Step(q, "drop")
    BY <1>2, <2>1 DEF WithType
  <2>3. phase'[q] = "drop"
    BY <2>2 DEF Step, DataInv, Domains
  <2> QED
    BY <1>2, <2>3 DEF RemovalInv, Removing
<1>3. CASE ~Malformed(ask[q]) /\ ask[q].op # "drop"
  <2>1. Handler(q).call = "delete"
    BY <1>3, HandlerFacts
  <2>2. /\ Step(q, "erase")
        /\ work' = [work EXCEPT ![q] =
              <<[tables |-> <<Table(q, type)>>, ids |-> ask[q].ids]>>]
    BY <1>3, <2>1 DEF WithType
  <2>3. /\ phase'[q] = "erase"
        /\ work'[q] = <<[tables |-> <<Table(q, type)>>, ids |-> ask[q].ids]>>
    BY <2>2 DEF Step, DataInv, Domains
  <2>4. Table(q, type)' = Table(q, type)
    BY DEF Table, Tenant, Handler
  <2>5. \A x : Doomed(q, x)' <=> Doomed(q, x)
    BY DoomedStays
  <2>6. EraseInv(q)'
    BY <1>3, <2>3, <2>4, <2>5 DEF EraseInv
  <2> QED
    BY <1>3, <2>3, <2>6 DEF RemovalInv, Removing
<1> QED
  BY <1>1, <1>2, <1>3

LEMMA StartRemoves ==
    ASSUME NEW q \in Requests, DataInv, RemovalInv(q), ask[q].op \in RemovalOps,
           Start(q), ask' = ask, conf' = conf, Track
    PROVE  RemovalInv(q)'
<1> DEFINE r == ask[q]
<1>4. CASE Refusal(r) # 0
  <2>1. Answer(q, Refusal(r), <<>>)
    BY <1>4 DEF Start
  <2>2. Refusal(r) \notin {200, 204}
    BY RefusalCodes
  <2> QED
    BY <2>1, <2>2, FailureEnds DEF DataInv
<1>5. CASE Refusal(r) = 0 /\ r.type # "none"
  <2>1. WithType(q, r.type)
    BY <1>5 DEF Start
  <2>2. r.type \in DOMAIN Lower
    BY <1>5, RequestFacts DEF DataInv
  <2>3. r.op # "drop" => \A x : Doomed(q, x) => x.table = Table(q, r.type)
    BY <1>5 DEF Doomed, RemovalOps
  <2> QED
    BY <2>1, <2>2, <2>3, TypeLeadsToTable
<1>6. CASE Refusal(r) = 0 /\ r.type = "none"
  <2>1. r.op = "delete_entity"
    BY <1>6, RequestFacts DEF RemovalOps, DataInv
  <2>2. Handler(q).finds
    BY <2>1, OnlyEntityFinds
  <2>3. Step(q, "find") /\ UNCHANGED <<work, fetched, found, answer, listed>>
    <3>1. IF Handler(q).finds
          THEN Step(q, "find") /\ UNCHANGED <<work, fetched, found, answer, listed>>
          ELSE IF Malformed(r) THEN BadClause(q)
          ELSE Step(q, "list") /\ UNCHANGED <<work, fetched, found, answer, listed>>
      BY <1>6 DEF Start
    <3> QED
      BY <2>2, <3>1, Zenon
  <2>4. phase'[q] = "find"
    BY <2>3 DEF Step, DataInv, Domains
  <2> QED
    BY <2>4 DEF RemovalInv, Removing
<1> QED
  BY <1>4, <1>5, <1>6

LEMMA StruckEnds ==
    ASSUME NEW q \in Requests, Domains, NEW kind, NEW code, NEW body,
           Strike(q, kind), Answer(q, code, body)
    PROVE  RemovalInv(q)'
  BY FailureEnds, StrikeStruck

LEMMA EraseRemoves ==
    ASSUME NEW q \in Requests, DataInv, RemovalInv(q), ask[q].op \in RemovalOps,
           Erase(q), ask' = ask, conf' = conf, Track
    PROVE  RemovalInv(q)'
<1>1. phase[q] = "erase"
  BY DEF Erase
<1>2. EraseInv(q) /\ ask[q].op # "drop"
  BY <1>1 DEF RemovalInv, Removing
<1>3. PICK type \in DOMAIN Lower :
        /\ work[q] = <<[tables |-> <<Table(q, type)>>, ids |-> ask[q].ids]>>
        /\ \A x \in stable[q] : Doomed(q, x) => x.table = Table(q, type)
  BY <1>2 DEF EraseInv
<1>4. Head1(q).tables[1] = Table(q, type) /\ Head1(q).ids = ask[q].ids
  BY <1>3 DEF Head1
<1>5. \A x : Doomed(q, x)' <=> Doomed(q, x)
  BY DoomedStays
<1>6. phase'[q] # "waiting" => stable'[q] \subseteq stable[q] \cap Visible'
  BY <1>1, TrackKeeps DEF Kept, Track
<1>7. CASE EraseRows(q)
  <2>1. /\ rows' = rows \ Matching(q, Table(q, type)) /\ phase'[q] = "forget"
    BY <1>4, <1>7 DEF EraseRows, Step, DataInv, Domains
  <2>2. Asked(q) = ask[q]
    BY <1>4, RequestFacts DEF Asked, DataInv
  <2>3. ASSUME NEW x \in stable'[q], Doomed(q, x)'
        PROVE  FALSE
    <3>1. x \in stable[q] /\ x \in rows'
      BY <1>6, <2>1 DEF Visible
    <3>2. x.table = Table(q, type) /\ Where(conf, ask[q], x)
      BY <1>2, <1>3, <1>5, <2>3, <3>1 DEF Doomed, RemovalOps
    <3> QED
      BY <2>1, <2>2, <3>1, <3>2 DEF Matching
  <2>4. NoneDoomed(q)'
    BY <2>3 DEF NoneDoomed
  <2> QED
    BY <1>2, <1>6, <2>1, <2>4 DEF RemovalInv, Removing
<1>8. CASE /\ Head1(q).tables[1] \notin tables
           /\ Answer(q, 200, <<>>) /\ UNCHANGED <<database, struck>>
  <2>1. phase'[q] = "done"
    BY <1>8 DEF Answer, Step, DataInv, Domains
  <2>2. ASSUME NEW x \in stable'[q], Doomed(q, x)'
        PROVE  FALSE
    <3>1. x \in stable[q] /\ x.table \in tables
      BY <1>6, <1>8, <2>1 DEF Visible, database
    <3> QED
      BY <1>3, <1>4, <1>5, <1>8, <2>2, <3>1
  <2>3. NoneDoomed(q)'
    BY <2>2 DEF NoneDoomed
  <2> QED
    BY <1>8, <2>3, AnswerEnds DEF DataInv
<1>9. CASE \E kind, code : Strike(q, kind) /\ Answer(q, code, <<>>)
  BY <1>9, StruckEnds DEF DataInv
<1> QED
  BY <1>7, <1>8, <1>9 DEF Erase

LEMMA DropRemoves ==
    ASSUME NEW q \in Requests, DataInv, RemovalInv(q), ask[q].op \in RemovalOps,
           Drop(q), ask' = ask, conf' = conf, Track
    PROVE  RemovalInv(q)'
<1> DEFINE tb == Table(q, ask[q].type)
<1>1. phase[q] = "drop"
  BY DEF Drop
<1>2. ask[q].op = "drop"
  BY <1>1 DEF RemovalInv, Removing
<1>3. \A x : Doomed(q, x)' <=> Doomed(q, x)
  BY DoomedStays
<1>4. CASE /\ tables' = tables \ {tb} /\ rows' = {x \in rows : x.table # tb}
           /\ Step(q, "unmeta")
  <2>1. phase'[q] = "unmeta"
    BY <1>4 DEF Step, DataInv, Domains
  <2>2. stable'[q] \subseteq Visible'
    BY <1>1, <2>1, TrackKeeps DEF Kept
  <2>3. NoneDoomed(q)'
    BY <1>2, <1>3, <1>4, <2>2 DEF NoneDoomed, Doomed, Visible
  <2> QED
    BY <1>2, <2>1, <2>2, <2>3 DEF RemovalInv, Removing
<1>5. CASE Strike(q, "sql") /\ Step(q, "unmeta")
  <2>1. phase'[q] = "unmeta" /\ struck'[q] = TRUE
    BY <1>5, StrikeStruck DEF Step, DataInv, Domains
  <2> QED
    BY <1>2, <2>1 DEF RemovalInv, Removing
<1>6. CASE Strike(q, "down") /\ Answer(q, 500, <<>>)
  BY <1>6, StruckEnds DEF DataInv
<1> QED
  BY <1>4, <1>5, <1>6 DEF Drop

(* From here on nothing doomed is left, if no fault struck.                *)
LEMMA NoneDoomedStays ==
    ASSUME NEW q \in Requests, NoneDoomed(q), Kept(q), ask' = ask, conf' = conf
    PROVE  NoneDoomed(q)'
  BY DoomedStays DEF NoneDoomed, Kept

LEMMA UnmetaRemoves ==
    ASSUME NEW q \in Requests, DataInv, RemovalInv(q), ask[q].op \in RemovalOps,
           Unmeta(q), ask' = ask, conf' = conf, Track
    PROVE  RemovalInv(q)'
<1>1. phase[q] = "unmeta"
  BY DEF Unmeta
<1>2. ask[q].op = "drop" /\ (~struck[q] => NoneDoomed(q))
  BY <1>1 DEF RemovalInv, Removing
<1>3. CASE Step(q, "forget") /\ UNCHANGED struck
  <2>1. phase'[q] = "forget"
    BY <1>3 DEF Step, DataInv, Domains
  <2>2. Kept(q)
    BY <1>1, <2>1, TrackKeeps
  <2>3. ~struck'[q] => NoneDoomed(q)'
    BY <1>2, <1>3, <2>2, NoneDoomedStays
  <2> QED
    BY <2>1, <2>2, <2>3 DEF RemovalInv, Removing, Kept
<1>4. CASE \E kind, code : Strike(q, kind) /\ Answer(q, code, <<>>)
  BY <1>4, StruckEnds DEF DataInv
<1> QED
  BY <1>3, <1>4 DEF Unmeta

LEMMA ForgetRemoves ==
    ASSUME NEW q \in Requests, DataInv, RemovalInv(q), ask[q].op \in RemovalOps,
           Forget(q), ask' = ask, conf' = conf, Track
    PROVE  RemovalInv(q)'
<1>1. phase[q] = "forget"
  BY DEF Forget
<1>2. ~struck[q] => NoneDoomed(q)
  BY <1>1 DEF RemovalInv, Removing
<1>3. PICK code : Answer(q, code, <<>>)
  BY DEF Forget
<1>4. phase'[q] = "done"
  BY <1>3 DEF Answer, Step, DataInv, Domains
<1>5. Kept(q)
  BY <1>1, <1>4, TrackKeeps
<1>6. CASE UNCHANGED struck
  <2>1. ~struck'[q] => NoneDoomed(q)'
    BY <1>2, <1>5, <1>6, NoneDoomedStays
  <2> QED
    BY <1>3, <2>1, AnswerEnds DEF DataInv
<1>7. CASE Strike(q, "cache")
  BY <1>3, <1>7, StruckEnds DEF DataInv
<1> QED
  BY <1>6, <1>7 DEF Forget

(* While the type of the entity is searched for, nothing is removed.       *)
LEMMA FindRemoves ==
    ASSUME NEW q \in Requests, DataInv, Find(q)
    PROVE  RemovalInv(q)'
<1>1. CASE Step(q, "search")
  <2>1. phase'[q] = "search"
    BY <1>1 DEF Step, DataInv, Domains
  <2> QED
    BY <2>1 DEF RemovalInv, Removing
<1>2. CASE \E kind, code : Strike(q, kind) /\ Answer(q, code, <<>>)
  BY <1>2, StruckEnds DEF DataInv
<1> QED
  BY <1>1, <1>2 DEF Find

(* When all tables are searched, doomed rows are of the types found: with  *)
(* none there are none, and with one they are in its table.                *)
LEMMA SearchRemoves ==
    ASSUME NEW q \in Requests, DataInv, FindingInv(q), RemovalInv(q),
           ask[q].op \in RemovalOps, Search(q), ask' = ask, conf' = conf, Track
    PROVE  RemovalInv(q)'
<1>1. phase[q] = "search" /\ Domains
  BY DEF Search, DataInv
<1>2. ask[q].op = "delete_entity"
  BY <1>1 DEF FindingInv, FindOps, RemovalOps
<1>3. ASSUME NEW x, Doomed(q, x)
      PROVE  Sought(q, x)
  <2>1. x.table.tenant = Tenant(q) /\ Where(conf, ask[q], x)
    BY <1>2, <1>3 DEF Doomed
  <2>2. ask[q].ids \in Seq(Nat) /\ Len(ask[q].ids) = 1
    BY <1>2, RequestFacts DEF DataInv
  <2>3. x.id \in ToSet(ask[q].ids)
    <3>1. ask[q].ids # <<>>
      <4>1. Len(<<>>) # 1
        OBVIOUS
      <4> QED
        BY <2>2, <4>1, Zenon
    <3> QED
      BY <2>1, <3>1 DEF Where
  <2>4. x.id = ask[q].ids[1]
    BY <2>2, <2>3 DEF ToSet
  <2> QED
    BY <2>1, <2>4 DEF Sought
<1>4. \A x : Doomed(q, x)' <=> Doomed(q, x)
  BY DoomedStays
<1>5. phase'[q] # "waiting" => stable'[q] \subseteq stable[q]
  BY <1>1, TrackKeeps DEF Kept, Track
<1>6. CASE work[q] # <<>>
  <2>1. SearchTable(q)
    BY <1>6 DEF Search
  <2>2. CASE phase' = phase
    BY <1>1, <2>2 DEF RemovalInv, Removing
  <2>3. CASE Answer(q, 500, <<>>)
    BY <1>1, <2>3, InternalErrorEnds
  <2> QED
    BY <2>1, <2>2, <2>3 DEF SearchTable
<1>7. CASE work[q] = <<>> /\ found[q] = <<>>
  <2>1. Answer(q, 200, <<>>) /\ UNCHANGED struck
    BY <1>7 DEF Search
  <2>2. phase'[q] = "done"
    BY <1>1, <2>1, AnswerElsewhere
  <2>3. NoneDoomed(q)'
    BY <1>1, <1>3, <1>4, <1>5, <1>7, <2>2, SearchedTypes DEF NoneDoomed
  <2> QED
    BY <1>1, <2>1, <2>3, AnswerEnds
<1>8. CASE work[q] = <<>> /\ Len(found[q]) = 1
  <2>1. /\ WithType(q, found[q][1]) /\ found[q] \in Seq(DOMAIN Lower)
        /\ \A x \in stable[q] : Sought(q, x) => x.table = Table(q, found[q][1])
    <3>1. found[q] \in Seq(DOMAIN Lower)
      BY <1>1, <1>8, SearchedTypes
    <3>2. found[q] # <<>>
      <4>1. Len(<<>>) # 1
        OBVIOUS
      <4> QED
        BY <1>8, <4>1, Zenon
    <3> QED
      BY <1>1, <1>8, <3>1, <3>2, SearchedTypes DEF Search
  <2>2. found[q][1] \in DOMAIN Lower
    BY <1>8, <2>1
  <2>3. phase'[q] # "waiting"
    BY <1>1, <2>1, WithTypeElsewhere
  <2>4. \A x \in stable'[q] : Doomed(q, x) => x.table = Table(q, found[q][1])
    BY <1>3, <1>5, <2>1, <2>3
  <2> QED
    BY <2>1, <2>2, <2>4, TypeLeadsToTable
<1>9. CASE work[q] = <<>> /\ found[q] # <<>> /\ Len(found[q]) # 1
  <2>1. Answer(q, Handler(q).clash, <<>>)
    BY <1>9 DEF Search
  <2>2. Handler(q).clash \notin {200, 204}
    BY HandlerFacts
  <2> QED
    BY <1>1, <2>1, <2>2, FailureEnds
<1> QED
  BY <1>6, <1>7, <1>8, <1>9

(* Whatever a request does, its removal goes on as it should.              *)
LEMMA ServeRemoves ==
    ASSUME NEW q \in Requests, DataInv, FindingInv(q), RemovalInv(q), Serve(q), Track
    PROVE  RemovalInv(q)'
<1>1. ServeMove(q)
  BY ServeMoves DEF DataInv
<1>2. ask' = ask /\ conf' = conf /\ phase[q] # "done"
  BY <1>1 DEF ServeMove
<1>3. CASE ask[q].op \notin RemovalOps
  BY <1>2, <1>3 DEF RemovalInv
<1>4. CASE ask[q].op \in RemovalOps
  <2>1. phase[q] \in {"waiting", "find", "search", "erase", "drop", "unmeta",
                      "forget"}
    BY <1>2, <1>4 DEF RemovalInv, Removing
  <2>2. CASE Start(q)
    BY <1>2, <1>4, <2>2, StartRemoves
  <2>3. CASE Find(q)
    BY <2>3, FindRemoves
  <2>4. CASE Search(q)
    BY <1>2, <1>4, <2>4, SearchRemoves
  <2>5. CASE Erase(q)
    BY <1>2, <1>4, <2>5, EraseRemoves
  <2>6. CASE Drop(q)
    BY <1>2, <1>4, <2>6, DropRemoves
  <2>7. CASE Unmeta(q)
    BY <1>2, <1>4, <2>7, UnmetaRemoves
  <2>8. CASE Forget(q)
    BY <1>2, <1>4, <2>8, ForgetRemoves
  <2>9. ~(List(q) \/ Fill(q) \/ Begin(q) \/ Select(q) \/ FormatRows(q))
    BY <2>1 DEF List, Fill, Begin, Select, FormatRows
  <2> QED
    BY <2>2, <2>3, <2>4, <2>5, <2>6, <2>7, <2>8, <2>9 DEF Serve
<1> QED
  BY <1>3, <1>4

LEMMA RemovalStep ==
    ASSUME DataInv, \A q \in Requests : FindingInv(q) /\ RemovalInv(q), [Next]_vars
    PROVE  (\A q \in Requests : RemovalInv(q))'
<1> SUFFICES ASSUME NEW p \in Requests
             PROVE  RemovalInv(p)'
  OBVIOUS
<1>1. FindingInv(p) /\ RemovalInv(p)
  OBVIOUS
<1>2. ASSUME Track, UNCHANGED <<conf, ask, request, struck>>
      PROVE  RemovalInv(p)'
  BY <1>1, <1>2, OthersKeep DEF request
<1>3. ASSUME NEW q \in Requests, Serve(q), Track
      PROVE  RemovalInv(p)'
  <2>1. CASE p = q
    BY <1>1, <1>3, <2>1, ServeRemoves
  <2>2. CASE p # q
    <3>1. ServeMove(q)
      BY <1>3, ServeMoves DEF DataInv
    <3> QED
      BY <1>1, <1>3, <2>2, <3>1, OthersKeep DEF ServeMove, Touches, At
  <2> QED
    BY <2>1, <2>2
<1>4. ASSUME NEW q \in Requests, Again(q), UNCHANGED <<conf, ask>>, Track
      PROVE  RemovalInv(p)'
  <2>1. Touches(q) /\ At(struck, struck', q) /\ phase'[q] = "waiting"
    BY <1>4, AgainMoves DEF DataInv
  <2>2. CASE p = q
    BY <1>1, <2>1, <2>2 DEF RemovalInv, Removing
  <2>3. CASE p # q
    BY <1>1, <1>4, <2>1, <2>3, OthersKeep DEF Touches, At
  <2> QED
    BY <2>2, <2>3
<1>5. ASSUME NEW x \in arrivals, Insert(x), Track
      PROVE  RemovalInv(p)'
  BY <1>2, <1>5 DEF Insert
<1>6. ASSUME NEW t \in Tenants, Expire(t), Track
      PROVE  RemovalInv(p)'
  BY <1>2, <1>6 DEF Expire
<1>7. CASE UNCHANGED vars
  <2>1. stable' = stable /\ ask' = ask
    BY <1>7 DEF vars
  <2>2. \A x : Doomed(p, x)' <=> Doomed(p, x)
    BY <1>7, DoomedStays DEF vars
  <2>3. NoneDoomed(p)' <=> NoneDoomed(p)
    BY <2>1, <2>2 DEF NoneDoomed
  <2>5. EraseInv(p) => EraseInv(p)'
    <3>1. \A type : Table(p, type)' = Table(p, type)
      BY <1>7 DEF Table, Tenant, Handler, vars
    <3> QED
      BY <1>7, <2>1, <2>2, <3>1 DEF EraseInv, vars, request
  <2> QED
    BY <1>1, <1>7, <2>1, <2>3, <2>5 DEF RemovalInv, Removing, vars, request
<1> QED
  BY <1>3, <1>4, <1>5, <1>6, <1>7 DEF Next

(* A delete or a drop that answered that it was done, and that no fault    *)
(* struck, has left no row it was to remove, whatever other requests do    *)
(* and whatever is inserted between its statements.                        *)
THEOREM DeletionsAreComplete == Spec => []DeletesAreComplete
<1> DEFINE Inv == DataInv /\ \A q \in Requests : FindingInv(q) /\ RemovalInv(q)
<1>1. Init => Inv
  <2> SUFFICES ASSUME Init PROVE Inv
    OBVIOUS
  <2>1. DataInv
    BY DataInit
  <2>2. ASSUME NEW q \in Requests
        PROVE  FindingInv(q) /\ RemovalInv(q)
    <3>1. phase[q] = "waiting" /\ found[q] = <<>>
      BY DEF Init
    <3> QED
      BY <3>1 DEF FindingInv, RemovalInv, Removing
  <2> QED
    BY <2>1, <2>2
<1>2. Inv /\ [Next]_vars => Inv'
  BY DataStep, FindingStep, RemovalStep
<1>3. Inv => DeletesAreComplete
  <2> SUFFICES ASSUME Inv, NEW q \in Requests, phase[q] = "done",
                      answer[q].code \in {200, 204}, ~struck[q],
                      NEW x \in stable[q]
               PROVE  ~Doomed(q, x)
    BY DEF DeletesAreComplete
  <2>1. CASE ask[q].op \notin RemovalOps
    BY <2>1 DEF Doomed, RemovalOps
  <2>2. CASE ask[q].op \in RemovalOps
    BY <2>2 DEF RemovalInv, Removing, NoneDoomed
  <2> QED
    BY <2>1, <2>2
<1> QED
  BY <1>1, <1>2, <1>3, PTL DEF Spec

-----------------------------------------------------------------------------
(* The tables of a request's tenant, and the rows it may show; what a      *)
(* statement fetches, and the entities made of it.                         *)
Mine(q) == {tb \in AllTables : tb.tenant = Tenant(q)}
Right(q) == {y \in AllRows : y.table.tenant = Tenant(q) /\ Where(conf, ask[q], y)}
KeysOf(q) == [type : DOMAIN Lower, id : Nat, time : Int,
              row : {<<>>} \cup {<<y>> : y \in Right(q)}]
EntitiesOf(q) == [id : Nat, type : DOMAIN Lower, index : Seq(Int), rows : SUBSET Right(q)]
Messages(q) == EntitiesOf(q) \cup {Refused404}
GroupsOf(q) == [type : DOMAIN Lower \cup {"none"}, entities : Seq(EntitiesOf(q))]
StatementsOf(q) ==
    [tables : Seq(Mine(q)), ids : {ask[q].ids} \cup {<<i>> : i \in ToSet(ask[q].ids)}]

(* The place of a table among all tables.                                  *)
Pos(tb) == CHOOSE k \in DOMAIN TableOrder : TableOrder[k] = tb

FirstOps == {"1T1E1A", "1T1ENA"}
RowsIn(es) == UNION {e.rows : e \in ToSet(es)}
RowsOf(s) == {y \in AllRows : \E k \in DOMAIN s : s[k].row = <<y>>}
IsSeries(q) == ask[q].op \in SeriesOps /\ ask[q].aggr = "none"

(* The statements a series has still to run are of one table each, in      *)
(* their order; and so are the entities it has found, ahead of them.       *)
OneTableEach(q, w) ==
    /\ \A k \in 1..Len(w) : w[k].ids = ask[q].ids /\ \E tb \in Mine(q) : w[k].tables = <<tb>>
    /\ \A i, j \in 1..Len(w) : i < j => Pos(w[i].tables[1]) < Pos(w[j].tables[1])
Ranged(q, w, es) ==
    /\ \A e \in ToSet(es) \ {Refused404} :
            /\ Table(q, e.type) \in Mine(q)
            /\ \A y \in e.rows : y.table = Table(q, e.type)
            /\ ask[q].ids # <<>> => e.id \in ToSet(ask[q].ids)
            /\ \A k \in 1..Len(w) : Pos(Table(q, e.type)) < Pos(w[k].tables[1])
    /\ \A i, j \in 1..Len(es) : i < j /\ es[i] # Refused404 /\ es[j] # Refused404
            => Pos(Table(q, es[i].type)) <= Pos(Table(q, es[j].type))
    /\ ask[q].op \in FirstOps => Len(w) + Len(es) <= 1

(* The rank of a row among those of its table that a request matches, and  *)
(* the ranks of the rows on its page.                                      *)
Rank(q, x) ==
    Cardinality({z \in rows : z.table = x.table /\ Where(conf, ask[q], z)
                                /\ z.time <= x.time})
OnPage(q, n) == ask[q].offset < n /\ n <= ask[q].offset + Limit(ask[q])
Paged(q) == ask[q].lastN = 0 /\ ~shifted /\ NoTies
Fits(q, Y) == Paged(q) => \A y \in Y : y \in rows /\ OnPage(q, Rank(q, y))

(* A row is among those of a series, or they are a full page ahead of it.  *)
Before(q, y, x) == IF ask[q].lastN = 0 THEN y.time <= x.time ELSE y.time >= x.time
Covers(q, Y, x) ==
    LET of == {y \in Y : y.table = x.table} IN
    \/ x \in of
    \/ Cardinality(of) = Limit(ask[q]) /\ \A y \in of : Before(q, y, x)
Shows(q, Y, x) ==
    /\ ask[q].offset = 0 => Covers(q, Y, x)
    /\ Paged(q) /\ OnPage(q, Rank(q, x)) => x \in Y
Lacking(q, x) == ask[q].op \notin FirstOps /\ Unlisted(q, x)
Showing(q, w, es) ==
    /\ \A e \in ToSet(es) : e # Refused404 /\ IsAscending(e.index)
    /\ Fits(q, RowsIn(es))
    /\ \A x \in stable[q] : InScope(q, x) =>
            \/ \E k \in 1..Len(w) : w[k].tables = <<x.table>>
            \/ Lacking(q, x)
            \/ Shows(q, RowsIn(es), x)

(* The latest values: each entity that was asked for has a statement left  *)
(* or is found, with a value at least as late as any stable row of it.     *)
Later(q, e, i) ==
    /\ e # Refused404 /\ e.id = i
    /\ \A x \in stable[q] : InScope(q, x) /\ x.id = i => e.index[1] >= x.time
IdsEach(q, w) ==
    \A k \in 1..Len(w) : /\ w[k].tables = InOrder({Table(q, ask[q].type)})
                         /\ \E i \in ToSet(ask[q].ids) : w[k].ids = <<i>>
Latest(q, w, es) ==
    \A i \in ToSet(ask[q].ids) :
            \/ \E k \in 1..Len(w) : w[k].ids = <<i>>
            \/ \E e \in ToSet(es) : Later(q, e, i)

(* The tables of a listing of entities: those it is given, or that of its  *)
(* type, without some that are hidden.                                     *)
GivenTables(q) == IF ask[q].type = "none" THEN listed[q] ELSE {Table(q, ask[q].type)}
OneStatement(q, w, es) ==
    /\ es = <<>>
    /\ w # <<>> => /\ Len(w) = 1 /\ w[1].ids = <<>>
                   /\ \E T \in SUBSET GivenTables(q) :
                        /\ w[1].tables = InOrder(T)
                        /\ \A tb \in GivenTables(q) \ T : Hidden(q, tb)

(* What a request has still to do and what it has found: as it goes along, *)
(* and that nothing is missing as long as no fault struck it.              *)
Pending(q, w, es) ==
    /\ w \in Seq(StatementsOf(q)) /\ es \in Seq(Messages(q))
    /\ ask[q].op \in SeriesOps => OneTableEach(q, w) /\ Ranged(q, w, es)
    /\ ask[q].op = "op" => IdsEach(q, w)
    /\ ask[q].op = "NTNE" /\ w # <<>> => OneStatement(q, w, es)
Careful(q, w, es) ==
    /\ IsSeries(q) => Showing(q, w, es)
    /\ ask[q].op = "op" => Latest(q, w, es)

(* What was fetched, of the tables and ids of one statement.               *)
Drawn(q, st, s) ==
    /\ s \in Seq(KeysOf(q))
    /\ \A k \in 1..Len(s) :
            /\ st.ids # <<>> => s[k].id \in ToSet(st.ids)
            /\ Table(q, s[k].type) \in ToSet(st.tables)
            /\ \A y \in AllRows : s[k].row = <<y>> => y.table = Table(q, s[k].type)
SeriesDrawn(q, st, s) ==
    /\ \A i, j \in 1..Len(s) : i < j => Before(q, s[i], s[j])
    /\ Fits(q, RowsOf(s))
    /\ \A x \in stable[q] : InScope(q, x) /\ st.tables = <<x.table>>
            => Shows(q, RowsOf(s), x)
LatestDrawn(q, st, s) ==
    /\ \A i, j \in 1..Len(s) : i < j => s[i].time >= s[j].time
    /\ \A x \in stable[q] : InScope(q, x) /\ x.id \in ToSet(st.ids) =>
            \E k \in 1..Len(s) : s[k].time >= x.time
ListingDrawn(q, st, s) ==
    /\ \A i, j \in 1..Len(s) : i # j => s[i] # s[j]
    /\ \A x \in stable[q] : InScope(q, x) /\ x.table \in ToSet(st.tables)
                              /\ ask[q].offset = 0 =>
            \/ \E k \in 1..Len(s) : s[k].id = x.id /\ s[k].type = x.type
            \/ Len(s) = IdLimit(ask[q])
FetchedOf(q, st, s) ==
    /\ Drawn(q, st, s)
    /\ IsSeries(q) => SeriesDrawn(q, st, s)
    /\ ask[q].op = "op" => LatestDrawn(q, st, s)
    /\ ask[q].op = "NTNE" => ListingDrawn(q, st, s)

(* An answer: its groups, and that nothing is missing from it.             *)
EntitiesIn(b) == UNION {ToSet(g.entities) : g \in ToSet(b)}
ShownIn(b) == UNION {UNION {e.rows : e \in ToSet(g.entities)} : g \in ToSet(b)}
GroupsRight(q, b) ==
    (\A e, f \in EntitiesIn(b) : Table(q, e.type) = Table(q, f.type) => e.type = f.type)
    => /\ \A g \in ToSet(b) : \A e \in ToSet(g.entities) : e.type = g.type
       /\ \A i, j \in DOMAIN b : b[i].type = b[j].type => i = j
SeriesRight(q, b) ==
    /\ \A e \in EntitiesIn(b) : IsAscending(e.index)
    /\ Fits(q, ShownIn(b))
    /\ \A x \in stable[q] : InScope(q, x) => Lacking(q, x) \/ Shows(q, ShownIn(b), x)
LatestRight(q, b) ==
    \A x \in stable[q] : InScope(q, x) /\ x.id \in ToSet(ask[q].ids) =>
        \/ \E e \in EntitiesIn(b) : e.id = x.id /\ e.index[1] >= x.time
        \/ b = <<>> /\ \E k \in DOMAIN ask[q].ids :
                \A y \in stable[q] : InScope(q, y) => y.id # ask[q].ids[k]
ListingsIn(b) == UNION {{<<e, k>> : k \in DOMAIN e.index} : e \in EntitiesIn(b)}
ListingRight(q, b) ==
    ask[q].offset = 0 => \A x \in stable[q] : InScope(q, x) =>
        \/ \E e \in EntitiesIn(b) : e.id = x.id
        \/ Cardinality(ListingsIn(b)) >= IdLimit(ask[q])
        \/ Unlisted(q, x)
        \/ \E tb \in listed[q] : \A y \in stable[q] : y.table # tb
Complete(q, b) ==
    /\ IsSeries(q) => SeriesRight(q, b)
    /\ ask[q].op = "op" => LatestRight(q, b)
    /\ ask[q].op = "NTNE" => ListingRight(q, b)
Answered(q, b) ==
    /\ b \in Seq(GroupsOf(q))
    /\ ask[q].op \in {"NTNE1A", "NTNENA"} => GroupsRight(q, b)

(* How far a query is.                                                     *)
Knowing == {"fill", "listed", "select", "format"}
Queried(q) ==
    /\ ~shifted => stable[q] \subseteq rows
    /\ phase[q] # "done" => answer[q].body = <<>>
    /\ phase[q] = "done" => /\ answer[q].code # 200 => answer[q].body = <<>>
                            /\ answer[q].code = 200 => Answered(q, answer[q].body)
    /\ phase[q] = "done" /\ answer[q].code = 200 /\ ~struck[q]
         => Complete(q, answer[q].body)
    /\ phase[q] = "erase" => work[q] # <<>>
    /\ phase[q] \in {"erase", "drop", "unmeta", "forget"} => ask[q].op \in RemovalOps
    /\ phase[q] \in {"list", "fill", "listed"}
         => ask[q].type = "none" /\ ask[q].op \notin FirstOps \cup RemovalOps
    /\ phase[q] \in Knowing /\ ask[q].type = "none" /\ ask[q].op \notin FirstOps
         => \A x \in stable[q] : InScope(q, x) => x.table \in listed[q] \/ Unlisted(q, x)
    /\ phase[q] \in {"select", "format"} =>
            /\ ask[q].op \notin RemovalOps
            /\ work[q] # <<>> /\ Pending(q, work[q], found[q])
            /\ ~struck[q] => Careful(q, work[q], found[q])
    /\ phase[q] = "format" => FetchedOf(q, Head(work[q]), fetched[q])

-----------------------------------------------------------------------------
(* What is asked for, and the place of its tables.                         *)
LEMMA AskedFor ==
    ASSUME NEW q \in Requests, DataInv
    PROVE  /\ ask[q].ids \in Seq(Nat) /\ ask[q].type \in DOMAIN Lower \cup {"none"}
           /\ ask[q].offset \in Nat /\ ask[q].lastN \in Nat /\ ask[q].limit \in Nat
           /\ Limit(ask[q]) \in Nat /\ IdLimit(ask[q]) \in Nat
           /\ ask[q].aggr \in {"none", "period", "total"}
           /\ ask[q].op \in SeriesOps \cup RemovalOps \cup {"NTNE", "op"}
           /\ ask[q].op \in {"1TNE1A", "1TNENA", "op", "delete_entities", "drop"}
                => ask[q].type # "none"
           /\ ask[q].op \in FindOps => Len(ask[q].ids) = 1
           /\ ask[q].op \in {"NTNE", "op"} => ask[q].lastN = 0 /\ ask[q].aggr = "none"
           /\ ask[q].op = "NTNE" => ask[q].ids = <<>>
           /\ Tenant(q) \in Tenants
           /\ [ask[q] EXCEPT !.ids = ask[q].ids] = ask[q]
<1>1. IsRequest(ask[q])
  BY DEF DataInv
<1>2. ask[q] \in Asks
  BY <1>1 DEF IsRequest
<1>3. /\ ask[q].ids \in Seq(Nat) /\ ask[q].type \in DOMAIN Lower \cup {"none"}
      /\ ask[q].offset \in Nat /\ ask[q].lastN \in Nat /\ ask[q].limit \in Nat
      /\ ask[q].aggr \in {"none", "period", "total"}
      /\ ask[q].op \in SeriesOps \cup RemovalOps \cup {"NTNE", "op"}
  BY <1>2 DEF Asks
<1>4. Limit(ask[q]) \in Nat /\ IdLimit(ask[q]) \in Nat
  BY <1>3, LimitAssumption DEF Limit, IdLimit
<1> QED
  BY <1>1, <1>3, <1>4, RequestFacts, TenantType DEF IsRequest, FindOps

LEMMA PosFacts ==
    ASSUME NEW tb \in AllTables
    PROVE  /\ Pos(tb) \in 1..Len(TableOrder) /\ TableOrder[Pos(tb)] = tb
           /\ \A other \in AllTables : Pos(other) = Pos(tb) => other = tb
<1> DEFINE At0(b) == \E k \in DOMAIN TableOrder : TableOrder[k] = b
<1>1. \A b \in AllTables : Pos(b) \in DOMAIN TableOrder /\ TableOrder[Pos(b)] = b
  <2> SUFFICES ASSUME NEW b \in AllTables
               PROVE  Pos(b) \in DOMAIN TableOrder /\ TableOrder[Pos(b)] = b
    OBVIOUS
  <2>1. \E k \in DOMAIN TableOrder : TableOrder[k] = b
    BY DEF AllTables, ToSet
  <2> QED
    BY <2>1, Zenon DEF Pos
<1>2. DOMAIN TableOrder = 1..Len(TableOrder)
  BY TablesAssumption
<1> QED
  BY <1>1, <1>2

LEMMA InOrderFacts ==
    ASSUME NEW T
    PROVE  LET s == InOrder(T) IN
           /\ s \in Seq(AllTables) /\ ToSet(s) = AllTables \cap T
           /\ DOMAIN s = 1..Len(s) /\ Len(s) \in Nat
           /\ \A i, j \in 1..Len(s) : i < j => Pos(s[i]) < Pos(s[j])
<1> DEFINE R == {p \in AllTables \X AllTables : Pos(p[1]) < Pos(p[2])}
           s == InOrder(T)
<1>1. DOMAIN TableOrder = 1..Len(TableOrder) /\ Len(TableOrder) \in Nat
  BY TablesAssumption
<1>2. TableOrder \in [1..Len(TableOrder) -> AllTables]
  <2>1. TableOrder = [k \in 1..Len(TableOrder) |-> TableOrder[k]]
    BY TablesAssumption
  <2>2. \A k \in 1..Len(TableOrder) : TableOrder[k] \in AllTables
    BY <1>1 DEF AllTables, ToSet
  <2> QED
    BY <2>1, <2>2
<1>3. TableOrder \in Seq(AllTables)
  BY <1>1, <1>2
<1>4. \A k \in 1..Len(TableOrder) : Pos(TableOrder[k]) = k
  <2> SUFFICES ASSUME NEW k \in 1..Len(TableOrder)
               PROVE  Pos(TableOrder[k]) = k
    OBVIOUS
  <2>1. TableOrder[k] \in AllTables
    BY <1>2
  <2>2. Pos(TableOrder[k]) \in DOMAIN TableOrder
        /\ TableOrder[Pos(TableOrder[k])] = TableOrder[k]
    BY <1>1, <2>1, PosFacts
  <2> QED
    BY <1>1, <2>2, TablesAssumption
<1>5. \A i, j \in 1..Len(TableOrder) : i < j => <<TableOrder[i], TableOrder[j]>> \in R
  BY <1>2, <1>4
<1>6. /\ s \in Seq(AllTables) /\ ToSet(s) = ToSet(TableOrder) \cap T
  BY <1>3, ThoseFacts DEF InOrder
<1>7. \A i, j \in 1..Len(s) : i < j => <<s[i], s[j]>> \in R
  <2> HIDE DEF R
  <2> QED
    BY <1>3, <1>5, ThoseOrdered DEF InOrder
<1> HIDE DEF s
<1>8. \A i, j \in 1..Len(s) : i < j => Pos(s[i]) < Pos(s[j])
  BY <1>7
<1> QED
  BY <1>6, <1>8 DEF AllTables, s

(* The order of a single table.                                            *)
LEMMA InOrderOne ==
    ASSUME NEW tb
    PROVE  /\ InOrder({tb}) = <<>> \/ InOrder({tb}) = <<tb>>
           /\ Len(InOrder({tb})) <= 1
<1> DEFINE s == InOrder({tb})
<1>1. /\ s \in Seq(AllTables) /\ ToSet(s) \subseteq {tb}
      /\ DOMAIN s = 1..Len(s) /\ Len(s) \in Nat
      /\ \A i, j \in 1..Len(s) : i < j => Pos(s[i]) < Pos(s[j])
  BY InOrderFacts
<1> HIDE DEF s
<1>2. \A k \in 1..Len(s) : s[k] = tb /\ s[k] \in AllTables
  BY <1>1 DEF ToSet
<1>3. Len(s) <= 1
  <2>1. CASE 1 \in 1..Len(s) /\ 2 \in 1..Len(s)
    <3>1. Pos(tb) < Pos(tb) /\ tb \in AllTables
      BY <1>1, <1>2, <2>1
    <3>2. Pos(tb) \in 1..Len(TableOrder) /\ Len(TableOrder) \in Nat
      BY <3>1, PosFacts, TablesAssumption
    <3> QED
      BY <3>1, <3>2
  <2> QED
    BY <1>1, <2>1
<1>4. s = <<>> \/ s = <<tb>>
  BY <1>1, <1>2, <1>3
<1> QED
  BY <1>3, <1>4 DEF s

(* What a request asks for does not change.                                *)
LEMMA SameQuestion ==
    ASSUME ask' = ask, conf' = conf, NEW q
    PROVE  /\ Tenant(q)' = Tenant(q) /\ Handler(q)' = Handler(q)
           /\ Mine(q)' = Mine(q) /\ Right(q)' = Right(q) /\ KeysOf(q)' = KeysOf(q)
           /\ EntitiesOf(q)' = EntitiesOf(q) /\ Messages(q)' = Messages(q)
           /\ GroupsOf(q)' = GroupsOf(q) /\ StatementsOf(q)' = StatementsOf(q)
           /\ IsSeries(q)' <=> IsSeries(q)
           /\ \A type : Table(q, type)' = Table(q, type)
           /\ \A x : InScope(q, x)' <=> InScope(q, x)
           /\ \A tb : Hidden(q, tb)' <=> Hidden(q, tb)
<1>1. Handler(q)' = Handler(q)
  BY DEF Handler
<1>2. Tenant(q)' = Tenant(q)
  BY <1>1 DEF Tenant
<1>3. \A type : Table(q, type)' = Table(q, type)
  BY <1>2 DEF Table
<1>4. Right(q)' = Right(q)
  BY <1>2 DEF Right
<1>5. EntitiesOf(q)' = EntitiesOf(q) /\ KeysOf(q)' = KeysOf(q)
  BY <1>4 DEF EntitiesOf, KeysOf
<1>6. \A tb : Hidden(q, tb)' <=> Hidden(q, tb)
  BY <1>1, <1>2 DEF Hidden, DropsDotted
<1>7. \A x : InScope(q, x)' <=> InScope(q, x)
  BY <1>2, <1>3, <1>6 DEF InScope
<1>8. Mine(q)' = Mine(q)
  BY <1>2 DEF Mine
<1> QED
  BY <1>1, <1>2, <1>3, <1>4, <1>5, <1>6, <1>7, <1>8
     DEF Messages, GroupsOf, StatementsOf, IsSeries

-----------------------------------------------------------------------------
Shifts == ~shifted' => ~shifted /\ Ordered

(* What a step does not touch.  As long as only newer rows come, a row     *)
(* keeps its rank.                                                         *)
LEMMA RanksKept ==
    ASSUME NEW q, DataInv, DataInv', Shifts, ask' = ask, conf' = conf, Paged(q)'
    PROVE  /\ Paged(q) /\ rows \subseteq rows'
           /\ \A x \in rows : Rank(q, x)' = Rank(q, x)
<1>1. ~shifted /\ Ordered
  BY DEF Paged, Shifts
<1>2. rows \subseteq rows'
  BY <1>1 DEF Ordered
<1>3. NoTies
  BY <1>2 DEF Paged, NoTies
<1>4. ASSUME NEW x \in rows
      PROVE  Rank(q, x)' = Rank(q, x)
  <2> DEFINE S == {z \in rows : z.table = x.table /\ Where(conf, ask[q], z)
                                  /\ z.time <= x.time}
             S1 == {z \in rows' : z.table = x.table /\ Where(conf', ask'[q], z)
                                  /\ z.time <= x.time}
  <2>1. ASSUME NEW z \in rows', z \notin rows, z.table = x.table
        PROVE  ~(z.time <= x.time)
    <3>1. x.time < z.time
      BY <1>1, <2>1 DEF Ordered
    <3>2. x.time \in Nat /\ z.time \in Nat
      BY DEF DataInv, IsRow
    <3> QED
      BY <3>1, <3>2
  <2>2. S1 = S
    BY <1>2, <2>1
  <2> QED
    BY <2>2 DEF Rank
<1> QED
  BY <1>1, <1>2, <1>3, <1>4 DEF Paged

LEMMA FitsKept ==
    ASSUME NEW q, NEW Y, DataInv, DataInv', Shifts, ask' = ask, conf' = conf, Fits(q, Y)
    PROVE  Fits(q, Y)'
<1> SUFFICES ASSUME Paged(q)', NEW y \in Y
             PROVE  y \in rows' /\ OnPage(q, Rank(q, y))'
  BY DEF Fits
<1>1. /\ Paged(q) /\ rows \subseteq rows'
      /\ \A x \in rows : Rank(q, x)' = Rank(q, x)
  BY RanksKept
<1>2. y \in rows /\ OnPage(q, Rank(q, y))
  BY <1>1 DEF Fits
<1>3. Rank(q, y)' = Rank(q, y)
  BY <1>1, <1>2
<1> QED
  BY <1>1, <1>2, <1>3 DEF OnPage

LEMMA ShowsKept ==
    ASSUME NEW q, NEW Y, NEW x, DataInv, DataInv', Shifts, ask' = ask, conf' = conf,
           ~shifted => x \in rows, Shows(q, Y, x)
    PROVE  Shows(q, Y, x)'
<1>1. Covers(q, Y, x)' <=> Covers(q, Y, x)
  BY DEF Covers, Before
<1>2. ASSUME Paged(q)', OnPage(q, Rank(q, x))'
      PROVE  x \in Y
  <2>1. Paged(q) /\ \A z \in rows : Rank(q, z)' = Rank(q, z)
    BY <1>2, RanksKept
  <2>2. x \in rows
    BY <2>1 DEF Paged
  <2>3. OnPage(q, Rank(q, x))
    BY <1>2, <2>1, <2>2 DEF OnPage
  <2> QED
    BY <2>1, <2>3 DEF Shows
<1> QED
  BY <1>1, <1>2 DEF Shows

(* What there is of a request, while fewer rows have been visible all along. *)
Stays(q) ==
    /\ DataInv /\ DataInv' /\ Shifts /\ ask' = ask /\ conf' = conf
    /\ stable'[q] \subseteq stable[q] /\ listed'[q] = listed[q]
    /\ ~shifted => stable[q] \subseteq rows

LEMMA UnlistedStays ==
    ASSUME NEW q, Stays(q)
    PROVE  /\ \A x : Unlisted(q, x)' <=> Unlisted(q, x)
           /\ \A x : Lacking(q, x)' <=> Lacking(q, x)
  BY DEF Stays, Unlisted, Lacking

LEMMA PendingStays ==
    ASSUME NEW q, ask' = ask, conf' = conf, listed'[q] = listed[q]
    PROVE  \A w, es : Pending(q, w, es) => Pending(q, w, es)'
<1> SUFFICES ASSUME NEW w, NEW es, Pending(q, w, es)
             PROVE  Pending(q, w, es)'
  OBVIOUS
<1>1. ask' = ask /\ conf' = conf /\ listed'[q] = listed[q]
  OBVIOUS
<1>2. /\ Mine(q)' = Mine(q) /\ Messages(q)' = Messages(q)
      /\ StatementsOf(q)' = StatementsOf(q)
      /\ \A type : Table(q, type)' = Table(q, type)
      /\ \A tb : Hidden(q, tb)' <=> Hidden(q, tb)
  BY <1>1, SameQuestion
<1>3. OneTableEach(q, w) => OneTableEach(q, w)'
  BY <1>1, <1>2 DEF OneTableEach
<1>4. Ranged(q, w, es) => Ranged(q, w, es)'
  BY <1>1, <1>2 DEF Ranged
<1>5. IdsEach(q, w) => IdsEach(q, w)'
  BY <1>1, <1>2 DEF IdsEach
<1>6. OneStatement(q, w, es) => OneStatement(q, w, es)'
  <2>1. GivenTables(q)' = GivenTables(q)
    BY <1>1, <1>2 DEF GivenTables
  <2> QED
    BY <1>2, <2>1 DEF OneStatement
<1> QED
  BY <1>1, <1>2, <1>3, <1>4, <1>5, <1>6 DEF Pending

LEMMA CarefulStays ==
    ASSUME NEW q, Stays(q)
    PROVE  \A w, es : Careful(q, w, es) => Careful(q, w, es)'
<1> SUFFICES ASSUME NEW w, NEW es, Careful(q, w, es)
             PROVE  Careful(q, w, es)'
  OBVIOUS
<1>1. /\ ask' = ask /\ conf' = conf /\ listed'[q] = listed[q] /\ Shifts
      /\ stable'[q] \subseteq stable[q] /\ DataInv /\ DataInv'
      /\ ~shifted => stable[q] \subseteq rows
  BY DEF Stays
<1>2. /\ \A x : InScope(q, x)' <=> InScope(q, x)
      /\ IsSeries(q)' <=> IsSeries(q)
  BY <1>1, SameQuestion
<1>3. \A x : Lacking(q, x)' <=> Lacking(q, x)
  BY UnlistedStays
<1>4. ASSUME Showing(q, w, es)
      PROVE  Showing(q, w, es)'
  <2>1. Fits(q, RowsIn(es))'
    BY <1>1, <1>4, FitsKept DEF Showing
  <2>2. ASSUME NEW x \in stable'[q], InScope(q, x)'
        PROVE  \/ \E k \in 1..Len(w) : w[k].tables = <<x.table>>
               \/ Lacking(q, x)'
               \/ Shows(q, RowsIn(es), x)'
    <3>1. x \in stable[q] /\ InScope(q, x)
      BY <1>1, <1>2, <2>2
    <3>2. Shows(q, RowsIn(es), x) => Shows(q, RowsIn(es), x)'
      BY <1>1, <3>1, ShowsKept
    <3> QED
      BY <1>3, <1>4, <3>1, <3>2 DEF Showing
  <2> QED
    BY <1>4, <2>1, <2>2 DEF Showing
<1>5. ASSUME Latest(q, w, es)
      PROVE  Latest(q, w, es)'
  <2>1. \A e, i : Later(q, e, i) => Later(q, e, i)'
    BY <1>1, <1>2 DEF Later
  <2> QED
    BY <1>1, <1>5, <2>1 DEF Latest
<1> QED
  BY <1>1, <1>2, <1>4, <1>5 DEF Careful

LEMMA FetchedStays ==
    ASSUME NEW q, Stays(q)
    PROVE  \A st, s : FetchedOf(q, st, s) => FetchedOf(q, st, s)'
<1> SUFFICES ASSUME NEW st, NEW s, FetchedOf(q, st, s)
             PROVE  FetchedOf(q, st, s)'
  OBVIOUS
<1>1. /\ ask' = ask /\ conf' = conf /\ listed'[q] = listed[q] /\ Shifts
      /\ stable'[q] \subseteq stable[q] /\ DataInv /\ DataInv'
      /\ ~shifted => stable[q] \subseteq rows
  BY DEF Stays
<1>2. /\ \A x : InScope(q, x)' <=> InScope(q, x)
      /\ IsSeries(q)' <=> IsSeries(q)
      /\ KeysOf(q)' = KeysOf(q)
      /\ \A type : Table(q, type)' = Table(q, type)
  BY <1>1, SameQuestion
<1>3. ASSUME Drawn(q, st, s)
      PROVE  Drawn(q, st, s)'
  <2>1. s \in Seq(KeysOf(q)')
    BY <1>2, <1>3 DEF Drawn
  <2>2. ASSUME NEW k \in 1..Len(s)
        PROVE  /\ st.ids # <<>> => s[k].id \in ToSet(st.ids)
               /\ Table(q, s[k].type)' \in ToSet(st.tables)
               /\ \A y \in AllRows : s[k].row = <<y>> => y.table = Table(q, s[k].type)'
    BY <1>2, <1>3 DEF Drawn
  <2> QED
    BY <2>1, <2>2 DEF Drawn, AllRows
<1>4. ASSUME SeriesDrawn(q, st, s)
      PROVE  SeriesDrawn(q, st, s)'
  <2>1. Fits(q, RowsOf(s))'
    BY <1>1, <1>4, FitsKept DEF SeriesDrawn
  <2>2. ASSUME NEW x \in stable'[q], InScope(q, x)', st.tables = <<x.table>>
        PROVE  Shows(q, RowsOf(s), x)'
    <3>1. x \in stable[q] /\ InScope(q, x)
      BY <1>1, <1>2, <2>2
    <3>2. Shows(q, RowsOf(s), x)
      BY <1>4, <2>2, <3>1 DEF SeriesDrawn
    <3> QED
      BY <1>1, <3>1, <3>2, ShowsKept
  <2>3. \A x, y : Before(q, x, y)' <=> Before(q, x, y)
    BY <1>1 DEF Before
  <2> QED
    BY <1>4, <2>1, <2>2, <2>3 DEF SeriesDrawn
<1>5. LatestDrawn(q, st, s) => LatestDrawn(q, st, s)'
  BY <1>1, <1>2 DEF LatestDrawn
<1>6. ListingDrawn(q, st, s) => ListingDrawn(q, st, s)'
  BY <1>1, <1>2 DEF ListingDrawn
<1> QED
  BY <1>1, <1>2, <1>3, <1>4, <1>5, <1>6 DEF FetchedOf

LEMMA AnswerStays ==
    ASSUME NEW q, Stays(q)
    PROVE  /\ \A b : Answered(q, b) => Answered(q, b)'
           /\ \A b : Complete(q, b) => Complete(q, b)'
<1>1. /\ ask' = ask /\ conf' = conf /\ listed'[q] = listed[q] /\ Shifts
      /\ stable'[q] \subseteq stable[q] /\ DataInv /\ DataInv'
      /\ ~shifted => stable[q] \subseteq rows
  BY DEF Stays
<1>2. /\ \A x : InScope(q, x)' <=> InScope(q, x)
      /\ IsSeries(q)' <=> IsSeries(q)
      /\ GroupsOf(q)' = GroupsOf(q)
      /\ \A type : Table(q, type)' = Table(q, type)
  BY <1>1, SameQuestion
<1>3. /\ \A x : Unlisted(q, x)' <=> Unlisted(q, x)
      /\ \A x : Lacking(q, x)' <=> Lacking(q, x)
  BY UnlistedStays
<1>4. ASSUME NEW b, Answered(q, b)
      PROVE  Answered(q, b)'
  <2>1. GroupsRight(q, b) => GroupsRight(q, b)'
    BY <1>2 DEF GroupsRight
  <2> QED
    BY <1>1, <1>2, <1>4, <2>1 DEF Answered
<1>5. ASSUME NEW b, Complete(q, b)
      PROVE  Complete(q, b)'
  <2>1. ASSUME SeriesRight(q, b)
        PROVE  SeriesRight(q, b)'
    <3>1. Fits(q, ShownIn(b))'
      BY <1>1, <2>1, FitsKept DEF SeriesRight
    <3>2. ASSUME NEW x \in stable'[q], InScope(q, x)'
          PROVE  Lacking(q, x)' \/ Shows(q, ShownIn(b), x)'
      <4>1. x \in stable[q] /\ InScope(q, x)
        BY <1>1, <1>2, <3>2
      <4>2. Shows(q, ShownIn(b), x) => Shows(q, ShownIn(b), x)'
        BY <1>1, <4>1, ShowsKept
      <4> QED
        BY <1>3, <2>1, <4>1, <4>2 DEF SeriesRight
    <3> QED
      BY <2>1, <3>1, <3>2 DEF SeriesRight
  <2>2. LatestRight(q, b) => LatestRight(q, b)'
    BY <1>1, <1>2 DEF LatestRight
  <2>3. ListingRight(q, b) => ListingRight(q, b)'
    BY <1>1, <1>2, <1>3 DEF ListingRight
  <2> QED
    BY <1>1, <1>2, <1>5, <2>1, <2>2, <2>3 DEF Complete
<1> QED
  BY <1>4, <1>5

-----------------------------------------------------------------------------
(* A row that a request is about is in a table of its own, that of the     *)
(* row's type.                                                             *)
LEMMA RowInScope ==
    ASSUME NEW q \in Requests, DataInv, NEW x, IsRow(x), x \in AllRows, InScope(q, x)
    PROVE  /\ x \in Right(q) /\ x.table \in Mine(q) /\ Table(q, x.type) = x.table
           /\ ask[q].type # "none" => x.table = Table(q, ask[q].type)
           /\ ask[q].ids # <<>> => x.id \in ToSet(ask[q].ids)
<1>1. /\ Where(conf, ask[q], x)
      /\ ask[q].type # "none" => x.table = Table(q, ask[q].type)
      /\ ask[q].type = "none" => x.table.tenant = Tenant(q)
  BY DEF InScope
<1>2. x.table.tenant = Tenant(q)
  BY <1>1 DEF Table
<1>3. x.table \in AllTables /\ x.table.base = Lower[x.type]
  BY DEF IsRow
<1>4. Table(q, x.type) = x.table
  BY <1>2, <1>3, TableIsPair DEF Table
<1> QED
  BY <1>1, <1>2, <1>3, <1>4 DEF Right, Mine, Where

(* A table is the type's of a row, for one that matches a statement.       *)
LEMMA RowOfTenant ==
    ASSUME NEW q, NEW x, IsRow(x), x.table.tenant = Tenant(q)
    PROVE  Table(q, x.type) = x.table
<1>1. x.table \in AllTables /\ x.table.base = Lower[x.type]
  BY DEF IsRow
<1> QED
  BY <1>1, TableIsPair DEF Table

(* The statements of a query, of the tables it was given.                  *)
LEMMA SeriesStatements ==
    ASSUME NEW q \in Requests, DataInv, NEW T, \A tb \in T : tb.tenant = Tenant(q),
           ask[q].op \in SeriesOps, ask[q].op \in FirstOps => \E tb : T = {tb}
    PROVE  LET s == Statements(q, T) IN
           /\ s \in Seq(StatementsOf(q)) /\ OneTableEach(q, s) /\ Ranged(q, s, <<>>)
           /\ \A tb \in T \cap AllTables : \E k \in 1..Len(s) : s[k].tables = <<tb>>
<1> DEFINE s == Statements(q, T)  t == InOrder(T)
           one(k) == [tables |-> <<t[k]>>, ids |-> ask[q].ids]
<1>1. Handler(q).call = "query"
  BY QueryHandlers
<1>2. s = IF T = {} THEN <<>> ELSE [k \in DOMAIN t |-> one(k)]
  BY <1>1 DEF Statements
<1>3. /\ t \in Seq(AllTables) /\ ToSet(t) = AllTables \cap T
      /\ DOMAIN t = 1..Len(t) /\ Len(t) \in Nat
      /\ \A i, j \in 1..Len(t) : i < j => Pos(t[i]) < Pos(t[j])
  BY InOrderFacts
<1> DEFINE n == Len(t)
<1>4. \A k \in 1..n : t[k] \in Mine(q)
  <2> HIDE DEF t
  <2> QED
    BY <1>3 DEF Mine, ToSet
<1>5. \A k \in 1..n : one(k) \in StatementsOf(q)
  <2> SUFFICES ASSUME NEW k \in 1..n PROVE one(k) \in StatementsOf(q)
    OBVIOUS
  <2>1. t[k] \in Mine(q)
    BY <1>4
  <2> HIDE DEF t
  <2>2. <<t[k]>> \in Seq(Mine(q))
    BY <2>1
  <2> QED
    BY <2>2 DEF StatementsOf
<1>6. s \in Seq(StatementsOf(q)) /\ Len(s) = n /\ \A k \in 1..n : s[k] = one(k)
  <2>1. DOMAIN t = 1..n /\ n \in Nat /\ (T = {} => n = 0)
    <3> HIDE DEF t
    <3> QED
      BY <1>3 DEF ToSet
  <2> HIDE DEF n, one, t, s
  <2>2. CASE T # {}
    <3>1. s = [k \in 1..n |-> one(k)]
      BY <1>2, <2>1, <2>2
    <3> QED
      BY <1>5, <2>1, <3>1
  <2>3. CASE T = {}
    <3>1. s = <<>> /\ n = 0
      BY <1>2, <2>1, <2>3
    <3> QED
      BY <3>1
  <2> QED
    BY <2>2, <2>3
<1>7. \A k \in 1..n : s[k] = one(k)
  BY <1>6
<1>8. \A k \in 1..n : s[k].tables = <<t[k]>> /\ s[k].tables[1] = t[k]
                      /\ s[k].ids = ask[q].ids
  <2> SUFFICES ASSUME NEW k \in 1..n
               PROVE  s[k].tables = <<t[k]>> /\ s[k].tables[1] = t[k]
                      /\ s[k].ids = ask[q].ids
    OBVIOUS
  <2> DEFINE tb == t[k]
  <2>1. s[k] = [tables |-> <<tb>>, ids |-> ask[q].ids]
    BY <1>7
  <2> HIDE DEF t, s, tb
  <2>2. s[k].tables = <<tb>> /\ s[k].ids = ask[q].ids
    BY <2>1
  <2>3. s[k].tables[1] = tb
    BY <2>2
  <2> QED
    BY <2>2, <2>3 DEF tb
<1>9. ask[q].op \in FirstOps => n <= 1
  <2> SUFFICES ASSUME ask[q].op \in FirstOps PROVE n <= 1
    OBVIOUS
  <2>1. PICK tb : T = {tb}
    OBVIOUS
  <2> QED
    BY <2>1, InOrderOne
<1>10. \A tb \in T \cap AllTables : \E k \in 1..n : t[k] = tb
  <2> HIDE DEF t
  <2>1. ToSet(t) = {t[k] : k \in 1..Len(t)}
    BY <1>3 DEF ToSet
  <2> SUFFICES ASSUME NEW tb \in T \cap AllTables
               PROVE  \E k \in 1..Len(t) : t[k] = tb
    OBVIOUS
  <2>2. tb \in ToSet(t)
    BY <1>3
  <2> QED
    BY <2>1, <2>2
<1> HIDE DEF s, t, one
<1>11. OneTableEach(q, s)
  <2>1. \A k \in 1..Len(s) : s[k].ids = ask[q].ids
                              /\ \E tb \in Mine(q) : s[k].tables = <<tb>>
    BY <1>4, <1>6, <1>8
  <2>2. \A i, j \in 1..Len(s) : i < j => Pos(s[i].tables[1]) < Pos(s[j].tables[1])
    BY <1>3, <1>6, <1>8
  <2> QED
    BY <2>1, <2>2 DEF OneTableEach
<1>12. Ranged(q, s, <<>>)
  <2>1. ToSet(<<>>) = {} /\ Len(<<>>) = 0 /\ 1..0 = {}
    BY DEF ToSet
  <2> QED
    BY <1>3, <1>6, <1>9, <2>1 DEF Ranged
<1>13. \A tb \in T \cap AllTables : \E k \in 1..Len(s) : s[k].tables = <<tb>>
  BY <1>6, <1>8, <1>10
<1> QED
  BY <1>6, <1>11, <1>12, <1>13 DEF s

LEMMA LatestStatements ==
    ASSUME NEW q \in Requests, DataInv, ask[q].op = "op", NEW T,
           T = {Table(q, ask[q].type)}
    PROVE  LET s == Statements(q, T) IN
           /\ s \in Seq(StatementsOf(q)) /\ IdsEach(q, s)
           /\ \A i \in ToSet(ask[q].ids) : \E k \in 1..Len(s) : s[k].ids = <<i>>
<1> DEFINE s == Statements(q, T)  t == InOrder(T)  ids == ask[q].ids
           one(k) == [tables |-> t, ids |-> <<ids[k]>>]
<1>1. Handler(q).call = "last_value"
  BY QueryHandlers
<1>2. s = [k \in DOMAIN ids |-> one(k)]
  BY <1>1 DEF Statements
<1>3. t \in Seq(Mine(q))
  <2>1. t \in Seq(AllTables) /\ ToSet(t) = AllTables \cap T
        /\ DOMAIN t = 1..Len(t) /\ Len(t) \in Nat
    BY InOrderFacts
  <2> HIDE DEF t
  <2>2. \A k \in 1..Len(t) : t[k] \in Mine(q)
    BY <2>1 DEF ToSet, Mine, Table
  <2> QED
    BY <2>1, <2>2
<1>4. ids \in Seq(Nat)
  BY AskedFor
<1> DEFINE n == Len(ids)
<1>5. DOMAIN ids = 1..n /\ n \in Nat
  BY <1>4
<1>6. \A k \in 1..n : ids[k] \in ToSet(ids)
  BY <1>5 DEF ToSet
<1> HIDE DEF t, ids, n, s
<1>7. \A k \in 1..n : one(k) \in StatementsOf(q)
  BY <1>3, <1>6 DEF StatementsOf, ids
<1>8. s \in Seq(StatementsOf(q)) /\ Len(s) = n /\ \A k \in 1..n : s[k] = one(k)
  <2> HIDE DEF one
  <2>1. s = [k \in 1..n |-> one(k)]
    BY <1>2, <1>5
  <2> QED
    BY <1>5, <1>7, <2>1
<1>9. IdsEach(q, s)
  <2>1. t = InOrder({Table(q, ask[q].type)})
    BY DEF t
  <2>2. \A k \in 1..n : s[k].tables = t /\ s[k].ids = <<ids[k]>>
    BY <1>8
  <2> QED
    BY <1>6, <1>8, <2>1, <2>2 DEF IdsEach, ids
<1>10. \A i \in ToSet(ids) : \E k \in 1..Len(s) : s[k].ids = <<i>>
  BY <1>5, <1>8 DEF ToSet
<1> QED
  BY <1>8, <1>9, <1>10 DEF s, ids

LEMMA ListingStatement ==
    ASSUME NEW q \in Requests, DataInv, ask[q].op = "NTNE", NEW T,
           \A tb \in T : tb.tenant = Tenant(q), T \subseteq GivenTables(q),
           \A tb \in GivenTables(q) \ T : Hidden(q, tb)
    PROVE  LET s == Statements(q, T) IN
           /\ s \in Seq(StatementsOf(q)) /\ OneStatement(q, s, <<>>)
           /\ s = <<>> => T = {}
<1> DEFINE s == Statements(q, T)  t == InOrder(T)
           one == [tables |-> t, ids |-> <<>>]
<1>1. Handler(q).call = "ids"
  BY QueryHandlers
<1>2. s = IF T = {} THEN <<>> ELSE <<one>>
  BY <1>1 DEF Statements
<1>3. t \in Seq(Mine(q))
  <2>1. t \in Seq(AllTables) /\ ToSet(t) = AllTables \cap T
        /\ DOMAIN t = 1..Len(t) /\ Len(t) \in Nat
    BY InOrderFacts
  <2> HIDE DEF t
  <2>2. \A k \in 1..Len(t) : t[k] \in Mine(q)
    BY <2>1 DEF ToSet, Mine
  <2> QED
    BY <2>1, <2>2
<1>4. ask[q].ids = <<>>
  BY AskedFor
<1> HIDE DEF t, s
<1>5. one \in StatementsOf(q)
  <2>1. <<>> \in {ask[q].ids} \cup {<<i>> : i \in ToSet(ask[q].ids)}
    BY <1>4
  <2> QED
    BY <1>3, <2>1 DEF StatementsOf
<1>6. CASE T = {}
  <2>1. s = <<>>
    BY <1>2, <1>6
  <2>2. s \in Seq(StatementsOf(q))
    BY <2>1
  <2>3. OneStatement(q, s, <<>>)
    BY <2>1 DEF OneStatement
  <2> QED
    BY <1>6, <2>2, <2>3 DEF s
<1>7. CASE T # {}
  <2>1. s = <<one>>
    BY <1>2, <1>7
  <2>2. s \in Seq(StatementsOf(q)) /\ Len(s) = 1 /\ s # <<>> /\ s[1] = one
    <3> HIDE DEF one
    <3> QED
      BY <1>5, <2>1
  <2>3. OneStatement(q, s, <<>>)
    BY <2>2 DEF OneStatement, t
  <2> QED
    BY <2>2, <2>3 DEF s
<1> QED
  BY <1>6, <1>7

(* An answer with nothing in it.                                           *)
LEMMA NothingAnswered ==
    ASSUME NEW q
    PROVE  Answered(q, <<>>) /\ Answered(q, <<>>)'
<1>1. \A S : <<>> \in Seq(S)
  OBVIOUS
<1>2. EntitiesIn(<<>>) = {} /\ ToSet(<<>>) = {} /\ DOMAIN <<>> = {}
  BY DEF EntitiesIn, ToSet
<1>3. GroupsRight(q, <<>>) /\ GroupsRight(q, <<>>)'
  BY <1>2 DEF GroupsRight
<1> QED
  BY <1>1, <1>3 DEF Answered

(* The tables that a query is given are enough.                            *)
LEMMA Asking ==
    ASSUME NEW q \in Requests, DataInv, DataInv', ask' = ask, conf' = conf,
           listed'[q] = listed[q], ask[q].op \notin RemovalOps,
           NEW T, \A tb \in T : tb.tenant = Tenant(q),
           ask[q].op \in FirstOps => \E tb : T = {tb},
           ask[q].op = "op" => T \subseteq {Table(q, ask[q].type)},
           ask[q].op = "NTNE" => /\ T \subseteq GivenTables(q)
                                 /\ \A tb \in GivenTables(q) \ T : Hidden(q, tb),
           stable'[q] \subseteq rows',
           \A x \in stable'[q] : InScope(q, x) => x.table \in T \/ Lacking(q, x),
           NEW s, s = Statements(q, T)
    PROVE  /\ s # <<>> => Pending(q, s, <<>>)' /\ Careful(q, s, <<>>)'
           /\ s = <<>> => Complete(q, <<>>)'
<1>1. /\ \A x : InScope(q, x)' <=> InScope(q, x)
      /\ IsSeries(q)' <=> IsSeries(q)
      /\ \A type : Table(q, type)' = Table(q, type)
  BY SameQuestion
<1>2. /\ \A x : Unlisted(q, x)' <=> Unlisted(q, x)
      /\ \A x : Lacking(q, x)' <=> Lacking(q, x)
  BY DEF Unlisted, Lacking
<1>3. \A w, es : Pending(q, w, es) => Pending(q, w, es)'
  BY PendingStays
<1>4. /\ <<>> \in Seq(Messages(q)) /\ RowsIn(<<>>) = {} /\ ToSet(<<>>) = {}
      /\ EntitiesIn(<<>>) = {} /\ ShownIn(<<>>) = {} /\ Len(<<>>) = 0 /\ 1..0 = {}
  BY DEF RowsIn, ToSet, EntitiesIn, ShownIn
<1>5. ask[q].op \in SeriesOps \cup {"NTNE", "op"}
  BY AskedFor
<1>6. \A x \in stable'[q] : x.table \in AllTables
  BY DEF DataInv, IsRow
<1>7. CASE ask[q].op \in SeriesOps
  <2>1. /\ s \in Seq(StatementsOf(q)) /\ OneTableEach(q, s) /\ Ranged(q, s, <<>>)
        /\ \A tb \in T \cap AllTables : \E k \in 1..Len(s) : s[k].tables = <<tb>>
    <3> DEFINE t == Statements(q, T)
    <3>1. /\ t \in Seq(StatementsOf(q)) /\ OneTableEach(q, t) /\ Ranged(q, t, <<>>)
          /\ \A tb \in T \cap AllTables : \E k \in 1..Len(t) : t[k].tables = <<tb>>
      BY <1>7, SeriesStatements
    <3>2. s = t
      OBVIOUS
    <3> HIDE DEF t
    <3> QED
      BY <3>1, <3>2
  <2>2. ask[q].op # "op" /\ ask[q].op # "NTNE"
    BY <1>7 DEF SeriesOps
  <2>3. Pending(q, s, <<>>)
    BY <1>4, <2>1, <2>2 DEF Pending
  <2>4. \A x \in stable'[q] : InScope(q, x) =>
            Lacking(q, x) \/ \E k \in 1..Len(s) : s[k].tables = <<x.table>>
    BY <1>6, <2>1
  <2>5. Careful(q, s, <<>>)'
    <3>1. Fits(q, RowsIn(<<>>))'
      BY <1>4 DEF Fits
    <3>2. Showing(q, s, <<>>)'
      BY <1>1, <1>2, <1>4, <2>4, <3>1 DEF Showing
    <3> QED
      BY <2>2, <3>2 DEF Careful
  <2>6. s = <<>> => Complete(q, <<>>)'
    <3> SUFFICES ASSUME s = <<>> PROVE Complete(q, <<>>)'
      OBVIOUS
    <3>1. \A x \in stable'[q] : InScope(q, x)' => Lacking(q, x)'
      BY <1>1, <1>2, <1>4, <2>4
    <3>2. Fits(q, ShownIn(<<>>))'
      BY <1>4 DEF Fits
    <3>3. SeriesRight(q, <<>>)'
      BY <1>4, <3>1, <3>2 DEF SeriesRight
    <3> QED
      BY <2>2, <3>3 DEF Complete
  <2> QED
    BY <1>3, <2>3, <2>5, <2>6
<1>8. CASE ask[q].op = "op" /\ T # {}
  <2>1. /\ s \in Seq(StatementsOf(q)) /\ IdsEach(q, s)
        /\ \A i \in ToSet(ask[q].ids) : \E k \in 1..Len(s) : s[k].ids = <<i>>
    <3>1. T = {Table(q, ask[q].type)}
      BY <1>8
    <3> QED
      BY <1>8, <3>1, LatestStatements
  <2>2. ask[q].op \notin SeriesOps /\ ask[q].op # "NTNE" /\ ~IsSeries(q)
    BY <1>8 DEF SeriesOps, IsSeries
  <2>3. Pending(q, s, <<>>)
    BY <1>4, <2>1, <2>2 DEF Pending
  <2>4. Latest(q, s, <<>>)'
    BY <2>1 DEF Latest
  <2>5. Careful(q, s, <<>>)'
    BY <1>1, <2>2, <2>4 DEF Careful
  <2>6. s = <<>> => Complete(q, <<>>)'
    <3> SUFFICES ASSUME s = <<>> PROVE Complete(q, <<>>)'
      OBVIOUS
    <3>1. ToSet(ask[q].ids) = {}
      BY <1>4, <2>1
    <3>2. LatestRight(q, <<>>)'
      BY <3>1 DEF LatestRight
    <3> QED
      BY <1>1, <2>2, <3>2 DEF Complete
  <2> QED
    BY <1>3, <2>3, <2>5, <2>6
<1>9. CASE ask[q].op = "NTNE"
  <2>1. /\ s \in Seq(StatementsOf(q)) /\ OneStatement(q, s, <<>>)
        /\ s = <<>> => T = {}
    BY <1>9, ListingStatement
  <2>2. ask[q].op \notin SeriesOps /\ ask[q].op # "op" /\ ~IsSeries(q)
    BY <1>9 DEF SeriesOps, IsSeries
  <2>3. Pending(q, s, <<>>)
    BY <1>4, <2>1, <2>2 DEF Pending
  <2>4. Careful(q, s, <<>>)'
    BY <1>1, <2>2 DEF Careful
  <2>5. s = <<>> => Complete(q, <<>>)'
    <3> SUFFICES ASSUME s = <<>> PROVE Complete(q, <<>>)'
      OBVIOUS
    <3>1. \A x \in stable'[q] : InScope(q, x)' => Unlisted(q, x)'
      BY <1>1, <1>2, <2>1 DEF Lacking
    <3>2. ListingRight(q, <<>>)'
      BY <3>1 DEF ListingRight
    <3> QED
      BY <1>1, <2>2, <3>2 DEF Complete
  <2> QED
    BY <1>3, <2>3, <2>4, <2>5
<1>10. CASE ask[q].op = "op" /\ T = {}
  <2>1. s = <<>>
    BY <1>10 DEF Statements
  <2>2. ask[q].op \notin SeriesOps /\ ask[q].op # "NTNE" /\ ask[q].type # "none"
    BY <1>10, AskedFor DEF SeriesOps
  <2>3. \A x \in stable'[q] : ~InScope(q, x)'
    BY <1>1, <1>10, <2>2 DEF Lacking, Unlisted
  <2>4. LatestRight(q, <<>>)'
    BY <2>3 DEF LatestRight
  <2> QED
    BY <1>1, <2>1, <2>2, <2>4 DEF Complete, IsSeries
<1> QED
  BY <1>5, <1>7, <1>8, <1>9, <1>10

-----------------------------------------------------------------------------
(* What a statement of a series fetches.                                   *)
KeyOf(r, x) ==
    [type |-> x.type, id |-> x.id,
     time |-> CASE r.aggr = "none" -> x.time
                [] r.aggr = "period" -> Truncated(x.time)
                [] r.aggr = "total" -> -1,
     row |-> IF r.aggr = "none" THEN <<x>> ELSE <<>>]

LEMMA KeysAre ==
    ASSUME NEW r, r.aggr \in {"none", "period", "total"},
           NEW X, IsFiniteSet(X), \A x \in X : IsRow(x)
    PROVE  /\ IsFiniteSet(Keys(r, X))
           /\ \A k \in Keys(r, X) : \E x \in X : k = KeyOf(r, x)
           /\ r.aggr = "none" => \A x \in X : KeyOf(r, x) \in Keys(r, X)
           /\ \A x \in X : KeyOf(r, x).time \in Int
<1> DEFINE F == [x \in X |-> KeyOf(r, x)]
<1>1. ASSUME NEW k \in Keys(r, X)
      PROVE  \E x \in X : k = KeyOf(r, x)
  <2>1. PICK y \in Aggregated(r, X) :
            k = [type |-> y.type, id |-> y.id, time |-> y.time,
                 row |-> IF r.aggr = "none" THEN <<y>> ELSE <<>>]
    BY DEF Keys
  <2>2. CASE r.aggr = "none"
    BY <2>1, <2>2 DEF Aggregated, KeyOf
  <2>3. CASE r.aggr = "period"
    <3>1. PICK x \in X : y = [x EXCEPT !.time = Truncated(x.time)]
      BY <2>3 DEF Aggregated
    <3>2. y.type = x.type /\ y.id = x.id /\ y.time = Truncated(x.time)
      BY <3>1 DEF IsRow
    <3> QED
      BY <2>1, <2>3, <3>2 DEF KeyOf
  <2>4. CASE r.aggr = "total"
    <3>1. PICK x \in X : y = [x EXCEPT !.time = -1]
      BY <2>4 DEF Aggregated
    <3>2. y.type = x.type /\ y.id = x.id /\ y.time = -1
      BY <3>1 DEF IsRow
    <3> QED
      BY <2>1, <2>4, <3>2 DEF KeyOf
  <2> QED
    BY <2>2, <2>3, <2>4
<1>2. IsFiniteSet(Keys(r, X))
  <2>1. \A k \in Keys(r, X) : \E x \in X : k = F[x]
    BY <1>1
  <2> HIDE DEF F
  <2> QED
    BY <2>1, ImageFinite
<1>3. r.aggr = "none" => \A x \in X : KeyOf(r, x) \in Keys(r, X)
  BY DEF KeyOf, Keys, Aggregated
<1>4. ASSUME NEW x \in X
      PROVE  KeyOf(r, x).time \in Int
  BY DEF KeyOf, Truncated, IsRow
<1> QED
  BY <1>1, <1>2, <1>3, <1>4

(* The rows of one table that a series asks for.                           *)
Asking1(q, tb) == {x \in rows : x.table = tb /\ Where(conf, ask[q], x)}

LEMMA SeriesResults ==
    ASSUME NEW q \in Requests, DataInv, ask[q].op \in SeriesOps, NEW tb \in Mine(q),
           Head(work[q]).tables = <<tb>>, Head(work[q]).ids = ask[q].ids,
           NEW s \in Results(q)
    PROVE  /\ IsFiniteSet(Asking1(q, tb))
           /\ \A x \in Asking1(q, tb) : IsRow(x) /\ x \in Right(q)
                                        /\ Table(q, x.type) = tb
           /\ \E t \in Orders(ask[q], Asking1(q, tb)) : s = Page(ask[q], t)
<1> DEFINE X == Asking1(q, tb)
<1>1. IsFiniteSet(X)
  <2>1. X \subseteq rows \cup arrivals
    BY DEF Asking1
  <2>2. IsFiniteSet(rows \cup arrivals)
    BY DEF DataInv
  <2> HIDE DEF X
  <2> QED
    BY <2>1, <2>2, FS_Subset
<1>2. ASSUME NEW x \in X
      PROVE  IsRow(x) /\ x \in Right(q) /\ Table(q, x.type) = tb
  <2>1. IsRow(x) /\ x \in AllRows /\ x.table = tb /\ Where(conf, ask[q], x)
    BY DEF Asking1, DataInv
  <2>2. x.table.tenant = Tenant(q)
    BY <2>1 DEF Mine
  <2> QED
    BY <2>1, <2>2, RowOfTenant DEF Right
<1>3. \E t \in Orders(ask[q], X) : s = Page(ask[q], t)
  <2>1. Handler(q).call = "query"
    BY QueryHandlers
  <2>2. Asked(q) = ask[q]
    BY AskedFor DEF Asked, Head1
  <2>3. ToSet(Head1(q).tables) = {tb}
    BY DEF Head1, ToSet
  <2>4. Matching(q, tb) = X
    BY <2>2 DEF Matching, Asking1
  <2>5. UNION {Matching(q, b) : b \in ToSet(Head1(q).tables)} = X
    BY <2>3, <2>4
  <2>6. Results(q) = {Page(ask[q], t) : t \in Orders(ask[q], X)}
    BY <2>1, <2>2, <2>5 DEF Results
  <2> QED
    BY <2>6
<1> QED
  BY <1>1, <1>2, <1>3

(* The whole listing a page is taken from.                                 *)
LEMMA OrdersAre ==
    ASSUME NEW r, r.aggr \in {"none", "period", "total"}, NEW X, IsFiniteSet(X),
           \A x \in X : IsRow(x), NEW t \in Orders(r, X)
    PROVE  /\ t \in Seq(Keys(r, X))
           /\ \A k \in Keys(r, X) : \E i \in 1..Len(t) : t[i] = k
           /\ \A i, j \in 1..Len(t) : i # j => t[i] # t[j]
           /\ r.aggr = "none" => \A i, j \in 1..Len(t) : i < j =>
                IF r.lastN = 0 THEN t[i].time <= t[j].time ELSE t[i].time >= t[j].time
<1> DEFINE keys == Keys(r, X)
           ahead(x, y) == IF r.lastN = 0 THEN x.time <= y.time ELSE x.time >= y.time
           ordered(x, y) ==
               CASE r.aggr = "none" -> ahead(x, y)
                 [] r.aggr = "period" ->
                       x.type # y.type \/ x.id < y.id \/ (x.id = y.id /\ ahead(x, y))
                 [] r.aggr = "total" -> TRUE
           R == {p \in keys \X keys : ordered(p[1], p[2])}
<1>1. IsFiniteSet(keys)
  BY KeysAre
<1>2. t \in SortedBy(keys, R)
  BY DEF Orders
<1>3. r.aggr = "none" => \A x, y : <<x, y>> \in R => ahead(x, y)
  OBVIOUS
<1> HIDE DEF keys, R
<1>4. /\ t \in Seq(keys)
      /\ \A x \in keys : \E k \in 1..Len(t) : t[k] = x
      /\ \A i, j \in 1..Len(t) : i # j => t[i] # t[j]
      /\ \A i, j \in 1..Len(t) : i < j => <<t[i], t[j]>> \in R
  BY <1>1, <1>2, SortedFacts
<1>5. r.aggr = "none" => \A i, j \in 1..Len(t) : i < j => ahead(t[i], t[j])
  BY <1>3, <1>4
<1> QED
  BY <1>4, <1>5 DEF keys

(* In a table without ties, the place of a row in the listing is its rank. *)
LEMMA PlaceIsRank ==
    ASSUME NEW q \in Requests, ask[q].aggr = "none", ask[q].lastN = 0, NoTies, NEW tb,
           IsFiniteSet(Asking1(q, tb)), \A x \in Asking1(q, tb) : IsRow(x),
           NEW t \in Orders(ask[q], Asking1(q, tb)),
           NEW k \in 1..Len(t), NEW x \in Asking1(q, tb), t[k] = KeyOf(ask[q], x)
    PROVE  Rank(q, x) = k
<1> DEFINE X == Asking1(q, tb)  r == ask[q]
           S == {z \in X : z.time <= x.time}
           f == [i \in 1..k |-> CHOOSE z \in X : t[i] = KeyOf(r, z)]
<1>1. /\ t \in Seq(Keys(r, X))
      /\ \A y \in Keys(r, X) : \E i \in 1..Len(t) : t[i] = y
      /\ \A i, j \in 1..Len(t) : i # j => t[i] # t[j]
      /\ \A i, j \in 1..Len(t) : i < j => t[i].time <= t[j].time
  <2>1. /\ t \in Seq(Keys(r, X))
        /\ \A y \in Keys(r, X) : \E i \in 1..Len(t) : t[i] = y
        /\ \A i, j \in 1..Len(t) : i # j => t[i] # t[j]
        /\ r.aggr = "none" => \A i, j \in 1..Len(t) : i < j =>
             IF r.lastN = 0 THEN t[i].time <= t[j].time ELSE t[i].time >= t[j].time
    <3>1. r.aggr \in {"none", "period", "total"} /\ IsFiniteSet(X)
          /\ (\A y \in X : IsRow(y)) /\ t \in Orders(r, X)
      OBVIOUS
    <3> HIDE DEF X, r
    <3> QED
      BY <3>1, OrdersAre
  <2>2. r.aggr = "none" /\ r.lastN = 0
    OBVIOUS
  <2> HIDE DEF X, r
  <2> QED
    BY <2>1, <2>2
<1>2. /\ \A y \in Keys(r, X) : \E z \in X : y = KeyOf(r, z)
      /\ \A z \in X : KeyOf(r, z) \in Keys(r, X)
  <2> HIDE DEF X, r
  <2> QED
    BY KeysAre DEF X, r
<1>3. \A z \in X : KeyOf(r, z).time = z.time /\ KeyOf(r, z).row = <<z>> /\ z.time \in Nat
                    /\ z.table = tb /\ z \in rows
  BY DEF KeyOf, IsRow, Asking1
<1>4. \A y, z \in X : y.time = z.time => y = z
  BY <1>3 DEF NoTies
<1>5. \A y, z \in X : KeyOf(r, y) = KeyOf(r, z) => y = z
  <2> SUFFICES ASSUME NEW y \in X, NEW z \in X, KeyOf(r, y) = KeyOf(r, z)
               PROVE  y = z
    OBVIOUS
  <2>1. <<y>> = <<z>>
    BY <1>3
  <2> QED
    BY <2>1
<1>16. x \in X /\ t[k] = KeyOf(r, x)
  OBVIOUS
<1> HIDE DEF X, r
<1>6. k \in Nat /\ Len(t) \in Nat /\ k <= Len(t) /\ k >= 1
  BY <1>1
<1>7. \A i \in 1..Len(t) : \E z \in X : t[i] = KeyOf(r, z)
  BY <1>1, <1>2
<1>8. \A i \in 1..k : f[i] \in X /\ t[i] = KeyOf(r, f[i])
  <2> SUFFICES ASSUME NEW i \in 1..k
               PROVE  f[i] \in X /\ t[i] = KeyOf(r, f[i])
    OBVIOUS
  <2>1. f[i] = CHOOSE z \in X : t[i] = KeyOf(r, z)
    OBVIOUS
  <2>2. \E z \in X : t[i] = KeyOf(r, z)
    BY <1>6, <1>7
  <2> QED
    BY <2>1, <2>2, Zenon
<1>9. f \in [1..k -> X]
  <2>1. f = [i \in 1..k |-> f[i]]
    OBVIOUS
  <2> HIDE DEF f
  <2> QED
    BY <1>8, <2>1
<1> HIDE DEF f
<1>10. \A i \in 1..k : f[i] \in S
  <2> SUFFICES ASSUME NEW i \in 1..k PROVE f[i].time <= x.time
    BY <1>8
  <2>1. f[i].time = t[i].time /\ x.time = t[k].time /\ x.time \in Nat
    BY <1>3, <1>8, <1>16
  <2>2. i = k \/ (i < k /\ i \in 1..Len(t))
    BY <1>6
  <2>3. i < k => t[i].time <= t[k].time
    BY <1>1, <2>2
  <2>4. CASE i = k
    BY <2>1, <2>4
  <2>5. CASE i < k
    BY <2>1, <2>3, <2>5
  <2> QED
    BY <2>2, <2>4, <2>5
<1>11. \A i, j \in 1..k : i # j => f[i] # f[j]
  <2> SUFFICES ASSUME NEW i \in 1..k, NEW j \in 1..k, f[i] = f[j], i # j
               PROVE  FALSE
    OBVIOUS
  <2>1. i \in 1..Len(t) /\ j \in 1..Len(t)
    BY <1>6
  <2>2. t[i] = t[j]
    BY <1>8
  <2> QED
    BY <1>1, <2>1, <2>2
<1>12. \A z \in S : \E i \in 1..k : f[i] = z
  <2> SUFFICES ASSUME NEW z \in S PROVE \E i \in 1..k : f[i] = z
    OBVIOUS
  <2>1. PICK i \in 1..Len(t) : t[i] = KeyOf(r, z)
    BY <1>1, <1>2
  <2>2. i <= k
    <3> SUFFICES ASSUME i > k PROVE FALSE
      BY <1>6
    <3>1. t[k].time <= t[i].time
      BY <1>1, <1>6
    <3>2. x.time <= z.time /\ z.time <= x.time /\ x \in X
      BY <1>3, <1>16, <2>1, <3>1
    <3>3. x = z
      BY <1>3, <1>4, <3>2
    <3>4. t[k] = t[i]
      BY <1>16, <2>1, <3>3
    <3> QED
      BY <1>1, <1>6, <3>4
  <2>3. i \in 1..k
    BY <1>6, <2>2
  <2>4. KeyOf(r, f[i]) = KeyOf(r, z) /\ f[i] \in X
    BY <1>8, <2>1, <2>3
  <2> QED
    BY <1>5, <2>3, <2>4
<1>13. f \in [1..k -> S]
  BY <1>9, <1>10
<1>14. Cardinality(S) = k
  <2>1. Counts(f, k, S)
    BY <1>11, <1>12, <1>13 DEF Counts
  <2> HIDE DEF S
  <2> QED
    BY <1>6, <2>1, CountedBy
<1>15. S = {z \in rows : z.table = x.table /\ Where(conf, ask[q], z) /\ z.time <= x.time}
  BY DEF X, Asking1
<1> QED
  BY <1>14, <1>15 DEF Rank

LEMMA KeysAreOf ==
    ASSUME NEW q \in Requests, DataInv, NEW X, IsFiniteSet(X),
           \A x \in X : IsRow(x) /\ x \in Right(q)
    PROVE  Keys(ask[q], X) \subseteq KeysOf(q)
<1> SUFFICES ASSUME NEW k \in Keys(ask[q], X)
             PROVE  k \in KeysOf(q)
  OBVIOUS
<1>1. ask[q].aggr \in {"none", "period", "total"}
  BY AskedFor
<1>2. PICK x \in X : k = KeyOf(ask[q], x)
  BY <1>1, KeysAre
<1>3. KeyOf(ask[q], x).time \in Int
  BY <1>1, KeysAre
<1>4. x.type \in DOMAIN Lower /\ x.id \in Nat /\ x \in Right(q)
  BY DEF IsRow
<1>5. k = [type |-> x.type, id |-> x.id, time |-> KeyOf(ask[q], x).time,
           row |-> IF ask[q].aggr = "none" THEN <<x>> ELSE <<>>]
  BY <1>2 DEF KeyOf
<1>6. (IF ask[q].aggr = "none" THEN <<x>> ELSE <<>>) \in {<<>>} \cup {<<y>> : y \in Right(q)}
  BY <1>4
<1> QED
  BY <1>3, <1>4, <1>5, <1>6 DEF KeysOf

(* What a series fetches is of its table, in its order, and a page of it   *)
(* by the ranks of the rows.                                               *)
LEMMA SeriesFetches ==
    ASSUME NEW q \in Requests, DataInv, stable[q] \subseteq rows,
           ask[q].op \in SeriesOps, NEW tb \in Mine(q),
           Head(work[q]).tables = <<tb>>, Head(work[q]).ids = ask[q].ids,
           NEW s \in Results(q)
    PROVE  FetchedOf(q, Head(work[q]), s)
<1> DEFINE st == Head(work[q])  r == ask[q]  X == Asking1(q, tb)
           off == r.offset  lim == Limit(r)
<1>1. /\ IsFiniteSet(X)
      /\ \A x \in X : IsRow(x) /\ x \in Right(q) /\ Table(q, x.type) = tb
      /\ \E t \in Orders(r, X) : s = Page(r, t)
  BY SeriesResults
<1>2. PICK t \in Orders(r, X) : s = Page(r, t)
  BY <1>1
<1>3. r.aggr \in {"none", "period", "total"} /\ off \in Nat /\ lim \in Nat
      /\ Limit(r) = lim /\ r.offset = off
  BY AskedFor
<1>20. \A x \in X : x \in rows /\ x.table = tb /\ Where(conf, r, x)
  BY DEF Asking1
<1>21. \A x \in stable[q] : InScope(q, x) /\ x.table = tb => x \in X
  BY DEF Asking1, InScope
<1>22. st.tables = <<tb>> /\ st.ids = r.ids
  OBVIOUS
<1>23. Keys(r, X) \subseteq KeysOf(q)
  BY <1>1, KeysAreOf
<1>24. \A k, x : IsSeries(q) /\ Paged(q) /\ k \in 1..Len(t) /\ x \in X /\ t[k] = KeyOf(r, x)
            => Rank(q, x) = k
  BY <1>1, PlaceIsRank DEF IsSeries, Paged
<1>25. IsSeries(q) => r.aggr = "none"
  BY DEF IsSeries
<1> HIDE DEF X, off, lim, st
<1>4. /\ t \in Seq(Keys(r, X))
      /\ \A k \in Keys(r, X) : \E i \in 1..Len(t) : t[i] = k
      /\ \A i, j \in 1..Len(t) : i # j => t[i] # t[j]
      /\ r.aggr = "none" => \A i, j \in 1..Len(t) : i < j =>
            IF r.lastN = 0 THEN t[i].time <= t[j].time ELSE t[i].time >= t[j].time
  <2>1. /\ r.aggr \in {"none", "period", "total"} /\ IsFiniteSet(X)
        /\ \A x \in X : IsRow(x)
        /\ t \in Orders(r, X)
    BY <1>1, <1>3
  <2> HIDE DEF r
  <2> QED
    BY <2>1, OrdersAre
<1>5. /\ \A k \in Keys(r, X) : \E x \in X : k = KeyOf(r, x)
      /\ r.aggr = "none" => \A x \in X : KeyOf(r, x) \in Keys(r, X)
  BY <1>1, <1>3, KeysAre
<1>6. /\ s \in Seq(Keys(r, X)) /\ Len(s) <= lim
      /\ \A k \in 1..Len(s) : off + k \in 1..Len(t) /\ s[k] = t[off + k]
      /\ \A k \in 1..lim : off + k <= Len(t) => k \in 1..Len(s)
  <2>1. s = Window(t, off, lim)
    BY <1>2, <1>3 DEF Page
  <2> PICK K : K = Keys(r, X)
    OBVIOUS
  <2> PICK from : from = off
    OBVIOUS
  <2> PICK most : most = lim
    OBVIOUS
  <2> DEFINE w == Window(t, from, most)
  <2>2. t \in Seq(K) /\ from \in Nat /\ most \in Nat
    BY <1>3, <1>4
  <2>3. /\ w \in Seq(K) /\ Len(w) <= most
        /\ \A k \in 1..Len(w) : from + k \in 1..Len(t) /\ w[k] = t[from + k]
        /\ \A k \in 1..most : from + k <= Len(t) => k \in 1..Len(w)
    BY ONLY <2>2, WindowFacts
  <2>4. s = w
    BY <2>1
  <2> HIDE DEF w
  <2> QED
    BY <2>3, <2>4
<1>7. Len(s) \in Nat /\ Len(t) \in Nat
  BY <1>4, <1>6
<1>8. \A k \in 1..Len(s) : \E x \in X : s[k] = KeyOf(r, x)
  BY <1>5, <1>6
<1>9. \A x \in X : /\ KeyOf(r, x).type = x.type /\ KeyOf(r, x).id = x.id
                   /\ r.aggr = "none" => /\ KeyOf(r, x).time = x.time
                                         /\ KeyOf(r, x).row = <<x>>
                   /\ \A y : KeyOf(r, x).row = <<y>> => y = x /\ r.aggr = "none"
  <2> SUFFICES ASSUME NEW x \in X
               PROVE  /\ KeyOf(r, x).type = x.type /\ KeyOf(r, x).id = x.id
                      /\ r.aggr = "none" => /\ KeyOf(r, x).time = x.time
                                            /\ KeyOf(r, x).row = <<x>>
                      /\ \A y : KeyOf(r, x).row = <<y>> => y = x /\ r.aggr = "none"
    OBVIOUS
  <2>1. KeyOf(r, x).row = IF r.aggr = "none" THEN <<x>> ELSE <<>>
    BY DEF KeyOf
  <2>2. \A y : <<>> # <<y>> /\ (<<x>> = <<y>> => y = x)
    OBVIOUS
  <2>3. \A y : KeyOf(r, x).row = <<y>> => y = x /\ r.aggr = "none"
    BY <2>1, <2>2
  <2> QED
    BY <2>1, <2>3 DEF KeyOf
<1>10. Drawn(q, st, s)
  <2>1. s \in Seq(KeysOf(q))
    BY <1>6, <1>23
  <2>2. ASSUME NEW k \in 1..Len(s)
        PROVE  /\ st.ids # <<>> => s[k].id \in ToSet(st.ids)
               /\ Table(q, s[k].type) \in ToSet(st.tables)
               /\ \A y \in AllRows : s[k].row = <<y>> => y.table = Table(q, s[k].type)
    <3>1. PICK x \in X : s[k] = KeyOf(r, x)
      BY <1>8
    <3>2. s[k].type = x.type /\ s[k].id = x.id /\ Table(q, s[k].type) = tb
      BY <1>1, <1>9, <3>1
    <3>3. tb \in ToSet(<<tb>>)
      BY DEF ToSet
    <3>4. r.ids # <<>> => x.id \in ToSet(r.ids)
      BY <1>20 DEF Where
    <3>5. \A y : s[k].row = <<y>> => y.table = tb
      BY <1>9, <1>20, <3>1
    <3> QED
      BY <1>22, <3>2, <3>3, <3>4, <3>5
  <2> QED
    BY <2>1, <2>2 DEF Drawn
<1>11. ASSUME IsSeries(q)
       PROVE  SeriesDrawn(q, st, s)
  <2>1. r.aggr = "none"
    BY <1>11, <1>25
  <2>2. ASSUME NEW i \in 1..Len(s), NEW j \in 1..Len(s), i < j
        PROVE  Before(q, s[i], s[j])
    <3>1. off + i \in 1..Len(t) /\ off + j \in 1..Len(t) /\ off + i < off + j
          /\ s[i] = t[off + i] /\ s[j] = t[off + j]
      BY <1>3, <1>6, <2>2
    <3> QED
      BY <1>4, <2>1, <3>1 DEF Before
  <2>3. \A y \in RowsOf(s) : \E k \in 1..Len(s) : y \in X /\ s[k] = KeyOf(r, y)
    <3> SUFFICES ASSUME NEW y \in RowsOf(s)
                 PROVE  \E k \in 1..Len(s) : y \in X /\ s[k] = KeyOf(r, y)
      OBVIOUS
    <3>1. DOMAIN s = 1..Len(s)
      BY <1>6
    <3>2. PICK k \in 1..Len(s) : s[k].row = <<y>>
      BY <3>1 DEF RowsOf
    <3>3. PICK x \in X : s[k] = KeyOf(r, x)
      BY <1>8
    <3> QED
      BY <1>9, <3>2, <3>3
  <2>4. \A x \in X : \A k \in 1..Len(s) : s[k] = KeyOf(r, x) => x \in RowsOf(s)
    <3>1. \A x \in X : x \in AllRows
      BY <1>1 DEF Right
    <3>2. DOMAIN s = 1..Len(s)
      BY <1>6
    <3> QED
      BY <1>9, <2>1, <3>1, <3>2 DEF RowsOf
  <2>5. Fits(q, RowsOf(s))
    <3> SUFFICES ASSUME Paged(q), NEW y \in RowsOf(s)
                 PROVE  y \in rows /\ OnPage(q, Rank(q, y))
      BY DEF Fits
    <3>1. PICK k \in 1..Len(s) : y \in X /\ s[k] = KeyOf(r, y)
      BY <2>3
    <3>2. off + k \in 1..Len(t) /\ t[off + k] = KeyOf(r, y)
      BY <1>6, <3>1
    <3>3. Rank(q, y) = off + k
      BY <1>11, <1>24, <3>1, <3>2
    <3>4. y \in rows
      BY <1>20, <3>1
    <3> QED
      BY <1>3, <1>6, <1>7, <3>3, <3>4 DEF OnPage
  <2>6. ASSUME NEW x \in stable[q], InScope(q, x), st.tables = <<x.table>>
        PROVE  Shows(q, RowsOf(s), x)
    <3>1. x.table = tb
      BY <1>22, <2>6
    <3>2. x \in X
      BY <1>21, <2>6, <3>1
    <3>3. PICK k \in 1..Len(t) : t[k] = KeyOf(r, x)
      BY <1>4, <1>5, <2>1, <3>2
    <3>4. off < k /\ k <= off + lim => x \in RowsOf(s)
      <4> SUFFICES ASSUME off < k, k <= off + lim PROVE x \in RowsOf(s)
        OBVIOUS
      <4>1. k - off \in 1..lim /\ off + (k - off) = k /\ k <= Len(t)
        BY <1>3, <1>7
      <4>2. k - off \in 1..Len(s)
        BY <1>6, <4>1
      <4>3. s[k - off] = t[k]
        BY <1>6, <4>1, <4>2
      <4> QED
        BY <2>4, <3>2, <3>3, <4>2, <4>3
    <3>5. Paged(q) /\ OnPage(q, Rank(q, x)) => x \in RowsOf(s)
      BY <1>3, <1>11, <1>24, <3>2, <3>3, <3>4 DEF OnPage
    <3>6. ASSUME off = 0
          PROVE  Covers(q, RowsOf(s), x)
      <4> DEFINE of == {y \in RowsOf(s) : y.table = x.table}
      <4>1. CASE k <= lim
        BY <1>3, <1>7, <3>4, <3>6, <4>1 DEF Covers
      <4>2. CASE k > lim
        <5>1. Len(s) = lim
          <6>1. lim # 0 => lim \in 1..lim /\ off + lim <= Len(t)
            BY <1>3, <1>7, <3>6, <4>2
          <6> QED
            BY <1>3, <1>6, <1>7, <6>1
        <5>2. \A y \in RowsOf(s) : y.table = x.table
          BY <1>20, <2>3, <3>1
        <5> DEFINE f == [i \in 1..Len(s) |-> s[i].row[1]]
        <5>3. \A i \in 1..Len(s) : \A y \in X : s[i] = KeyOf(r, y) => f[i] = y
          <6> SUFFICES ASSUME NEW i \in 1..Len(s), NEW y \in X, s[i] = KeyOf(r, y)
                       PROVE  f[i] = y
            OBVIOUS
          <6>1. s[i].row = <<y>>
            BY <1>9, <2>1
          <6> QED
            BY <6>1
        <5>4. \A i \in 1..Len(s) : f[i] \in RowsOf(s) /\ f[i] \in X /\ s[i] = KeyOf(r, f[i])
          <6> SUFFICES ASSUME NEW i \in 1..Len(s)
                       PROVE  f[i] \in RowsOf(s) /\ f[i] \in X /\ s[i] = KeyOf(r, f[i])
            OBVIOUS
          <6>1. PICK y \in X : s[i] = KeyOf(r, y)
            BY <1>8
          <6>2. f[i] = y
            BY <5>3, <6>1
          <6> HIDE DEF f
          <6> QED
            BY <2>4, <6>1, <6>2
        <5>5. f = [i \in 1..Len(s) |-> f[i]]
          OBVIOUS
        <5> HIDE DEF f
        <5>6. ASSUME NEW i \in 1..Len(s), NEW j \in 1..Len(s), f[i] = f[j], i # j
              PROVE  FALSE
          <6>1. s[i] = s[j]
            BY <5>4, <5>6
          <6>2. t[off + i] = t[off + j] /\ off + i # off + j
                /\ off + i \in 1..Len(t) /\ off + j \in 1..Len(t)
            BY <1>3, <1>6, <5>6, <6>1
          <6> QED
            BY <1>4, <6>2
        <5>7. \A y \in RowsOf(s) : \E i \in 1..Len(s) : f[i] = y
          BY <2>3, <5>3
        <5>8. Counts(f, Len(s), RowsOf(s))
          <6>1. f \in [1..Len(s) -> RowsOf(s)]
            BY <5>4, <5>5
          <6>2. \A i, j \in 1..Len(s) : i # j => f[i] # f[j]
            BY <5>6
          <6> QED
            BY <5>7, <6>1, <6>2 DEF Counts
        <5>9. Cardinality(RowsOf(s)) = lim
          BY <1>7, <5>1, <5>8, CountedBy
        <5>10. ASSUME NEW y \in RowsOf(s)
               PROVE  Before(q, y, x)
          <6>1. PICK i \in 1..Len(s) : y \in X /\ s[i] = KeyOf(r, y)
            BY <2>3
          <6>2. i \in 1..Len(t) /\ t[i] = KeyOf(r, y) /\ i < k
            BY <1>3, <1>6, <1>7, <3>6, <4>2, <6>1
          <6>3. t[i].time = y.time /\ t[k].time = x.time
            BY <1>9, <2>1, <3>2, <3>3, <6>1, <6>2
          <6> QED
            BY <1>4, <2>1, <6>2, <6>3 DEF Before
        <5>11. {y \in RowsOf(s) : y.table = x.table} = RowsOf(s)
          BY <5>2
        <5> QED
          BY <1>3, <5>9, <5>10, <5>11 DEF Covers
      <4> QED
        BY <1>3, <1>7, <4>1, <4>2
    <3> QED
      BY <1>3, <3>5, <3>6 DEF Shows
  <2> QED
    BY <2>2, <2>5, <2>6 DEF SeriesDrawn
<1>12. ask[q].op # "op" /\ ask[q].op # "NTNE"
  BY DEF SeriesOps
<1> QED
  BY <1>10, <1>11, <1>12 DEF FetchedOf, st

-----------------------------------------------------------------------------
(* What the statements for the latest values and for the entities fetch.   *)
NewestOf(q) == UNION {Newest(Matching(q, tb)) : tb \in ToSet(Head1(q).tables)}

LEMMA AskedWhere ==
    ASSUME NEW q \in Requests, DataInv, NEW x,
           \/ Head(work[q]).ids = ask[q].ids
           \/ \E i \in ToSet(ask[q].ids) : Head(work[q]).ids = <<i>>
    PROVE  /\ Where(conf, Asked(q), x) => Where(conf, ask[q], x)
           /\ Where(conf, ask[q], x) /\ (Head(work[q]).ids # <<>> =>
                    x.id \in ToSet(Head(work[q]).ids)) => Where(conf, Asked(q), x)
           /\ Where(conf, Asked(q), x) /\ Head(work[q]).ids # <<>> =>
                    x.id \in ToSet(Head(work[q]).ids)
<1> DEFINE ids == Head(work[q]).ids  r == Asked(q)
<1>1. ask[q] \in Asks
  BY DEF DataInv, IsRequest
<1>2. /\ r.ids = ids /\ r.since = ask[q].since /\ r.path = ask[q].path
      /\ r.geo = ask[q].geo /\ r.until = ask[q].until /\ r.pattern = ask[q].pattern
  BY <1>1 DEF Asked, Head1, Asks
<1> HIDE DEF r
<1>3. Where(conf, r, x) <=>
        /\ ids = <<>> \/ x.id \in ToSet(ids)
        /\ x.time >= ask[q].since
        /\ ask[q].until = -1 \/ x.time <= ask[q].until
        /\ UnderPath(conf.anchored, ask[q].path, x.path) /\ x.id \in ask[q].pattern
        /\ GeoClause(conf.backend, ask[q].geo, x.place)
  BY <1>2 DEF Where
<1>4. Where(conf, ask[q], x) <=>
        /\ ask[q].ids = <<>> \/ x.id \in ToSet(ask[q].ids)
        /\ x.time >= ask[q].since
        /\ ask[q].until = -1 \/ x.time <= ask[q].until
        /\ UnderPath(conf.anchored, ask[q].path, x.path) /\ x.id \in ask[q].pattern
        /\ GeoClause(conf.backend, ask[q].geo, x.place)
  BY DEF Where
<1>5. (ids = <<>> \/ x.id \in ToSet(ids)) => (ask[q].ids = <<>> \/ x.id \in ToSet(ask[q].ids))
  <2>1. CASE ids = ask[q].ids
    BY <2>1
  <2>2. CASE \E i \in ToSet(ask[q].ids) : ids = <<i>>
    <3>1. PICK i \in ToSet(ask[q].ids) : ids = <<i>>
      BY <2>2
    <3>2. ToSet(<<i>>) = {i} /\ <<i>> # <<>>
      BY DEF ToSet
    <3> HIDE DEF ids
    <3>3. ids # <<>> /\ ToSet(ids) = {i}
      BY <3>1, <3>2
    <3> QED
      BY <3>1, <3>3
  <2> QED
    BY <2>1, <2>2
<1> QED
  BY <1>3, <1>4, <1>5 DEF r

LEMMA NewestFacts ==
    ASSUME NEW q \in Requests, DataInv, Head(work[q]) \in StatementsOf(q)
    PROVE  /\ IsFiniteSet(NewestOf(q))
           /\ \A y \in NewestOf(q) :
                /\ IsRow(y) /\ y \in Right(q) /\ Table(q, y.type) = y.table
                /\ y.table \in ToSet(Head(work[q]).tables)
                /\ Head(work[q]).ids # <<>> => y.id \in ToSet(Head(work[q]).ids)
           /\ \A x \in rows :
                /\ x.table \in ToSet(Head(work[q]).tables) /\ Where(conf, ask[q], x)
                /\ Head(work[q]).ids # <<>> => x.id \in ToSet(Head(work[q]).ids)
                => \E y \in NewestOf(q) : y.id = x.id /\ y.type = x.type /\ y.time >= x.time
<1> DEFINE st == Head(work[q])
<1>1. \/ st.ids = ask[q].ids
      \/ \E i \in ToSet(ask[q].ids) : st.ids = <<i>>
  BY DEF StatementsOf
<1>2. \A tb \in ToSet(st.tables) : tb \in Mine(q)
  <2>1. st.tables \in Seq(Mine(q))
    BY DEF StatementsOf
  <2> HIDE DEF st
  <2> QED
    BY <2>1, MembersOf
<1>3. \A y \in NewestOf(q) : \E tb \in ToSet(st.tables) : y \in Newest(Matching(q, tb))
  BY DEF NewestOf, Head1
<1>4. ASSUME NEW y \in NewestOf(q)
      PROVE  /\ IsRow(y) /\ y \in Right(q) /\ Table(q, y.type) = y.table
             /\ y.table \in ToSet(st.tables) /\ y \in rows
             /\ st.ids # <<>> => y.id \in ToSet(st.ids)
  <2>1. PICK tb \in ToSet(st.tables) : y \in Newest(Matching(q, tb))
    BY <1>3
  <2>2. y \in rows /\ y.table = tb /\ Where(conf, Asked(q), y)
    BY <2>1 DEF Newest, Matching
  <2>3. IsRow(y) /\ y \in AllRows
    BY <2>2 DEF DataInv
  <2>4. y.table.tenant = Tenant(q)
    BY <1>2, <2>2 DEF Mine
  <2>5. Where(conf, ask[q], y) /\ (st.ids # <<>> => y.id \in ToSet(st.ids))
    BY <1>1, <2>2, AskedWhere
  <2> QED
    BY <2>2, <2>3, <2>4, <2>5, RowOfTenant DEF Right
<1>5. IsFiniteSet(rows)
  BY FS_Subset DEF DataInv
<1>6. IsFiniteSet(NewestOf(q))
  BY <1>4, <1>5, FS_Subset
<1>7. ASSUME NEW x \in rows, x.table \in ToSet(st.tables), Where(conf, ask[q], x),
             st.ids # <<>> => x.id \in ToSet(st.ids)
      PROVE  \E y \in NewestOf(q) : y.id = x.id /\ y.type = x.type /\ y.time >= x.time
  <2> DEFINE M == Matching(q, x.table)
             L == {y \in M : y.id = x.id /\ y.type = x.type}
             N == {y.time : y \in L}
  <2>1. x \in M /\ M \subseteq rows
    BY <1>1, <1>7, AskedWhere DEF Matching
  <2>2. IsFiniteSet(L)
    BY <1>5, <2>1, FS_Subset
  <2>3. N \subseteq Nat /\ N # {}
    BY <2>1 DEF DataInv, IsRow
  <2>4. IsFiniteSet(N)
    <3> DEFINE f == [y \in L |-> y.time]
    <3>1. \A n \in N : \E y \in L : n = f[y]
      OBVIOUS
    <3> HIDE DEF L, N, f
    <3> QED
      BY <2>2, <3>1, ImageFinite
  <2>5. \E m \in N : \A k \in N : k <= m
    <3> HIDE DEF N
    <3> QED
      BY <2>3, <2>4, GreatestOf
  <2>6. PICK y \in L : \A z \in L : z.time <= y.time
    BY <2>5
  <2>7. y \in Newest(M)
    BY <2>6 DEF Newest
  <2>8. y \in NewestOf(q)
    BY <1>7, <2>7 DEF NewestOf, Head1
  <2>9. x \in L /\ x.time \in Nat /\ y.time \in Nat
    BY <2>1 DEF DataInv, IsRow
  <2>10. y.time >= x.time
    BY <2>6, <2>9
  <2> QED
    BY <2>8, <2>10
<1> QED
  BY <1>4, <1>6, <1>7

(* The entries of a listing, the latest first.                             *)
LEMMA EntriesAre ==
    ASSUME NEW X, IsFiniteSet(X), NEW t \in LatestFirst(X)
    PROVE  /\ t \in Seq(X) /\ \A x \in X : \E k \in 1..Len(t) : t[k] = x
           /\ \A i, j \in 1..Len(t) : i # j => t[i] # t[j]
           /\ \A i, j \in 1..Len(t) : i < j => t[i].time >= t[j].time
<1> DEFINE R == {p \in X \X X : p[1].time >= p[2].time}
<1>1. t \in SortedBy(X, R)
  BY DEF LatestFirst
<1>2. \A x, y : <<x, y>> \in R => x.time >= y.time
  OBVIOUS
<1> HIDE DEF R
<1>3. /\ t \in Seq(X) /\ \A x \in X : \E k \in 1..Len(t) : t[k] = x
      /\ \A i, j \in 1..Len(t) : i # j => t[i] # t[j]
      /\ \A i, j \in 1..Len(t) : i < j => <<t[i], t[j]>> \in R
  BY <1>1, SortedFacts
<1> QED
  BY <1>2, <1>3

LEMMA LatestFetches ==
    ASSUME NEW q \in Requests, DataInv, stable[q] \subseteq rows, ask[q].op = "op",
           Head(work[q]) \in StatementsOf(q), IdsEach(q, work[q]), work[q] # <<>>,
           work[q] \in Seq(StatementsOf(q)), NEW s \in Results(q)
    PROVE  FetchedOf(q, Head(work[q]), s)
<1> DEFINE st == Head(work[q])  N == NewestOf(q)
           P == {Plain(x, <<x>>) : x \in N}
           f == [x \in N |-> Plain(x, <<x>>)]
<1>1. /\ IsFiniteSet(N)
      /\ \A y \in N : /\ IsRow(y) /\ y \in Right(q) /\ Table(q, y.type) = y.table
                      /\ y.table \in ToSet(st.tables)
                      /\ st.ids # <<>> => y.id \in ToSet(st.ids)
      /\ \A x \in rows :
            /\ x.table \in ToSet(st.tables) /\ Where(conf, ask[q], x)
            /\ st.ids # <<>> => x.id \in ToSet(st.ids)
            => \E y \in N : y.id = x.id /\ y.type = x.type /\ y.time >= x.time
  BY NewestFacts
<1>2. PICK t : t \in LatestFirst(P) /\ s = Window(t, 0, HardLimit)
  <2>1. Handler(q).call = "last_value"
    BY QueryHandlers
  <2> QED
    BY <2>1 DEF Results, NewestOf
<1>3. IsFiniteSet(P)
  <2>1. \A p \in P : \E x \in N : p = f[x]
    OBVIOUS
  <2> HIDE DEF P, N, f
  <2> QED
    BY <1>1, <2>1, ImageFinite
<1>4. \A p \in P : \E x \in N : p = Plain(x, <<x>>)
  OBVIOUS
<1>5. \A x \in N : Plain(x, <<x>>) \in P
  OBVIOUS
<1>6. \A x \in N : /\ Plain(x, <<x>>) \in KeysOf(q)
                   /\ Plain(x, <<x>>).type = x.type /\ Plain(x, <<x>>).id = x.id
                   /\ Plain(x, <<x>>).time = x.time /\ Plain(x, <<x>>).row = <<x>>
  <2> SUFFICES ASSUME NEW x \in N
               PROVE  /\ Plain(x, <<x>>) \in KeysOf(q)
                      /\ Plain(x, <<x>>).type = x.type /\ Plain(x, <<x>>).id = x.id
                      /\ Plain(x, <<x>>).time = x.time /\ Plain(x, <<x>>).row = <<x>>
    OBVIOUS
  <2>1. x.type \in DOMAIN Lower /\ x.id \in Nat /\ x.time \in Nat /\ x \in Right(q)
    BY <1>1 DEF IsRow
  <2>2. <<x>> \in {<<>>} \cup {<<y>> : y \in Right(q)} /\ x.time \in Int
    BY <2>1
  <2> QED
    BY <2>1, <2>2 DEF Plain, KeysOf
<1>7. /\ st.tables = InOrder({Table(q, ask[q].type)})
      /\ \E i \in ToSet(ask[q].ids) : st.ids = <<i>>
  <2>1. 1 \in 1..Len(work[q]) /\ st = work[q][1]
    OBVIOUS
  <2> QED
    BY <2>1 DEF IdsEach
<1> HIDE DEF P, N, f, st
<1>8. /\ s \in Seq(P) /\ \A i, j \in 1..Len(s) : i < j => s[i].time >= s[j].time
      /\ \A x \in P : 1 \in 1..Len(s) /\ s[1].time >= x.time
  <2>1. /\ t \in Seq(P) /\ \A x \in P : \E k \in 1..Len(t) : t[k] = x
        /\ \A i, j \in 1..Len(t) : i < j => t[i].time >= t[j].time
    BY <1>2, <1>3, EntriesAre
  <2> DEFINE w == Window(t, 0, HardLimit)
  <2>2. HardLimit \in Nat \ {0} /\ 0 \in Nat
    BY LimitAssumption
  <2>3. /\ w \in Seq(P)
        /\ \A k \in 1..Len(w) : 0 + k \in 1..Len(t) /\ w[k] = t[0 + k]
        /\ \A k \in 1..HardLimit : 0 + k <= Len(t) => k \in 1..Len(w)
    BY <2>1, <2>2, WindowFacts
  <2>4. s = w
    BY <1>2
  <2> HIDE DEF w
  <2>5. \A k \in 1..Len(s) : k \in 1..Len(t) /\ s[k] = t[k]
    BY <2>3, <2>4
  <2>6. ASSUME NEW x \in P
        PROVE  1 \in 1..Len(s) /\ s[1].time >= x.time
    <3>1. PICK k \in 1..Len(t) : t[k] = x
      BY <2>1
    <3>2. Len(t) \in Nat /\ 1 <= Len(t) /\ 1 <= k
      BY <2>1, <3>1
    <3>3. 1 \in 1..Len(s) /\ s[1] = t[1]
      BY <2>2, <2>3, <2>4, <2>5, <3>2
    <3>4. x.time \in Int
      <4>1. PICK y \in N : x = Plain(y, <<y>>)
        BY <1>4
      <4> QED
        BY <1>1, <1>6, <4>1 DEF IsRow
    <3>5. CASE k = 1
      <4>1. s[1] = x
        BY <3>1, <3>3, <3>5
      <4> QED
        BY <3>3, <3>4, <4>1
    <3>6. CASE k # 1
      <4>1. 1 \in 1..Len(t) /\ 1 < k
        BY <3>2, <3>6
      <4>2. t[1].time >= t[k].time
        BY ONLY <2>1, <3>1, <4>1
      <4> QED
        BY <3>1, <3>3, <4>2, Zenon
    <3> QED
      BY <3>5, <3>6
  <2>7. s \in Seq(P)
    BY <2>3, <2>4
  <2>8. ASSUME NEW i \in 1..Len(s), NEW j \in 1..Len(s), i < j
        PROVE  s[i].time >= s[j].time
    <3>1. i \in 1..Len(t) /\ j \in 1..Len(t) /\ s[i] = t[i] /\ s[j] = t[j]
      BY <2>5
    <3>2. t[i].time >= t[j].time
      BY ONLY <2>1, <2>8, <3>1
    <3> QED
      BY <3>1, <3>2, Zenon
  <2>9. \A i, j \in 1..Len(s) : i < j => s[i].time >= s[j].time
    BY ONLY <2>8, Zenon
  <2>10. \A x \in P : 1 \in 1..Len(s) /\ s[1].time >= x.time
    BY ONLY <2>6, Zenon
  <2> QED
    BY <2>7, <2>9, <2>10
<1>9. \A k \in 1..Len(s) : \E x \in N : s[k] = Plain(x, <<x>>)
  BY <1>4, <1>8
<1>10. Drawn(q, st, s)
  <2>1. s \in Seq(KeysOf(q))
    <3>1. P \subseteq KeysOf(q)
      BY <1>4, <1>6
    <3> QED
      BY <1>8, <3>1
  <2>2. ASSUME NEW k \in 1..Len(s)
        PROVE  /\ st.ids # <<>> => s[k].id \in ToSet(st.ids)
               /\ Table(q, s[k].type) \in ToSet(st.tables)
               /\ \A y \in AllRows : s[k].row = <<y>> => y.table = Table(q, s[k].type)
    <3>1. PICK x \in N : s[k] = Plain(x, <<x>>)
      BY <1>9
    <3>2. s[k].id = x.id /\ s[k].type = x.type /\ s[k].row = <<x>>
      BY <1>6, <3>1
    <3>3. \A y : <<x>> = <<y>> => y = x
      OBVIOUS
    <3> QED
      BY <1>1, <3>2, <3>3
  <2> QED
    BY <2>1, <2>2 DEF Drawn
<1>11. ASSUME NEW x \in stable[q], InScope(q, x), x.id \in ToSet(st.ids)
       PROVE  \E k \in 1..Len(s) : s[k].time >= x.time
  <2>1. x \in rows /\ IsRow(x) /\ x \in AllRows /\ Where(conf, ask[q], x)
    BY <1>11 DEF DataInv, InScope
  <2>2. x.table = Table(q, ask[q].type) /\ x.table \in AllTables
    BY <1>11, <2>1, AskedFor DEF InScope, IsRow
  <2>3. x.table \in ToSet(st.tables)
    <3>1. ToSet(InOrder({Table(q, ask[q].type)})) = AllTables \cap {Table(q, ask[q].type)}
      BY InOrderFacts
    <3> QED
      BY <1>7, <2>2, <3>1
  <2>4. PICK y \in N : y.id = x.id /\ y.type = x.type /\ y.time >= x.time
    BY <1>1, <1>11, <2>1, <2>3
  <2>5. 1 \in 1..Len(s) /\ s[1].time >= Plain(y, <<y>>).time
    BY <1>5, <1>8
  <2>6. 1 \in 1..Len(s) /\ s[1].time >= y.time
    BY <1>6, <2>5
  <2>7. \E j \in 1..Len(s) : s[1] = s[j]
    BY <2>6
  <2>8. s[1].time \in Int /\ y.time \in Int /\ x.time \in Int
    <3>1. PICK z \in N : s[1] = Plain(z, <<z>>)
      BY <1>9, <2>6
    <3> QED
      BY <1>1, <1>6, <2>1, <3>1 DEF IsRow
  <2> QED
    BY <2>4, <2>6, <2>8
<1>12. LatestDrawn(q, st, s)
  BY <1>8, <1>11 DEF LatestDrawn
<1>13. ask[q].op \notin SeriesOps /\ ask[q].op # "NTNE"
  BY DEF SeriesOps
<1> QED
  BY <1>10, <1>12, <1>13 DEF FetchedOf, IsSeries, st

LEMMA ListingFetches ==
    ASSUME NEW q \in Requests, DataInv, stable[q] \subseteq rows, ask[q].op = "NTNE",
           Head(work[q]) \in StatementsOf(q), NEW s \in Results(q)
    PROVE  FetchedOf(q, Head(work[q]), s)
<1> DEFINE st == Head(work[q])  N == NewestOf(q)
           P == {Plain(x, <<>>) : x \in N}
           f == [x \in N |-> Plain(x, <<>>)]
           lim == IdLimit(ask[q])
<1>1. /\ IsFiniteSet(N)
      /\ \A y \in N : /\ IsRow(y) /\ y \in Right(q) /\ Table(q, y.type) = y.table
                      /\ y.table \in ToSet(st.tables)
                      /\ st.ids # <<>> => y.id \in ToSet(st.ids)
      /\ \A x \in rows :
            /\ x.table \in ToSet(st.tables) /\ Where(conf, ask[q], x)
            /\ st.ids # <<>> => x.id \in ToSet(st.ids)
            => \E y \in N : y.id = x.id /\ y.type = x.type /\ y.time >= x.time
  BY NewestFacts
<1>2. ask[q].ids = <<>> /\ ask[q].offset \in Nat /\ lim \in Nat
      /\ [ask[q] EXCEPT !.ids = ask[q].ids] = ask[q]
  BY AskedFor
<1>3. st.ids = <<>>
  <2>1. ToSet(<<>>) = {}
    BY DEF ToSet
  <2> QED
    BY <1>2, <2>1 DEF StatementsOf
<1>4. Asked(q) = ask[q]
  BY <1>2, <1>3 DEF Asked, Head1
<1>5. PICK t : t \in LatestFirst(P) /\ s = Window(t, ask[q].offset, lim)
  <2>1. Handler(q).call = "ids"
    BY QueryHandlers
  <2> QED
    BY <1>4, <2>1 DEF Results, NewestOf
<1>6. IsFiniteSet(P)
  <2>1. \A p \in P : \E x \in N : p = f[x]
    OBVIOUS
  <2> HIDE DEF P, N, f
  <2> QED
    BY <1>1, <2>1, ImageFinite
<1>7. \A p \in P : \E x \in N : p = Plain(x, <<>>)
  OBVIOUS
<1>8. \A x \in N : Plain(x, <<>>) \in P
  OBVIOUS
<1>9. \A x \in N : /\ Plain(x, <<>>) \in KeysOf(q)
                   /\ Plain(x, <<>>).type = x.type /\ Plain(x, <<>>).id = x.id
                   /\ Plain(x, <<>>).row = <<>>
  <2> SUFFICES ASSUME NEW x \in N
               PROVE  /\ Plain(x, <<>>) \in KeysOf(q)
                      /\ Plain(x, <<>>).type = x.type /\ Plain(x, <<>>).id = x.id
                      /\ Plain(x, <<>>).row = <<>>
    OBVIOUS
  <2>1. x.type \in DOMAIN Lower /\ x.id \in Nat /\ x.time \in Int
    BY <1>1 DEF IsRow
  <2> QED
    BY <2>1 DEF Plain, KeysOf
<1> HIDE DEF P, N, f, st, lim
<1>10. /\ t \in Seq(P) /\ \A x \in P : \E k \in 1..Len(t) : t[k] = x
       /\ \A i, j \in 1..Len(t) : i # j => t[i] # t[j]
  BY <1>5, <1>6, EntriesAre
<1>11. /\ s \in Seq(P) /\ Len(s) <= lim
       /\ \A k \in 1..Len(s) : /\ ask[q].offset + k \in 1..Len(t)
                               /\ s[k] = t[ask[q].offset + k]
       /\ \A k \in 1..lim : ask[q].offset + k <= Len(t) => k \in 1..Len(s)
  <2> DEFINE off == ask[q].offset  w == Window(t, off, lim)
  <2>1. off \in Nat /\ lim \in Nat /\ t \in Seq(P)
    BY <1>2, <1>10
  <2>2. s = w
    BY <1>5
  <2> HIDE DEF off
  <2>3. /\ w \in Seq(P) /\ Len(w) <= lim
        /\ \A k \in 1..Len(w) : off + k \in 1..Len(t) /\ w[k] = t[off + k]
        /\ \A k \in 1..lim : off + k <= Len(t) => k \in 1..Len(w)
    BY <2>1, WindowFacts
  <2> HIDE DEF w
  <2> QED
    BY <2>2, <2>3 DEF off
<1>12. Len(s) \in Nat /\ Len(t) \in Nat
  BY <1>10, <1>11
<1>13. \A k \in 1..Len(s) : \E x \in N : s[k] = Plain(x, <<>>)
  BY <1>7, <1>11
<1>14. Drawn(q, st, s)
  <2>1. s \in Seq(KeysOf(q))
    <3>1. P \subseteq KeysOf(q)
      BY <1>7, <1>9
    <3> QED
      BY <1>11, <3>1
  <2>2. ASSUME NEW k \in 1..Len(s)
        PROVE  /\ st.ids # <<>> => s[k].id \in ToSet(st.ids)
               /\ Table(q, s[k].type) \in ToSet(st.tables)
               /\ \A y \in AllRows : s[k].row = <<y>> => y.table = Table(q, s[k].type)
    <3>1. PICK x \in N : s[k] = Plain(x, <<>>)
      BY <1>13
    <3>2. s[k].id = x.id /\ s[k].type = x.type /\ s[k].row = <<>>
      BY <1>9, <3>1
    <3>3. \A y : <<>> # <<y>>
      OBVIOUS
    <3> QED
      BY <1>1, <1>3, <3>2, <3>3
  <2> QED
    BY <2>1, <2>2 DEF Drawn
<1>15. ASSUME NEW x \in stable[q], InScope(q, x), x.table \in ToSet(st.tables),
              ask[q].offset = 0
       PROVE  \/ \E k \in 1..Len(s) : s[k].id = x.id /\ s[k].type = x.type
              \/ Len(s) = lim
  <2>1. x \in rows /\ Where(conf, ask[q], x)
    BY <1>15 DEF InScope
  <2>2. PICK y \in N : y.id = x.id /\ y.type = x.type /\ y.time >= x.time
    BY <1>1, <1>3, <1>15, <2>1
  <2>3. PICK k \in 1..Len(t) : t[k] = Plain(y, <<>>)
    BY <1>8, <1>10
  <2>4. CASE k <= lim
    <3>1. k \in 1..lim /\ 0 + k <= Len(t)
      BY <1>12, <2>4
    <3>2. k \in 1..Len(s) /\ s[k] = t[k]
      BY <1>11, <1>12, <1>15, <3>1
    <3> QED
      BY <1>9, <2>2, <2>3, <3>2
  <2>5. CASE k > lim
    <3>1. lim # 0 => lim \in 1..lim /\ 0 + lim <= Len(t)
      BY <1>2, <1>12, <2>5
    <3> QED
      BY <1>2, <1>11, <1>12, <1>15, <3>1
  <2> QED
    BY <1>2, <1>12, <2>4, <2>5
<1>16. ASSUME NEW i \in 1..Len(s), NEW j \in 1..Len(s), i # j
       PROVE  s[i] # s[j]
  <2> DEFINE off == ask[q].offset
  <2>1. off + i # off + j
    BY <1>2, <1>12, <1>16
  <2>2. /\ off + i \in 1..Len(t) /\ off + j \in 1..Len(t)
        /\ s[i] = t[off + i] /\ s[j] = t[off + j]
    BY <1>11, <1>16
  <2> HIDE DEF off
  <2> QED
    BY <1>10, <2>1, <2>2
<1>17. ListingDrawn(q, st, s)
  BY <1>15, <1>16 DEF ListingDrawn, lim
<1>18. ask[q].op \notin SeriesOps /\ ask[q].op # "op"
  BY DEF SeriesOps
<1> QED
  BY <1>14, <1>17, <1>18 DEF FetchedOf, IsSeries, st

-----------------------------------------------------------------------------
(* What the rows of a statement are formatted to.                          *)
FormatOf(q, st, s, taken, es) ==
    /\ taken \in Seq(KeysOf(q))
    /\ \A x \in ToSet(s) : Table(q, x.type) \in meta => x \in ToSet(taken)
    /\ \A x \in ToSet(taken) : /\ x \in ToSet(s) /\ x \in KeysOf(q)
                               /\ ToSet(st.tables) \cap meta # {}
    /\ es \in Seq(EntitiesOf(q))
    /\ \A e \in ToSet(es) : \E x \in ToSet(taken) :
             e = Entity(x.id, Own(taken, x.id))
    /\ \A x \in ToSet(taken) : \E e \in ToSet(es) :
             e = Entity(x.id, Own(taken, x.id))
    /\ \A i, j \in 1..Len(es) : i < j => es[i].id < es[j].id
    /\ \A e \in ToSet(es) :
         /\ Table(q, e.type) \in ToSet(st.tables) /\ Table(q, e.type) \in Mine(q)
         /\ st.ids # <<>> => e.id \in ToSet(st.ids)
    /\ RowsIn(es) \subseteq RowsOf(s)
    /\ \A y \in RowsOf(s) : y.table \in meta => y \in RowsIn(es)
LEMMA Formatted ==
    ASSUME NEW q \in Requests, NEW st \in StatementsOf(q), NEW r,
           NEW s, Drawn(q, st, s), NEW es, es = Format(r, st.tables, meta, s),
           NEW taken, taken = Taken(r, st.tables, meta, s)
    PROVE  FormatOf(q, st, s, taken, es)
<1> DEFINE K == KeysOf(q)  T == ToSet(st.tables)
<1>1. s \in Seq(K) /\ ToSet(s) = {s[k] : k \in 1..Len(s)} /\ ToSet(s) \subseteq K
  <2>1. s \in Seq(K)
    BY DEF Drawn
  <2> HIDE DEF K
  <2> QED
    BY <2>1, MembersOf
<1>2. \A x \in ToSet(s) :
            /\ st.ids # <<>> => x.id \in ToSet(st.ids)
            /\ Table(q, x.type) \in T
            /\ \A y \in AllRows : x.row = <<y>> => y.table = Table(q, x.type)
  BY <1>1 DEF Drawn
<1>3. st.tables \in Seq(Mine(q))
  BY DEF StatementsOf
<1>4. T \subseteq Mine(q)
  <2> DEFINE b == st.tables
  <2>1. b \in Seq(Mine(q))
    BY <1>3
  <2> HIDE DEF b
  <2>2. ToSet(b) \subseteq Mine(q)
    BY <2>1, MembersOf
  <2> QED
    BY <2>2 DEF b
<1>5. \A x \in K : /\ x.id \in Nat /\ x.type \in DOMAIN Lower /\ x.time \in Int
                   /\ x.row \in {<<>>} \cup {<<y>> : y \in Right(q)}
  BY DEF KeysOf
<1>6. \A x \in K : InTable(Table(q, x.type), x)
  BY <1>5, LowerAssumption DEF InTable, Table
<1>7. /\ taken \in Seq(K)
      /\ \A x : x \in ToSet(taken) <=>
            x \in ToSet(s) /\ \E tb \in T \cap meta : InTable(tb, x)
  <2> PICK b : b = st.tables
    OBVIOUS
  <2> PICK B : B = Mine(q)
    OBVIOUS
  <2> PICK known : known = meta
    OBVIOUS
  <2> PICK C : C = K
    OBVIOUS
  <2> DEFINE t == Taken(r, b, known, s)
  <2>1. b \in Seq(B) /\ s \in Seq(C)
    BY <1>1, <1>3
  <2>2. t \in Seq(C) /\ TakenFrom(s, b, known, t)
    BY ONLY <2>1, TakenFacts
  <2>3. taken = t
    OBVIOUS
  <2> HIDE DEF t
  <2> QED
    BY <2>2, <2>3 DEF TakenFrom
<1>8. \A x \in ToSet(s) : Table(q, x.type) \in meta => x \in ToSet(taken)
  BY <1>1, <1>2, <1>6, <1>7
<1>9. \A x \in ToSet(taken) : x \in ToSet(s) /\ x \in K /\ T \cap meta # {}
  BY <1>1, <1>7
<1> HIDE DEF K, T
<1>10. /\ \A k \in 1..Len(es) : \E x \in ToSet(taken) :
                    es[k] = Entity(x.id, Own(taken, x.id))
       /\ \A x \in ToSet(taken) : \E k \in 1..Len(es) :
                    es[k] = Entity(x.id, Own(taken, x.id))
       /\ es = [k \in 1..Len(es) |-> es[k]] /\ Len(es) \in Nat
       /\ \A i, j \in 1..Len(es) : i < j => es[i].id < es[j].id
  <2> DEFINE b == st.tables  t == Taken(r, b, meta, s)  f == Format(r, b, meta, s)
  <2>1. t \in Seq(K) /\ \A x \in K : x.id \in Nat
    BY <1>5, <1>7
  <2> HIDE DEF b
  <2>2. /\ \A k \in 1..Len(f) : \E x \in ToSet(t) : f[k] = Entity(x.id, Own(t, x.id))
        /\ \A x \in ToSet(t) : \E k \in 1..Len(f) : f[k] = Entity(x.id, Own(t, x.id))
        /\ f = [k \in 1..Len(f) |-> f[k]] /\ Len(f) \in Nat
        /\ \A i, j \in 1..Len(f) : i < j => f[i].id < f[j].id
    BY <2>1, FormatFacts
  <2>3. es = f /\ taken = t
    BY DEF b
  <2> HIDE DEF f, t
  <2> QED
    BY <2>2, <2>3
<1>11. ASSUME NEW x \in ToSet(taken), NEW e, e = Entity(x.id, Own(taken, x.id))
       PROVE  /\ e \in EntitiesOf(q) /\ Table(q, e.type) \in T /\ e.id = x.id
              /\ \A y \in e.rows : \E z \in ToSet(taken) : z.id = x.id /\ z.row = <<y>>
              /\ \A y : x.row = <<y>> => y \in e.rows
  <2> DEFINE own == Own(taken, x.id)
  <2>1. /\ own \in Seq(K) /\ own # <<>>
        /\ \A y : y \in ToSet(own) <=> y \in ToSet(taken) /\ y.id = x.id
        /\ e.id = x.id /\ \E y \in ToSet(own) : e.type = y.type
        /\ \A z : z \in e.rows <=> \E y \in ToSet(own) : z \in ToSet(y.row)
    <3>1. taken \in Seq(K) /\ x \in ToSet(taken)
      BY <1>7
    <3>2. own = Own(taken, x.id) /\ e = Entity(x.id, own)
      BY <1>11
    <3> HIDE DEF own
    <3>3. own \in Seq(K) /\ EntityFrom(taken, x.id, own, e)
      BY <3>1, <3>2, EntityFacts
    <3> QED
      BY <3>3 DEF EntityFrom
  <2>2. e = [id |-> x.id, type |-> Last(own).type,
             index |-> [k \in DOMAIN own |-> own[k].time],
             rows |-> UNION {ToSet(own[k].row) : k \in DOMAIN own}]
    BY <1>11 DEF Entity
  <2> HIDE DEF own
  <2>3. ToSet(own) = {own[k] : k \in 1..Len(own)} /\ ToSet(own) \subseteq K
        /\ DOMAIN own = 1..Len(own) /\ Len(own) \in Nat
    BY <2>1, MembersOf
  <2>4. PICK z \in ToSet(own) : e.type = z.type
    BY <2>1
  <2>5. e.type \in DOMAIN Lower /\ Table(q, e.type) \in T
    BY <1>2, <1>5, <1>9, <2>1, <2>3, <2>4 DEF T
  <2>6. e.index \in Seq(Int)
    <3>1. \A k \in 1..Len(own) : own[k].time \in Int
      BY <1>5, <2>3
    <3>2. e.index = [k \in 1..Len(own) |-> own[k].time]
      BY <2>2, <2>3
    <3> DEFINE f == [k \in 1..Len(own) |-> own[k].time]  n == Len(own)
    <3>3. f \in [1..n -> Int] /\ n \in Nat
      BY <2>3, <3>1
    <3> HIDE DEF f, n
    <3>4. f \in Seq(Int)
      BY <3>3
    <3> QED
      BY <3>2, <3>4 DEF f
  <2>7. \A y \in e.rows : \E z1 \in ToSet(taken) : z1.id = x.id /\ z1.row = <<y>>
    <3> SUFFICES ASSUME NEW y \in e.rows
                 PROVE  \E z1 \in ToSet(taken) : z1.id = x.id /\ z1.row = <<y>>
      OBVIOUS
    <3>1. PICK z1 \in ToSet(own) : y \in ToSet(z1.row)
      BY <2>1
    <3>2. z1.row = <<>> \/ \E y1 \in Right(q) : z1.row = <<y1>>
      BY <1>5, <2>3
    <3>3. ToSet(<<>>) = {} /\ \A y1 : ToSet(<<y1>>) = {y1}
      BY DEF ToSet
    <3>4. z1.row = <<y>>
      BY <3>1, <3>2, <3>3
    <3> QED
      BY <2>1, <3>1, <3>4
  <2>8. e.rows \subseteq Right(q)
    <3> SUFFICES ASSUME NEW y \in e.rows PROVE y \in Right(q)
      OBVIOUS
    <3>1. PICK z1 \in ToSet(taken) : z1.row = <<y>>
      BY <2>7
    <3>2. z1.row = <<>> \/ \E y1 \in Right(q) : z1.row = <<y1>>
      BY <1>5, <1>9, <3>1
    <3>3. <<>> # <<y>> /\ \A y1 : <<y1>> = <<y>> => y1 = y
      OBVIOUS
    <3> QED
      BY <3>1, <3>2, <3>3
  <2>9. e \in EntitiesOf(q)
    <3>1. x.id \in Nat
      BY <1>5, <1>9
    <3>2. e = [id |-> e.id, type |-> e.type, index |-> e.index, rows |-> e.rows]
      BY <2>2
    <3> QED
      BY <2>1, <2>5, <2>6, <2>8, <3>1, <3>2 DEF EntitiesOf
  <2>10. \A y : x.row = <<y>> => y \in e.rows
    <3> SUFFICES ASSUME NEW y, x.row = <<y>> PROVE y \in e.rows
      OBVIOUS
    <3>1. y \in ToSet(x.row)
      <4>1. \A y1 : ToSet(<<y1>>) = {y1}
        BY DEF ToSet
      <4> QED
        BY <4>1
    <3> QED
      BY <2>1, <3>1
  <2> QED
    BY <2>1, <2>5, <2>7, <2>9, <2>10
<1>12. es \in Seq(EntitiesOf(q)) /\ ToSet(es) = {es[k] : k \in 1..Len(es)}
  <2>1. \A k \in 1..Len(es) : es[k] \in EntitiesOf(q)
    BY <1>10, <1>11
  <2> DEFINE n == Len(es)
  <2>2. es \in [1..n -> EntitiesOf(q)] /\ n \in Nat
    BY <1>10, <2>1
  <2> HIDE DEF n
  <2>3. es \in Seq(EntitiesOf(q))
    BY <2>2
  <2> QED
    BY <2>3, MembersOf
<1>13. \A e \in ToSet(es) : \E x \in ToSet(taken) : e = Entity(x.id, Own(taken, x.id))
  BY <1>10, <1>12
<1>14. \A x \in ToSet(taken) : \E e \in ToSet(es) : e = Entity(x.id, Own(taken, x.id))
  BY <1>10, <1>12
<1>15. ASSUME NEW e \in ToSet(es)
       PROVE  /\ Table(q, e.type) \in T /\ Table(q, e.type) \in Mine(q)
              /\ st.ids # <<>> => e.id \in ToSet(st.ids)
  <2>1. PICK x \in ToSet(taken) : e = Entity(x.id, Own(taken, x.id))
    BY <1>13
  <2>2. Table(q, e.type) \in T /\ e.id = x.id
    BY <1>11, <2>1
  <2> QED
    BY <1>2, <1>4, <1>9, <2>2
<1>16. ASSUME NEW y \in RowsIn(es)
       PROVE  y \in RowsOf(s)
  <2>1. PICK e \in ToSet(es) : y \in e.rows
    BY DEF RowsIn
  <2>2. PICK x \in ToSet(taken) : e = Entity(x.id, Own(taken, x.id))
    BY <1>13
  <2>3. PICK z \in ToSet(taken) : z.row = <<y>>
    <3>1. \A z \in e.rows : \E k \in ToSet(taken) : k.row = <<z>>
      BY <1>11, <2>2
    <3> QED
      BY <2>1, <3>1
  <2>4. y \in AllRows
    <3>1. e \in EntitiesOf(q)
      BY <1>11, <2>2
    <3> QED
      BY <2>1, <3>1 DEF EntitiesOf, Right
  <2>5. z \in ToSet(s)
    BY <1>9
  <2> QED
    BY <1>1, <2>3, <2>4, <2>5, MembersOf DEF RowsOf
<1>17. ASSUME NEW y \in RowsOf(s), y.table \in meta
       PROVE  y \in RowsIn(es)
  <2>1. PICK k \in DOMAIN s : s[k].row = <<y>>
    BY DEF RowsOf
  <2>2. s[k] \in ToSet(s) /\ y \in AllRows
    BY DEF RowsOf, ToSet
  <2>3. s[k] \in ToSet(taken)
    BY <1>2, <1>8, <1>17, <2>1, <2>2
  <2>4. PICK e \in ToSet(es) : e = Entity(s[k].id, Own(taken, s[k].id))
    BY <1>14, <2>3
  <2>5. y \in e.rows
    BY <1>11, <2>1, <2>3, <2>4
  <2> QED
    BY <2>5 DEF RowsIn
<1> QED
  BY <1>7, <1>8, <1>9, <1>10, <1>12, <1>13, <1>14, <1>15, <1>16, <1>17 DEF K, T, FormatOf

(* An entity of one table has its values in the order they were fetched.   *)
LEMMA OwnOrdered ==
    ASSUME NEW K, NEW s \in Seq(K), NEW tb, NEW r, NEW R,
           \A i, j \in 1..Len(InTimeOrder(r, s)) :
                i < j => <<InTimeOrder(r, s)[i], InTimeOrder(r, s)[j]>> \in R,
           NEW taken, taken = Taken(r, <<tb>>, meta, s), taken \in Seq(K),
           NEW n, NEW own, own = Own(taken, n)
    PROVE  \A i, j \in 1..Len(own) : i < j => <<own[i], own[j]>> \in R
<1>1. \A i, j \in 1..Len(taken) : i < j => <<taken[i], taken[j]>> \in R
  <2> DEFINE u == Taken(r, <<tb>>, meta, s)
  <2>1. \A i, j \in 1..Len(u) : i < j => <<u[i], u[j]>> \in R
    BY TakenOrdered
  <2>2. taken = u
    OBVIOUS
  <2> HIDE DEF u
  <2> QED
    BY <2>1, <2>2
<1> DEFINE S == {y \in ToSet(taken) : y.id = n}  v == Those(taken, S)
<1>2. own = v
  BY DEF Own
<1> HIDE DEF S
<1>3. \A i, j \in 1..Len(v) : i < j => <<v[i], v[j]>> \in R
  BY <1>1, ThoseOrdered
<1> HIDE DEF v
<1> QED
  BY <1>2, <1>3

(* The values of an entity of a series are in time order.                  *)
LEMMA Ascends ==
    ASSUME NEW q \in Requests, NEW st, NEW s, Drawn(q, st, s), NEW tb, NEW r,
           r.lastN = ask[q].lastN,
           \A i, j \in 1..Len(s) : i < j => Before(q, s[i], s[j]),
           NEW taken, taken = Taken(r, <<tb>>, meta, s), taken \in Seq(KeysOf(q)),
           NEW x \in ToSet(taken), NEW e, e = Entity(x.id, Own(taken, x.id))
    PROVE  IsAscending(e.index)
<1> DEFINE K == KeysOf(q)  R == {p \in K \X K : p[1].time <= p[2].time}
           t == InTimeOrder(r, s)  own == Own(taken, x.id)
<1>1. s \in Seq(K) /\ taken \in Seq(K)
  BY DEF Drawn
<1>2. \A y \in K : y.time \in Int
  BY DEF KeysOf
<1> HIDE DEF K
<1>3. /\ t \in Seq(K) /\ Len(t) = Len(s)
      /\ r.lastN = 0 => t = s
      /\ r.lastN # 0 => \A k \in 1..Len(s) : t[k] = s[Len(s) - k + 1]
  BY <1>1, TimeOrderFacts
<1>4. \A i, j \in 1..Len(t) : i < j => <<t[i], t[j]>> \in R
  <2> HIDE DEF t
  <2> SUFFICES ASSUME NEW i \in 1..Len(t), NEW j \in 1..Len(t), i < j
               PROVE  t[i] \in K /\ t[j] \in K /\ t[i].time <= t[j].time
    OBVIOUS
  <2>1. t[i] \in K /\ t[j] \in K /\ Len(s) \in Nat
    BY <1>1, <1>3
  <2>2. CASE r.lastN = 0
    BY <1>3, <2>2 DEF Before
  <2>3. CASE r.lastN # 0
    <3> DEFINE a == Len(s) - i + 1  b == Len(s) - j + 1
    <3>1. a \in 1..Len(s) /\ b \in 1..Len(s) /\ b < a
      BY <1>3, <2>1
    <3>2. t[i] = s[a] /\ t[j] = s[b]
      BY <1>3, <2>3
    <3> HIDE DEF a, b
    <3>3. Before(q, s[b], s[a])
      BY <3>1
    <3>4. s[b].time >= s[a].time /\ s[a].time \in Int /\ s[b].time \in Int
      BY <1>2, <2>1, <2>3, <3>2, <3>3 DEF Before
    <3> QED
      BY <2>1, <3>2, <3>4
  <2> QED
    BY <2>2, <2>3
<1>5. taken = Taken(r, <<tb>>, meta, s) /\ own = Own(taken, x.id)
  OBVIOUS
<1>6. \A i, j \in 1..Len(own) : i < j => <<own[i], own[j]>> \in R
  <2> DEFINE n == x.id
  <2> HIDE DEF R, own, n
  <2> QED
    BY <1>1, <1>4, <1>5, OwnOrdered DEF n
<1>7. EntityFrom(taken, x.id, own, e)
  <2> DEFINE i == x.id
  <2>1. i = x.id /\ own = Own(taken, i) /\ e = Entity(i, own)
    OBVIOUS
  <2> HIDE DEF i, own
  <2>2. EntityFrom(taken, i, own, e)
    BY <1>1, <2>1, EntityFacts
  <2> QED
    BY <2>1, <2>2
<1> HIDE DEF own
<1>8. \A i, j \in 1..Len(own) : i < j => own[i].time <= own[j].time
  BY <1>6
<1>9. DOMAIN e.index = 1..Len(own) /\ \A k \in 1..Len(own) : e.index[k] = own[k].time
  BY <1>7 DEF EntityFrom
<1>10. Len(own) \in Nat
  <2>1. own \in Seq(K)
    <3> DEFINE i == x.id
    <3>1. i = x.id /\ own = Own(taken, i) /\ e = Entity(i, own)
      BY DEF own
    <3> HIDE DEF i
    <3> QED
      BY <1>1, <3>1, EntityFacts
  <2> QED
    BY <2>1
<1> QED
  BY <1>8, <1>9, <1>10 DEF IsAscending

(* What of the rows of a table is shown depends on those rows only.        *)
LEMMA ShowsSame ==
    ASSUME NEW q, NEW Y, NEW Z, NEW x, Shows(q, Y, x),
           \A z : z.table = x.table => (z \in Y <=> z \in Z)
    PROVE  Shows(q, Z, x)
<1>1. {y \in Y : y.table = x.table} = {y \in Z : y.table = x.table}
  OBVIOUS
<1> QED
  BY <1>1 DEF Shows, Covers

(* The first of some statements, and those that are left.                  *)
LEMMA TailFacts ==
    ASSUME NEW C, NEW w \in Seq(C), w # <<>>
    PROVE  /\ Head(w) = w[1] /\ Head(w) \in C /\ 1 \in 1..Len(w)
           /\ Tail(w) \in Seq(C) /\ Len(Tail(w)) = Len(w) - 1 /\ Len(w) \in Nat
           /\ \A k \in 1..Len(Tail(w)) : k + 1 \in 1..Len(w) /\ Tail(w)[k] = w[k + 1]
           /\ \A k \in 1..Len(w) : k # 1 =>
                    k - 1 \in 1..Len(Tail(w)) /\ Tail(w)[k - 1] = w[k]
  OBVIOUS

(* What there is of two lists of entities.                                 *)
LEMMA JoinedRows ==
    ASSUME NEW q, NEW es \in Seq(Messages(q)), NEW more \in Seq(Messages(q))
    PROVE  /\ es \o more \in Seq(Messages(q))
           /\ ToSet(es \o more) = ToSet(es) \cup ToSet(more)
           /\ RowsIn(es \o more) = RowsIn(es) \cup RowsIn(more)
<1> DEFINE C == Messages(q)
<1>1. es \in Seq(C) /\ more \in Seq(C)
  OBVIOUS
<1> HIDE DEF C
<1>2. es \o more \in Seq(C) /\ ToSet(es \o more) = ToSet(es) \cup ToSet(more)
  BY <1>1, MembersOfJoin
<1>3. RowsIn(es \o more) = RowsIn(es) \cup RowsIn(more)
  BY <1>2 DEF RowsIn
<1> QED
  BY <1>2, <1>3 DEF C

(* A message is none of the entities.                                      *)
LEMMA NotRefused ==
    ASSUME NEW q
    PROVE  Refused404 \notin EntitiesOf(q)
  BY DEF Refused404, EntitiesOf

(* A series goes on with what it found of one more table.                  *)
LEMMA SeriesGoesOn ==
    ASSUME NEW q \in Requests, DataInv, ask[q].op \in SeriesOps, NEW w, w # <<>>,
           NEW es, Pending(q, w, es), NEW s, Drawn(q, Head(w), s),
           NEW r, NEW more, more = Format(r, Head(w).tables, meta, s)
    PROVE  Pending(q, Tail(w), es \o more)
<1> DEFINE S == StatementsOf(q)  v == Tail(w)  all == es \o more
<1>1. /\ w \in Seq(S) /\ es \in Seq(Messages(q))
      /\ OneTableEach(q, w) /\ Ranged(q, w, es)
  BY DEF Pending
<1>2. /\ Head(w) = w[1] /\ Head(w) \in S /\ 1 \in 1..Len(w)
      /\ v \in Seq(S) /\ Len(v) = Len(w) - 1 /\ Len(w) \in Nat
      /\ \A k \in 1..Len(v) : k + 1 \in 1..Len(w) /\ v[k] = w[k + 1]
  <2> HIDE DEF S
  <2> QED
    BY <1>1, TailFacts
<1>3. PICK tb \in Mine(q) : Head(w).tables = <<tb>>
  BY <1>1, <1>2 DEF OneTableEach
<1>4. Head(w).ids = ask[q].ids
  BY <1>1, <1>2 DEF OneTableEach
<1>5. Drawn(q, Head(w), s)
  OBVIOUS
<1>6. /\ more \in Seq(EntitiesOf(q)) /\ RowsIn(more) \subseteq RowsOf(s)
      /\ \A i, j \in 1..Len(more) : i < j => more[i].id < more[j].id
      /\ \A e \in ToSet(more) :
            /\ Table(q, e.type) \in ToSet(Head(w).tables) /\ Table(q, e.type) \in Mine(q)
            /\ Head(w).ids # <<>> => e.id \in ToSet(Head(w).ids)
  <2> DEFINE st == Head(w)  taken == Taken(r, st.tables, meta, s)
  <2>1. st \in StatementsOf(q) /\ Drawn(q, st, s) /\ more = Format(r, st.tables, meta, s)
        /\ taken = Taken(r, st.tables, meta, s)
    BY <1>2, <1>5
  <2> HIDE DEF st, taken
  <2>2. FormatOf(q, st, s, taken, more)
    BY <2>1, Formatted
  <2> QED
    BY <2>2 DEF FormatOf, st
<1>7. ToSet(Head(w).tables) = {tb}
  <2>1. ToSet(<<tb>>) = {tb}
    BY DEF ToSet
  <2> QED
    BY <1>3, <2>1
<1>8. \A y \in RowsOf(s) : y.table = tb
  <2> SUFFICES ASSUME NEW y \in RowsOf(s) PROVE y.table = tb
    OBVIOUS
  <2>1. PICK k \in DOMAIN s : s[k].row = <<y>> /\ y \in AllRows
    BY DEF RowsOf
  <2>2. DOMAIN s = 1..Len(s)
    BY <1>5 DEF Drawn
  <2> QED
    BY <1>5, <1>7, <2>1, <2>2 DEF Drawn
<1>9. \A e \in ToSet(more) : /\ Table(q, e.type) = tb /\ \A y \in e.rows : y.table = tb
                             /\ ask[q].ids # <<>> => e.id \in ToSet(ask[q].ids)
  BY <1>4, <1>6, <1>7, <1>8 DEF RowsIn
<1>10. \A k \in 1..Len(w) : Pos(w[k].tables[1]) \in Nat
  <2> SUFFICES ASSUME NEW k \in 1..Len(w) PROVE Pos(w[k].tables[1]) \in Nat
    OBVIOUS
  <2>1. PICK b \in Mine(q) : w[k].tables = <<b>>
    BY <1>1 DEF OneTableEach
  <2>2. w[k].tables[1] = b /\ b \in AllTables
    BY <2>1 DEF Mine
  <2> QED
    BY <2>2, PosFacts
<1>11. w[1].tables[1] = tb
  BY <1>2, <1>3
<1>12. \A k \in 1..Len(v) : Pos(tb) < Pos(v[k].tables[1])
  BY <1>1, <1>2, <1>11 DEF OneTableEach
<1>13. more \in Seq(Messages(q))
  BY <1>6 DEF Messages
<1>14. /\ all \in Seq(Messages(q)) /\ ToSet(all) = ToSet(es) \cup ToSet(more)
  BY <1>1, <1>13, JoinedRows
<1>15. OneTableEach(q, v)
  <2>1. \A k \in 1..Len(v) : v[k].ids = ask[q].ids /\ \E b \in Mine(q) : v[k].tables = <<b>>
    BY <1>1, <1>2 DEF OneTableEach
  <2>2. ASSUME NEW i \in 1..Len(v), NEW j \in 1..Len(v), i < j
        PROVE  Pos(v[i].tables[1]) < Pos(v[j].tables[1])
    <3>1. i + 1 \in 1..Len(w) /\ j + 1 \in 1..Len(w) /\ i + 1 < j + 1
          /\ v[i] = w[i + 1] /\ v[j] = w[j + 1]
      BY <1>2, <2>2
    <3> HIDE DEF v
    <3> QED
      BY <1>1, <3>1 DEF OneTableEach
  <2> QED
    BY <2>1, <2>2 DEF OneTableEach
<1> HIDE DEF v, all
<1>16. ASSUME NEW e \in ToSet(all) \ {Refused404}
       PROVE  /\ Table(q, e.type) \in Mine(q)
              /\ \A y \in e.rows : y.table = Table(q, e.type)
              /\ ask[q].ids # <<>> => e.id \in ToSet(ask[q].ids)
              /\ \A k \in 1..Len(v) : Pos(Table(q, e.type)) < Pos(v[k].tables[1])
  <2>1. CASE e \in ToSet(es)
    BY <1>1, <1>2, <1>16, <2>1 DEF Ranged
  <2>2. CASE e \in ToSet(more)
    BY <1>9, <1>12, <2>2
  <2> QED
    BY <1>14, <1>16, <2>1, <2>2
<1>17. ASSUME NEW i \in 1..Len(all), NEW j \in 1..Len(all), i < j,
              all[i] # Refused404, all[j] # Refused404
       PROVE  Pos(Table(q, all[i].type)) <= Pos(Table(q, all[j].type))
  <2>1. /\ Len(all) = Len(es) + Len(more) /\ Len(es) \in Nat /\ Len(more) \in Nat
        /\ \A k \in 1..Len(es) : all[k] = es[k] /\ es[k] \in ToSet(es)
        /\ \A k \in 1..Len(all) : k > Len(es) => all[k] \in ToSet(more)
    <3>1. DOMAIN es = 1..Len(es) /\ DOMAIN more = 1..Len(more) /\ Len(es) \in Nat
          /\ Len(more) \in Nat
      BY <1>1, <1>13
    <3>2. Len(all) = Len(es) + Len(more)
          /\ \A k \in 1..Len(all) : all[k] = IF k <= Len(es) THEN es[k] ELSE more[k - Len(es)]
      BY <1>1, <1>13 DEF all
    <3>3. \A k \in 1..Len(all) : k > Len(es) => k - Len(es) \in 1..Len(more)
      BY <3>1, <3>2
    <3> QED
      BY <3>1, <3>2, <3>3 DEF ToSet
  <2>2. CASE j <= Len(es)
    <3>1. i \in 1..Len(es) /\ j \in 1..Len(es)
      BY <1>17, <2>1, <2>2
    <3> QED
      BY <1>1, <1>17, <2>1, <3>1 DEF Ranged
  <2>3. CASE i <= Len(es) /\ j > Len(es)
    <3>1. i \in 1..Len(es)
      BY <2>1, <2>3
    <3>2. all[i] \in ToSet(es) \ {Refused404}
      BY <1>17, <2>1, <3>1
    <3>3. Table(q, all[i].type) \in Mine(q) /\ Pos(Table(q, all[i].type)) < Pos(tb)
      BY <1>1, <1>2, <1>11, <3>2 DEF Ranged
    <3>4. Table(q, all[j].type) = tb
      BY <1>9, <2>1, <2>3
    <3>5. Pos(Table(q, all[i].type)) \in Nat /\ Pos(tb) \in Nat
      BY <3>3, PosFacts DEF Mine
    <3> QED
      BY <3>3, <3>4, <3>5
  <2>4. CASE i > Len(es)
    <3>1. Table(q, all[j].type) = tb /\ Table(q, all[i].type) = tb
      BY <1>9, <1>17, <2>1, <2>4
    <3>2. Pos(tb) \in Nat
      BY PosFacts DEF Mine
    <3> QED
      BY <3>1, <3>2
  <2> QED
    BY <2>1, <2>2, <2>3, <2>4
<1>18. ask[q].op \in FirstOps => Len(v) + Len(all) <= 1
  <2> SUFFICES ASSUME ask[q].op \in FirstOps PROVE Len(v) + Len(all) <= 1
    OBVIOUS
  <2>1. Len(w) + Len(es) <= 1 /\ Len(es) \in Nat /\ Len(more) \in Nat
    BY <1>1, <1>6 DEF Ranged
  <2>2. Len(v) = 0 /\ Len(es) = 0
    BY <1>2, <2>1
  <2>3. Len(ask[q].ids) = 1 /\ ask[q].ids \in Seq(Nat)
    BY AskedFor DEF FirstOps, FindOps
  <2>4. ToSet(ask[q].ids) = {ask[q].ids[1]} /\ ask[q].ids # <<>> /\ ask[q].ids[1] \in Nat
    BY <2>3 DEF ToSet
  <2>5. \A k \in 1..Len(more) : more[k].id = ask[q].ids[1]
    <3>1. \A k \in 1..Len(more) : more[k] \in ToSet(more)
      BY <1>6 DEF ToSet
    <3> QED
      BY <1>9, <2>4, <3>1
  <2>6. Len(more) <= 1
    <3> SUFFICES ASSUME Len(more) > 1 PROVE FALSE
      BY <2>1
    <3>1. 1 \in 1..Len(more) /\ 2 \in 1..Len(more)
      BY <2>1
    <3>2. more[1].id < more[2].id
      BY <1>6, <3>1
    <3> QED
      BY <2>4, <2>5, <3>1, <3>2
  <2>7. Len(all) = Len(es) + Len(more)
    BY <1>1, <1>13 DEF all
  <2> QED
    BY <2>1, <2>2, <2>6, <2>7
<1>19. Ranged(q, v, all)
  BY <1>16, <1>17, <1>18 DEF Ranged
<1>20. ask[q].op # "op" /\ ask[q].op # "NTNE"
  BY DEF SeriesOps
<1> QED
  BY <1>2, <1>14, <1>15, <1>19, <1>20 DEF Pending, v, all

(* Nothing that must be shown is lost on the way.                          *)
LEMMA SeriesKeeps ==
    ASSUME NEW q \in Requests, DataInv, IsSeries(q), NEW w, w # <<>>,
           NEW es, Pending(q, w, es), Careful(q, w, es), NEW s, FetchedOf(q, Head(w), s),
           stable[q] \subseteq Visible,
           NEW r, r.lastN = ask[q].lastN,
           NEW more, more = Format(r, Head(w).tables, meta, s)
    PROVE  Careful(q, Tail(w), es \o more)
<1> DEFINE S == StatementsOf(q)  v == Tail(w)  all == es \o more
<1>1. /\ w \in Seq(S) /\ es \in Seq(Messages(q))
      /\ OneTableEach(q, w) /\ Ranged(q, w, es) /\ Showing(q, w, es)
  BY DEF Pending, Careful, IsSeries
<1>2. /\ Head(w) = w[1] /\ Head(w) \in S /\ 1 \in 1..Len(w) /\ Len(w) \in Nat
      /\ \A k \in 1..Len(w) : k # 1 => k - 1 \in 1..Len(v) /\ v[k - 1] = w[k]
  <2> HIDE DEF S
  <2> QED
    BY <1>1, TailFacts
<1>3. PICK tb \in Mine(q) : Head(w).tables = <<tb>>
  BY <1>1, <1>2 DEF OneTableEach
<1>4. Drawn(q, Head(w), s) /\ SeriesDrawn(q, Head(w), s)
  BY DEF FetchedOf
<1> DEFINE taken == Taken(r, <<tb>>, meta, s)
<1>5. /\ more \in Seq(EntitiesOf(q)) /\ RowsIn(more) \subseteq RowsOf(s)
      /\ taken \in Seq(KeysOf(q))
      /\ \A e \in ToSet(more) : \E x \in ToSet(taken) : e = Entity(x.id, Own(taken, x.id))
      /\ \A y \in RowsOf(s) : y.table \in meta => y \in RowsIn(more)
  <2> DEFINE st == Head(w)
  <2>1. st \in StatementsOf(q) /\ Drawn(q, st, s) /\ more = Format(r, st.tables, meta, s)
        /\ taken = Taken(r, st.tables, meta, s)
    BY <1>2, <1>3, <1>4
  <2> HIDE DEF st, taken
  <2>2. FormatOf(q, st, s, taken, more)
    BY <2>1, Formatted
  <2> QED
    BY <2>2 DEF FormatOf
<1>6. \A y \in RowsOf(s) : y.table = tb
  <2> SUFFICES ASSUME NEW y \in RowsOf(s) PROVE y.table = tb
    OBVIOUS
  <2>1. PICK k \in DOMAIN s : s[k].row = <<y>> /\ y \in AllRows
    BY DEF RowsOf
  <2>2. DOMAIN s = 1..Len(s)
    BY <1>4 DEF Drawn
  <2>3. ToSet(<<tb>>) = {tb}
    BY DEF ToSet
  <2> QED
    BY <1>3, <1>4, <2>1, <2>2, <2>3 DEF Drawn
<1>7. more \in Seq(Messages(q))
  BY <1>5 DEF Messages
<1>8. /\ ToSet(all) = ToSet(es) \cup ToSet(more)
      /\ RowsIn(all) = RowsIn(es) \cup RowsIn(more)
  BY <1>1, <1>7, JoinedRows
<1>9. \A y \in RowsIn(es) : y.table # tb
  <2> SUFFICES ASSUME NEW y \in RowsIn(es), y.table = tb PROVE FALSE
    OBVIOUS
  <2>1. PICK e \in ToSet(es) : y \in e.rows
    BY DEF RowsIn
  <2>2. e # Refused404
    BY <2>1 DEF Refused404
  <2>3. /\ \A z \in e.rows : z.table = Table(q, e.type)
        /\ \A k \in 1..Len(w) : Pos(Table(q, e.type)) < Pos(w[k].tables[1])
    <3>1. e \in ToSet(es) \ {Refused404}
      BY <2>1, <2>2
    <3> QED
      BY <1>1, <3>1 DEF Ranged
  <2>4. w[1].tables[1] = tb
    BY <1>2, <1>3
  <2>5. Pos(tb) < Pos(tb) /\ Pos(tb) \in Nat
    <3>1. Table(q, e.type) = tb
      BY <2>1, <2>3
    <3> QED
      BY <1>2, <2>3, <2>4, <3>1, PosFacts DEF Mine
  <2> QED
    BY <2>5
<1> HIDE DEF all
<1>10. ASSUME NEW e \in ToSet(all)
       PROVE  e # Refused404 /\ IsAscending(e.index)
  <2>1. CASE e \in ToSet(es)
    BY <1>1, <1>10, <2>1 DEF Showing
  <2>2. CASE e \in ToSet(more)
    <3>1. PICK x \in ToSet(taken) : e = Entity(x.id, Own(taken, x.id))
      BY <1>5, <2>2
    <3>2. \A i, j \in 1..Len(s) : i < j => Before(q, s[i], s[j])
      BY <1>4 DEF SeriesDrawn
    <3>3. taken = Taken(r, <<tb>>, meta, s)
      OBVIOUS
    <3> HIDE DEF taken
    <3>4. IsAscending(e.index)
      BY <1>4, <1>5, <3>1, <3>2, <3>3, Ascends
    <3>5. e \in EntitiesOf(q)
      BY <1>5, <2>2, MembersOf
    <3> QED
      BY <3>4, <3>5, NotRefused
  <2> QED
    BY <1>8, <1>10, <2>1, <2>2
<1>11. Fits(q, RowsIn(all))
  BY <1>1, <1>4, <1>5, <1>8 DEF Fits, Showing, SeriesDrawn
<1>12. ASSUME NEW x \in stable[q], InScope(q, x)
       PROVE  \/ \E k \in 1..Len(v) : v[k].tables = <<x.table>>
              \/ Lacking(q, x)
              \/ Shows(q, RowsIn(all), x)
  <2>1. CASE x.table = tb
    <3>1. Shows(q, RowsOf(s), x)
      BY <1>3, <1>4, <1>12, <2>1 DEF SeriesDrawn
    <3>2. tb \in meta
      BY <1>12, <2>1 DEF Visible
    <3>3. \A z : z.table = x.table => (z \in RowsOf(s) <=> z \in RowsIn(all))
      BY <1>5, <1>8, <1>9, <2>1, <3>2
    <3>4. Shows(q, RowsIn(all), x)
      BY <3>1, <3>3, ShowsSame
    <3> QED
      BY <3>4
  <2>2. CASE x.table # tb
    <3>1. \A z : z.table = x.table => (z \in RowsIn(es) <=> z \in RowsIn(all))
      BY <1>5, <1>6, <1>8, <2>2
    <3>2. Shows(q, RowsIn(es), x) => Shows(q, RowsIn(all), x)
      BY <3>1, ShowsSame
    <3>3. ASSUME NEW k \in 1..Len(w), w[k].tables = <<x.table>>
          PROVE  \E i \in 1..Len(v) : v[i].tables = <<x.table>>
      <4>1. k # 1
        <5>1. <<x.table>> = <<tb>> => x.table = tb
          OBVIOUS
        <5> QED
          BY <1>2, <1>3, <2>2, <3>3, <5>1
      <4>2. k - 1 \in 1..Len(v) /\ v[k - 1] = w[k]
        BY <1>2, <4>1
      <4> HIDE DEF v
      <4> QED
        BY <3>3, <4>2
    <3> QED
      BY <1>1, <1>12, <3>2, <3>3 DEF Showing
  <2> QED
    BY <2>1, <2>2
<1>13. Showing(q, v, all)
  <2> HIDE DEF v
  <2> QED
    BY <1>10, <1>11, <1>12 DEF Showing
<1>14. ask[q].op # "op"
  BY DEF SeriesOps, IsSeries
<1> QED
  BY <1>13, <1>14 DEF Careful, v, all

(* The first value of an entity is the latest that was fetched of it, if   *)
(* the latest were fetched first.                                          *)
Leads(e, y) == e.index[1] >= y.time
LEMMA Descends ==
    ASSUME NEW q \in Requests, NEW st, NEW s, Drawn(q, st, s), NEW tb, NEW r, r.lastN = 0,
           \A i, j \in 1..Len(s) : i < j => s[i].time >= s[j].time,
           NEW taken, taken = Taken(r, <<tb>>, meta, s), taken \in Seq(KeysOf(q)),
           NEW x \in ToSet(taken), NEW e, e = Entity(x.id, Own(taken, x.id)),
           NEW y \in ToSet(taken), y.id = x.id
    PROVE  Leads(e, y)
<1> DEFINE K == KeysOf(q)  R == {p \in K \X K : p[1].time >= p[2].time}
           t == InTimeOrder(r, s)  own == Own(taken, x.id)
<1>1. s \in Seq(K) /\ taken \in Seq(K)
  BY DEF Drawn
<1>2. \A z \in K : z.time \in Int
  BY DEF KeysOf
<1> HIDE DEF K
<1>3. t = s
  BY <1>1, TimeOrderFacts
<1>4. \A i, j \in 1..Len(t) : i < j => <<t[i], t[j]>> \in R
  <2> HIDE DEF t
  <2> QED
    BY <1>1, <1>3
<1>5. taken = Taken(r, <<tb>>, meta, s) /\ own = Own(taken, x.id)
  OBVIOUS
<1>6. \A i, j \in 1..Len(own) : i < j => <<own[i], own[j]>> \in R
  <2> DEFINE n == x.id
  <2> HIDE DEF R, own, n
  <2> QED
    BY <1>1, <1>4, <1>5, OwnOrdered DEF n
<1>7. own \in Seq(K) /\ EntityFrom(taken, x.id, own, e)
  <2> DEFINE i == x.id
  <2>1. i = x.id /\ own = Own(taken, i) /\ e = Entity(i, own)
    OBVIOUS
  <2> HIDE DEF i, own
  <2>2. own \in Seq(K) /\ EntityFrom(taken, i, own, e)
    BY <1>1, <2>1, EntityFacts
  <2> QED
    BY <2>1, <2>2
<1> HIDE DEF own
<1>8. \A i, j \in 1..Len(own) : i < j => own[i].time >= own[j].time
  BY <1>6
<1>9. \A k \in 1..Len(own) : e.index[k] = own[k].time
  BY <1>7 DEF EntityFrom
<1>10. y \in ToSet(own)
  BY <1>7 DEF EntityFrom
<1>11. PICK k \in 1..Len(own) : own[k] = y
  BY <1>7, <1>10, MembersOf
<1>12. 1 \in 1..Len(own) /\ e.index[1] = own[1].time /\ own[1].time \in Int
  BY <1>2, <1>7, <1>9, <1>11
<1> QED
  BY <1>8, <1>11, <1>12 DEF Leads

(* The latest value of one more entity, or the answer that there is none.  *)
LEMMA LatestGoesOn ==
    ASSUME NEW q \in Requests, DataInv, ask[q].op = "op", NEW w, w # <<>>,
           NEW es, Pending(q, w, es), NEW s, FetchedOf(q, Head(w), s),
           stable[q] \subseteq Visible, NEW r, r.lastN = 0,
           NEW more, more = Format(r, Head(w).tables, meta, s)
    PROVE  /\ more # <<>> =>
                /\ Pending(q, Tail(w), es \o <<more[1]>>)
                /\ Careful(q, w, es) => Careful(q, Tail(w), es \o <<more[1]>>)
           /\ more = <<>> => Complete(q, <<>>)
<1> DEFINE S == StatementsOf(q)  v == Tail(w)  tb == Table(q, ask[q].type)
           st == Head(w)  taken == Taken(r, st.tables, meta, s)
<1>1. /\ w \in Seq(S) /\ es \in Seq(Messages(q)) /\ IdsEach(q, w)
  BY DEF Pending
<1>2. /\ st = w[1] /\ st \in S /\ 1 \in 1..Len(w)
      /\ v \in Seq(S) /\ Len(v) = Len(w) - 1 /\ Len(w) \in Nat
  <2> HIDE DEF S
  <2> QED
    BY <1>1, TailFacts
<1>20. \A k \in 1..Len(v) : k + 1 \in 1..Len(w) /\ v[k] = w[k + 1]
  <2> HIDE DEF S
  <2> QED
    BY <1>1, TailFacts
<1>21. \A k \in 1..Len(w) : k # 1 => k - 1 \in 1..Len(v) /\ v[k - 1] = w[k]
  <2> HIDE DEF S
  <2> QED
    BY <1>1, TailFacts
<1>3. st.tables = InOrder({tb}) /\ \E i \in ToSet(ask[q].ids) : st.ids = <<i>>
  BY <1>1, <1>2 DEF IdsEach
<1>4. PICK i \in ToSet(ask[q].ids) : st.ids = <<i>>
  BY <1>3
<1>5. Drawn(q, st, s) /\ LatestDrawn(q, st, s)
  BY DEF FetchedOf
<1>6. /\ more \in Seq(EntitiesOf(q)) /\ taken \in Seq(KeysOf(q))
      /\ \A x \in ToSet(s) : Table(q, x.type) \in meta => x \in ToSet(taken)
      /\ \A x \in ToSet(taken) : x \in ToSet(s)
      /\ \A e \in ToSet(more) : \E x \in ToSet(taken) : e = Entity(x.id, Own(taken, x.id))
      /\ \A x \in ToSet(taken) : \E e \in ToSet(more) : e = Entity(x.id, Own(taken, x.id))
      /\ \A e \in ToSet(more) : st.ids # <<>> => e.id \in ToSet(st.ids)
  <2>1. st \in StatementsOf(q) /\ Drawn(q, st, s) /\ more = Format(r, st.tables, meta, s)
        /\ taken = Taken(r, st.tables, meta, s)
    BY <1>2, <1>5
  <2> HIDE DEF st, taken
  <2>2. FormatOf(q, st, s, taken, more)
    BY <2>1, Formatted
  <2> QED
    BY <2>2 DEF FormatOf
<1>7. taken = Taken(r, st.tables, meta, s)
  OBVIOUS
<1>8. ask[q].op \notin SeriesOps /\ ask[q].op # "NTNE" /\ ~IsSeries(q)
  BY DEF SeriesOps, IsSeries
<1> HIDE DEF st, taken, v
<1>9. ToSet(st.ids) = {i} /\ st.ids # <<>>
  <2>1. ToSet(<<i>>) = {i} /\ <<i>> # <<>>
    BY DEF ToSet
  <2> QED
    BY <1>4, <2>1
<1>10. s \in Seq(KeysOf(q)) /\ ToSet(s) = {s[k] : k \in 1..Len(s)}
       /\ \A x \in ToSet(s) : x.id = i /\ Table(q, x.type) \in ToSet(st.tables)
  <2>1. s \in Seq(KeysOf(q))
    BY <1>5 DEF Drawn
  <2>2. ToSet(s) = {s[k] : k \in 1..Len(s)}
    BY <2>1, MembersOf
  <2> QED
    BY <1>5, <1>9, <2>1, <2>2 DEF Drawn
<1>11. ASSUME NEW x \in stable[q], InScope(q, x), x.id = i
       PROVE  more # <<>> /\ more[1].index[1] >= x.time
  <2>1. IsRow(x) /\ x \in AllRows /\ x.table \in meta
    BY <1>11 DEF DataInv, Visible
  <2>2. x.table = tb /\ tb \in AllTables
    BY <1>11, <2>1, AskedFor DEF InScope, IsRow
  <2>3. st.tables = <<tb>>
    <3>1. tb \in ToSet(InOrder({tb}))
      BY <2>2, InOrderFacts
    <3>2. ToSet(<<>>) = {}
      BY DEF ToSet
    <3>3. InOrder({tb}) # <<>>
      BY <3>1, <3>2
    <3> QED
      BY <1>3, <3>3, InOrderOne
  <2>4. ToSet(st.tables) = {tb}
    <3>1. ToSet(<<tb>>) = {tb}
      BY DEF ToSet
    <3> QED
      BY <2>3, <3>1
  <2>5. PICK k \in 1..Len(s) : s[k].time >= x.time
    BY <1>5, <1>9, <1>11 DEF LatestDrawn
  <2>6. s[k] \in ToSet(s)
    BY <1>10
  <2>7. s[k] \in ToSet(taken)
    BY <1>6, <1>10, <2>1, <2>2, <2>4, <2>6
  <2>8. more # <<>> /\ more[1] \in ToSet(more)
    <3>1. ToSet(more) # {}
      BY <1>6, <2>7
    <3>2. more # <<>>
      BY <3>1 DEF ToSet
    <3>3. 1 \in 1..Len(more) /\ DOMAIN more = 1..Len(more)
      BY <1>6, <3>2
    <3> QED
      BY <3>2, <3>3 DEF ToSet
  <2>9. PICK z \in ToSet(taken) : more[1] = Entity(z.id, Own(taken, z.id))
    BY <1>6, <2>8
  <2>10. s[k].id = z.id
    BY <1>6, <1>10, <2>6, <2>9
  <2> DEFINE e == more[1]  y == s[k]
  <2>11. Leads(e, y)
    <3>1. /\ Drawn(q, st, s) /\ taken = Taken(r, <<tb>>, meta, s)
          /\ taken \in Seq(KeysOf(q))
          /\ \A a, b \in 1..Len(s) : a < b => s[a].time >= s[b].time
      BY <1>5, <1>6, <1>7, <2>3 DEF LatestDrawn
    <3>2. e = Entity(z.id, Own(taken, z.id)) /\ y \in ToSet(taken) /\ y.id = z.id
      BY <2>7, <2>9, <2>10
    <3> HIDE DEF e, y, tb
    <3> QED
      BY <3>1, <3>2, Descends
  <2>12. y.time \in Int
    <3>1. s[k] \in KeysOf(q)
      BY <1>10
    <3> QED
      BY <3>1 DEF KeysOf
  <2>13. x.time \in Int
    BY <2>1 DEF IsRow
  <2>14. e.index[1] \in Int
    <3>1. e \in EntitiesOf(q)
      BY <1>6, <2>8, MembersOf
    <3>2. e.index \in Seq(Int) /\ e = Entity(z.id, Own(taken, z.id))
      BY <2>9, <3>1 DEF EntitiesOf
    <3> DEFINE n == z.id  own == Own(taken, n)
    <3>3. taken \in Seq(KeysOf(q)) /\ n = z.id /\ own = Own(taken, n) /\ e = Entity(n, own)
      BY <1>6, <3>2
    <3> HIDE DEF e, n, own
    <3>4. own \in Seq(KeysOf(q)) /\ EntityFrom(taken, n, own, e)
      BY <3>3, EntityFacts
    <3>5. 1 \in 1..Len(own) /\ DOMAIN e.index = 1..Len(own)
      BY <3>4 DEF EntityFrom
    <3> QED
      BY <3>2, <3>5
  <2> QED
    BY <2>5, <2>8, <2>11, <2>12, <2>13, <2>14 DEF Leads
<1>12. ASSUME more = <<>>
       PROVE  Complete(q, <<>>)
  <2>1. \A x \in stable[q] : InScope(q, x) => x.id # i
    BY <1>11, <1>12
  <2>2. \E k \in DOMAIN ask[q].ids : i = ask[q].ids[k]
    BY DEF ToSet
  <2>3. LatestRight(q, <<>>)
    BY <2>1, <2>2 DEF LatestRight
  <2> QED
    BY <1>8, <2>3 DEF Complete
<1>13. ASSUME more # <<>>
       PROVE  /\ Pending(q, v, es \o <<more[1]>>)
              /\ Careful(q, w, es) => Careful(q, v, es \o <<more[1]>>)
  <2> DEFINE e == more[1]  one == <<e>>  all == es \o one
  <2>1. e \in EntitiesOf(q) /\ e \in ToSet(more)
    <3>1. 1 \in 1..Len(more) /\ DOMAIN more = 1..Len(more)
      BY <1>6, <1>13
    <3> QED
      BY <1>6, <3>1 DEF ToSet
  <2>2. e.id = i /\ e # Refused404
    BY <1>6, <1>9, <2>1, NotRefused
  <2> HIDE DEF e
  <2>3. one \in Seq(Messages(q)) /\ ToSet(one) = {e}
    BY <2>1 DEF Messages, ToSet
  <2> HIDE DEF one
  <2>4. all \in Seq(Messages(q)) /\ ToSet(all) = ToSet(es) \cup {e}
    BY <1>1, <2>3, JoinedRows
  <2> HIDE DEF all
  <2>5. IdsEach(q, v)
    <3>1. \A k \in 1..Len(w) : /\ w[k].tables = InOrder({tb})
                                /\ \E j \in ToSet(ask[q].ids) : w[k].ids = <<j>>
      BY <1>1 DEF IdsEach
    <3>2. \A k \in 1..Len(v) : /\ v[k].tables = InOrder({tb})
                                /\ \E j \in ToSet(ask[q].ids) : v[k].ids = <<j>>
      <4> SUFFICES ASSUME NEW k \in 1..Len(v)
                   PROVE  /\ v[k].tables = InOrder({tb})
                          /\ \E j \in ToSet(ask[q].ids) : v[k].ids = <<j>>
        OBVIOUS
      <4>1. k + 1 \in 1..Len(w) /\ v[k] = w[k + 1]
        BY <1>20
      <4> QED
        BY <3>1, <4>1
    <3> QED
      BY <3>2 DEF IdsEach
  <2>6. Pending(q, v, all)
    BY <1>2, <1>8, <2>4, <2>5 DEF Pending
  <2>7. ASSUME Careful(q, w, es)
        PROVE  Careful(q, v, all)
    <3>1. Latest(q, w, es)
      BY <2>7 DEF Careful
    <3>2. Later(q, e, i)
      BY <1>11, <2>2 DEF Later, e
    <3>3. ASSUME NEW j \in ToSet(ask[q].ids)
          PROVE  \/ \E k \in 1..Len(v) : v[k].ids = <<j>>
                 \/ \E f \in ToSet(all) : Later(q, f, j)
      <4>1. CASE j = i
        BY <2>4, <3>2, <4>1
      <4>2. ASSUME j # i, NEW k \in 1..Len(w), w[k].ids = <<j>>
            PROVE  \E n \in 1..Len(v) : v[n].ids = <<j>>
        <5>1. <<j>> # <<i>>
          BY <4>2
        <5>2. k # 1
          BY <1>2, <1>4, <4>2, <5>1
        <5>3. k - 1 \in 1..Len(v) /\ v[k - 1].ids = <<j>>
          BY <1>21, <4>2, <5>2
        <5> QED
          BY <5>3
      <4> QED
        BY <2>4, <3>1, <4>1, <4>2 DEF Latest
    <3>4. Latest(q, v, all)
      BY <3>3 DEF Latest
    <3> QED
      BY <1>8, <3>4 DEF Careful
  <2> QED
    BY <2>6, <2>7 DEF all, one, e
<1> QED
  BY <1>12, <1>13 DEF v

-----------------------------------------------------------------------------
(* The groups of a response by type: entities of one type that follow each *)
(* other come into one group.                                              *)
GroupList(b) == \A k \in 1..Len(b) : \A e \in ToSet(b[k].entities) : e.type = b[k].type
GroupEach(b) == \A i, j \in 1..Len(b) : b[i].type = b[j].type => i = j
Together(es) ==
    \A i, j, k \in 1..Len(es) : i < j /\ j < k /\ es[i].type = es[k].type
        => es[j].type = es[k].type
IsGrouping(f, es, n) ==
    f = [k \in 0..n |-> IF k = 0 THEN <<>> ELSE IntoGroup(f[k - 1], es[k])]
Grouping(es) == CHOOSE f : IsGrouping(f, es, Len(es))

LEMMA EntitiesInFacts ==
    ASSUME NEW q, NEW b \in Seq(GroupsOf(q))
    PROVE  /\ \A e : e \in EntitiesIn(b) <=> \E k \in 1..Len(b) : e \in ToSet(b[k].entities)
           /\ \A k \in 1..Len(b) : b[k] \in GroupsOf(q) /\ b[k] \in ToSet(b)
           /\ \A g \in ToSet(b) : \E k \in 1..Len(b) : g = b[k]
           /\ DOMAIN b = 1..Len(b) /\ Len(b) \in Nat
           /\ EntitiesIn(b) \subseteq EntitiesOf(q)
<1> DEFINE C == GroupsOf(q)
<1>1. b \in Seq(C)
  OBVIOUS
<1> HIDE DEF C
<1>2. /\ ToSet(b) = {b[k] : k \in 1..Len(b)} /\ DOMAIN b = 1..Len(b) /\ Len(b) \in Nat
      /\ \A k \in 1..Len(b) : b[k] \in C
  BY <1>1, MembersOf
<1>3. \A e : e \in EntitiesIn(b) <=> \E k \in 1..Len(b) : e \in ToSet(b[k].entities)
  BY <1>2 DEF EntitiesIn
<1>4. EntitiesIn(b) \subseteq EntitiesOf(q)
  <2> SUFFICES ASSUME NEW k \in 1..Len(b) PROVE ToSet(b[k].entities) \subseteq EntitiesOf(q)
    BY <1>3
  <2> DEFINE s == b[k].entities  E == EntitiesOf(q)
  <2>1. s \in Seq(E)
    BY <1>2 DEF C, GroupsOf
  <2> HIDE DEF s, E
  <2>2. ToSet(s) \subseteq E
    BY <2>1, MembersOf
  <2> QED
    BY <2>2 DEF s, E
<1> QED
  BY <1>2, <1>3, <1>4 DEF C

(* The entities of a list of groups are those its groups hold.             *)
Gathers(b) ==
    \A e : e \in EntitiesIn(b) <=> \E k \in 1..Len(b) : e \in ToSet(b[k].entities)

LEMMA GathersAll ==
    ASSUME NEW q, NEW b \in Seq(GroupsOf(q))
    PROVE  Gathers(b)
BY EntitiesInFacts DEF Gathers

Follows(b, e) == (\E k \in 1..Len(b) : b[k].type = e.type) => b[Len(b)].type = e.type
Grows(q, b, e, g) ==
    /\ g \in Seq(GroupsOf(q)) /\ g # <<>> /\ g[Len(g)].type = e.type
    /\ \A x : x \in EntitiesIn(g) <=> x \in EntitiesIn(b) \/ x = e
    /\ GroupList(b) /\ Follows(b, e) => GroupList(g)
    /\ GroupEach(b) /\ Follows(b, e) => GroupEach(g)
    /\ \A k \in 1..Len(g) :
            g[k].type = e.type \/ \E i \in 1..Len(b) : g[k].type = b[i].type

LEMMA IntoGroupFacts ==
    ASSUME NEW q, NEW b \in Seq(GroupsOf(q)), NEW e \in EntitiesOf(q),
           NEW g, g = IntoGroup(b, e)
    PROVE  Grows(q, b, e, g)
<1> DEFINE n == Len(b)  C == GroupsOf(q)  E == EntitiesOf(q)
           one == [type |-> e.type, entities |-> <<e>>]
           many == [type |-> e.type, entities |-> Append(b[n].entities, e)]
<1>1. /\ \A x : x \in EntitiesIn(b) <=> \E k \in 1..n : x \in ToSet(b[k].entities)
      /\ \A k \in 1..n : b[k] \in C /\ b[k] \in ToSet(b)
      /\ \A x \in ToSet(b) : \E k \in 1..n : x = b[k]
      /\ DOMAIN b = 1..n /\ n \in Nat
  BY EntitiesInFacts
<1>2. e.type \in DOMAIN Lower \cup {"none"}
  BY DEF EntitiesOf
<1>3. one \in C /\ one.type = e.type /\ ToSet(one.entities) = {e}
  <2>1. <<e>> \in Seq(E) /\ ToSet(<<e>>) = {e}
    BY DEF ToSet
  <2> HIDE DEF E
  <2> QED
    BY <1>2, <2>1 DEF GroupsOf, E
<1> HIDE DEF C
<1>4. CASE \A k \in 1..n : b[k].type # e.type
  <2>1. g = Append(b, one)
    <3>1. \A x \in ToSet(b) : x.type # e.type
      BY <1>1, <1>4
    <3> QED
      BY <3>1 DEF IntoGroup
  <2>2. b \in Seq(C)
    BY DEF C
  <2> HIDE DEF one
  <2>3. /\ g \in Seq(C) /\ Len(g) = n + 1 /\ g[n + 1] = one /\ g # <<>>
        /\ \A k \in 1..n : g[k] = b[k]
        /\ \A k \in 1..Len(g) : k = n + 1 \/ k \in 1..n
        /\ n + 1 \in 1..Len(g) /\ \A k \in 1..n : k \in 1..Len(g)
    BY <1>1, <1>3, <2>1, <2>2
  <2>4. \A x : x \in EntitiesIn(g) <=> x \in EntitiesIn(b) \/ x = e
    <3>1. g \in Seq(GroupsOf(q))
      BY <2>3 DEF C
    <3>2. Gathers(g)
      BY ONLY <3>1, GathersAll
    <3>3. \A x : x \in EntitiesIn(g) <=> \E k \in 1..Len(g) : x \in ToSet(g[k].entities)
      BY <3>2 DEF Gathers
    <3>4. ASSUME NEW x, x \in EntitiesIn(g)
          PROVE  x \in EntitiesIn(b) \/ x = e
      <4>1. PICK k \in 1..Len(g) : x \in ToSet(g[k].entities)
        BY <3>3, <3>4
      <4>2. CASE k = n + 1
        BY <1>3, <2>3, <4>1, <4>2
      <4>3. CASE k \in 1..n
        BY <1>1, <2>3, <4>1, <4>3
      <4> QED
        BY <2>3, <4>2, <4>3
    <3>5. e \in EntitiesIn(g)
      <4>1. e \in ToSet(g[n + 1].entities)
        BY <1>3, <2>3
      <4> QED
        BY <2>3, <3>3, <4>1
    <3>6. ASSUME NEW x, x \in EntitiesIn(b)
          PROVE  x \in EntitiesIn(g)
      <4>1. PICK k \in 1..n : x \in ToSet(b[k].entities)
        BY <1>1, <3>6
      <4>2. k \in 1..Len(g) /\ g[k] = b[k]
        BY <2>3
      <4> QED
        BY <3>3, <4>1, <4>2
    <3> QED
      BY <3>4, <3>5, <3>6
  <2>5. GroupList(b) => GroupList(g)
    <3> SUFFICES ASSUME GroupList(b), NEW k \in 1..Len(g), NEW x \in ToSet(g[k].entities)
                 PROVE  x.type = g[k].type
      BY DEF GroupList
    <3>1. CASE k = n + 1
      BY <1>3, <2>3, <3>1
    <3>2. CASE k \in 1..n
      BY <2>3, <3>2 DEF GroupList
    <3> QED
      BY <2>3, <3>1, <3>2
  <2>6. GroupEach(b) => GroupEach(g)
    <3> SUFFICES ASSUME GroupEach(b), NEW i \in 1..Len(g), NEW j \in 1..Len(g),
                        g[i].type = g[j].type
                 PROVE  i = j
      BY DEF GroupEach
    <3>1. CASE i = n + 1 /\ j = n + 1
      BY <3>1
    <3>2. CASE i = n + 1 /\ j \in 1..n
      BY <1>3, <1>4, <2>3, <3>2
    <3>3. CASE i \in 1..n /\ j = n + 1
      BY <1>3, <1>4, <2>3, <3>3
    <3>4. CASE i \in 1..n /\ j \in 1..n
      BY <2>3, <3>4 DEF GroupEach
    <3> QED
      BY <2>3, <3>1, <3>2, <3>3, <3>4
  <2>7. g[Len(g)].type = e.type
    BY <1>3, <2>3
  <2>8. \A k \in 1..Len(g) : g[k].type = e.type \/ \E i \in 1..Len(b) : g[k].type = b[i].type
    BY <1>3, <2>3
  <2> QED
    BY <2>3, <2>4, <2>5, <2>6, <2>7, <2>8 DEF C, Grows
<1>5. CASE \E k \in 1..n : b[k].type = e.type
  <2>1. b # <<>> /\ n \in 1..n /\ n # 0
    BY <1>1, <1>5
  <2>2. b[n].entities \in Seq(E)
    BY <1>1, <2>1 DEF C, GroupsOf
  <2>3. many \in C /\ many.type = e.type /\ ToSet(many.entities) = ToSet(b[n].entities) \cup {e}
    <3> DEFINE s == b[n].entities
    <3> HIDE DEF s, E
    <3>1. s \in Seq(E) /\ e \in E
      BY <2>2 DEF s, E
    <3> PICK u : u = Append(s, e)
      OBVIOUS
    <3>2. u = s \o <<e>> /\ u \in Seq(E) /\ <<e>> \in Seq(E)
      BY <3>1
    <3>3. ToSet(<<e>>) = {e}
      BY DEF ToSet
    <3>4. ToSet(s \o <<e>>) = ToSet(s) \cup ToSet(<<e>>)
      <4> PICK v : v = <<e>>
        OBVIOUS
      <4>1. v \in Seq(E)
        BY <3>2, Zenon
      <4>2. ToSet(s \o v) = ToSet(s) \cup ToSet(v)
        BY ONLY <3>1, <4>1, MembersOfJoin
      <4> QED
        BY <4>2, Zenon
    <3>5. ToSet(u) = ToSet(s) \cup {e}
      <4>1. ToSet(u) = ToSet(s \o <<e>>)
        BY <3>2, Zenon
      <4> QED
        BY <3>3, <3>4, <4>1, SMT
    <3>6. many = [type |-> e.type, entities |-> u]
      BY DEF s
    <3> HIDE DEF many
    <3> QED
      BY <1>2, <3>2, <3>5, <3>6 DEF GroupsOf, C, E, s
  <2>4. g = Append(Front(b), many)
    <3>1. ~(\A x \in ToSet(b) : x.type # e.type)
      BY <1>1, <1>5
    <3>2. Last(b) = b[n]
      BY DEF Last
    <3> QED
      BY <3>1, <3>2 DEF IntoGroup
  <2>5. /\ Front(b) \in Seq(C) /\ Len(Front(b)) = n - 1
        /\ \A k \in 1..(n - 1) : Front(b)[k] = b[k]
    <3>1. b \in Seq(C) /\ n = Len(b) /\ n \in Nat
      BY <1>1 DEF C
    <3>2. SubSeq(b, 1, n - 1) \in Seq(C) /\ Len(SubSeq(b, 1, n - 1)) = n - 1
          /\ \A k \in 1..(n - 1) : SubSeq(b, 1, n - 1)[k] = b[k]
      <4> HIDE DEF n
      <4> QED
        BY <2>1, <3>1
    <3>3. Front(b) = SubSeq(b, 1, n - 1)
      BY DEF Front
    <3> QED
      BY <3>2, <3>3
  <2> DEFINE f == Front(b)
  <2> HIDE DEF many, f
  <2>6. /\ g \in Seq(C) /\ Len(g) = n /\ g[n] = many /\ g # <<>>
        /\ \A k \in 1..n : k # n => g[k] = b[k]
    <3>1. f \in Seq(C) /\ Len(f) = n - 1 /\ (\A k \in 1..(n - 1) : f[k] = b[k])
          /\ g = Append(f, many)
      BY <2>4, <2>5 DEF f
    <3>2. n \in Nat /\ n # 0 /\ many \in C
      BY <1>1, <2>1, <2>3
    <3> HIDE DEF n
    <3>3. Append(f, many) \in Seq(C) /\ Len(Append(f, many)) = n
          /\ Append(f, many)[n] = many
          /\ \A k \in 1..(n - 1) : Append(f, many)[k] = f[k]
      BY <3>1, <3>2
    <3>4. \A k \in 1..n : k # n => k \in 1..(n - 1)
      BY <3>2
    <3>5. g # <<>>
      BY <3>1, <3>2, <3>3
    <3> QED
      BY <3>1, <3>3, <3>4, <3>5
  <2>7. \A x : x \in EntitiesIn(g) <=> x \in EntitiesIn(b) \/ x = e
    <3>1. g \in Seq(GroupsOf(q))
      BY <2>6 DEF C
    <3>2. \A x : x \in EntitiesIn(g) <=> \E k \in 1..Len(g) : x \in ToSet(g[k].entities)
      BY <3>1, EntitiesInFacts
    <3>3. \A x : x \in EntitiesIn(b) <=> \E k \in 1..n : x \in ToSet(b[k].entities)
      BY <1>1
    <3>4. /\ Len(g) = n /\ n \in 1..n
          /\ \A x : x \in ToSet(g[n].entities) <=> x \in ToSet(b[n].entities) \/ x = e
          /\ \A k \in 1..n : k # n => g[k] = b[k]
      BY <2>1, <2>3, <2>6
    <3> HIDE DEF n
    <3> QED
      BY <3>2, <3>3, <3>4
  <2>8. GroupList(b) /\ b[n].type = e.type => GroupList(g)
    <3> SUFFICES ASSUME GroupList(b), b[n].type = e.type,
                        NEW k \in 1..Len(g), NEW x \in ToSet(g[k].entities)
                 PROVE  x.type = g[k].type
      BY DEF GroupList
    <3>1. CASE k = n
      BY <2>1, <2>3, <2>6, <3>1 DEF GroupList
    <3>2. CASE k # n
      BY <2>6, <3>2 DEF GroupList
    <3> QED
      BY <3>1, <3>2
  <2>9. GroupEach(b) /\ b[n].type = e.type => GroupEach(g)
    <3> SUFFICES ASSUME GroupEach(b), b[n].type = e.type PROVE GroupEach(g)
      OBVIOUS
    <3>1. \A k \in 1..n : g[k].type = b[k].type
      BY <2>3, <2>6
    <3> QED
      BY <2>6, <3>1 DEF GroupEach
  <2>10. \A k \in 1..Len(g) : g[k].type = e.type \/ \E i \in 1..Len(b) : g[k].type = b[i].type
    BY <2>3, <2>6
  <2>11. Follows(b, e) => b[n].type = e.type
    BY <1>5 DEF Follows
  <2> QED
    BY <1>5, <2>1, <2>3, <2>6, <2>7, <2>8, <2>9, <2>10, <2>11
       DEF C, Grows
<1> QED
  BY <1>4, <1>5

LEMMA GroupingExists ==
    ASSUME NEW es, NEW n \in Nat
    PROVE  \E f : IsGrouping(f, es, n)
<1> DEFINE P == {k \in 0..n : \E f : IsGrouping(f, es, k)}
<1>1. 0 \in P
  <2> DEFINE f == [i \in 0..0 |-> <<>>]
  <2>1. \A i \in 0..0 : f[i] = IF i = 0 THEN <<>> ELSE IntoGroup(f[i - 1], es[i])
    OBVIOUS
  <2>2. f = [i \in 0..0 |-> f[i]]
    OBVIOUS
  <2> HIDE DEF f
  <2>3. IsGrouping(f, es, 0)
    BY <2>1, <2>2 DEF IsGrouping
  <2> QED
    BY <2>3
<1>2. ASSUME NEW k \in 1..n, k - 1 \in P
      PROVE  k \in P
  <2>1. PICK f : IsGrouping(f, es, k - 1)
    BY <1>2
  <2> DEFINE g == [i \in 0..k |-> IF i # k THEN f[i] ELSE IntoGroup(f[k - 1], es[k])]
  <2>2. \A i \in 0..(k - 1) : f[i] = IF i = 0 THEN <<>> ELSE IntoGroup(f[i - 1], es[i])
    BY <2>1 DEF IsGrouping
  <2>3. ASSUME NEW i \in 0..k
        PROVE  g[i] = IF i = 0 THEN <<>> ELSE IntoGroup(g[i - 1], es[i])
    BY <2>2
  <2>4. g = [i \in 0..k |-> g[i]]
    OBVIOUS
  <2>5. IsGrouping(g, es, k)
    <3> HIDE DEF g
    <3> QED
      BY <2>3, <2>4 DEF IsGrouping
  <2> QED
    BY <2>5
<1> HIDE DEF P
<1>3. 0..n \subseteq P
  BY <1>1, <1>2, UpTo
<1> QED
  BY <1>3 DEF P

LEMMA GroupedFacts ==
    ASSUME NEW q, NEW es \in Seq(EntitiesOf(q)), NEW b, b = ByType(es)
    PROVE  /\ b \in Seq(GroupsOf(q)) /\ EntitiesIn(b) = ToSet(es)
           /\ Together(es) => GroupList(b) /\ GroupEach(b)
<1> DEFINE f == Grouping(es)  n == Len(es)
           upTo(k) == {es[i] : i \in 1..k}
<1>1. n \in Nat /\ ToSet(es) = {es[k] : k \in 1..n}
      /\ \A k \in 1..n : es[k] \in EntitiesOf(q)
  <2> DEFINE E == EntitiesOf(q)
  <2>1. es \in Seq(E)
    OBVIOUS
  <2> HIDE DEF E
  <2>2. n \in Nat /\ ToSet(es) = {es[k] : k \in 1..n} /\ \A k \in 1..n : es[k] \in E
    BY <2>1, MembersOf
  <2> QED
    BY <2>2 DEF E
<1>2. IsGrouping(f, es, n)
  <2>1. \E g : IsGrouping(g, es, n)
    BY <1>1, GroupingExists
  <2>2. IsGrouping(CHOOSE g : IsGrouping(g, es, n), es, n)
    BY <2>1, Zenon
  <2> QED
    BY <2>2, Zenon DEF Grouping
<1>3. b = f[n]
  BY DEF ByType, Grouping, IsGrouping
<1> HIDE DEF f, n
<1>4. f[0] = <<>> /\ \A k \in 1..n : f[k] = IntoGroup(f[k - 1], es[k])
  <2>1. \A k \in 0..n : f[k] = IF k = 0 THEN <<>> ELSE IntoGroup(f[k - 1], es[k])
    BY <1>2 DEF IsGrouping
  <2> QED
    BY <1>1, <2>1
<1> DEFINE Grouped(k) ==
        /\ f[k] \in Seq(GroupsOf(q))
        /\ \A x : x \in EntitiesIn(f[k]) <=> x \in upTo(k)
        /\ k # 0 => f[k] # <<>> /\ f[k][Len(f[k])].type = es[k].type
        /\ \A i \in 1..Len(f[k]) : \E j \in 1..k : f[k][i].type = es[j].type
        /\ Together(es) => GroupList(f[k]) /\ GroupEach(f[k])
    P == {k \in 0..n : Grouped(k)}
<1>5. 0 \in P
  <2>1. EntitiesIn(<<>>) = {} /\ <<>> \in Seq(GroupsOf(q)) /\ Len(<<>>) = 0 /\ 1..0 = {}
    BY DEF EntitiesIn, ToSet
  <2>2. GroupList(<<>>) /\ GroupEach(<<>>)
    BY <2>1 DEF GroupList, GroupEach
  <2>3. \A x : x \in EntitiesIn(f[0]) <=> x \in upTo(0)
    BY <1>4, <2>1
  <2>4. f[0] \in Seq(GroupsOf(q)) /\ Len(f[0]) = 0 /\ GroupList(f[0]) /\ GroupEach(f[0])
    BY <1>4, <2>1, <2>2
  <2>5. \A i \in 1..Len(f[0]) : \E j \in 1..0 : f[0][i].type = es[j].type
    BY <2>4
  <2>6. Grouped(0)
    BY <2>3, <2>4, <2>5
  <2> HIDE DEF Grouped
  <2> QED
    BY <1>1, <2>6
<1>6. ASSUME NEW k \in 1..n, k - 1 \in P
      PROVE  k \in P
  <2> DEFINE a == f[k - 1]  g == f[k]  e == es[k]
  <2>1. /\ a \in Seq(GroupsOf(q))
        /\ \A x : x \in EntitiesIn(a) <=> x \in upTo(k - 1)
        /\ k - 1 # 0 => a # <<>> /\ a[Len(a)].type = es[k - 1].type
        /\ \A i \in 1..Len(a) : \E j \in 1..(k - 1) : a[i].type = es[j].type
        /\ Together(es) => GroupList(a) /\ GroupEach(a)
    BY <1>6
  <2>2. g = IntoGroup(a, e) /\ e \in EntitiesOf(q) /\ k \in Nat /\ k - 1 \in Nat
    BY <1>1, <1>4
  <2> HIDE DEF g, a, e, upTo
  <2>3. Grows(q, a, e, g)
    BY <2>1, <2>2, IntoGroupFacts
  <2>4. \A x : x \in upTo(k) <=> x \in upTo(k - 1) \/ x = e
    BY <2>2 DEF upTo, e
  <2>5. Together(es) => Follows(a, e)
    <3> SUFFICES ASSUME Together(es), NEW i \in 1..Len(a), a[i].type = e.type
                 PROVE  a[Len(a)].type = e.type
      BY DEF Follows
    <3>1. PICK j \in 1..(k - 1) : a[i].type = es[j].type
      BY <2>1
    <3>2. a[Len(a)].type = es[k - 1].type
      BY <2>1, <2>2, <3>1
    <3>3. es[j].type = es[k].type
      BY <3>1 DEF e
    <3>4. CASE j = k - 1
      BY <3>2, <3>3, <3>4 DEF e
    <3>5. CASE j < k - 1
      <4>1. j \in 1..n /\ k - 1 \in 1..n /\ k \in 1..n /\ k - 1 < k
        BY <1>1, <2>2, <3>5
      <4>2. es[k - 1].type = es[k].type
        BY <1>1, <3>3, <3>5, <4>1 DEF Together, n
      <4> QED
        BY <3>2, <4>2 DEF e
    <3> QED
      BY <2>2, <3>4, <3>5
  <2>6. \A i \in 1..Len(g) : \E j \in 1..k : g[i].type = es[j].type
    <3> SUFFICES ASSUME NEW i \in 1..Len(g) PROVE \E j \in 1..k : g[i].type = es[j].type
      OBVIOUS
    <3>1. CASE g[i].type = e.type
      BY <2>2, <3>1 DEF e
    <3>2. CASE \E j \in 1..Len(a) : g[i].type = a[j].type
      BY <2>1, <2>2, <3>2
    <3> QED
      BY <2>3, <3>1, <3>2 DEF Grows
  <2>7. Together(es) => GroupList(g) /\ GroupEach(g)
    BY <2>1, <2>3, <2>5 DEF Grows
  <2>8. g[Len(g)].type = es[k].type
    BY <2>3 DEF e, Grows
  <2>9. \A x : x \in EntitiesIn(g) <=> x \in upTo(k)
    BY <2>1, <2>3, <2>4 DEF Grows
  <2> QED
    BY <1>1, <2>3, <2>6, <2>7, <2>8, <2>9 DEF g, Grows
<1> HIDE DEF P
<1>7. 0..n \subseteq P
  BY <1>1, <1>5, <1>6, UpTo
<1>8. Grouped(n)
  BY <1>1, <1>7 DEF P
<1>9. EntitiesIn(b) = ToSet(es)
  BY <1>1, <1>3, <1>8
<1> QED
  BY <1>3, <1>8, <1>9

(* What a response is made of: the entities that were found, in the order  *)
(* of their tables, without the messages of the database among them.       *)
Entitled(es) == Those(es, ToSet(es) \ {Refused404})
Arranged(q, s) ==
    /\ \A k \in 1..Len(s) : Table(q, s[k].type) \in Mine(q)
    /\ \A i, j \in 1..Len(s) :
            i < j => Pos(Table(q, s[i].type)) <= Pos(Table(q, s[j].type))

LEMMA EntitledFacts ==
    ASSUME NEW q, NEW es \in Seq(Messages(q)), NEW s, s = Entitled(es)
    PROVE  /\ s \in Seq(EntitiesOf(q)) /\ Len(s) <= Len(es)
           /\ \A e : e \in ToSet(s) <=> e \in ToSet(es) /\ e # Refused404
<1> DEFINE M == Messages(q)  E == EntitiesOf(q)  S == ToSet(es) \ {Refused404}
<1>1. es \in Seq(M) /\ M = E \cup {Refused404}
  BY DEF Messages
<1> HIDE DEF M, E, S
<1>2. s \in Seq(M) /\ ToSet(s) = ToSet(es) \cap S /\ Len(s) <= Len(es)
  BY <1>1, ThoseFacts DEF Entitled, S
<1>3. \A e : e \in ToSet(s) <=> e \in ToSet(es) /\ e # Refused404
  BY <1>2 DEF S
<1>4. /\ ToSet(s) = {s[k] : k \in 1..Len(s)} /\ ToSet(s) \subseteq M
      /\ DOMAIN s = 1..Len(s) /\ Len(s) \in Nat
  BY <1>2, MembersOf
<1>5. \A k \in 1..Len(s) : s[k] \in E
  BY <1>1, <1>3, <1>4
<1>6. s \in Seq(E)
  <2>1. s = [k \in 1..Len(s) |-> s[k]]
    BY <1>2
  <2> QED
    BY <1>4, <1>5, <2>1
<1> QED
  BY <1>2, <1>3, <1>6 DEF E

LEMMA EntitledArranged ==
    ASSUME NEW q, NEW es \in Seq(Messages(q)), NEW w, Ranged(q, w, es),
           NEW s, s = Entitled(es)
    PROVE  Arranged(q, s)
<1> DEFINE M == Messages(q)  S == ToSet(es) \ {Refused404}
           P(e) == Pos(Table(q, e.type))
           R == {p \in M \X M : p[1] # Refused404 /\ p[2] # Refused404 => P(p[1]) <= P(p[2])}
<1>1. es \in Seq(M)
  OBVIOUS
<1>2. \A i, j \in 1..Len(es) : i < j => <<es[i], es[j]>> \in R
  <2>1. \A i, j \in 1..Len(es) : i < j /\ es[i] # Refused404 /\ es[j] # Refused404
            => P(es[i]) <= P(es[j])
    BY DEF Ranged
  <2>2. \A i \in 1..Len(es) : es[i] \in M
    OBVIOUS
  <2> HIDE DEF P, M
  <2> QED
    BY <2>1, <2>2
<1>3. \A i, j \in 1..Len(s) : i < j => <<s[i], s[j]>> \in R
  <2> HIDE DEF R, M, S
  <2> QED
    BY <1>1, <1>2, ThoseOrdered DEF Entitled, S
<1>4. /\ s \in Seq(EntitiesOf(q))
      /\ \A e : e \in ToSet(s) <=> e \in ToSet(es) /\ e # Refused404
  BY EntitledFacts
<1>5. \A k \in 1..Len(s) : s[k] \in ToSet(s)
  BY <1>4 DEF ToSet
<1>6. \A k \in 1..Len(s) : s[k] # Refused404 /\ s[k] \in ToSet(es) \ {Refused404}
  BY <1>4, <1>5
<1>7. \A i, j \in 1..Len(s) : i < j => P(s[i]) <= P(s[j])
  <2> HIDE DEF P, M
  <2> QED
    BY <1>3, <1>6
<1>8. \A k \in 1..Len(s) : Table(q, s[k].type) \in Mine(q)
  BY <1>6 DEF Ranged
<1> QED
  BY <1>7, <1>8 DEF Arranged

(* Grouped by type, each group is of its own type and each type has one    *)
(* group, as long as no two types share a table.                           *)
LEMMA GroupsAreRight ==
    ASSUME NEW q, NEW s \in Seq(EntitiesOf(q)), Arranged(q, s), NEW b, b = ByType(s)
    PROVE  GroupsRight(q, b)
<1>1. b \in Seq(GroupsOf(q)) /\ EntitiesIn(b) = ToSet(s)
      /\ (Together(s) => GroupList(b) /\ GroupEach(b))
  BY GroupedFacts
<1>2. DOMAIN b = 1..Len(b) /\ \A g \in ToSet(b) : \E k \in 1..Len(b) : g = b[k]
  BY <1>1, EntitiesInFacts
<1>3. ASSUME \A e, f \in EntitiesIn(b) : Table(q, e.type) = Table(q, f.type) => e.type = f.type
      PROVE  Together(s)
  <2> SUFFICES ASSUME NEW i \in 1..Len(s), NEW j \in 1..Len(s), NEW k \in 1..Len(s),
                      i < j, j < k, s[i].type = s[k].type
               PROVE  s[j].type = s[k].type
    BY DEF Together
  <2> DEFINE tb == Table(q, s[j].type)  tc == Table(q, s[k].type)
  <2>1. tb \in AllTables /\ tc \in AllTables
    BY DEF Arranged, Mine
  <2>2. Pos(tc) <= Pos(tb) /\ Pos(tb) <= Pos(tc)
    BY DEF Arranged
  <2>3. Pos(tb) \in Nat /\ Pos(tc) \in Nat
    BY <2>1, PosFacts
  <2>4. tb = tc
    <3> HIDE DEF tb, tc
    <3> QED
      BY <2>1, <2>2, <2>3, PosFacts
  <2>5. s[j] \in ToSet(s) /\ s[k] \in ToSet(s)
    BY DEF ToSet
  <2> QED
    BY <1>1, <1>3, <2>4, <2>5
<1> QED
  BY <1>1, <1>2, <1>3 DEF GroupsRight, GroupList, GroupEach

-----------------------------------------------------------------------------
(* Whatever way a response groups them, it shows the entities it is given. *)
Presents(q, s, b) ==
    /\ b \in Seq(GroupsOf(q))
    /\ \A e : e \in EntitiesIn(b) <=> e \in ToSet(s)
    /\ \A y : y \in ShownIn(b) <=> y \in RowsIn(s)

LEMMA RowsShown ==
    ASSUME NEW s, NEW b, \A e : e \in EntitiesIn(b) <=> e \in ToSet(s)
    PROVE  \A y : y \in ShownIn(b) <=> y \in RowsIn(s)
<1>1. \A y : y \in ShownIn(b) <=> \E e \in EntitiesIn(b) : y \in e.rows
  <2> SUFFICES ASSUME NEW y
               PROVE  y \in ShownIn(b) <=> \E e \in EntitiesIn(b) : y \in e.rows
    OBVIOUS
  <2>1. y \in ShownIn(b)
            <=> \E g \in ToSet(b) : y \in UNION {e.rows : e \in ToSet(g.entities)}
    BY Zenon DEF ShownIn
  <2>2. \A g : y \in UNION {e.rows : e \in ToSet(g.entities)}
            <=> \E e \in ToSet(g.entities) : y \in e.rows
    BY Zenon
  <2>3. \A e : e \in EntitiesIn(b) <=> \E g \in ToSet(b) : e \in ToSet(g.entities)
    BY Zenon DEF EntitiesIn
  <2> QED
    BY <2>1, <2>2, <2>3
<1>2. \A y : y \in RowsIn(s) <=> \E e \in ToSet(s) : y \in e.rows
  BY Zenon DEF RowsIn
<1> QED
  BY <1>1, <1>2

LEMMA OneGroup ==
    ASSUME NEW q, NEW type \in DOMAIN Lower \cup {"none"}, NEW s \in Seq(EntitiesOf(q)),
           NEW u \in Seq(EntitiesOf(q)), ToSet(u) = ToSet(s),
           NEW b, b = <<[type |-> type, entities |-> u]>>
    PROVE  Presents(q, s, b)
<1> DEFINE g == [type |-> type, entities |-> u]
<1>1. g \in GroupsOf(q) /\ g.entities = u
  BY DEF GroupsOf
<1> HIDE DEF g
<1>2. b = <<g>>
  BY DEF g
<1>3. b \in Seq(GroupsOf(q)) /\ ToSet(b) = {g}
  BY <1>1, <1>2 DEF ToSet
<1>4. \A e : e \in EntitiesIn(b) <=> e \in ToSet(s)
  BY <1>1, <1>3 DEF EntitiesIn
<1> QED
  BY <1>3, <1>4, RowsShown DEF Presents

LEMMA GivenOrderFacts ==
    ASSUME NEW E, NEW s \in Seq(E), NEW r, r.ids \in Seq(Nat),
           r.ids # <<>> => \A e \in ToSet(s) : e.id \in ToSet(r.ids),
           NEW u, u = InGivenOrder(r, s)
    PROVE  u \in Seq(E) /\ ToSet(u) = ToSet(s)
<1> DEFINE ids == r.ids  n == Len(ids)
           of(k) == {e \in ToSet(s) : e.id = ids[k]}
           part(k) == IF ids[k] \in ToSet(SubSeq(ids, 1, k - 1)) THEN <<>>
                                                                  ELSE Those(s, of(k))
           bs == [k \in 1..n |-> part(k)]
<1>1. CASE ids = <<>>
  BY <1>1 DEF InGivenOrder
<1>2. CASE ids # <<>>
  <2>1. n \in Nat /\ DOMAIN ids = 1..n /\ \A k \in 1..n : ids[k] \in Nat
    OBVIOUS
  <2>2. u = FlattenSeq(bs)
    BY <1>2, <2>1 DEF InGivenOrder
  <2>3. \A k \in 1..n : Those(s, of(k)) \in Seq(E)
                        /\ ToSet(Those(s, of(k))) = ToSet(s) \cap of(k)
    <3> SUFFICES ASSUME NEW k \in 1..n
                 PROVE  Those(s, of(k)) \in Seq(E)
                        /\ ToSet(Those(s, of(k))) = ToSet(s) \cap of(k)
      OBVIOUS
    <3> HIDE DEF of
    <3> QED
      BY ThoseFacts
  <2>4. \A k \in 1..n : part(k) \in Seq(E) /\ ToSet(part(k)) \subseteq ToSet(s)
    <3> SUFFICES ASSUME NEW k \in 1..n
                 PROVE  part(k) \in Seq(E) /\ ToSet(part(k)) \subseteq ToSet(s)
      OBVIOUS
    <3>1. <<>> \in Seq(E) /\ ToSet(<<>>) = {}
      BY DEF ToSet
    <3>2. Those(s, of(k)) \in Seq(E) /\ ToSet(Those(s, of(k))) \subseteq ToSet(s)
      BY <2>3
    <3> HIDE DEF of
    <3> QED
      BY <3>1, <3>2
  <2>5. bs \in Seq(Seq(E)) /\ Len(bs) = n /\ \A k \in 1..n : bs[k] = part(k)
    <3> HIDE DEF part, n
    <3> QED
      BY <2>1, <2>4
  <2>6. \A e \in ToSet(s) : \E k \in 1..n : e \in ToSet(part(k))
    <3> SUFFICES ASSUME NEW e \in ToSet(s)
                 PROVE  \E k \in 1..n : e \in ToSet(part(k))
      OBVIOUS
    <3> DEFINE K == {k \in 1..n : ids[k] = e.id}
    <3>1. K \subseteq Nat /\ K # {}
      <4>1. \E k \in 1..n : ids[k] = e.id
        BY <1>2, <2>1 DEF ToSet
      <4> QED
        BY <4>1
    <3>2. PICK k \in K : \A m \in K : k <= m
      <4> HIDE DEF K
      <4> QED
        BY <3>1, LeastNumber
    <3>3. k \in 1..n /\ ids[k] = e.id
      BY <3>2
    <3>4. ids[k] \notin ToSet(SubSeq(ids, 1, k - 1))
      <4> DEFINE t == SubSeq(ids, 1, k - 1)
      <4>1. Len(t) = k - 1 /\ DOMAIN t = 1..(k - 1) /\ \A i \in 1..(k - 1) : t[i] = ids[i]
        BY <2>1, <3>3
      <4>2. SUFFICES ASSUME NEW i \in 1..(k - 1), ids[i] = e.id PROVE FALSE
        <5> HIDE DEF t
        <5> QED
          BY <3>3, <4>1, <4>2 DEF ToSet, t
      <4>3. i \in K /\ i < k
        BY <2>1, <3>3, <4>2
      <4> QED
        BY <3>2, <3>3, <4>3
    <3>5. part(k) = Those(s, of(k)) /\ e \in of(k)
      BY <3>3, <3>4
    <3> HIDE DEF part, of
    <3> QED
      BY <2>3, <3>3, <3>5
  <2> HIDE DEF part, bs, n
  <2>7. u \in Seq(E) /\ ToSet(u) = UNION {ToSet(bs[k]) : k \in 1..Len(bs)}
    BY <2>2, <2>5, FlattenMembers
  <2>8. ToSet(u) = ToSet(s)
    <3>1. \A e : e \in ToSet(u) <=> \E k \in 1..n : e \in ToSet(part(k))
      BY <2>5, <2>7
    <3> QED
      BY <2>4, <2>6, <3>1
  <2> QED
    BY <2>7, <2>8
<1> QED
  BY <1>1, <1>2

LEMMA BodyPresents ==
    ASSUME NEW q \in Requests, DataInv, ask[q].op \notin RemovalOps,
           NEW s \in Seq(EntitiesOf(q)), ask[q].op \in FirstOps => Len(s) <= 1,
           ask[q].op = "1TNE1A" /\ ask[q].ids # <<>>
                => \A e \in ToSet(s) : e.id \in ToSet(ask[q].ids),
           NEW b, b = Body(Handler(q).body, ask[q], s)
    PROVE  Presents(q, s, b)
<1> DEFINE kind == Handler(q).body  E == EntitiesOf(q)
<1>1. /\ ask[q].op \in FirstOps => kind = "first"
      /\ ask[q].op = "1TNE1A" => kind = "asked"
      /\ ask[q].op \in {"1TNENA", "NTNE", "op"} => kind = "all"
      /\ ask[q].op \in {"NTNE1A", "NTNENA"} => kind = "types"
      /\ ask[q].op \in SeriesOps \cup {"NTNE", "op"}
  <2>1. ask[q].op \in SeriesOps \cup {"NTNE", "op"}
    BY AskedFor
  <2> QED
    BY <2>1, QueryHandlers DEF FirstOps
<1>2. ask[q].type \in DOMAIN Lower \cup {"none"} /\ ask[q].ids \in Seq(Nat)
  BY AskedFor
<1>3. s \in Seq(E) /\ Len(s) \in Nat /\ ToSet(s) = {s[k] : k \in 1..Len(s)}
      /\ \A k \in 1..Len(s) : s[k] \in E
  <2> HIDE DEF E
  <2>1. s \in Seq(E)
    BY DEF E
  <2> QED
    BY <2>1, MembersOf
<1> HIDE DEF kind
<1>4. CASE s = <<>>
  <2>1. b = <<>>
    BY <1>4 DEF Body
  <2>2. ToSet(b) = {} /\ ToSet(s) = {}
    BY <1>4, <2>1 DEF ToSet
  <2>3. \A e : e \in EntitiesIn(b) <=> e \in ToSet(s)
    BY <2>2 DEF EntitiesIn
  <2>4. b \in Seq(GroupsOf(q))
    <3> DEFINE G == GroupsOf(q)
    <3> HIDE DEF G
    <3>1. <<>> \in Seq(G)
      OBVIOUS
    <3> QED
      BY <2>1, <3>1 DEF G
  <2> QED
    BY <2>3, <2>4, RowsShown DEF Presents
<1>5. CASE s # <<>> /\ kind = "first"
  <2>1. ask[q].op \in FirstOps
    BY <1>1, <1>5 DEF SeriesOps, FirstOps
  <2>2. Len(s) = 1
    <3> HIDE DEF E
    <3>1. s \in Seq(E) /\ Len(s) \in Nat
      BY <1>3
    <3>2. Len(s) <= 1
      BY <2>1
    <3>3. Len(s) # 0
      BY <1>5, <3>1
    <3> DEFINE n == Len(s)
    <3>4. n \in Nat /\ n <= 1 /\ n # 0
      BY <3>1, <3>2, <3>3
    <3> HIDE DEF n
    <3>5. n = 1
      BY <3>4
    <3> QED
      BY <3>5 DEF n
  <2>3. s[1] \in E /\ <<s[1]>> \in Seq(E) /\ ToSet(<<s[1]>>) = ToSet(s)
    BY <1>3, <2>2 DEF ToSet
  <2>4. s[1].type \in DOMAIN Lower \cup {"none"}
    BY <2>3 DEF EntitiesOf
  <2>5. b = <<[type |-> s[1].type, entities |-> <<s[1]>>]>>
    BY <1>5 DEF Body, kind
  <2> QED
    BY <2>3, <2>4, <2>5, OneGroup
<1>6. CASE s # <<>> /\ kind = "asked"
  <2> DEFINE u == InGivenOrder(ask[q], s)
  <2>1. ask[q].op = "1TNE1A"
    BY <1>1, <1>6 DEF SeriesOps, FirstOps
  <2>2. u \in Seq(E) /\ ToSet(u) = ToSet(s)
    <3> HIDE DEF E
    <3>1. ask[q].ids # <<>> => \A e \in ToSet(s) : e.id \in ToSet(ask[q].ids)
      BY <2>1
    <3> QED
      BY <1>2, <1>3, <3>1, GivenOrderFacts
  <2> HIDE DEF u
  <2>3. b = <<[type |-> ask[q].type, entities |-> u]>>
    BY <1>6 DEF Body, kind, u
  <2> QED
    BY <1>2, <2>2, <2>3, OneGroup
<1>7. CASE s # <<>> /\ kind = "all"
  <2>1. b = <<[type |-> ask[q].type, entities |-> s]>>
    BY <1>7 DEF Body, kind
  <2> QED
    BY <1>2, <2>1, OneGroup
<1>8. CASE s # <<>> /\ kind = "types"
  <2>1. b = ByType(s)
    BY <1>8 DEF Body, kind
  <2>2. b \in Seq(GroupsOf(q)) /\ EntitiesIn(b) = ToSet(s)
    BY <2>1, GroupedFacts
  <2> QED
    BY <2>2, RowsShown DEF Presents
<1> QED
  BY <1>1, <1>4, <1>5, <1>6, <1>7, <1>8 DEF SeriesOps, FirstOps

-----------------------------------------------------------------------------
(* The response of a query that has no statement left.                     *)
LEMMA Responds ==
    ASSUME NEW q \in Requests, DataInv, ask[q].op \notin RemovalOps,
           NEW es, Pending(q, <<>>, es), NEW s, s = Entitled(es),
           NEW b, b = Body(Handler(q).body, ask[q], s)
    PROVE  Presents(q, s, b) /\ Answered(q, b)
<1>1. es \in Seq(Messages(q)) /\ (ask[q].op \in SeriesOps => Ranged(q, <<>>, es))
  BY DEF Pending
<1>2. /\ s \in Seq(EntitiesOf(q)) /\ Len(s) <= Len(es)
      /\ \A e : e \in ToSet(s) <=> e \in ToSet(es) /\ e # Refused404
  BY <1>1, EntitledFacts
<1>3. ask[q].op \in FirstOps => Len(s) <= 1
  <2> SUFFICES ASSUME ask[q].op \in FirstOps PROVE Len(s) <= 1
    OBVIOUS
  <2>1. ask[q].op \in SeriesOps
    BY DEF FirstOps, SeriesOps
  <2>2. Len(<<>>) + Len(es) <= 1 /\ Len(<<>>) = 0
    BY <1>1, <2>1 DEF Ranged
  <2> DEFINE m == Len(es)  n == Len(s)
  <2>3. m \in Nat /\ n \in Nat
    <3> DEFINE M == Messages(q)  E == EntitiesOf(q)
    <3>1. es \in Seq(M) /\ s \in Seq(E)
      BY <1>1, <1>2
    <3> HIDE DEF M, E
    <3> QED
      BY <3>1
  <2>4. n <= m /\ 0 + m <= 1
    BY <1>2, <2>2
  <2> HIDE DEF m, n
  <2>5. n <= 1
    BY <2>3, <2>4
  <2> QED
    BY <2>5 DEF n
<1>4. ask[q].op = "1TNE1A" /\ ask[q].ids # <<>>
        => \A e \in ToSet(s) : e.id \in ToSet(ask[q].ids)
  <2> SUFFICES ASSUME ask[q].op = "1TNE1A", ask[q].ids # <<>>, NEW e \in ToSet(s)
               PROVE  e.id \in ToSet(ask[q].ids)
    OBVIOUS
  <2>1. Ranged(q, <<>>, es)
    BY <1>1 DEF SeriesOps
  <2> QED
    BY <1>2, <2>1 DEF Ranged
<1>5. Presents(q, s, b)
  BY <1>2, <1>3, <1>4, BodyPresents
<1>6. ask[q].op \in {"NTNE1A", "NTNENA"} => GroupsRight(q, b)
  <2> SUFFICES ASSUME ask[q].op \in {"NTNE1A", "NTNENA"} PROVE GroupsRight(q, b)
    OBVIOUS
  <2>1. Handler(q).body = "types"
    BY QueryHandlers DEF SeriesOps
  <2>2. CASE s = <<>>
    <3>1. b = <<>>
      BY <2>2 DEF Body
    <3> QED
      BY <3>1, NothingAnswered DEF Answered
  <2>3. CASE s # <<>>
    <3>1. b = ByType(s)
      BY <2>1, <2>3 DEF Body
    <3>2. Ranged(q, <<>>, es)
      BY <1>1 DEF SeriesOps
    <3>3. Arranged(q, s)
      BY <1>1, <3>2, EntitledArranged
    <3> QED
      BY <1>2, <3>1, <3>3, GroupsAreRight
  <2> QED
    BY <2>2, <2>3
<1> QED
  BY <1>5, <1>6 DEF Answered, Presents

LEMMA RespondsInFull ==
    ASSUME NEW q \in Requests, NEW es, Careful(q, <<>>, es),
           es \in Seq(Messages(q)), NEW s, s = Entitled(es),
           NEW b, Presents(q, s, b), ask[q].op # "NTNE"
    PROVE  Complete(q, b)
<1>1. /\ \A e : e \in ToSet(s) <=> e \in ToSet(es) /\ e # Refused404
      /\ \A e : e \in EntitiesIn(b) <=> e \in ToSet(s)
      /\ \A y : y \in ShownIn(b) <=> y \in RowsIn(s)
  BY EntitledFacts DEF Presents
<1>2. ASSUME IsSeries(q) PROVE SeriesRight(q, b)
  <2>1. Showing(q, <<>>, es) /\ Len(<<>>) = 0
    BY <1>2 DEF Careful
  <2>2. ToSet(s) = ToSet(es)
    BY <1>1, <2>1 DEF Showing
  <2>3. RowsIn(s) = RowsIn(es)
    BY <2>2 DEF RowsIn
  <2>4. ShownIn(b) = RowsIn(es)
    BY <1>1, <2>3
  <2>5. \A e \in EntitiesIn(b) : IsAscending(e.index)
    BY <1>1, <2>1 DEF Showing
  <2>6. Fits(q, ShownIn(b))
    BY <2>1, <2>4 DEF Showing
  <2>7. \A x \in stable[q] : InScope(q, x) => Lacking(q, x) \/ Shows(q, ShownIn(b), x)
    BY <2>1, <2>4 DEF Showing
  <2> QED
    BY <2>5, <2>6, <2>7 DEF SeriesRight
<1>3. ASSUME ask[q].op = "op" PROVE LatestRight(q, b)
  <2> SUFFICES ASSUME NEW x \in stable[q], InScope(q, x), x.id \in ToSet(ask[q].ids)
               PROVE  \E e \in EntitiesIn(b) : e.id = x.id /\ e.index[1] >= x.time
    BY DEF LatestRight
  <2>1. Latest(q, <<>>, es) /\ Len(<<>>) = 0
    BY <1>3 DEF Careful
  <2>2. PICK e \in ToSet(es) : Later(q, e, x.id)
    BY <2>1 DEF Latest
  <2> QED
    BY <1>1, <2>2 DEF Later
<1> QED
  BY <1>2, <1>3 DEF Complete

-----------------------------------------------------------------------------
(* A listing counts each row it was made of.                               *)
LEMMA ListingsFinite ==
    ASSUME NEW C, NEW es \in Seq(C), NEW b, \A e : e \in EntitiesIn(b) <=> e \in ToSet(es),
           \A e \in ToSet(es) : \E n \in Nat : DOMAIN e.index = 1..n
    PROVE  IsFiniteSet(ListingsIn(b))
<1> DEFINE places == [e \in ToSet(es) |-> {<<e, k>> : k \in DOMAIN e.index}]
           L == {places[e] : e \in ToSet(es)}
<1>1. IsFiniteSet(ToSet(es))
  BY MembersOf
<1>2. ASSUME NEW e \in ToSet(es) PROVE IsFiniteSet(places[e])
  <2> DEFINE pair == [k \in DOMAIN e.index |-> <<e, k>>]  P == {<<e, k>> : k \in DOMAIN e.index}
  <2>1. PICK n \in Nat : DOMAIN e.index = 1..n
    OBVIOUS
  <2>2. IsFiniteSet(DOMAIN e.index)
    BY <2>1, FS_Interval
  <2>3. \A y \in P : \E k \in DOMAIN e.index : y = pair[k]
    OBVIOUS
  <2>4. IsFiniteSet(P)
    <3> DEFINE D == DOMAIN e.index
    <3>1. IsFiniteSet(D) /\ \A y \in P : \E k \in D : y = pair[k]
      BY <2>2, <2>3
    <3> HIDE DEF D, P, pair
    <3> QED
      BY <3>1, ImageFinite
  <2> QED
    BY <2>4
<1>3. \A T \in L : IsFiniteSet(T)
  BY <1>2
<1>4. IsFiniteSet(L)
  <2> DEFINE E == ToSet(es)
  <2>1. IsFiniteSet(E) /\ \A y \in L : \E e \in E : y = places[e]
    BY <1>1
  <2> HIDE DEF E, L, places
  <2> QED
    BY <2>1, ImageFinite
<1>5. ListingsIn(b) = UNION L
  <2>1. EntitiesIn(b) = ToSet(es)
    OBVIOUS
  <2>2. L = {{<<e, k>> : k \in DOMAIN e.index} : e \in ToSet(es)}
    OBVIOUS
  <2> QED
    BY <2>1, <2>2 DEF ListingsIn
<1> HIDE DEF L
<1>6. IsFiniteSet(UNION L)
  BY <1>3, <1>4, FS_UNION
<1> QED
  BY <1>5, <1>6

PlaceOf(taken, x, p) ==
    LET own == Own(taken, x.id) IN
    p[1] = Entity(x.id, own) /\ p[2] \in 1..Len(own) /\ own[p[2]] = x
LEMMA EachIsListed ==
    ASSUME NEW C, NEW taken \in Seq(C), NEW s \in Seq(C),
           \A k \in 1..Len(s) : s[k] \in ToSet(taken),
           \A i, j \in 1..Len(s) : i # j => s[i] # s[j],
           NEW D, NEW es \in Seq(D), NEW b, \A e : e \in EntitiesIn(b) <=> e \in ToSet(es),
           \A x \in ToSet(taken) : \E e \in ToSet(es) : e = Entity(x.id, Own(taken, x.id)),
           \A e \in ToSet(es) : \E n \in Nat : DOMAIN e.index = 1..n
    PROVE  Cardinality(ListingsIn(b)) >= Len(s)
<1> DEFINE n == Len(s)  L == ListingsIn(b)
<1>1. n \in Nat
  OBVIOUS
<1>2. \A k \in 1..n : \E p \in L : PlaceOf(taken, s[k], p)
  <2> SUFFICES ASSUME NEW k \in 1..n PROVE \E p \in L : PlaceOf(taken, s[k], p)
    OBVIOUS
  <2> DEFINE x == s[k]  own == Own(taken, x.id)  e == Entity(x.id, own)
  <2>1. x \in ToSet(taken)
    OBVIOUS
  <2> HIDE DEF x
  <2>2. own \in Seq(C) /\ EntityFrom(taken, x.id, own, e)
    <3> HIDE DEF own, e
    <3>1. own = Own(taken, x.id) /\ e = Entity(x.id, own)
      BY DEF own, e
    <3> QED
      BY <2>1, <3>1, EntityFacts
  <2>3. e \in EntitiesIn(b)
    <3>1. e \in ToSet(es)
      BY <2>1
    <3> QED
      BY <3>1
  <2> HIDE DEF own, e
  <2>5. \E j \in 1..Len(own) : own[j] = x
    <3>1. x \in ToSet(own)
      BY <2>1, <2>2 DEF EntityFrom
    <3>2. ToSet(own) = {own[i] : i \in 1..Len(own)}
      BY <2>2, MembersOf
    <3> QED
      BY <3>1, <3>2
  <2>6. PICK j \in 1..Len(own) : own[j] = x
    BY <2>5
  <2>7. j \in DOMAIN e.index
    BY <2>2, <2>6 DEF EntityFrom
  <2> DEFINE p == <<e, j>>
  <2>8. p \in {<<e, i>> : i \in DOMAIN e.index}
    BY <2>7
  <2>9. p \in L
    BY <2>3, <2>8 DEF ListingsIn
  <2>10. p[1] = e /\ p[2] = j
    OBVIOUS
  <2> HIDE DEF p
  <2>11. PlaceOf(taken, x, p)
    BY <2>6, <2>10 DEF PlaceOf, own, e
  <2> QED
    BY <2>9, <2>11 DEF x
<1> DEFINE f == [k \in 1..n |-> CHOOSE p \in L : PlaceOf(taken, s[k], p)]
           S == {f[k] : k \in 1..n}
<1>3. \A k \in 1..n : f[k] \in L /\ PlaceOf(taken, s[k], f[k])
  <2> SUFFICES ASSUME NEW k \in 1..n PROVE f[k] \in L /\ PlaceOf(taken, s[k], f[k])
    OBVIOUS
  <2>1. \E p \in L : PlaceOf(taken, s[k], p)
    BY <1>2
  <2>2. f[k] = CHOOSE p \in L : PlaceOf(taken, s[k], p)
    OBVIOUS
  <2> HIDE DEF f, L
  <2> QED
    BY <2>1, <2>2, Zenon
<1>4. f = [k \in 1..n |-> f[k]]
  OBVIOUS
<1> HIDE DEF f, n, L
<1>5. \A i, j \in 1..n : i # j => f[i] # f[j]
  <2> SUFFICES ASSUME NEW i \in 1..n, NEW j \in 1..n, f[i] = f[j] PROVE i = j
    OBVIOUS
  <2>1. Entity(s[i].id, Own(taken, s[i].id)) = Entity(s[j].id, Own(taken, s[j].id))
    BY <1>3 DEF PlaceOf
  <2>2. s[i].id = s[j].id
    BY <2>1 DEF Entity
  <2>3. s[i] = s[j]
    <3>1. Own(taken, s[i].id)[f[i][2]] = s[i] /\ Own(taken, s[j].id)[f[j][2]] = s[j]
      BY <1>3, Zenon DEF PlaceOf
    <3> QED
      BY <2>2, <3>1
  <2> QED
    BY <2>3 DEF n
<1>6. Counts(f, n, S)
  BY <1>4, <1>5 DEF Counts
<1>7. S \subseteq L
  BY <1>3
<1> HIDE DEF S
<1>8. Cardinality(S) = n
  BY <1>1, <1>6, CountedBy
<1>9. IsFiniteSet(L)
  BY ListingsFinite DEF L
<1>10. Cardinality(S) <= Cardinality(L) /\ Cardinality(L) \in Nat
  BY <1>7, <1>9, FS_Subset, FS_CardinalityType
<1>11. Cardinality(L) >= n
  BY <1>1, <1>8, <1>10
<1> QED
  BY <1>11 DEF n, L

(* A listing of entities answers in full with what it formatted.           *)
LEMMA ListingAnswers ==
    ASSUME NEW q \in Requests, DataInv, ask[q].op = "NTNE", NEW w, w # <<>>,
           NEW es, Pending(q, w, es), NEW s, FetchedOf(q, Head(w), s),
           stable[q] \subseteq Visible,
           \A x \in stable[q] : InScope(q, x) /\ ask[q].type = "none"
                => x.table \in listed[q] \/ Unlisted(q, x),
           NEW r, NEW more, more = Format(r, Head(w).tables, meta, s),
           NEW b, Presents(q, more, b)
    PROVE  Complete(q, b)
<1> DEFINE S == StatementsOf(q)  st == Head(w)  T == ToSet(st.tables)
           taken == Taken(r, st.tables, meta, s)
<1>1. w \in Seq(S) /\ OneStatement(q, w, es)
  BY DEF Pending
<1>2. st = w[1] /\ st \in S
  <2> HIDE DEF S
  <2> QED
    BY <1>1, TailFacts
<1>3. PICK G \in SUBSET GivenTables(q) :
            T = AllTables \cap G /\ \A tb \in GivenTables(q) \ G : Hidden(q, tb)
  <2>1. PICK G \in SUBSET GivenTables(q) :
            st.tables = InOrder(G) /\ \A tb \in GivenTables(q) \ G : Hidden(q, tb)
    BY <1>1, <1>2 DEF OneStatement
  <2>2. T = AllTables \cap G
    BY <2>1, InOrderFacts
  <2> QED
    BY <2>1, <2>2
<1> HIDE DEF S, st
<1>4. Drawn(q, st, s) /\ ListingDrawn(q, st, s)
  BY DEF FetchedOf, st
<1>5. FormatOf(q, st, s, taken, more)
  <2>1. more = Format(r, st.tables, meta, s) /\ st \in StatementsOf(q)
    BY <1>2 DEF st, S
  <2> HIDE DEF taken
  <2> QED
    BY <1>4, <2>1, Formatted DEF taken
<1> HIDE DEF taken
<1>6. /\ taken \in Seq(KeysOf(q)) /\ more \in Seq(EntitiesOf(q))
      /\ \A x \in ToSet(s) : Table(q, x.type) \in meta => x \in ToSet(taken)
      /\ \A x \in ToSet(taken) : \E e \in ToSet(more) : e = Entity(x.id, Own(taken, x.id))
  BY <1>5 DEF FormatOf
<1>7. \A e \in ToSet(more) : \E x \in ToSet(taken) : e = Entity(x.id, Own(taken, x.id))
  BY <1>5 DEF FormatOf
<1>8. /\ s \in Seq(KeysOf(q)) /\ \A k \in 1..Len(s) : s[k] \in ToSet(s)
      /\ \A k \in 1..Len(s) : Table(q, s[k].type) \in T
  <2>1. s \in Seq(KeysOf(q)) /\ \A k \in 1..Len(s) : Table(q, s[k].type) \in T
    BY <1>4 DEF Drawn
  <2> QED
    BY <2>1 DEF ToSet
<1>9. \A e : e \in EntitiesIn(b) <=> e \in ToSet(more)
  BY DEF Presents
<1>10. SUFFICES ASSUME ask[q].offset = 0, NEW x \in stable[q], InScope(q, x)
                PROVE  \/ \E e \in EntitiesIn(b) : e.id = x.id
                       \/ Cardinality(ListingsIn(b)) >= IdLimit(ask[q])
                       \/ Unlisted(q, x)
                       \/ \E tb \in listed[q] : \A y \in stable[q] : y.table # tb
  <2>1. ask[q].op # "op" /\ ask[q].op \notin SeriesOps
    BY DEF SeriesOps
  <2> QED
    BY <1>10, <2>1 DEF Complete, ListingRight, IsSeries
<1>11. x \in rows /\ x.table \in meta /\ IsRow(x) /\ x \in AllRows
  BY <1>10 DEF DataInv, Visible
<1>12. x.table \in AllTables /\ Table(q, x.type) = x.table
       /\ (ask[q].type # "none" => x.table = Table(q, ask[q].type))
  BY <1>10, <1>11, RowInScope DEF Mine
<1>13. CASE x.table \notin T
  <2>1. x.table \notin GivenTables(q)
    BY <1>3, <1>10, <1>12, <1>13 DEF InScope
  <2> QED
    BY <1>10, <1>12, <2>1 DEF GivenTables
<1>14. ASSUME NEW k \in 1..Len(s), s[k].id = x.id, s[k].type = x.type
       PROVE  \E e \in EntitiesIn(b) : e.id = x.id
  <2>1. s[k] \in ToSet(taken)
    BY <1>6, <1>8, <1>11, <1>12, <1>14
  <2>2. PICK e \in ToSet(more) : e = Entity(s[k].id, Own(taken, s[k].id))
    BY <1>6, <2>1
  <2>3. e.id = x.id
    BY <1>14, <2>2 DEF Entity
  <2> QED
    BY <1>9, <2>3
<1>15. CASE Len(s) = IdLimit(ask[q]) /\ \A k \in 1..Len(s) : Table(q, s[k].type) \in meta
  <2>1. \A k \in 1..Len(s) : s[k] \in ToSet(taken)
    BY <1>6, <1>8, <1>15
  <2>2. \A i, j \in 1..Len(s) : i # j => s[i] # s[j]
    BY <1>4 DEF ListingDrawn
  <2>3. \A e \in ToSet(more) : \E n \in Nat : DOMAIN e.index = 1..n
    <3> SUFFICES ASSUME NEW e \in ToSet(more) PROVE \E n \in Nat : DOMAIN e.index = 1..n
      OBVIOUS
    <3> DEFINE E == EntitiesOf(q)
    <3>1. more \in Seq(E)
      BY <1>6
    <3> HIDE DEF E
    <3>2. e \in E
      BY <3>1, MembersOf
    <3>3. e.index \in Seq(Int)
      BY <3>2 DEF E, EntitiesOf
    <3> QED
      BY <3>3
  <2>4. Cardinality(ListingsIn(b)) >= Len(s)
    <3> DEFINE K == KeysOf(q)  E == EntitiesOf(q)
    <3>1. taken \in Seq(K) /\ s \in Seq(K) /\ more \in Seq(E)
      BY <1>6, <1>8
    <3>2. \A y \in ToSet(taken) : \E e \in ToSet(more) : e = Entity(y.id, Own(taken, y.id))
      BY <1>6
    <3> HIDE DEF K, E
    <3> QED
      BY <1>9, <2>1, <2>2, <2>3, <3>1, <3>2, EachIsListed
  <2> QED
    BY <1>15, <2>4
<1>16. ASSUME NEW k \in 1..Len(s), Table(q, s[k].type) \notin meta
       PROVE  \E tb \in listed[q] : \A y \in stable[q] : y.table # tb
  <2> DEFINE tb == Table(q, s[k].type)
  <2>1. tb \in GivenTables(q)
    BY <1>3, <1>8
  <2>2. \A y \in stable[q] : y.table # tb
    BY <1>16 DEF Visible
  <2>3. ask[q].type = "none"
    BY <1>10, <1>12, <2>1, <2>2 DEF GivenTables
  <2> QED
    BY <2>1, <2>2, <2>3 DEF GivenTables
<1>17. CASE x.table \in T
  <2>1. \/ \E k \in 1..Len(s) : s[k].id = x.id /\ s[k].type = x.type
        \/ Len(s) = IdLimit(ask[q])
    BY <1>4, <1>10, <1>17 DEF ListingDrawn
  <2> QED
    BY <1>14, <1>15, <1>16, <2>1
<1> QED
  BY <1>13, <1>17

-----------------------------------------------------------------------------
(* A statement that is passed over is like one that fetches nothing.       *)
LEMMA NothingDrawn ==
    ASSUME NEW q, NEW st
    PROVE  Drawn(q, st, <<>>)
<1> DEFINE K == KeysOf(q)
<1> HIDE DEF K
<1>1. <<>> \in Seq(K) /\ Len(<<>>) = 0
  OBVIOUS
<1> QED
  BY <1>1 DEF Drawn, K

LEMMA NothingFormatted ==
    ASSUME NEW q \in Requests, NEW st \in StatementsOf(q), NEW r,
           NEW es, es = Format(r, st.tables, meta, <<>>)
    PROVE  es = <<>>
<1> DEFINE taken == Taken(r, st.tables, meta, <<>>)
<1>1. FormatOf(q, st, <<>>, taken, es)
  <2> HIDE DEF taken
  <2>1. taken = Taken(r, st.tables, meta, <<>>) /\ Drawn(q, st, <<>>)
    BY NothingDrawn DEF taken
  <2> QED
    BY <2>1, Formatted
<1> HIDE DEF taken
<1>2. ToSet(<<>>) = {}
  BY DEF ToSet
<1>3. ToSet(taken) = {}
  BY <1>1, <1>2 DEF FormatOf
<1>4. es \in Seq(EntitiesOf(q)) /\ ToSet(es) = {}
  BY <1>1, <1>3 DEF FormatOf
<1> QED
  <2> DEFINE E == EntitiesOf(q)
  <2> HIDE DEF E
  <2>1. es \in Seq(E) /\ ToSet(es) = {}
    BY <1>4 DEF E
  <2> QED
    BY <2>1, MembersOf

(* Nothing is missed when no row in question is in a table of it.          *)
Void(q, st) == \A x \in stable[q] : InScope(q, x) => x.table \notin ToSet(st.tables)

LEMMA NothingFetched ==
    ASSUME NEW q \in Requests, DataInv, stable[q] \subseteq rows, NEW st, Void(q, st),
           \/ ask[q].op \in SeriesOps
           \/ ask[q].op = "op" /\ ToSet(st.tables) = {Table(q, ask[q].type)}
    PROVE  FetchedOf(q, st, <<>>)
<1>1. Len(<<>>) = 0 /\ Drawn(q, st, <<>>)
  BY NothingDrawn
<1>2. ask[q].op # "NTNE"
  BY DEF SeriesOps
<1>3. ASSUME IsSeries(q) PROVE SeriesDrawn(q, st, <<>>)
  <2>1. RowsOf(<<>>) = {}
    BY <1>1 DEF RowsOf
  <2>2. \A x \in stable[q] : InScope(q, x) => st.tables # <<x.table>>
    <3> SUFFICES ASSUME NEW x \in stable[q], InScope(q, x), st.tables = <<x.table>>
                 PROVE  FALSE
      OBVIOUS
    <3>1. x.table \in ToSet(st.tables)
      BY DEF ToSet
    <3> QED
      BY <3>1 DEF Void
  <2> QED
    BY <1>1, <2>1, <2>2 DEF SeriesDrawn, Fits
<1>4. ASSUME ask[q].op = "op" PROVE LatestDrawn(q, st, <<>>)
  <2>1. ToSet(st.tables) = {Table(q, ask[q].type)} /\ ask[q].type # "none"
    BY <1>4, AskedFor DEF SeriesOps
  <2>2. \A x \in stable[q] : ~InScope(q, x)
    BY <2>1 DEF Void, InScope
  <2> QED
    BY <1>1, <2>2 DEF LatestDrawn
<1> QED
  BY <1>1, <1>2, <1>3, <1>4 DEF FetchedOf

(* A statement that does not run asks for a table that is gone, or that    *)
(* has no row in question.                                                 *)
LEMMA NotRunning ==
    ASSUME NEW q \in Requests, DataInv, stable[q] \subseteq Visible,
           ToSet(Head(work[q]).tables) = {} \/ \E tb : ToSet(Head(work[q]).tables) = {tb},
           ~Runs(q)
    PROVE  Void(q, Head(work[q])) /\ \E tb : ToSet(Head(work[q]).tables) = {tb}
<1>1. PICK tb \in ToSet(Head(work[q]).tables) : tb \notin tables \/ ~HasColumns(tb, ask[q])
  BY DEF Runs, Head1
<1>2. ToSet(Head(work[q]).tables) = {tb}
  BY <1>1
<1>3. \A x \in stable[q] : InScope(q, x) => x.table # tb
  BY <1>1 DEF Visible, InScope
<1> QED
  BY <1>2, <1>3 DEF Void

LEMMA ListingNotRunning ==
    ASSUME NEW q \in Requests, DataInv, stable[q] \subseteq Visible, ask[q].op = "NTNE",
           ToSet(Head(work[q]).tables) \subseteq GivenTables(q), ~Runs(q), NEW b
    PROVE  Complete(q, b)
<1>1. ask[q].attr = "all" /\ ask[q].geo = NoGeo
  BY DEF DataInv, IsRequest
<1>2. PICK tb \in ToSet(Head(work[q]).tables) : tb \notin tables
  BY <1>1 DEF Runs, Head1, HasColumns
<1>3. \A y \in stable[q] : y.table # tb
  BY <1>2 DEF Visible
<1>4. ListingRight(q, b)
  <2> SUFFICES ASSUME NEW x \in stable[q], InScope(q, x)
               PROVE  \E tc \in listed[q] : \A y \in stable[q] : y.table # tc
    BY DEF ListingRight
  <2>1. ask[q].type = "none"
    <3>1. ask[q].type # "none" => x.table = tb
      BY <1>2 DEF InScope, GivenTables
    <3> QED
      BY <1>3, <3>1
  <2>2. tb \in listed[q]
    BY <1>2, <2>1 DEF GivenTables
  <2> QED
    BY <1>3, <2>2
<1>5. ask[q].op \notin SeriesOps /\ ask[q].op # "op"
  BY DEF SeriesOps
<1> QED
  BY <1>4, <1>5 DEF Complete, IsSeries

(* A series goes on without a table it cannot query, or with the message   *)
(* of the database instead.                                                *)
LEMMA SeriesSkips ==
    ASSUME NEW q \in Requests, DataInv, ask[q].op \in SeriesOps, NEW w, w # <<>>,
           NEW es, Pending(q, w, es)
    PROVE  Pending(q, Tail(w), es)
<1> DEFINE S == StatementsOf(q)  M == Messages(q)  st == Head(w)
           more == Format(ask[q], st.tables, meta, <<>>)
<1>1. w \in Seq(S) /\ es \in Seq(M)
  BY DEF Pending
<1>2. st \in S
  <2> HIDE DEF S
  <2> QED
    BY <1>1, TailFacts
<1>3. more = <<>>
  <2> HIDE DEF st, more
  <2>1. more = Format(ask[q], st.tables, meta, <<>>)
    BY DEF more
  <2> QED
    BY <1>2, <2>1, NothingFormatted
<1>4. es \o <<>> = es
  <2> HIDE DEF M
  <2> QED
    BY <1>1
<1>5. Drawn(q, Head(w), <<>>) /\ more = Format(ask[q], Head(w).tables, meta, <<>>)
  BY NothingDrawn
<1>6. Pending(q, Tail(w), es \o more)
  <2> HIDE DEF more
  <2> QED
    BY <1>5, SeriesGoesOn
<1> QED
  BY <1>3, <1>4, <1>6

LEMMA SeriesRefuses ==
    ASSUME NEW q \in Requests, DataInv, ask[q].op \in SeriesOps, NEW w, w # <<>>,
           NEW es, Pending(q, w, es)
    PROVE  Pending(q, Tail(w), Append(es, Refused404))
<1> DEFINE S == StatementsOf(q)  M == Messages(q)  v == Tail(w)
           all == Append(es, Refused404)  n == Len(es)
<1>1. w \in Seq(S) /\ es \in Seq(M) /\ Refused404 \in M /\ Ranged(q, w, es)
  BY DEF Pending, Messages
<1>2. Pending(q, v, es)
  BY SeriesSkips
<1>3. /\ v \in Seq(S) /\ OneTableEach(q, v) /\ Ranged(q, v, es)
  BY <1>2 DEF Pending
<1>4. Len(v) = Len(w) - 1 /\ Len(w) \in Nat
  <2> HIDE DEF S
  <2> QED
    BY <1>1, TailFacts
<1>5. /\ all \in Seq(M) /\ Len(all) = n + 1 /\ n \in Nat
      /\ \A k \in 1..n : all[k] = es[k]
      /\ all[n + 1] = Refused404
      /\ ToSet(all) = ToSet(es) \cup {Refused404}
  <2> HIDE DEF M
  <2>1. <<Refused404>> \in Seq(M) /\ ToSet(<<Refused404>>) = {Refused404}
    BY <1>1 DEF ToSet
  <2>2. all = es \o <<Refused404>>
    BY <1>1
  <2>3. ToSet(es \o <<Refused404>>) = ToSet(es) \cup ToSet(<<Refused404>>)
    <3> DEFINE one == <<Refused404>>
    <3>1. es \in Seq(M) /\ one \in Seq(M)
      BY <1>1, <2>1
    <3> HIDE DEF one
    <3>2. ToSet(es \o one) = ToSet(es) \cup ToSet(one)
      BY <3>1, MembersOfJoin
    <3> QED
      BY <3>2 DEF one
  <2> QED
    BY <1>1, <2>1, <2>2, <2>3
<1> HIDE DEF all, n, v
<1>6. ASSUME NEW i \in 1..Len(all), NEW j \in 1..Len(all), i < j,
             all[i] # Refused404, all[j] # Refused404
      PROVE  Pos(Table(q, all[i].type)) <= Pos(Table(q, all[j].type))
  <2>1. i \in 1..n /\ j \in 1..n
    <3>1. i # n + 1 /\ j # n + 1
      BY <1>5, <1>6
    <3> QED
      BY <1>5, <3>1
  <2> QED
    BY <1>3, <1>5, <1>6, <2>1 DEF Ranged, n
<1>7. \A e \in ToSet(all) \ {Refused404} : e \in ToSet(es) \ {Refused404}
  BY <1>5
<1>8. ask[q].op \in FirstOps => Len(v) + Len(all) <= 1
  <2> SUFFICES ASSUME ask[q].op \in FirstOps PROVE Len(v) + Len(all) <= 1
    OBVIOUS
  <2>1. Len(w) + n <= 1
    BY <1>1 DEF Ranged, n
  <2> QED
    BY <1>4, <1>5, <2>1 DEF v
<1>9. Ranged(q, v, all)
  BY <1>3, <1>6, <1>7, <1>8 DEF Ranged
<1>10. ask[q].op # "op" /\ ask[q].op # "NTNE"
  BY DEF SeriesOps
<1> QED
  BY <1>3, <1>5, <1>9, <1>10 DEF Pending, v, all

-----------------------------------------------------------------------------
(* The end of a request, and its way on from statement to statement.       *)
LEMMA RestOf ==
    ASSUME NEW C, NEW w \in Seq(C), w # <<>>
    PROVE  Tail(w) = <<>> <=> Len(w) = 1
<1>1. Len(w) \in Nat /\ Len(w) # 0
  OBVIOUS
<1>2. Tail(w) \in Seq(C) /\ Len(Tail(w)) = Len(w) - 1
  OBVIOUS
<1>3. Tail(w) = <<>> <=> Len(Tail(w)) = 0
  BY <1>2
<1> QED
  BY <1>1, <1>2, <1>3

LEMMA Ends ==
    ASSUME NEW q \in Requests, Domains, NEW code, NEW body, Answer(q, code, body),
           ~shifted' => stable'[q] \subseteq rows',
           code # 200 => body = <<>>, code = 200 => Answered(q, body)',
           code = 200 /\ ~struck'[q] => Complete(q, body)'
    PROVE  Queried(q)'
<1>1. phase'[q] = "done" /\ answer'[q] = [code |-> code, body |-> body]
  BY DEF Answer, Step, Domains
<1>2. answer'[q].code = code /\ answer'[q].body = body
  BY <1>1
<1>3. phase'[q] \notin Knowing /\ phase'[q] # "erase"
      /\ phase'[q] \notin {"list", "fill", "listed", "select", "format",
                         "drop", "unmeta", "forget"}
  BY <1>1 DEF Knowing
<1> QED
  BY <1>1, <1>2, <1>3 DEF Queried, Knowing

LEMMA ProceedAnswers ==
    ASSUME NEW q \in Requests, Stays(q), Queried(q), phase[q] \in {"select", "format"},
           ~shifted' => stable'[q] \subseteq rows',
           NEW all, Proceed(q, all), Pending(q, Tail(work[q]), all),
           ask[q].op = "NTNE" => Len(work[q]) = 1,
           ~struck'[q] /\ ask[q].op # "NTNE" => Careful(q, Tail(work[q]), all),
           ~struck'[q] /\ ask[q].op = "NTNE" =>
                \A b : Presents(q, Entitled(all), b) => Complete(q, b)
    PROVE  Queried(q)'
<1>1. /\ DataInv /\ ask' = ask /\ conf' = conf /\ listed'[q] = listed[q]
      /\ stable'[q] \subseteq stable[q]
  BY DEF Stays
<1>2. /\ ask[q].op \notin RemovalOps /\ work[q] # <<>> /\ Pending(q, work[q], found[q])
      /\ answer[q].body = <<>>
  BY DEF Queried
<1>3. Domains
  BY <1>1 DEF DataInv
<1>4. work[q] \in Seq(StatementsOf(q)) /\ all \in Seq(Messages(q))
  BY <1>2 DEF Pending
<1>5. CASE Len(work[q]) = 1
  <2>1. Tail(work[q]) = <<>>
    <3> DEFINE S == StatementsOf(q)  w == work[q]
    <3>1. w \in Seq(S) /\ Len(w) = 1 /\ w # <<>>
      BY <1>2, <1>4, <1>5
    <3> HIDE DEF S, w
    <3>2. Tail(w) = <<>>
      BY <3>1, RestOf
    <3> QED
      BY <3>2 DEF w
  <2>2. Pending(q, <<>>, all)
    BY <2>1
  <2> DEFINE s == Entitled(all)
  <2> PICK b : b = Body(Handler(q).body, ask[q], s)
    OBVIOUS
  <2>3. Respond(q, all)
    BY <1>5 DEF Proceed
  <2>4. Answer(q, 404, <<>>) \/ Answer(q, 200, b)
    BY <2>3 DEF Respond, Entitled
  <2> HIDE DEF s
  <2>5. Presents(q, s, b) /\ Answered(q, b)
    BY <1>1, <1>2, <2>2, Responds DEF s
  <2>6. ~struck'[q] => Complete(q, b)
    <3> SUFFICES ASSUME ~struck'[q] PROVE Complete(q, b)
      OBVIOUS
    <3>1. CASE ask[q].op = "NTNE"
      BY <2>5, <3>1 DEF s
    <3>2. CASE ask[q].op # "NTNE"
      <4>1. Careful(q, <<>>, all)
        BY <2>1, <3>2
      <4> QED
        BY <1>4, <2>5, <3>2, <4>1, RespondsInFull DEF s
    <3> QED
      BY <3>1, <3>2
  <2>7. Answered(q, b)' /\ (~struck'[q] => Complete(q, b)')
    BY <2>5, <2>6, AnswerStays
  <2>8. CASE Answer(q, 404, <<>>)
    BY <1>3, <2>8, Ends
  <2>9. CASE Answer(q, 200, b)
    BY <1>3, <2>7, <2>9, Ends
  <2> QED
    BY <2>4, <2>8, <2>9
<1>6. CASE Len(work[q]) # 1
  <2> PICK v : v = Tail(work[q])
    OBVIOUS
  <2>1. /\ phase'[q] = "select" /\ work'[q] = v /\ found'[q] = all
        /\ answer'[q] = answer[q]
    BY <1>3, <1>6 DEF Proceed, Step, Domains
  <2>2. v # <<>>
    <3> DEFINE S == StatementsOf(q)  w == work[q]
    <3>1. w \in Seq(S) /\ Len(w) # 1 /\ w # <<>>
      BY <1>2, <1>4, <1>6
    <3> HIDE DEF S, w
    <3>2. Tail(w) # <<>>
      BY <3>1, RestOf
    <3> QED
      BY <3>2 DEF w
  <2>3. Pending(q, v, all)'
    BY <1>1, PendingStays
  <2>4. ~struck'[q] => Careful(q, v, all)'
    BY <1>6, CarefulStays
  <2>5. ask[q].type = "none" /\ ask[q].op \notin FirstOps
            => \A x \in stable[q] : InScope(q, x) => x.table \in listed[q] \/ Unlisted(q, x)
    BY DEF Queried, Knowing
  <2>6. \A x : InScope(q, x)' <=> InScope(q, x)
    BY <1>1, SameQuestion
  <2>7. \A x : Unlisted(q, x)' <=> Unlisted(q, x)
    BY UnlistedStays
  <2>8. ask'[q].type = "none" /\ ask'[q].op \notin FirstOps
            => \A x \in stable'[q] : InScope(q, x)' => x.table \in listed'[q] \/ Unlisted(q, x)'
    BY <1>1, <2>5, <2>6, <2>7
  <2> QED
    BY <1>1, <1>2, <2>1, <2>2, <2>3, <2>4, <2>8 DEF Queried, Knowing
<1> QED
  BY <1>5, <1>6

LEMMA AskedLastN ==
    ASSUME NEW q \in Requests, DataInv
    PROVE  Asked(q).lastN = ask[q].lastN
<1>1. ask[q] \in Asks
  BY DEF DataInv, IsRequest
<1> QED
  BY <1>1 DEF Asked, Asks

(* A request goes on without a value: its statement is passed over, or     *)
(* what it fetched came to nothing.                                        *)
Passed(q) ==
    \E s : /\ FetchedOf(q, Head(work[q]), s)
           /\ Format(Asked(q), Head(work[q]).tables, meta, s) = <<>>

LEMMA WithoutValueAnswers ==
    ASSUME NEW q \in Requests, Stays(q), Queried(q), phase[q] \in {"select", "format"},
           ~shifted' => stable'[q] \subseteq rows', stable[q] \subseteq Visible,
           WithoutValue(q), struck[q] => struck'[q],
           ~struck'[q] => Passed(q) \/ (ask[q].op = "NTNE" /\ \A b : Complete(q, b))
    PROVE  Queried(q)'
<1>1. DataInv /\ Domains
  BY DEF Stays, DataInv
<1>2. /\ ask[q].op \in SeriesOps \cup {"NTNE", "op"} /\ work[q] # <<>>
      /\ Pending(q, work[q], found[q])
      /\ ~struck'[q] => Careful(q, work[q], found[q])
  <2>1. ask[q].op \in SeriesOps \cup RemovalOps \cup {"NTNE", "op"}
    BY <1>1, AskedFor
  <2> QED
    BY <2>1 DEF Queried
<1>3. /\ work[q] \in Seq(StatementsOf(q)) /\ found[q] \in Seq(Messages(q))
  BY <1>2 DEF Pending
<1>4. /\ ask[q].op = "op" => Handler(q).call = "last_value"
      /\ ask[q].op # "op" => Handler(q).call # "last_value"
  BY <1>2, QueryHandlers
<1>5. ASSUME ask[q].op = "op"
      PROVE  Queried(q)'
  <2>1. Answer(q, 200, <<>>)
    BY <1>4, <1>5 DEF WithoutValue
  <2>2. ~struck'[q] => Complete(q, <<>>)
    <3> SUFFICES ASSUME ~struck'[q] PROVE Complete(q, <<>>)
      OBVIOUS
    <3>1. PICK s : /\ FetchedOf(q, Head(work[q]), s)
                   /\ Format(Asked(q), Head(work[q]).tables, meta, s) = <<>>
      BY <1>5 DEF Passed
    <3>2. Asked(q).lastN = 0
      BY <1>1, <1>5, AskedLastN, AskedFor
    <3> QED
      BY <1>1, <1>2, <1>5, <3>1, <3>2, LatestGoesOn
  <2>3. Answered(q, <<>>)' /\ (~struck'[q] => Complete(q, <<>>)')
    BY <2>2, AnswerStays, NothingAnswered
  <2> QED
    BY <1>1, <2>1, <2>3, Ends
<1>6. ASSUME ask[q].op = "NTNE"
      PROVE  Queried(q)'
  <2>1. Proceed(q, found[q])
    BY <1>4, <1>6 DEF WithoutValue
  <2>2. OneStatement(q, work[q], found[q])
    BY <1>2, <1>6 DEF Pending
  <2>3. Len(work[q]) = 1 /\ found[q] = <<>>
    BY <1>2, <2>2 DEF OneStatement
  <2>4. Tail(work[q]) = <<>>
    BY <1>2, <1>3, <2>3, RestOf
  <2>5. Pending(q, <<>>, <<>>)
    <3>1. <<>> \in Seq(StatementsOf(q)) /\ <<>> \in Seq(Messages(q))
      <4> DEFINE A == StatementsOf(q)  B == Messages(q)
      <4> HIDE DEF A, B
      <4>1. <<>> \in Seq(A) /\ <<>> \in Seq(B)
        OBVIOUS
      <4> QED
        BY <4>1 DEF A, B
    <3>2. ask[q].op \notin SeriesOps /\ ask[q].op # "op"
      BY <1>6 DEF SeriesOps
    <3> QED
      BY <3>1, <3>2 DEF Pending
  <2>6. ASSUME ~struck'[q], NEW b, Presents(q, Entitled(found[q]), b)
        PROVE  Complete(q, b)
    <3>1. ASSUME Passed(q) PROVE Complete(q, b)
      <4>1. PICK s : /\ FetchedOf(q, Head(work[q]), s)
                     /\ Format(Asked(q), Head(work[q]).tables, meta, s) = <<>>
        BY <3>1 DEF Passed
      <4>2. Entitled(found[q]) = <<>>
        <5> DEFINE E == EntitiesOf(q)  n == Entitled(found[q])
        <5>1. n \in Seq(E) /\ Len(n) <= Len(<<>>)
          BY <1>3, <2>3, EntitledFacts
        <5> HIDE DEF E, n
        <5>2. n = <<>>
          BY <5>1
        <5> QED
          BY <5>2 DEF n
      <4>3. Presents(q, <<>>, b)
        BY <2>6, <4>2
      <4>4. \A x \in stable[q] : InScope(q, x) /\ ask[q].type = "none"
                => x.table \in listed[q] \/ Unlisted(q, x)
        BY <1>6 DEF Queried, Knowing, FirstOps
      <4> QED
        BY <1>1, <1>2, <1>6, <4>1, <4>3, <4>4, ListingAnswers
    <3> QED
      BY <2>6, <3>1
  <2>7. Pending(q, Tail(work[q]), found[q])
    BY <2>3, <2>4, <2>5
  <2> QED
    BY <1>6, <2>1, <2>3, <2>6, <2>7, ProceedAnswers
<1>7. ASSUME ask[q].op \in SeriesOps
      PROVE  Queried(q)'
  <2>1. ask[q].op # "op" /\ ask[q].op # "NTNE"
    BY <1>7 DEF SeriesOps
  <2>2. Proceed(q, found[q])
    BY <1>4, <2>1 DEF WithoutValue
  <2>3. Pending(q, Tail(work[q]), found[q])
    BY <1>1, <1>2, <1>7, SeriesSkips
  <2>4. ~struck'[q] => Careful(q, Tail(work[q]), found[q])
    <3> SUFFICES ASSUME ~struck'[q] PROVE Careful(q, Tail(work[q]), found[q])
      OBVIOUS
    <3>1. PICK s : /\ FetchedOf(q, Head(work[q]), s)
                   /\ Format(Asked(q), Head(work[q]).tables, meta, s) = <<>>
      BY <2>1 DEF Passed
    <3>2. Asked(q).lastN = ask[q].lastN
      BY <1>1, AskedLastN
    <3>3. found[q] \o <<>> = found[q]
      <4> DEFINE M == Messages(q)  es == found[q]
      <4>1. es \in Seq(M)
        BY <1>3
      <4> HIDE DEF M, es
      <4>2. es \o <<>> = es
        BY <4>1
      <4> QED
        BY <4>2 DEF es
    <3>4. CASE IsSeries(q)
      <4>1. Careful(q, Tail(work[q]), found[q] \o <<>>)
        BY <1>1, <1>2, <3>1, <3>2, <3>4, SeriesKeeps
      <4> QED
        BY <3>3, <4>1
    <3>5. CASE ~IsSeries(q)
      BY <2>1, <3>5 DEF Careful
    <3> QED
      BY <3>4, <3>5
  <2> QED
    BY <2>1, <2>2, <2>3, <2>4, ProceedAnswers
<1> QED
  BY <1>2, <1>5, <1>6, <1>7

LEMMA PresentsSame ==
    ASSUME NEW q, NEW s, NEW t, NEW b, ToSet(s) = ToSet(t), Presents(q, s, b)
    PROVE  Presents(q, t, b)
  BY DEF Presents, RowsIn

LEMMA Strikes ==
    ASSUME NEW q \in Requests, Domains, NEW kind, Strike(q, kind)
    PROVE  struck'[q] = TRUE
  BY StrikeStruck

(* The step that formats the rows of a statement.                          *)
LEMMA FormatAnswers ==
    ASSUME NEW q \in Requests, Stays(q), Queried(q), FormatRows(q),
           ~shifted' => stable'[q] \subseteq rows', stable[q] \subseteq Visible
    PROVE  Queried(q)'
<1> DEFINE es == Format(Asked(q), Head(work[q]).tables, meta, fetched[q])
           w == work[q]
<1>1. DataInv /\ Domains /\ phase[q] = "format"
  BY DEF Stays, DataInv, FormatRows
<1>2. /\ ask[q].op \in SeriesOps \cup {"NTNE", "op"} /\ work[q] # <<>>
      /\ Pending(q, work[q], found[q]) /\ FetchedOf(q, Head(work[q]), fetched[q])
      /\ ~struck[q] => Careful(q, work[q], found[q])
  <2>1. ask[q].op \in SeriesOps \cup RemovalOps \cup {"NTNE", "op"}
    BY <1>1, AskedFor
  <2> QED
    BY <1>1, <2>1 DEF Queried
<1>3. /\ work[q] \in Seq(StatementsOf(q)) /\ found[q] \in Seq(Messages(q))
  BY <1>2 DEF Pending
<1>4. /\ ask[q].op = "op" => Handler(q).call = "last_value"
      /\ ask[q].op # "op" => Handler(q).call # "last_value"
  BY <1>2, QueryHandlers
<1>5. Asked(q).lastN = ask[q].lastN
  BY <1>1, AskedLastN
<1>6. \/ /\ struck' = struck
         /\ IF es = <<>> THEN WithoutValue(q)
            ELSE Proceed(q, found[q] \o
                            IF Handler(q).call = "last_value" THEN <<es[1]>> ELSE es)
      \/ Strike(q, "sql") /\ WithoutValue(q)
      \/ Strike(q, "down") /\ Answer(q, 500, <<>>)
  BY DEF FormatRows, Head1
<1>7. CASE Strike(q, "sql") /\ WithoutValue(q)
  <2>1. struck'[q] = TRUE
    BY <1>1, <1>7, Strikes
  <2> QED
    BY <1>1, <1>7, <2>1, WithoutValueAnswers
<1>8. CASE Strike(q, "down") /\ Answer(q, 500, <<>>)
  BY <1>1, <1>8, Ends
<1>9. CASE struck' = struck /\ es = <<>> /\ WithoutValue(q)
  <2>1. Passed(q)
    BY <1>2, <1>9 DEF Passed
  <2> QED
    BY <1>1, <1>9, <2>1, WithoutValueAnswers
<1>10. ASSUME struck' = struck, es # <<>>, ask[q].op = "op", Proceed(q, found[q] \o <<es[1]>>)
       PROVE  Queried(q)'
  <2>1. Asked(q).lastN = 0
    BY <1>1, <1>5, <1>10, AskedFor
  <2> PICK more : more = es
    OBVIOUS
  <2>2. /\ Pending(q, Tail(w), found[q] \o <<more[1]>>)
        /\ Careful(q, w, found[q]) => Careful(q, Tail(w), found[q] \o <<more[1]>>)
    BY <1>1, <1>2, <1>10, <2>1, LatestGoesOn
  <2> PICK all : all = found[q] \o <<more[1]>>
    OBVIOUS
  <2>3. Proceed(q, all) /\ Pending(q, Tail(work[q]), all)
        /\ (~struck'[q] => Careful(q, Tail(work[q]), all))
    BY <1>2, <1>10, <2>2
  <2> HIDE DEF es
  <2> QED
    BY <1>1, <1>10, <2>3, ProceedAnswers
<1>11. ASSUME struck' = struck, ask[q].op \in SeriesOps, Proceed(q, found[q] \o es)
       PROVE  Queried(q)'
  <2>1. ask[q].op # "op" /\ ask[q].op # "NTNE"
    BY <1>11 DEF SeriesOps
  <2> PICK all : all = found[q] \o es
    OBVIOUS
  <2>2. Drawn(q, Head(w), fetched[q])
    BY <1>2 DEF FetchedOf
  <2>3. Pending(q, Tail(w), all)
    BY <1>1, <1>2, <1>11, <2>2, SeriesGoesOn
  <2>4. ~struck[q] => Careful(q, Tail(w), all)
    <3>1. CASE IsSeries(q)
      BY <1>1, <1>2, <1>5, <3>1, SeriesKeeps
    <3>2. CASE ~IsSeries(q)
      BY <2>1, <3>2 DEF Careful
    <3> QED
      BY <3>1, <3>2
  <2>5. Proceed(q, all) /\ Pending(q, Tail(work[q]), all)
        /\ (~struck'[q] => Careful(q, Tail(work[q]), all))
    BY <1>11, <2>3, <2>4
  <2> HIDE DEF es
  <2> QED
    BY <1>1, <2>1, <2>5, ProceedAnswers
<1>12. ASSUME struck' = struck, ask[q].op = "NTNE", Proceed(q, found[q] \o es)
       PROVE  Queried(q)'
  <2>1. Len(work[q]) = 1 /\ found[q] = <<>>
    BY <1>2, <1>12 DEF Pending, OneStatement
  <2>2. Tail(work[q]) = <<>>
    BY <1>2, <1>3, <2>1, RestOf
  <2> PICK more : more = es
    OBVIOUS
  <2>3. more \in Seq(EntitiesOf(q)) /\ more \in Seq(Messages(q)) /\ Refused404 \notin ToSet(more)
    <3> DEFINE st == Head(w)  taken == Taken(Asked(q), st.tables, meta, fetched[q])
    <3>1. Drawn(q, st, fetched[q]) /\ more = Format(Asked(q), st.tables, meta, fetched[q])
      BY <1>2 DEF FetchedOf
    <3>2. st \in StatementsOf(q)
      BY <1>2, <1>3, TailFacts
    <3> HIDE DEF st, taken
    <3>3. FormatOf(q, st, fetched[q], taken, more)
      BY <3>1, <3>2, Formatted DEF taken
    <3>4. more \in Seq(EntitiesOf(q))
      BY <3>3 DEF FormatOf
    <3>5. ToSet(more) \subseteq EntitiesOf(q)
      <4> DEFINE E == EntitiesOf(q)
      <4>1. more \in Seq(E)
        BY <3>4
      <4> HIDE DEF E
      <4>2. ToSet(more) \subseteq E
        BY <4>1, MembersOf
      <4> QED
        BY <4>2 DEF E
    <3> QED
      BY <3>4, <3>5, NotRefused DEF Messages
  <2>4. found[q] \o es = more
    <3> DEFINE E == EntitiesOf(q)
    <3>1. more \in Seq(E)
      BY <2>3
    <3> HIDE DEF E
    <3>2. <<>> \o more = more
      BY <3>1
    <3> QED
      BY <2>1, <3>2
  <2>5. Pending(q, <<>>, more)
    <3>1. <<>> \in Seq(StatementsOf(q))
      <4> DEFINE A == StatementsOf(q)
      <4> HIDE DEF A
      <4>1. <<>> \in Seq(A)
        OBVIOUS
      <4> QED
        BY <4>1 DEF A
    <3>2. ask[q].op \notin SeriesOps /\ ask[q].op # "op"
      BY <1>12 DEF SeriesOps
    <3> QED
      BY <2>3, <3>1, <3>2 DEF Pending
  <2>6. ASSUME NEW b, Presents(q, Entitled(more), b)
        PROVE  Complete(q, b)
    <3>1. ToSet(Entitled(more)) = ToSet(more)
      <4>1. \A e : e \in ToSet(Entitled(more)) <=> e \in ToSet(more) /\ e # Refused404
        BY <2>3, EntitledFacts
      <4> QED
        BY <2>3, <4>1
    <3>2. Presents(q, more, b)
      BY <2>6, <3>1, PresentsSame
    <3>3. \A x \in stable[q] : InScope(q, x) /\ ask[q].type = "none"
              => x.table \in listed[q] \/ Unlisted(q, x)
      BY <1>1, <1>12 DEF Queried, Knowing, FirstOps
    <3> QED
      BY <1>1, <1>2, <1>12, <3>2, <3>3, ListingAnswers
  <2>7. Proceed(q, more) /\ Pending(q, Tail(work[q]), more)
    BY <1>12, <2>2, <2>4, <2>5
  <2> HIDE DEF es
  <2> QED
    BY <1>1, <1>12, <2>1, <2>6, <2>7, ProceedAnswers
<1> HIDE DEF es
<1>13. CASE struck' = struck /\ es # <<>>
            /\ Proceed(q, found[q] \o
                          IF Handler(q).call = "last_value" THEN <<es[1]>> ELSE es)
  <2>1. ask[q].op = "op" => Proceed(q, found[q] \o <<es[1]>>)
    BY <1>4, <1>13
  <2>2. ask[q].op # "op" => Proceed(q, found[q] \o es)
    BY <1>4, <1>13
  <2>3. ask[q].op \in {"NTNE"} \cup SeriesOps => ask[q].op # "op"
    BY DEF SeriesOps
  <2> QED
    BY <1>2, <1>10, <1>11, <1>12, <1>13, <2>1, <2>2, <2>3
<1> QED
  BY <1>6, <1>7, <1>8, <1>9, <1>13

(* The step that runs a statement.                                         *)
LEMMA SelectPasses ==
    ASSUME NEW q \in Requests, DataInv, Queried(q), phase[q] = "select",
           stable[q] \subseteq Visible, ~Runs(q)
    PROVE  Passed(q) \/ (ask[q].op = "NTNE" /\ \A b : Complete(q, b))
<1> DEFINE w == work[q]  st == Head(w)
<1>1. /\ w # <<>> /\ Pending(q, w, found[q])
      /\ ask[q].op \in SeriesOps \cup {"NTNE", "op"}
  <2>1. ask[q].op \in SeriesOps \cup RemovalOps \cup {"NTNE", "op"}
    BY AskedFor
  <2> QED
    BY <2>1 DEF Queried
<1>2. w \in Seq(StatementsOf(q))
  BY <1>1 DEF Pending
<1>3. st \in StatementsOf(q) /\ st = w[1] /\ 1 \in 1..Len(w)
  BY <1>1, <1>2, TailFacts
<1> HIDE DEF w, st
<1>4. ASSUME FetchedOf(q, st, <<>>) PROVE Passed(q)
  <2>1. Format(Asked(q), st.tables, meta, <<>>) = <<>>
    BY <1>3, NothingFormatted
  <2> QED
    BY <1>4, <2>1 DEF Passed, st, w
<1>5. stable[q] \subseteq rows
  BY DEF Visible
<1>6. CASE ask[q].op \in SeriesOps
  <2>1. PICK tb : st.tables = <<tb>>
    BY <1>1, <1>3, <1>6 DEF Pending, OneTableEach
  <2>2. ToSet(st.tables) = {tb}
    <3>1. ToSet(<<tb>>) = {tb}
      BY DEF ToSet
    <3> QED
      BY <2>1, <3>1
  <2>3. Void(q, st)
    <3>1. \E tc : ToSet(Head(work[q]).tables) = {tc}
      BY <2>2 DEF st, w
    <3> QED
      BY <3>1, NotRunning DEF st, w
  <2> QED
    BY <1>4, <1>5, <1>6, <2>3, NothingFetched
<1>7. CASE ask[q].op = "op"
  <2> DEFINE tb == Table(q, ask[q].type)
  <2>1. st.tables = InOrder({tb})
    BY <1>1, <1>3, <1>7 DEF Pending, IdsEach
  <2>2. ToSet(st.tables) = AllTables \cap {tb}
    BY <2>1, InOrderFacts
  <2>3. ToSet(st.tables) = {} \/ ToSet(st.tables) = {tb}
    BY <2>2
  <2>4. Void(q, st) /\ \E tc : ToSet(st.tables) = {tc}
    <3>1. ToSet(Head(work[q]).tables) = {} \/ \E tc : ToSet(Head(work[q]).tables) = {tc}
      BY <2>3 DEF st, w
    <3> QED
      BY <3>1, NotRunning DEF st, w
  <2>5. ToSet(st.tables) = {tb}
    BY <2>3, <2>4
  <2> QED
    BY <1>4, <1>5, <1>7, <2>4, <2>5, NothingFetched
<1>8. CASE ask[q].op = "NTNE"
  <2>1. PICK G \in SUBSET GivenTables(q) : st.tables = InOrder(G)
    BY <1>1, <1>3, <1>8 DEF Pending, OneStatement
  <2>2. ToSet(st.tables) \subseteq GivenTables(q)
    <3>1. ToSet(st.tables) = AllTables \cap G
      BY <2>1, InOrderFacts
    <3> QED
      BY <3>1
  <2> QED
    BY <1>8, <2>2, ListingNotRunning DEF st, w
<1> QED
  BY <1>1, <1>6, <1>7, <1>8

LEMMA SelectAnswers ==
    ASSUME NEW q \in Requests, Stays(q), Queried(q), Select(q),
           ~shifted' => stable'[q] \subseteq rows', stable[q] \subseteq Visible
    PROVE  Queried(q)'
<1>1. /\ DataInv /\ Domains /\ phase[q] = "select" /\ ask' = ask /\ conf' = conf
      /\ listed'[q] = listed[q] /\ stable'[q] \subseteq stable[q]
  BY DEF Stays, DataInv, Select
<1>2. /\ ask[q].op \in SeriesOps \cup {"NTNE", "op"} /\ work[q] # <<>>
      /\ Pending(q, work[q], found[q]) /\ ask[q].op \notin RemovalOps
      /\ ~struck[q] => Careful(q, work[q], found[q])
      /\ answer[q].body = <<>>
  <2>1. ask[q].op \in SeriesOps \cup RemovalOps \cup {"NTNE", "op"}
    BY <1>1, AskedFor
  <2> QED
    BY <1>1, <2>1 DEF Queried
<1>3. /\ work[q] \in Seq(StatementsOf(q)) /\ found[q] \in Seq(Messages(q))
      /\ Head(work[q]) \in StatementsOf(q) /\ Head(work[q]) = work[q][1]
      /\ 1 \in 1..Len(work[q])
  <2>1. /\ work[q] \in Seq(StatementsOf(q)) /\ found[q] \in Seq(Messages(q))
    BY <1>2 DEF Pending
  <2> QED
    BY <1>2, <2>1, TailFacts
<1>4. \/ /\ \E s \in Results(q) : fetched' = [fetched EXCEPT ![q] = s]
         /\ Step(q, "format") /\ UNCHANGED <<work, found, answer, struck>>
      \/ NoAggregate(q) /\ Proceed(q, Append(found[q], Refused404)) /\ struck' = struck
      \/ ~Runs(q) /\ WithoutValue(q) /\ struck' = struck
      \/ Strike(q, "sql") /\ WithoutValue(q)
      \/ Strike(q, "down") /\ Answer(q, 500, <<>>)
  BY DEF Select
<1>5. CASE /\ \E s \in Results(q) : fetched' = [fetched EXCEPT ![q] = s]
           /\ Step(q, "format") /\ UNCHANGED <<work, found, answer, struck>>
  <2>1. PICK s \in Results(q) : fetched' = [fetched EXCEPT ![q] = s]
    BY <1>5
  <2>2. fetched'[q] = s /\ phase'[q] = "format"
    BY <1>1, <1>5, <2>1 DEF Domains, Step
  <2>3. stable[q] \subseteq rows
    BY DEF Visible
  <2>4. FetchedOf(q, Head(work[q]), s)
    <3>1. CASE ask[q].op \in SeriesOps
      <4>1. PICK tb \in Mine(q) : work[q][1].tables = <<tb>>
        BY <1>2, <1>3, <3>1 DEF Pending, OneTableEach
      <4>2. work[q][1].ids = ask[q].ids
        BY <1>2, <1>3, <3>1 DEF Pending, OneTableEach
      <4> QED
        BY <1>1, <1>3, <2>3, <3>1, <4>1, <4>2, SeriesFetches
    <3>2. CASE ask[q].op = "op"
      <4>1. IdsEach(q, work[q])
        BY <1>2, <3>2 DEF Pending
      <4> QED
        BY <1>1, <1>2, <1>3, <2>3, <3>2, <4>1, LatestFetches
    <3>3. CASE ask[q].op = "NTNE"
      BY <1>1, <1>3, <2>3, <3>3, ListingFetches
    <3> QED
      BY <1>2, <3>1, <3>2, <3>3
  <2> PICK st : st = Head(work[q])
    OBVIOUS
  <2> PICK w : w = work[q]
    OBVIOUS
  <2> PICK es : es = found[q]
    OBVIOUS
  <2>5. FetchedOf(q, st, s)'
    BY <2>4, FetchedStays
  <2>6. Pending(q, w, es)'
    BY <1>1, <1>2, PendingStays
  <2>7. ~struck'[q] => Careful(q, w, es)'
    BY <1>2, <1>5, CarefulStays
  <2>8. ask[q].type = "none" /\ ask[q].op \notin FirstOps
            => \A x \in stable[q] : InScope(q, x) => x.table \in listed[q] \/ Unlisted(q, x)
    BY <1>1 DEF Queried, Knowing
  <2>9. \A x : InScope(q, x)' <=> InScope(q, x)
    BY <1>1, SameQuestion
  <2>10. \A x : Unlisted(q, x)' <=> Unlisted(q, x)
    BY UnlistedStays
  <2>11. ask'[q].type = "none" /\ ask'[q].op \notin FirstOps
            => \A x \in stable'[q] : InScope(q, x)' => x.table \in listed'[q] \/ Unlisted(q, x)'
    BY <1>1, <2>8, <2>9, <2>10
  <2>12. work'[q] = w /\ found'[q] = es /\ Head(work'[q]) = st /\ answer'[q] = answer[q]
    BY <1>5
  <2> QED
    BY <1>1, <1>2, <2>2, <2>5, <2>6, <2>7, <2>11, <2>12 DEF Queried, Knowing
<1>6. CASE NoAggregate(q) /\ Proceed(q, Append(found[q], Refused404)) /\ struck' = struck
  <2>1. ask[q].aggr # "none"
    BY <1>6 DEF NoAggregate
  <2>2. ask[q].op \in SeriesOps /\ ask[q].op # "op" /\ ask[q].op # "NTNE"
    <3>1. ask[q].op # "op" /\ ask[q].op # "NTNE"
      BY <1>1, <2>1, AskedFor
    <3> QED
      BY <1>2, <3>1
  <2> PICK all : all = Append(found[q], Refused404)
    OBVIOUS
  <2>3. Pending(q, Tail(work[q]), all)
    BY <1>1, <1>2, <2>2, SeriesRefuses
  <2>4. Careful(q, Tail(work[q]), all)
    BY <2>1, <2>2 DEF Careful, IsSeries
  <2> QED
    BY <1>1, <1>6, <2>2, <2>3, <2>4, ProceedAnswers
<1>7. CASE ~Runs(q) /\ WithoutValue(q) /\ struck' = struck
  BY <1>1, <1>7, SelectPasses, WithoutValueAnswers
<1>8. CASE Strike(q, "sql") /\ WithoutValue(q)
  <2>1. struck'[q] = TRUE
    BY <1>1, <1>8, Strikes
  <2> QED
    BY <1>1, <1>8, <2>1, WithoutValueAnswers
<1>9. CASE Strike(q, "down") /\ Answer(q, 500, <<>>)
  BY <1>1, <1>9, Ends
<1> QED
  BY <1>4, <1>5, <1>6, <1>7, <1>8, <1>9

-----------------------------------------------------------------------------
(* The beginning of a request.  Every row that was visible all along is    *)
(* there, as long as no row was removed.                                   *)
LEMMA StableIsThere ==
    ASSUME NEW q \in Requests, Track, ~shifted => stable[q] \subseteq rows
    PROVE  ~shifted' => stable'[q] \subseteq rows'
<1> SUFFICES ASSUME ~shifted' PROVE stable'[q] \subseteq rows'
  OBVIOUS
<1>1. ~shifted /\ Ordered
  BY DEF Track
<1>2. rows \subseteq rows' /\ stable[q] \subseteq rows
  BY <1>1 DEF Ordered
<1>3. Visible' \subseteq rows' /\ Visible \subseteq rows
  BY DEF Visible
<1>4. stable'[q] \in {{}, Visible, stable[q], stable[q] \cap Visible'}
  BY DEF Track
<1> QED
  BY <1>2, <1>3, <1>4

LEMMA FirstFind ==
    ASSUME NEW q
    PROVE  ask[q].op \in FirstOps => Handler(q).finds
<1>1. CASE ask[q].op = "1T1E1A"
  <2>1. Handler(q) = Query1T1E1A
    BY <1>1 DEF Handler, HandlerOf
  <2> QED
    BY <2>1 DEF Query1T1E1A, Listing
<1>2. CASE ask[q].op = "1T1ENA"
  <2>1. Handler(q) = Query1T1ENA
    BY <1>2 DEF Handler, HandlerOf
  <2> QED
    BY <2>1 DEF Query1T1ENA, Listing
<1> QED
  BY <1>1, <1>2 DEF FirstOps

LEMMA QueryBegins ==
    ASSUME NEW q \in Requests, DataInv, DataInv', ask' = ask, conf' = conf,
           listed'[q] = listed[q], ask[q].op \notin RemovalOps, answer[q].body = <<>>,
           NEW T, \A tb \in T : tb.tenant = Tenant(q), Query(q, T),
           ask[q].op \in FirstOps => \E tb : T = {tb},
           ask[q].op = "op" => T \subseteq {Table(q, ask[q].type)},
           ask[q].op = "NTNE" => /\ T \subseteq GivenTables(q)
                                 /\ \A tb \in GivenTables(q) \ T : Hidden(q, tb),
           ask[q].type = "none" /\ ask[q].op \notin FirstOps => T \subseteq listed[q],
           stable'[q] \subseteq rows',
           \A x \in stable'[q] : InScope(q, x) => x.table \in T \/ Lacking(q, x)
    PROVE  Queried(q)'
<1>1. Domains
  BY DEF DataInv
<1> PICK s : s = Statements(q, T)
  OBVIOUS
<1>3. /\ s # <<>> => Pending(q, s, <<>>)' /\ Careful(q, s, <<>>)'
      /\ s = <<>> => Complete(q, <<>>)'
  BY Asking
<1>4. CASE s = <<>>
  <2>1. Answer(q, 200, <<>>)
    BY <1>4 DEF Query
  <2> QED
    BY <1>1, <1>3, <1>4, <2>1, Ends, NothingAnswered
<1>5. CASE s # <<>>
  <2>1. /\ phase'[q] = "select" /\ work'[q] = s /\ found'[q] = <<>>
        /\ answer'[q] = answer[q]
    BY <1>1, <1>5 DEF Query, Step, Domains
  <2>2. \A x : InScope(q, x)' <=> InScope(q, x)
    BY SameQuestion
  <2>3. \A x : Unlisted(q, x)' <=> Unlisted(q, x)
    BY DEF Unlisted
  <2>4. ask'[q].type = "none" /\ ask'[q].op \notin FirstOps
            => \A x \in stable'[q] : InScope(q, x)' => x.table \in listed'[q] \/ Unlisted(q, x)'
    BY <2>2, <2>3 DEF Lacking
  <2> QED
    BY <1>3, <1>5, <2>1, <2>4 DEF Queried, Knowing
<1> QED
  BY <1>4, <1>5

LEMMA TypeBegins ==
    ASSUME NEW q \in Requests, DataInv, DataInv', ask' = ask, conf' = conf,
           listed'[q] = listed[q], answer[q].body = <<>>,
           NEW type \in DOMAIN Lower, WithType(q, type),
           ask[q].type # "none" => ask[q].type = type,
           ask[q].type = "none" => ask[q].op \in FindOps,
           stable'[q] \subseteq rows',
           ask[q].op \notin RemovalOps =>
                \A x \in stable'[q] : InScope(q, x) => x.table = Table(q, type)
    PROVE  Queried(q)'
<1>1. Domains
  BY DEF DataInv
<1>2. /\ ask[q].op \in SeriesOps \cup RemovalOps \cup {"NTNE", "op"}
      /\ ask[q].op = "op" => ask[q].type # "none"
  BY AskedFor
<1>3. CASE Malformed(ask[q])
  <2>1. Handler(q).badDate \in {422, 500}
    BY <1>2, QueryHandlers, HandlerFacts
  <2> PICK code : code = IF ask[q].flaw = "date" THEN Handler(q).badDate ELSE 500
    OBVIOUS
  <2>2. Answer(q, code, <<>>) /\ code # 200
    BY <1>3, <2>1 DEF WithType, BadClause
  <2> QED
    BY <1>1, <2>2, Ends
<1>4. CASE ~Malformed(ask[q]) /\ Handler(q).call = "delete"
  <2>1. /\ Step(q, "erase") /\ answer' = answer
        /\ work' = [work EXCEPT ![q] =
                        <<[tables |-> <<Table(q, type)>>, ids |-> ask[q].ids]>>]
    BY <1>4 DEF WithType
  <2>2. phase'[q] = "erase" /\ work'[q] # <<>>
    BY <1>1, <2>1 DEF Step, Domains
  <2>3. ask[q].op \in RemovalOps
    BY <1>2, <1>4, QueryHandlers
  <2> QED
    BY <2>1, <2>2, <2>3 DEF Queried, Knowing
<1>5. CASE ~Malformed(ask[q]) /\ Handler(q).call = "drop"
  <2>1. Step(q, "drop") /\ answer' = answer
    BY <1>5 DEF WithType
  <2>2. phase'[q] = "drop"
    BY <1>1, <2>1 DEF Step, Domains
  <2>3. ask[q].op \in RemovalOps
    BY <1>2, <1>5, QueryHandlers
  <2> QED
    BY <2>1, <2>2, <2>3 DEF Queried, Knowing
<1>6. CASE ~Malformed(ask[q]) /\ Handler(q).call \notin {"delete", "drop"}
  <2> PICK tb : tb = Table(q, type)
    OBVIOUS
  <2>1. PICK K \in SUBSET {tb} :
            /\ Query(q, K)
            /\ \A b \in {tb} \ K : Hidden(q, b)
            /\ Handler(q).call = "query" => K = {tb}
    <3>1. QueryLeft(q, {tb})
      BY <1>6 DEF WithType
    <3> QED
      BY <3>1, WhatIsLeft
  <2>2. ask[q].op \notin RemovalOps
    BY <1>6, HandlerFacts
  <2>3. \A b \in K : b.tenant = Tenant(q)
    BY DEF Table
  <2>4. ask[q].op \in {"op", "NTNE"} => ask[q].type = type
    BY <1>2 DEF FindOps
  <2>5. ask[q].type = "none" => ask[q].op \in FirstOps
    BY <2>2 DEF FindOps, RemovalOps, FirstOps
  <2>6. ask[q].op \in FirstOps => \E b : K = {b}
    <3>1. ask[q].op \in FirstOps => Handler(q).call = "query"
      BY QueryHandlers DEF FirstOps, SeriesOps
    <3> QED
      BY <2>1, <3>1
  <2>7. ask[q].op = "op" => K \subseteq {Table(q, ask[q].type)}
    BY <2>4
  <2>8. ask[q].op = "NTNE" => /\ K \subseteq GivenTables(q)
                              /\ \A b \in GivenTables(q) \ K : Hidden(q, b)
    BY <2>1, <2>4, <2>5 DEF GivenTables, FirstOps
  <2>9. ASSUME NEW x \in stable'[q], InScope(q, x)
        PROVE  x.table \in K \/ Lacking(q, x)
    BY <2>1, <2>2, <2>9 DEF InScope
  <2>10. ask[q].type = "none" /\ ask[q].op \notin FirstOps => K \subseteq listed[q]
    BY <2>5
  <2> HIDE <2>1
  <2>11. Query(q, K)
    BY <2>1
  <2> QED
    BY <2>2, <2>3, <2>6, <2>7, <2>8, <2>9, <2>10, <2>11, QueryBegins
<1> QED
  BY <1>3, <1>4, <1>5, <1>6

LEMMA StartAnswers ==
    ASSUME NEW q \in Requests, DataInv, DataInv', ask' = ask, conf' = conf, Queried(q),
           ~shifted' => stable'[q] \subseteq rows', stable'[q] \subseteq Visible', Start(q)
    PROVE  Queried(q)'
<1>1. Domains /\ phase[q] = "waiting" /\ answer[q].body = <<>>
  BY DEF DataInv, Start, Queried
<1>2. /\ ask[q].op \in SeriesOps \cup RemovalOps \cup {"NTNE", "op"}
      /\ ask[q].type \in DOMAIN Lower \cup {"none"}
      /\ ask[q].op \in {"1TNE1A", "1TNENA", "op", "delete_entities", "drop"}
            => ask[q].type # "none"
  BY AskedFor
<1>3. stable'[q] \subseteq rows'
  BY DEF Visible
<1>4. CASE Refusal(ask[q]) # 0
  <2> PICK code : code = Refusal(ask[q])
    OBVIOUS
  <2>1. Answer(q, code, <<>>)
    BY <1>4 DEF Start
  <2>2. code # 200
    BY RefusalCodes
  <2> QED
    BY <1>1, <2>1, <2>2, Ends
<1>5. CASE Refusal(ask[q]) = 0 /\ ask[q].type # "none"
  <2> PICK type : type = ask[q].type
    OBVIOUS
  <2>1. WithType(q, type) /\ type \in DOMAIN Lower
    BY <1>2, <1>5 DEF Start
  <2>2. listed'[q] = listed[q]
    BY <1>1, <2>1, WithTypeMoves DEF Moves
  <2>3. \A x \in stable'[q] : InScope(q, x) => x.table = Table(q, type)
    BY <1>5 DEF InScope
  <2> QED
    BY <1>1, <1>3, <1>5, <2>1, <2>2, <2>3, TypeBegins
<1>6. CASE Refusal(ask[q]) = 0 /\ ask[q].type = "none" /\ Handler(q).finds
  <2>1. Step(q, "find") /\ answer' = answer
    BY <1>6 DEF Start
  <2>2. phase'[q] = "find"
    BY <1>1, <2>1 DEF Step, Domains
  <2> QED
    BY <1>1, <2>1, <2>2 DEF Queried, Knowing
<1>7. CASE Refusal(ask[q]) = 0 /\ ask[q].type = "none" /\ ~Handler(q).finds
                /\ Malformed(ask[q])
  <2>1. Handler(q).badDate \in {422, 500}
    BY <1>2, QueryHandlers, HandlerFacts
  <2> PICK code : code = IF ask[q].flaw = "date" THEN Handler(q).badDate ELSE 500
    OBVIOUS
  <2>2. Answer(q, code, <<>>) /\ code # 200
    BY <1>7, <2>1 DEF Start, BadClause
  <2> QED
    BY <1>1, <2>2, Ends
<1>8. CASE Refusal(ask[q]) = 0 /\ ask[q].type = "none" /\ ~Handler(q).finds
                /\ ~Malformed(ask[q])
  <2>1. Step(q, "list") /\ answer' = answer
    BY <1>8 DEF Start
  <2>2. phase'[q] = "list"
    BY <1>1, <2>1 DEF Step, Domains
  <2>3. ask[q].op \notin FirstOps
    BY <1>8, FirstFind
  <2>4. ask[q].op \notin RemovalOps
    <3> SUFFICES ASSUME ask[q].op \in RemovalOps PROVE FALSE
      OBVIOUS
    <3>1. ask[q].op = "delete_entity"
      BY <1>2, <1>8 DEF RemovalOps
    <3> QED
      BY <1>8, <3>1, OnlyEntityFinds
  <2> QED
    BY <1>1, <1>8, <2>1, <2>2, <2>3, <2>4 DEF Queried, Knowing
<1> QED
  BY <1>4, <1>5, <1>6, <1>7, <1>8

LEMMA FindAnswers ==
    ASSUME NEW q \in Requests, Domains, Queried(q),
           ~shifted' => stable'[q] \subseteq rows', Find(q)
    PROVE  Queried(q)'
<1>1. phase[q] = "find" /\ answer[q].body = <<>>
  BY DEF Find, Queried
<1>2. CASE Step(q, "search") /\ answer' = answer
  <2>1. phase'[q] = "search"
    BY <1>2 DEF Step, Domains
  <2> QED
    BY <1>1, <1>2, <2>1 DEF Queried, Knowing
<1>3. CASE Strike(q, "sql") /\ Answer(q, 200, <<>>)
  <2>1. struck'[q] = TRUE
    BY <1>3, Strikes
  <2> QED
    BY <1>3, <2>1, Ends, NothingAnswered
<1>4. CASE Strike(q, "down") /\ Answer(q, 500, <<>>)
  BY <1>4, Ends
<1> QED
  BY <1>2, <1>3, <1>4 DEF Find

LEMMA SearchAnswers ==
    ASSUME NEW q \in Requests, DataInv, DataInv', ask' = ask, conf' = conf,
           Queried(q), FindingInv(q), ~shifted' => stable'[q] \subseteq rows',
           stable'[q] \subseteq Visible', stable'[q] \subseteq stable[q], Search(q)
    PROVE  Queried(q)'
<1>1. /\ Domains /\ phase[q] = "search" /\ answer[q].body = <<>>
      /\ ask[q].op \in FindOps /\ ask[q].type = "none"
  BY DEF DataInv, Search, Queried, FindingInv
<1>2. \/ work[q] # <<>> /\ SearchTable(q)
      \/ work[q] = <<>> /\ found[q] = <<>> /\ Answer(q, 200, <<>>)
      \/ work[q] = <<>> /\ Len(found[q]) = 1 /\ WithType(q, found[q][1])
      \/ Answer(q, Handler(q).clash, <<>>)
  BY DEF Search
<1>3. \A x \in stable'[q] : InScope(q, x) => x \in stable[q] /\ Sought(q, x)
  <2> SUFFICES ASSUME NEW x \in stable'[q], InScope(q, x)
               PROVE  x \in stable[q] /\ Sought(q, x)
    OBVIOUS
  <2>1. Len(ask[q].ids) = 1 /\ ask[q].ids \in Seq(Nat)
    BY <1>1, AskedFor
  <2>2. x.id \in ToSet(ask[q].ids)
    <3> PICK ids : ids = ask[q].ids
      OBVIOUS
    <3>1. Len(ids) = 1 /\ ids \in Seq(Nat)
      BY <2>1
    <3>2. ids # <<>>
      BY ONLY <3>1
    <3> QED
      BY <3>2 DEF InScope, Where
  <2>3. x.id = ask[q].ids[1]
    BY <2>1, <2>2 DEF ToSet
  <2>4. x.table.tenant = Tenant(q)
    BY <1>1 DEF InScope
  <2> QED
    BY <2>3, <2>4 DEF Sought
<1>4. CASE SearchTable(q)
  <2>1. \/ Answer(q, 500, <<>>)
        \/ phase' = phase /\ answer' = answer
    BY <1>4 DEF SearchTable
  <2>2. CASE Answer(q, 500, <<>>)
    BY <1>1, <2>2, Ends
  <2>3. CASE phase' = phase /\ answer' = answer
    BY <1>1, <2>3 DEF Queried, Knowing
  <2> QED
    BY <2>1, <2>2, <2>3
<1>5. CASE work[q] = <<>> /\ found[q] = <<>> /\ Answer(q, 200, <<>>)
  <2>1. \A x \in stable'[q] : ~InScope(q, x)
    BY <1>1, <1>3, <1>5, SearchedTypes
  <2>2. \A x : InScope(q, x)' <=> InScope(q, x)
    BY SameQuestion
  <2>3. \A x \in stable'[q] : ~InScope(q, x)'
    BY <2>1, <2>2
  <2>4. SeriesRight(q, <<>>)'
    <3>1. ToSet(<<>>) = {}
      BY DEF ToSet
    <3>2. EntitiesIn(<<>>) = {} /\ ShownIn(<<>>) = {}
      BY <3>1 DEF EntitiesIn, ShownIn
    <3> QED
      BY <2>3, <3>2 DEF SeriesRight, Fits
  <2>5. ask'[q].op # "op" /\ ask'[q].op # "NTNE"
    BY <1>1 DEF FindOps
  <2>6. Complete(q, <<>>)'
    BY <2>4, <2>5 DEF Complete
  <2> QED
    BY <1>1, <1>5, <2>6, Ends, NothingAnswered
<1>6. CASE work[q] = <<>> /\ Len(found[q]) = 1 /\ WithType(q, found[q][1])
  <2>1. found[q] \in Seq(DOMAIN Lower)
        /\ \A x \in stable[q] : Sought(q, x) => x.table = Table(q, found[q][1])
    BY <1>1, <1>6, SearchedTypes
  <2> PICK type : type = found[q][1]
    OBVIOUS
  <2>2. type \in DOMAIN Lower
    BY <1>6, <2>1
  <2>3. \A x \in stable'[q] : InScope(q, x) => x.table = Table(q, type)
    BY <1>3, <2>1
  <2>4. WithType(q, type)
    BY <1>6
  <2>5. listed'[q] = listed[q]
    BY <1>1, <2>4, WithTypeMoves DEF Moves
  <2>6. stable'[q] \subseteq rows'
    BY DEF Visible
  <2> QED
    BY <1>1, <2>2, <2>3, <2>4, <2>5, <2>6, TypeBegins
<1>7. CASE Answer(q, Handler(q).clash, <<>>)
  <2> PICK code : code = Handler(q).clash
    OBVIOUS
  <2>1. code # 200
    <3>1. ask[q].op \in SeriesOps \cup RemovalOps
      BY <1>1 DEF FindOps, SeriesOps, RemovalOps
    <3> QED
      BY <3>1, QueryHandlers, HandlerFacts
  <2>2. Answer(q, code, <<>>)
    BY <1>7
  <2> QED
    BY <1>1, <2>1, <2>2, Ends
<1> QED
  BY <1>2, <1>4, <1>5, <1>6, <1>7

LEMMA ListAnswers ==
    ASSUME NEW q \in Requests, Domains, ask' = ask, conf' = conf,
           Queried(q), ~shifted' => stable'[q] \subseteq rows',
           stable'[q] \subseteq Visible', List(q)
    PROVE  Queried(q)'
<1>1. /\ phase[q] = "list" /\ answer[q].body = <<>> /\ meta' = meta
      /\ ask[q].type = "none" /\ ask[q].op \notin FirstOps \cup RemovalOps
  BY DEF List, Queried, database
<1>2. ASSUME NEW T, NEW next \in {"fill", "listed"}, Step(q, next), Given(q, T),
             answer' = answer,
             \A x \in stable'[q] : InScope(q, x) => x.table \in T \/ conf.cache
      PROVE  Queried(q)'
  <2>1. phase'[q] = next /\ listed'[q] = T
    BY <1>2 DEF Step, Given, Domains
  <2>2. \A x : InScope(q, x)' <=> InScope(q, x)
    BY SameQuestion
  <2>3. \A x \in stable'[q] : InScope(q, x)' => x.table \in listed'[q] \/ Unlisted(q, x)'
    BY <1>1, <1>2, <2>1, <2>2 DEF Unlisted
  <2> QED
    BY <1>1, <1>2, <2>1, <2>3 DEF Queried, Knowing
<1>3. ASSUME ReadNames(q)
      PROVE  Queried(q)'
  <2> PICK T : T = TablesOf(Tenant(q))
    OBVIOUS
  <2> PICK next : next = IF conf.cache /\ T # {} THEN "fill" ELSE "listed"
    OBVIOUS
  <2>1. Step(q, next) /\ Given(q, T) /\ answer' = answer /\ next \in {"fill", "listed"}
    BY <1>3 DEF ReadNames
  <2>2. \A x \in stable'[q] : InScope(q, x) => x.table \in T
    BY <1>1 DEF Visible, InScope, TablesOf
  <2> QED
    BY <1>2, <2>1, <2>2
<1>4. CASE conf.cache /\ Step(q, "listed") /\ Given(q, names[CacheKey(q)])
                /\ answer' = answer
  BY <1>2, <1>4
<1>5. CASE ReadNames(q)
  BY <1>3, <1>5
<1>6. CASE Strike(q, "sql") /\ Answer(q, 200, <<>>)
  <2>1. struck'[q] = TRUE
    BY <1>6, Strikes
  <2> QED
    BY <1>6, <2>1, Ends, NothingAnswered
<1>7. CASE Strike(q, "down") /\ Answer(q, 500, <<>>)
  BY <1>7, Ends
<1> QED
  BY <1>4, <1>5, <1>6, <1>7 DEF List

LEMMA FillAnswers ==
    ASSUME NEW q \in Requests, Stays(q), Queried(q),
           ~shifted' => stable'[q] \subseteq rows', Fill(q)
    PROVE  Queried(q)'
<1>1. /\ phase[q] = "fill" /\ answer' = answer /\ answer[q].body = <<>>
      /\ ask[q].type = "none" /\ ask[q].op \notin FirstOps \cup RemovalOps
      /\ \A x \in stable[q] : InScope(q, x) => x.table \in listed[q] \/ Unlisted(q, x)
  BY DEF Fill, Queried, Knowing
<1>2. /\ ask' = ask /\ conf' = conf /\ listed'[q] = listed[q] /\ Domains
      /\ stable'[q] \subseteq stable[q]
  BY DEF Stays, DataInv
<1>3. phase'[q] = "listed"
  BY <1>2 DEF Fill, Step, Domains
<1>4. \A x : InScope(q, x)' <=> InScope(q, x)
  BY <1>2, SameQuestion
<1>5. \A x : Unlisted(q, x)' <=> Unlisted(q, x)
  BY UnlistedStays
<1>6. \A x \in stable'[q] : InScope(q, x)' => x.table \in listed'[q] \/ Unlisted(q, x)'
  BY <1>1, <1>2, <1>4, <1>5
<1> QED
  BY <1>1, <1>2, <1>3, <1>6 DEF Queried, Knowing

LEMMA BeginAnswers ==
    ASSUME NEW q \in Requests, Stays(q), Queried(q), OwnTables,
           stable'[q] \subseteq Visible', Begin(q)
    PROVE  Queried(q)'
<1>1. /\ phase[q] = "listed" /\ answer[q].body = <<>> /\ QueryLeft(q, listed[q])
      /\ ask[q].type = "none" /\ ask[q].op \notin FirstOps \cup RemovalOps
      /\ \A x \in stable[q] : InScope(q, x) => x.table \in listed[q] \/ Unlisted(q, x)
  BY DEF Begin, Queried, Knowing
<1>2. /\ DataInv /\ DataInv' /\ ask' = ask /\ conf' = conf /\ listed'[q] = listed[q]
      /\ stable'[q] \subseteq stable[q]
  BY DEF Stays
<1>3. ask[q].op # "op"
  BY <1>1, <1>2, AskedFor
<1>4. PICK T \in SUBSET listed[q] :
            /\ Query(q, T)
            /\ \A tb \in listed[q] \ T : Hidden(q, tb)
  BY <1>1, WhatIsLeft
<1>5. \A tb \in T : tb.tenant = Tenant(q)
  BY <1>4 DEF OwnTables
<1>6. stable'[q] \subseteq rows'
  BY DEF Visible
<1>7. \A x \in stable'[q] : InScope(q, x) => x.table \in T \/ Lacking(q, x)
  BY <1>1, <1>2, <1>4 DEF Lacking, InScope
<1>8. T \subseteq GivenTables(q) /\ \A tb \in GivenTables(q) \ T : Hidden(q, tb)
  BY <1>1, <1>4 DEF GivenTables
<1>9. Query(q, T)
  BY <1>4
<1> QED
  BY <1>1, <1>2, <1>3, <1>5, <1>6, <1>7, <1>8, <1>9, QueryBegins

(* A removal answers with nothing.                                         *)
LEMMA RemovalEnds ==
    ASSUME NEW q \in Requests, Domains, ask' = ask, ask[q].op \in RemovalOps,
           ~shifted' => stable'[q] \subseteq rows', NEW code, Answer(q, code, <<>>)
    PROVE  Queried(q)'
<1>1. Complete(q, <<>>)'
  BY DEF Complete, IsSeries, RemovalOps, SeriesOps
<1> QED
  BY <1>1, Ends, NothingAnswered

LEMMA RemovalAnswers ==
    ASSUME NEW q \in Requests, Domains, Queried(q), ask' = ask,
           ~shifted' => stable'[q] \subseteq rows',
           Erase(q) \/ Drop(q) \/ Unmeta(q) \/ Forget(q)
    PROVE  Queried(q)'
<1>1. /\ phase[q] \in {"erase", "drop", "unmeta", "forget"} /\ answer[q].body = <<>>
      /\ ask[q].op \in RemovalOps
  BY DEF Erase, Drop, Unmeta, Forget, Queried
<1>2. \/ \E code : Answer(q, code, <<>>)
      \/ \E next \in {"unmeta", "forget"} : Step(q, next) /\ answer' = answer
  <2>1. CASE Erase(q)
    BY <2>1 DEF Erase, EraseRows
  <2>2. CASE Drop(q)
    BY <2>2 DEF Drop
  <2>3. CASE Unmeta(q)
    BY <2>3 DEF Unmeta
  <2>4. CASE Forget(q)
    BY <2>4 DEF Forget
  <2> QED
    BY <2>1, <2>2, <2>3, <2>4
<1>3. CASE \E code : Answer(q, code, <<>>)
  BY <1>1, <1>3, RemovalEnds
<1>4. CASE \E next \in {"unmeta", "forget"} : Step(q, next) /\ answer' = answer
  <2>1. phase'[q] \in {"unmeta", "forget"} /\ answer'[q] = answer[q]
    BY <1>4 DEF Step, Domains
  <2> QED
    BY <1>1, <2>1 DEF Queried, Knowing
<1> QED
  BY <1>2, <1>3, <1>4

-----------------------------------------------------------------------------
(* A request that takes no part in a step.                                 *)
Untouched(q) ==
    /\ phase'[q] = phase[q] /\ work'[q] = work[q] /\ found'[q] = found[q]
    /\ fetched'[q] = fetched[q] /\ answer'[q] = answer[q] /\ struck'[q] = struck[q]

LEMMA OthersAnswer ==
    ASSUME NEW q \in Requests, Stays(q), Queried(q), Untouched(q),
           ~shifted' => stable'[q] \subseteq rows'
    PROVE  Queried(q)'
<1>1. /\ ask' = ask /\ conf' = conf /\ listed'[q] = listed[q]
      /\ stable'[q] \subseteq stable[q]
  BY DEF Stays
<1>2. \A x : InScope(q, x)' <=> InScope(q, x)
  BY <1>1, SameQuestion
<1>3. \A x : Unlisted(q, x)' <=> Unlisted(q, x)
  BY UnlistedStays
<1>4. phase'[q] \in Knowing /\ ask'[q].type = "none" /\ ask'[q].op \notin FirstOps
         => \A x \in stable'[q] : InScope(q, x)' => x.table \in listed'[q] \/ Unlisted(q, x)'
  BY <1>1, <1>2, <1>3 DEF Queried, Untouched
<1> PICK w : w = work[q]
  OBVIOUS
<1> PICK es : es = found[q]
  OBVIOUS
<1> PICK s : s = fetched[q]
  OBVIOUS
<1> PICK b : b = answer[q].body
  OBVIOUS
<1> PICK st : st = Head(w)
  OBVIOUS
<1>5. /\ Pending(q, w, es) => Pending(q, w, es)'
      /\ Careful(q, w, es) => Careful(q, w, es)'
      /\ FetchedOf(q, st, s) => FetchedOf(q, st, s)'
      /\ Answered(q, b) => Answered(q, b)'
      /\ Complete(q, b) => Complete(q, b)'
  BY <1>1, PendingStays, CarefulStays, FetchedStays, AnswerStays
<1>6. /\ phase'[q] = phase[q] /\ work'[q] = w /\ found'[q] = es /\ fetched'[q] = s
      /\ answer'[q] = answer[q] /\ answer'[q].body = b /\ struck'[q] = struck[q]
      /\ Head(work'[q]) = st
  BY DEF Untouched
<1>7. phase[q] \in {"select", "format"} =>
            /\ ask'[q].op \notin RemovalOps
            /\ w # <<>> /\ Pending(q, w, es)'
            /\ ~struck[q] => Careful(q, w, es)'
  BY <1>1, <1>5 DEF Queried
<1>8. phase[q] = "format" => FetchedOf(q, st, s)'
  BY <1>5 DEF Queried
<1>9. /\ phase[q] # "done" => b = <<>>
      /\ phase[q] = "done" => /\ answer[q].code # 200 => b = <<>>
                              /\ answer[q].code = 200 => Answered(q, b)'
      /\ phase[q] = "done" /\ answer[q].code = 200 /\ ~struck[q] => Complete(q, b)'
  BY <1>5 DEF Queried
<1>10. /\ phase[q] = "erase" => w # <<>>
       /\ phase[q] \in {"erase", "drop", "unmeta", "forget"} => ask'[q].op \in RemovalOps
       /\ phase[q] \in {"list", "fill", "listed"}
            => ask'[q].type = "none" /\ ask'[q].op \notin FirstOps \cup RemovalOps
  BY <1>1 DEF Queried
<1> QED
  BY <1>4, <1>6, <1>7, <1>8, <1>9, <1>10 DEF Queried

LEMMA ServeAnswers ==
    ASSUME NEW q \in Requests, DataInv, DataInv', OwnTables, FindingInv(q), Queried(q),
           Serve(q), Track
    PROVE  Queried(q)'
<1>1. ServeMove(q) /\ Domains
  BY ServeMoves DEF DataInv
<1>2. ask' = ask /\ conf' = conf /\ phase[q] # "done"
  BY <1>1 DEF ServeMove
<1>3. ~shifted => stable[q] \subseteq rows
  BY DEF Queried
<1>4. ~shifted' => stable'[q] \subseteq rows'
  BY <1>3, StableIsThere
<1>5. CASE phase[q] = "waiting"
  <2>1. stable'[q] \subseteq Visible'
    BY <1>1, <1>5, TrackStarts DEF ServeMove
  <2>2. Start(q)
    BY <1>5 DEF Serve, Start, Find, Search, List, Fill, Begin, Select, FormatRows,
                Erase, Drop, Unmeta, Forget
  <2> QED
    BY <1>2, <1>4, <2>1, <2>2, StartAnswers
<1>6. CASE phase[q] # "waiting"
  <2>1. /\ stable'[q] \subseteq stable[q] /\ stable'[q] \subseteq Visible'
        /\ stable[q] \subseteq Visible
    BY <1>2, <1>6, TrackKeeps DEF Kept, FindingInv
  <2>2. listed'[q] = listed[q] => Stays(q)
    BY <1>2, <1>3, <2>1 DEF Stays, Shifts, Track
  <2>3. CASE Find(q)
    BY <1>1, <1>4, <2>3, FindAnswers
  <2>4. CASE Search(q)
    BY <1>2, <1>4, <2>1, <2>4, SearchAnswers
  <2>5. CASE List(q)
    BY <1>1, <1>2, <1>4, <2>1, <2>5, ListAnswers
  <2>6. CASE Fill(q)
    <3>1. listed'[q] = listed[q]
      BY <2>6 DEF Fill
    <3> QED
      BY <1>4, <2>2, <2>6, <3>1, FillAnswers
  <2>7. CASE Begin(q)
    <3>1. listed'[q] = listed[q]
      BY <1>1, <2>7, LeftMoves DEF Begin, Moves
    <3> QED
      BY <2>1, <2>2, <2>7, <3>1, BeginAnswers
  <2>8. CASE Select(q)
    <3>1. listed'[q] = listed[q]
      BY <1>1, <2>8, ProceedMoves, WithoutValueMoves, AnswerMoves DEF Select, Moves
    <3> QED
      BY <1>4, <2>1, <2>2, <2>8, <3>1, SelectAnswers
  <2>9. CASE FormatRows(q)
    <3>1. listed'[q] = listed[q]
      BY <1>1, <2>9, ProceedMoves, WithoutValueMoves, AnswerMoves DEF FormatRows, Moves
    <3> QED
      BY <1>4, <2>1, <2>2, <2>9, <3>1, FormatAnswers
  <2>10. CASE Erase(q) \/ Drop(q) \/ Unmeta(q) \/ Forget(q)
    BY <1>1, <1>2, <1>4, <2>10, RemovalAnswers
  <2>11. ~Start(q)
    BY <1>6 DEF Start
  <2> QED
    BY <2>3, <2>4, <2>5, <2>6, <2>7, <2>8, <2>9, <2>10, <2>11 DEF Serve
<1> QED
  BY <1>5, <1>6

LEMMA AgainAnswers ==
    ASSUME NEW q \in Requests, Domains, Again(q), Queried(q), Track
    PROVE  Queried(q)'
<1>1. phase'[q] = "waiting" /\ answer'[q].body = <<>>
  BY DEF Again, Step, Domains, Unanswered
<1>2. ~shifted' => stable'[q] \subseteq rows'
  BY StableIsThere DEF Queried
<1> QED
  BY <1>1, <1>2 DEF Queried, Knowing

LEMMA QueriedStep ==
    ASSUME DataInv, OwnTables, [Next]_vars,
           \A q \in Requests : FindingInv(q) /\ Queried(q)
    PROVE  (\A q \in Requests : Queried(q))'
<1> SUFFICES ASSUME NEW p \in Requests
             PROVE  Queried(p)'
  OBVIOUS
<1>1. FindingInv(p) /\ Queried(p) /\ DataInv' /\ Domains
  BY DataStep DEF DataInv
<1>2. ~shifted => stable[p] \subseteq rows
  BY <1>1 DEF Queried
<1>3. ASSUME Track, ask' = ask, conf' = conf, Untouched(p), listed'[p] = listed[p]
      PROVE  Queried(p)'
  <2>1. ~shifted' => stable'[p] \subseteq rows'
    BY <1>2, <1>3, StableIsThere
  <2>2. stable'[p] \subseteq stable[p]
    BY <1>3, TrackKeeps DEF Kept, Untouched
  <2>3. Stays(p)
    BY <1>1, <1>2, <1>3, <2>2 DEF Stays, Shifts, Track
  <2> QED
    BY <1>1, <1>3, <2>1, <2>3, OthersAnswer
<1>4. ASSUME NEW q \in Requests, Serve(q), Track
      PROVE  Queried(p)'
  <2>1. CASE p = q
    BY <1>1, <1>4, <2>1, ServeAnswers
  <2>2. CASE p # q
    <3>1. ServeMove(q)
      BY <1>1, <1>4, ServeMoves
    <3>2. Untouched(p) /\ listed'[p] = listed[p] /\ ask' = ask /\ conf' = conf
      BY <2>2, <3>1 DEF ServeMove, Touches, At, Untouched
    <3> QED
      BY <1>3, <1>4, <3>2
  <2> QED
    BY <2>1, <2>2
<1>5. ASSUME NEW q \in Requests, Again(q), UNCHANGED <<conf, ask>>, Track
      PROVE  Queried(p)'
  <2>1. CASE p = q
    BY <1>1, <1>5, <2>1, AgainAnswers
  <2>2. CASE p # q
    <3>1. Touches(q) /\ At(listed, listed', q) /\ At(struck, struck', q)
      BY <1>1, <1>5, AgainMoves
    <3>2. Untouched(p) /\ listed'[p] = listed[p]
      BY <2>2, <3>1 DEF Touches, At, Untouched
    <3> QED
      BY <1>3, <1>5, <3>2
  <2> QED
    BY <2>1, <2>2
<1>6. ASSUME NEW x \in arrivals, Insert(x), Track
      PROVE  Queried(p)'
  BY <1>3, <1>6 DEF Insert, request, Untouched
<1>7. ASSUME NEW t \in Tenants, Expire(t), Track
      PROVE  Queried(p)'
  BY <1>3, <1>7 DEF Expire, request, Untouched
<1>8. CASE UNCHANGED vars
  <2>1. /\ ask' = ask /\ conf' = conf /\ rows' = rows /\ shifted' = shifted
        /\ stable' = stable /\ listed' = listed
    BY <1>8 DEF vars, database, request
  <2>2. Untouched(p)
    BY <1>8 DEF vars, request, Untouched
  <2>3. Shifts
    BY <2>1 DEF Shifts, Ordered
  <2>4. Stays(p)
    BY <1>1, <1>2, <2>1, <2>3 DEF Stays
  <2> QED
    BY <1>1, <1>2, <2>1, <2>2, <2>4, OthersAnswer
<1> QED
  BY <1>4, <1>5, <1>6, <1>7, <1>8 DEF Next

(* The invariant of the queries.                                           *)
QueryInv ==
    /\ DataInv /\ OwnInv
    /\ \A q \in Requests : FindingInv(q) /\ Queried(q)

LEMMA QueryInvariant == Spec => []QueryInv
<1>1. Init => QueryInv
  <2> SUFFICES ASSUME Init PROVE QueryInv
    OBVIOUS
  <2>1. DataInv
    BY DataInit
  <2>2. OwnInv
    BY DEF Init, OwnInv, OwnTables
  <2>3. ASSUME NEW q \in Requests
        PROVE  FindingInv(q) /\ Queried(q)
    <3>1. /\ phase[q] = "waiting" /\ found[q] = <<>> /\ stable[q] = {}
          /\ answer[q].body = <<>>
      BY DEF Init, Unanswered
    <3> QED
      BY <3>1 DEF FindingInv, Queried, Knowing
  <2> QED
    BY <2>1, <2>2, <2>3 DEF QueryInv
<1>2. QueryInv /\ [Next]_vars => QueryInv'
  <2> SUFFICES ASSUME QueryInv, [Next]_vars PROVE QueryInv'
    OBVIOUS
  <2>1. DataInv' /\ OwnInv' /\ (\A q \in Requests : FindingInv(q))'
    BY DataStep, OwnStep, FindingStep DEF QueryInv
  <2>2. (\A q \in Requests : Queried(q))'
    BY QueriedStep DEF QueryInv, OwnInv
  <2> QED
    BY <2>1, <2>2 DEF QueryInv
<1> QED
  BY <1>1, <1>2, PTL DEF Spec

-----------------------------------------------------------------------------
(* The properties.                                                         *)
LEMMA AnswerIs ==
    ASSUME NEW q
    PROVE  /\ Shown(q) = ShownIn(answer[q].body)
           /\ Entities(q) = EntitiesIn(answer[q].body)
           /\ Listings(q) = ListingsIn(answer[q].body)
<1>1. Entities(q) = EntitiesIn(answer[q].body)
  BY DEF Entities, EntitiesIn
<1> QED
  BY <1>1 DEF Shown, ShownIn, Listings, ListingsIn

(* A response by type, as query_NTNE1A and query_NTNENA build it, has each *)
(* type once and under it its own entities, unless two types share a table. *)
THEOREM AnswersAreGrouped == Spec => []GroupedByType
<1>1. QueryInv => GroupedByType
  <2> SUFFICES ASSUME QueryInv, NEW q \in Requests, ask[q].op \in {"NTNE1A", "NTNENA"}
               PROVE  GroupsRight(q, answer[q].body)
    BY AnswerIs DEF GroupedByType, GroupsRight
  <2>1. Queried(q)
    BY DEF QueryInv
  <2>2. CASE answer[q].body = <<>>
    <3>1. Answered(q, <<>>)
      BY NothingAnswered
    <3> QED
      BY <2>2, <3>1 DEF Answered
  <2>3. CASE answer[q].body # <<>>
    BY <2>1, <2>3 DEF Queried, Answered
  <2> QED
    BY <2>2, <2>3
<1> QED
  BY <1>1, QueryInvariant, PTL

(* No row that was visible from the start of a query to its end is missing *)
(* from an answer that no fault struck: whatever other requests insert,    *)
(* remove and cache between its statements.                                *)
THEOREM NoRowIsMissed == Spec => []StableRowsAreShown
<1>1. QueryInv => StableRowsAreShown
  <2> SUFFICES ASSUME QueryInv, NEW q \in Requests,
                      phase[q] = "done", answer[q].code = 200, ~struck[q],
                      ask[q].aggr = "none", ask[q].offset = 0
               PROVE  /\ ask[q].op \in SeriesOps =>
                            \A e \in Entities(q) : IsAscending(e.index)
                      /\ \A x \in stable[q] : InScope(q, x) =>
                            CASE ask[q].op \in SeriesOps -> InSeries(q, x)
                              [] ask[q].op = "op" ->
                                    x.id \in ToSet(ask[q].ids) => IsLatest(q, x)
                              [] ask[q].op = "NTNE" -> IsListed(q, x)
                              [] OTHER -> TRUE
    BY DEF StableRowsAreShown
  <2>1. Complete(q, answer[q].body)
    BY DEF QueryInv, Queried
  <2>2. \A op \in SeriesOps : op # "op" /\ op # "NTNE"
    BY DEF SeriesOps
  <2>3. CASE ask[q].op \in SeriesOps
    <3>1. SeriesRight(q, answer[q].body)
      BY <2>1, <2>3 DEF Complete, IsSeries
    <3>2. ASSUME NEW x \in stable[q], InScope(q, x)
          PROVE  InSeries(q, x)
      <4>1. CASE Lacking(q, x)
        BY <4>1 DEF Lacking, FirstOps, InSeries
      <4>2. CASE Covers(q, Shown(q), x)
        BY <4>2 DEF Covers, Before, InSeries
      <4> QED
        BY <3>1, <3>2, <4>1, <4>2, AnswerIs DEF SeriesRight, Shows
    <3> QED
      BY <2>2, <2>3, <3>1, <3>2, AnswerIs DEF SeriesRight
  <2>4. CASE ask[q].op = "op"
    <3>1. LatestRight(q, answer[q].body)
      BY <2>1, <2>4 DEF Complete
    <3>2. \A x \in stable[q] : InScope(q, x) =>
                (x.id \in ToSet(ask[q].ids) => IsLatest(q, x))
      BY <3>1, AnswerIs DEF LatestRight, IsLatest
    <3> QED
      BY <2>2, <2>4, <3>2
  <2>5. CASE ask[q].op = "NTNE"
    <3>1. ListingRight(q, answer[q].body)
      BY <2>1, <2>5 DEF Complete
    <3>2. \A x \in stable[q] : InScope(q, x) => IsListed(q, x)
      BY <3>1, AnswerIs DEF ListingRight, IsListed
    <3> QED
      BY <2>2, <2>5, <3>2
  <2>6. CASE ask[q].op \notin SeriesOps \cup {"op", "NTNE"}
    BY <2>6
  <2> QED
    BY <2>3, <2>4, <2>5, <2>6
<1> QED
  BY <1>1, QueryInvariant, PTL

(* The rank of a row grows with its time.                                  *)
LEMMA RanksGrow ==
    ASSUME DataInv, NEW q \in Requests, NEW x \in rows, NEW y \in rows,
           y.table = x.table
    PROVE  /\ Rank(q, x) \in Nat
           /\ Where(conf, ask[q], x) => Rank(q, x) >= 1
           /\ Rank(q, y) < Rank(q, x) => y.time < x.time
<1> DEFINE S(z) == {w \in rows : w.table = z.table /\ Where(conf, ask[q], w)
                                    /\ w.time <= z.time}
<1>1. IsFiniteSet(rows)
  BY FS_Subset DEF DataInv
<1>2. /\ IsFiniteSet(S(x)) /\ Cardinality(S(x)) \in Nat
      /\ IsFiniteSet(S(y)) /\ Cardinality(S(y)) \in Nat
  BY <1>1, FS_Subset, FS_CardinalityType
<1>3. \A z \in rows : z.time \in Nat
  BY DEF DataInv, IsRow
<1>4. Where(conf, ask[q], x) => Cardinality(S(x)) >= 1
  <2> SUFFICES ASSUME Where(conf, ask[q], x) PROVE Cardinality(S(x)) # 0
    BY <1>2
  <2>1. x \in S(x)
    BY <1>3
  <2> QED
    BY <1>2, <2>1, FS_EmptySet
<1>5. Cardinality(S(y)) < Cardinality(S(x)) => y.time < x.time
  <2> SUFFICES ASSUME ~(y.time < x.time) PROVE Cardinality(S(x)) <= Cardinality(S(y))
    BY <1>2
  <2>1. S(x) \subseteq S(y)
    BY <1>3
  <2> QED
    BY <1>2, <2>1, FS_Subset
<1> QED
  BY <1>2, <1>4, <1>5 DEF Rank

(* Two pages of a series asked for one after the other have no row in      *)
(* common and leave none out between them, as long as only newer rows come *)
(* in and no two rows of a table have the same time.                       *)
THEOREM PagesDoMeet == Spec => []PagesMeet
<1>1. QueryInv => PagesMeet
  <2> SUFFICES ASSUME QueryInv, NEW p \in Requests, NEW q \in Requests,
                      phase[q] = "done", phase[p] = "done",
                      ask[p] = [ask[q] EXCEPT !.offset = 0, !.after = ask[p].after],
                      ask[q].op \in SeriesOps, ask[q].aggr = "none", ask[q].lastN = 0,
                      ask[q].offset = ask[q].limit, ask[q].limit <= DefaultLimit,
                      answer[p].code = 200, answer[q].code = 200,
                      ~struck[p], ~struck[q], ~shifted, NoTies
               PROVE  /\ Shown(p) \cap Shown(q) = {}
                      /\ \A x \in stable[p] \cap stable[q] :
                           InScope(q, x) /\ ~Unlisted(p, x) /\ ~Unlisted(q, x) =>
                                x \in Shown(p) \cup Shown(q)
                                \/ \A y \in Shown(p) \cup Shown(q) :
                                        y.table = x.table => y.time < x.time
    BY DEF PagesMeet
  <2> DEFINE n == ask[q].limit
  <2>1. ask[p] \in Asks /\ ask[q] \in Asks /\ DataInv
    BY DEF QueryInv, DataInv, IsRequest
  <2>2. /\ ask[p].op = ask[q].op /\ ask[p].service = ask[q].service
        /\ ask[p].ngsild = ask[q].ngsild /\ ask[p].type = ask[q].type
        /\ ask[p].ids = ask[q].ids /\ ask[p].path = ask[q].path
        /\ ask[p].limit = ask[q].limit /\ ask[p].offset = 0
        /\ ask[p].lastN = ask[q].lastN /\ ask[p].aggr = ask[q].aggr
        /\ ask[p].attr = ask[q].attr /\ ask[p].since = ask[q].since
        /\ ask[p].until = ask[q].until /\ ask[p].pattern = ask[q].pattern
        /\ ask[p].geo = ask[q].geo
    <3> PICK r : r = ask[q]
      OBVIOUS
    <3> PICK a : a = ask[p].after
      OBVIOUS
    <3> PICK s : s = ask[p]
      OBVIOUS
    <3>1. r \in Asks /\ s = [r EXCEPT !.offset = 0, !.after = a]
      BY <2>1
    <3>2. /\ s.op = r.op /\ s.service = r.service /\ s.ngsild = r.ngsild
          /\ s.type = r.type /\ s.ids = r.ids /\ s.path = r.path /\ s.limit = r.limit
          /\ s.offset = 0 /\ s.lastN = r.lastN /\ s.aggr = r.aggr /\ s.attr = r.attr
          /\ s.since = r.since /\ s.until = r.until /\ s.pattern = r.pattern
          /\ s.geo = r.geo
      BY <3>1 DEF Asks
    <3> QED
      BY <3>2
  <2>3. n \in Nat /\ Limit(ask[p]) = n /\ Limit(ask[q]) = n
    BY <2>1, <2>2, LimitAssumption DEF Asks, Limit
  <2>4. /\ Tenant(p) = Tenant(q)
        /\ \A type : Table(p, type) = Table(q, type)
    BY <2>2 DEF Tenant, Handler, Table
  <2>5. /\ \A x : Where(conf, ask[p], x) <=> Where(conf, ask[q], x)
        /\ \A tb : HasColumns(tb, ask[p]) <=> HasColumns(tb, ask[q])
    BY <2>2 DEF Where, HasColumns
  <2>6. \A x : InScope(p, x) <=> InScope(q, x)
    BY <2>2, <2>4, <2>5 DEF InScope, Hidden, DropsDotted, Handler
  <2>7. \A x : Rank(p, x) = Rank(q, x)
    BY <2>5 DEF Rank
  <2>8. Paged(p) /\ Paged(q)
    BY <2>2 DEF Paged
  <2>9. SeriesRight(p, answer[p].body) /\ SeriesRight(q, answer[q].body)
    BY <2>2 DEF QueryInv, Queried, Complete, IsSeries
  <2>10. /\ Fits(p, Shown(p)) /\ Fits(q, Shown(q))
         /\ \A x \in stable[p] : InScope(p, x) => Lacking(p, x) \/ Shows(p, Shown(p), x)
         /\ \A x \in stable[q] : InScope(q, x) => Lacking(q, x) \/ Shows(q, Shown(q), x)
    BY <2>9, AnswerIs DEF SeriesRight
  <2> HIDE DEF n
  <2>11. /\ \A y \in Shown(p) : y \in rows /\ 0 < Rank(q, y) /\ Rank(q, y) <= n
         /\ \A y \in Shown(q) : y \in rows /\ n < Rank(q, y) /\ Rank(q, y) <= n + n
    <3>1. \A k : OnPage(p, k) => 0 < k /\ k <= n
      BY <2>2, <2>3 DEF OnPage
    <3>2. \A k : OnPage(q, k) => n < k /\ k <= n + n
      BY <2>3 DEF OnPage, n
    <3> QED
      BY <2>7, <2>8, <2>10, <3>1, <3>2 DEF Fits
  <2>12. \A y \in rows : Rank(q, y) \in Nat
    BY <2>1, RanksGrow
  <2>13. Shown(p) \cap Shown(q) = {}
    <3> SUFFICES ASSUME NEW y \in Shown(p), y \in Shown(q) PROVE FALSE
      OBVIOUS
    <3> QED
      BY <2>3, <2>11, <2>12
  <2>14. ASSUME NEW x \in stable[p] \cap stable[q], InScope(q, x),
                ~Unlisted(p, x), ~Unlisted(q, x), x \notin Shown(p) \cup Shown(q),
                NEW y \in Shown(p) \cup Shown(q), y.table = x.table
         PROVE  y.time < x.time
    <3>1. x \in rows /\ y \in rows
      BY <2>11, <2>14 DEF QueryInv, Queried
    <3>2. Rank(q, x) \in Nat /\ Rank(q, x) >= 1
      BY <2>1, <2>14, <3>1, RanksGrow DEF InScope
    <3>3. ~OnPage(p, Rank(q, x)) /\ ~OnPage(q, Rank(q, x))
      BY <2>6, <2>7, <2>8, <2>10, <2>14 DEF Lacking, Shows
    <3>4. n + n < Rank(q, x)
      <4>1. ~(Rank(q, x) <= n)
        BY <2>2, <2>3, <3>2, <3>3 DEF OnPage
      <4>2. ~(n < Rank(q, x) /\ Rank(q, x) <= n + n)
        BY <2>3, <3>3 DEF OnPage, n
      <4> QED
        BY <2>3, <3>2, <4>1, <4>2
    <3>5. Rank(q, y) < Rank(q, x)
      <4>1. Rank(q, y) \in Nat /\ Rank(q, y) <= n + n
        BY <2>3, <2>11, <2>12, <3>1
      <4> QED
        BY <2>3, <3>2, <3>4, <4>1
    <3> QED
      BY <2>1, <2>14, <3>1, <3>5, RanksGrow
  <2> QED
    BY <2>13, <2>14
<1> QED
  BY <1>1, QueryInvariant, PTL

-----------------------------------------------------------------------------
(* Types: what a request does next and the code it answers with; where     *)
(* tables and the names of tables are from.                                *)
Codes == {0, 200, 204, 400, 404, 409, 422, 500, 501}
Coded ==
    /\ phase \in [Requests -> Phases]
    /\ \A q \in Requests : answer[q].code \in Codes /\ (answer[q].code # 0 <=> phase[q] = "done")
Placed ==
    /\ names \in [Tenants -> SUBSET AllTables]
    /\ tables \subseteq AllTables
    /\ \A x \in rows : x.table \in tables
    /\ \A q \in Requests : listed[q] \subseteq AllTables

LEMMA Coding ==
    ASSUME NEW q \in Requests, Domains, Coded, NEW code \in Codes \ {0}, NEW body,
           Answer(q, code, body)
    PROVE  Coded'
<1>1. /\ phase' = [phase EXCEPT ![q] = "done"]
      /\ answer' = [answer EXCEPT ![q] = [code |-> code, body |-> body]]
  BY DEF Answer, Step
<1>2. phase' \in [Requests -> Phases]
  BY <1>1 DEF Coded, Phases
<1>3. \A p \in Requests : /\ answer'[p].code \in Codes
                          /\ answer'[p].code # 0 <=> phase'[p] = "done"
  BY <1>1 DEF Coded, Domains
<1> QED
  BY <1>2, <1>3 DEF Coded

LEMMA Going ==
    ASSUME NEW q \in Requests, Coded, NEW next \in Phases \ {"done"}, Step(q, next),
           answer' = answer, phase[q] # "done"
    PROVE  Coded'
<1>1. phase' = [phase EXCEPT ![q] = next]
  BY DEF Step
<1>2. phase' \in [Requests -> Phases]
  BY <1>1 DEF Coded
<1>3. \A p \in Requests : answer'[p].code # 0 <=> phase'[p] = "done"
  BY <1>1 DEF Coded
<1> QED
  BY <1>2, <1>3 DEF Coded

(* What a request does next, or the code of its answer.                    *)
Goes(q) ==
    \/ \E next \in Phases \ {"done"} : Step(q, next) /\ answer' = answer
    \/ \E code \in Codes \ {0} : \E body : Answer(q, code, body)
    \/ phase' = phase /\ answer' = answer

LEMMA HandlerCodes ==
    ASSUME NEW q \in Requests, DataInv
    PROVE  /\ Handler(q).badDate \in Codes \ {0} /\ Handler(q).clash \in Codes \ {0}
           /\ \A r : Refusal(r) \in Codes
<1>1. ask[q].op \in SeriesOps \cup RemovalOps \cup {"NTNE", "op"}
  BY AskedFor
<1>2. CASE ask[q].op \in RemovalOps
  <2>1. Handler(q) \in {Removal, DeleteEntity, DropTable}
    BY <1>2, HandlerOfRemoval DEF RemovalOps
  <2>2. Handler(q).clash \in {400, 409} /\ Handler(q).badDate = 500
    BY <2>1, RemovalHandlers
  <2> QED
    BY <2>2, RefusalCodes DEF Codes
<1>3. CASE ask[q].op \in SeriesOps \cup {"NTNE", "op"}
  BY <1>3, QueryHandlers, RefusalCodes DEF Codes
<1> QED
  BY <1>1, <1>2, <1>3

LEMMA QueryGoes ==
    ASSUME NEW q \in Requests, NEW T, Query(q, T)
    PROVE  Goes(q)
<1> PICK s : s = Statements(q, T)
  OBVIOUS
<1>1. Answer(q, 200, <<>>) \/ (Step(q, "select") /\ answer' = answer)
  BY DEF Query
<1> QED
  BY <1>1 DEF Goes, Codes, Phases

LEMMA WithTypeGoes ==
    ASSUME NEW q \in Requests, DataInv, NEW type, WithType(q, type)
    PROVE  Goes(q)
<1>1. CASE Malformed(ask[q])
  <2> PICK code : code = IF ask[q].flaw = "date" THEN Handler(q).badDate ELSE 500
    OBVIOUS
  <2>1. Answer(q, code, <<>>)
    BY <1>1 DEF WithType, BadClause
  <2>2. code \in Codes \ {0}
    BY HandlerCodes DEF Codes
  <2> QED
    BY <2>1, <2>2 DEF Goes
<1>2. CASE ~Malformed(ask[q]) /\ Handler(q).call = "delete"
  <2>1. Step(q, "erase") /\ answer' = answer
    BY <1>2 DEF WithType
  <2> QED
    BY <2>1 DEF Goes, Phases
<1>3. CASE ~Malformed(ask[q]) /\ Handler(q).call = "drop"
  <2>1. Step(q, "drop") /\ answer' = answer
    BY <1>3 DEF WithType
  <2> QED
    BY <2>1 DEF Goes, Phases
<1>4. CASE ~Malformed(ask[q]) /\ Handler(q).call \notin {"delete", "drop"}
  BY <1>4, QueryGoes DEF WithType, QueryLeft
<1> QED
  BY <1>1, <1>2, <1>3, <1>4

LEMMA ProceedGoes ==
    ASSUME NEW q \in Requests, NEW entities, Proceed(q, entities) \/ WithoutValue(q)
    PROVE  Goes(q)
<1>1. ASSUME NEW es, Respond(q, es) PROVE Goes(q)
  <2>1. \E code \in {200, 404} : \E body : Answer(q, code, body)
    BY <1>1 DEF Respond
  <2> QED
    BY <2>1 DEF Goes, Codes
<1>2. ASSUME NEW es, Proceed(q, es) PROVE Goes(q)
  <2>1. Respond(q, es) \/ (Step(q, "select") /\ answer' = answer)
    BY <1>2 DEF Proceed
  <2> QED
    BY <1>1, <2>1 DEF Goes, Phases
<1>3. ASSUME WithoutValue(q) PROVE Goes(q)
  <2>1. Answer(q, 200, <<>>) \/ Proceed(q, found[q])
    BY <1>3 DEF WithoutValue
  <2> QED
    BY <1>2, <2>1 DEF Goes, Codes
<1> QED
  BY <1>2, <1>3

LEMMA ServeGoes ==
    ASSUME NEW q \in Requests, DataInv, Serve(q)
    PROVE  Goes(q)
<1>1. Answer(q, 500, <<>>) \/ Answer(q, 200, <<>>) \/ Answer(q, 204, <<>>) => Goes(q)
  BY DEF Goes, Codes
<1>2. \A next \in Phases \ {"done"} : Step(q, next) /\ answer' = answer => Goes(q)
  BY DEF Goes
<1>3. CASE Start(q)
  <2>1. CASE Refusal(ask[q]) # 0
    <3> PICK code : code = Refusal(ask[q])
      OBVIOUS
    <3>1. code \in Codes \ {0} /\ Answer(q, code, <<>>)
      BY <1>3, <2>1, HandlerCodes DEF Start
    <3> QED
      BY <3>1 DEF Goes
  <2>2. CASE Refusal(ask[q]) = 0
    <3>1. CASE WithType(q, ask[q].type)
      BY <3>1, WithTypeGoes
    <3>2. CASE BadClause(q)
      <4> PICK code : code = IF ask[q].flaw = "date" THEN Handler(q).badDate ELSE 500
        OBVIOUS
      <4>1. Answer(q, code, <<>>) /\ code \in Codes \ {0}
        BY <3>2, HandlerCodes DEF BadClause, Codes
      <4> QED
        BY <4>1 DEF Goes
    <3>3. CASE Step(q, "find") /\ answer' = answer
      BY <1>2, <3>3 DEF Phases
    <3>4. CASE Step(q, "list") /\ answer' = answer
      BY <1>2, <3>4 DEF Phases
    <3> QED
      BY <1>3, <2>2, <3>1, <3>2, <3>3, <3>4 DEF Start
  <2> QED
    BY <2>1, <2>2
<1>4. CASE Find(q)
  <2>1. \/ Step(q, "search") /\ answer' = answer
        \/ Answer(q, 200, <<>>) \/ Answer(q, 500, <<>>)
    BY <1>4 DEF Find
  <2> QED
    BY <1>1, <1>2, <2>1 DEF Phases
<1>5. CASE Search(q)
  <2>1. \/ SearchTable(q) \/ Answer(q, 200, <<>>) \/ Answer(q, Handler(q).clash, <<>>)
        \/ WithType(q, found[q][1])
    BY <1>5 DEF Search
  <2>2. CASE SearchTable(q)
    <3>1. (phase' = phase /\ answer' = answer) \/ Answer(q, 500, <<>>)
      BY <2>2 DEF SearchTable
    <3> QED
      BY <1>1, <3>1 DEF Goes
  <2>3. CASE Answer(q, Handler(q).clash, <<>>)
    <3> PICK code : code = Handler(q).clash
      OBVIOUS
    <3>1. code \in Codes \ {0} /\ Answer(q, code, <<>>)
      BY <2>3, HandlerCodes
    <3> QED
      BY <3>1 DEF Goes
  <2> QED
    BY <1>1, <2>1, <2>2, <2>3, WithTypeGoes
<1>6. CASE List(q)
  <2>1. \/ (Step(q, "listed") \/ Step(q, "fill")) /\ answer' = answer
        \/ Answer(q, 200, <<>>) \/ Answer(q, 500, <<>>)
    BY <1>6 DEF List, ReadNames
  <2> QED
    BY <1>1, <1>2, <2>1 DEF Phases
<1>7. CASE Fill(q)
  BY <1>2, <1>7 DEF Fill, Phases
<1>8. CASE Begin(q)
  BY <1>8, QueryGoes DEF Begin, QueryLeft
<1>9. CASE Select(q)
  <2>1. \/ Step(q, "format") /\ answer' = answer
        \/ \E es : Proceed(q, es)
        \/ WithoutValue(q) \/ Answer(q, 500, <<>>)
    BY <1>9 DEF Select
  <2> QED
    BY <1>1, <1>2, <2>1, ProceedGoes DEF Phases
<1>10. CASE FormatRows(q)
  <2>1. (\E es : Proceed(q, es)) \/ WithoutValue(q) \/ Answer(q, 500, <<>>)
    BY <1>10 DEF FormatRows
  <2> QED
    BY <1>1, <2>1, ProceedGoes
<1>11. CASE Erase(q)
  BY <1>1, <1>2, <1>11 DEF Erase, EraseRows, Phases
<1>12. CASE Drop(q)
  BY <1>1, <1>2, <1>12 DEF Drop, Phases
<1>13. CASE Unmeta(q)
  BY <1>1, <1>2, <1>13 DEF Unmeta, Phases
<1>14. CASE Forget(q)
  BY <1>1, <1>14 DEF Forget
<1> QED
  BY <1>3, <1>4, <1>5, <1>6, <1>7, <1>8, <1>9, <1>10, <1>11, <1>12, <1>13, <1>14 DEF Serve

LEMMA CodedStep ==
    ASSUME DataInv, Coded, [Next]_vars
    PROVE  Coded'
<1>1. ASSUME NEW q \in Requests, Serve(q) PROVE Coded'
  <2>1. Goes(q) /\ Domains /\ phase[q] # "done"
    BY <1>1, ServeGoes, ServeMoves DEF DataInv, ServeMove
  <2>2. CASE phase' = phase /\ answer' = answer
    BY <2>2 DEF Coded
  <2> QED
    BY <2>1, <2>2, Coding, Going DEF Goes
<1>2. ASSUME NEW q \in Requests, Again(q) PROVE Coded'
  <2>1. /\ phase' = [phase EXCEPT ![q] = "waiting"]
        /\ answer' = [answer EXCEPT ![q] = Unanswered] /\ Domains
    BY <1>2 DEF Again, Step, DataInv
  <2>2. phase' \in [Requests -> Phases]
    BY <2>1 DEF Coded, Phases
  <2>3. \A p \in Requests : /\ answer'[p].code \in Codes
                            /\ answer'[p].code # 0 <=> phase'[p] = "done"
    BY <2>1 DEF Coded, Domains, Unanswered, Codes
  <2> QED
    BY <2>2, <2>3 DEF Coded
<1>3. CASE UNCHANGED request
  BY <1>3 DEF Coded, request
<1> QED
  BY <1>1, <1>2, <1>3 DEF Next, Insert, Expire, vars

LEMMA PlacedStep ==
    ASSUME DataInv, Placed, [Next]_vars
    PROVE  Placed'
<1>1. ASSUME NEW q \in Requests, Serve(q) PROVE Placed'
  <2>1. ServeMove(q) /\ Domains
    BY <1>1, ServeMoves DEF DataInv
  <2>2. tables' \subseteq AllTables /\ \A x \in rows' : x.table \in tables'
    <3>1. CASE Drop(q)
      BY <3>1 DEF Drop, Placed
    <3>2. CASE ~Drop(q)
      <4>1. tables' = tables
        BY <1>1, <3>2 DEF Serve, Start, Find, Search, List, Fill, Begin, Select,
                          FormatRows, Erase, EraseRows, Unmeta, Forget, database
      <4> QED
        BY <2>1, <4>1 DEF ServeMove, Placed
    <3> QED
      BY <3>1, <3>2
  <2>3. CacheKey(q) \in Tenants /\ Tenant(q) \in Tenants
    BY AskedFor DEF CacheKey
  <2>4. \A p \in Requests : listed'[p] \subseteq AllTables
    <3>1. CASE List(q)
      <4>1. \/ listed' = listed
            \/ Given(q, names[CacheKey(q)]) \/ Given(q, TablesOf(Tenant(q)))
        BY <3>1 DEF List, ReadNames, Answer
      <4>2. /\ names[CacheKey(q)] \subseteq AllTables
            /\ TablesOf(Tenant(q)) \subseteq AllTables
        BY <2>3 DEF Placed, TablesOf, DataInv
      <4> QED
        BY <2>1, <4>1, <4>2 DEF Placed, Given, Domains
    <3>2. CASE ~List(q)
      <4>1. Moves(q) \/ listed' = listed
        BY <1>1, <2>1, <3>2, AnswerMoves, LeftMoves, WithTypeMoves, ProceedMoves,
           WithoutValueMoves
           DEF Serve, Start, Find, Search, SearchTable, BadClause, Fill, Begin, Select,
               FormatRows, Erase, EraseRows, Drop, Unmeta, Forget
      <4> QED
        BY <4>1 DEF Placed, Moves
    <3> QED
      BY <3>1, <3>2
  <2>5. names' \in [Tenants -> SUBSET AllTables]
    <3>1. CASE Fill(q)
      BY <2>3, <3>1 DEF Fill, Placed
    <3>2. CASE Forget(q)
      BY <2>3, <3>2 DEF Forget, Placed
    <3>3. CASE ~Fill(q) /\ ~Forget(q)
      <4>1. names' = names
        BY <1>1, <3>3 DEF Serve, Start, Find, Search, List, Begin, Select, FormatRows,
                          Erase, Drop, Unmeta
      <4> QED
        BY <4>1 DEF Placed
    <3> QED
      BY <3>1, <3>2, <3>3
  <2> QED
    BY <2>2, <2>4, <2>5 DEF Placed
<1>2. ASSUME NEW q \in Requests, Again(q) PROVE Placed'
  BY <1>2 DEF Again, Given, Placed, DataInv, Domains, database
<1>3. ASSUME NEW x \in arrivals, Insert(x) PROVE Placed'
  <2>1. x.table \in AllTables
    BY DEF DataInv, IsRow
  <2> QED
    BY <1>3, <2>1 DEF Insert, Placed, request
<1>4. ASSUME NEW t \in Tenants, Expire(t) PROVE Placed'
  BY <1>4 DEF Expire, Placed, database, request
<1>5. CASE UNCHANGED vars
  BY <1>5 DEF vars, database, request, Placed
<1> QED
  BY <1>1, <1>2, <1>3, <1>4, <1>5 DEF Next

(* Every variable has its type; a request is given tables of its own       *)
(* tenant, and every row it shows is of that tenant.                       *)
THEOREM TypesAreRight == Spec => []TypeOK
<1>1. Init => Coded /\ Placed
  <2> SUFFICES ASSUME Init PROVE Coded /\ Placed
    OBVIOUS
  <2>1. DataInv
    BY DataInit
  <2>2. \A x \in rows : x.table \in AllTables
    BY <2>1 DEF DataInv, IsRow
  <2>3. Coded
    BY DEF Init, Coded, Codes, Phases, Unanswered
  <2>4. Placed
    BY <2>2 DEF Init, Placed
  <2> QED
    BY <2>3, <2>4
<1>2. QueryInv /\ (Coded /\ Placed) /\ [Next]_vars => (Coded /\ Placed)'
  BY CodedStep, PlacedStep DEF QueryInv
<1>3. QueryInv /\ Coded /\ Placed => TypeOK
  <2> SUFFICES ASSUME QueryInv, Coded, Placed PROVE TypeOK
    OBVIOUS
  <2>1. ASSUME NEW q \in Requests
        PROVE  /\ answer[q].code \in {0, 200, 204, 400, 404, 409, 422, 500, 501}
               /\ answer[q].code # 0 <=> phase[q] = "done"
               /\ phase[q] \in {"select", "format", "erase"} => work[q] # <<>>
               /\ \A tb \in listed[q] : tb.tenant = Tenant(q)
    BY DEF QueryInv, Queried, Coded, Codes, OwnInv, OwnTables
  <2>2. ASSUME NEW q \in Requests, NEW x \in Shown(q)
        PROVE  x.table.tenant = Tenant(q)
    <3> PICK b : b = answer[q].body
      OBVIOUS
    <3>1. x \in ShownIn(b)
      BY <2>2, AnswerIs
    <3>2. Answered(q, b)
      BY NothingAnswered DEF QueryInv, Queried
    <3>3. b \in Seq(GroupsOf(q))
      BY <3>2 DEF Answered
    <3>4. EntitiesIn(b) \subseteq EntitiesOf(q)
      BY <3>3, EntitiesInFacts
    <3>5. PICK e \in EntitiesIn(b) : x \in e.rows
      BY <3>1 DEF ShownIn, EntitiesIn
    <3>6. x \in Right(q)
      BY <3>4, <3>5 DEF EntitiesOf
    <3> QED
      BY <3>6 DEF Right
  <2> QED
    BY <2>1, <2>2 DEF TypeOK, Coded, Placed, QueryInv, DataInv
<1>4. Spec => [](Coded /\ Placed)
  BY <1>1, <1>2, QueryInvariant, PTL DEF Spec
<1> QED
  BY <1>3, <1>4, QueryInvariant, PTL
===============================================================================
