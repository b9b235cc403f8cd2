-------------------------- MODULE CostSplitterProofs --------------------------
(* Proofs about CostSplitter, for streams of any length, any costs and any *)
(* goal: the batches join up to the stream, and none could be saved.       *)
EXTENDS CostSplitter, SequenceFacts

-----------------------------------------------------------------------------
(* The sums of a sequence exist, and are what their definition says.       *)
IsSums(f, s, n) ==
    f = [i \in 0..n |-> IF i = 0 THEN 0 ELSE f[i - 1] + s[i]]

LEMMA SumsExist ==
    ASSUME NEW s, NEW n \in Nat
    PROVE  \E f : IsSums(f, s, n)
<1> DEFINE P == {k \in 0..n : \E f : IsSums(f, s, k)}
<1>1. 0 \in P
  <2>1. IsSums([i \in 0..0 |-> 0], s, 0)
    BY DEF IsSums
  <2> QED
    BY <2>1
<1>2. ASSUME NEW k \in 1..n, k - 1 \in P
      PROVE  k \in P
  <2>1. PICK f : IsSums(f, s, k - 1)
    BY <1>2
  <2> DEFINE g == [i \in 0..k |-> IF i = k THEN f[k - 1] + s[k] ELSE f[i]]
  <2>2. \A i \in 0..(k - 1) : f[i] = IF i = 0 THEN 0 ELSE f[i - 1] + s[i]
    BY <2>1 DEF IsSums
  <2>3. ASSUME NEW i \in 0..k
        PROVE  g[i] = IF i = 0 THEN 0 ELSE g[i - 1] + s[i]
    BY <2>2
  <2>4. g = [i \in 0..k |-> g[i]]
    OBVIOUS
  <2>5. IsSums(g, s, k)
    <3> HIDE DEF g
    <3> QED
      BY <2>3, <2>4 DEF IsSums
  <2> QED
    BY <2>5
<1> HIDE DEF P
<1>3. 0..n \subseteq P
  BY <1>1, <1>2, UpTo
<1> QED
  BY <1>3 DEF P

LEMMA SumsDef ==
    ASSUME NEW s \in Seq(Nat)
    PROVE  IsSums(Sums(s), s, Len(s))
<1>1. \E f : IsSums(f, s, Len(s))
  <2>1. Len(s) \in Nat
    OBVIOUS
  <2> QED
    BY <2>1, SumsExist
<1>2. Sums(s) = CHOOSE f : IsSums(f, s, Len(s))
  BY DEF Sums, IsSums
<1>3. IsSums(CHOOSE f : IsSums(f, s, Len(s)), s, Len(s))
  BY <1>1, Zenon
<1> QED
  BY <1>2, <1>3, Zenon

LEMMA SumFacts ==
    ASSUME NEW s \in Seq(Nat)
    PROVE  /\ Sums(s)[0] = 0
           /\ \A i \in 1..Len(s) : Sums(s)[i] = Sums(s)[i - 1] + s[i]
           /\ \A i \in 0..Len(s) : Sums(s)[i] \in Nat
<1> DEFINE n == Len(s)
           f == Sums(s)
           P == {i \in 0..n : f[i] \in Nat}
<1>1. n \in Nat /\ \A i \in 1..n : s[i] \in Nat
  OBVIOUS
<1>2. f = [i \in 0..n |-> IF i = 0 THEN 0 ELSE f[i - 1] + s[i]]
  BY SumsDef DEF IsSums
<1> HIDE DEF f, n
<1>3. \A i \in 0..n : f[i] = IF i = 0 THEN 0 ELSE f[i - 1] + s[i]
  BY <1>2
<1>4. f[0] = 0 /\ \A i \in 1..n : f[i] = f[i - 1] + s[i]
  BY <1>1, <1>3
<1>5. 0 \in P
  BY <1>1, <1>4
<1>6. \A i \in 1..n : i - 1 \in P => i \in P
  BY <1>1, <1>4
<1> HIDE DEF P
<1>7. 0..n \subseteq P
  BY <1>1, <1>5, <1>6, UpTo
<1> QED
  BY <1>4, <1>7 DEF P, f, n

(* What comes after a prefix does not change its sums.                     *)
LEMMA PrefixSums ==
    ASSUME NEW s \in Seq(Nat), NEW t \in Seq(Nat), Len(s) <= Len(t),
           \A i \in 1..Len(s) : s[i] = t[i]
    PROVE  \A i \in 0..Len(s) : Sums(s)[i] = Sums(t)[i]
<1> DEFINE n == Len(s)
           P == {i \in 0..n : Sums(s)[i] = Sums(t)[i]}
<1>1. n \in Nat
  OBVIOUS
<1>2. 0 \in P
  BY SumFacts
<1>3. ASSUME NEW i \in 1..n, i - 1 \in P
      PROVE  i \in P
  <2>1. Sums(s)[i] = Sums(s)[i - 1] + s[i]
    BY SumFacts
  <2>2. i \in 1..Len(t)
    OBVIOUS
  <2>3. Sums(t)[i] = Sums(t)[i - 1] + t[i]
    BY <2>2, SumFacts
  <2> QED
    BY <1>3, <2>1, <2>3
<1> HIDE DEF P, n
<1>4. 0..n \subseteq P
  BY <1>1, <1>2, <1>3, UpTo
<1> QED
  BY <1>4 DEF P, n

(* What a batch costs, and what one more item makes of it.                 *)
LEMMA TotalFacts ==
    ASSUME NEW s \in Seq(Nat), NEW x \in Nat
    PROVE  /\ Total(<<>>) = 0
           /\ Total(s) \in Nat
           /\ Total(Append(s, x)) = Total(s) + x
<1> DEFINE t == Append(s, x)
           n == Len(s)
<1>1. /\ t \in Seq(Nat) /\ Len(t) = n + 1 /\ n \in Nat /\ t[n + 1] = x
      /\ \A i \in 1..n : s[i] = t[i]
  OBVIOUS
<1>2. Total(<<>>) = 0
  <2>1. <<>> \in Seq(Nat) /\ Len(<<>>) = 0
    OBVIOUS
  <2> QED
    BY <2>1, SumFacts DEF Total
<1>3. Total(s) \in Nat
  BY <1>1, SumFacts DEF Total
<1> HIDE DEF t
<1>4. Sums(s)[n] = Sums(t)[n]
  <2>1. Len(s) <= Len(t) /\ n \in 0..Len(s) /\ t \in Seq(Nat)
    BY <1>1
  <2>2. \A i \in 1..Len(s) : s[i] = t[i]
    BY <1>1
  <2>3. \A i \in 0..Len(s) : Sums(s)[i] = Sums(t)[i]
    BY <2>1, <2>2, PrefixSums
  <2> QED
    BY <2>1, <2>3
<1>5. Sums(t)[n + 1] = Sums(t)[n] + x
  <2>1. n + 1 \in 1..Len(t) /\ (n + 1) - 1 = n
    BY <1>1
  <2>2. Sums(t)[n + 1] = Sums(t)[(n + 1) - 1] + t[n + 1]
    BY <1>1, <2>1, SumFacts
  <2> QED
    BY <1>1, <2>1, <2>2
<1>6. Total(t) = Total(s) + x
  BY <1>1, <1>4, <1>5 DEF Total
<1> QED
  BY <1>2, <1>3, <1>6 DEF t

-----------------------------------------------------------------------------
(* What is known between two pulls.  `Closed` is how many items of the     *)
(* stream are in the batches that were closed.                             *)
Closed == Len(stream) - Len(iter) - Len(batch)

ShapeInv ==
    /\ stream \in Seq(Nat) /\ iter \in Seq(Nat) /\ batch \in Seq(Nat)
    /\ batches \in Seq(Seq(Nat))
    /\ cost = Total(batch) /\ going \in BOOLEAN

(* A batch is within the goal but for a lone item, and there is one in the *)
(* making when the stream ends.                                            *)
BatchInv ==
    /\ \A i \in 1..Len(batches) :
        /\ batches[i] # <<>>
        /\ Len(batches[i]) > 1 => Total(batches[i]) <= MaxCost
    /\ Len(batch) > 1 => cost <= MaxCost
    /\ going = TRUE /\ iter = <<>> => batch # <<>>

(* Whoever cuts the stream within the goal has, for each closed batch, a   *)
(* cut among its items.                                                    *)
GreedyInv ==
    \A cuts \in SUBSET (1 .. Len(stream) - 1) :
        CutsWithinGoal(cuts) =>
            IF going = TRUE
            THEN Len(batches) <= Cardinality(cuts \cap (1 .. Closed))
            ELSE Len(batches) <= Cardinality(cuts) + 1

IInv == ShapeInv /\ BatchesJoinToStream /\ BatchInv /\ GreedyInv

LEMMA StreamType ==
    ASSUME NEW s \in Streams
    PROVE  s \in Seq(Nat)
<1>1. PICK n \in 0..MaxLen : s \in [1..n -> Costs]
  BY DEF Streams
<1>2. n \in Nat /\ Costs \subseteq Nat
  BY BoundsAssumption, CostsAssumption
<1>3. s \in [1..n -> Nat]
  BY <1>1, <1>2
<1> QED
  BY <1>2, <1>3

LEMMA InitHolds ==
    ASSUME Init
    PROVE  IInv
<1>1. stream \in Seq(Nat)
  BY StreamType DEF Init
<1>2. /\ iter = stream /\ batches = <<>> /\ batch = <<>> /\ cost = 0
      /\ going = (stream # <<>>)
  BY DEF Init
<1>3. Total(<<>>) = 0 /\ FlattenSeq(<<>>) = <<>>
  <2>1. <<>> \in Seq(Nat) /\ <<>> \in Seq(Seq(Nat)) /\ 0 \in Nat
    OBVIOUS
  <2> QED
    BY <2>1, TotalFacts, FlattenFacts
<1>4. ShapeInv
  <2>1. going \in BOOLEAN
    BY <1>2
  <2> QED
    BY <1>1, <1>2, <1>3, <2>1 DEF ShapeInv
<1>5. BatchesJoinToStream
  BY <1>1, <1>2, <1>3 DEF BatchesJoinToStream
<1>6. BatchInv
  <2>1. going = TRUE => stream # <<>>
    BY <1>2
  <2> QED
    BY <1>2, <2>1 DEF BatchInv
<1>7. GreedyInv
  <2>1. ASSUME NEW cuts \in SUBSET (1 .. Len(stream) - 1)
        PROVE  /\ Len(batches) <= Cardinality(cuts \cap (1 .. Closed))
               /\ Len(batches) <= Cardinality(cuts) + 1
    <3>1. Len(batches) = 0
      BY <1>2
    <3>2. IsFiniteSet(1 .. Len(stream) - 1)
      <4>1. Len(stream) - 1 \in Int
        BY <1>1
      <4> QED
        BY <4>1, FS_Interval
    <3>3. IsFiniteSet(cuts) /\ IsFiniteSet(cuts \cap (1 .. Closed))
      BY <3>2, FS_Subset
    <3>4. /\ Cardinality(cuts) \in Nat
          /\ Cardinality(cuts \cap (1 .. Closed)) \in Nat
      BY <3>3, FS_CardinalityType
    <3> QED
      BY <3>1, <3>4
  <2> QED
    BY <2>1 DEF GreedyInv
<1> QED
  BY <1>4, <1>5, <1>6, <1>7 DEF IInv

(* What the next item makes of a batch.                                    *)
LEMMA HeadFacts ==
    ASSUME ShapeInv, iter # <<>>
    PROVE  /\ Head(iter) \in Nat /\ Tail(iter) \in Seq(Nat)
           /\ Len(Tail(iter)) = Len(iter) - 1
           /\ iter = <<Head(iter)>> \o Tail(iter)
           /\ Total(Append(batch, Head(iter))) = cost + Head(iter)
<1>1. /\ Head(iter) \in Nat /\ Tail(iter) \in Seq(Nat)
      /\ Len(Tail(iter)) = Len(iter) - 1
      /\ iter = <<Head(iter)>> \o Tail(iter)
  BY DEF ShapeInv
<1>2. Total(Append(batch, Head(iter))) = cost + Head(iter)
  BY <1>1, TotalFacts DEF ShapeInv
<1> QED
  BY <1>1, <1>2

(* The three parts of the stream have their places in it.                  *)
LEMMA PlaceFacts ==
    ASSUME ShapeInv, BatchesJoinToStream
    PROVE  /\ Closed \in Nat
           /\ Len(stream) = Closed + Len(batch) + Len(iter)
           /\ \A i \in 1..Len(batch) : stream[Closed + i] = batch[i]
           /\ \A i \in 1..Len(iter) : stream[Closed + Len(batch) + i] = iter[i]
<1> DEFINE F == FlattenSeq(batches)
<1>1. F \in Seq(Nat)
  <2>1. <<>> \in Seq(Nat)
    OBVIOUS
  <2> QED
    BY <2>1, FlattenFacts DEF ShapeInv
<1> HIDE DEF F
<1>2. (F \o batch) \o iter = stream
  BY DEF BatchesJoinToStream, F
<1>3. batch \in Seq(Nat) /\ iter \in Seq(Nat)
  BY DEF ShapeInv
<1>4. Len(stream) = Len(F) + Len(batch) + Len(iter)
  BY <1>1, <1>2, <1>3
<1>5. Closed = Len(F) /\ Closed \in Nat
  BY <1>1, <1>3, <1>4 DEF Closed
<1>6. \A i \in 1..Len(batch) : stream[Len(F) + i] = batch[i]
  BY <1>1, <1>2, <1>3, SMTT(30)
<1>7. \A i \in 1..Len(iter) : stream[Len(F) + Len(batch) + i] = iter[i]
  BY <1>1, <1>2, <1>3
<1> QED
  BY <1>4, <1>5, <1>6, <1>7

LEMMA YieldKeeps ==
    ASSUME IInv, YieldItem
    PROVE  IInv'
<1> USE DEF IInv
<1>1. /\ iter # <<>> /\ (batch = <<>> \/ cost + Head(iter) <= MaxCost)
      /\ iter' = Tail(iter) /\ batch' = Append(batch, Head(iter))
      /\ cost' = cost + Head(iter)
      /\ UNCHANGED <<stream, batches, going>>
  BY DEF YieldItem
<1>2. /\ Head(iter) \in Nat /\ Tail(iter) \in Seq(Nat)
      /\ Len(Tail(iter)) = Len(iter) - 1
      /\ iter = <<Head(iter)>> \o Tail(iter)
      /\ Total(Append(batch, Head(iter))) = cost + Head(iter)
  BY <1>1, HeadFacts
<1>3. ShapeInv'
  BY <1>1, <1>2 DEF ShapeInv
<1>4. BatchesJoinToStream'
  <2> DEFINE F == FlattenSeq(batches)
             x == Head(iter)
             r == Tail(iter)
  <2>1. F \in Seq(Nat) /\ batch \in Seq(Nat)
    <3>1. <<>> \in Seq(Nat)
      OBVIOUS
    <3> QED
      BY <3>1, FlattenFacts DEF ShapeInv
  <2> HIDE DEF F, x, r
  <2>2. x \in Nat /\ r \in Seq(Nat)
    BY <1>2 DEF x, r
  <2>3. (F \o Append(batch, x)) \o r = (F \o batch) \o (<<x>> \o r)
    <3>1. <<x>> \in Seq(Nat) /\ F \o batch \in Seq(Nat)
      BY <2>1, <2>2, ConcatProperties
    <3>2. Append(batch, x) = batch \o <<x>>
      BY <2>1, <2>2, AppendIsConcat
    <3>3. F \o (batch \o <<x>>) = (F \o batch) \o <<x>>
      BY <2>1, <3>1, ConcatAssociative, SMTT(30)
    <3>4. ((F \o batch) \o <<x>>) \o r = (F \o batch) \o (<<x>> \o r)
      BY <2>2, <3>1, ConcatAssociative, SMTT(30)
    <3> QED
      BY <3>2, <3>3, <3>4, Zenon
  <2>4. (F \o batch) \o iter = stream
    BY DEF BatchesJoinToStream, F
  <2>5. iter = <<x>> \o r
    BY <1>2, Zenon DEF x, r
  <2>6. (F \o Append(batch, x)) \o r = stream
    BY <2>3, <2>4, <2>5, Zenon
  <2> QED
    BY <1>1, <2>6, Zenon DEF BatchesJoinToStream, F, x, r
<1>5. BatchInv'
  <2>1. batch' # <<>> /\ Len(batch') = Len(batch) + 1 /\ (batch = <<>> => Len(batch) = 0)
    BY <1>1, <1>2 DEF ShapeInv
  <2>2. Len(batch') > 1 => cost' <= MaxCost
    BY <1>1, <2>1
  <2> QED
    BY <1>1, <2>1, <2>2 DEF BatchInv
<1>6. GreedyInv'
  <2>1. Closed' = Closed
    BY <1>1, <1>2 DEF Closed, ShapeInv
  <2> QED
    BY <1>1, <2>1 DEF GreedyInv, CutsWithinGoal
<1> QED
  BY <1>3, <1>4, <1>5, <1>6

(* A batch that is closed joins the others.                                *)
LEMMA CloseKeeps ==
    ASSUME ShapeInv, BatchesJoinToStream, CloseBatch, iter' = iter,
           going' \in BOOLEAN
    PROVE  ShapeInv' /\ BatchesJoinToStream'
<1>1. /\ batches' = Append(batches, batch) /\ batch' = <<>> /\ cost' = 0
      /\ stream' = stream
  BY DEF CloseBatch
<1>2. Total(<<>>) = 0
  <2>1. <<>> \in Seq(Nat) /\ 0 \in Nat
    OBVIOUS
  <2> QED
    BY <2>1, TotalFacts
<1>3. ShapeInv'
  BY <1>1, <1>2 DEF ShapeInv
<1> DEFINE F == FlattenSeq(batches)
<1>4. F \in Seq(Nat) /\ FlattenSeq(Append(batches, batch)) = F \o batch
  BY FlattenFacts DEF ShapeInv
<1> HIDE DEF F
<1>5. (F \o batch) \o <<>> = F \o batch
  <2>1. F \o batch \in Seq(Nat)
    BY <1>4, ConcatProperties DEF ShapeInv
  <2> QED
    BY <2>1, ConcatEmptySeq
<1>6. (F \o batch) \o iter = stream
  BY DEF BatchesJoinToStream, F
<1>7. (FlattenSeq(batches') \o batch') \o iter' = stream'
  BY <1>1, <1>4, <1>5, <1>6, Zenon
<1> QED
  BY <1>3, <1>7 DEF BatchesJoinToStream

(* Cutting where the splitter closed a batch cannot be put off.            *)
LEMMA MustCut ==
    ASSUME ShapeInv, BatchesJoinToStream, iter # <<>>, batch # <<>>,
           cost + Head(iter) > MaxCost,
           NEW cuts \in SUBSET (1 .. Len(stream) - 1), CutsWithinGoal(cuts)
    PROVE  \E c \in cuts : c \in (Closed + 1) .. (Closed + Len(batch))
<1> DEFINE i == Closed + 1
           j == Closed + Len(batch) + 1
           w == Append(batch, Head(iter))
<1>1. /\ Closed \in Nat
      /\ Len(stream) = Closed + Len(batch) + Len(iter)
      /\ \A k \in 1..Len(batch) : stream[Closed + k] = batch[k]
      /\ \A k \in 1..Len(iter) : stream[Closed + Len(batch) + k] = iter[k]
  BY PlaceFacts
<1>2. /\ stream \in Seq(Nat) /\ iter \in Seq(Nat) /\ batch \in Seq(Nat)
      /\ Len(batch) \in Nat \ {0} /\ Len(iter) \in Nat \ {0}
      /\ Head(iter) = iter[1] /\ Head(iter) \in Nat
  BY DEF ShapeInv
<1>3. i \in 1..Len(stream) /\ j \in 1..Len(stream) /\ i < j
  <2>1. Len(stream) = Closed + Len(batch) + Len(iter) /\ Closed \in Nat
    BY <1>1
  <2>2. Len(batch) \in Nat \ {0} /\ Len(iter) \in Nat \ {0}
    BY <1>2
  <2> QED
    BY <2>1, <2>2
<1>4. SubSeq(stream, i, j) = w
  <2>1. /\ w \in Seq(Nat) /\ Len(w) = Len(batch) + 1
        /\ \A k \in 1..Len(batch) : w[k] = batch[k]
        /\ w[Len(batch) + 1] = Head(iter)
    BY <1>2
  <2> DEFINE u == SubSeq(stream, i, j)
  <2>2. /\ u \in Seq(Nat) /\ Len(u) = Len(batch) + 1
        /\ \A k \in 1..(Len(batch) + 1) : u[k] = stream[Closed + k]
    <3>1. i \in Int /\ j \in Int /\ i <= j /\ j - i + 1 = Len(batch) + 1
      BY <1>1, <1>2, <1>3
    <3>4. \A k \in i..j : stream[k] \in Nat
      <4>1. \A k \in 1..Len(stream) : stream[k] \in Nat
        BY <1>2
      <4>2. i \in 1..Len(stream) /\ j \in 1..Len(stream) /\ Len(stream) \in Nat
        BY <1>2, <1>3
      <4> HIDE DEF i, j
      <4> QED
        BY <4>1, <4>2
    <3>2. \A k \in 1..(Len(batch) + 1) : i + k - 1 = Closed + k
      BY <1>1, <1>2
    <3> HIDE DEF i, j
    <3>3. /\ u \in Seq(Nat) /\ Len(u) = j - i + 1
          /\ \A k \in 1..(j - i + 1) : u[k] = stream[i + k - 1]
      BY <3>1, <3>4, SubSeqProperties
    <3> QED
      BY <3>1, <3>2, <3>3
  <2> HIDE DEF u, w
  <2>3. ASSUME NEW k \in 1..(Len(batch) + 1)
        PROVE  u[k] = w[k]
    <3>1. CASE k <= Len(batch)
      <4>1. k \in 1..Len(batch)
        BY <1>2, <3>1
      <4> QED
        BY <1>1, <2>1, <2>2, <4>1
    <3>2. CASE k = Len(batch) + 1
      <4>1. stream[Closed + Len(batch) + 1] = iter[1]
        <5>1. 1 \in 1..Len(iter)
          BY <1>2
        <5> QED
          BY <1>1, <5>1
      <4>2. Closed + k = Closed + Len(batch) + 1
        BY <1>1, <1>2, <3>2
      <4> QED
        BY <1>2, <2>1, <2>2, <3>2, <4>1, <4>2
    <3> QED
      BY <1>2, <3>1, <3>2
  <2>4. u = w
    BY <2>1, <2>2, <2>3, SeqEqual
  <2> QED
    BY <2>4 DEF u
<1>5. ~(Total(w) <= MaxCost)
  <2>1. Total(w) = cost + Head(iter)
    BY HeadFacts
  <2>2. cost \in Nat /\ MaxCost \in Nat
    BY <1>2, TotalFacts, BoundsAssumption DEF ShapeInv
  <2> HIDE DEF w
  <2> QED
    BY <1>2, <2>1, <2>2
<1>6. cuts \cap (i .. j - 1) # {}
  <2>1. DOMAIN stream = 1..Len(stream)
    BY <1>2
  <2> HIDE DEF i, j, w
  <2>2. i < j /\ cuts \cap (i .. j - 1) = {}
          => Total(SubSeq(stream, i, j)) <= MaxCost
    BY <1>3, <2>1 DEF CutsWithinGoal
  <2> QED
    BY <1>3, <1>4, <1>5, <2>2
<1>7. j - 1 = Closed + Len(batch)
  BY <1>1, <1>2
<1> QED
  BY <1>6, <1>7

LEMMA CutsFinite ==
    ASSUME ShapeInv, NEW cuts \in SUBSET (1 .. Len(stream) - 1)
    PROVE  IsFiniteSet(cuts) /\ Cardinality(cuts) \in Nat
<1>1. Len(stream) - 1 \in Int
  BY DEF ShapeInv
<1>2. IsFiniteSet(1 .. Len(stream) - 1)
  BY <1>1, FS_Interval
<1>3. IsFiniteSet(cuts)
  BY <1>2, FS_Subset
<1> QED
  BY <1>3, FS_CardinalityType

LEMMA PutBackKeeps ==
    ASSUME IInv, PutBack
    PROVE  IInv'
<1> USE DEF IInv
<1>1. /\ going /\ iter # <<>> /\ batch # <<>> /\ cost + Head(iter) > MaxCost
      /\ CloseBatch /\ UNCHANGED <<iter, going>>
  BY DEF PutBack
<1>2. /\ batches' = Append(batches, batch) /\ batch' = <<>> /\ cost' = 0
      /\ stream' = stream
  BY <1>1 DEF CloseBatch
<1>3. ShapeInv' /\ BatchesJoinToStream'
  <2>1. going' \in BOOLEAN
    BY <1>1 DEF ShapeInv
  <2> QED
    BY <1>1, <2>1, CloseKeeps
<1>4. BatchInv'
  <2>1. /\ Len(batches') = Len(batches) + 1
        /\ \A i \in 1..Len(batches) : batches'[i] = batches[i]
        /\ batches'[Len(batches) + 1] = batch /\ Len(batches) \in Nat
    BY <1>2 DEF ShapeInv
  <2>2. Len(batch) > 1 => Total(batch) <= MaxCost
    BY DEF BatchInv, ShapeInv
  <2>3. ASSUME NEW i \in 1..Len(batches')
        PROVE  /\ batches'[i] # <<>>
               /\ Len(batches'[i]) > 1 => Total(batches'[i]) <= MaxCost
    <3>1. CASE i \in 1..Len(batches)
      BY <2>1, <3>1 DEF BatchInv
    <3>2. CASE i = Len(batches) + 1
      BY <1>1, <2>1, <2>2, <3>2
    <3> QED
      BY <2>1, <3>1, <3>2
  <2>4. Len(batch') = 0 /\ iter' # <<>>
    BY <1>1, <1>2
  <2> QED
    BY <2>3, <2>4 DEF BatchInv
<1>5. GreedyInv'
  <2> SUFFICES ASSUME NEW cuts \in SUBSET (1 .. Len(stream) - 1),
                      CutsWithinGoal(cuts)
               PROVE  Len(batches') <= Cardinality(cuts \cap (1 .. Closed'))
    BY <1>1, <1>2 DEF GreedyInv, CutsWithinGoal
  <2> DEFINE A == cuts \cap (1 .. Closed)
             B == cuts \cap (1 .. Closed')
  <2>1. Len(batches) <= Cardinality(A)
    BY <1>1 DEF GreedyInv
  <2>2. PICK c \in cuts : c \in (Closed + 1) .. (Closed + Len(batch))
    BY <1>1, MustCut
  <2>3. Closed' = Closed + Len(batch) /\ Closed \in Nat /\ Len(batch) \in Nat
    <3>1. Closed \in Nat
      BY PlaceFacts
    <3>2. Len(batch') = 0 /\ Len(batch) \in Nat /\ Len(iter) \in Nat
          /\ Len(stream) \in Nat
      BY <1>2 DEF ShapeInv
    <3>3. Closed' = Len(stream) - Len(iter)
      BY <1>1, <1>2, <3>2 DEF Closed
    <3> QED
      BY <3>1, <3>2, <3>3 DEF Closed
  <2>4. A \cup {c} \subseteq B /\ c \notin A
    BY <2>2, <2>3
  <2>5. A \subseteq cuts /\ B \subseteq cuts
    OBVIOUS
  <2> HIDE DEF A, B
  <2>6. IsFiniteSet(A) /\ IsFiniteSet(B)
    BY <2>5, CutsFinite, FS_Subset
  <2>7. /\ IsFiniteSet(A \cup {c}) /\ Cardinality(A \cup {c}) = Cardinality(A) + 1
        /\ Cardinality(A) \in Nat
    BY <2>4, <2>6, FS_AddElement, FS_CardinalityType
  <2>8. Cardinality(A \cup {c}) <= Cardinality(B) /\ Cardinality(B) \in Nat
    BY <2>4, <2>6, FS_Subset, FS_CardinalityType
  <2>9. Len(batches') = Len(batches) + 1 /\ Len(batches) \in Nat
    BY <1>2 DEF ShapeInv
  <2>10. Len(batches') <= Cardinality(B)
    BY <2>1, <2>7, <2>8, <2>9
  <2> QED
    BY <2>10 DEF B
<1> QED
  BY <1>3, <1>4, <1>5

LEMMA EndKeeps ==
    ASSUME IInv, StreamEnds
    PROVE  IInv'
<1> USE DEF IInv
<1>1. /\ going /\ iter = <<>> /\ going' = FALSE /\ CloseBatch /\ iter' = iter
  BY DEF StreamEnds
<1>2. /\ batches' = Append(batches, batch) /\ batch' = <<>> /\ cost' = 0
      /\ stream' = stream
  BY <1>1 DEF CloseBatch
<1>3. ShapeInv' /\ BatchesJoinToStream'
  BY <1>1, CloseKeeps
<1>4. BatchInv'
  <2>1. /\ Len(batches') = Len(batches) + 1
        /\ \A i \in 1..Len(batches) : batches'[i] = batches[i]
        /\ batches'[Len(batches) + 1] = batch /\ Len(batches) \in Nat
    BY <1>2 DEF ShapeInv
  <2>2. (Len(batch) > 1 => Total(batch) <= MaxCost) /\ batch # <<>>
    BY <1>1 DEF BatchInv, ShapeInv
  <2>3. ASSUME NEW i \in 1..Len(batches')
        PROVE  /\ batches'[i] # <<>>
               /\ Len(batches'[i]) > 1 => Total(batches'[i]) <= MaxCost
    <3>1. CASE i \in 1..Len(batches)
      BY <2>1, <3>1 DEF BatchInv
    <3>2. CASE i = Len(batches) + 1
      BY <2>1, <2>2, <3>2
    <3> QED
      BY <2>1, <3>1, <3>2
  <2>4. Len(batch') = 0
    BY <1>2
  <2> QED
    BY <1>1, <2>3, <2>4 DEF BatchInv
<1>5. GreedyInv'
  <2> SUFFICES ASSUME NEW cuts \in SUBSET (1 .. Len(stream) - 1),
                      CutsWithinGoal(cuts)
               PROVE  Len(batches') <= Cardinality(cuts) + 1
    BY <1>1, <1>2 DEF GreedyInv, CutsWithinGoal
  <2> DEFINE A == cuts \cap (1 .. Closed)
  <2>1. Len(batches) <= Cardinality(A)
    BY <1>1 DEF GreedyInv
  <2>2. A \subseteq cuts
    OBVIOUS
  <2> HIDE DEF A
  <2>3. IsFiniteSet(cuts) /\ Cardinality(cuts) \in Nat
    BY CutsFinite
  <2>4. Cardinality(A) <= Cardinality(cuts) /\ Cardinality(A) \in Nat
    BY <2>2, <2>3, FS_Subset, FS_CardinalityType
  <2>5. Len(batches') = Len(batches) + 1 /\ Len(batches) \in Nat
    BY <1>2 DEF ShapeInv
  <2> QED
    BY <2>1, <2>3, <2>4, <2>5
<1> QED
  BY <1>3, <1>4, <1>5

LEMMA StepKeeps ==
    ASSUME IInv, [Next]_vars
    PROVE  IInv'
<1>1. CASE UNCHANGED vars
  <2>1. ShapeInv' /\ BatchInv' /\ BatchesJoinToStream'
    BY <1>1 DEF vars, IInv, ShapeInv, BatchInv, BatchesJoinToStream
  <2>2. GreedyInv'
    BY <1>1, Zenon DEF vars, IInv, GreedyInv, CutsWithinGoal, Closed
  <2> QED
    BY <2>1, <2>2 DEF IInv
<1> QED
  BY <1>1, YieldKeeps, PutBackKeeps, EndKeeps DEF Next

(* "joining the b streams yields s", for a stream of any length.           *)
THEOREM BatchesJoin == Spec => []BatchesJoinToStream
<1>1. IInv => BatchesJoinToStream
  BY DEF IInv
<1> QED
  BY <1>1, InitHolds, StepKeeps, PTL DEF Spec

(* No batch is empty or above the goal, but for a single item, and no way  *)
(* to cut the stream within the goal needs fewer statements.               *)
THEOREM BatchesAreFewest == Spec => []FewestWithinGoal
<1>1. IInv => FewestWithinGoal
  <2> SUFFICES ASSUME IInv PROVE FewestWithinGoal
    OBVIOUS
  <2>1. DOMAIN batches = 1..Len(batches)
    BY DEF IInv, ShapeInv
  <2>2. \A i \in DOMAIN batches :
          /\ batches[i] # <<>>
          /\ Len(batches[i]) > 1 => Total(batches[i]) <= MaxCost
    BY <2>1 DEF IInv, BatchInv
  <2>3. ~going => \A cuts \in SUBSET (1 .. Len(stream) - 1) :
                    CutsWithinGoal(cuts) => Len(batches) <= Cardinality(cuts) + 1
    BY DEF IInv, GreedyInv
  <2> QED
    BY <2>2, <2>3 DEF FewestWithinGoal
<1> QED
  BY <1>1, InitHolds, StepKeeps, PTL DEF Spec
=============================================================================
