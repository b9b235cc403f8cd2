---------------------------- MODULE CostSplitter ----------------------------
(***************************************************************************)
(* IterCostSplitter: how the rows of one insert are split into statements  *)
(* of bounded size (to_insert_batches) and job IDs into Redis pipelines    *)
(* (load_jobs).  An item is its cost, a stream the sequence of its costs.  *)
(* One step is one pull from the iterator shared by all batches.           *)
(***************************************************************************)
EXTENDS Naturals, SequencesExt

CONSTANTS
    Costs,      \* costs the cost function returns
    MaxCost,    \* batch_max_cost
    MaxLen      \* bound: length of the stream

ASSUME CostsAssumption == Costs \subseteq Nat
ASSUME BoundsAssumption == MaxCost \in Nat /\ MaxLen \in Nat

VARIABLES
    stream,     \* xs
    iter,       \* _iter: what is left of the stream, an item put back first
    batches,    \* the batches already yielded and consumed
    batch,      \* the batch being consumed
    cost,       \* its cost_so_far
    going       \* _keep_iterating, FALSE from the start for an empty stream

vars == <<stream, iter, batches, batch, cost, going>>

Streams == UNION {[1..n -> Costs] : n \in 0..MaxLen}

(* Sums(items)[i] is what the first i items cost. *)
Sums(items) ==
    LET sum[i \in 0..Len(items)] == IF i = 0 THEN 0 ELSE sum[i - 1] + items[i]
    IN  sum
Total(items) == Sums(items)[Len(items)]

Init ==
    /\ stream \in Streams
    /\ iter = stream /\ batches = <<>> /\ batch = <<>> /\ cost = 0
    /\ going = (stream # <<>>)

CloseBatch == /\ batches' = Append(batches, batch)
              /\ batch' = <<>> /\ cost' = 0
              /\ UNCHANGED stream

(* Mutant: an item above the goal is not let through on its own.           *)
YieldWithinGoal ==
    /\ going /\ iter # <<>>
    /\ cost + Head(iter) <= MaxCost
    /\ iter' = Tail(iter)
    /\ batch' = Append(batch, Head(iter))
    /\ cost' = cost + Head(iter)
    /\ UNCHANGED <<stream, batches, going>>

YieldItem ==
    /\ going /\ iter # <<>>
    /\ batch = <<>> \/ cost + Head(iter) <= MaxCost
    /\ iter' = Tail(iter)
    /\ batch' = Append(batch, Head(iter))
    /\ cost' = cost + Head(iter)
    /\ UNCHANGED <<stream, batches, going>>

(* Mutant: the item that did not fit is dropped.                           *)
DropItem ==
    /\ going /\ iter # <<>>
    /\ batch # <<>> /\ cost + Head(iter) > MaxCost
    /\ CloseBatch
    /\ iter' = Tail(iter)
    /\ UNCHANGED going

(* Mutant: an item that just fits is put back.                             *)
PutBackEarly ==
    /\ going /\ iter # <<>>
    /\ batch # <<>> /\ cost + Head(iter) >= MaxCost
    /\ CloseBatch
    /\ UNCHANGED <<iter, going>>

PutBack ==
    /\ going /\ iter # <<>>
    /\ batch # <<>> /\ cost + Head(iter) > MaxCost
    /\ CloseBatch
    /\ UNCHANGED <<iter, going>>

StreamEnds ==
    /\ going /\ iter = <<>>
    /\ going' = FALSE
    /\ CloseBatch
    /\ UNCHANGED iter

Next == YieldItem \/ PutBack \/ StreamEnds

(* list(ys) and list(jid_batch_iter): the consumer drains every batch.     *)
Spec == Init /\ [][Next]_vars /\ WF_vars(Next)

-----------------------------------------------------------------------------
(* "joining the b streams yields s": no row is left out, inserted twice or *)
(* moved, wherever the cuts fall and whatever was put back.                *)
BatchesJoinToStream == FlattenSeq(batches) \o batch \o iter = stream

(* A batch costs more than the goal only when it is a single item, none is *)
(* empty, which would send a statement without rows, and cutting greedily  *)
(* loses nothing: however the stream were cut into batches within the goal,*)
(* there would be no fewer statements to send.                             *)
CutsWithinGoal(cuts) ==
    \A i, j \in DOMAIN stream :
        i < j /\ cuts \cap (i .. j - 1) = {} => Total(SubSeq(stream, i, j)) <= MaxCost
FewestWithinGoal ==
    /\ \A i \in DOMAIN batches :
        /\ batches[i] # <<>>
        /\ Len(batches[i]) > 1 => Total(batches[i]) <= MaxCost
    /\ ~going => \A cuts \in SUBSET (1 .. Len(stream) - 1) :
                    CutsWithinGoal(cuts) => Len(batches) <= Cardinality(cuts) + 1

(* The generator ends: after finitely many pulls nothing is left over.     *)
StreamIsSplit == <>[](iter = <<>> /\ batch = <<>> /\ ~going)
=============================================================================
