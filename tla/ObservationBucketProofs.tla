----------------------- MODULE ObservationBucketProofs -----------------------
(* Proofs about ObservationBucket for any threads, any finite set of       *)
(* observations and any threshold.                                         *)
EXTENDS ObservationBucket, FiniteSetTheorems, TLAPS

(* A finite set of observations has a natural number of elements.          *)
LEMMA CountOfObservations ==
    ASSUME NEW S \in SUBSET Observations
    PROVE  IsFiniteSet(S) /\ Cardinality(S) \in Nat
BY ObservationsAssumption, FS_Subset, FS_CardinalityType

(* Every variable has its type; the memory estimate is a natural number.   *)
THEOREM TypeCorrect == Spec => []TypeOK
<1>1. Init => TypeOK
  BY DEF Init, TypeOK, Phases
<1>2. TypeOK /\ [Next]_vars => TypeOK'
  <2> SUFFICES ASSUME TypeOK, [Next]_vars PROVE TypeOK'
    OBVIOUS
  <2> USE DEF TypeOK, Phases, Goto
  <2>1. ASSUME NEW t \in Threads, NEW ts \in SUBSET (Observations \ sampled),
               Put(t, ts)
        PROVE  TypeOK'
    BY <2>1 DEF Put, Call
  <2>2. ASSUME NEW t \in Threads, Empty(t) PROVE TypeOK'
    BY <2>2 DEF Empty, Call
  <2>3. ASSUME NEW t \in Threads, Acquire(t) PROVE TypeOK'
    BY <2>3 DEF Acquire
  <2>4. ASSUME NEW t \in Threads, Insert(t) PROVE TypeOK'
    <3>1. Cardinality(batch[t]) \in Nat
      BY CountOfObservations
    <3> QED
      BY <2>4, <3>1 DEF Insert
  <2>5. ASSUME NEW t \in Threads, Flush(t) PROVE TypeOK'
    BY <2>5 DEF Flush
  <2>6. ASSUME NEW t \in Threads, NewStore(t) PROVE TypeOK'
    BY <2>6 DEF NewStore
  <2>7. ASSUME NEW t \in Threads, Release(t) PROVE TypeOK'
    BY <2>7 DEF Release
  <2>8. ASSUME NEW t \in Threads, WriteRow(t) PROVE TypeOK'
    BY <2>8 DEF WriteRow
  <2>9. ASSUME NEW t \in Threads, Rename(t) PROVE TypeOK'
    BY <2>9 DEF Rename
  <2>10. CASE Consume
    BY <2>10 DEF Consume
  <2>11. CASE UNCHANGED vars
    BY <2>11 DEF vars
  <2> QED
    BY <2>1, <2>2, <2>3, <2>4, <2>5, <2>6, <2>7, <2>8, <2>9, <2>10, <2>11
    DEF Next, Work
<1> QED
  BY <1>1, <1>2, PTL DEF Spec

-----------------------------------------------------------------------------
(* The lock is held from Acquire to Release; empty saves its store within. *)
Inside(t) == \/ phase[t] \in {"insert", "flush", "reset", "unlock"}
             \/ op[t] = "empty" /\ phase[t] \in {"write", "rename"}

LockInv == \A t \in Threads : Inside(t) <=> lock = t

(* What a thread has in hand in each phase.                                *)
PhaseInv ==
    \A t \in Threads :
        /\ batch[t] # {} => phase[t] \in {"lock", "insert"} /\ op[t] = "put"
        /\ phase[t] = "insert" => op[t] = "put"
        /\ store[t] # {} => /\ phase[t] \in {"reset", "unlock", "write", "rename"}
                            /\ store[t] \in flushed
        /\ op[t] = "empty" /\ phase[t] = "unlock" => store[t] = {}
        /\ phase[t] = "reset" => store[t] = buffer
        /\ phase[t] \in {"reset", "write", "rename"} => store[t] \in flushed
        /\ temp[t] \subseteq store[t]
        /\ phase[t] = "rename" => temp[t] = store[t]

(* An observation nobody has put yet is nowhere.                           *)
SampledInv ==
    /\ buffer \cup Saved \subseteq sampled
    /\ \A t \in Threads : batch[t] \cup store[t] \subseteq sampled

(* The estimate bounds the buffer from above, so that a buffer past the    *)
(* threshold is only seen by the thread about to flush it.                 *)
EstimateInv ==
    /\ Cardinality(buffer) <= memory
    /\ (\A t \in Threads : phase[t] \notin {"flush", "reset"})
        => Cardinality(buffer) <= Threshold

-----------------------------------------------------------------------------
(* The lock is with the thread that is inside, and nobody else gets in. *)
LEMMA LockStep ==
    ASSUME TypeOK, LockInv, PhaseInv, [Next]_vars
    PROVE  LockInv'
<1> USE ThreadsAssumption DEF TypeOK, LockInv, Inside, Phases, Goto
<1>1. ASSUME NEW t \in Threads, NEW ts \in SUBSET (Observations \ sampled),
             Put(t, ts)
      PROVE  LockInv'
  BY <1>1 DEF Put, Call
<1>2. ASSUME NEW t \in Threads, Empty(t) PROVE LockInv'
  BY <1>2 DEF Empty, Call
<1>3. ASSUME NEW t \in Threads, Acquire(t) PROVE LockInv'
  BY <1>3 DEF Acquire
<1>4. ASSUME NEW t \in Threads, Insert(t) PROVE LockInv'
  BY <1>4 DEF Insert
<1>5. ASSUME NEW t \in Threads, Flush(t) PROVE LockInv'
  BY <1>5 DEF Flush
<1>6. ASSUME NEW t \in Threads, NewStore(t) PROVE LockInv'
  BY <1>6 DEF NewStore
<1>7. ASSUME NEW t \in Threads, Release(t) PROVE LockInv'
  BY <1>7 DEF Release, PhaseInv
<1>8. ASSUME NEW t \in Threads, WriteRow(t) PROVE LockInv'
  BY <1>8 DEF WriteRow
<1>9. ASSUME NEW t \in Threads, Rename(t) PROVE LockInv'
  BY <1>9 DEF Rename
<1>10. CASE Consume
  BY <1>10 DEF Consume
<1>11. CASE UNCHANGED vars
  BY <1>11 DEF vars
<1> QED
  BY <1>1, <1>2, <1>3, <1>4, <1>5, <1>6, <1>7, <1>8, <1>9, <1>10, <1>11
  DEF Next, Work

(* A thread keeps in hand what its phase says it has. *)
LEMMA PhaseStep ==
    ASSUME TypeOK, LockInv, PhaseInv, [Next]_vars
    PROVE  PhaseInv'
<1> USE DEF TypeOK, LockInv, Inside, PhaseInv, Phases, Goto
<1>1. ASSUME NEW t \in Threads, NEW ts \in SUBSET (Observations \ sampled),
             Put(t, ts)
      PROVE  PhaseInv'
  BY <1>1 DEF Put, Call
<1>2. ASSUME NEW t \in Threads, Empty(t) PROVE PhaseInv'
  BY <1>2 DEF Empty, Call
<1>3. ASSUME NEW t \in Threads, Acquire(t) PROVE PhaseInv'
  BY <1>3 DEF Acquire
<1>4. ASSUME NEW t \in Threads, Insert(t) PROVE PhaseInv'
  BY <1>4 DEF Insert
<1>5. ASSUME NEW t \in Threads, Flush(t) PROVE PhaseInv'
  BY <1>5 DEF Flush
<1>6. ASSUME NEW t \in Threads, NewStore(t) PROVE PhaseInv'
  BY <1>6 DEF NewStore
<1>7. ASSUME NEW t \in Threads, Release(t) PROVE PhaseInv'
  BY <1>7 DEF Release
<1>8. ASSUME NEW t \in Threads, WriteRow(t) PROVE PhaseInv'
  BY <1>8 DEF WriteRow
<1>9. ASSUME NEW t \in Threads, Rename(t) PROVE PhaseInv'
  BY <1>9 DEF Rename
<1>10. CASE Consume
  BY <1>10 DEF Consume
<1>11. CASE UNCHANGED vars
  BY <1>11 DEF vars
<1> QED
  BY <1>1, <1>2, <1>3, <1>4, <1>5, <1>6, <1>7, <1>8, <1>9, <1>10, <1>11
  DEF Next, Work

-----------------------------------------------------------------------------
(* Only Rename adds to what is saved: the store of the thread that renames.*)
LEMMA SavedStep ==
    ASSUME TypeOK, PhaseInv
    PROVE  /\ UNCHANGED <<files, consumed>> \/ Consume => Saved' = Saved
           /\ \A t \in Threads : Rename(t) => Saved' = Saved \cup store[t]
<1>1. UNCHANGED <<files, consumed>> => Saved' = Saved
  BY DEF Saved
<1>2. Consume => Saved' = Saved
  <2> SUFFICES ASSUME Consume PROVE files' \cup consumed' = files \cup consumed
    BY DEF Saved
  <2> QED
    BY DEF Consume
<1>3. ASSUME NEW t \in Threads, Rename(t) PROVE Saved' = Saved \cup store[t]
  <2>1. temp[t] = store[t] /\ files' = files \cup {temp[t]} /\ consumed' = consumed
    BY <1>3 DEF Rename, PhaseInv
  <2> QED
    BY <2>1 DEF Saved
<1> QED
  BY <1>1, <1>2, <1>3

(* Only what was put is anywhere. *)
LEMMA SampledStep ==
    ASSUME TypeOK, PhaseInv, SampledInv, [Next]_vars
    PROVE  SampledInv'
<1> USE DEF TypeOK, SampledInv, PhaseInv, Phases, Goto
<1>1. ASSUME NEW t \in Threads, NEW ts \in SUBSET (Observations \ sampled),
             Put(t, ts)
      PROVE  SampledInv'
  BY <1>1, SavedStep DEF Put, Call
<1>2. ASSUME NEW t \in Threads, Empty(t) PROVE SampledInv'
  BY <1>2, SavedStep DEF Empty, Call
<1>3. ASSUME NEW t \in Threads, Acquire(t) PROVE SampledInv'
  BY <1>3, SavedStep DEF Acquire
<1>4. ASSUME NEW t \in Threads, Insert(t) PROVE SampledInv'
  BY <1>4, SavedStep DEF Insert
<1>5. ASSUME NEW t \in Threads, Flush(t) PROVE SampledInv'
  BY <1>5, SavedStep DEF Flush
<1>6. ASSUME NEW t \in Threads, NewStore(t) PROVE SampledInv'
  BY <1>6, SavedStep DEF NewStore
<1>7. ASSUME NEW t \in Threads, Release(t) PROVE SampledInv'
  BY <1>7, SavedStep DEF Release
<1>8. ASSUME NEW t \in Threads, WriteRow(t) PROVE SampledInv'
  BY <1>8, SavedStep DEF WriteRow
<1>9. ASSUME NEW t \in Threads, Rename(t) PROVE SampledInv'
  <2>1. Saved' = Saved \cup store[t]
    BY <1>9, SavedStep
  <2>2. /\ UNCHANGED <<buffer, sampled, batch>>
        /\ \A u \in Threads : store'[u] \subseteq store[u]
    BY <1>9 DEF Rename
  <2>3. store[t] \subseteq sampled
    OBVIOUS
  <2> QED
    BY <2>1, <2>2, <2>3, Zenon
<1>10. CASE Consume
  BY <1>10, SavedStep DEF Consume
<1>11. CASE UNCHANGED vars
  BY <1>11, SavedStep DEF vars
<1> QED
  BY <1>1, <1>2, <1>3, <1>4, <1>5, <1>6, <1>7, <1>8, <1>9, <1>10, <1>11
  DEF Next, Work

(* A store that a thread takes out is its own. *)
LEMMA ConfinedStep ==
    ASSUME TypeOK, LockInv, PhaseInv, SampledInv, Confined, [Next]_vars
    PROVE  Confined'
<1> USE DEF TypeOK, LockInv, Inside, PhaseInv, SampledInv, Confined, Phases, Goto
<1>1. ASSUME NEW t \in Threads, NEW ts \in SUBSET (Observations \ sampled),
             Put(t, ts)
      PROVE  Confined'
  BY <1>1, SavedStep DEF Put, Call
<1>2. ASSUME NEW t \in Threads, Empty(t) PROVE Confined'
  BY <1>2, SavedStep DEF Empty, Call
<1>3. ASSUME NEW t \in Threads, Acquire(t) PROVE Confined'
  BY <1>3, SavedStep DEF Acquire
<1>4. ASSUME NEW t \in Threads, Insert(t) PROVE Confined'
  BY <1>4, SavedStep DEF Insert
<1>5. ASSUME NEW t \in Threads, Flush(t) PROVE Confined'
  BY <1>5, SavedStep DEF Flush
<1>6. ASSUME NEW t \in Threads, NewStore(t) PROVE Confined'
  BY <1>6, SavedStep DEF NewStore
<1>7. ASSUME NEW t \in Threads, Release(t) PROVE Confined'
  BY <1>7, SavedStep DEF Release
<1>8. ASSUME NEW t \in Threads, WriteRow(t) PROVE Confined'
  BY <1>8, SavedStep DEF WriteRow
<1>9. ASSUME NEW t \in Threads, Rename(t) PROVE Confined'
  <2>1. Saved' = Saved \cup store[t] /\ batch[t] = {}
    BY <1>9, SavedStep DEF Rename
  <2>2. UNCHANGED <<buffer, batch>> /\ phase[t] = "rename"
    BY <1>9 DEF Rename
  <2>3. \A u \in Threads : store'[u] = IF u = t THEN {} ELSE store[u]
    BY <1>9 DEF Rename
  <2>4. \A u \in Threads \ {t} : phase'[u] = phase[u]
    BY <1>9 DEF Rename
  <2>5. store[t] \cap buffer = {}
    BY <2>2
  <2>6. buffer' \cap Saved' = {}
    BY <2>1, <2>2, <2>5
  <2>7. \A u \in Threads : /\ (batch'[u] \cup store'[u]) \cap Saved' = {}
                            /\ batch'[u] \cap store'[u] = {}
    BY <2>1, <2>2, <2>3
  <2> QED
    BY <2>2, <2>3, <2>4, <2>6, <2>7
<1>10. CASE Consume
  BY <1>10, SavedStep DEF Consume
<1>11. CASE UNCHANGED vars
  BY <1>11, SavedStep DEF vars
<1> QED
  BY <1>1, <1>2, <1>3, <1>4, <1>5, <1>6, <1>7, <1>8, <1>9, <1>10, <1>11
  DEF Next, Work

(* What was put stays in a buffer, in a store or in a file. *)
LEMMA KeptStep ==
    ASSUME TypeOK, PhaseInv, NoObservationLost, [Next]_vars
    PROVE  NoObservationLost'
<1> USE DEF TypeOK, PhaseInv, NoObservationLost, Phases, Goto
<1>1. ASSUME NEW t \in Threads, NEW ts \in SUBSET (Observations \ sampled),
             Put(t, ts)
      PROVE  NoObservationLost'
  BY <1>1, SavedStep DEF Put, Call
<1>2. ASSUME NEW t \in Threads, Empty(t) PROVE NoObservationLost'
  BY <1>2, SavedStep DEF Empty, Call
<1>3. ASSUME NEW t \in Threads, Acquire(t) PROVE NoObservationLost'
  BY <1>3, SavedStep DEF Acquire
<1>4. ASSUME NEW t \in Threads, Insert(t) PROVE NoObservationLost'
  BY <1>4, SavedStep DEF Insert
<1>5. ASSUME NEW t \in Threads, Flush(t) PROVE NoObservationLost'
  BY <1>5, SavedStep DEF Flush
<1>6. ASSUME NEW t \in Threads, NewStore(t) PROVE NoObservationLost'
  BY <1>6, SavedStep DEF NewStore
<1>7. ASSUME NEW t \in Threads, Release(t) PROVE NoObservationLost'
  BY <1>7, SavedStep DEF Release
<1>8. ASSUME NEW t \in Threads, WriteRow(t) PROVE NoObservationLost'
  BY <1>8, SavedStep DEF WriteRow
<1>9. ASSUME NEW t \in Threads, Rename(t) PROVE NoObservationLost'
  <2>1. /\ Saved' = Saved \cup store[t]
        /\ UNCHANGED <<buffer, sampled, batch>>
        /\ \A u \in Threads \ {t} : store'[u] = store[u]
    BY <1>9, SavedStep DEF Rename
  <2> SUFFICES ASSUME NEW o \in sampled, o \notin buffer, o \notin Saved'
               PROVE  \E u \in Threads : o \in batch'[u] \cup store'[u]
    BY <2>1
  <2>2. PICK u \in Threads : o \in batch[u] \cup store[u]
    BY <2>1
  <2> QED
    BY <2>1, <2>2
<1>10. CASE Consume
  BY <1>10, SavedStep DEF Consume
<1>11. CASE UNCHANGED vars
  BY <1>11, SavedStep DEF vars
<1> QED
  BY <1>1, <1>2, <1>3, <1>4, <1>5, <1>6, <1>7, <1>8, <1>9, <1>10, <1>11
  DEF Next, Work

(* A file gets its name when all of its store was written. *)
LEMMA FilesStep ==
    ASSUME TypeOK, PhaseInv, FilesAreComplete, [Next]_vars
    PROVE  FilesAreComplete'
<1> USE DEF TypeOK, PhaseInv, FilesAreComplete, Phases, Goto
<1>1. ASSUME NEW t \in Threads, NEW ts \in SUBSET (Observations \ sampled),
             Put(t, ts)
      PROVE  FilesAreComplete'
  BY <1>1 DEF Put, Call
<1>2. ASSUME NEW t \in Threads, Empty(t) PROVE FilesAreComplete'
  BY <1>2 DEF Empty, Call
<1>3. ASSUME NEW t \in Threads, Acquire(t) PROVE FilesAreComplete'
  BY <1>3 DEF Acquire
<1>4. ASSUME NEW t \in Threads, Insert(t) PROVE FilesAreComplete'
  BY <1>4 DEF Insert
<1>5. ASSUME NEW t \in Threads, Flush(t) PROVE FilesAreComplete'
  BY <1>5 DEF Flush
<1>6. ASSUME NEW t \in Threads, NewStore(t) PROVE FilesAreComplete'
  BY <1>6 DEF NewStore
<1>7. ASSUME NEW t \in Threads, Release(t) PROVE FilesAreComplete'
  BY <1>7 DEF Release
<1>8. ASSUME NEW t \in Threads, WriteRow(t) PROVE FilesAreComplete'
  BY <1>8 DEF WriteRow
<1>9. ASSUME NEW t \in Threads, Rename(t) PROVE FilesAreComplete'
  BY <1>9 DEF Rename
<1>10. CASE Consume
  BY <1>10 DEF Consume
<1>11. CASE UNCHANGED vars
  BY <1>11 DEF vars
<1> QED
  BY <1>1, <1>2, <1>3, <1>4, <1>5, <1>6, <1>7, <1>8, <1>9, <1>10, <1>11
  DEF Next, Work

-----------------------------------------------------------------------------
(* With the lock free the buffer is within the estimate and the            *)
(* threshold.                                                              *)
LEMMA EstimateStep ==
    ASSUME TypeOK, LockInv, PhaseInv, EstimateInv, [Next]_vars
    PROVE  EstimateInv'
<1> USE DEF TypeOK, LockInv, Inside, EstimateInv, Phases, Goto
<1>1. Cardinality(buffer) \in Nat
  BY CountOfObservations
<1>2. CASE UNCHANGED <<buffer, memory>> /\ \A t \in Threads :
              phase[t] \in {"flush", "reset"} => phase'[t] \in {"flush", "reset"}
  BY <1>2
<1>3. ASSUME NEW t \in Threads, Insert(t) PROVE EstimateInv'
  <2>1. phase'[t] = "flush" /\ buffer' = buffer \cup batch[t]
          /\ memory' = memory + Cardinality(batch[t])
    BY <1>3 DEF Insert
  <2>2. Cardinality(batch[t]) \in Nat
          /\ IsFiniteSet(buffer) /\ IsFiniteSet(batch[t])
    BY CountOfObservations
  <2>3. /\ Cardinality(buffer \cup batch[t])
             = Cardinality(buffer) + Cardinality(batch[t])
                 - Cardinality(buffer \cap batch[t])
        /\ Cardinality(buffer \cap batch[t]) \in Nat
    BY <2>2, FS_Union, CountOfObservations
  <2>4. Cardinality(buffer') <= memory'
    BY <1>1, <2>1, <2>2, <2>3
  <2> QED
    BY <2>1, <2>4
<1>4. ASSUME NEW t \in Threads, Flush(t) PROVE EstimateInv'
  <2>1. CASE phase'[t] = "reset"
    BY <1>4, <2>1 DEF Flush
  <2>2. CASE phase'[t] # "reset"
    <3>1. memory <= Threshold
      BY <1>4, <2>2, ThresholdAssumption DEF Flush
    <3>2. UNCHANGED <<buffer, memory>>
      BY <1>4 DEF Flush
    <3> QED
      BY <1>1, <3>1, <3>2, ThresholdAssumption
  <2> QED
    BY <2>1, <2>2
<1>5. ASSUME NEW t \in Threads, NewStore(t) PROVE EstimateInv'
  <2>1. buffer' = {} /\ memory' = memory
    BY <1>5 DEF NewStore
  <2> QED
    BY <2>1, FS_EmptySet, ThresholdAssumption
<1>6. CASE UNCHANGED vars
  BY <1>6 DEF vars
<1>7. ASSUME NEW t \in Threads, ~Insert(t), ~Flush(t), ~NewStore(t),
             \/ \E ts \in SUBSET (Observations \ sampled) : Put(t, ts)
             \/ Empty(t) \/ Work(t)
      PROVE  /\ UNCHANGED <<buffer, memory>>
             /\ phase[t] \notin {"flush", "reset"}
             /\ \A u \in Threads \ {t} : phase'[u] = phase[u]
  BY <1>7 DEF Put, Empty, Call, Work, Acquire, Release, WriteRow, Rename
<1>8. Consume => UNCHANGED <<buffer, memory, phase>>
  BY DEF Consume
<1> QED
  BY <1>2, <1>3, <1>4, <1>5, <1>6, <1>7, <1>8 DEF Next, Work

-----------------------------------------------------------------------------
IInv == /\ LockInv /\ PhaseInv /\ SampledInv /\ Confined
        /\ NoObservationLost /\ FilesAreComplete /\ EstimateInv

(* The invariant of the bucket. *)
LEMMA BucketInvariant == Spec => []IInv
<1>1. Init => IInv
  <2> SUFFICES ASSUME Init PROVE IInv
    OBVIOUS
  <2>1. Saved = {} /\ Cardinality(buffer) = 0
    BY FS_EmptySet DEF Init, Saved
  <2>2. LockInv
    BY ThreadsAssumption DEF Init, LockInv, Inside
  <2>3. PhaseInv
    BY DEF Init, PhaseInv
  <2>4. SampledInv /\ Confined /\ NoObservationLost /\ FilesAreComplete
    BY <2>1 DEF Init, SampledInv, Confined, NoObservationLost, FilesAreComplete
  <2>5. EstimateInv
    BY <2>1, ThresholdAssumption DEF Init, EstimateInv
  <2> QED
    BY <2>2, <2>3, <2>4, <2>5 DEF IInv
<1>2. TypeOK /\ IInv /\ [Next]_vars => IInv'
  BY LockStep, PhaseStep, SampledStep, ConfinedStep, KeptStep, FilesStep,
     EstimateStep DEF IInv
<1> QED
  BY <1>1, <1>2, TypeCorrect, PTL DEF Spec

(* A store has one owner, however many threads put, flush and save: the    *)
(* empty action may run outside the lock.                                  *)
THEOREM StoresAreConfined == Spec => []Confined
BY BucketInvariant, PTL DEF IInv

(* No interleaving loses an observation that was put into the bucket.      *)
THEOREM ObservationsAreKept == Spec => []NoObservationLost
BY BucketInvariant, PTL DEF IInv

(* The reader of the target directory only ever sees whole stores.         *)
THEOREM ReaderSeesWholeStores == Spec => []FilesAreComplete
BY BucketInvariant, PTL DEF IInv

(* Whenever the lock is free the buffer is within the threshold.           *)
THEOREM BufferIsCapped == Spec => []MemoryCapped
<1>1. IInv => MemoryCapped
  <2> SUFFICES ASSUME IInv, lock = NoThread
               PROVE  Cardinality(buffer) <= Threshold
    BY DEF MemoryCapped
  <2>1. \A t \in Threads : ~Inside(t)
    BY ThreadsAssumption DEF IInv, LockInv
  <2> QED
    BY <2>1 DEF IInv, EstimateInv, Inside
<1> QED
  BY <1>1, BucketInvariant, PTL
=============================================================================
