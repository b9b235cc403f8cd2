-------------------------- MODULE ObservationBucket --------------------------
(***************************************************************************)
(* The telemetry bucket: request threads and the background sampler put    *)
(* observations into a shared buffer under a lock; a thread that finds the *)
(* buffer over its threshold takes the whole store and, having released the*)
(* lock, saves it to a CSV file of its own; Monitor.stop empties the bucket*)
(* holding the lock.  Another process reads finished files and deletes     *)
(* them.  Memory is counted in units of OBSERVATION_MIN_SZ.                *)
(***************************************************************************)
EXTENDS Naturals, FiniteSets

CONSTANTS
    Threads,
    NoThread,       \* the lock is free
    Observations,   \* distinct observations (time, measurement, label)
    Threshold       \* memory_threshold

ASSUME ThreadsAssumption == NoThread \notin Threads
ASSUME ObservationsAssumption == IsFiniteSet(Observations)
ASSUME ThresholdAssumption == Threshold \in Nat

Phases == {"ready", "lock", "insert", "flush", "reset", "unlock",
           "write", "rename"}

VARIABLES
    buffer,     \* _buffer._store
    memory,     \* _buffer._memory_lower_bound
    lock,       \* the thread that holds _lock
    phase,      \* where each thread is in put or empty
    op,         \* which of the two it runs
    batch,      \* the observations it puts
    store,      \* the store it took from the buffer, not yet in a .csv file
    temp,       \* the rows of its .tmp file
    files,      \* contents of the .csv files in the target directory
    consumed,   \* contents of the files the reader processed and deleted
    sampled,    \* history: observations ever passed to put
    flushed     \* history: stores ever handed to the empty action

vars == <<buffer, memory, lock, phase, op, batch, store, temp, files, consumed,
          sampled, flushed>>

TypeOK ==
    /\ buffer \subseteq Observations
    /\ memory \in Nat
    /\ lock \in Threads \cup {NoThread}
    /\ phase \in [Threads -> Phases]
    /\ op \in [Threads -> {"put", "empty"}]
    /\ batch \in [Threads -> SUBSET Observations]
    /\ store \in [Threads -> SUBSET Observations]
    /\ temp \in [Threads -> SUBSET Observations]
    /\ files \subseteq SUBSET Observations
    /\ consumed \subseteq SUBSET Observations
    /\ sampled \subseteq Observations
    /\ flushed \subseteq SUBSET Observations

Init ==
    /\ buffer = {} /\ memory = 0 /\ lock = NoThread
    /\ phase = [t \in Threads |-> "ready"]
    /\ op = [t \in Threads |-> "put"]
    /\ batch = [t \in Threads |-> {}]
    /\ store = [t \in Threads |-> {}]
    /\ temp = [t \in Threads |-> {}]
    /\ files = {} /\ consumed = {} /\ sampled = {} /\ flushed = {}

Goto(t, ph) == phase' = [phase EXCEPT ![t] = ph]

Call(t, operation, ts) ==
    /\ phase[t] = "ready"
    /\ op' = [op EXCEPT ![t] = operation]
    /\ batch' = [batch EXCEPT ![t] = ts]
    /\ Goto(t, "lock")
    /\ UNCHANGED <<buffer, memory, lock, store, temp, files, consumed, flushed>>

Put(t, ts) == Call(t, "put", ts) /\ sampled' = sampled \cup ts
Empty(t) == Call(t, "empty", {}) /\ UNCHANGED sampled

(* Mutant: the lock is not waited for.                                     *)
Barge(t) ==
    /\ phase[t] = "lock"
    /\ lock' = t
    /\ Goto(t, IF op[t] = "put" THEN "insert" ELSE "flush")
    /\ UNCHANGED <<buffer, memory, op, batch, store, temp, files, consumed,
                   sampled, flushed>>

Acquire(t) ==
    /\ phase[t] = "lock" /\ lock = NoThread
    /\ lock' = t
    /\ Goto(t, IF op[t] = "put" THEN "insert" ELSE "flush")
    /\ UNCHANGED <<buffer, memory, op, batch, store, temp, files, consumed,
                   sampled, flushed>>

Insert(t) ==
    /\ phase[t] = "insert"
    /\ buffer' = buffer \cup batch[t]
    /\ memory' = memory + Cardinality(batch[t])
    /\ batch' = [batch EXCEPT ![t] = {}]
    /\ Goto(t, "flush")
    /\ UNCHANGED <<lock, op, store, temp, files, consumed, sampled, flushed>>

(* Mutant: the bucket may exceed its threshold.                            *)
FlushLate(t) ==
    /\ phase[t] = "flush"
    /\ IF op[t] = "empty" \/ memory > Threshold + 1
       THEN /\ store' = [store EXCEPT ![t] = buffer]
            /\ flushed' = flushed \cup {buffer}
            /\ Goto(t, "reset")
       ELSE UNCHANGED <<store, flushed>> /\ Goto(t, "unlock")
    /\ UNCHANGED <<buffer, memory, lock, op, batch, temp, files, consumed,
                   sampled>>

(* Mutant: empty, as put, only flushes a bucket over its threshold.        *)
FlushFullOnly(t) ==
    /\ phase[t] = "flush"
    /\ IF memory > Threshold
       THEN /\ store' = [store EXCEPT ![t] = buffer]
            /\ flushed' = flushed \cup {buffer}
            /\ Goto(t, "reset")
       ELSE UNCHANGED <<store, flushed>> /\ Goto(t, "unlock")
    /\ UNCHANGED <<buffer, memory, lock, op, batch, temp, files, consumed,
                   sampled>>

(* flush() keeps the store it returns and then installs a new one, leaving *)
(* the memory estimate as it is.                                           *)
Flush(t) ==
    /\ phase[t] = "flush"
    /\ IF op[t] = "empty" \/ memory > Threshold
       THEN /\ store' = [store EXCEPT ![t] = buffer]
            /\ flushed' = flushed \cup {buffer}
            /\ Goto(t, "reset")
       ELSE UNCHANGED <<store, flushed>> /\ Goto(t, "unlock")
    /\ UNCHANGED <<buffer, memory, lock, op, batch, temp, files, consumed,
                   sampled>>

(* Mutant: flush returns the store and goes on using it.                   *)
KeepStore(t) ==
    /\ phase[t] = "reset"
    /\ Goto(t, IF op[t] = "put" THEN "unlock" ELSE "write")
    /\ UNCHANGED <<buffer, memory, lock, op, batch, store, temp, files,
                   consumed, sampled, flushed>>

(* Mutant: flush takes a full bucket off the estimate.                     *)
SubtractThreshold(t) ==
    /\ phase[t] = "reset"
    /\ buffer' = {}
    /\ memory' = memory - (Threshold + 1)
    /\ Goto(t, IF op[t] = "put" THEN "unlock" ELSE "write")
    /\ UNCHANGED <<lock, op, batch, store, temp, files, consumed, sampled,
                   flushed>>

NewStore(t) ==
    /\ phase[t] = "reset"
    /\ buffer' = {}
    /\ Goto(t, IF op[t] = "put" THEN "unlock" ELSE "write")
    /\ UNCHANGED <<memory, lock, op, batch, store, temp, files, consumed,
                   sampled, flushed>>

(* put releases the lock before the empty action runs, empty after it.     *)
Release(t) ==
    /\ phase[t] = "unlock"
    /\ lock' = NoThread
    /\ Goto(t, IF store[t] # {} THEN "write" ELSE "ready")
    /\ UNCHANGED <<buffer, memory, op, batch, store, temp, files, consumed,
                   sampled, flushed>>

(* Mutant: the file is renamed before all its rows are written.            *)
RenameEarly(t) ==
    /\ phase[t] = "write"
    /\ \/ \E row \in store[t] \ temp[t] :
            /\ temp' = [temp EXCEPT ![t] = @ \cup {row}]
            /\ UNCHANGED phase
       \/ Goto(t, "rename") /\ UNCHANGED temp
    /\ UNCHANGED <<buffer, memory, lock, op, batch, store, files, consumed,
                   sampled, flushed>>

WriteRow(t) ==
    /\ phase[t] = "write"
    /\ \/ \E row \in store[t] \ temp[t] :
            /\ temp' = [temp EXCEPT ![t] = @ \cup {row}]
            /\ UNCHANGED phase
       \/ store[t] = temp[t] /\ Goto(t, "rename") /\ UNCHANGED temp
    /\ UNCHANGED <<buffer, memory, lock, op, batch, store, files, consumed,
                   sampled, flushed>>

Rename(t) ==
    /\ phase[t] = "rename"
    /\ files' = files \cup {temp[t]}
    /\ temp' = [temp EXCEPT ![t] = {}]
    /\ store' = [store EXCEPT ![t] = {}]
    /\ Goto(t, IF op[t] = "put" THEN "ready" ELSE "unlock")
    /\ UNCHANGED <<buffer, memory, lock, op, batch, consumed, sampled, flushed>>

(* The other program that aggregates the files and deletes them.           *)
Consume ==
    /\ \E f \in files : files' = files \ {f} /\ consumed' = consumed \cup {f}
    /\ UNCHANGED <<buffer, memory, lock, phase, op, batch, store, temp, sampled,
                   flushed>>

Work(t) == Acquire(t) \/ Insert(t) \/ Flush(t) \/ NewStore(t) \/ Release(t)
             \/ WriteRow(t) \/ Rename(t)

(* An observation is made once: its time stamp is part of it.              *)
Next == \/ \E t \in Threads :
            \/ \E ts \in SUBSET (Observations \ sampled) : ts # {} /\ Put(t, ts)
            \/ Empty(t) \/ Work(t)
        \/ Consume

Spec == Init /\ [][Next]_vars

(* A thread that has called put or empty goes on running, the file system  *)
(* answers, and a lock that is free infinitely often is got in the end.    *)
FairSpec == Spec /\ \A t \in Threads : WF_vars(Work(t)) /\ SF_vars(Acquire(t))

-----------------------------------------------------------------------------
Saved == UNION (files \cup consumed)

(* The buffer and the stores threads took from it never share an           *)
(* observation with one another or with a file, but for the instant in     *)
(* which flush has yet to drop its reference: a store has one owner at any *)
(* time, so saving it needs no lock.                                       *)
Confined ==
    /\ buffer \cap Saved = {}
    /\ \A t \in Threads :
        /\ batch[t] \cap buffer = {}
        /\ phase[t] # "reset" => store[t] \cap buffer = {}
        /\ (batch[t] \cup store[t]) \cap Saved = {}
        /\ batch[t] \cap store[t] = {}
        /\ \A u \in Threads \ {t} :
            (batch[t] \cup store[t]) \cap (batch[u] \cup store[u]) = {}

(* Every observation passed to put is in the buffer, with the thread that  *)
(* puts or saves it, or in a file: no interleaving of put, empty and the   *)
(* reader loses one.                                                       *)
NoObservationLost ==
    sampled \subseteq buffer \cup Saved \cup
        UNION {batch[t] \cup store[t] : t \in Threads}

(* A file the reader can see holds one whole store, never part of one.     *)
FilesAreComplete == files \cup consumed \subseteq flushed

(* "When the bucket is full, it gets emptied": whenever no thread is inside*)
(* the lock, the buffer holds no more than the threshold.                  *)
MemoryCapped == lock = NoThread => Cardinality(buffer) <= Threshold

Emptying == \E t \in Threads : op[t] = "empty" /\ phase[t] = "lock"

(* The observations passed to put get into the bucket, however long others *)
(* hold its lock to write files; one that is in the bucket when it is over *)
(* its threshold, or when a thread calls empty, and one in a store taken   *)
(* out of it, ends up in a file.                                           *)
FlushedIsSaved ==
    \A o \in Observations :
        /\ (\E t \in Threads : o \in batch[t]) ~> o \in buffer \cup Saved
        /\ o \in buffer /\ (Cardinality(buffer) > Threshold \/ Emptying)
                ~> o \in Saved
        /\ (\E t \in Threads : o \in store[t]) ~> o \in Saved

(* estimate_memory_lower_bound: "the minimum number of bytes the           *)
(* observation store can possibly take up in memory".                      *)
EstimateIsLowerBound == memory <= Cardinality(buffer)
=============================================================================
