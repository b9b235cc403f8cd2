---------------------------- MODULE WorkQueueProofs ----------------------------
(* Proofs about WorkQueue for any tasks, workers and number of retries:    *)
(* its invariant and how often a task runs; then what becomes of it, and   *)
(* what the management functions say of it.                                *)
EXTENDS TaskCount, FiniteSetTheorems, SequenceTheorems, TLAPS

Elements(q) == {q[i] : i \in 1..Len(q)}
Distinct(q) == \A i, j \in 1..Len(q) : q[i] = q[j] => i = j

Waiting == Elements(queue)
Handling == {"save", "check", "unschedule"}    \* exc_handler has it still filed

(* A worker that is not idle has a task, of its own.                       *)
WorkerInv ==
    /\ \A w \in Workers : phase[w] = "idle" => ~stop[w]
    /\ \A w \in Workers : phase[w] # "idle" => task[w] \in Tasks
    /\ \A w \in Workers : phase[w] = "running" => ~stop[w]
    /\ \A w \in Workers : phase[w] \in {"check", "unschedule", "fail"} => stop[w]

OneWorkerEach ==
    \A v, w \in Workers :
        /\ phase[v] # "idle" /\ phase[w] # "idle" /\ v # w => task[v] # task[w]
        /\ phase[w] # "idle" => loaded[w].retries = retries[task[w]]

(* The status of a job is that of the registry it is in, so that it is in  *)
(* one; the job of a StopTask stays scheduled when it is filed as failed,  *)
(* where deleting it leaves it.                                            *)
RegistryInv ==
    /\ Distinct(queue)
    /\ \A t \in Tasks :
        /\ t \in Waiting => job[t] = "queued"
        /\ t \in started => job[t] = "started"
        /\ t \in scheduled => job[t] = "scheduled" /\ t \notin failed
        /\ t \in finished => job[t] = "finished"
        /\ t \in failed => \/ job[t] \in {"scheduled", "failed"}
                           \/ Deletes /\ job[t] = "deleted"
        /\ client[t] = "new" => job[t] = "none"

(* Where the task a worker is busy with may be filed meanwhile, and what   *)
(* its job says.                                                           *)
Holds(w) ==
    LET t == task[w] IN
    /\ t \notin Waiting \cup finished /\ job[t] # "none"
    /\ phase[w] = "running" => /\ t \notin scheduled \cup failed
                               /\ job[t] \in {"started", "deleted"}
    /\ phase[w] # "running" => /\ loaded[w].status \in {"scheduled", "failed"}
                               /\ job[t] \in {loaded[w].status, "deleted"}
                               /\ t \notin started
    /\ phase[w] \in {"save", "check"} =>
         /\ loaded[w].status = "scheduled" => t \notin failed
         /\ loaded[w].status = "failed" => t \notin scheduled
    /\ phase[w] = "unschedule" => t \notin failed
    /\ phase[w] \in {"unschedule", "fail"} => loaded[w].status = "scheduled"
    /\ phase[w] = "fail" => t \notin scheduled \cup failed
BusyInv == \A w \in Workers : phase[w] # "idle" => Holds(w)

(* How often a task was run, given the retries it has left: a run that is  *)
(* not retried yet, or was abandoned, is counted; so is the synchronous run*)
(* once it happened.                                                       *)
Extra(t) == IF RedisFails /\ Recover /\ client[t] # "sync" THEN 1 ELSE 0
Running(t) == \E w \in Workers : phase[w] = "running" /\ task[w] = t
Counted(t) ==
    /\ job[t] = "none" =>
        /\ runs[t] <= IF client[t] \in {"accepted", "rejected"} THEN 1 ELSE 0
        /\ retries[t] = MaxRetries
    /\ job[t] # "none" =>
        /\ client[t] = "sync" => RedisFails /\ Recover
        /\ runs[t] <= MaxRetries + 1 + Extra(t)
        /\ t \in Waiting \cup scheduled => runs[t] <= MaxRetries - retries[t] + Extra(t)
        /\ t \in started \/ Running(t)
             => runs[t] <= MaxRetries - retries[t] + 1 + Extra(t)
RunsInv == \A t \in Tasks : Counted(t)

-----------------------------------------------------------------------------
(* The queue: what putting, fetching and removing a task do to the set of  *)
(* tasks on it, none of them being on it twice.                            *)
LEMMA AppendElements ==
    ASSUME NEW S, NEW q \in Seq(S), NEW e \in S
    PROVE  /\ Append(q, e) \in Seq(S)
           /\ Elements(Append(q, e)) = Elements(q) \cup {e}
           /\ Distinct(q) /\ e \notin Elements(q) => Distinct(Append(q, e))
<1> DEFINE r == Append(q, e)
<1>1. /\ r \in Seq(S) /\ Len(r) = Len(q) + 1 /\ Len(q) \in Nat
      /\ \A i \in 1..Len(q) : r[i] = q[i]
      /\ r[Len(q) + 1] = e
  BY AppendProperties, LenProperties
<1> HIDE DEF r
<1>2. Elements(r) = Elements(q) \cup {e}
  <2>1. 1..Len(r) = (1..Len(q)) \cup {Len(q) + 1}
    BY <1>1
  <2> QED
    BY <1>1, <2>1 DEF Elements
<1>3. ASSUME Distinct(q), e \notin Elements(q), NEW i \in 1..Len(r), NEW j \in 1..Len(r),
             r[i] = r[j]
      PROVE  i = j
  <2>1. \A k \in 1..Len(q) : q[k] # e
    BY <1>3 DEF Elements
  <2> QED
    BY <1>1, <1>3, <2>1 DEF Distinct
<1> QED
  BY <1>1, <1>2, <1>3 DEF r, Distinct

(* Taking the head of a queue. *)
LEMMA TailElements ==
    ASSUME NEW S, NEW q \in Seq(S), q # <<>>
    PROVE  /\ Head(q) \in Elements(q) /\ Head(q) \in S
           /\ Tail(q) \in Seq(S)
           /\ Distinct(q) => /\ Elements(Tail(q)) = Elements(q) \ {Head(q)}
                             /\ Distinct(Tail(q))
<1> DEFINE r == Tail(q)
<1>1. /\ r \in Seq(S) /\ Len(q) \in Nat \ {0} /\ Len(r) = Len(q) - 1
      /\ \A i \in 1..Len(r) : r[i] = q[i + 1]
      /\ Head(q) = q[1] /\ Head(q) \in S
  BY HeadTailProperties, LenProperties, EmptySeq
<1> HIDE DEF r
<1>2. ASSUME Distinct(q) PROVE Elements(r) = Elements(q) \ {Head(q)}
  <2>1. ASSUME NEW e \in Elements(r) PROVE e \in Elements(q) \ {Head(q)}
    <3>1. PICK i \in 1..Len(r) : e = q[i + 1]
      BY <1>1, <2>1 DEF Elements
    <3>2. i + 1 \in 1..Len(q) /\ i + 1 # 1 /\ 1 \in 1..Len(q)
      BY <1>1
    <3> QED
      BY <1>1, <1>2, <3>1, <3>2 DEF Elements, Distinct
  <2>2. ASSUME NEW e \in Elements(q) \ {Head(q)} PROVE e \in Elements(r)
    <3>1. PICK i \in 1..Len(q) : e = q[i] /\ i # 1
      BY <1>1, <2>2 DEF Elements
    <3>2. i - 1 \in 1..Len(r) /\ r[i - 1] = q[i]
      BY <1>1, <3>1
    <3> QED
      BY <3>1, <3>2 DEF Elements
  <2> QED
    BY <2>1, <2>2
<1>3. ASSUME Distinct(q) PROVE Distinct(r)
  BY <1>1, <1>3 DEF Distinct
<1>4. Head(q) \in Elements(q)
  BY <1>1 DEF Elements
<1> QED
  BY <1>1, <1>2, <1>3, <1>4 DEF r

(* Taking a task from anywhere in the queue. *)
LEMMA WithoutElements ==
    ASSUME NEW S, NEW q \in Seq(S), NEW e \in S
    PROVE  /\ Without(q, e) \in Seq(S)
           /\ Distinct(q) => /\ Elements(Without(q, e)) = Elements(q) \ {e}
                             /\ Distinct(Without(q, e))
<1>1. Len(q) \in Nat /\ DOMAIN q = 1..Len(q) /\ \A i \in 1..Len(q) : q[i] \in S
  BY LenProperties
<1>2. CASE \A i \in 1..Len(q) : q[i] # e
  BY <1>1, <1>2 DEF Without, Elements
<1>3. ASSUME NEW k \in 1..Len(q), q[k] = e
      PROVE  /\ Without(q, e) \in Seq(S)
             /\ Distinct(q) => /\ Elements(Without(q, e)) = Elements(q) \ {e}
                               /\ Distinct(Without(q, e))
  <2> DEFINE r == Without(q, e)
             n == Len(q) - 1
  <2>1. /\ n \in Nat
        /\ r = [i \in 1..n |-> IF \E j \in 1..i : q[j] = e THEN q[i + 1] ELSE q[i]]
    BY <1>1, <1>3 DEF Without
  <2>2. r \in [1..n -> S]
    BY <1>1, <2>1
  <2>3. r \in Seq(S) /\ Len(r) = n
    BY <2>1, <2>2
  <2>4. ASSUME Distinct(q)
        PROVE  \A i \in 1..n : r[i] = IF k <= i THEN q[i + 1] ELSE q[i]
    <3>1. \A j \in 1..Len(q) : q[j] = e => j = k
      BY <1>3, <2>4 DEF Distinct
    <3>2. \A i \in 1..n : (\E j \in 1..i : q[j] = e) <=> k <= i
      BY <1>1, <1>3, <3>1
    <3> QED
      BY <2>1, <3>2
  <2> HIDE DEF r, n
  <2>5. n = Len(q) - 1
    BY DEF n
  <2>6. ASSUME Distinct(q) PROVE Elements(r) = Elements(q) \ {e}
    <3>1. ASSUME NEW x \in Elements(r) PROVE x \in Elements(q) \ {e}
      <4>1. PICK i \in 1..n : x = r[i]
        BY <2>3, <3>1 DEF Elements
      <4>2. PICK j \in 1..Len(q) : x = q[j] /\ j # k
        BY <1>1, <2>4, <2>5, <2>6, <4>1
      <4> QED
        BY <1>3, <2>6, <4>2 DEF Elements, Distinct
    <3>2. ASSUME NEW x \in Elements(q) \ {e} PROVE x \in Elements(r)
      <4>1. PICK i \in 1..Len(q) : x = q[i] /\ i # k
        BY <1>3, <3>2 DEF Elements
      <4>2. CASE i < k
        <5>1. i \in 1..n /\ r[i] = q[i]
          BY <1>1, <2>4, <2>5, <2>6, <4>2
        <5> QED
          BY <2>3, <4>1, <5>1 DEF Elements
      <4>3. CASE i > k
        <5>1. i - 1 \in 1..n /\ r[i - 1] = q[i]
          BY <1>1, <2>4, <2>5, <2>6, <4>3
        <5> QED
          BY <2>3, <4>1, <5>1 DEF Elements
      <4> QED
        BY <1>1, <4>1, <4>2, <4>3
    <3> QED
      BY <3>1, <3>2
  <2>7. ASSUME Distinct(q) PROVE Distinct(r)
    BY <1>1, <2>3, <2>4, <2>5, <2>7 DEF Distinct
  <2> QED
    BY <2>3, <2>6, <2>7 DEF r
<1> QED
  BY <1>1, <1>2, <1>3

-----------------------------------------------------------------------------
(* Scheduling a retry or filing a failure keeps the types.                 *)
LEMMA FailureTypes ==
    ASSUME TypeOK, NEW t \in Tasks, NEW left \in 0..MaxRetries,
           HandleJobFailure(t, left)
    PROVE  /\ job' \in [Tasks -> JobStatus \cup {"none", "deleted"}]
           /\ retries' \in [Tasks -> 0..MaxRetries]
           /\ {started', scheduled', failed'} \subseteq SUBSET Tasks
           /\ job'[t] \in {"scheduled", "failed"}
<1>1. /\ job \in [Tasks -> JobStatus \cup {"none", "deleted"}]
      /\ retries \in [Tasks -> 0..MaxRetries]
      /\ started \subseteq Tasks /\ scheduled \subseteq Tasks /\ failed \subseteq Tasks
  BY DEF TypeOK
<1>2. CASE left > 0
  <2>1. /\ job' = [job EXCEPT ![t] = "scheduled"]
        /\ retries' = [retries EXCEPT ![t] = left - 1]
        /\ started' = started \ {t} /\ scheduled' = scheduled \cup {t}
        /\ failed' = failed
    BY <1>2 DEF HandleJobFailure
  <2>2. left - 1 \in 0..MaxRetries
    BY <1>2, RetriesAssumption
  <2> QED
    BY <1>1, <2>1, <2>2 DEF JobStatus
<1>3. CASE ~(left > 0)
  <2>1. /\ job' = [job EXCEPT ![t] = "failed"]
        /\ retries' = [retries EXCEPT ![t] = left]
        /\ started' = started \ {t} /\ failed' = failed \cup {t}
        /\ scheduled' = scheduled
    BY <1>3 DEF HandleJobFailure
  <2> QED
    BY <1>1, <2>1 DEF JobStatus
<1> QED
  BY <1>2, <1>3

(* A worker that is done is idle, with nothing of its task left.           *)
LEMMA IdleTypes ==
    ASSUME TypeOK, NEW w \in Workers, GoIdle(w)
    PROVE  /\ phase' \in [Workers -> Phases]
           /\ task' \in [Workers -> Tasks \cup {NoTask}]
           /\ stop' \in [Workers -> BOOLEAN]
           /\ loaded' \in [Workers -> [status : JobStatus, retries : 0..MaxRetries]]
           /\ WorkerInv => WorkerInv'
BY RetriesAssumption DEF TypeOK, GoIdle, WorkerInv, Phases, JobStatus

(* Every variable has its type.                                            *)
LEMMA TypeStep ==
    ASSUME TypeOK, WorkerInv, [Next]_vars
    PROVE  TypeOK'
<1> USE NoTaskAssumption, RetriesAssumption
    DEF TypeOK, WorkerInv, Enter, registries, worker, Phases, JobStatus
<1>1. ASSUME NEW t \in Tasks, Enqueue(t) PROVE TypeOK'
  <2>1. job' \in [Tasks -> JobStatus \cup {"none", "deleted"}]
    BY <1>1 DEF Enqueue, Push
  <2>2. queue' \in Seq(Tasks)
    <3>1. queue' = queue \/ queue' = Append(queue, t)
      BY <1>1 DEF Enqueue, Push
    <3>2. Append(queue, t) \in Seq(Tasks)
      BY AppendElements
    <3> QED
      BY <3>1, <3>2
  <2>3. client' \in [Tasks -> ClientStates]
    BY <1>1, ZenonT(60) DEF Enqueue, ClientStates
  <2>4. UNCHANGED <<started, scheduled, finished, failed>>
    BY <1>1 DEF Enqueue, Push
  <2> QED
    BY <1>1, <2>1, <2>2, <2>3, <2>4 DEF Enqueue
<1>2. ASSUME NEW t \in Tasks, RunHere(t) PROVE TypeOK'
  BY <1>2 DEF RunHere, ClientStates
<1>3. ASSUME NEW t \in Tasks, RunAction(t) PROVE TypeOK'
  BY <1>3 DEF RunAction, ClientStates
<1>4. ASSUME NEW w \in Workers, Fetch(w) PROVE TypeOK'
  <2>1. Head(queue) \in Tasks /\ queue' \in Seq(Tasks)
    BY <1>4, TailElements DEF Fetch
  <2>2. /\ phase' \in [Workers -> Phases]
        /\ task' \in [Workers -> Tasks \cup {NoTask}]
        /\ loaded' \in [Workers -> [status : JobStatus, retries : 0..MaxRetries]]
    BY <1>4, <2>1 DEF Fetch
  <2>3. /\ job' \in [Tasks -> JobStatus \cup {"none", "deleted"}]
        /\ runs' \in [Tasks -> Nat] /\ started' \subseteq Tasks
    BY <1>4, <2>1, SMTT(30) DEF Fetch
  <2> QED
    BY <1>4, <2>1, <2>2, <2>3, SMTT(30) DEF Fetch
<1>5. ASSUME NEW w \in Workers, RunSucceeds(w) PROVE TypeOK'
  BY <1>5, IdleTypes, SMTT(30) DEF RunSucceeds
<1>6. ASSUME NEW w \in Workers, NEW isStop \in BOOLEAN, RunRaises(w, isStop)
      PROVE  TypeOK'
  <2>1. task[w] \in Tasks /\ loaded[w].retries \in 0..MaxRetries
    BY <1>6 DEF RunRaises
  <2>2. /\ job' \in [Tasks -> JobStatus \cup {"none", "deleted"}]
        /\ retries' \in [Tasks -> 0..MaxRetries]
        /\ {started', scheduled', failed'} \subseteq SUBSET Tasks
        /\ job'[task[w]] \in JobStatus
    BY <1>6, <2>1, FailureTypes DEF RunRaises
  <2>3. loaded' \in [Workers -> [status : JobStatus, retries : 0..MaxRetries]]
    BY <1>6, <2>1, <2>2 DEF RunRaises
  <2> QED
    BY <1>6, <2>1, <2>2, <2>3 DEF RunRaises
<1>7. ASSUME NEW w \in Workers, AddException(w) PROVE TypeOK'
  <2>1. CASE stop[w]
    BY <1>7, <2>1, ZenonT(60) DEF AddException, SaveJob
  <2>2. CASE ~stop[w]
    BY <1>7, <2>2, IdleTypes DEF AddException, SaveJob
  <2> QED
    BY <2>1, <2>2
<1>8. ASSUME NEW w \in Workers, IsScheduled(w) PROVE TypeOK'
  <2>1. CASE job[task[w]] = "scheduled"
    BY <1>8, <2>1, ZenonT(30) DEF IsScheduled
  <2>2. CASE job[task[w]] # "scheduled"
    BY <1>8, <2>2, IdleTypes DEF IsScheduled
  <2> QED
    BY <2>1, <2>2
<1>9. ASSUME NEW w \in Workers, RemoveFromScheduled(w) PROVE TypeOK'
  BY <1>9 DEF RemoveFromScheduled
<1>10. ASSUME NEW w \in Workers, AddToFailed(w) PROVE TypeOK'
  BY <1>10, IdleTypes DEF AddToFailed, SaveJob
<1>11. ASSUME NEW w \in Workers, Crash(w) PROVE TypeOK'
  BY <1>11, IdleTypes DEF Crash
<1>12. ASSUME NEW t \in Tasks, EnqueueScheduled(t) PROVE TypeOK'
  <2>1. queue' \in Seq(Tasks)
    BY <1>12, AppendElements DEF EnqueueScheduled
  <2> QED
    BY <1>12, <2>1 DEF EnqueueScheduled
<1>13. ASSUME NEW t \in Tasks, CleanAbandoned(t) PROVE TypeOK'
  <2>1. /\ job' \in [Tasks -> JobStatus \cup {"none", "deleted"}]
        /\ retries' \in [Tasks -> 0..MaxRetries]
        /\ {started', scheduled', failed'} \subseteq SUBSET Tasks
    BY <1>13, FailureTypes DEF CleanAbandoned
  <2> QED
    BY <1>13, <2>1 DEF CleanAbandoned
<1>14. ASSUME NEW t \in Tasks, Expire(t) PROVE TypeOK'
  BY <1>14 DEF Expire
<1>15. ASSUME Deletes, NEW t \in Tasks, Delete(t) PROVE TypeOK'
  <2>1. queue' \in Seq(Tasks)
    BY <1>15, WithoutElements DEF Delete
  <2> QED
    BY <1>15, <2>1 DEF Delete, TakeOut
<1>16. CASE UNCHANGED vars
  BY <1>16 DEF vars
<1> QED
  BY SMTT(30), <1>1, <1>2, <1>3, <1>4, <1>5, <1>6, <1>7, <1>8, <1>9, <1>10, <1>11, <1>12,
     <1>13, <1>14, <1>15, <1>16 DEF Next, Deletable, WorkerStep, ClientStep, Maintenance

(* A worker that is busy has a task, and remembers StopTask only while it  *)
(* handles the exception.                                                  *)
LEMMA WorkerInvStep ==
    ASSUME TypeOK, WorkerInv, [Next]_vars
    PROVE  WorkerInv'
<1> USE DEF TypeOK, WorkerInv, Enter, registries, worker, Phases
<1>1. ASSUME NEW t \in Tasks, ClientStep(t) PROVE WorkerInv'
  <2>1. UNCHANGED <<phase, task, stop>>
    BY <1>1 DEF ClientStep, Enqueue, RunHere, RunAction
  <2> QED
    BY <2>1
<1>2. ASSUME NEW w \in Workers, Fetch(w) PROVE WorkerInv'
  <2>1. Head(queue) \in Tasks
    BY <1>2, TailElements DEF Fetch
  <2> QED
    BY <1>2, <2>1 DEF Fetch
<1>3. ASSUME NEW w \in Workers, RunSucceeds(w) \/ Crash(w) \/ AddToFailed(w)
      PROVE  WorkerInv'
  BY <1>3, IdleTypes DEF RunSucceeds, Crash, AddToFailed
<1>4. ASSUME NEW w \in Workers, NEW isStop \in BOOLEAN, RunRaises(w, isStop)
      PROVE  WorkerInv'
  BY <1>4 DEF RunRaises
<1>5. ASSUME NEW w \in Workers, AddException(w) PROVE WorkerInv'
  <2>1. CASE stop[w]
    BY <1>5, <2>1 DEF AddException
  <2>2. CASE ~stop[w]
    BY <1>5, <2>2, IdleTypes DEF AddException
  <2> QED
    BY <2>1, <2>2
<1>6. ASSUME NEW w \in Workers, IsScheduled(w) PROVE WorkerInv'
  <2>1. CASE job[task[w]] = "scheduled"
    BY <1>6, <2>1 DEF IsScheduled
  <2>2. CASE job[task[w]] # "scheduled"
    BY <1>6, <2>2, IdleTypes DEF IsScheduled
  <2> QED
    BY <2>1, <2>2
<1>7. ASSUME NEW w \in Workers, RemoveFromScheduled(w) PROVE WorkerInv'
  BY <1>7 DEF RemoveFromScheduled
<1>8. ASSUME NEW t \in Tasks, Maintenance(t) \/ Expire(t) \/ Delete(t) PROVE WorkerInv'
  BY <1>8 DEF Maintenance, EnqueueScheduled, CleanAbandoned, Expire, Delete
<1>9. CASE UNCHANGED vars
  BY <1>9 DEF vars
<1> QED
  BY <1>1, <1>2, <1>3, <1>4, <1>5, <1>6, <1>7, <1>8, <1>9
  DEF Next, Deletable, WorkerStep

(* Types, and the tasks that workers have. *)
LEMMA TypeInvariant == Spec => [](TypeOK /\ WorkerInv)
<1>1. Init => TypeOK /\ WorkerInv
  BY RetriesAssumption, EmptySeq
  DEF Init, TypeOK, WorkerInv, Phases, JobStatus, ClientStates
<1>2. TypeOK /\ WorkerInv /\ [Next]_vars => (TypeOK /\ WorkerInv)'
  BY TypeStep, WorkerInvStep
<1> QED
  BY <1>1, <1>2, PTL DEF Spec

(* Every variable has its type, whatever is deleted, fails or is killed.   *)
THEOREM TypeCorrect == Spec => []TypeOK
BY TypeInvariant, PTL

-----------------------------------------------------------------------------
(* What a step does to the tasks on the queue.                             *)
LEMMA WaitingStep ==
    ASSUME TypeOK, Distinct(queue)
    PROVE  /\ Waiting \subseteq Tasks
           /\ UNCHANGED queue => UNCHANGED Waiting /\ Distinct(queue')
           /\ \A t \in Tasks \ Waiting : queue' = Append(queue, t)
                => Waiting' = Waiting \cup {t} /\ Distinct(queue')
           /\ queue # <<>> /\ queue' = Tail(queue)
                => /\ Waiting' = Waiting \ {Head(queue)} /\ Distinct(queue')
                   /\ Head(queue) \in Waiting
           /\ \A t \in Tasks : queue' = Without(queue, t)
                => Waiting' = Waiting \ {t} /\ Distinct(queue')
<1>1. queue \in Seq(Tasks)
  BY DEF TypeOK
<1>2. Waiting \subseteq Tasks
  BY <1>1, LenProperties DEF Waiting, Elements
<1>3. UNCHANGED queue => UNCHANGED Waiting /\ Distinct(queue')
  BY DEF Waiting, Elements
<1>4. ASSUME NEW t \in Tasks \ Waiting, queue' = Append(queue, t)
      PROVE  Waiting' = Waiting \cup {t} /\ Distinct(queue')
  BY <1>1, <1>4, AppendElements DEF Waiting
<1>5. ASSUME queue # <<>>, queue' = Tail(queue)
      PROVE  /\ Waiting' = Waiting \ {Head(queue)} /\ Distinct(queue')
             /\ Head(queue) \in Waiting
  BY <1>1, <1>5, TailElements DEF Waiting
<1>6. ASSUME NEW t \in Tasks, queue' = Without(queue, t)
      PROVE  Waiting' = Waiting \ {t} /\ Distinct(queue')
  BY <1>1, <1>6, WithoutElements DEF Waiting
<1> QED
  BY <1>2, <1>3, <1>4, <1>5, <1>6

QueueInv == TypeOK /\ WorkerInv /\ OneWorkerEach /\ RegistryInv /\ BusyInv

(* A task being scheduled again, or taken from the queue, is nobody's.     *)
LEMMA NobodyBusy ==
    ASSUME QueueInv, PromptHandler, NEW t \in Tasks
    PROVE  /\ EnqueueScheduled(t) \/ CleanAbandoned(t) \/ Expire(t)
                => \A w \in Workers : phase[w] # "idle" => task[w] # t
           /\ t \in Waiting \/ client[t] = "new"
                => \A w \in Workers : phase[w] # "idle" => task[w] # t
<1>1. EnqueueScheduled(t) \/ CleanAbandoned(t) \/ Expire(t) => ~Busy(t)
  BY DEF EnqueueScheduled, CleanAbandoned, Expire
<1>2. ~Busy(t) => \A w \in Workers : phase[w] # "idle" => task[w] # t
  BY DEF Busy
<1>3. t \in Waiting \/ client[t] = "new"
        => \A w \in Workers : phase[w] # "idle" => task[w] # t
  BY DEF QueueInv, BusyInv, Holds, RegistryInv
<1> QED
  BY <1>1, <1>2, <1>3

(* A task enters a registry when its job's status changes and it has       *)
(* left the one before.                                                    *)
LEMMA RegistryStep ==
    ASSUME QueueInv, PromptHandler, [Next]_vars
    PROVE  RegistryInv'
<1> USE DEF QueueInv, RegistryInv, TypeOK, JobStatus, registries
<1>1. ASSUME NEW t \in Tasks, Enqueue(t) PROVE RegistryInv'
  <2>1. t \notin Waiting \cup started \cup scheduled \cup finished \cup failed
    BY <1>1 DEF Enqueue
  <2>2. client'[t] # "new"
    BY <1>1 DEF Enqueue
  <2>3. \A u \in Tasks \ {t} : client'[u] = client[u]
    BY <1>1 DEF Enqueue
  <2>4. CASE Push(t)
    BY <2>1, <2>2, <2>3, <2>4, WaitingStep, SMTT(30) DEF Push
  <2>5. CASE UNCHANGED <<job, registries>>
    BY <2>2, <2>3, <2>5, WaitingStep
  <2> QED
    BY <1>1, <2>4, <2>5 DEF Enqueue
<1>2. ASSUME NEW t \in Tasks, RunHere(t) \/ RunAction(t) PROVE RegistryInv'
  <2>1. UNCHANGED <<job, registries>> /\ \A u \in Tasks : client'[u] = "new" => client[u] = "new"
    BY <1>2 DEF RunHere, RunAction
  <2> QED
    BY <2>1, WaitingStep
<1>3. ASSUME NEW w \in Workers, Fetch(w) PROVE RegistryInv'
  BY <1>3, WaitingStep, ZenonT(30) DEF Fetch
<1>4. ASSUME NEW w \in Workers, RunSucceeds(w) PROVE RegistryInv'
  BY <1>4, WaitingStep DEF RunSucceeds, WorkerInv, BusyInv, Holds
<1>5. ASSUME NEW t \in Tasks, NEW left, HandleJobFailure(t, left),
             UNCHANGED <<queue, finished, client>>, job[t] # "none",
             t \notin Waiting \cup scheduled \cup failed \cup finished
      PROVE  RegistryInv'
  <2>1. CASE left > 0
    BY <1>5, <2>1, WaitingStep DEF HandleJobFailure
  <2>2. CASE ~(left > 0)
    BY <1>5, <2>2, WaitingStep DEF HandleJobFailure
  <2> QED
    BY <2>1, <2>2
<1>6. ASSUME NEW w \in Workers, NEW isStop \in BOOLEAN, RunRaises(w, isStop)
      PROVE  RegistryInv'
  BY <1>5, <1>6 DEF RunRaises, WorkerInv, BusyInv, Holds
<1>7. ASSUME NEW w \in Workers, AddException(w) PROVE RegistryInv'
  <2>1. UNCHANGED <<registries, client>> /\ task[w] \in Tasks
    BY <1>7 DEF AddException, WorkerInv
  <2>2. job' = [job EXCEPT ![task[w]] = loaded[w].status]
    BY <1>7 DEF AddException, SaveJob
  <2>3. /\ task[w] \notin Waiting \cup finished \cup started /\ job[task[w]] # "none"
        /\ loaded[w].status \in {"scheduled", "failed"}
        /\ loaded[w].status = "failed" => task[w] \notin scheduled
    BY <1>7 DEF AddException, BusyInv, Holds
  <2> QED
    BY <2>1, <2>2, <2>3, WaitingStep
<1>8. ASSUME NEW w \in Workers, IsScheduled(w) \/ Crash(w) PROVE RegistryInv'
  <2>1. UNCHANGED <<job, registries, client>>
    BY <1>8 DEF IsScheduled, Crash
  <2> QED
    BY <2>1, WaitingStep
<1>9. ASSUME NEW w \in Workers, RemoveFromScheduled(w) PROVE RegistryInv'
  BY <1>9, WaitingStep DEF RemoveFromScheduled
<1>10. ASSUME NEW w \in Workers, AddToFailed(w) PROVE RegistryInv'
  <2>1. /\ UNCHANGED <<queue, started, scheduled, finished, client>>
        /\ failed' = failed \cup {task[w]} /\ task[w] \in Tasks
        /\ job' = [job EXCEPT ![task[w]] = loaded[w].status]
    BY <1>10 DEF AddToFailed, SaveJob, WorkerInv
  <2>2. /\ task[w] \notin Waiting \cup finished \cup started \cup scheduled
        /\ loaded[w].status = "scheduled" /\ job[task[w]] # "none"
    BY <1>10 DEF AddToFailed, BusyInv, Holds
  <2> QED
    BY <2>1, <2>2, WaitingStep, ZenonT(60)
<1>11. ASSUME NEW t \in Tasks, EnqueueScheduled(t) PROVE RegistryInv'
  <2>1. t \notin Waiting \cup started \cup finished \cup failed /\ client[t] # "new"
    BY <1>11 DEF EnqueueScheduled
  <2>2. Waiting' = Waiting \cup {t} /\ Distinct(queue')
    BY <1>11, <2>1, WaitingStep DEF EnqueueScheduled
  <2> QED
    BY <1>11, <2>1, <2>2 DEF EnqueueScheduled
<1>12. ASSUME NEW t \in Tasks, CleanAbandoned(t) PROVE RegistryInv'
  BY <1>5, <1>12 DEF CleanAbandoned
<1>13. ASSUME NEW t \in Tasks, Expire(t) PROVE RegistryInv'
  BY <1>13, WaitingStep, SMTT(30) DEF Expire
<1>14. ASSUME Deletes, NEW t \in Tasks, Delete(t) PROVE RegistryInv'
  <2>1. Waiting' = Waiting \ {t} /\ Distinct(queue')
    BY <1>14, WaitingStep DEF Delete
  <2> QED
    BY <1>14, <2>1 DEF Delete, TakeOut
<1>15. CASE UNCHANGED vars
  BY <1>15, WaitingStep DEF vars
<1> QED
  BY <1>1, <1>2, <1>3, <1>4, <1>6, <1>7, <1>8, <1>9, <1>10, <1>11, <1>12,
     <1>13, <1>14, <1>15 DEF Next, Deletable, WorkerStep, ClientStep, Maintenance

(* Two workers never have the same task: it is off the queue while one of  *)
(* them is busy with it, and nobody else changes its retries.              *)
LEMMA OneWorkerStep ==
    ASSUME QueueInv, PromptHandler, [Next]_vars
    PROVE  OneWorkerEach'
<1> USE DEF QueueInv, OneWorkerEach, TypeOK, worker
<1>1. ASSUME NEW t \in Tasks, ClientStep(t) PROVE OneWorkerEach'
  <2>1. UNCHANGED <<worker, retries>>
    BY <1>1 DEF ClientStep, Enqueue, RunHere, RunAction
  <2> QED
    BY <2>1
<1>2. ASSUME NEW w \in Workers, Fetch(w) PROVE OneWorkerEach'
  <2>1. /\ Head(queue) \in Tasks
        /\ \A v \in Workers : phase[v] # "idle" => task[v] # Head(queue)
    BY <1>2, WaitingStep, NobodyBusy DEF Fetch, RegistryInv
  <2> QED
    BY <1>2, <2>1 DEF Fetch
<1>3. ASSUME NEW w \in Workers, GoIdle(w), UNCHANGED retries PROVE OneWorkerEach'
  BY <1>3 DEF GoIdle
<1>4. ASSUME NEW w \in Workers, NEW ph, Enter(w, ph), phase[w] # "idle",
             UNCHANGED retries
      PROVE  OneWorkerEach'
  BY <1>4 DEF Enter
<1>5. ASSUME NEW w \in Workers, NEW isStop \in BOOLEAN, RunRaises(w, isStop)
      PROVE  OneWorkerEach'
  <2>1. /\ task' = task /\ task[w] \in Tasks /\ phase[w] # "idle"
        /\ \A v \in Workers \ {w} : phase'[v] = phase[v] /\ loaded'[v] = loaded[v]
        /\ loaded'[w].retries = retries'[task[w]]
    BY <1>5 DEF RunRaises, WorkerInv
  <2>2. \A u \in Tasks \ {task[w]} : retries'[u] = retries[u]
    BY <1>5 DEF RunRaises, HandleJobFailure
  <2>3. \A v \in Workers : phase'[v] # "idle" => phase[v] # "idle"
    BY <2>1
  <2>4. ASSUME NEW v \in Workers \ {w}, phase[v] # "idle"
        PROVE  loaded'[v].retries = retries'[task'[v]]
    <3>1. task[v] \in Tasks /\ task[v] # task[w]
      BY <2>1, <2>4 DEF WorkerInv
    <3> QED
      BY <2>1, <2>2, <2>4, <3>1
  <2> QED
    BY <2>1, <2>3, <2>4
<1>6. ASSUME NEW w \in Workers, phase[w] # "idle", SaveJob(w) PROVE UNCHANGED retries
  BY <1>6 DEF SaveJob, WorkerInv
<1>7. ASSUME NEW w \in Workers,
             RunSucceeds(w) \/ Crash(w) \/ AddException(w) \/ IsScheduled(w)
               \/ RemoveFromScheduled(w) \/ AddToFailed(w)
      PROVE  OneWorkerEach'
  <2>1. UNCHANGED retries
    BY <1>6, <1>7 DEF RunSucceeds, Crash, AddException, IsScheduled,
       RemoveFromScheduled, AddToFailed
  <2>2. GoIdle(w) \/ (phase[w] # "idle" /\ \E ph \in Phases : Enter(w, ph))
    BY <1>7 DEF RunSucceeds, Crash, AddException, IsScheduled, RemoveFromScheduled,
       AddToFailed, Phases
  <2> QED
    BY <1>3, <1>4, <2>1, <2>2
<1>8. ASSUME NEW t \in Tasks, EnqueueScheduled(t) \/ Expire(t) \/ Delete(t)
      PROVE  OneWorkerEach'
  <2>1. UNCHANGED <<worker, retries>>
    BY <1>8 DEF EnqueueScheduled, Expire, Delete
  <2> QED
    BY <2>1
<1>9. ASSUME NEW t \in Tasks, CleanAbandoned(t) PROVE OneWorkerEach'
  <2>1. UNCHANGED worker /\ \A u \in Tasks \ {t} : retries'[u] = retries[u]
    BY <1>9 DEF CleanAbandoned, HandleJobFailure
  <2>2. \A w \in Workers : phase[w] # "idle" => task[w] # t
    BY <1>9, NobodyBusy
  <2> QED
    BY <2>1, <2>2 DEF WorkerInv
<1>10. CASE UNCHANGED vars
  BY <1>10 DEF vars
<1> QED
  BY <1>1, <1>2, <1>5, <1>7, <1>8, <1>9, <1>10
  DEF Next, Deletable, WorkerStep, Maintenance

(* A step that files one task and leaves a worker alone that has another.  *)
OnlyFiles(t) ==
    \A u \in Tasks \ {t} :
        /\ job'[u] = job[u]
        /\ u \in Waiting' => u \in Waiting
        /\ u \in started' => u \in started
        /\ u \in scheduled' => u \in scheduled
        /\ u \in finished' => u \in finished
        /\ u \in failed' => u \in failed

SameWorker(w) == /\ phase'[w] = phase[w] /\ task'[w] = task[w]
                 /\ loaded'[w] = loaded[w]

(* What happens to one task does not matter to the worker of another. *)
LEMMA OthersHold ==
    ASSUME QueueInv, NEW t, OnlyFiles(t), NEW w \in Workers, SameWorker(w),
           phase[w] # "idle", task[w] # t
    PROVE  Holds(w)'
<1>1. Holds(w) /\ task[w] \in Tasks \ {t}
  BY DEF QueueInv, BusyInv, WorkerInv
<1> QED
  BY <1>1 DEF OnlyFiles, SameWorker, Holds

(* The steps of a task nobody is busy with.                                *)
LEMMA FreeTaskHold ==
    ASSUME QueueInv, NEW t \in Tasks, OnlyFiles(t), UNCHANGED worker,
           \A w \in Workers : phase[w] # "idle" => task[w] # t
    PROVE  BusyInv'
<1> SUFFICES ASSUME NEW w \in Workers, phase'[w] # "idle" PROVE Holds(w)'
  BY DEF BusyInv
<1>1. SameWorker(w)
  BY DEF SameWorker, worker
<1> QED
  BY <1>1, OthersHold DEF SameWorker

(* The steps of the worker that has the task.                              *)
LEMMA OwnTaskHold ==
    ASSUME QueueInv, NEW w \in Workers, phase[w] # "idle", OnlyFiles(task[w]),
           \A v \in Workers \ {w} : SameWorker(v),
           phase'[w] # "idle" => Holds(w)'
    PROVE  BusyInv'
<1> SUFFICES ASSUME NEW v \in Workers, phase'[v] # "idle", v # w PROVE Holds(v)'
  BY DEF BusyInv
<1>1. phase[v] # "idle" /\ task[v] # task[w] /\ SameWorker(v)
  BY DEF SameWorker, QueueInv, OneWorkerEach
<1> QED
  BY <1>1, OthersHold

(* What a worker knows of its task stays true until it is done with it. *)
LEMMA BusyStep ==
    ASSUME QueueInv, PromptHandler, [Next]_vars
    PROVE  BusyInv'
<1>1. ASSUME NEW t \in Tasks, Enqueue(t) PROVE BusyInv'
  <2>1. UNCHANGED worker
    BY <1>1 DEF Enqueue
  <2>2. t \notin Waiting
    BY <1>1 DEF Enqueue, QueueInv, RegistryInv
  <2>3. CASE Push(t)
    <3>1. OnlyFiles(t)
      BY <2>2, <2>3, WaitingStep DEF Push, OnlyFiles, QueueInv, RegistryInv, TypeOK
    <3> QED
      BY <1>1, <2>1, <3>1, NobodyBusy, FreeTaskHold DEF Enqueue
  <2>4. CASE UNCHANGED <<job, registries>>
    <3>1. OnlyFiles(t)
      BY <2>4, WaitingStep DEF registries, OnlyFiles, QueueInv, RegistryInv
    <3> QED
      BY <1>1, <2>1, <3>1, NobodyBusy, FreeTaskHold DEF Enqueue
  <2> QED
    BY <1>1, <2>3, <2>4 DEF Enqueue
<1>2. ASSUME UNCHANGED <<job, registries, worker>> PROVE BusyInv'
  BY <1>2, WaitingStep DEF registries, worker, BusyInv, Holds, QueueInv, RegistryInv
<1>3. ASSUME NEW w \in Workers, Fetch(w) PROVE BusyInv'
  <2> DEFINE h == Head(queue)
  <2>1. /\ h \in Waiting /\ h \in Tasks /\ Waiting' = Waiting \ {h}
        /\ h \notin started \cup scheduled \cup finished \cup failed
    BY <1>3, WaitingStep DEF Fetch, QueueInv, RegistryInv
  <2>2. OnlyFiles(h)
    BY <1>3, <2>1 DEF Fetch, OnlyFiles, QueueInv, TypeOK
  <2>3. \A v \in Workers : phase[v] # "idle" => task[v] # h
    BY <2>1, NobodyBusy
  <2>4. Holds(w)'
    BY <1>3, <2>1 DEF Fetch, Holds, QueueInv, TypeOK
  <2>5. \A v \in Workers \ {w} : SameWorker(v)
    BY <1>3 DEF Fetch, SameWorker, QueueInv, TypeOK
  <2>6. ASSUME NEW v \in Workers \ {w}, phase'[v] # "idle" PROVE Holds(v)'
    BY <2>2, <2>3, <2>5, <2>6, OthersHold DEF SameWorker
  <2> QED
    BY <2>4, <2>6 DEF BusyInv
<1>4. ASSUME NEW w \in Workers, GoIdle(w) \/ (\E ph : Enter(w, ph))
      PROVE  \A v \in Workers \ {w} : SameWorker(v)
  BY <1>4 DEF GoIdle, Enter, SameWorker, QueueInv, TypeOK
<1>5. ASSUME NEW w \in Workers, RunSucceeds(w) PROVE BusyInv'
  <2>1. OnlyFiles(task[w])
    BY <1>5, WaitingStep DEF RunSucceeds, OnlyFiles, QueueInv, RegistryInv, TypeOK
  <2>2. phase[w] # "idle" /\ phase'[w] = "idle" /\ GoIdle(w)
    BY <1>5 DEF RunSucceeds, GoIdle, QueueInv, TypeOK
  <2> QED
    BY <1>4, <2>1, <2>2, OwnTaskHold
<1>6. ASSUME NEW w \in Workers, NEW isStop \in BOOLEAN, RunRaises(w, isStop)
      PROVE  BusyInv'
  <2> DEFINE t == task[w]
  <2>1. /\ t \in Tasks /\ UNCHANGED <<queue, finished, task>> /\ phase[w] = "running"
        /\ phase' = [phase EXCEPT ![w] = "save"]
        /\ HandleJobFailure(t, loaded[w].retries)
        /\ loaded' = [loaded EXCEPT ![w] = [status |-> job'[t], retries |-> retries'[t]]]
    BY <1>6 DEF RunRaises, QueueInv, WorkerInv
  <2>2. OnlyFiles(t)
    BY <2>1, WaitingStep, SMTT(30)
    DEF HandleJobFailure, OnlyFiles, QueueInv, RegistryInv, TypeOK
  <2>3. /\ job'[t] \in {"scheduled", "failed"} /\ t \notin started'
        /\ job'[t] = "scheduled" => t \notin failed'
        /\ job'[t] = "failed" => t \notin scheduled'
    <3>1. Holds(w)
      BY <2>1 DEF QueueInv, BusyInv
    <3> QED
      BY <2>1, <3>1 DEF HandleJobFailure, Holds, QueueInv, TypeOK
  <2>4. t \notin Waiting' \cup finished'
    BY <2>1, WaitingStep DEF QueueInv, BusyInv, Holds, RegistryInv
  <2>5. Holds(w)'
    <3>1. phase'[w] = "save" /\ loaded'[w].status = job'[t] /\ task'[w] = t
      BY <2>1 DEF QueueInv, TypeOK
    <3> QED
      BY <2>3, <2>4, <3>1 DEF Holds
  <2>6. \A v \in Workers \ {w} : SameWorker(v)
    BY <2>1 DEF SameWorker, QueueInv, TypeOK
  <2> QED
    BY <2>1, <2>2, <2>5, <2>6, OwnTaskHold
<1>7. ASSUME NEW w \in Workers, AddException(w) PROVE BusyInv'
  <2>1. /\ phase[w] = "save" /\ UNCHANGED registries /\ task[w] \in Tasks
        /\ job' = [job EXCEPT ![task[w]] = loaded[w].status] /\ Holds(w)
    BY <1>7 DEF AddException, SaveJob, QueueInv, WorkerInv, BusyInv
  <2>2. OnlyFiles(task[w])
    BY <2>1, WaitingStep DEF registries, OnlyFiles, QueueInv, RegistryInv, TypeOK
  <2>3. GoIdle(w) \/ Enter(w, "check")
    BY <1>7 DEF AddException
  <2>4. ASSUME phase'[w] # "idle" PROVE Holds(w)'
    <3>1. /\ phase'[w] = "check" /\ UNCHANGED <<task, loaded>>
      BY <2>3, <2>4 DEF GoIdle, Enter, QueueInv, TypeOK
    <3>2. /\ job'[task[w]] = loaded[w].status
          /\ UNCHANGED <<Waiting, started, scheduled, finished, failed>>
      BY <2>1, WaitingStep DEF registries, QueueInv, RegistryInv, TypeOK
    <3> QED
      BY <2>1, <3>1, <3>2 DEF Holds
  <2> QED
    BY <1>4, <2>1, <2>2, <2>3, <2>4, OwnTaskHold
<1>8. ASSUME NEW w \in Workers, IsScheduled(w) PROVE BusyInv'
  <2>1. /\ phase[w] = "check" /\ UNCHANGED <<job, registries>> /\ Holds(w)
    BY <1>8 DEF IsScheduled, QueueInv, BusyInv
  <2>2. OnlyFiles(task[w]) /\ UNCHANGED <<Waiting, started, scheduled, finished, failed>>
    BY <2>1, WaitingStep DEF registries, OnlyFiles, QueueInv, RegistryInv
  <2>3. GoIdle(w) \/ (Enter(w, "unschedule") /\ job[task[w]] = "scheduled")
    BY <1>8 DEF IsScheduled
  <2>4. ASSUME phase'[w] # "idle" PROVE Holds(w)'
    <3>1. /\ phase'[w] = "unschedule" /\ UNCHANGED <<task, loaded>>
          /\ job[task[w]] = "scheduled"
      BY <2>3, <2>4 DEF GoIdle, Enter, QueueInv, TypeOK
    <3> QED
      BY <2>1, <2>2, <3>1 DEF Holds
  <2> QED
    BY <1>4, <2>1, <2>2, <2>3, <2>4, OwnTaskHold
<1>9. ASSUME NEW w \in Workers, RemoveFromScheduled(w) PROVE BusyInv'
  <2>1. /\ phase[w] = "unschedule" /\ scheduled' = scheduled \ {task[w]} /\ Holds(w)
        /\ UNCHANGED <<job, queue, started, finished, failed>>
        /\ Enter(w, "fail")
    BY <1>9 DEF RemoveFromScheduled, QueueInv, BusyInv
  <2>2. UNCHANGED Waiting
    BY <2>1, WaitingStep DEF QueueInv, RegistryInv
  <2>3. OnlyFiles(task[w])
    BY <2>1, <2>2 DEF OnlyFiles
  <2>4. Holds(w)'
    BY <2>1, <2>2 DEF Holds, Enter, QueueInv, TypeOK
  <2> QED
    BY <1>4, <2>1, <2>3, <2>4, OwnTaskHold
<1>10. ASSUME NEW w \in Workers, AddToFailed(w) PROVE BusyInv'
  <2>1. /\ phase[w] = "fail" /\ failed' = failed \cup {task[w]} /\ GoIdle(w)
        /\ UNCHANGED <<queue, started, scheduled, finished>>
        /\ job' = [job EXCEPT ![task[w]] = loaded[w].status]
    BY <1>10 DEF AddToFailed, SaveJob
  <2>2. OnlyFiles(task[w])
    BY <2>1, WaitingStep DEF OnlyFiles, QueueInv, RegistryInv, TypeOK
  <2>3. phase'[w] = "idle"
    BY <2>1 DEF GoIdle, QueueInv, TypeOK
  <2> QED
    BY <1>4, <2>1, <2>2, <2>3, OwnTaskHold
<1>11. ASSUME NEW w \in Workers, Crash(w) PROVE BusyInv'
  <2>1. /\ phase[w] # "idle" /\ GoIdle(w) /\ UNCHANGED <<job, registries>>
    BY <1>11, CrashAssumption DEF Crash
  <2>2. OnlyFiles(task[w])
    BY <2>1, WaitingStep DEF registries, OnlyFiles, QueueInv, RegistryInv
  <2>3. phase'[w] = "idle"
    BY <2>1 DEF GoIdle, QueueInv, TypeOK
  <2> QED
    BY <1>4, <2>1, <2>2, <2>3, OwnTaskHold
<1>12. ASSUME NEW t \in Tasks, EnqueueScheduled(t) PROVE BusyInv'
  <2>1. t \notin Waiting
    BY <1>12 DEF EnqueueScheduled, QueueInv, RegistryInv
  <2>2. OnlyFiles(t)
    BY <1>12, <2>1, WaitingStep
    DEF EnqueueScheduled, OnlyFiles, QueueInv, RegistryInv, TypeOK
  <2> QED
    BY <1>12, <2>2, NobodyBusy, FreeTaskHold DEF EnqueueScheduled
<1>13. ASSUME NEW t \in Tasks, CleanAbandoned(t) PROVE BusyInv'
  <2>1. OnlyFiles(t)
    BY <1>13, WaitingStep, SMTT(30)
    DEF CleanAbandoned, HandleJobFailure, OnlyFiles, QueueInv, RegistryInv, TypeOK
  <2> QED
    BY <1>13, <2>1, NobodyBusy, FreeTaskHold DEF CleanAbandoned
<1>14. ASSUME NEW t \in Tasks, Expire(t) PROVE BusyInv'
  <2>1. OnlyFiles(t)
    BY <1>14, WaitingStep DEF Expire, OnlyFiles, QueueInv, RegistryInv, TypeOK
  <2> QED
    BY <1>14, <2>1, NobodyBusy, FreeTaskHold DEF Expire
<1>15. ASSUME Deletes, NEW t \in Tasks, Delete(t) PROVE BusyInv'
  <2>1. /\ Waiting' = Waiting \ {t} /\ UNCHANGED worker
        /\ started' \subseteq started /\ scheduled' \subseteq scheduled
        /\ finished' \subseteq finished /\ failed' \subseteq failed
        /\ \A u \in Tasks : job'[u] = IF u = t THEN "deleted" ELSE job[u]
    BY <1>15, WaitingStep, SMTT(30) DEF Delete, TakeOut, QueueInv, RegistryInv, TypeOK
  <2> SUFFICES ASSUME NEW w \in Workers, phase[w] # "idle" PROVE Holds(w)'
    BY <2>1 DEF BusyInv, worker
  <2>2. Holds(w) /\ task[w] \in Tasks
    BY DEF QueueInv, BusyInv, WorkerInv
  <2> QED
    BY <2>1, <2>2 DEF Holds, worker
<1>16. ASSUME NEW t \in Tasks, RunHere(t) \/ RunAction(t) PROVE BusyInv'
  BY <1>2, <1>16 DEF RunHere, RunAction
<1>17. CASE UNCHANGED vars
  BY <1>2, <1>17 DEF vars
<1> QED
  BY <1>1, <1>3, <1>5, <1>6, <1>7, <1>8, <1>9, <1>10, <1>11, <1>12, <1>13, <1>14,
     <1>15, <1>16, <1>17 DEF Next, Deletable, WorkerStep, ClientStep, Maintenance

(* The invariant of the queue, its registries and its workers. *)
LEMMA QueueInvariant ==
    ASSUME PromptHandler
    PROVE  Spec => []QueueInv
<1>1. Init => QueueInv
  <2> SUFFICES ASSUME Init PROVE QueueInv
    OBVIOUS
  <2>1. TypeOK /\ WorkerInv
    BY RetriesAssumption, EmptySeq
    DEF Init, TypeOK, WorkerInv, Phases, JobStatus, ClientStates
  <2>2. Len(queue) = 0
    BY DEF Init
  <2>3. RegistryInv
    BY <2>2 DEF Init, RegistryInv, Waiting, Elements, Distinct
  <2>4. OneWorkerEach /\ BusyInv
    BY DEF Init, OneWorkerEach, BusyInv
  <2> QED
    BY <2>1, <2>3, <2>4 DEF QueueInv
<1>2. QueueInv /\ [Next]_vars => QueueInv'
  <2> SUFFICES ASSUME QueueInv, [Next]_vars PROVE QueueInv'
    OBVIOUS
  <2>1. TypeOK' /\ WorkerInv'
    BY TypeStep, WorkerInvStep DEF QueueInv
  <2> QED
    BY <2>1, OneWorkerStep, RegistryStep, BusyStep DEF QueueInv
<1> QED
  BY <1>1, <1>2, PTL DEF Spec

(* A set without two different elements has at most one.                   *)
LEMMA AtMostOne ==
    ASSUME NEW S, \A x, y \in S : x = y
    PROVE  Cardinality(S) <= 1
<1>1. CASE S = {}
  BY <1>1, FS_EmptySet
<1>2. ASSUME NEW x \in S PROVE Cardinality(S) <= 1
  <2>1. S = {x}
    BY <1>2
  <2> QED
    BY <2>1, FS_Singleton
<1> QED
  BY <1>1, <1>2

(* A task is in one registry, once, whatever is deleted or killed, if the  *)
(* retry interval outlasts the exception handler.                          *)
THEOREM TasksAreInOneRegistry ==
    ASSUME PromptHandler
    PROVE  Spec => []TaskInOneRegistry
<1>1. QueueInv => TaskInOneRegistry
  <2> SUFFICES ASSUME QueueInv, NEW t \in Tasks
               PROVE  Cardinality(Registries(t)) <= 1 /\ Cardinality(Queued(t)) <= 1
    BY DEF TaskInOneRegistry
  <2>1. DOMAIN queue = 1..Len(queue)
    BY LenProperties DEF QueueInv, TypeOK
  <2>2. \A i, j \in Queued(t) : i = j
    BY <2>1 DEF QueueInv, RegistryInv, Distinct, Queued
  <2>3. Queued(t) # {} => t \in Waiting
    BY <2>1 DEF Queued, Waiting, Elements
  <2>4. \A q, r \in Registries(t) : q = r
    BY <2>3 DEF QueueInv, RegistryInv, Registries
  <2> QED
    BY <2>2, <2>4, AtMostOne
<1> QED
  BY <1>1, QueueInvariant, PTL

-----------------------------------------------------------------------------
(* A step that neither runs a task nor uses a retry up.                    *)
LEMMA CountedFrame ==
    ASSUME NEW t \in Tasks, Counted(t),
           job'[t] = job[t] \/ "none" \notin {job[t], job'[t]},
           retries'[t] = retries[t], runs'[t] = runs[t], client'[t] = client[t],
           t \in Waiting' \cup scheduled' => t \in Waiting \cup scheduled,
           t \in started' => t \in started \/ Running(t),
           Running(t)' => Running(t)
    PROVE  Counted(t)'
BY DEF Counted, Extra

(* A run is paid for with a retry, but for the first and the synchronous   *)
(* one.                                                                    *)
LEMMA CountedStep ==
    ASSUME QueueInv, PromptHandler, RunsInv, [Next]_vars
    PROVE  RunsInv'
<1> SUFFICES ASSUME NEW t \in Tasks PROVE Counted(t)'
  BY DEF RunsInv
<1>0. /\ Counted(t) /\ TypeOK /\ MaxRetries \in Nat
      /\ retries[t] \in 0..MaxRetries /\ runs[t] \in Nat
  BY RetriesAssumption DEF RunsInv, QueueInv, TypeOK
<1>1. ASSUME NEW u \in Tasks, Enqueue(u) PROVE Counted(t)'
  <2>1. UNCHANGED <<retries, started, scheduled, runs>> /\ Running(t)' = Running(t)
    BY <1>1 DEF Enqueue, Push, registries, worker, Running
  <2>2. \/ job' = [job EXCEPT ![u] = "queued"] /\ queue' = Append(queue, u)
        \/ UNCHANGED <<job, queue>>
    BY <1>1 DEF Enqueue, Push, registries
  <2>3. u \notin Waiting /\ job[u] = "none" /\ client[u] = "new"
    BY <1>1 DEF Enqueue, QueueInv, RegistryInv
  <2>4. Waiting' \subseteq Waiting \cup {u}
    BY <2>2, <2>3, WaitingStep DEF QueueInv, RegistryInv
  <2>5. CASE t = u
    <3>1. client'[t] \in {"accepted", "rejected"} \/ (client'[t] = "sync" /\ RedisFails /\ Recover)
      BY <1>0, <1>1, <2>5 DEF Enqueue, TypeOK
    <3>2. runs[t] = 0 /\ retries[t] = MaxRetries
      BY <1>0, <2>3, <2>5 DEF Counted
    <3> QED
      BY <1>0, <2>1, <3>1, <3>2 DEF Counted, Extra
  <2>6. CASE t # u
    <3>1. job'[t] = job[t] /\ client'[t] = client[t]
      BY <1>0, <1>1, <2>2, <2>6 DEF Enqueue, TypeOK
    <3> QED
      BY <1>0, <2>1, <2>4, <2>6, <3>1, CountedFrame
  <2> QED
    BY <2>5, <2>6
<1>2. ASSUME NEW u \in Tasks, RunHere(u) \/ RunAction(u) PROVE Counted(t)'
  <2>1. /\ UNCHANGED <<job, retries, started, scheduled, Waiting>>
        /\ Running(t)' = Running(t)
    BY <1>2 DEF RunHere, RunAction, registries, worker, Running, Waiting
  <2>2. CASE t # u
    <3>1. runs'[t] = runs[t] /\ client'[t] = client[t]
      BY <1>0, <1>2, <2>2 DEF RunHere, RunAction, TypeOK
    <3> QED
      BY <1>0, <2>1, <3>1, CountedFrame
  <2>3. CASE t = u /\ RunHere(u)
    <3>1. job[t] = "none" /\ client[t] = "new" /\ client'[t] = "sync" /\ runs' = runs
      BY <1>0, <2>3 DEF RunHere, QueueInv, RegistryInv, TypeOK
    <3> QED
      BY <1>0, <2>1, <3>1 DEF Counted
  <2>4. CASE t = u /\ RunAction(u)
    <3>1. /\ client[t] = "sync" /\ client'[t] \in {"accepted", "rejected"}
          /\ runs'[t] = runs[t] + 1
      BY <1>0, <2>4 DEF RunAction, TypeOK
    <3> QED
      BY <1>0, <2>1, <3>1 DEF Counted, Extra
  <2> QED
    BY <1>2, <2>2, <2>3, <2>4
<1>3. ASSUME NEW w \in Workers, Fetch(w) PROVE Counted(t)'
  <2>1. /\ Head(queue) \in Waiting /\ Head(queue) \in Tasks
        /\ Waiting' = Waiting \ {Head(queue)}
        /\ UNCHANGED <<retries, client, scheduled>>
        /\ started' = started \cup {Head(queue)}
    BY <1>3, WaitingStep DEF Fetch, QueueInv, RegistryInv
  <2>2. CASE t = Head(queue)
    <3>1. /\ job[t] = "queued" /\ job'[t] = "started" /\ runs'[t] = runs[t] + 1
          /\ t \notin Waiting' \cup scheduled'
      BY <1>0, <1>3, <2>1, <2>2 DEF Fetch, QueueInv, RegistryInv, TypeOK
    <3> QED
      BY <1>0, <2>1, <2>2, <3>1 DEF Counted, Extra
  <2>3. CASE t # Head(queue)
    <3>1. job'[t] = job[t] /\ runs'[t] = runs[t]
      BY <1>0, <1>3, <2>3 DEF Fetch, TypeOK
    <3>2. Running(t)' => Running(t)
      BY <1>0, <1>3, <2>3 DEF Fetch, Running, TypeOK
    <3> QED
      BY <1>0, <2>1, <2>3, <3>1, <3>2, CountedFrame
  <2> QED
    BY <2>2, <2>3
<1>4. ASSUME NEW u \in Tasks, NEW left, HandleJobFailure(u, left), left = retries[u],
             UNCHANGED <<queue, client, runs>>, job[u] # "none",
             u \in started \/ Running(u), Running(t)' => Running(t),
             u \notin Waiting \cup scheduled
      PROVE  Counted(t)'
  <2>1. UNCHANGED Waiting /\ started' = started \ {u} /\ scheduled' \subseteq scheduled \cup {u}
    BY <1>4 DEF HandleJobFailure, Waiting
  <2>2. CASE t # u
    <3>1. job'[t] = job[t] /\ retries'[t] = retries[t]
      BY <1>0, <1>4, <2>2 DEF HandleJobFailure, TypeOK
    <3> QED
      BY <1>0, <1>4, <2>1, <2>2, <3>1, CountedFrame
  <2>3. CASE t = u
    <3>1. runs[t] <= MaxRetries - retries[t] + 1 + Extra(t)
      BY <1>0, <1>4, <2>3 DEF Counted
    <3>2. job'[t] # "none" /\ Extra(t)' = Extra(t) /\ Extra(t) \in {0, 1}
      BY <1>0, <1>4, <2>3 DEF HandleJobFailure, Extra, TypeOK
    <3>3. \/ retries'[t] = retries[t] - 1
          \/ retries'[t] = retries[t] /\ t \notin scheduled'
      BY <1>0, <1>4, <2>3 DEF HandleJobFailure, TypeOK
    <3>4. t \notin Waiting' /\ t \notin started'
      BY <1>4, <2>1, <2>3
    <3> QED
      BY <1>0, <1>4, <2>3, <3>1, <3>2, <3>3, <3>4 DEF Counted
  <2> QED
    BY <2>2, <2>3
<1>5. ASSUME NEW w \in Workers, NEW isStop \in BOOLEAN, RunRaises(w, isStop)
      PROVE  Counted(t)'
  <2>1. /\ phase[w] = "running" /\ task[w] \in Tasks /\ Running(task[w])
        /\ HandleJobFailure(task[w], retries[task[w]])
        /\ UNCHANGED <<queue, client, runs>>
    BY <1>5 DEF RunRaises, Running, QueueInv, WorkerInv, OneWorkerEach
  <2>2. job[task[w]] # "none" /\ task[w] \notin Waiting \cup scheduled
    BY <2>1 DEF QueueInv, BusyInv, Holds
  <2>3. Running(t)' => Running(t)
    BY <1>0, <1>5 DEF RunRaises, Running, TypeOK
  <2> QED
    BY <1>4, <2>1, <2>2, <2>3
<1>6. ASSUME NEW u \in Tasks, CleanAbandoned(u) PROVE Counted(t)'
  <2>1. u \in started /\ job[u] = "started" /\ u \notin Waiting \cup scheduled
    BY <1>6 DEF CleanAbandoned, QueueInv, RegistryInv
  <2>2. Running(t)' = Running(t)
    BY <1>6 DEF CleanAbandoned, worker, Running
  <2> QED
    BY <1>4, <1>6, <2>1, <2>2 DEF CleanAbandoned
<1>7. ASSUME NEW u \in Tasks, EnqueueScheduled(u) PROVE Counted(t)'
  <2>1. u \in scheduled /\ job[u] = "scheduled" /\ u \notin Waiting
    BY <1>7 DEF EnqueueScheduled, QueueInv, RegistryInv
  <2>2. Waiting' = Waiting \cup {u}
    BY <1>7, <2>1, WaitingStep DEF EnqueueScheduled, QueueInv, RegistryInv
  <2>3. job'[t] = job[t] \/ "none" \notin {job[t], job'[t]}
    BY <1>0, <1>7, <2>1 DEF EnqueueScheduled, TypeOK
  <2>4. UNCHANGED <<retries, runs, client, started>> /\ scheduled' = scheduled \ {u}
    BY <1>7 DEF EnqueueScheduled
  <2>5. Running(t)' = Running(t)
    BY <1>7 DEF EnqueueScheduled, worker, Running
  <2> QED
    BY <1>0, <2>1, <2>2, <2>3, <2>4, <2>5, CountedFrame
<1>8. ASSUME NEW u \in Tasks, Expire(u) PROVE Counted(t)'
  <2>1. /\ job[u] # "none" /\ UNCHANGED <<retries, runs, client, started, scheduled, Waiting>>
        /\ Running(t)' = Running(t)
    BY <1>8 DEF Expire, worker, Running, Waiting, QueueInv, RegistryInv
  <2>2. job'[t] = job[t] \/ "none" \notin {job[t], job'[t]}
    BY <1>0, <1>8, <2>1 DEF Expire, TypeOK
  <2> QED
    BY <1>0, <2>1, <2>2, CountedFrame
<1>9. ASSUME Deletes, NEW u \in Tasks, Delete(u) PROVE Counted(t)'
  <2>1. /\ job[u] # "none" /\ UNCHANGED <<retries, runs, client>>
        /\ started' \subseteq started /\ scheduled' \subseteq scheduled
        /\ Running(t)' = Running(t)
    BY <1>9 DEF Delete, TakeOut, worker, Running, JobStatus
  <2>2. Waiting' \subseteq Waiting
    BY <1>9, WaitingStep DEF Delete, QueueInv, RegistryInv
  <2>3. job'[t] = job[t] \/ "none" \notin {job[t], job'[t]}
    BY <1>0, <1>9, <2>1 DEF Delete, TypeOK
  <2> QED
    BY <1>0, <2>1, <2>2, <2>3, CountedFrame
<1>10. ASSUME NEW w \in Workers,
              RunSucceeds(w) \/ AddException(w) \/ IsScheduled(w)
                \/ RemoveFromScheduled(w) \/ AddToFailed(w) \/ Crash(w)
       PROVE  Counted(t)'
  <2>1. /\ phase[w] # "idle" /\ UNCHANGED <<queue, runs, client>>
        /\ started' \subseteq started /\ scheduled' \subseteq scheduled
    BY <1>10, CrashAssumption DEF RunSucceeds, AddException, IsScheduled,
       RemoveFromScheduled, AddToFailed, Crash, registries
  <2>2. task[w] \in Tasks /\ job[task[w]] # "none" /\ loaded[w].retries = retries[task[w]]
    BY <2>1 DEF QueueInv, WorkerInv, BusyInv, Holds, OneWorkerEach
  <2>3. \/ UNCHANGED <<job, retries>>
        \/ job' = [job EXCEPT ![task[w]] = "finished"] /\ UNCHANGED retries
        \/ SaveJob(w)
    BY <1>10 DEF RunSucceeds, AddException, IsScheduled, RemoveFromScheduled,
       AddToFailed, Crash
  <2>4. retries'[t] = retries[t]
    BY <1>0, <2>2, <2>3 DEF SaveJob, TypeOK
  <2>5. job'[t] = job[t] \/ "none" \notin {job[t], job'[t]}
    <3>1. loaded[w].status # "none"
      BY DEF QueueInv, TypeOK, JobStatus
    <3> QED
      BY <1>0, <2>2, <2>3, <3>1 DEF SaveJob, TypeOK
  <2>6. Running(t)' => Running(t)
    <3>1. GoIdle(w) \/ \E ph \in Phases \ {"running"} : Enter(w, ph)
      BY <1>10 DEF RunSucceeds, AddException, IsScheduled, RemoveFromScheduled,
         AddToFailed, Crash, Phases
    <3> QED
      BY <1>0, <3>1 DEF GoIdle, Enter, Running, TypeOK
  <2> QED
    BY <1>0, <2>1, <2>4, <2>5, <2>6, CountedFrame DEF Waiting
<1>11. CASE UNCHANGED vars
  BY <1>0, <1>11, CountedFrame DEF vars, registries, worker, Waiting, Running
<1> QED
  BY <1>1, <1>2, <1>3, <1>5, <1>6, <1>7, <1>8, <1>9, <1>10, <1>11
  DEF Next, Deletable, WorkerStep, ClientStep, Maintenance

(* A task is run once and once per retry, and at most once more by the web *)
(* worker that could not tell whether it was enqueued.                     *)
THEOREM RunsAreWithinRetries ==
    ASSUME PromptHandler
    PROVE  Spec => []RunsWithinRetries
<1>1. Init => RunsInv
  BY RetriesAssumption DEF Init, RunsInv, Counted
<1>2. QueueInv /\ RunsInv /\ [Next]_vars => RunsInv'
  BY CountedStep
<1>3. QueueInv /\ RunsInv => RunsWithinRetries
  <2> SUFFICES ASSUME QueueInv, RunsInv, NEW t \in Tasks
               PROVE  runs[t] <= 1 + MaxRetries + (IF RedisFails /\ Recover THEN 1 ELSE 0)
    BY DEF RunsWithinRetries
  <2>1. Counted(t) /\ runs[t] \in Nat
    BY DEF RunsInv, QueueInv, TypeOK
  <2> QED
    BY <2>1, RetriesAssumption DEF Counted, Extra
<1> QED
  BY <1>1, <1>2, <1>3, QueueInvariant, PTL DEF Spec

-----------------------------------------------------------------------------
(* What becomes of a task.                                                 *)

(* A worker's job is not deleted under it, if no endpoint is called.       *)
KeptInv == \A w \in Workers : phase[w] # "idle" => job[task[w]] # "deleted"

Failing(t) == \E w \in Workers : phase[w] = "fail" /\ task[w] = t

(* A job is filed where its status says; a StopTask's may be on its way    *)
(* from the scheduled to the failed ones.                                  *)
Filed(t) ==
    /\ job[t] = "queued" => t \in Waiting
    /\ job[t] = "started" => t \in started
    /\ job[t] = "finished" => t \in finished
    /\ job[t] = "failed" => t \in failed
    /\ job[t] = "scheduled" => t \in scheduled \cup failed \/ Failing(t)
FiledInv == \A t \in Tasks : Filed(t)

(* A task that raised StopTask is never on its way to another run: while   *)
(* it is scheduled the exception handler holds it.                         *)
Halted(t) ==
    /\ job[t] # "none" /\ client[t] # "sync"
    /\ t \notin Waiting \cup started
    /\ \A w \in Workers : phase[w] # "idle" /\ task[w] = t => stop[w]
    /\ t \in scheduled => \E w \in Workers : phase[w] \in Handling /\ task[w] = t
StoppedInv == \A t \in stopped : Halted(t)

-----------------------------------------------------------------------------
(* A queue without repetitions has as many elements as it is long.         *)
LEMMA ElementsCount ==
    ASSUME NEW S, NEW q \in Seq(S), Distinct(q)
    PROVE  IsFiniteSet(Elements(q)) /\ Cardinality(Elements(q)) = Len(q)
<1> DEFINE n == Len(q)
<1>1. n \in Nat /\ q \in [1..n -> S]
  BY LenProperties
<1>2. IsFiniteSet(1..n) /\ Cardinality(1..n) = n
  BY <1>1, FS_Interval, SMTT(30)
<1>3. q \in [1..n -> Elements(q)]
  BY <1>1 DEF Elements
<1>4. q \in Surjection(1..n, Elements(q))
  BY <1>3 DEF Surjection, Elements
<1>5. q \in Injection(1..n, Elements(q))
  BY <1>3 DEF Injection, IsInjective, Distinct
<1> QED
  BY <1>2, <1>4, <1>5, FS_Surjection

(* The sizes of two disjoint finite sets add up.                           *)
LEMMA DisjointCount ==
    ASSUME NEW S, NEW T, IsFiniteSet(S), IsFiniteSet(T), S \cap T = {}
    PROVE  /\ IsFiniteSet(S \cup T)
           /\ Cardinality(S \cup T) = Cardinality(S) + Cardinality(T)
<1>1. Cardinality(S) \in Nat /\ Cardinality(T) \in Nat
  BY FS_CardinalityType
<1> QED
  BY <1>1, FS_Union, FS_EmptySet

(* A task filed as failed whose job does not say so is one that raised     *)
(* StopTask, as is the task exc_handler works on.                          *)
DanglingInv ==
    /\ \A w \in Workers : stop[w] => task[w] \in stopped
    /\ \A t \in failed : job[t] # "failed" => t \in stopped

(* Nobody but exc_handler files a job as failed that is not, and deleting  *)
(* takes only the jobs that are from the registry.                         *)
LEMMA DanglingStep ==
    ASSUME QueueInv, PromptHandler, DanglingInv, [Next]_vars
    PROVE  DanglingInv'
<1> DEFINE Stops == \A w \in Workers : stop[w] => task[w] \in stopped
           Dangles == \A t \in failed : job[t] # "failed" => t \in stopped
<1> USE DEF QueueInv, RegistryInv, DanglingInv, TypeOK, JobStatus, registries, worker
<1>1. ASSUME NEW t \in Tasks, ClientStep(t) PROVE DanglingInv'
  <2>1. UNCHANGED <<worker, failed, stopped>>
    BY <1>1 DEF ClientStep, Enqueue, Push, RunHere, RunAction
  <2>2. ASSUME NEW u \in failed, job'[u] # "failed" PROVE u \in stopped
    BY <1>1, <2>2 DEF ClientStep, Enqueue, Push, RunHere, RunAction
  <2> QED
    BY <2>1, <2>2
<1>2. ASSUME NEW w \in Workers, Fetch(w) PROVE DanglingInv'
  <2>1. /\ Head(queue) \in Waiting
        /\ job' = [job EXCEPT ![Head(queue)] = "started"]
        /\ UNCHANGED <<failed, stopped, stop>>
        /\ task' = [task EXCEPT ![w] = Head(queue)] /\ ~stop[w]
    BY <1>2, WaitingStep, TailElements DEF Fetch, Waiting, WorkerInv
  <2>2. Head(queue) \notin failed
    BY <2>1
  <2> QED
    BY <2>1, <2>2
<1>3. ASSUME NEW w \in Workers, RunSucceeds(w) PROVE DanglingInv'
  <2>1. /\ task[w] \in Tasks \ failed
        /\ job' = [job EXCEPT ![task[w]] = "finished"] /\ UNCHANGED <<failed, stopped>>
    BY <1>3 DEF RunSucceeds, WorkerInv, BusyInv, Holds
  <2>2. Stops'
    BY <1>3 DEF RunSucceeds, GoIdle
  <2> QED
    BY <2>1, <2>2
<1>4. ASSUME NEW t \in Tasks, NEW left, HandleJobFailure(t, left), t \notin failed
      PROVE  \A u \in failed' : job'[u] # "failed" => u \in stopped
  <2>1. CASE left > 0
    BY <1>4, <2>1 DEF HandleJobFailure
  <2>2. CASE ~(left > 0)
    BY <1>4, <2>2 DEF HandleJobFailure
  <2> QED
    BY <2>1, <2>2
<1>5. ASSUME NEW w \in Workers, NEW isStop \in BOOLEAN, RunRaises(w, isStop)
      PROVE  DanglingInv'
  <2>1. task[w] \in Tasks \ failed /\ stopped \subseteq stopped'
    BY <1>5 DEF RunRaises, WorkerInv, BusyInv, Holds
  <2>2. Dangles'
    BY <1>4, <1>5, <2>1 DEF RunRaises
  <2>3. Stops'
    BY <1>5, <2>1 DEF RunRaises
  <2> QED
    BY <2>2, <2>3
<1>6. ASSUME NEW w \in Workers, AddException(w) PROVE DanglingInv'
  <2>1. /\ task[w] \in Tasks /\ UNCHANGED <<failed, stopped>>
        /\ job' = [job EXCEPT ![task[w]] = loaded[w].status]
        /\ loaded[w].status \in {"scheduled", "failed"}
        /\ loaded[w].status = "scheduled" => task[w] \notin failed
    BY <1>6 DEF AddException, SaveJob, WorkerInv, BusyInv, Holds
  <2>2. Stops'
    BY <1>6 DEF AddException, GoIdle, Enter
  <2> QED
    BY <2>1, <2>2
<1>7. ASSUME NEW w \in Workers, IsScheduled(w) \/ RemoveFromScheduled(w) \/ Crash(w)
      PROVE  DanglingInv'
  <2>1. UNCHANGED <<job, failed, stopped>>
    BY <1>7 DEF IsScheduled, RemoveFromScheduled, Crash
  <2>2. Stops'
    BY <1>7 DEF IsScheduled, RemoveFromScheduled, Crash, GoIdle, Enter
  <2> QED
    BY <2>1, <2>2
<1>8. ASSUME NEW w \in Workers, AddToFailed(w) PROVE DanglingInv'
  <2>1. /\ task[w] \in Tasks /\ task[w] \in stopped /\ UNCHANGED stopped
        /\ failed' = failed \cup {task[w]}
        /\ \A u \in Tasks \ {task[w]} : job'[u] = job[u]
    BY <1>8 DEF AddToFailed, SaveJob, WorkerInv
  <2>2. Stops'
    BY <1>8 DEF AddToFailed, GoIdle
  <2> QED
    BY <2>1, <2>2
<1>9. ASSUME NEW t \in Tasks, Maintenance(t) PROVE DanglingInv'
  <2>1. UNCHANGED <<stop, task, stopped>> /\ t \notin failed
    BY <1>9 DEF Maintenance, EnqueueScheduled, CleanAbandoned
  <2>2. CASE EnqueueScheduled(t)
    BY <2>1, <2>2 DEF EnqueueScheduled
  <2>3. CASE CleanAbandoned(t)
    BY <1>4, <2>1, <2>3 DEF CleanAbandoned
  <2> QED
    BY <1>9, <2>1, <2>2, <2>3 DEF Maintenance
<1>10. ASSUME NEW t \in Tasks, Expire(t) PROVE DanglingInv'
  BY <1>10 DEF Expire
<1>11. ASSUME Deletes, NEW t \in Tasks, Delete(t) PROVE DanglingInv'
  <2>1. UNCHANGED <<stop, task, stopped>> /\ failed' = TakeOut(failed, "failed", t)
        /\ job' = [job EXCEPT ![t] = "deleted"]
    BY <1>11 DEF Delete
  <2> QED
    BY <2>1 DEF TakeOut
<1>12. CASE UNCHANGED vars
  BY <1>12 DEF vars
<1> QED
  BY <1>1, <1>2, <1>3, <1>5, <1>6, <1>7, <1>8, <1>9, <1>10, <1>11, <1>12
  DEF Next, Deletable, WorkerStep

-----------------------------------------------------------------------------
(* The count of the tasks, read while they move.                           *)

Names == <<"queue", "scheduled", "finished", "failed">>

FoundRight ==
    \A i \in 1..4 :
        /\ Found[i] = {t \in Tasks : Names[i] \in Registries(t)}
        /\ IsFiniteSet(Found[i]) /\ Sizes[i] = Cardinality(Found[i])
        /\ \A j \in 1..4 : j # i => Found[i] \cap Found[j] = {}
        /\ \A t \in Found[i] : t \in Present \/ (t \in failed /\ job[t] = "deleted")

(* What count_jobs reads is the number of the tasks filed there, each task *)
(* being in one place.                                                     *)
LEMMA WhatIsRead ==
    ASSUME IsFiniteSet(Tasks)
    PROVE  QueueInv => FoundRight
<1> SUFFICES ASSUME QueueInv, NEW i \in 1..4
             PROVE  /\ Found[i] = {t \in Tasks : Names[i] \in Registries(t)}
                    /\ IsFiniteSet(Found[i]) /\ Sizes[i] = Cardinality(Found[i])
                    /\ \A j \in 1..4 : j # i => Found[i] \cap Found[j] = {}
                    /\ \A t \in Found[i] :
                        t \in Present \/ (t \in failed /\ job[t] = "deleted")
  BY DEF FoundRight
<1>1. /\ queue \in Seq(Tasks) /\ DOMAIN queue = 1..Len(queue)
      /\ scheduled \subseteq Tasks /\ finished \subseteq Tasks /\ failed \subseteq Tasks
  BY LenProperties DEF QueueInv, TypeOK
<1>2. /\ Waiting \subseteq Tasks
      /\ \A t \in Tasks : Queued(t) # {} <=> t \in Waiting
  BY <1>1, WaitingStep DEF Waiting, Elements, Queued
<1>3. Found = <<Waiting, scheduled, finished, failed>>
  BY <1>2 DEF Found
<1>4. IsFiniteSet(Waiting) /\ Cardinality(Waiting) = Len(queue)
  BY <1>1, ElementsCount DEF Waiting, QueueInv, RegistryInv
<1>5. IsFiniteSet(scheduled) /\ IsFiniteSet(finished) /\ IsFiniteSet(failed)
  BY <1>1, FS_Subset
<1>6. \A t \in Tasks : /\ "queue" \in Registries(t) <=> t \in Waiting
                       /\ "scheduled" \in Registries(t) <=> t \in scheduled
                       /\ "finished" \in Registries(t) <=> t \in finished
                       /\ "failed" \in Registries(t) <=> t \in failed
  BY <1>2 DEF Registries
<1>7. /\ Waiting \cap scheduled = {} /\ Waiting \cap finished = {}
      /\ Waiting \cap failed = {} /\ scheduled \cap finished = {}
      /\ scheduled \cap failed = {} /\ finished \cap failed = {}
      /\ \A t \in Waiting \cup scheduled \cup finished : t \in Present
      /\ \A t \in failed : t \in Present \/ job[t] = "deleted"
  BY <1>1, <1>2 DEF QueueInv, RegistryInv, Present, JobStatus
<1>8. /\ Found[1] = Waiting /\ Found[2] = scheduled /\ Found[3] = finished
      /\ Found[4] = failed
      /\ Sizes[1] = Len(queue) /\ Sizes[2] = Cardinality(scheduled)
      /\ Sizes[3] = Cardinality(finished) /\ Sizes[4] = Cardinality(failed)
      /\ Names[1] = "queue" /\ Names[2] = "scheduled" /\ Names[3] = "finished"
      /\ Names[4] = "failed"
  BY <1>3 DEF Sizes, Names
<1>9. i = 1 \/ i = 2 \/ i = 3 \/ i = 4
  OBVIOUS
<1>10. Found[i] = {t \in Tasks : Names[i] \in Registries(t)}
  BY <1>1, <1>2, <1>6, <1>8, <1>9
<1>11. IsFiniteSet(Found[i]) /\ Sizes[i] = Cardinality(Found[i])
  BY <1>4, <1>5, <1>8, <1>9
<1>12. ASSUME NEW j \in 1..4, j # i PROVE Found[i] \cap Found[j] = {}
  <2>1. j = 1 \/ j = 2 \/ j = 3 \/ j = 4
    OBVIOUS
  <2>2. CASE i = 1
    BY <1>7, <1>8, <1>12, <2>1, <2>2
  <2>3. CASE i = 2
    BY <1>7, <1>8, <1>12, <2>1, <2>3
  <2>4. CASE i = 3
    BY <1>7, <1>8, <1>12, <2>1, <2>4
  <2>5. CASE i = 4
    BY <1>7, <1>8, <1>12, <2>1, <2>5
  <2> QED
    BY <1>9, <2>2, <2>3, <2>4, <2>5
<1>13. \A t \in Found[i] : t \in Present \/ (t \in failed /\ job[t] = "deleted")
  <2>1. CASE i \in 1..3
    BY <1>7, <1>8, <1>9, <2>1
  <2>2. CASE i = 4
    BY <1>7, <1>8, <2>2
  <2> QED
    BY <1>9, <2>1, <2>2
<1> QED
  BY <1>10, <1>11, <1>12, <1>13

(* The sum so far, against the tasks that stayed where they were.          *)
TallyInv ==
    /\ reads \in 0..4 /\ tally \in Nat /\ moved \subseteq Tasks
    /\ Cardinality(Stayed) <= tally
    /\ tally <= Cardinality(Stayed) + reads * Cardinality(moved)

(* One more read adds the tasks it finds: those that stayed, and some that *)
(* moved.                                                                  *)
LEMMA TallyRead ==
    ASSUME FoundRight, IsFiniteSet(Tasks), TallyInv, ReadNext
    PROVE  TallyInv'
<1> DEFINE i == reads + 1
           more == Found[i] \ moved
<1>1. /\ reads \in 0..3 /\ i \in 1..4 /\ reads' = i /\ tally' = tally + Sizes[i]
      /\ moved' = moved /\ UNCHANGED vars
  BY DEF ReadNext, TallyInv
<1>2. /\ IsFiniteSet(Found[i]) /\ Sizes[i] = Cardinality(Found[i])
      /\ \A j \in 1..4 : j # i => Found[i] \cap Found[j] = {}
  BY <1>1 DEF FoundRight
<1>3. \A j \in 1..4 : Found[j] \subseteq Tasks /\ Found'[j] = Found[j]
  <2>1. Found' = Found
    BY <1>1 DEF vars, registries, Found, Queued
  <2> QED
    BY <2>1 DEF FoundRight
<1> HIDE DEF i
<1>4. FoundSoFar \subseteq Tasks /\ FoundSoFar \cap Found[i] = {}
  <2>1. \A j \in 1..reads : j \in 1..4 /\ j # i
    BY <1>1 DEF i
  <2> QED
    BY <1>2, <1>3, <2>1 DEF FoundSoFar
<1>5. FoundSoFar' = FoundSoFar \cup Found[i]
  <2>1. 1..reads' = (1..reads) \cup {i}
    BY <1>1 DEF i
  <2>2. \A j \in 1..reads' : Found'[j] = Found[j]
    BY <1>1, <1>3, <2>1
  <2> QED
    BY <2>1, <2>2 DEF FoundSoFar
<1>6. Stayed' = Stayed \cup more /\ Stayed \cap more = {}
  BY <1>1, <1>4, <1>5 DEF Stayed
<1>7. /\ IsFiniteSet(moved) /\ IsFiniteSet(Stayed) /\ IsFiniteSet(more)
      /\ IsFiniteSet(Found[i] \cap moved)
  BY <1>2, <1>4, FS_Subset DEF Stayed, TallyInv
<1>8. /\ Cardinality(Stayed') = Cardinality(Stayed) + Cardinality(more)
      /\ Cardinality(Found[i]) = Cardinality(more) + Cardinality(Found[i] \cap moved)
      /\ Cardinality(Found[i] \cap moved) <= Cardinality(moved)
  <2>1. Found[i] = more \cup (Found[i] \cap moved) /\ more \cap (Found[i] \cap moved) = {}
    OBVIOUS
  <2>2. Cardinality(Stayed \cup more) = Cardinality(Stayed) + Cardinality(more)
    BY <1>6, <1>7, DisjointCount
  <2>3. Cardinality(more \cup (Found[i] \cap moved))
            = Cardinality(more) + Cardinality(Found[i] \cap moved)
    BY <1>7, <2>1, DisjointCount
  <2>4. Cardinality(Found[i] \cap moved) <= Cardinality(moved)
    BY <1>7, FS_Subset
  <2> QED
    BY <1>6, <2>1, <2>2, <2>3, <2>4
<1>9. /\ Cardinality(Stayed) \in Nat /\ Cardinality(more) \in Nat
      /\ Cardinality(moved) \in Nat /\ Cardinality(Found[i] \cap moved) \in Nat
  BY <1>7, FS_CardinalityType
<1>10. (reads + 1) * Cardinality(moved) = reads * Cardinality(moved) + Cardinality(moved)
  BY <1>1, <1>9
<1> DEFINE s == Cardinality(Stayed)
           m == Cardinality(moved)
           e == Cardinality(more)
           k == Cardinality(Found[i] \cap moved)
<1>11. /\ tally \in Nat /\ s <= tally /\ tally <= s + reads * m
       /\ tally' = tally + (e + k) /\ k <= m /\ reads * m \in Nat
       /\ reads' * m = reads * m + m /\ Cardinality(Stayed') = s + e
       /\ s \in Nat /\ m \in Nat /\ e \in Nat /\ k \in Nat
  BY <1>1, <1>2, <1>8, <1>9, <1>10 DEF TallyInv, i
<1> HIDE DEF s, m, e, k
<1>12. /\ tally' \in Nat /\ Cardinality(Stayed') <= tally'
       /\ tally' <= Cardinality(Stayed') + reads' * m
  BY <1>11
<1> QED
  BY <1>1, <1>12 DEF TallyInv, m

(* While it does not read, the tasks that move drop out of those it counts *)
(* once.                                                                   *)
LEMMA TallyMeanwhile ==
    ASSUME FoundRight, FoundRight', IsFiniteSet(Tasks), TallyInv, Meanwhile
    PROVE  TallyInv'
<1>1. reads \in 0..4 /\ reads' = reads /\ tally' = tally /\ moved' \subseteq Tasks
  BY DEF Meanwhile, TallyInv
<1>2. CASE reads = 0
  <2>1. FoundSoFar = {} /\ FoundSoFar' = {}
    BY <1>1, <1>2 DEF FoundSoFar
  <2>2. Stayed = {} /\ Stayed' = {} /\ Cardinality(Stayed) = 0 /\ Cardinality(Stayed') = 0
    BY <2>1, FS_EmptySet DEF Stayed
  <2>3. /\ IsFiniteSet(moved) /\ IsFiniteSet(moved')
        /\ Cardinality(moved) \in Nat /\ Cardinality(moved') \in Nat
    BY <1>1, FS_Subset, FS_CardinalityType DEF TallyInv
  <2>4. tally = 0
    BY <1>2, <2>2, <2>3 DEF TallyInv
  <2> QED
    BY <1>1, <1>2, <2>2, <2>3, <2>4 DEF TallyInv
<1>3. CASE reads # 0
  <2> DEFINE new == {t \in Tasks : Registries(t)' # Registries(t)} \ moved
  <2>1. moved' = moved \cup new /\ moved \cap new = {} /\ reads \in 1..4
    BY <1>1, <1>3 DEF Meanwhile
  <2>2. \A t \in Tasks \ moved' : Registries(t)' = Registries(t)
    BY <1>3 DEF Meanwhile
  <2>3. ASSUME NEW j \in 1..4
        PROVE  /\ Found[j] = {t \in Tasks : Names[j] \in Registries(t)}
               /\ Found'[j] = {t \in Tasks : Names[j] \in Registries(t)'}
    BY DEF FoundRight, Names
  <2>4. \A j \in 1..4 : /\ Found[j] \subseteq Tasks /\ Found'[j] \subseteq Tasks
                        /\ \A t \in Tasks \ moved' : t \in Found'[j] <=> t \in Found[j]
    BY <2>2, <2>3
  <2>5. /\ FoundSoFar = UNION {Found[j] : j \in 1..reads}
        /\ FoundSoFar' = UNION {Found'[j] : j \in 1..reads}
        /\ 1..reads \subseteq 1..4
    BY <1>1 DEF FoundSoFar
  <2>6. Stayed' = Stayed \ new /\ Stayed \subseteq Tasks
    BY <2>1, <2>4, <2>5 DEF Stayed
  <2> HIDE DEF new
  <2>7. /\ IsFiniteSet(moved) /\ IsFiniteSet(new) /\ IsFiniteSet(Stayed)
        /\ IsFiniteSet(Stayed') /\ IsFiniteSet(Stayed \cap new)
    BY <1>1, <2>1, <2>6, FS_Subset DEF TallyInv
  <2>8. Cardinality(moved') = Cardinality(moved) + Cardinality(new)
    BY <2>1, <2>7, DisjointCount
  <2>9. /\ Cardinality(Stayed) = Cardinality(Stayed') + Cardinality(Stayed \cap new)
        /\ Cardinality(Stayed \cap new) <= Cardinality(new)
    <3>1. Stayed = Stayed' \cup (Stayed \cap new) /\ Stayed' \cap (Stayed \cap new) = {}
      BY <2>6
    <3>2. Cardinality(Stayed' \cup (Stayed \cap new))
            = Cardinality(Stayed') + Cardinality(Stayed \cap new)
      BY <2>7, <3>1, DisjointCount
    <3> QED
      BY <2>7, <3>1, <3>2, FS_Subset
  <2> DEFINE a == Cardinality(Stayed')
             c == Cardinality(Stayed \cap new)
             m == Cardinality(moved)
             n == Cardinality(new)
  <2>10. a \in Nat /\ c \in Nat /\ m \in Nat /\ n \in Nat
    BY <2>7, FS_CardinalityType
  <2>11. /\ Cardinality(Stayed) = a + c /\ c <= n /\ Cardinality(moved') = m + n
         /\ a + c <= tally /\ tally <= (a + c) + reads * m /\ tally \in Nat
    BY <2>8, <2>9 DEF TallyInv
  <2> HIDE DEF a, c, m, n
  <2>12. reads = 1 \/ reads = 2 \/ reads = 3 \/ reads = 4
    BY <2>1
  <2>13. a <= tally /\ tally <= a + reads * (m + n)
    BY <2>10, <2>11, <2>12
  <2> QED
    BY <1>1, <2>11, <2>13 DEF TallyInv, a
<1> QED
  BY <1>2, <1>3

(* The count of all tasks counts each task that stays where it is once and *)
(* errs by the tasks that move, and by stopped tasks that were deleted.    *)
THEOREM CountIsOffByMoves ==
    ASSUME PromptHandler, IsFiniteSet(Tasks)
    PROVE  CountSpec => []CountOffByMoves
<1>1. CountSpec => [](QueueInv /\ FoundRight)
  <2>1. CountInit => Init
    BY DEF CountInit
  <2>2. [CountNext]_countVars => [Next]_vars
    BY DEF CountNext, ReadNext, Answer, Meanwhile, countVars
  <2>3. CountSpec => Spec
    BY <2>1, <2>2, PTL DEF CountSpec, Spec
  <2> QED
    BY <2>3, QueueInvariant, WhatIsRead, PTL
<1>2. CountInit => DanglingInv /\ TallyInv
  <2> SUFFICES ASSUME CountInit PROVE DanglingInv /\ TallyInv
    OBVIOUS
  <2>1. FoundSoFar = {} /\ Stayed = {} /\ moved = {} /\ reads = 0 /\ tally = 0
    BY DEF CountInit, FoundSoFar, Stayed
  <2>2. Cardinality(Stayed) = 0 /\ Cardinality(moved) = 0
    BY <2>1, FS_EmptySet
  <2> QED
    BY <2>1, <2>2 DEF CountInit, Init, DanglingInv, TallyInv
<1>3. QueueInv /\ FoundRight /\ FoundRight' /\ DanglingInv /\ TallyInv /\ [CountNext]_countVars
        => DanglingInv' /\ TallyInv'
  <2> SUFFICES ASSUME QueueInv, FoundRight, FoundRight', DanglingInv, TallyInv,
                      [CountNext]_countVars
               PROVE  DanglingInv' /\ TallyInv'
    OBVIOUS
  <2>1. [Next]_vars
    BY DEF CountNext, ReadNext, Answer, Meanwhile, countVars
  <2>2. DanglingInv'
    BY <2>1, DanglingStep
  <2>3. CASE Answer
    <3>1. FoundSoFar' = {} /\ Stayed' = {} /\ moved' = {} /\ reads' = 0 /\ tally' = 0
      BY <2>3 DEF Answer, FoundSoFar, Stayed
    <3>2. Cardinality(Stayed') = 0 /\ Cardinality(moved') = 0
      BY <3>1, FS_EmptySet
    <3> QED
      BY <2>2, <3>1, <3>2 DEF TallyInv
  <2>4. CASE UNCHANGED countVars
    <3>1. UNCHANGED <<reads, tally, moved, Found>>
      BY <2>4 DEF countVars, vars, registries, Found, Queued
    <3> QED
      BY <2>2, <3>1 DEF TallyInv, Stayed, FoundSoFar
  <2> QED
    BY <2>2, <2>3, <2>4, TallyRead, TallyMeanwhile DEF CountNext
<1>4. FoundRight /\ DanglingInv /\ TallyInv => CountOffByMoves
  <2> SUFFICES ASSUME FoundRight, DanglingInv, TallyInv PROVE CountOffByMoves
    OBVIOUS
  <2>1. \A i \in 1..reads : i \in 1..4
    BY DEF TallyInv
  <2>2. \A i \in 1..reads : \A t \in Found[i] : t \in Present \cup stopped
    <3>1. \A i \in 1..4 : \A t \in Found[i] :
            t \in Present \/ (t \in failed /\ job[t] = "deleted")
      BY DEF FoundRight
    <3> QED
      BY <2>1, <3>1 DEF DanglingInv
  <2>3. Stayed \ Present \subseteq stopped
    BY <2>2 DEF Stayed, FoundSoFar
  <2> QED
    BY <2>3 DEF CountOffByMoves, TallyInv
<1> QED
  BY <1>1, <1>2, <1>3, <1>4, PTL DEF CountSpec

-----------------------------------------------------------------------------
(* Only Expire deletes a job, and it leaves the workers' jobs alone.       *)
LEMMA KeptStep ==
    ASSUME QueueInv, PromptHandler, ~Deletes, KeptInv, [Next]_vars
    PROVE  KeptInv'
<1> USE DEF QueueInv, TypeOK, WorkerInv
<1>1. ASSUME UNCHANGED <<phase, task>>,
             \A t \in Tasks : job'[t] = "deleted" => job[t] = "deleted" \/ ~Busy(t)
      PROVE  KeptInv'
  BY <1>1 DEF KeptInv, Busy
<1>2. ASSUME NEW t \in Tasks, ClientStep(t) PROVE KeptInv'
  BY <1>1, <1>2 DEF ClientStep, Enqueue, Push, RunHere, RunAction, worker
<1>3. ASSUME NEW w \in Workers, Fetch(w) PROVE KeptInv'
  <2>1. Head(queue) \in Tasks
    BY <1>3, TailElements DEF Fetch
  <2>2. /\ job' = [job EXCEPT ![Head(queue)] = "started"]
        /\ phase' = [phase EXCEPT ![w] = "running"]
        /\ task' = [task EXCEPT ![w] = Head(queue)]
    BY <1>3 DEF Fetch
  <2> QED
    BY <2>1, <2>2 DEF KeptInv
<1>4. ASSUME NEW w \in Workers, phase[w] # "idle",
             GoIdle(w) \/ UNCHANGED <<phase, task>>
               \/ \E ph \in Phases : phase' = [phase EXCEPT ![w] = ph] /\ task' = task,
             \E s \in JobStatus : job' = [job EXCEPT ![task[w]] = s] \/ UNCHANGED job
      PROVE  KeptInv'
  <2>1. "deleted" \notin JobStatus
    BY DEF JobStatus
  <2>2. \A t \in Tasks : job'[t] = "deleted" => job[t] = "deleted"
    BY <1>4, <2>1
  <2>3. \A v \in Workers : phase'[v] # "idle" => task'[v] = task[v] /\ phase[v] # "idle"
    BY <1>4 DEF GoIdle
  <2> QED
    BY <2>2, <2>3 DEF KeptInv
<1>5. ASSUME NEW w \in Workers, NEW isStop \in BOOLEAN, RunRaises(w, isStop)
      PROVE  KeptInv'
  <2>1. /\ phase[w] = "running" /\ phase' = [phase EXCEPT ![w] = "save"] /\ task' = task
    BY <1>5 DEF RunRaises
  <2>2. job' = [job EXCEPT ![task[w]] = "scheduled"] \/ job' = [job EXCEPT ![task[w]] = "failed"]
    BY <1>5 DEF RunRaises, HandleJobFailure
  <2> QED
    BY <1>4, <2>1, <2>2 DEF JobStatus, Phases
<1>6. ASSUME NEW w \in Workers,
             RunSucceeds(w) \/ AddException(w) \/ IsScheduled(w)
               \/ RemoveFromScheduled(w) \/ AddToFailed(w) \/ Crash(w)
      PROVE  KeptInv'
  <2>1. phase[w] # "idle"
    BY <1>6, CrashAssumption DEF RunSucceeds, AddException, IsScheduled,
       RemoveFromScheduled, AddToFailed, Crash
  <2>2. GoIdle(w) \/ \E ph \in Phases : Enter(w, ph)
    BY <1>6 DEF RunSucceeds, AddException, IsScheduled, RemoveFromScheduled,
       AddToFailed, Crash, Phases
  <2>3. \/ UNCHANGED job
        \/ job' = [job EXCEPT ![task[w]] = "finished"]
        \/ job' = [job EXCEPT ![task[w]] = loaded[w].status]
    BY <1>6 DEF RunSucceeds, AddException, IsScheduled, RemoveFromScheduled,
       AddToFailed, Crash, SaveJob
  <2>4. loaded[w].status \in JobStatus /\ "finished" \in JobStatus
    BY DEF JobStatus
  <2> QED
    BY <1>4, <2>1, <2>2, <2>3, <2>4 DEF Enter
<1>7. ASSUME NEW t \in Tasks, EnqueueScheduled(t) \/ CleanAbandoned(t) PROVE KeptInv'
  BY <1>1, <1>7 DEF EnqueueScheduled, CleanAbandoned, HandleJobFailure, worker
<1>8. ASSUME NEW t \in Tasks, Expire(t) PROVE KeptInv'
  BY <1>1, <1>8 DEF Expire, worker
<1>9. ASSUME Deletes, NEW t \in Tasks, Delete(t) PROVE KeptInv'
  BY <1>9 DEF Delete
<1>10. CASE UNCHANGED vars
  BY <1>1, <1>10 DEF vars, worker
<1> QED
  BY <1>2, <1>3, <1>5, <1>6, <1>7, <1>8, <1>9, <1>10
  DEF Next, Deletable, WorkerStep, Maintenance

-----------------------------------------------------------------------------
(* A step that leaves a job filed where it was.                            *)
LEMMA FiledFrame ==
    ASSUME NEW t \in Tasks, Filed(t), job'[t] = job[t],
           t \in Waiting => t \in Waiting', t \in started => t \in started',
           t \in finished => t \in finished', t \in failed => t \in failed',
           t \in scheduled \/ Failing(t) => t \in (scheduled \cup failed)' \/ Failing(t)'
    PROVE  Filed(t)'
BY DEF Filed

(* A task that is moved from one registry to another is in one of them     *)
(* or with the worker that moves it.                                       *)
LEMMA FiledStep ==
    ASSUME QueueInv, PromptHandler, ~Deletes, "fail" \notin CrashAt, KeptInv,
           FiledInv, [Next]_vars
    PROVE  FiledInv'
<1> SUFFICES ASSUME NEW t \in Tasks PROVE Filed(t)'
  BY DEF FiledInv
<1>0. Filed(t) /\ TypeOK
  BY DEF FiledInv, QueueInv
<1>1. ASSUME NEW u \in Tasks, Enqueue(u) PROVE Filed(t)'
  <2>1. UNCHANGED <<started, scheduled, finished, failed>> /\ Failing(t)' = Failing(t)
    BY <1>1 DEF Enqueue, Push, registries, worker, Failing
  <2>2. u \notin Waiting
    BY <1>1 DEF Enqueue, QueueInv, RegistryInv
  <2>3. \/ job' = [job EXCEPT ![u] = "queued"] /\ Waiting' = Waiting \cup {u}
        \/ UNCHANGED <<job, Waiting>>
    BY <1>1, <2>2, WaitingStep DEF Enqueue, Push, registries, QueueInv, RegistryInv
  <2>4. CASE t = u /\ job'[t] = "queued" /\ t \in Waiting'
    BY <2>4 DEF Filed
  <2>5. CASE job'[t] = job[t]
    BY <1>0, <2>1, <2>3, <2>5, FiledFrame
  <2> QED
    BY <1>0, <2>3, <2>4, <2>5 DEF TypeOK
<1>2. ASSUME NEW u \in Tasks, RunHere(u) \/ RunAction(u) PROVE Filed(t)'
  <2>1. UNCHANGED <<job, registries, Waiting>> /\ Failing(t)' = Failing(t)
    BY <1>2 DEF RunHere, RunAction, registries, worker, Failing, Waiting
  <2> QED
    BY <1>0, <2>1, FiledFrame DEF registries
<1>3. ASSUME NEW w \in Workers, Fetch(w) PROVE Filed(t)'
  <2>1. /\ Waiting' = Waiting \ {Head(queue)} /\ UNCHANGED <<scheduled, finished, failed>>
        /\ started' = started \cup {Head(queue)}
    BY <1>3, WaitingStep DEF Fetch, QueueInv, RegistryInv
  <2>2. Failing(t) => Failing(t)'
    BY <1>0, <1>3 DEF Fetch, Failing, TypeOK
  <2>3. CASE t = Head(queue)
    <3>1. job'[t] = "started"
      BY <1>0, <1>3, <2>3 DEF Fetch, TypeOK
    <3> QED
      BY <2>1, <2>3, <3>1 DEF Filed
  <2>4. CASE t # Head(queue)
    <3>1. job'[t] = job[t]
      BY <1>0, <1>3, <2>4 DEF Fetch, TypeOK
    <3> QED
      BY <1>0, <2>1, <2>2, <2>4, <3>1, FiledFrame
  <2> QED
    BY <2>3, <2>4
<1>4. ASSUME NEW w \in Workers, RunSucceeds(w) PROVE Filed(t)'
  <2>1. /\ UNCHANGED <<Waiting, scheduled, failed>>
        /\ started' = started \ {task[w]} /\ finished' = finished \cup {task[w]}
        /\ job' = [job EXCEPT ![task[w]] = "finished"]
    BY <1>4 DEF RunSucceeds, Waiting
  <2>2. Failing(t) => Failing(t)'
    BY <1>0, <1>4 DEF RunSucceeds, GoIdle, Failing, TypeOK
  <2>3. CASE t = task[w]
    <3>1. job'[t] = "finished"
      BY <1>0, <2>1, <2>3 DEF TypeOK
    <3> QED
      BY <2>1, <2>3, <3>1 DEF Filed
  <2>4. CASE t # task[w]
    <3>1. job'[t] = job[t]
      BY <1>0, <2>1, <2>4 DEF TypeOK
    <3> QED
      BY <1>0, <2>1, <2>2, <2>4, <3>1, FiledFrame
  <2> QED
    BY <2>3, <2>4
<1>5. ASSUME NEW u \in Tasks, NEW left, HandleJobFailure(u, left),
             UNCHANGED <<queue, finished>>, Failing(t) => Failing(t)'
      PROVE  Filed(t)'
  <2>1. UNCHANGED <<Waiting, finished>> /\ started' = started \ {u}
    BY <1>5 DEF HandleJobFailure, Waiting
  <2>2. \/ /\ job' = [job EXCEPT ![u] = "scheduled"]
           /\ scheduled' = scheduled \cup {u} /\ failed' = failed
        \/ /\ job' = [job EXCEPT ![u] = "failed"]
           /\ failed' = failed \cup {u} /\ scheduled' = scheduled
    BY <1>5 DEF HandleJobFailure
  <2>3. CASE t = u
    <3>1. \/ job'[t] = "scheduled" /\ t \in scheduled'
          \/ job'[t] = "failed" /\ t \in failed'
      BY <1>0, <2>2, <2>3 DEF TypeOK
    <3> QED
      BY <3>1 DEF Filed
  <2>4. CASE t # u
    <3>1. job'[t] = job[t]
      BY <1>0, <2>2, <2>4 DEF TypeOK
    <3> QED
      BY <1>0, <1>5, <2>1, <2>2, <2>4, <3>1, FiledFrame
  <2> QED
    BY <2>3, <2>4
<1>6. ASSUME NEW w \in Workers, NEW isStop \in BOOLEAN, RunRaises(w, isStop)
      PROVE  Filed(t)'
  <2>1. Failing(t) => Failing(t)'
    BY <1>0, <1>6 DEF RunRaises, Failing, TypeOK
  <2>2. task[w] \in Tasks
    BY <1>6 DEF RunRaises, QueueInv, WorkerInv
  <2> QED
    BY <1>5, <1>6, <2>1, <2>2 DEF RunRaises
<1>7. ASSUME NEW w \in Workers, AddException(w) \/ IsScheduled(w) \/ Crash(w)
      PROVE  Filed(t)'
  <2>1. phase[w] \notin {"idle", "fail"} /\ UNCHANGED registries
    BY <1>7, CrashAssumption DEF AddException, IsScheduled, Crash
  <2>2. GoIdle(w) \/ \E ph \in Phases : Enter(w, ph)
    BY <1>7 DEF AddException, IsScheduled, Crash, Phases
  <2>3. Failing(t) => Failing(t)'
    BY <1>0, <2>1, <2>2 DEF GoIdle, Enter, Failing, TypeOK
  <2>4. job'[t] = job[t]
    <3>1. AddException(w) => loaded[w].status = job[task[w]] /\ task[w] \in Tasks
      BY DEF AddException, KeptInv, QueueInv, BusyInv, Holds, WorkerInv
    <3> QED
      BY <1>0, <1>7, <3>1 DEF AddException, IsScheduled, Crash, SaveJob, TypeOK
  <2> QED
    BY <1>0, <2>1, <2>3, <2>4, FiledFrame DEF registries, Waiting
<1>8. ASSUME NEW w \in Workers, RemoveFromScheduled(w) PROVE Filed(t)'
  <2>1. /\ UNCHANGED <<job, task, Waiting, started, finished, failed>>
        /\ scheduled' = scheduled \ {task[w]} /\ phase' = [phase EXCEPT ![w] = "fail"]
    BY <1>8 DEF RemoveFromScheduled, Enter, Waiting
  <2>2. Failing(t) \/ t = task[w] => Failing(t)'
    BY <1>0, <2>1 DEF Failing, TypeOK
  <2> QED
    BY <1>0, <2>1, <2>2, FiledFrame
<1>9. ASSUME NEW w \in Workers, AddToFailed(w) PROVE Filed(t)'
  <2>1. /\ UNCHANGED <<Waiting, started, scheduled, finished>>
        /\ failed' = failed \cup {task[w]} /\ GoIdle(w)
        /\ job' = [job EXCEPT ![task[w]] = loaded[w].status]
    BY <1>9 DEF AddToFailed, SaveJob, Waiting
  <2>2. CASE t = task[w]
    <3>1. job'[t] = "scheduled"
      BY <1>0, <1>9, <2>1, <2>2 DEF AddToFailed, QueueInv, BusyInv, Holds, TypeOK
    <3> QED
      BY <2>1, <2>2, <3>1 DEF Filed
  <2>3. CASE t # task[w]
    <3>1. job'[t] = job[t] /\ (Failing(t) => Failing(t)')
      BY <1>0, <2>1, <2>3 DEF GoIdle, Failing, TypeOK
    <3> QED
      BY <1>0, <2>1, <2>3, <3>1, FiledFrame
  <2> QED
    BY <2>2, <2>3
<1>10. ASSUME NEW u \in Tasks, EnqueueScheduled(u) PROVE Filed(t)'
  <2>1. /\ UNCHANGED <<started, finished, failed>> /\ Failing(t)' = Failing(t)
        /\ scheduled' = scheduled \ {u} /\ u \notin Waiting
    BY <1>10 DEF EnqueueScheduled, worker, Failing, QueueInv, RegistryInv
  <2>2. Waiting' = Waiting \cup {u}
    BY <1>10, <2>1, WaitingStep DEF EnqueueScheduled, QueueInv, RegistryInv
  <2>3. CASE t = u
    <3>1. job'[t] = "queued"
      BY <1>0, <1>10, <2>3 DEF EnqueueScheduled, TypeOK
    <3> QED
      BY <2>2, <2>3, <3>1 DEF Filed
  <2>4. CASE t # u
    <3>1. job'[t] = job[t]
      BY <1>0, <1>10, <2>4 DEF EnqueueScheduled, TypeOK
    <3> QED
      BY <1>0, <2>1, <2>2, <2>4, <3>1, FiledFrame
  <2> QED
    BY <2>3, <2>4
<1>11. ASSUME NEW u \in Tasks, CleanAbandoned(u) PROVE Filed(t)'
  <2>1. Failing(t)' = Failing(t)
    BY <1>11 DEF CleanAbandoned, worker, Failing
  <2> QED
    BY <1>5, <1>11, <2>1 DEF CleanAbandoned
<1>12. ASSUME NEW u \in Tasks, Expire(u) PROVE Filed(t)'
  <2>1. /\ UNCHANGED <<Waiting, started, scheduled>> /\ Failing(t)' = Failing(t)
        /\ finished' = finished \ {u} /\ failed' = failed \ {u}
    BY <1>12 DEF Expire, worker, Failing, Waiting
  <2>2. CASE t = u
    <3>1. job'[t] = "deleted"
      BY <1>0, <1>12, <2>2 DEF Expire, TypeOK
    <3> QED
      BY <3>1 DEF Filed
  <2>3. CASE t # u
    <3>1. job'[t] = job[t]
      BY <1>0, <1>12, <2>3 DEF Expire, TypeOK
    <3> QED
      BY <1>0, <2>1, <2>3, <3>1, FiledFrame
  <2> QED
    BY <2>2, <2>3
<1>13. ASSUME Deletes, NEW u \in Tasks, Delete(u) PROVE Filed(t)'
  BY <1>13 DEF Delete
<1>14. CASE UNCHANGED vars
  BY <1>0, <1>14, FiledFrame DEF vars, registries, worker, Waiting, Failing
<1> QED
  BY <1>1, <1>2, <1>3, <1>4, <1>6, <1>7, <1>8, <1>9, <1>10, <1>11, <1>12, <1>13,
     <1>14 DEF Next, Deletable, WorkerStep, ClientStep, Maintenance

(* A task that exists can be found, but for the moment in which the        *)
(* exception handler moves it, if no worker is killed at that moment and   *)
(* nobody deletes a task that is being worked on.                          *)
THEOREM TasksAreFiled ==
    ASSUME PromptHandler, ~Deletes, "fail" \notin CrashAt
    PROVE  Spec => []NoTaskInLimbo
<1>1. Init => KeptInv /\ FiledInv
  BY DEF Init, KeptInv, FiledInv, Filed
<1>2. QueueInv /\ KeptInv /\ FiledInv /\ [Next]_vars => (KeptInv /\ FiledInv)'
  BY KeptStep, FiledStep
<1>3. QueueInv /\ FiledInv => NoTaskInLimbo
  <2> SUFFICES ASSUME QueueInv, FiledInv, NEW t \in Present
               PROVE  Registries(t) # {} \/ Failing(t)
    BY DEF NoTaskInLimbo, Failing
  <2>1. Filed(t) /\ job[t] \in JobStatus
    BY DEF Present, FiledInv
  <2>2. t \in Waiting => Queued(t) # {}
    BY LenProperties DEF Waiting, Elements, Queued, QueueInv, TypeOK
  <2> QED
    BY <2>1, <2>2 DEF Filed, JobStatus, Registries
<1> QED
  BY <1>1, <1>2, <1>3, QueueInvariant, PTL DEF Spec

-----------------------------------------------------------------------------
Statuses == [t \in Tasks |-> StatusOf(t)]

(* The task status that a job status stands for.                           *)
StandsFor(s) ==
    CASE s \in {"queued", "started", "scheduled"} -> "pending"
      [] s = "finished" -> "succeeded"
      [] s = "failed" -> "failed"
      [] s = "deleted" -> "gone"

(* What the lifecycle lets a task status become.                           *)
Allowed(old, new) ==
    \/ new = old
    \/ old = "none" /\ new = "pending"
    \/ old = "pending" /\ new \in {"succeeded", "failed"}
    \/ old \in {"pending", "succeeded", "failed"} /\ new = "gone"

(* A step that changes the job of one task at most, to a status that the   *)
(* lifecycle allows.                                                       *)
LEMMA OneMove ==
    ASSUME TypeOK, NEW u \in Tasks, NEW s \in JobStatus \cup {"deleted"},
           job' = [job EXCEPT ![u] = s], Allowed(StatusOf(u), StandsFor(s))
    PROVE  [Lifecycle!LifecycleNext]_Statuses
<1> DEFINE new == StandsFor(s)
<1>1. StatusOf(u)' = new
  BY DEF TypeOK, StatusOf, JobStatus, StandsFor
<1>2. \A t \in Tasks \ {u} : StatusOf(t)' = StatusOf(t)
  BY DEF TypeOK, StatusOf
<1>3. Statuses' = [Statuses EXCEPT ![u] = new]
  BY <1>1, <1>2 DEF Statuses
<1>4. Statuses[u] = StatusOf(u) /\ Statuses \in [Tasks -> {StatusOf(t) : t \in Tasks}]
  BY DEF Statuses
<1> HIDE DEF new
<1>5. CASE new = StatusOf(u)
  BY <1>3, <1>4, <1>5
<1>6. ASSUME NEW from, StatusOf(u) \in from, Statuses' = [Statuses EXCEPT ![u] = new]
      PROVE  Lifecycle!Move(u, from, new)
  BY <1>4, <1>6 DEF Lifecycle!Move, Statuses
<1>7. CASE StatusOf(u) = "none" /\ new = "pending"
  BY <1>3, <1>6, <1>7 DEF Lifecycle!LifecycleNext
<1>8. CASE StatusOf(u) = "pending" /\ new \in {"succeeded", "failed"}
  BY <1>3, <1>6, <1>8 DEF Lifecycle!LifecycleNext, Lifecycle!Outcomes
<1>9. CASE StatusOf(u) \in {"pending", "succeeded", "failed"} /\ new = "gone"
  BY <1>3, <1>6, <1>9 DEF Lifecycle!LifecycleNext, Lifecycle!Outcomes
<1> QED
  BY <1>5, <1>7, <1>8, <1>9 DEF new, Allowed

(* Each step moves at most one task, and as mgmt.py's lifecycle allows. *)
LEMMA LifecycleStep ==
    ASSUME QueueInv, PromptHandler, ~Deletes, KeptInv, [Next]_vars
    PROVE  [Lifecycle!LifecycleNext]_Statuses
<1> DEFINE Goal == [Lifecycle!LifecycleNext]_Statuses
<1>0. TypeOK /\ UNCHANGED job => Goal
  BY DEF Statuses, StatusOf
<1> HIDE DEF Goal
<1>1. ASSUME NEW t \in Tasks, Enqueue(t) PROVE Goal
  <2>1. job[t] = "none"
    BY <1>1 DEF Enqueue, QueueInv, RegistryInv
  <2>2. UNCHANGED job \/ job' = [job EXCEPT ![t] = "queued"]
    BY <1>1 DEF Enqueue, Push
  <2> QED
    BY <1>0, <2>1, <2>2, OneMove DEF Goal, QueueInv, StatusOf, JobStatus,
       StandsFor, Allowed
<1>2. ASSUME NEW w \in Workers, Fetch(w) PROVE Goal
  <2>1. Head(queue) \in Tasks /\ job[Head(queue)] = "queued"
    BY <1>2, WaitingStep DEF Fetch, QueueInv, RegistryInv
  <2>2. job' = [job EXCEPT ![Head(queue)] = "started"]
    BY <1>2 DEF Fetch
  <2> QED
    BY <2>1, <2>2, OneMove DEF Goal, QueueInv, StatusOf, JobStatus,
       StandsFor, Allowed
<1>3. ASSUME NEW w \in Workers, RunSucceeds(w) PROVE Goal
  <2>1. task[w] \in Tasks /\ job[task[w]] = "started"
    BY <1>3 DEF RunSucceeds, QueueInv, WorkerInv, BusyInv, Holds, KeptInv
  <2>2. job' = [job EXCEPT ![task[w]] = "finished"]
    BY <1>3 DEF RunSucceeds
  <2> QED
    BY <2>1, <2>2, OneMove DEF Goal, QueueInv, StatusOf, JobStatus,
       StandsFor, Allowed
<1>4. ASSUME NEW t \in Tasks, NEW left, HandleJobFailure(t, left), job[t] = "started"
      PROVE  Goal
  <2>1. job' = [job EXCEPT ![t] = "scheduled"] \/ job' = [job EXCEPT ![t] = "failed"]
    BY <1>4 DEF HandleJobFailure
  <2> QED
    BY <1>4, <2>1, OneMove DEF Goal, QueueInv, StatusOf, JobStatus,
       StandsFor, Allowed
<1>5. ASSUME NEW w \in Workers, NEW isStop \in BOOLEAN, RunRaises(w, isStop)
      PROVE  Goal
  <2>1. task[w] \in Tasks /\ job[task[w]] = "started"
    BY <1>5 DEF RunRaises, QueueInv, WorkerInv, BusyInv, Holds, KeptInv
  <2> QED
    BY <1>4, <1>5, <2>1 DEF RunRaises
<1>6. ASSUME NEW w \in Workers, AddException(w) \/ AddToFailed(w) PROVE Goal
  <2>1. /\ task[w] \in Tasks /\ job[task[w]] = loaded[w].status
        /\ job' = [job EXCEPT ![task[w]] = loaded[w].status]
    BY <1>6 DEF AddException, AddToFailed, SaveJob, QueueInv, WorkerInv, BusyInv,
       Holds, KeptInv
  <2>2. UNCHANGED job
    BY <2>1 DEF QueueInv, TypeOK
  <2> QED
    BY <1>0, <2>2 DEF QueueInv
<1>7. ASSUME NEW t \in Tasks, EnqueueScheduled(t) PROVE Goal
  <2>1. job[t] = "scheduled" /\ job' = [job EXCEPT ![t] = "queued"]
    BY <1>7 DEF EnqueueScheduled, QueueInv, RegistryInv
  <2> QED
    BY <2>1, OneMove DEF Goal, QueueInv, StatusOf, JobStatus,
       StandsFor, Allowed
<1>8. ASSUME NEW t \in Tasks, CleanAbandoned(t) PROVE Goal
  <2>1. job[t] = "started"
    BY <1>8 DEF CleanAbandoned, QueueInv, RegistryInv
  <2> QED
    BY <1>4, <1>8, <2>1 DEF CleanAbandoned
<1>9. ASSUME NEW t \in Tasks, Expire(t) PROVE Goal
  <2>1. job[t] \in {"finished", "scheduled", "failed"} /\ job' = [job EXCEPT ![t] = "deleted"]
    BY <1>9 DEF Expire, QueueInv, RegistryInv
  <2> QED
    BY <2>1, OneMove DEF Goal, QueueInv, StatusOf, JobStatus,
       StandsFor, Allowed
<1>10. ASSUME Deletes, NEW t \in Tasks, Delete(t) PROVE Goal
  BY <1>10 DEF Delete
<1>11. ASSUME \/ UNCHANGED vars
              \/ \E t \in Tasks : RunHere(t) \/ RunAction(t)
              \/ \E w \in Workers : IsScheduled(w) \/ RemoveFromScheduled(w) \/ Crash(w)
       PROVE  Goal
  <2>1. UNCHANGED job
    BY <1>11 DEF vars, RunHere, RunAction, IsScheduled, RemoveFromScheduled, Crash
  <2> QED
    BY <1>0, <2>1 DEF QueueInv
<1>12. Goal
  BY <1>1, <1>2, <1>3, <1>5, <1>6, <1>7, <1>8, <1>9, <1>10, <1>11
  DEF Next, Deletable, WorkerStep, ClientStep, Maintenance
<1> QED
  BY <1>12 DEF Goal

(* The work queue implements the lifecycle of mgmt.py: an outcome is not   *)
(* taken back, if no task is deleted while a worker has it.                *)
THEOREM QueueImplementsLifecycle ==
    ASSUME PromptHandler, ~Deletes
    PROVE  Spec => LifecycleRefined
<1>1. Init => KeptInv /\ Lifecycle!LifecycleInit
  BY DEF Init, KeptInv, Lifecycle!LifecycleInit, StatusOf
<1>2. QueueInv /\ KeptInv /\ [Next]_vars => KeptInv'
  BY KeptStep
<1>3. QueueInv /\ KeptInv /\ [Next]_vars => [Lifecycle!LifecycleNext]_Statuses
  BY LifecycleStep
<1> QED
  BY <1>1, <1>2, <1>3, QueueInvariant, PTL
  DEF Spec, LifecycleRefined, Lifecycle!LifecycleSpec, Statuses

-----------------------------------------------------------------------------
(* A step that leaves a stopped task with the worker that has it.          *)
LEMMA HaltedFrame ==
    ASSUME NEW t \in Tasks, Halted(t), job'[t] # "none", client'[t] # "sync",
           t \in (Waiting \cup started)' => t \in Waiting \cup started,
           \A w \in Workers : phase'[w] # "idle" /\ task'[w] = t
                => phase[w] # "idle" /\ task[w] = t /\ stop'[w] = stop[w],
           t \in scheduled' =>
              /\ t \in scheduled
              /\ \A w \in Workers : phase[w] \in Handling /\ task[w] = t
                    => phase'[w] \in Handling /\ task'[w] = t
    PROVE  Halted(t)'
BY DEF Halted

(* No step takes a stopped task from the worker that files it, or runs     *)
(* it.                                                                     *)
LEMMA StoppedStep ==
    ASSUME QueueInv, PromptHandler, RunsInv, ~(RedisFails /\ Recover),
           CrashAt \cap Handling = {}, StoppedInv, [Next]_vars
    PROVE  StoppedInv' /\ \A t \in stopped : runs'[t] = runs[t]
<1> DEFINE Goal(t) == Halted(t)' /\ (t \in stopped => runs'[t] = runs[t])
<1>0. /\ TypeOK /\ WorkerInv /\ stopped \subseteq Tasks
      /\ \A t \in stopped : Halted(t) /\ t \notin Waiting \cup started
                            /\ client[t] \notin {"new", "sync"}
  BY DEF QueueInv, TypeOK, StoppedInv, Halted, RegistryInv
<1> SUFFICES ASSUME NEW t \in stopped \cup stopped', t \in Tasks
             PROVE  Goal(t)
  <2>1. stopped' \subseteq Tasks
    BY TypeStep DEF QueueInv, TypeOK
  <2> QED
    BY <1>0, <2>1 DEF StoppedInv
<1>1. ASSUME NEW u \in Tasks, ClientStep(u) PROVE Goal(t)
  <2>1. t \in stopped /\ UNCHANGED <<worker, stopped>> /\ t # u
    BY <1>0, <1>1 DEF ClientStep, Enqueue, RunHere, RunAction
  <2>2. /\ UNCHANGED <<started, scheduled>>
        /\ runs'[t] = runs[t] /\ client'[t] = client[t] /\ job'[t] = job[t]
    BY <1>0, <1>1, <2>1 DEF ClientStep, Enqueue, Push, RunHere, RunAction, registries,
       TypeOK
  <2>3. Waiting' \subseteq Waiting \cup {u}
    BY <1>1, WaitingStep DEF ClientStep, Enqueue, Push, RunHere, RunAction, registries,
       QueueInv, RegistryInv
  <2> QED
    BY <1>0, <2>1, <2>2, <2>3, HaltedFrame DEF worker, Halted
<1>2. ASSUME NEW w \in Workers, Fetch(w) PROVE Goal(t)
  <2>1. /\ t \in stopped /\ Head(queue) \in Waiting /\ Waiting' = Waiting \ {Head(queue)}
        /\ started' = started \cup {Head(queue)} /\ UNCHANGED <<scheduled, client, stop>>
        /\ phase[w] = "idle"
    BY <1>2, WaitingStep DEF Fetch, QueueInv, RegistryInv
  <2>2. t # Head(queue)
    BY <1>0, <2>1
  <2>3. job'[t] = job[t] /\ runs'[t] = runs[t]
    BY <1>0, <1>2, <2>2 DEF Fetch, TypeOK
  <2>4. /\ task'[w] # t
        /\ \A v \in Workers \ {w} : phase'[v] = phase[v] /\ task'[v] = task[v]
    BY <1>0, <1>2, <2>2 DEF Fetch, TypeOK
  <2> QED
    BY <1>0, <2>1, <2>2, <2>3, <2>4, HaltedFrame DEF Halted, Handling
<1>3. ASSUME NEW w \in Workers, NEW isStop \in BOOLEAN, RunRaises(w, isStop)
      PROVE  Goal(t)
  <2>1. /\ phase[w] = "running" /\ ~stop[w] /\ task[w] \in Tasks \ stopped
        /\ UNCHANGED <<Waiting, client, runs, task>>
        /\ phase' = [phase EXCEPT ![w] = "save"]
        /\ stop' = [stop EXCEPT ![w] = isStop]
        /\ HandleJobFailure(task[w], loaded[w].retries)
    BY <1>0, <1>3 DEF RunRaises, WorkerInv, Halted, Waiting
  <2>2. /\ task[w] \notin Waiting /\ job[task[w]] # "none"
    BY <2>1 DEF QueueInv, BusyInv, Holds
  <2>3. /\ started' = started \ {task[w]} /\ scheduled' \subseteq scheduled \cup {task[w]}
        /\ job' = [job EXCEPT ![task[w]] = "scheduled"]
             \/ job' = [job EXCEPT ![task[w]] = "failed"]
    BY <2>1 DEF HandleJobFailure
  <2>4. CASE t = task[w]
    <3>1. isStop /\ t \notin stopped
      BY <1>3, <2>1, <2>4 DEF RunRaises
    <3>2. job'[t] # "none" /\ client'[t] # "sync"
      BY <1>0, <2>1, <2>2, <2>3, <2>4 DEF RunsInv, Counted, TypeOK
    <3>3. \A v \in Workers : phase'[v] # "idle" /\ task'[v] = t => v = w
      BY <1>0, <2>1, <2>4 DEF QueueInv, OneWorkerEach, TypeOK
    <3>4. stop'[w] /\ phase'[w] \in Handling /\ task'[w] = t
      BY <1>0, <2>1, <2>4, <3>1 DEF TypeOK, Handling
    <3> QED
      BY <2>1, <2>2, <2>3, <2>4, <3>1, <3>2, <3>3, <3>4 DEF Halted
  <2>5. CASE t # task[w]
    <3>1. t \in stopped /\ job'[t] = job[t]
      BY <1>0, <1>3, <2>3, <2>5 DEF RunRaises, TypeOK
    <3>2. \A v \in Workers : task[v] = t
            => phase'[v] = phase[v] /\ stop'[v] = stop[v]
      BY <1>0, <2>1, <2>5 DEF TypeOK
    <3> QED
      BY <1>0, <2>1, <2>3, <2>5, <3>1, <3>2, HaltedFrame DEF Halted
  <2> QED
    BY <2>4, <2>5
<1>4. ASSUME NEW w \in Workers, phase[w] # "idle",
             UNCHANGED <<queue, client, runs, stopped>>,
             started' \subseteq started, scheduled' \subseteq scheduled,
             GoIdle(w) \/ \E ph \in Phases : Enter(w, ph),
             job'[t] # "none",
             t = task[w] /\ t \in scheduled' => phase'[w] \in Handling /\ task'[w] = task[w]
      PROVE  Goal(t)
  <2>1. \A v \in Workers \ {w} :
            phase'[v] = phase[v] /\ task'[v] = task[v] /\ stop'[v] = stop[v]
    BY <1>0, <1>4 DEF GoIdle, Enter, TypeOK
  <2>2. phase'[w] # "idle" => task'[w] = task[w] /\ stop'[w] = stop[w]
    BY <1>0, <1>4 DEF GoIdle, Enter, TypeOK
  <2> QED
    BY <1>0, <1>4, <2>1, <2>2, HaltedFrame DEF Waiting, Halted
<1>5. \A w \in Workers : /\ loaded[w].status # "none"
                         /\ t = task[w] /\ t \in stopped /\ phase[w] # "idle" => stop[w]
  BY <1>0 DEF TypeOK, JobStatus, Halted
<1>6. ASSUME NEW w \in Workers, RunSucceeds(w) PROVE Goal(t)
  <2>1. t \in stopped /\ t # task[w] /\ phase[w] # "idle" /\ UNCHANGED scheduled
    BY <1>0, <1>5, <1>6 DEF RunSucceeds, WorkerInv
  <2>2. job'[t] # "none"
    BY <1>0, <1>6, <2>1 DEF RunSucceeds, TypeOK, Halted
  <2> QED
    BY <1>4, <1>6, <2>1, <2>2 DEF RunSucceeds
<1>7. ASSUME NEW w \in Workers, AddException(w) PROVE Goal(t)
  <2>1. t \in stopped /\ phase[w] = "save" /\ UNCHANGED registries
    BY <1>7 DEF AddException
  <2>2. job'[t] # "none"
    BY <1>0, <1>5, <1>7, <2>1 DEF AddException, SaveJob, TypeOK, Halted
  <2>3. t = task[w] => Enter(w, "check")
    BY <1>5, <1>7, <2>1 DEF AddException
  <2>4. t = task[w] => phase'[w] \in Handling /\ task'[w] = task[w]
    BY <1>0, <2>3 DEF Enter, Handling, TypeOK
  <2> QED
    BY <1>4, <1>7, <2>1, <2>2, <2>4 DEF AddException, registries, Phases
<1>8. ASSUME NEW w \in Workers, IsScheduled(w) PROVE Goal(t)
  <2>1. t \in stopped /\ phase[w] = "check" /\ UNCHANGED <<job, registries>>
    BY <1>8 DEF IsScheduled
  <2>2. t = task[w] /\ t \in scheduled' => Enter(w, "unschedule")
    BY <1>8, <2>1 DEF IsScheduled, registries, QueueInv, RegistryInv
  <2>3. t = task[w] /\ t \in scheduled' => phase'[w] \in Handling /\ task'[w] = task[w]
    BY <1>0, <2>2 DEF Enter, Handling, TypeOK
  <2> QED
    BY <1>0, <1>4, <1>8, <2>1, <2>3 DEF IsScheduled, registries, Phases, Halted
<1>9. ASSUME NEW w \in Workers, RemoveFromScheduled(w) PROVE Goal(t)
  <2>1. /\ t \in stopped /\ phase[w] = "unschedule" /\ UNCHANGED <<job, started>>
        /\ scheduled' = scheduled \ {task[w]}
    BY <1>9 DEF RemoveFromScheduled
  <2> QED
    BY <1>0, <1>4, <1>9, <2>1 DEF RemoveFromScheduled, Phases, Halted
<1>10. ASSUME NEW w \in Workers, AddToFailed(w) PROVE Goal(t)
  <2>1. t \in stopped /\ phase[w] = "fail" /\ UNCHANGED <<started, scheduled>>
    BY <1>10 DEF AddToFailed
  <2>2. task[w] \notin scheduled
    BY <2>1 DEF QueueInv, BusyInv, Holds
  <2>3. job'[t] # "none"
    BY <1>0, <1>5, <1>10, <2>1 DEF AddToFailed, SaveJob, TypeOK, Halted
  <2> QED
    BY <1>4, <1>10, <2>1, <2>2, <2>3 DEF AddToFailed
<1>11. ASSUME NEW w \in Workers, Crash(w) PROVE Goal(t)
  <2>1. /\ t \in stopped /\ phase[w] \in {"running", "fail"}
        /\ UNCHANGED <<job, registries>>
    BY <1>11, CrashAssumption DEF Crash, Handling, Phases
  <2>2. t = task[w] => t \notin scheduled
    BY <1>0, <1>5, <2>1 DEF WorkerInv, QueueInv, BusyInv, Holds
  <2> QED
    BY <1>0, <1>4, <1>11, <2>1, <2>2 DEF Crash, registries, Halted
<1>12. ASSUME NEW u \in Tasks, EnqueueScheduled(u) PROVE Goal(t)
  <2>1. /\ t \in stopped /\ u \in scheduled /\ ~Busy(u) /\ u \notin Waiting
        /\ UNCHANGED <<started, worker, client, runs, stopped>>
        /\ scheduled' = scheduled \ {u}
    BY <1>12 DEF EnqueueScheduled, QueueInv, RegistryInv
  <2>2. t # u
    BY <1>0, <2>1 DEF Halted, Handling, Busy
  <2>3. Waiting' = Waiting \cup {u}
    BY <1>12, <2>1, WaitingStep DEF EnqueueScheduled, QueueInv, RegistryInv
  <2>4. job'[t] = job[t]
    BY <1>0, <1>12, <2>2 DEF EnqueueScheduled, TypeOK
  <2> QED
    BY <1>0, <2>1, <2>2, <2>3, <2>4, HaltedFrame DEF Halted, worker
<1>13. ASSUME NEW u \in Tasks, CleanAbandoned(u) PROVE Goal(t)
  <2>1. /\ t \in stopped /\ u \in started /\ UNCHANGED <<Waiting, worker, client, runs>>
        /\ started' = started \ {u} /\ scheduled' \subseteq scheduled \cup {u}
    BY <1>13 DEF CleanAbandoned, HandleJobFailure, Waiting
  <2>2. t # u
    BY <1>0, <2>1
  <2>3. job'[t] = job[t]
    BY <1>0, <1>13, <2>2 DEF CleanAbandoned, HandleJobFailure, TypeOK
  <2> QED
    BY <1>0, <2>1, <2>2, <2>3, HaltedFrame DEF Halted, worker
<1>14. ASSUME NEW u \in Tasks, Expire(u) \/ Delete(u) PROVE Goal(t)
  <2>1. /\ t \in stopped /\ UNCHANGED <<worker, client, runs>>
        /\ started' \subseteq started /\ scheduled' \subseteq scheduled
    BY <1>14 DEF Expire, Delete, TakeOut
  <2>2. Waiting' \subseteq Waiting
    BY <1>14, WaitingStep DEF Expire, Delete, QueueInv, RegistryInv
  <2>3. job'[t] # "none"
    BY <1>0, <1>14, <2>1 DEF Expire, Delete, TypeOK, Halted
  <2> QED
    BY <1>0, <2>1, <2>2, <2>3, HaltedFrame DEF Halted, worker
<1>15. CASE UNCHANGED vars
  BY <1>0, <1>15 DEF vars, registries, worker, Halted, Waiting
<1> QED
  BY <1>1, <1>2, <1>3, <1>6, <1>7, <1>8, <1>9, <1>10, <1>11, <1>12, <1>13, <1>14,
     <1>15 DEF Next, Deletable, WorkerStep, Maintenance

(* StopTask: no retry of the task is attempted, if no worker is killed     *)
(* while it handles the exception and no web worker runs a task itself that*)
(* it could not tell to be enqueued.                                       *)
THEOREM StoppedTasksStayStopped ==
    ASSUME PromptHandler, ~(RedisFails /\ Recover), CrashAt \cap Handling = {}
    PROVE  Spec => StoppedNeverRunsAgain
<1>1. Init => RunsInv /\ StoppedInv
  BY RetriesAssumption DEF Init, RunsInv, Counted, StoppedInv
<1>2. QueueInv /\ RunsInv /\ [Next]_vars => RunsInv'
  BY CountedStep
<1>3. QueueInv /\ RunsInv /\ StoppedInv /\ [Next]_vars
        => StoppedInv' /\ [\A t \in stopped : runs'[t] = runs[t]]_vars
  BY StoppedStep
<1> QED
  BY <1>1, <1>2, <1>3, QueueInvariant, PTL DEF Spec, StoppedNeverRunsAgain
===============================================================================
