------------------------------ MODULE WorkQueue ------------------------------
(***************************************************************************)
(* Insert tasks on the RQ work queue: a web worker enqueues a task, or runs*)
(* it itself; queue workers run it, retry it and file it in a registry;    *)
(* RqExcMan.exc_handler takes a task that raised StopTask out of its retry *)
(* cycle.  RQ and Redis are external: their steps are those the code in    *)
(* wq/core and its comments rely on.  Each step is one Redis transaction,  *)
(* so anything may happen between two steps of exc_handler; only Delete    *)
(* makes one step of RQ's commands.                                        *)
(***************************************************************************)
EXTENDS Naturals, Sequences, FiniteSets

CONSTANTS
    Tasks, Workers,
    NoTask,         \* what an idle worker works on
    MaxRetries,     \* WQ_MAX_RETRIES
    Offload,        \* values of WQ_OFFLOAD_WORK among the web workers
    Recover,        \* WQ_RECOVER_FROM_ENQUEUEING_FAILURE
    RedisFails,     \* q.enqueue may raise, its command executed or not
    CrashAt,        \* phases in which a worker process may be killed
    Deletes,        \* the delete tasks endpoint may be called
    PromptHandler   \* exc_handler ends before the retry interval does

ASSUME NoTaskAssumption == NoTask \notin Tasks
ASSUME RetriesAssumption == MaxRetries \in Nat
ASSUME SwitchesAssumption ==
    Offload \cup {Recover, RedisFails, Deletes, PromptHandler} \subseteq BOOLEAN

Phases == {"idle", "running", "save", "check", "unschedule", "fail"}
ASSUME CrashAssumption == CrashAt \subseteq Phases \ {"idle"}

JobStatus == {"queued", "started", "scheduled", "finished", "failed"}

VARIABLES
    job,        \* status in the job hash; "none" before it is created and
                \* "deleted" after it was deleted or expired
    retries,    \* retries_left in the hash
    queue, started, scheduled, finished, failed,    \* the RQ registries
    phase,      \* what each worker is doing
    task,       \* the task it does it for
    stop,       \* was the exception a StopTask
    loaded,     \* status and retries_left of the Job object it holds
    client,     \* how far the notify request of each task is
    runs,       \* history: times the task was run
    stopped     \* history: tasks that raised StopTask

registries == <<queue, started, scheduled, finished, failed>>
worker == <<phase, task, stop, loaded>>
vars == <<job, retries, registries, worker, client, runs, stopped>>

ClientStates == {"new", "sync", "accepted", "rejected"}

TypeOK ==
    /\ job \in [Tasks -> JobStatus \cup {"none", "deleted"}]
    /\ retries \in [Tasks -> 0..MaxRetries]
    /\ queue \in Seq(Tasks)
    /\ {started, scheduled, finished, failed} \subseteq SUBSET Tasks
    /\ phase \in [Workers -> Phases]
    /\ task \in [Workers -> Tasks \cup {NoTask}]
    /\ stop \in [Workers -> BOOLEAN]
    /\ loaded \in [Workers -> [status : JobStatus, retries : 0..MaxRetries]]
    /\ client \in [Tasks -> ClientStates]
    /\ runs \in [Tasks -> Nat]
    /\ stopped \subseteq Tasks

Init ==
    /\ job = [t \in Tasks |-> "none"]
    /\ retries = [t \in Tasks |-> MaxRetries]
    /\ queue = <<>>
    /\ started = {} /\ scheduled = {} /\ finished = {} /\ failed = {}
    /\ phase = [w \in Workers |-> "idle"]
    /\ task = [w \in Workers |-> NoTask]
    /\ stop = [w \in Workers |-> FALSE]
    /\ loaded = [w \in Workers |-> [status |-> "queued", retries |-> 0]]
    /\ client = [t \in Tasks |-> "new"]
    /\ runs = [t \in Tasks |-> 0]
    /\ stopped = {}

Busy(t) == \E w \in Workers : phase[w] # "idle" /\ task[w] = t

GoIdle(w) == /\ phase' = [phase EXCEPT ![w] = "idle"]
             /\ task' = [task EXCEPT ![w] = NoTask]
             /\ stop' = [stop EXCEPT ![w] = FALSE]
             /\ loaded' = [loaded EXCEPT ![w] = [status |-> "queued", retries |-> 0]]

Enter(w, ph) == /\ phase' = [phase EXCEPT ![w] = ph]
                /\ UNCHANGED <<task, stop, loaded>>

-----------------------------------------------------------------------------
(* The web application: Tasklet.enqueue. *)

Push(t) == /\ job' = [job EXCEPT ![t] = "queued"]
           /\ queue' = Append(queue, t)
           /\ UNCHANGED <<started, scheduled, finished, failed>>

Enqueue(t) ==
    /\ TRUE \in Offload /\ client[t] = "new"
    /\ \/ Push(t) /\ client' = [client EXCEPT ![t] = "accepted"]
       \/ /\ RedisFails
          /\ Push(t) \/ UNCHANGED <<job, registries>>
          /\ client' = [client EXCEPT ![t] = IF Recover THEN "sync"
                                             ELSE "rejected"]
    /\ UNCHANGED <<retries, worker, runs, stopped>>

RunHere(t) ==
    /\ FALSE \in Offload /\ client[t] = "new"
    /\ client' = [client EXCEPT ![t] = "sync"]
    /\ UNCHANGED <<job, retries, registries, worker, runs, stopped>>

RunAction(t) ==
    /\ client[t] = "sync"
    /\ runs' = [runs EXCEPT ![t] = @ + 1]
    /\ \E answer \in {"accepted", "rejected"} :
            client' = [client EXCEPT ![t] = answer]
    /\ UNCHANGED <<job, retries, registries, worker, stopped>>

-----------------------------------------------------------------------------
(* A queue worker. *)

Fetch(w) ==
    LET t == Head(queue) IN
    /\ phase[w] = "idle" /\ queue # <<>>
    /\ queue' = Tail(queue)
    /\ job' = [job EXCEPT ![t] = "started"]
    /\ started' = started \cup {t}
    /\ phase' = [phase EXCEPT ![w] = "running"]
    /\ task' = [task EXCEPT ![w] = t]
    /\ runs' = [runs EXCEPT ![t] = @ + 1]
    /\ loaded' = [loaded EXCEPT
                    ![w] = [status |-> "started", retries |-> retries[t]]]
    /\ UNCHANGED stop
    /\ UNCHANGED <<retries, scheduled, finished, failed, client, stopped>>

RunSucceeds(w) ==
    LET t == task[w] IN
    /\ phase[w] = "running"
    /\ job' = [job EXCEPT ![t] = "finished"]
    /\ started' = started \ {t}
    /\ finished' = finished \cup {t}
    /\ GoIdle(w)
    /\ UNCHANGED <<retries, queue, scheduled, failed, client, runs, stopped>>

(* Mutant: a job is retried when it has no retries left.                   *)
RetryPastZero(t, left) ==
    /\ started' = started \ {t}
    /\ job' = [job EXCEPT ![t] = "scheduled"]
    /\ retries' = [retries EXCEPT ![t] = left - 1]
    /\ scheduled' = scheduled \cup {t}
    /\ UNCHANGED failed

(* Mutant: a retry is not counted.                                         *)
RetryForever(t, left) ==
    /\ started' = started \ {t}
    /\ job' = [job EXCEPT ![t] = "scheduled"]
    /\ scheduled' = scheduled \cup {t}
    /\ UNCHANGED <<retries, failed>>

(* Worker.handle_job_failure: schedule a retry if the job has one left,    *)
(* else file it as failed.                                                 *)
HandleJobFailure(t, left) ==
    /\ started' = started \ {t}
    /\ IF left > 0
       THEN /\ job' = [job EXCEPT ![t] = "scheduled"]
            /\ retries' = [retries EXCEPT ![t] = left - 1]
            /\ scheduled' = scheduled \cup {t}
            /\ UNCHANGED failed
       ELSE /\ job' = [job EXCEPT ![t] = "failed"]
            /\ retries' = [retries EXCEPT ![t] = left]
            /\ failed' = failed \cup {t}
            /\ UNCHANGED scheduled

(* InsertAction.run: an error the translator may recover from is raised as *)
(* it is, any other as StopTask.  RQ then handles the failure of the job   *)
(* before it calls the exception handler.                                  *)
RunRaises(w, isStop) ==
    LET t == task[w] IN
    /\ phase[w] = "running"
    /\ HandleJobFailure(t, loaded[w].retries)
    /\ loaded' = [loaded EXCEPT
                    ![w] = [status |-> job'[t], retries |-> retries'[t]]]
    /\ phase' = [phase EXCEPT ![w] = "save"]
    /\ stop' = [stop EXCEPT ![w] = isStop]
    /\ stopped' = IF isStop THEN stopped \cup {t} ELSE stopped
    /\ UNCHANGED <<queue, finished, task, client, runs>>

(* Mutant: the Job object saved is the one fetched before the run.         *)
SaveAsFetched(w) ==
    /\ job' = [job EXCEPT ![task[w]] = "started"]
    /\ UNCHANGED retries

(* j.save() writes all the fields of the Job object the worker holds.      *)
SaveJob(w) ==
    /\ job' = [job EXCEPT ![task[w]] = loaded[w].status]
    /\ retries' = [retries EXCEPT ![task[w]] = loaded[w].retries]

AddException(w) ==
    /\ phase[w] = "save"
    /\ SaveJob(w)
    /\ IF stop[w] THEN Enter(w, "check") ELSE GoIdle(w)
    /\ UNCHANGED <<registries, client, runs, stopped>>

IsScheduled(w) ==
    /\ phase[w] = "check"
    /\ IF job[task[w]] = "scheduled" THEN Enter(w, "unschedule") ELSE GoIdle(w)
    /\ UNCHANGED <<job, retries, registries, client, runs, stopped>>

(* Mutant: the retry stays scheduled.                                      *)
KeepScheduled(w) ==
    /\ phase[w] = "unschedule"
    /\ Enter(w, "fail")
    /\ UNCHANGED <<job, retries, registries, client, runs, stopped>>

RemoveFromScheduled(w) ==
    /\ phase[w] = "unschedule"
    /\ scheduled' = scheduled \ {task[w]}
    /\ Enter(w, "fail")
    /\ UNCHANGED <<job, retries, queue, started, finished, failed, client,
                   runs, stopped>>

(* Mutant: the job is saved but not filed.                                 *)
SaveOnly(w) ==
    /\ phase[w] = "fail"
    /\ SaveJob(w)
    /\ GoIdle(w)
    /\ UNCHANGED <<registries, client, runs, stopped>>

(* FailedJobRegistry.add files the job and saves it; its status field is   *)
(* still the one handle_job_failure set.                                   *)
AddToFailed(w) ==
    /\ phase[w] = "fail"
    /\ failed' = failed \cup {task[w]}
    /\ SaveJob(w)
    /\ GoIdle(w)
    /\ UNCHANGED <<queue, started, scheduled, finished, client, runs, stopped>>

Crash(w) ==
    /\ phase[w] \in CrashAt
    /\ GoIdle(w)
    /\ UNCHANGED <<job, retries, registries, client, runs, stopped>>

-----------------------------------------------------------------------------
(* RQ's scheduler and registry maintenance, and the retention periods.     *)

EnqueueScheduled(t) ==
    /\ t \in scheduled
    /\ PromptHandler => ~Busy(t)
    /\ scheduled' = scheduled \ {t}
    /\ job' = [job EXCEPT ![t] = "queued"]
    /\ queue' = Append(queue, t)
    /\ UNCHANGED <<retries, started, finished, failed, worker, client, runs,
                   stopped>>

CleanAbandoned(t) ==
    /\ t \in started /\ ~Busy(t)
    /\ HandleJobFailure(t, retries[t])
    /\ UNCHANGED <<queue, finished, worker, client, runs, stopped>>

Expire(t) ==
    /\ t \in finished \cup failed /\ ~Busy(t)
    /\ job' = [job EXCEPT ![t] = "deleted"]
    /\ finished' = finished \ {t}
    /\ failed' = failed \ {t}
    /\ UNCHANGED <<retries, queue, started, scheduled, worker, client, runs,
                   stopped>>

(* RQ takes the first entry of a job off its queue.                        *)
Without(q, t) ==
    IF \A i \in DOMAIN q : q[i] # t THEN q
    ELSE [i \in 1..(Len(q) - 1) |-> IF \E j \in 1..i : q[j] = t THEN q[i + 1]
                                                              ELSE q[i]]

TakeOut(registry, status, t) ==
    IF job[t] = status THEN registry \ {t} ELSE registry

(* delete_jobs has RQ remove the hash, the entry on the queue and the entry*)
(* in the registry of the job's status, in whatever registry the job is.   *)
Delete(t) ==
    /\ job[t] \in JobStatus
    /\ job' = [job EXCEPT ![t] = "deleted"]
    /\ queue' = Without(queue, t)
    /\ started' = TakeOut(started, "started", t)
    /\ scheduled' = TakeOut(scheduled, "scheduled", t)
    /\ finished' = TakeOut(finished, "finished", t)
    /\ failed' = TakeOut(failed, "failed", t)
    /\ UNCHANGED <<retries, worker, client, runs, stopped>>

WorkerStep(w) ==
    \/ Fetch(w) \/ RunSucceeds(w)
    \/ \E isStop \in BOOLEAN : RunRaises(w, isStop)
    \/ AddException(w) \/ IsScheduled(w)
    \/ RemoveFromScheduled(w) \/ AddToFailed(w)

ClientStep(t) == Enqueue(t) \/ RunHere(t) \/ RunAction(t)
Maintenance(t) == EnqueueScheduled(t) \/ CleanAbandoned(t)

Deletable == IF Deletes THEN Tasks ELSE {}

Next == \/ \E w \in Workers : WorkerStep(w) \/ Crash(w)
        \/ \E t \in Tasks : ClientStep(t) \/ Maintenance(t) \/ Expire(t)
        \/ \E t \in Deletable : Delete(t)

Spec == Init /\ [][Next]_vars

(* Workers poll the queue for ever, each runs a scheduler, and supervisord *)
(* starts a new worker for one that died.  Nobody has to call notify.      *)
FairSpec == /\ Spec
            /\ \A w \in Workers : WF_vars(WorkerStep(w))
            /\ \A t \in Tasks : /\ WF_vars(EnqueueScheduled(t))
                                /\ WF_vars(CleanAbandoned(t))

-----------------------------------------------------------------------------
(* What the management functions answer (wq/core/rqutils.py, mgmt.py).     *)

Present == {t \in Tasks : job[t] \in JobStatus}

StatusOf(t) ==
    CASE job[t] \in {"queued", "started", "scheduled"} -> "pending"
      [] job[t] = "finished" -> "succeeded"
      [] job[t] = "failed" -> "failed"
      [] job[t] = "deleted" -> "gone"
      [] OTHER -> "none"

Lifecycle == INSTANCE TaskLifecycle WITH status <- [t \in Tasks |-> StatusOf(t)]

-----------------------------------------------------------------------------
(* Properties. *)

Queued(t) == {i \in DOMAIN queue : queue[i] = t}
Registries(t) == {r \in {"queue", "started", "scheduled", "finished", "failed"} :
                    \/ r = "queue" /\ Queued(t) # {}
                    \/ r = "started" /\ t \in started
                    \/ r = "scheduled" /\ t \in scheduled
                    \/ r = "finished" /\ t \in finished
                    \/ r = "failed" /\ t \in failed}

(* Whatever is deleted or killed, a task is never in two registries, nor   *)
(* twice on the queue: two workers never run it at once, and no two of the *)
(* management queries report it.                                           *)
TaskInOneRegistry ==
    \A t \in Tasks : Cardinality(Registries(t)) <= 1
                     /\ Cardinality(Queued(t)) <= 1

(* A task is run once, and then once per configured retry: crashes and     *)
(* abandoned runs use retries up too, and the synchronous run after a      *)
(* failed enqueue is the only extra one.                                   *)
RunsWithinRetries ==
    \A t \in Tasks :
        runs[t] <= 1 + MaxRetries + (IF RedisFails /\ Recover THEN 1 ELSE 0)

(* The job statuses of a task, seen as TaskStatus, go through the          *)
(* lifecycle of mgmt.py: no outcome is taken back.                         *)
LifecycleRefined == Lifecycle!LifecycleSpec

(* A task that exists is on the queue or in a registry, or a worker is     *)
(* just moving it: exc_handler takes it from one registry before it adds it*)
(* to the other.                                                           *)
NoTaskInLimbo ==
    \A t \in Present : Registries(t) # {}
                       \/ \E w \in Workers : phase[w] = "fail" /\ task[w] = t

(* StopTask: "even if there are some retries left, they won't be attempted"*)
StoppedNeverRunsAgain == [][\A t \in stopped : runs'[t] = runs[t]]_vars

(* Every task on the queue ends up in the registry of the finished or of   *)
(* the failed jobs: none waits for ever.                                   *)
EventuallySettles ==
    \A t \in Tasks : job[t] = "queued"
                        ~> (t \in finished \cup failed \/ job[t] = "deleted")

(* StopTask is to "transition the task to the failed state": its status is *)
(* failed once the worker that ran it is done with it.                     *)
StoppedTaskIsFailed ==
    \A t \in stopped \cap Present : ~Busy(t) => StatusOf(t) = "failed"
=============================================================================
