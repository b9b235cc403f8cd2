---------------------------- MODULE WorkerProcess ----------------------------
(***************************************************************************)
(* The life of a process that serves requests or tasks with telemetry on:  *)
(* a Gunicorn worker with its request threads, the hooks that time each    *)
(* request and the background sampler (gconfig_telemetry), or an RQ        *)
(* TelemetryWorker, which runs its jobs one after the other.  The threads  *)
(* share the connection kept by ConnectionManager, the timers and the      *)
(* buckets; on its way out the process empties the buckets, waits for its  *)
(* request threads and takes the sampler's daemon thread down with it.     *)
(*                                                                         *)
(* ObservationBucket has the inside of a bucket: here putting is one step, *)
(* saving a store another, and whether a put makes the bucket overflow is  *)
(* left open.  Gunicorn, RQ and the database are external.                 *)
(***************************************************************************)
EXTENDS Naturals, FiniteSets

CONSTANTS
    Threads,        \* request threads; the main thread of an RQ worker
    Deployments,    \* [backend, kind, threads, runtime]
    MaxRequests, MaxSamples, MaxOutages    \* bounds

(* The sampler's daemon thread and the main thread serve no requests.       *)
ASSUME ThreadsAssumption == {"sampler", "main"} \cap Threads = {}
ASSUME BoundsAssumption == {MaxRequests, MaxSamples, MaxOutages} \subseteq Nat
ASSUME DeploymentsAssumption ==
    \A d \in Deployments :
        /\ d \in [backend : {"crate", "timescale"}, kind : {"web", "rq"},
                  threads : SUBSET Threads, runtime : BOOLEAN]
        /\ d.kind = "rq" => Cardinality(d.threads) = 1 /\ ~d.runtime

VARIABLES
    conf,
    up, outages,    \* the database, and how often it went away
    table,          \* the connection ConnectionManager keeps
    made,           \* connections opened so far
    phase,          \* what each thread does next
    conn,           \* the connection of its translator
    guarded,        \* its statement's errors reach sql_error_handler
    handling,       \* it is in sql_error_handler
    serving,        \* the request it serves
    held,           \* the id of the timer it is to stop
    requests,       \* requests so far
    timers,         \* Timer._timers
    buffer,         \* contents of the duration and the runtime bucket
    store,          \* what was taken out of a bucket and not yet saved
    stage,          \* how far the process is on its way out
    samples,        \* samples taken so far
    files,          \* history: observations in CSV files
    late,           \* history: observations put after their bucket's last empty
    lost,           \* history: observations that went with the process
    failed          \* history: connections whose failure was handled

database == <<up, outages>>
shared == <<table, made>>
request == <<phase, conn, guarded, handling, serving, held>>
telemetry == <<timers, buffer, store, samples, files, late, lost>>
vars == <<conf, database, shared, request, requests, telemetry, stage, failed>>

NoConnection == [id |-> 0, since |-> 0]
Buckets == {"duration", "runtime"}
Stages == {"serving", "empty duration", "save duration", "empty runtime",
           "save runtime", "exit", "gone"}
Actors == Threads \cup {"sampler", "main"}

Goto(t, ph) == phase' = [phase EXCEPT ![t] = ph]

(* A Postgres connection does not outlive the outage of its database; the  *)
(* CrateDB client is stateless HTTP.                                       *)
Works(c) == up /\ (conf.backend = "crate" \/ c.since = outages)

Init ==
    /\ conf \in Deployments
    /\ up = TRUE /\ outages = 0
    /\ table = NoConnection /\ made = 0
    /\ phase = [t \in Threads |-> "idle"]
    /\ conn = [t \in Threads |-> NoConnection]
    /\ guarded = [t \in Threads |-> FALSE] /\ handling = guarded
    /\ serving = [t \in Threads |-> 0] /\ held = serving
    /\ requests = 0 /\ timers = {} /\ samples = 0
    /\ buffer = [b \in Buckets |-> {}]
    /\ store = [a \in Actors |-> {}]
    /\ stage = "serving"
    /\ files = {} /\ late = {} /\ lost = {} /\ failed = {}

-----------------------------------------------------------------------------
(* A request or a job.  Its timer is started before it is handed over, and *)
(* stopped afterwards whatever becomes of it, its translator disposed of.  *)

ShareId(t, id) == held' = [u \in Threads |-> id]    \* mutant: as in time_it
HoldId(t, id) == held' = [held EXCEPT ![t] = id]

(* One that queries, inserts or deletes has its errors handled, the health *)
(* check reports them.                                                     *)
StartRequest(t) ==
    /\ stage = "serving" /\ t \in conf.threads /\ phase[t] = "idle"
    /\ requests < MaxRequests /\ requests' = requests + 1
    /\ timers' = timers \cup {requests'}
    /\ serving' = [serving EXCEPT ![t] = requests']
    /\ HoldId(t, requests')
    /\ \E g \in BOOLEAN : (conf.kind = "rq" => g)
                          /\ guarded' = [guarded EXCEPT ![t] = g]
    /\ Goto(t, "setup")
    /\ UNCHANGED <<conf, database, shared, conn, handling, buffer, store, samples,
                   files, late, lost, stage, failed>>

(* The translator's setup: the kept connection or a new one, which Crate   *)
(* asks for its version unless that is cached.                             *)
AfterSetup(t) == IF handling[t] THEN "stop" ELSE "statement"
Connected(t) == IF conf.backend = "crate" THEN "version" ELSE AfterSetup(t)

Setup(t) ==
    /\ phase[t] = "setup"
    /\ conn' = [conn EXCEPT ![t] = table]
    /\ Goto(t, IF table = NoConnection THEN "connect" ELSE Connected(t))
    /\ UNCHANGED <<conf, database, shared, guarded, handling, serving, held,
                   requests, telemetry, stage, failed>>

Connect(t) ==
    /\ phase[t] = "connect"
    /\ IF up \/ conf.backend = "crate"
       THEN /\ made' = made + 1
            /\ conn' = [conn EXCEPT ![t] = [id |-> made', since |-> outages]]
            /\ Goto(t, "publish")
       ELSE Goto(t, "stop") /\ UNCHANGED <<made, conn>>
    /\ UNCHANGED <<conf, database, table, guarded, handling, serving, held,
                   requests, telemetry, stage, failed>>

SetConnection(t) ==
    /\ phase[t] = "publish"
    /\ table' = conn[t]
    /\ Goto(t, Connected(t))
    /\ UNCHANGED <<conf, database, made, conn, guarded, handling, serving, held,
                   requests, telemetry, stage, failed>>

GetVersion(t) ==
    /\ phase[t] = "version"
    /\ \/ Goto(t, AfterSetup(t))
       \/ ~Works(conn[t]) /\ Goto(t, "stop")
    /\ UNCHANGED <<conf, database, shared, conn, guarded, handling, serving,
                   held, requests, telemetry, stage, failed>>

(* The first statement that fails stands for all of the request.           *)
Statement(t) ==
    /\ phase[t] = "statement"
    /\ Goto(t, IF ~Works(conn[t]) /\ guarded[t] THEN "handle" ELSE "stop")
    /\ UNCHANGED <<conf, database, shared, conn, guarded, handling, serving,
                   held, requests, telemetry, stage, failed>>

(* sql_error_handler: the kept connection is given up, whoever opened it,  *)
(* and the translator is set up again.                                     *)
KeepConnection == UNCHANGED table       \* mutant: nothing is given up
ResetConnection == table' = NoConnection
HandleError(t) ==
    /\ phase[t] = "handle"
    /\ ResetConnection
    /\ failed' = failed \cup {conn[t]}
    /\ handling' = [handling EXCEPT ![t] = TRUE]
    /\ Goto(t, "setup")
    /\ UNCHANGED <<conf, database, made, conn, guarded, serving, held, requests,
                   telemetry, stage>>

(* A bucket is locked while Monitor.stop empties it.                       *)
Locked(b) == stage = IF b = "duration" THEN "save duration" ELSE "save runtime"
Emptied(b) ==
    \/ stage \in {"exit", "gone"}
    \/ b = "duration" /\ stage \in {"empty runtime", "save runtime"}

(* put: the bucket keeps the observation or has to be flushed.             *)
Put(a, b, o) ==
    /\ ~Locked(b)
    /\ \/ buffer' = [buffer EXCEPT ![b] = @ \cup {o}] /\ UNCHANGED store
       \/ /\ store' = [store EXCEPT ![a] = buffer[b] \cup {o}]
          /\ buffer' = [buffer EXCEPT ![b] = {}]
    /\ late' = IF Emptied(b) THEN late \cup {o} ELSE late

StopRequest(t) ==
    /\ phase[t] = "stop" /\ held[t] \in timers
    /\ timers' = timers \ {held[t]}
    /\ Put(t, "duration", [bucket |-> "duration", timer |-> held[t],
                           of |-> serving[t]])
    /\ Goto(t, IF store'[t] = {} THEN "idle" ELSE "flush")
    /\ conn' = [conn EXCEPT ![t] = NoConnection]
    /\ guarded' = [guarded EXCEPT ![t] = FALSE]
    /\ handling' = [handling EXCEPT ![t] = FALSE]
    /\ serving' = [serving EXCEPT ![t] = 0]
    /\ held' = [held EXCEPT ![t] = 0]
    /\ UNCHANGED <<conf, database, shared, requests, samples, files, lost,
                   stage, failed>>

Save(a) ==
    /\ files' = files \cup store[a]
    /\ store' = [store EXCEPT ![a] = {}]

FlushDurations(t) ==
    /\ phase[t] = "flush"
    /\ Save(t) /\ Goto(t, "idle")
    /\ UNCHANGED <<conf, database, shared, conn, guarded, handling, serving,
                   held, requests, timers, buffer, samples, late, lost, stage,
                   failed>>

-----------------------------------------------------------------------------
(* RuntimeBackgroundSampler: GC and process figures, a put for each.       *)

Sample ==
    /\ conf.runtime /\ stage # "gone" /\ store["sampler"] = {}
    /\ samples < MaxSamples /\ samples' = samples + 1
    /\ Put("sampler", "runtime", [bucket |-> "runtime", timer |-> samples',
                                  of |-> samples'])
    /\ UNCHANGED <<conf, database, shared, request, requests, timers, files,
                   lost, stage, failed>>

FlushSamples ==
    /\ stage # "gone" /\ store["sampler"] # {} /\ Save("sampler")
    /\ UNCHANGED <<conf, database, shared, request, requests, timers, buffer,
                   samples, late, lost, stage, failed>>

-----------------------------------------------------------------------------
(* The way out.  Gunicorn calls worker_exit when its graceful timeout is   *)
(* over even if requests are still running; an RQ worker registers its     *)
(* death between two jobs.                                                 *)

Idle == \A t \in Threads : phase[t] = "idle"

WorkerExit ==
    /\ stage = "serving" /\ (conf.kind = "rq" => Idle)
    /\ stage' = "empty duration"
    /\ UNCHANGED <<conf, database, shared, request, requests, telemetry, failed>>

(* Monitor.stop: one bucket after the other. *)
TakeAll(b, next) ==
    /\ store' = [store EXCEPT !["main"] = buffer[b]]
    /\ buffer' = [buffer EXCEPT ![b] = {}]
    /\ stage' = next
    /\ UNCHANGED <<timers, samples, files, late, lost>>
SaveAll(next) ==
    /\ Save("main")
    /\ stage' = next
    /\ UNCHANGED <<timers, buffer, samples, late, lost>>

DurationsOnly == "exit"     \* mutant: the runtime bucket is left as it is
AfterDurations == IF conf.runtime THEN "empty runtime" ELSE "exit"

Stop ==
    /\ \/ stage = "empty duration" /\ TakeAll("duration", "save duration")
       \/ stage = "save duration" /\ SaveAll(AfterDurations)
       \/ stage = "empty runtime" /\ TakeAll("runtime", "save runtime")
       \/ stage = "save runtime" /\ SaveAll("exit")
    /\ UNCHANGED <<conf, database, shared, request, requests, failed>>

(* The interpreter joins the request threads and kills the daemon; an RQ   *)
(* worker may be followed by another one in the same process, with a       *)
(* monitor of its own.                                                     *)
Leave ==
    /\ stage = "exit" /\ Idle
    /\ stage' \in {"gone"} \cup IF conf.kind = "rq" THEN {"serving"} ELSE {}
    /\ lost' = lost \cup (UNION {buffer[b] : b \in Buckets}) \cup store["sampler"]
    /\ buffer' = [b \in Buckets |-> {}]
    /\ UNCHANGED <<conf, database, shared, request, requests, timers, store,
                   samples, files, late, failed>>

(* The database goes away and comes back. *)
Outage ==
    /\ \/ up /\ outages < MaxOutages /\ up' = FALSE /\ outages' = outages + 1
       \/ ~up /\ up' = TRUE /\ UNCHANGED outages
    /\ UNCHANGED <<conf, shared, request, requests, telemetry, stage, failed>>

Serve(t) ==
    \/ Setup(t) \/ Connect(t) \/ SetConnection(t) \/ GetVersion(t)
    \/ Statement(t) \/ HandleError(t) \/ StopRequest(t) \/ FlushDurations(t)

Next ==
    \/ \E t \in Threads : StartRequest(t) \/ Serve(t)
    \/ Sample \/ FlushSamples \/ WorkerExit \/ Stop \/ Leave \/ Outage

Spec == Init /\ [][Next]_vars

-----------------------------------------------------------------------------
(* Properties. *)

(* monitor.py: "all that can happen is that a tiny amount of data still in *)
(* the buffer doesn't get written".  What goes with the process was put    *)
(* after its bucket had been emptied for the last time, or it is the store *)
(* the sampler was saving when it was killed; a duration is only lost when *)
(* its request outlived the graceful timeout, a task's duration never, and *)
(* nothing is in two places at once.                                       *)
OnlyLateSamplesLost ==
    /\ \A o \in lost : o \in late \/ (o.bucket = "runtime" /\ o \in store["sampler"])
    /\ conf.kind = "rq" => lost = {}
    /\ lost \cap files = {} /\ (UNION {buffer[b] : b \in Buckets}) \cap files = {}
    /\ stage = "gone" => \A k \in 1..requests : k \in timers
                          \/ \E o \in files \cup lost :
                                o.bucket = "duration" /\ o.of = k

(* Each duration is the one of its own request, and the timers that run are*)
(* those of the requests being served, so none is left behind: although    *)
(* all threads share the sampler, and an RQ worker keeps the id of the     *)
(* timer in itself and not in the job.                                     *)
Served == {t \in Threads : phase[t] \notin {"idle", "flush"}}
OwnDurations ==
    /\ timers = {serving[t] : t \in Served}
    /\ \A t \in Served : held[t] = serving[t]
    /\ \A o \in files \cup lost \cup (UNION {buffer[b] : b \in Buckets})
                \cup (UNION {store[a] : a \in Actors}) : o.timer = o.of

(* A connection whose failure was handled is never handed out again: no    *)
(* thread that opened, kept or gave up another one meanwhile puts it back. *)
FailedConnectionDropped == table \notin failed
=============================================================================
