-------------------------- MODULE WorkerProcessProofs --------------------------
(* Proofs about WorkerProcess for any request threads, deployments and     *)
(* numbers of requests, samples and outages.                               *)
EXTENDS WorkerProcess, TLAPS

Phases == {"idle", "setup", "connect", "publish", "version", "statement",
           "handle", "stop", "flush"}
Connections == [id : Nat, since : Nat]
Observations == [bucket : Buckets, timer : Nat, of : Nat]

TypeInv ==
    /\ conf \in Deployments
    /\ up \in BOOLEAN /\ outages \in Nat
    /\ table \in Connections /\ made \in Nat
    /\ phase \in [Threads -> Phases]
    /\ conn \in [Threads -> Connections]
    /\ guarded \in [Threads -> BOOLEAN] /\ handling \in [Threads -> BOOLEAN]
    /\ serving \in [Threads -> Nat] /\ held \in [Threads -> Nat]
    /\ requests \in Nat /\ timers \subseteq Nat /\ samples \in Nat
    /\ buffer \in [Buckets -> SUBSET Observations]
    /\ store \in [Actors -> SUBSET Observations]
    /\ stage \in Stages
    /\ files \subseteq Observations /\ late \subseteq Observations
    /\ lost \subseteq Observations
    /\ failed \subseteq Connections

(* A connection that is published was opened by the thread that does so,   *)
(* after whatever is kept, and nobody else has it yet; one that is used is *)
(* a real one.                                                             *)
ConnectionInv ==
    /\ table.id <= made /\ (table = NoConnection \/ table.id > 0)
    /\ \A c \in failed : c.id \in 1..made
    /\ table \notin failed
    /\ \A t \in Threads :
        /\ conn[t].id <= made
        /\ phase[t] \in {"publish", "version", "statement", "handle"}
             => conn[t].id > 0
        /\ phase[t] = "publish"
             => /\ conn[t] \notin failed \cup {table}
                /\ \A u \in Threads \ {t} : conn[u] # conn[t]

(* Where an observation can be.                                            *)
Kept == files \cup lost \cup (UNION {buffer[b] : b \in Buckets})
          \cup (UNION {store[a] : a \in Actors})

(* Every request served has a timer of its own, and an observation tells   *)
(* of a timer that no longer runs.                                         *)
TimerInv ==
    /\ timers = {serving[t] : t \in Served}
    /\ \A t \in Served : held[t] = serving[t] /\ serving[t] \in 1..requests
    /\ \A t, u \in Served : t # u => serving[t] # serving[u]
    /\ \A o \in Kept :
        /\ o.timer = o.of
        /\ o.bucket = "duration" => o.of \in (1..requests) \ timers
        /\ o.bucket = "runtime" => conf.runtime /\ o.of <= samples

(* Buckets and stores hold observations of their kind, and stores are only *)
(* filled while somebody saves them.                                       *)
StoreInv ==
    /\ \A b \in Buckets : \A o \in buffer[b] : o.bucket = b
    /\ \A t \in Threads : \A o \in store[t] : o.bucket = "duration"
    /\ \A o \in store["sampler"] : o.bucket = "runtime"
    /\ \A t \in Threads : phase[t] # "flush" => store[t] = {}
    /\ stage \notin {"save duration", "save runtime"} => store["main"] = {}

(* An observation is in one place.                                         *)
PlaceInv ==
    /\ \A b \in Buckets : buffer[b] \cap files = {}
    /\ \A a \in Actors : store[a] \cap files = {}
    /\ \A a \in Actors, b \in Buckets : store[a] \cap buffer[b] = {}
    /\ \A a, c \in Actors : a # c => store[a] \cap store[c] = {}
    /\ lost \cap files = {}

(* What a bucket holds after it was emptied for the last time came late;   *)
(* an RQ worker puts nothing then.                                         *)
ExitInv ==
    /\ \A b \in Buckets : Locked(b) => buffer[b] = {}
    /\ \A b \in Buckets : Emptied(b) => buffer[b] \subseteq late
    /\ conf.kind = "rq" =>
        /\ stage # "serving" => Idle
        /\ \A b \in Buckets : Emptied(b) => buffer[b] = {}
    /\ lost # {} => stage = "gone" /\ conf.kind # "rq"
    /\ stage = "gone" => Idle /\ \A b \in Buckets : buffer[b] = {}
    /\ \A o \in lost : o \in late \/ (o.bucket = "runtime" /\ o \in store["sampler"])

(* Every request still runs its timer or has its duration somewhere.       *)
RequestInv ==
    \A k \in 1..requests :
        k \in timers \/ \E o \in Kept : o.bucket = "duration" /\ o.of = k

-----------------------------------------------------------------------------
(* A deployment says what it has; an RQ worker samples nothing.            *)
LEMMA DeploymentFacts ==
    ASSUME NEW d \in Deployments
    PROVE  /\ d.backend \in {"crate", "timescale"} /\ d.kind \in {"web", "rq"}
           /\ d.threads \subseteq Threads /\ d.runtime \in BOOLEAN
           /\ d.kind = "rq" => ~d.runtime
BY DeploymentsAssumption

(* Putting an observation changes the telemetry within its types.          *)
LEMMA PutTypes ==
    ASSUME TypeInv, NEW a \in Actors, NEW b \in Buckets,
           NEW o \in Observations, Put(a, b, o)
    PROVE  /\ buffer' \in [Buckets -> SUBSET Observations]
           /\ store' \in [Actors -> SUBSET Observations]
           /\ late' \subseteq Observations
BY DEF TypeInv, Put

(* Whatever is kept anywhere is an observation.                            *)
LEMMA KeptTypes ==
    ASSUME TypeInv
    PROVE  Kept \subseteq Observations
<1> SUFFICES ASSUME NEW o \in Kept PROVE o \in Observations
  OBVIOUS
<1> QED
  BY DEF TypeInv, Kept

(* Every variable keeps its type. *)
LEMMA TypeStep ==
    ASSUME TypeInv, [Next]_vars
    PROVE  TypeInv'
<1> USE DEF TypeInv, Phases, Goto, Connections, NoConnection, database, shared,
            request, telemetry
<1>1. ASSUME NEW t \in Threads, StartRequest(t) PROVE TypeInv'
  <2>1. requests' = requests + 1 /\ requests' \in Nat
    BY <1>1 DEF StartRequest
  <2>2. /\ serving' = [serving EXCEPT ![t] = requests']
        /\ held' = [held EXCEPT ![t] = requests']
        /\ timers' = timers \cup {requests'}
        /\ phase' = [phase EXCEPT ![t] = "setup"]
    BY <1>1 DEF StartRequest, HoldId
  <2>3. /\ serving' \in [Threads -> Nat] /\ held' \in [Threads -> Nat]
        /\ timers' \subseteq Nat /\ phase' \in [Threads -> Phases]
    BY <2>1, <2>2
  <2>4. guarded' \in [Threads -> BOOLEAN]
    <3>1. PICK g \in BOOLEAN : guarded' = [guarded EXCEPT ![t] = g]
      BY <1>1, Zenon DEF StartRequest
    <3> QED
      BY <3>1
  <2>5. UNCHANGED <<conf, database, shared, conn, handling, buffer, store, samples,
                    files, late, lost, stage, failed>>
    BY <1>1 DEF StartRequest
  <2> QED
    BY <2>1, <2>3, <2>4, <2>5
<1>2. ASSUME NEW t \in Threads, Setup(t) PROVE TypeInv'
  BY <1>2 DEF Setup, Connected, AfterSetup
<1>3. ASSUME NEW t \in Threads, Connect(t) PROVE TypeInv'
  <2>1. made' \in Nat /\ conn' \in [Threads -> Connections]
    <3>1. CASE made' = made + 1
      BY <1>3, <3>1 DEF Connect
    <3>2. CASE UNCHANGED <<made, conn>>
      BY <3>2
    <3> QED
      BY <1>3, <3>1, <3>2 DEF Connect
  <2> QED
    BY <1>3, <2>1 DEF Connect
<1>4. ASSUME NEW t \in Threads, SetConnection(t) PROVE TypeInv'
  BY <1>4 DEF SetConnection, Connected, AfterSetup
<1>5. ASSUME NEW t \in Threads, GetVersion(t) PROVE TypeInv'
  BY <1>5 DEF GetVersion, AfterSetup
<1>6. ASSUME NEW t \in Threads, Statement(t) PROVE TypeInv'
  BY <1>6 DEF Statement
<1>7. ASSUME NEW t \in Threads, HandleError(t) PROVE TypeInv'
  BY <1>7 DEF HandleError, ResetConnection
<1>8. ASSUME NEW t \in Threads, StopRequest(t) PROVE TypeInv'
  <2>1. [bucket |-> "duration", timer |-> held[t], of |-> serving[t]] \in Observations
    BY DEF Observations, Buckets
  <2>2. /\ buffer' \in [Buckets -> SUBSET Observations]
        /\ store' \in [Actors -> SUBSET Observations]
        /\ late' \subseteq Observations
    BY <1>8, <2>1, PutTypes DEF StopRequest, Actors, Buckets
  <2> QED
    BY <1>8, <2>2 DEF StopRequest
<1>9. ASSUME NEW t \in Threads, FlushDurations(t) PROVE TypeInv'
  BY <1>9 DEF FlushDurations, Save, Actors
<1>10. CASE Sample
  <2>1. /\ samples' \in Nat
        /\ [bucket |-> "runtime", timer |-> samples', of |-> samples'] \in Observations
    BY <1>10 DEF Sample, Observations, Buckets
  <2>2. /\ buffer' \in [Buckets -> SUBSET Observations]
        /\ store' \in [Actors -> SUBSET Observations]
        /\ late' \subseteq Observations
    BY <1>10, <2>1, PutTypes DEF Sample, Actors, Buckets
  <2> QED
    BY <1>10, <2>1, <2>2 DEF Sample
<1>11. CASE FlushSamples
  BY <1>11 DEF FlushSamples, Save, Actors
<1>12. CASE WorkerExit
  BY <1>12 DEF WorkerExit, Stages
<1>13. CASE Stop
  <2>0. UNCHANGED <<conf, database, shared, request, requests, failed>>
    BY <1>13 DEF Stop
  <2>1. stage' \in Stages /\ UNCHANGED <<timers, samples, late, lost>>
    BY <1>13 DEF Stop, TakeAll, SaveAll, AfterDurations, Stages
  <2>2. /\ buffer' \in [Buckets -> SUBSET Observations]
        /\ store' \in [Actors -> SUBSET Observations]
        /\ files' \subseteq Observations
    BY <1>13 DEF Stop, TakeAll, SaveAll, Save, Actors, Buckets
  <2> QED
    BY <2>0, <2>1, <2>2
<1>14. CASE Leave
  <2>1. ASSUME NEW o \in lost' PROVE o \in Observations
    <3>1. o \in Kept
      BY <1>14, <2>1 DEF Leave, Kept, Actors
    <3> QED
      BY <3>1, KeptTypes
  <2> QED
    BY <1>14, <2>1 DEF Leave, Stages
<1>15. CASE Outage
  <2>1. up' \in BOOLEAN
    BY <1>15, Zenon DEF Outage
  <2>2. outages' \in Nat
    BY <1>15 DEF Outage
  <2> QED
    BY <1>15, <2>1, <2>2 DEF Outage
<1>16. CASE UNCHANGED vars
  BY <1>16 DEF vars
<1> QED
  BY <1>1, <1>2, <1>3, <1>4, <1>5, <1>6, <1>7, <1>8, <1>9, <1>10, <1>11, <1>12,
     <1>13, <1>14, <1>15, <1>16 DEF Next, Serve

(* A connection that is published did not fail, and nobody else has it. *)
LEMMA ConnectionStep ==
    ASSUME TypeInv, ConnectionInv, [Next]_vars
    PROVE  ConnectionInv'
<1> USE DEF TypeInv, ConnectionInv, Phases, Goto, Connections, NoConnection,
            database, shared, request, telemetry
<1>1. ASSUME NEW t \in Threads, StartRequest(t) PROVE ConnectionInv'
  BY <1>1 DEF StartRequest
<1>2. ASSUME NEW t \in Threads, Setup(t) PROVE ConnectionInv'
  BY <1>2 DEF Setup, Connected, AfterSetup
<1>3. ASSUME NEW t \in Threads, Connect(t) PROVE ConnectionInv'
  <2>1. CASE UNCHANGED <<made, conn>> /\ phase' = [phase EXCEPT ![t] = "stop"]
    BY <1>3, <2>1 DEF Connect
  <2>2. CASE /\ made' = made + 1 /\ phase' = [phase EXCEPT ![t] = "publish"]
             /\ conn' = [conn EXCEPT ![t] = [id |-> made', since |-> outages]]
    <3>1. conn'[t].id = made + 1 /\ \A u \in Threads \ {t} : conn'[u] = conn[u]
      BY <2>2
    <3>2. \A u \in Threads \ {t} : conn'[u] # conn'[t]
      BY <3>1
    <3>3. conn'[t] \notin failed \cup {table}
      BY <3>1
    <3>4. UNCHANGED <<table, failed>>
      BY <1>3 DEF Connect
    <3>5. \A u \in Threads \ {t} : phase'[u] = phase[u]
      BY <2>2
    <3> QED
      BY <2>2, <3>1, <3>2, <3>3, <3>4, <3>5
  <2> QED
    BY <1>3, <2>1, <2>2 DEF Connect
<1>4. ASSUME NEW t \in Threads, SetConnection(t) PROVE ConnectionInv'
  BY <1>4 DEF SetConnection, Connected, AfterSetup
<1>5. ASSUME NEW t \in Threads, GetVersion(t) PROVE ConnectionInv'
  BY <1>5 DEF GetVersion, AfterSetup
<1>6. ASSUME NEW t \in Threads, Statement(t) PROVE ConnectionInv'
  BY <1>6 DEF Statement
<1>7. ASSUME NEW t \in Threads, HandleError(t) PROVE ConnectionInv'
  BY <1>7 DEF HandleError, ResetConnection
<1>8. ASSUME NEW t \in Threads, StopRequest(t) PROVE ConnectionInv'
  BY <1>8 DEF StopRequest
<1>9. ASSUME NEW t \in Threads, FlushDurations(t) PROVE ConnectionInv'
  BY <1>9 DEF FlushDurations
<1>10. Sample \/ FlushSamples \/ WorkerExit \/ Stop \/ Leave \/ Outage
         => UNCHANGED <<shared, request, failed>>
  BY DEF Sample, FlushSamples, WorkerExit, Stop, Leave, Outage
<1>11. CASE UNCHANGED <<shared, request, failed>>
  BY <1>11
<1> QED
  BY <1>1, <1>2, <1>3, <1>4, <1>5, <1>6, <1>7, <1>8, <1>9, <1>10, <1>11
  DEF Next, Serve, vars

-----------------------------------------------------------------------------
(* The steps that have nothing to do with observations.                    *)
Quiet(t) == \/ StartRequest(t) \/ Setup(t) \/ Connect(t) \/ SetConnection(t)
            \/ GetVersion(t) \/ Statement(t) \/ HandleError(t)

(* The steps that serve a request without touching the telemetry. *)
LEMMA QuietStep ==
    ASSUME TypeInv, NEW t \in Threads, Quiet(t)
    PROVE  /\ UNCHANGED <<conf, buffer, store, samples, files, late, lost, stage>>
           /\ phase[t] \notin {"stop", "flush"} /\ phase'[t] \notin {"idle", "flush"}
           /\ ~StartRequest(t) => phase[t] # "idle"
           /\ ~StartRequest(t) => UNCHANGED <<serving, held, requests, timers>>
           /\ \A u \in Threads \ {t} : phase'[u] = phase[u]
<1> USE DEF TypeInv, Phases, Goto, telemetry
<1>1. CASE StartRequest(t)
  BY <1>1 DEF StartRequest
<1>2. CASE Setup(t)
  BY <1>2 DEF Setup, Connected, AfterSetup
<1>3. CASE Connect(t)
  BY <1>3 DEF Connect
<1>4. CASE SetConnection(t)
  BY <1>4 DEF SetConnection, Connected, AfterSetup
<1>5. CASE GetVersion(t)
  BY <1>5 DEF GetVersion, AfterSetup
<1>6. CASE Statement(t)
  BY <1>6 DEF Statement
<1>7. CASE HandleError(t)
  BY <1>7 DEF HandleError
<1> QED
  BY <1>1, <1>2, <1>3, <1>4, <1>5, <1>6, <1>7 DEF Quiet

(* No step loses sight of an observation, and only the end of a request and*)
(* a sample bring a new one.                                               *)
Duration(t) == [bucket |-> "duration", timer |-> held[t], of |-> serving[t]]
Figures == [bucket |-> "runtime", timer |-> samples + 1, of |-> samples + 1]

(* An observation that is put joins those that are kept. *)
LEMMA PutKeeps ==
    ASSUME TypeInv, NEW a \in Actors, NEW b \in Buckets, NEW o, Put(a, b, o),
           store[a] = {}, UNCHANGED <<files, lost>>
    PROVE  Kept' = Kept \cup {o}
<1> USE DEF TypeInv, Kept
<1>1. CASE buffer' = [buffer EXCEPT ![b] = @ \cup {o}] /\ UNCHANGED store
  <2>1. \A c \in Buckets : buffer'[c] = IF c = b THEN buffer[b] \cup {o} ELSE buffer[c]
    BY <1>1
  <2> QED
    BY <1>1, <2>1
<1>2. CASE /\ store' = [store EXCEPT ![a] = buffer[b] \cup {o}]
           /\ buffer' = [buffer EXCEPT ![b] = {}]
  <2>1. /\ \A c \in Buckets : buffer'[c] = IF c = b THEN {} ELSE buffer[c]
        /\ \A c \in Actors :
              store'[c] = IF c = a THEN buffer[b] \cup {o} ELSE store[c]
    BY <1>2
  <2> QED
    BY <2>1
<1> QED
  BY <1>1, <1>2 DEF Put

(* Saving a store to a file keeps its observations. *)
LEMMA SaveKeeps ==
    ASSUME TypeInv, NEW a \in Actors, Save(a), UNCHANGED <<buffer, lost>>
    PROVE  Kept' = Kept
<1>1. \A c \in Actors : store'[c] = IF c = a THEN {} ELSE store[c]
  BY DEF Save, TypeInv
<1> QED
  BY <1>1 DEF Kept, Save

Service == <<conf, serving, held, requests, timers>>

(* What the steps do to the requests being served and to the               *)
(* observations kept.                                                      *)
LEMMA ServiceStep ==
    ASSUME TypeInv, StoreInv, [Next]_vars
    PROVE  \/ \E t \in Threads : /\ StartRequest(t) /\ t \notin Served
                                 /\ Served' = Served \cup {t} /\ Kept' = Kept
           \/ \E t \in Served : /\ StopRequest(t) /\ Served' = Served \ {t}
                                /\ Kept' = Kept \cup {Duration(t)}
           \/ /\ Served' = Served /\ UNCHANGED Service
              /\ \/ Kept' = Kept /\ samples' = samples
                 \/ Sample /\ Kept' = Kept \cup {Figures}
<1> DEFINE P == \/ \E t \in Threads : /\ StartRequest(t) /\ t \notin Served
                                      /\ Served' = Served \cup {t} /\ Kept' = Kept
                \/ \E t \in Served : /\ StopRequest(t) /\ Served' = Served \ {t}
                                     /\ Kept' = Kept \cup {Duration(t)}
                \/ /\ Served' = Served /\ UNCHANGED Service
                   /\ \/ Kept' = Kept /\ samples' = samples
                      \/ Sample /\ Kept' = Kept \cup {Figures}
<1> SUFFICES P
  OBVIOUS
<1>1. ASSUME NEW t \in Threads, Quiet(t) PROVE P
  <2>1. Kept' = Kept /\ samples' = samples /\ conf' = conf
    BY <1>1, QuietStep DEF Kept
  <2>2. CASE StartRequest(t)
    <3>1. t \notin Served /\ Served' = Served \cup {t}
      BY <1>1, <2>2, QuietStep DEF Served, StartRequest
    <3> QED
      BY <2>1, <2>2, <3>1
  <2>3. CASE ~StartRequest(t)
    <3>1. Served' = Served /\ UNCHANGED Service
      BY <1>1, <2>1, <2>3, QuietStep DEF Served, Service
    <3> QED
      BY <2>1, <3>1
  <2> QED
    BY <2>2, <2>3
<1>2. ASSUME NEW t \in Threads, StopRequest(t) PROVE P
  <2>1. /\ Put(t, "duration", Duration(t)) /\ store[t] = {}
        /\ UNCHANGED <<files, lost>>
    BY <1>2 DEF StopRequest, Duration, StoreInv
  <2>2. Kept' = Kept \cup {Duration(t)}
    BY <2>1, PutKeeps DEF Actors, Buckets
  <2>3. t \in Served /\ Served' = Served \ {t}
    BY <1>2 DEF StopRequest, Served, Goto, TypeInv
  <2> QED
    BY <1>2, <2>2, <2>3
<1>3. ASSUME NEW t \in Threads, FlushDurations(t) PROVE P
  <2>1. Kept' = Kept
    BY <1>3, SaveKeeps DEF FlushDurations, Actors
  <2>2. Served' = Served /\ UNCHANGED <<Service, samples>>
    BY <1>3 DEF FlushDurations, Served, Goto, TypeInv, Service
  <2> QED
    BY <2>1, <2>2
<1>4. Sample \/ FlushSamples \/ WorkerExit \/ Stop \/ Leave \/ Outage
        => Served' = Served /\ UNCHANGED Service /\ (~Sample => samples' = samples)
  BY DEF Sample, FlushSamples, WorkerExit, Stop, TakeAll, SaveAll, Leave, Outage, Served,
         Service, request, telemetry
<1>5. CASE Sample
  <2>1. /\ Put("sampler", "runtime", Figures) /\ store["sampler"] = {}
        /\ UNCHANGED <<files, lost>>
    BY <1>5 DEF Sample, Figures
  <2>2. Kept' = Kept \cup {Figures}
    BY <2>1, PutKeeps DEF Actors, Buckets
  <2> QED
    BY <1>4, <1>5, <2>2
<1>6. CASE ~Sample /\ FlushSamples
  <2>1. Kept' = Kept
    BY <1>6, SaveKeeps DEF FlushSamples, Actors
  <2> QED
    BY <1>4, <1>6, <2>1
<1>7. CASE ~Sample /\ (WorkerExit \/ Outage)
  <2>1. Kept' = Kept
    BY <1>7 DEF WorkerExit, Outage, telemetry, Kept
  <2> QED
    BY <1>4, <1>7, <2>1
<1>8. CASE ~Sample /\ Stop
  <2>1. CASE SaveAll(AfterDurations) \/ SaveAll("exit")
    <3>1. Kept' = Kept
      BY <2>1, SaveKeeps DEF SaveAll, Actors
    <3> QED
      BY <1>4, <1>8, <3>1
  <2>2. ASSUME NEW b \in Buckets, NEW next \in Stages, TakeAll(b, next),
               store["main"] = {}
        PROVE  Kept' = Kept
    <3>1. /\ \A c \in Buckets : buffer'[c] = IF c = b THEN {} ELSE buffer[c]
          /\ \A c \in Actors : store'[c] = IF c = "main" THEN buffer[b] ELSE store[c]
          /\ "main" \in Actors
          /\ UNCHANGED <<files, lost>>
      BY <2>2 DEF TakeAll, TypeInv, Actors
    <3> QED
      BY <2>2, <3>1 DEF Kept
  <2>3. CASE ~SaveAll(AfterDurations) /\ ~SaveAll("exit")
    <3>1. Kept' = Kept
      BY <1>8, <2>2, <2>3 DEF Stop, StoreInv, Stages, Buckets
    <3> QED
      BY <1>4, <1>8, <3>1
  <2> QED
    BY <2>1, <2>3
<1>9. CASE ~Sample /\ Leave
  <2>1. /\ lost' = lost \cup (UNION {buffer[b] : b \in Buckets}) \cup store["sampler"]
        /\ \A b \in Buckets : buffer'[b] = {}
        /\ UNCHANGED <<store, files>>
        /\ "sampler" \in Actors
    BY <1>9 DEF Leave, Actors
  <2>2. Kept' = Kept
    BY <2>1 DEF Kept
  <2> QED
    BY <1>4, <1>9, <2>2
<1>10. CASE UNCHANGED vars
  BY <1>10 DEF vars, request, telemetry, Kept, Served, Service
<1> QED
  <2> HIDE DEF P
  <2> QED
    BY <1>1, <1>2, <1>3, <1>5, <1>6, <1>7, <1>8, <1>9, <1>10
    DEF Next, Serve, Quiet

(* Timers stay different, and observations tell of timers that no longer   *)
(* run.                                                                    *)
LEMMA TimerStep ==
    ASSUME TypeInv, StoreInv, TimerInv, [Next]_vars
    PROVE  TimerInv'
<1> USE DEF TypeInv, TimerInv, Service
<1>1. ASSUME NEW t \in Threads, StartRequest(t), t \notin Served,
             Served' = Served \cup {t}, Kept' = Kept
      PROVE  TimerInv'
  <2>1. /\ serving'[t] = requests + 1 /\ held'[t] = requests + 1
        /\ \A u \in Served : serving'[u] = serving[u] /\ held'[u] = held[u]
    BY <1>1 DEF StartRequest, HoldId, Served
  <2>2. /\ timers' = timers \cup {requests + 1} /\ requests' = requests + 1
        /\ samples' = samples /\ conf' = conf
    BY <1>1 DEF StartRequest
  <2>3. timers' = {serving'[u] : u \in Served'}
    BY <1>1, <2>1, <2>2
  <2>4. /\ \A u \in Served' : held'[u] = serving'[u] /\ serving'[u] \in 1..requests'
        /\ \A u, v \in Served' : u # v => serving'[u] # serving'[v]
    BY <1>1, <2>1, <2>2
  <2>5. \A o \in Kept' : /\ o.timer = o.of
                         /\ o.bucket = "duration" => o.of \in (1..requests') \ timers'
                         /\ o.bucket = "runtime" => conf'.runtime /\ o.of <= samples'
    BY <1>1, <2>2
  <2> QED
    BY <2>3, <2>4, <2>5
<1>2. ASSUME NEW t \in Served, StopRequest(t), Served' = Served \ {t},
             Kept' = Kept \cup {Duration(t)}
      PROVE  TimerInv'
  <2>1. \A u \in Served' : serving'[u] = serving[u] /\ held'[u] = held[u]
    BY <1>2 DEF StopRequest, Served
  <2>2. /\ timers' = timers \ {serving[t]}
        /\ UNCHANGED <<conf, requests, samples>>
    BY <1>2 DEF StopRequest
  <2>3. timers' = {serving'[u] : u \in Served'}
    BY <1>2, <2>1, <2>2
  <2>4. /\ Duration(t).of = serving[t] /\ Duration(t).timer = serving[t]
        /\ Duration(t).bucket = "duration"
    BY DEF Duration
  <2>5. \A o \in Kept' : /\ o.timer = o.of
                         /\ o.bucket = "duration" => o.of \in (1..requests') \ timers'
                         /\ o.bucket = "runtime" => conf'.runtime /\ o.of <= samples'
    BY <1>2, <2>2, <2>4
  <2> QED
    BY <1>2, <2>1, <2>2, <2>3, <2>5
<1>3. CASE Served' = Served /\ UNCHANGED Service /\ Kept' = Kept /\ samples' = samples
  BY <1>3
<1>4. CASE Served' = Served /\ UNCHANGED Service /\ Sample /\ Kept' = Kept \cup {Figures}
  <2>1. conf.runtime /\ samples' = samples + 1
    BY <1>4 DEF Sample
  <2>2. Figures.bucket = "runtime" /\ Figures.timer = samples + 1 /\ Figures.of = samples + 1
    BY DEF Figures
  <2>3. \A o \in Kept : o.of \in Nat
    BY KeptTypes DEF Observations
  <2> QED
    BY <1>4, <2>1, <2>2, <2>3
<1> QED
  BY <1>1, <1>2, <1>3, <1>4, ServiceStep

(* No request is forgotten.                                                *)
LEMMA RequestStep ==
    ASSUME TypeInv, StoreInv, TimerInv, RequestInv, [Next]_vars
    PROVE  RequestInv'
<1> USE DEF TypeInv, RequestInv, Service
<1>1. ASSUME NEW t \in Threads, StartRequest(t), Kept' = Kept PROVE RequestInv'
  BY <1>1 DEF StartRequest
<1>2. ASSUME NEW t \in Served, StopRequest(t), Kept' = Kept \cup {Duration(t)}
      PROVE  RequestInv'
  <2>1. Duration(t).bucket = "duration" /\ Duration(t).of = serving[t]
    BY DEF Duration
  <2>2. timers' = timers \ {serving[t]} /\ requests' = requests
    BY <1>2 DEF StopRequest, TimerInv
  <2> QED
    BY <1>2, <2>1, <2>2
<1>3. CASE UNCHANGED Service /\ (Kept' = Kept \/ Kept' = Kept \cup {Figures})
  BY <1>3
<1> QED
  BY <1>1, <1>2, <1>3, ServiceStep

-----------------------------------------------------------------------------
(* Buckets and stores only get observations of their kind. *)
LEMMA StoreStep ==
    ASSUME TypeInv, StoreInv, [Next]_vars
    PROVE  StoreInv'
<1> USE ThreadsAssumption DEF TypeInv, StoreInv, Actors, Buckets
<1>1. ASSUME NEW t \in Threads, Quiet(t) PROVE StoreInv'
  BY <1>1, QuietStep
<1>2. ASSUME NEW t \in Threads, StopRequest(t) PROVE StoreInv'
  <2> DEFINE o == Duration(t)
  <2>1. Put(t, "duration", o) /\ o.bucket = "duration" /\ UNCHANGED stage
    BY <1>2 DEF StopRequest, Duration
  <2>2. /\ phase'[t] = IF store'[t] = {} THEN "idle" ELSE "flush"
        /\ \A u \in Threads \ {t} : phase'[u] = phase[u]
    BY <1>2 DEF StopRequest, Goto
  <2> HIDE DEF o
  <2>3. CASE buffer' = [buffer EXCEPT !["duration"] = @ \cup {o}] /\ UNCHANGED store
    BY <1>2, <2>1, <2>2, <2>3 DEF StopRequest
  <2>4. CASE /\ store' = [store EXCEPT ![t] = buffer["duration"] \cup {o}]
             /\ buffer' = [buffer EXCEPT !["duration"] = {}]
    BY <2>1, <2>2, <2>4
  <2> QED
    BY <2>1, <2>3, <2>4 DEF Put
<1>3. ASSUME NEW t \in Threads, FlushDurations(t) PROVE StoreInv'
  BY <1>3 DEF FlushDurations, Save, Goto
<1>4. CASE Sample
  <2> DEFINE o == Figures
  <2>1. /\ Put("sampler", "runtime", o) /\ o.bucket = "runtime"
        /\ UNCHANGED <<stage, phase>>
    BY <1>4 DEF Sample, Figures, request
  <2> HIDE DEF o
  <2>2. CASE buffer' = [buffer EXCEPT !["runtime"] = @ \cup {o}] /\ UNCHANGED store
    BY <2>1, <2>2
  <2>3. CASE /\ store' = [store EXCEPT !["sampler"] = buffer["runtime"] \cup {o}]
             /\ buffer' = [buffer EXCEPT !["runtime"] = {}]
    BY <2>1, <2>3
  <2> QED
    BY <2>1, <2>2, <2>3 DEF Put
<1>5. CASE FlushSamples
  BY <1>5 DEF FlushSamples, Save, request
<1>6. CASE WorkerExit \/ Outage
  BY <1>6 DEF WorkerExit, Outage, request, telemetry
<1>7. CASE Stop
  <2>1. phase' = phase
    BY <1>7 DEF Stop, request
  <2>2. CASE stage = "empty duration" /\ TakeAll("duration", "save duration")
    BY <2>1, <2>2 DEF TakeAll
  <2>3. CASE stage = "empty runtime" /\ TakeAll("runtime", "save runtime")
    BY <2>1, <2>3 DEF TakeAll
  <2>4. CASE SaveAll(AfterDurations) \/ SaveAll("exit")
    BY <2>1, <2>4 DEF SaveAll, Save, AfterDurations
  <2> QED
    BY <1>7, <2>2, <2>3, <2>4 DEF Stop
<1>8. CASE Leave
  BY <1>8 DEF Leave, request
<1>9. CASE UNCHANGED vars
  BY <1>9 DEF vars, request, telemetry
<1> QED
  BY <1>1, <1>2, <1>3, <1>4, <1>5, <1>6, <1>7, <1>8, <1>9 DEF Next, Serve, Quiet

(* What is put was nowhere before.                                         *)
LEMMA NewObservation ==
    ASSUME TypeInv, TimerInv
    PROVE  /\ \A t \in Threads : StopRequest(t) => Duration(t) \notin Kept
           /\ Figures \notin Kept
<1>1. ASSUME NEW t \in Threads, StopRequest(t) PROVE Duration(t) \notin Kept
  <2>1. t \in Served
    BY <1>1 DEF StopRequest, Served
  <2>2. Duration(t).bucket = "duration" /\ Duration(t).of \in timers
    BY <2>1 DEF Duration, TimerInv
  <2> QED
    BY <2>2 DEF TimerInv
<1>2. Figures \notin Kept
  <2>1. Figures.bucket = "runtime" /\ ~(Figures.of <= samples)
    BY DEF Figures, TypeInv
  <2> QED
    BY <2>1 DEF TimerInv
<1> QED
  BY <1>1, <1>2

(* No observation is in two buckets. *)
LEMMA BucketsApart ==
    ASSUME StoreInv
    PROVE  \A c, d \in Buckets : c # d => buffer[c] \cap buffer[d] = {}
<1> SUFFICES ASSUME NEW c \in Buckets, NEW d \in Buckets, c # d,
                    NEW x \in buffer[c], x \in buffer[d]
             PROVE  FALSE
  OBVIOUS
<1>1. x.bucket = c
  BY DEF StoreInv
<1>2. x.bucket = d
  BY DEF StoreInv
<1> QED
  BY <1>1, <1>2

(* A new observation is put in one place. *)
LEMMA PutPlaces ==
    ASSUME TypeInv, StoreInv, PlaceInv, NEW a \in Actors, NEW b \in Buckets, NEW o,
           Put(a, b, o), o \notin Kept, store[a] = {}, UNCHANGED <<files, lost>>
    PROVE  PlaceInv'
<1>1. /\ o \notin files
      /\ \A c \in Buckets : o \notin buffer[c]
      /\ \A c \in Actors : o \notin store[c]
  BY DEF Kept
<1>2. \A c, d \in Buckets : c # d => buffer[c] \cap buffer[d] = {}
  BY BucketsApart
<1>3. CASE buffer' = [buffer EXCEPT ![b] = @ \cup {o}] /\ UNCHANGED store
  <2>1. \A c \in Buckets : buffer'[c] \subseteq buffer[c] \cup {o}
    BY <1>3 DEF TypeInv
  <2>2. /\ \A c \in Buckets : buffer'[c] \cap files = {}
        /\ \A d \in Actors, c \in Buckets : store[d] \cap buffer'[c] = {}
    BY <1>1, <2>1 DEF PlaceInv
  <2> QED
    BY <1>3, <2>2 DEF PlaceInv
<1>4. CASE /\ store' = [store EXCEPT ![a] = buffer[b] \cup {o}]
           /\ buffer' = [buffer EXCEPT ![b] = {}]
  <2>1. /\ \A c \in Buckets : buffer'[c] = IF c = b THEN {} ELSE buffer[c]
        /\ \A c \in Actors :
              store'[c] = IF c = a THEN buffer[b] \cup {o} ELSE store[c]
    BY <1>4 DEF TypeInv
  <2> QED
    BY <1>1, <1>2, <2>1 DEF PlaceInv
<1> QED
  BY <1>3, <1>4 DEF Put

(* A store that is saved is in the files and nowhere else. *)
LEMMA SavePlaces ==
    ASSUME TypeInv, PlaceInv, NEW a \in Actors, Save(a), UNCHANGED <<buffer, lost>>,
           lost = {}
    PROVE  PlaceInv'
<1>1. \A c \in Actors : store'[c] = IF c = a THEN {} ELSE store[c]
  BY DEF Save, TypeInv
<1> QED
  BY <1>1 DEF Save, PlaceInv, TypeInv

(* No step leaves an observation in two places. *)
LEMMA PlaceStep ==
    ASSUME TypeInv, StoreInv, TimerInv, ExitInv, PlaceInv, [Next]_vars
    PROVE  PlaceInv'
<1>1. ASSUME NEW t \in Threads, Quiet(t) PROVE PlaceInv'
  BY <1>1, QuietStep DEF PlaceInv
<1>2. ASSUME NEW t \in Threads, StopRequest(t) PROVE PlaceInv'
  <2>1. /\ Put(t, "duration", Duration(t)) /\ store[t] = {}
        /\ UNCHANGED <<files, lost>>
    BY <1>2 DEF StopRequest, Duration, StoreInv
  <2> QED
    BY <1>2, <2>1, PutPlaces, NewObservation DEF Actors, Buckets
<1>3. ASSUME NEW t \in Threads, FlushDurations(t) PROVE PlaceInv'
  <2>1. lost = {}
    BY <1>3 DEF ExitInv, FlushDurations, Idle
  <2> QED
    BY <1>3, <2>1, SavePlaces DEF FlushDurations, Actors
<1>4. CASE Sample
  <2>1. /\ Put("sampler", "runtime", Figures) /\ store["sampler"] = {}
        /\ UNCHANGED <<files, lost>>
    BY <1>4 DEF Sample, Figures
  <2> QED
    BY <2>1, PutPlaces, NewObservation DEF Actors, Buckets
<1>5. CASE FlushSamples
  BY <1>5, SavePlaces DEF FlushSamples, Actors, ExitInv
<1>6. CASE WorkerExit \/ Outage
  BY <1>6 DEF WorkerExit, Outage, telemetry, PlaceInv
<1>7. CASE Stop
  <2>1. lost = {}
    BY <1>7 DEF ExitInv, Stop
  <2>2. CASE SaveAll(AfterDurations) \/ SaveAll("exit")
    BY <2>1, <2>2, SavePlaces DEF SaveAll, Actors
  <2>3. ASSUME NEW b \in Buckets, NEW next \in Stages, TakeAll(b, next)
        PROVE  PlaceInv'
    <3>1. \A c, d \in Buckets : c # d => buffer[c] \cap buffer[d] = {}
      BY BucketsApart
    <3>2. /\ \A c \in Buckets : buffer'[c] = IF c = b THEN {} ELSE buffer[c]
          /\ \A c \in Actors : store'[c] = IF c = "main" THEN buffer[b] ELSE store[c]
          /\ UNCHANGED <<files, lost>>
      BY <2>3 DEF TakeAll, TypeInv
    <3>3. /\ \A c \in Buckets : buffer'[c] \cap files = {}
          /\ \A c \in Actors : store'[c] \cap files = {}
      BY <2>3, <3>2 DEF PlaceInv
    <3>4. \A a \in Actors, c \in Buckets : store'[a] \cap buffer'[c] = {}
      BY <2>3, <3>1, <3>2 DEF PlaceInv
    <3>5. \A a, c \in Actors : a # c => store'[a] \cap store'[c] = {}
      BY <2>3, <3>2 DEF PlaceInv
    <3> QED
      BY <3>2, <3>3, <3>4, <3>5 DEF PlaceInv
  <2> QED
    BY <1>7, <2>2, <2>3 DEF Stop, Stages, Buckets
<1>8. CASE Leave
  <2>1. /\ lost' = lost \cup (UNION {buffer[b] : b \in Buckets}) \cup store["sampler"]
        /\ \A b \in Buckets : buffer'[b] = {}
        /\ UNCHANGED <<store, files>>
        /\ "sampler" \in Actors
    BY <1>8 DEF Leave, Actors
  <2> QED
    BY <2>1 DEF PlaceInv
<1>9. CASE UNCHANGED vars
  BY <1>9 DEF vars, telemetry, PlaceInv
<1> QED
  BY <1>1, <1>2, <1>3, <1>4, <1>5, <1>6, <1>7, <1>8, <1>9 DEF Next, Serve, Quiet

-----------------------------------------------------------------------------
(* Only a deployment that samples has samples in its runtime bucket.       *)
LEMMA SamplesNeedSampler ==
    ASSUME TypeInv, StoreInv, TimerInv, ~conf.runtime
    PROVE  buffer["runtime"] = {} /\ store["sampler"] = {}
<1>1. \A o \in Kept : o.bucket # "runtime"
  BY DEF TimerInv
<1>2. buffer["runtime"] \subseteq Kept /\ store["sampler"] \subseteq Kept
  BY DEF Kept, Buckets, Actors
<1>3. \A o \in buffer["runtime"] \cup store["sampler"] : o.bucket = "runtime"
  BY DEF StoreInv, Buckets
<1> QED
  BY <1>1, <1>2, <1>3

(* A put after the last empty is late, and none happens once the process   *)
(* is gone or an RQ worker on its way out.                                 *)
LEMMA PutExit ==
    ASSUME TypeInv, ExitInv, NEW a \in Actors, NEW b \in Buckets, NEW o, Put(a, b, o),
           lost = {}, UNCHANGED <<conf, stage, lost>>,
           stage # "gone", conf.kind = "rq" => stage = "serving"
    PROVE  /\ \A c \in Buckets : Locked(c)' => buffer'[c] = {}
           /\ \A c \in Buckets : Emptied(c)' => buffer'[c] \subseteq late'
           /\ conf'.kind = "rq" => \A c \in Buckets : Emptied(c)' => buffer'[c] = {}
<1>1. \/ \A c \in Buckets : buffer'[c] = IF c = b THEN buffer[b] \cup {o} ELSE buffer[c]
      \/ \A c \in Buckets : buffer'[c] = IF c = b THEN {} ELSE buffer[c]
  BY DEF Put, TypeInv
<1>2. /\ late \subseteq late' /\ (Emptied(b) => o \in late')
      /\ ~Locked(b)
  BY DEF Put
<1>3. \A c \in Buckets : (Locked(c)' <=> Locked(c)) /\ (Emptied(c)' <=> Emptied(c))
  BY DEF Locked, Emptied
<1>4. \A c \in Buckets : stage = "serving" => ~Emptied(c)
  BY DEF Emptied
<1> QED
  BY <1>1, <1>2, <1>3, <1>4 DEF ExitInv

(* What is put after the last empty is late, and only that is lost. *)
LEMMA ExitStep ==
    ASSUME TypeInv, StoreInv, TimerInv, ExitInv, [Next]_vars
    PROVE  ExitInv'
<1>1. ASSUME NEW t \in Threads, Quiet(t) PROVE ExitInv'
  <2>1. UNCHANGED <<conf, buffer, store, late, lost, stage>>
    BY <1>1, QuietStep
  <2>2. StartRequest(t) => stage = "serving"
    BY DEF StartRequest
  <2>3. phase[t] # "idle" => ~Idle
    BY DEF Idle
  <2>4. Idle => stage = "serving"
    BY <1>1, <2>2, <2>3, QuietStep
  <2>5. stage \notin {"gone"} /\ (conf.kind = "rq" => stage = "serving")
    BY <2>4 DEF ExitInv
  <2> QED
    BY <2>1, <2>5 DEF ExitInv, Locked, Emptied
<1>2. ASSUME NEW t \in Threads, StopRequest(t) PROVE ExitInv'
  <2>1. Put(t, "duration", Duration(t)) /\ UNCHANGED <<conf, stage, lost>>
    BY <1>2 DEF StopRequest, Duration
  <2>2. ~Idle
    BY <1>2 DEF Idle, StopRequest
  <2>3. lost = {} /\ stage # "gone" /\ (conf.kind = "rq" => stage = "serving")
    BY <2>2 DEF ExitInv
  <2>4. /\ \A c \in Buckets : Locked(c)' => buffer'[c] = {}
        /\ \A c \in Buckets : Emptied(c)' => buffer'[c] \subseteq late'
        /\ conf'.kind = "rq" => \A c \in Buckets : Emptied(c)' => buffer'[c] = {}
    BY <2>1, <2>3, PutExit DEF Actors, Buckets
  <2> QED
    BY <2>1, <2>3, <2>4 DEF ExitInv
<1>3. ASSUME NEW t \in Threads, FlushDurations(t) PROVE ExitInv'
  <2>1. ~Idle
    BY <1>3 DEF Idle, FlushDurations
  <2>2. lost = {} /\ stage # "gone" /\ (conf.kind = "rq" => stage = "serving")
    BY <2>1 DEF ExitInv
  <2>3. UNCHANGED <<conf, buffer, late, lost, stage>>
    BY <1>3 DEF FlushDurations
  <2> QED
    BY <2>2, <2>3 DEF ExitInv, Locked, Emptied
<1>4. CASE Sample
  <2>1. /\ Put("sampler", "runtime", Figures) /\ UNCHANGED <<conf, stage, lost, phase>>
        /\ stage # "gone" /\ conf.runtime
    BY <1>4 DEF Sample, Figures, request
  <2>2. lost = {} /\ conf.kind # "rq"
    BY <2>1, DeploymentFacts DEF ExitInv, TypeInv
  <2>3. /\ \A c \in Buckets : Locked(c)' => buffer'[c] = {}
        /\ \A c \in Buckets : Emptied(c)' => buffer'[c] \subseteq late'
    BY <2>1, <2>2, PutExit DEF Actors, Buckets
  <2> QED
    BY <2>1, <2>2, <2>3 DEF ExitInv
<1>5. CASE FlushSamples
  <2>1. stage # "gone" /\ lost = {}
    BY <1>5 DEF FlushSamples, ExitInv
  <2> QED
    BY <1>5, <2>1 DEF FlushSamples, ExitInv, Locked, Emptied, Idle, request
<1>6. CASE WorkerExit
  BY <1>6 DEF WorkerExit, ExitInv, Locked, Emptied, Idle, request, telemetry
<1>7. CASE Outage
  BY <1>7 DEF Outage, ExitInv, Locked, Emptied, Idle, request, telemetry
<1>8. CASE Stop
  <2>1. /\ UNCHANGED <<conf, phase, lost, late>> /\ lost = {} /\ stage' # "gone"
        /\ stage # "serving"
    BY <1>8 DEF Stop, TakeAll, SaveAll, AfterDurations, ExitInv, request
  <2>2. Idle' <=> Idle
    BY <2>1 DEF Idle
  <2>3. ~conf.runtime => buffer["runtime"] = {}
    BY SamplesNeedSampler
  <2>4. CASE stage = "empty duration"
    BY <1>8, <2>1, <2>2, <2>4 DEF Stop, TakeAll, ExitInv, Locked, Emptied, TypeInv, Buckets
  <2>5. CASE stage = "save duration"
    <3>1. /\ stage' = IF conf.runtime THEN "empty runtime" ELSE "exit"
          /\ buffer' = buffer /\ buffer["duration"] = {}
      BY <1>8, <2>5 DEF Stop, SaveAll, AfterDurations, ExitInv, Locked, Buckets
    <3> QED
      BY <2>1, <2>2, <2>3, <3>1 DEF ExitInv, Locked, Emptied, Buckets
  <2>6. CASE stage = "empty runtime"
    BY <1>8, <2>1, <2>2, <2>6 DEF Stop, TakeAll, ExitInv, Locked, Emptied, TypeInv, Buckets
  <2>7. CASE stage = "save runtime"
    BY <1>8, <2>1, <2>2, <2>7 DEF Stop, SaveAll, ExitInv, Locked, Emptied, TypeInv, Buckets
  <2> QED
    BY <1>8, <2>4, <2>5, <2>6, <2>7 DEF Stop
<1>9. CASE Leave
  <2>1. /\ lost' = lost \cup (UNION {buffer[b] : b \in Buckets}) \cup store["sampler"]
        /\ \A b \in Buckets : buffer'[b] = {}
        /\ stage = "exit" /\ Idle /\ UNCHANGED <<conf, phase, store, late>>
        /\ stage' = "gone" \/ (stage' = "serving" /\ conf.kind = "rq")
    BY <1>9 DEF Leave, request
  <2>2. lost = {} /\ \A b \in Buckets : buffer[b] \subseteq late
    BY <2>1 DEF ExitInv, Emptied
  <2>3. CASE conf.kind = "rq"
    <3>1. \A b \in Buckets : buffer[b] = {}
      BY <2>1, <2>3 DEF ExitInv, Emptied
    <3>2. store["sampler"] = {}
      BY <2>3, DeploymentFacts, SamplesNeedSampler DEF TypeInv
    <3>3. lost' = {}
      BY <2>1, <2>2, <3>1, <3>2
    <3> QED
      BY <2>1, <3>3 DEF ExitInv, Idle
  <2>4. CASE conf.kind # "rq"
    <3>1. \A o \in lost' : o \in late \/ (o.bucket = "runtime" /\ o \in store["sampler"])
      BY <2>1, <2>2 DEF StoreInv
    <3>2. stage' = "gone" /\ Idle'
      BY <2>1, <2>4 DEF Idle
    <3> QED
      BY <2>1, <2>4, <3>1, <3>2 DEF ExitInv
  <2> QED
    BY <2>3, <2>4
<1>10. CASE UNCHANGED vars
  BY <1>10 DEF vars, ExitInv, Locked, Emptied, Idle, request, telemetry
<1> QED
  BY <1>1, <1>2, <1>3, <1>4, <1>5, <1>6, <1>7, <1>8, <1>9, <1>10
  DEF Next, Serve, Quiet

-----------------------------------------------------------------------------
IInv == /\ TypeInv /\ ConnectionInv /\ TimerInv /\ StoreInv /\ PlaceInv
        /\ ExitInv /\ RequestInv

(* The invariant of the worker process. *)
LEMMA WorkerInvariant == Spec => []IInv
<1>1. Init => IInv
  <2> SUFFICES ASSUME Init PROVE IInv
    OBVIOUS
  <2> USE DEF Init
  <2>1. TypeInv
    BY DEF TypeInv, Phases, Connections, NoConnection, Stages
  <2>2. Served = {} /\ Kept = {}
    BY DEF Served, Kept
  <2>3. ConnectionInv
    BY DEF ConnectionInv, NoConnection
  <2>4. TimerInv /\ RequestInv
    BY <2>2 DEF TimerInv, RequestInv
  <2>5. StoreInv /\ PlaceInv
    BY DEF StoreInv, PlaceInv, Actors
  <2>6. ExitInv
    BY DEF ExitInv, Locked, Emptied, Idle
  <2> QED
    BY <2>1, <2>3, <2>4, <2>5, <2>6 DEF IInv
<1>2. IInv /\ [Next]_vars => IInv'
  BY TypeStep, ConnectionStep, TimerStep, StoreStep, PlaceStep, ExitStep, RequestStep
  DEF IInv
<1> QED
  BY <1>1, <1>2, PTL DEF Spec

(* Each duration recorded is that of its own request, and no timer is left *)
(* behind, however many threads share the sampler.                         *)
THEOREM DurationsAreOwn == Spec => []OwnDurations
<1>1. IInv => OwnDurations
  BY DEF IInv, TimerInv, OwnDurations, Kept
<1> QED
  BY <1>1, WorkerInvariant, PTL

(* A connection given up after an error never becomes the kept one again.  *)
THEOREM FailedConnectionsStayDropped == Spec => []FailedConnectionDropped
<1>1. IInv => FailedConnectionDropped
  BY DEF IInv, ConnectionInv, FailedConnectionDropped
<1> QED
  BY <1>1, WorkerInvariant, PTL

(* A process that goes takes nothing with it but what was put after the    *)
(* last empty and what the sampler was saving; an RQ worker takes nothing. *)
THEOREM ExitLosesOnlyLateSamples == Spec => []OnlyLateSamplesLost
<1>1. IInv => OnlyLateSamplesLost
  <2> SUFFICES ASSUME IInv PROVE OnlyLateSamplesLost
    OBVIOUS
  <2>1. /\ \A o \in lost : o \in late \/ (o.bucket = "runtime" /\ o \in store["sampler"])
        /\ conf.kind = "rq" => lost = {}
    BY DEF IInv, ExitInv
  <2>2. lost \cap files = {} /\ (UNION {buffer[b] : b \in Buckets}) \cap files = {}
    BY DEF IInv, PlaceInv
  <2>3. ASSUME stage = "gone", NEW k \in 1..requests, k \notin timers
        PROVE  \E o \in files \cup lost : o.bucket = "duration" /\ o.of = k
    <3>1. PICK o \in Kept : o.bucket = "duration" /\ o.of = k
      BY <2>3 DEF IInv, RequestInv
    <3>2. \A b \in Buckets : buffer[b] = {}
      BY <2>3 DEF IInv, ExitInv
    <3>3. \A t \in Threads : store[t] = {}
      BY <2>3 DEF IInv, ExitInv, StoreInv, Idle
    <3>4. store["main"] = {} /\ o \notin store["sampler"]
      BY <2>3, <3>1 DEF IInv, StoreInv
    <3> QED
      BY <3>1, <3>2, <3>3, <3>4 DEF Kept, Actors
  <2> QED
    BY <2>1, <2>2, <2>3 DEF OnlyLateSamplesLost
<1> QED
  BY <1>1, WorkerInvariant, PTL
=============================================================================
