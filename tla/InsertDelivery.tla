--------------------------- MODULE InsertDelivery ---------------------------
(***************************************************************************)
(* The way of a notification from the notify endpoint to the rows of the   *)
(* database: the reporter validates and filters its entities, the insert   *)
(* action is run on the spot or queued, and the translator groups the      *)
(* entities by service path and type, brings each type's columns up to     *)
(* date, inserts the rows in batches and, when a batch fails, stores the   *)
(* whole group once more as raw JSON.  Tasks run concurrently.             *)
(*                                                                         *)
(* An entity is known by its place in the notification, from the reporter  *)
(* to the rows; everything that follows keeps that order.                  *)
(* An entity has a type, at most one attribute besides its location and    *)
(* its address (see ValueMapping and Geocoding; the name "none" says it    *)
(* has no attribute left), `times`, the sources of a time index that can   *)
(* be parsed, by their place in time_index_priority_list, and `trouble`:   *)
(* what else of it makes the reporter reject the notification.             *)
(* The statements that keep table and metadata in step are one step here:  *)
(* SchemaSync has them one by one.  How RQ runs and retries a task is      *)
(* reduced to its outcome: WorkQueue has the registries.  The splitter may *)
(* cut the rows anywhere: CostSplitter shows where it does.                *)
(***************************************************************************)
EXTENDS Geocoding, Sequences, FiniteSetsExt

CONSTANTS
    Tasks,          \* notifications
    EntityTypes,
    AddressKeys,
    Column,         \* the column of each attribute name: its lower case
    NgsiTypes,      \* the types attributes are declared with, "none" for none
    Scenarios,      \* the deployments, and what each task is notified there
    MaxRetries      \* WQ_MAX_RETRIES

FaultKinds == {"redis", "connection", "down", "masked", "crash"}

Deployment == [backend : {"crate", "timescale"}, offload : BOOLEAN,
               recover : BOOLEAN, geocoding : {"off", "on", "cached"},
               faults : SUBSET FaultKinds]

(* An entity as Connexion lets it through, and a notification: the header  *)
(* names one service path or several.  A location that is given has a type *)
(* and a value, which is a geometry when it is said to be one.             *)
Attributes == [name : DOMAIN Column \cup {"none"}, declared : NgsiTypes, value : Kinds]
GivenLocations ==
    {l \in Attributes :
        /\ l.name = "location" /\ l.declared # "none"
        /\ l.value \notin {"null", "blank", "zerofrac", "object"}
        /\ l.declared \in GeoJsonTypes => l.value = "geojson"}
Addresses == [key : AddressKeys, form : {"dict", "text"}, parts : SUBSET STRING]
                \cup {NoAddress}
Entities == [type : EntityTypes, name : DOMAIN Column \cup {"none"},
             declared : NgsiTypes, value : Kinds,
             location : GivenLocations \cup {NoLocation}, address : Addresses, times : SUBSET Nat,
             trouble : {"none", "no type", "times", "location"}]
Notifications == [entities : Seq(Entities), paths : Seq(STRING) \ {<<>>}]

ASSUME RetriesAssumption == MaxRetries \in Nat
ASSUME ColumnAssumption == "location" \in DOMAIN Column
ASSUME NgsiTypesAssumption == {"none", "geo:point", "geo:json"} \subseteq NgsiTypes
ASSUME ScenariosAssumption ==
    \A s \in Scenarios :
        s.conf \in Deployment /\ \A t \in Tasks : s.notes[t] \subseteq Notifications

VARIABLES
    conf,       \* the deployment of this behaviour
    note,       \* the notifications: [entities, paths]
    status,     \* of the insert action of each notification
    stage,      \* what its run does next; "none" when it is not running
    here,       \* it runs in the web worker, not in a queue worker
    runs,       \* how often it was started
    payload,    \* the entities read so far, then those the reporter kept
    todo,       \* the entities of the groups its run has still to begin
    group,      \* the entities of the group it is at
    left,       \* those of the group whose rows are not in yet
    answer,     \* HTTP status of the notification's response
    geocache,   \* location of each address, NoLocation when it is not cached
    columns,    \* column types of each entity type's table
    rows,       \* history: the rows stored
    copies,     \* history: rows stored in full and raw, per entity
    struck      \* history: a fault struck the task

task == <<status, stage, here, runs, payload, todo, group, left, answer>>
store == <<columns, rows, copies>>
vars == <<conf, note, geocache, task, store, struck>>

Columns == {Column[n] : n \in DOMAIN Column}
Statuses == {"new", "rejected", "queued", "running", "finished", "failed"}
ColumnTypes == {"absent", "text", "boolean", "bigint", "real", "timestamp",
                "array", "object", "geometry"}
Stages == {"none", "begin", "prepare", "insert", "raw"}

-----------------------------------------------------------------------------
(* The reporter. *)

(* has_value: an attribute whose value is missing is given a null, and so  *)
(* is a blank one that is not text.                                        *)
IsText(t) == t = "Text" \/ t \notin SupportedTypes("timescale")
HasValue(e) ==
    e.value \notin {"null", "object"} /\ (e.value = "blank" => IsText(e.declared))
Validated(e) ==
    IF HasValue(e) \/ e.value = "object" THEN e ELSE [e EXCEPT !.value = "null"]

(* _filter_empty_entities: an integer or a truth value counts, zero and    *)
(* false included, anything else only when Python takes it for true.       *)
IsEmpty(e) ==
    /\ e.name = "none" \/ e.value \in {"null", "blank", "zerofrac", "object"}
    /\ e.location = NoLocation /\ e.address = NoAddress

(* _filter_no_type_no_value_entities: an attribute that has no type and no *)
(* value that Python takes for true is deleted.                            *)
Attribute(e) == [name |-> e.name, declared |-> e.declared, value |-> e.value]
Stripped(e) ==
    IF e.declared = "none" /\ e.value \in Falsy \cup {"object"}
    THEN [e EXCEPT !.name = "none"] ELSE e

(* select_time_index_value: the first source that parses, else the time of *)
(* the notification.                                                       *)
TimeIndex(e) ==
    IF e.times = {} THEN 0
    ELSE CHOOSE k \in e.times : \A j \in e.times : k <= j

(* add_location, with `told` the provider's answer, and what it caches.    *)
LocationOf(e, told) ==
    LET kind == KindOf(e.address)
        cached == IF kind \in {"none", "invalid"} THEN NoLocation
                                                  ELSE geocache[e.address.key]
    IN  IF e.location # NoLocation \/ conf.geocoding = "off" THEN e.location
        ELSE Located(kind, cached, told)
Cached(e, found) ==
    IF conf.geocoding # "cached" \/ e.location # NoLocation
         \/ found \in {NoLocation, Raises}
    THEN geocache ELSE [geocache EXCEPT ![e.address.key] = found]

(* What the provider may answer; it is asked nothing without geocoding.    *)
Replies == IF conf.geocoding = "off" THEN {"nothing"} ELSE Answers

(* The cache of locations raises out of notify when it cannot be reached.  *)
UsesCache(e) ==
    /\ conf.geocoding = "cached" /\ e.location = NoLocation
    /\ KindOf(e.address) \notin {"none", "invalid"}

Strike(t) == struck' = [struck EXCEPT ![t] = TRUE]

Reject(t, code) ==
    /\ status' = [status EXCEPT ![t] = "rejected"]
    /\ answer' = [answer EXCEPT ![t] = code]
    /\ payload' = [payload EXCEPT ![t] = <<>>]
    /\ UNCHANGED <<stage, here, runs, todo, group, left>>

Take(t, e) ==
    /\ payload' = [payload EXCEPT ![t] = Append(@, e)]
    /\ UNCHANGED <<status, stage, here, runs, todo, group, left, answer>>

Locate(t, e) ==
    \/ \E told \in Replies :
        LET found == LocationOf(e, told)
            location == Normalized(found, e.trouble = "location") IN
        /\ geocache' = Cached(e, found)
        /\ IF location = Raises THEN Reject(t, "500")
           ELSE Take(t, [Validated(e) EXCEPT !.location = location])
        /\ UNCHANGED struck
    \/ /\ UsesCache(e) /\ "redis" \in conf.faults
       /\ Reject(t, "500") /\ Strike(t)
       /\ UNCHANGED geocache

(* The first loop of notify takes the entities one after the other, other  *)
(* requests at work in between, and stops at the first that is incomplete, *)
(* whose times cannot be compared or whose location raises.                *)
Read(t) ==
    /\ status[t] = "new" /\ Len(payload[t]) < Len(note[t].entities)
    /\ LET e == note[t].entities[Len(payload[t]) + 1] IN
       \/ e.trouble \notin {"no type", "times"} /\ Locate(t, e)
       \/ /\ e.trouble \in {"no type", "times"}
          /\ Reject(t, IF e.trouble = "no type" THEN "400" ELSE "500")
          /\ UNCHANGED <<geocache, struck>>
    /\ UNCHANGED <<conf, note, store>>

(* The second loop: what notify hands to the insert action.                *)
Entry(e) == [type |-> e.type, attr |-> Attribute(Stripped(e)),
             location |-> e.location, tix |-> TimeIndex(e)]
Reported(t) ==
    LET read == payload[t] IN
    [i \in {i \in DOMAIN read : ~IsEmpty(read[i])} |-> Entry(read[i])]

RunHere(t) ==
    /\ status' = [status EXCEPT ![t] = "running"]
    /\ stage' = [stage EXCEPT ![t] = "begin"]
    /\ here' = [here EXCEPT ![t] = TRUE]
    /\ runs' = [runs EXCEPT ![t] = @ + 1]
    /\ payload' = [payload EXCEPT ![t] = Reported(t)]
    /\ UNCHANGED <<todo, group, left, answer>>

Enqueue(t) ==
    /\ status' = [status EXCEPT ![t] = "queued"]
    /\ answer' = [answer EXCEPT ![t] = "200"]
    /\ payload' = [payload EXCEPT ![t] = Reported(t)]
    /\ UNCHANGED <<stage, here, runs, todo, group, left>>

(* A queue that cannot be reached makes notify run the action itself or    *)
(* answer 500.                                                             *)
Notify(t) ==
    /\ status[t] = "new" /\ Len(payload[t]) = Len(note[t].entities)
    /\ \/ ~conf.offload /\ RunHere(t) /\ UNCHANGED struck
       \/ conf.offload /\ Enqueue(t) /\ UNCHANGED struck
       \/ /\ conf.offload /\ "redis" \in conf.faults
          /\ IF conf.recover THEN RunHere(t) ELSE Reject(t, "500")
          /\ Strike(t)
    /\ UNCHANGED <<conf, note, geocache, store>>

-----------------------------------------------------------------------------
(* The insert action: how a run ends. *)

Leave(t, s, code) ==
    /\ status' = [status EXCEPT ![t] = s]
    /\ stage' = [stage EXCEPT ![t] = "none"]
    /\ left' = [left EXCEPT ![t] = {}]
    /\ todo' = [todo EXCEPT ![t] = {}]
    /\ group' = [group EXCEPT ![t] = {}]
    /\ answer' = [answer EXCEPT ![t] = IF here[t] THEN code ELSE @]
    /\ UNCHANGED <<here, runs, payload>>

CanRetry(t) == ~here[t] /\ runs[t] <= MaxRetries

(* _handle_exception: only a transient error is tried again, and only by a *)
(* worker; notify tells a wrong header only when it ran the action itself. *)
Fail(t, kind) ==
    Leave(t, IF kind = "transient" /\ CanRetry(t) THEN "queued" ELSE "failed",
          IF kind = "header" /\ ~conf.offload THEN "400" ELSE "500")

Running(t, s) == status[t] = "running" /\ stage[t] = s

(* A statement or the connect loses the connection and the run ends.       *)
LoseConnection(t) ==
    /\ {"connection", "down"} \cap conf.faults # {}
    /\ Fail(t, "transient") /\ Strike(t)
    /\ UNCHANGED <<conf, note, geocache, store>>

(* A worker is killed, and RQ retries the task or files it as failed; a    *)
(* web worker is killed, and there is no response.                         *)
Crash(t) ==
    /\ status[t] = "running" /\ "crash" \in conf.faults
    /\ Leave(t, IF CanRetry(t) THEN "queued" ELSE "failed", "none")
    /\ Strike(t)
    /\ UNCHANGED <<conf, note, geocache, store>>

Work(t) ==
    /\ status[t] = "queued"
    /\ status' = [status EXCEPT ![t] = "running"]
    /\ stage' = [stage EXCEPT ![t] = "begin"]
    /\ runs' = [runs EXCEPT ![t] = @ + 1]
    /\ UNCHANGED <<conf, note, geocache, here, payload, todo, group, left, answer, store, struck>>

-----------------------------------------------------------------------------
(* SQLTranslator.insert: the n-th entity of the payload is stored under the*)
(* n-th path, unless there is just one.                                    *)
PathOf(t, i) ==
    LET paths == note[t].paths
        n == Cardinality({j \in DOMAIN payload[t] : j <= i})
    IN  IF Len(paths) = 1 THEN paths[1] ELSE paths[n]

(* The entities are grouped by path and then by type, the paths and the    *)
(* types of each in the order of first appearance.                         *)
OnPath(t, i) == {j \in DOMAIN payload[t] : PathOf(t, j) = PathOf(t, i)}
GroupOf(t, i) == {j \in OnPath(t, i) : payload[t][j].type = payload[t][i].type}
Precedes(t, i, j) ==
    IF OnPath(t, i) = OnPath(t, j) THEN i <= j
    ELSE Min(OnPath(t, i)) < Min(OnPath(t, j))
FirstGroup(t, entities) ==
    GroupOf(t, CHOOSE i \in entities : \A j \in entities : Precedes(t, i, j))

(* Mutants: more paths than entities are taken; the last group is never    *)
(* left.                                                                   *)
HeaderCovers(t) ==
    Len(note[t].paths) = 1 \/ Len(note[t].paths) >= Cardinality(DOMAIN payload[t])
EnterAnother(t, others) ==
    /\ others # {}
    /\ todo' = [todo EXCEPT ![t] = others \ FirstGroup(t, others)]
    /\ group' = [group EXCEPT ![t] = FirstGroup(t, others)]
    /\ stage' = [stage EXCEPT ![t] = "prepare"]
    /\ left' = [left EXCEPT ![t] = {}]
    /\ UNCHANGED <<status, here, runs, payload, answer>>

HeaderFits(t) == Len(note[t].paths) \in {1, Cardinality(DOMAIN payload[t])}

(* The next group is begun, or the run is over. *)
Enter(t, others) ==
    IF others = {} THEN Leave(t, "finished", "200")
    ELSE /\ todo' = [todo EXCEPT ![t] = others \ FirstGroup(t, others)]
         /\ group' = [group EXCEPT ![t] = FirstGroup(t, others)]
         /\ stage' = [stage EXCEPT ![t] = "prepare"]
         /\ left' = [left EXCEPT ![t] = {}]
         /\ UNCHANGED <<status, here, runs, payload, answer>>

Begin(t) ==
    /\ Running(t, "begin")
    /\ \/ LoseConnection(t)
       \/ /\ ~HeaderFits(t) /\ Fail(t, "header")
          /\ UNCHANGED <<conf, note, geocache, store, struck>>
       \/ /\ HeaderFits(t) /\ Enter(t, DOMAIN payload[t])
          /\ UNCHANGED <<conf, note, geocache, store, struck>>

-----------------------------------------------------------------------------
(* _insert_entities_of_type *)

(* What all entities of the group have in common. *)
Table(t) == payload[t][Min(group[t])].type
Path(t) == PathOf(t, Min(group[t]))

(* The attributes of an entity that the rows keep.                         *)
Slots == {"attr", "location"}

(* The attribute that was recorded for column c: the loop overwrites       *)
(* original_attrs[c] and table[c], so the last one wins for all rows.      *)
IsOf(a, c) == a.name # "none" /\ Column[a.name] = c
Recorded(t, c) ==
    LET p == payload[t]
        from == {i \in group[t] : \E s \in Slots : IsOf(p[i][s], c)}
        last == {i \in from : \A j \in from : j <= i}
    IN  {a \in {p[i][s] : i \in last, s \in Slots} : IsOf(a, c)}

(* The value a row has for an attribute of its entity: looked up by the    *)
(* recorded name, a KeyError counts as a missing value.                    *)
RowValue(t, i, s) ==
    LET a == payload[t][i][s] IN
    IF a.name = "none" THEN "null"
    ELSE CHOOSE v \in {IF r.name = a.name THEN DbValue(conf.backend, AttrType(r), a)
                                          ELSE "null" :
                       r \in Recorded(t, Column[a.name])} : TRUE

RowColumn(t, i, s) ==
    LET a == payload[t][i][s] IN
    IF a.name = "none" THEN "text" ELSE columns[Table(t)][Column[a.name]]

(* Crate is sent a batch as JSON, which has no infinity.                   *)
Unsendable(t, i) ==
    conf.backend = "crate" /\ \E s \in Slots : RowValue(t, i, s) = "infinite"
RowFits(t, i) ==
    /\ ~Unsendable(t, i)
    /\ \A s \in Slots : Fits(RowColumn(t, i, s), RowValue(t, i, s))

(* Columns the table lacks get the type the batch computed for them.       *)
CreatedType(t, c) ==
    CHOOSE k \in {ColumnType(conf.backend, AttrType(a), a) : a \in Recorded(t, c)} : TRUE
ExtendedTable(t, old) ==
    [c \in Columns |-> IF old[c] = "absent" /\ Recorded(t, c) # {}
                       THEN CreatedType(t, c) ELSE old[c]]

(* An attribute must not have the name of the column for raw JSON.  The    *)
(* table is brought up to date, then the rows are built.                   *)
Reserved == "__original_ngsi_entity__"
NamesReserved(t) == \E i \in group[t] : payload[t][i].attr.name = Reserved

Prepare(t) ==
    /\ Running(t, "prepare")
    /\ \/ /\ NamesReserved(t) /\ Fail(t, "permanent")
          /\ UNCHANGED <<conf, note, geocache, store, struck>>
       \/ ~NamesReserved(t) /\ LoseConnection(t)
       \/ /\ ~NamesReserved(t)
          /\ columns' = [columns EXCEPT ![Table(t)] = ExtendedTable(t, @)]
          /\ IF \E i \in group[t], s \in Slots : RowValue(t, i, s) = "raises"
             THEN Fail(t, "permanent")
             ELSE /\ stage' = [stage EXCEPT ![t] = "insert"]
                  /\ left' = [left EXCEPT ![t] = group[t]]
                  /\ UNCHANGED <<status, here, runs, payload, todo, group, answer>>
          /\ UNCHANGED <<conf, note, geocache, rows, copies, struck>>

(* A row as stored, with the run that drew its instance id, a fresh UUID   *)
(* for each entity; raw ones have none, the time of the failure, no service*)
(* path and nothing but the entity's JSON.                                 *)
FullRowTimedNow(t, i) ==    \* mutant: the time index is chosen by insert
    [task |-> t, ent |-> i, form |-> "full", instance |-> runs[t],
     table |-> Table(t), path |-> Path(t),
     tix |-> IF payload[t][i].tix = 0 THEN 0 - runs[t] ELSE payload[t][i].tix,
     value |-> RowValue(t, i, "attr"), place |-> RowValue(t, i, "location")]
FullRow(t, i) ==
    [task |-> t, ent |-> i, form |-> "full", instance |-> runs[t],
     table |-> Table(t), path |-> Path(t), tix |-> payload[t][i].tix,
     value |-> RowValue(t, i, "attr"), place |-> RowValue(t, i, "location")]
RawRow(t, i) ==
    [task |-> t, ent |-> i, form |-> "raw", instance |-> 0,
     table |-> Table(t), path |-> "none", tix |-> -1,
     value |-> "json", place |-> "null"]

OneMore(count, form) == [count EXCEPT ![form] = @ + 1]
StoreRows(t, entities, new, form) ==
    /\ rows' = rows \cup new
    /\ copies' = [copies EXCEPT ![t] = [i \in DOMAIN @ |->
                    IF i \in entities THEN OneMore(@[i], form) ELSE @[i]]]
    /\ UNCHANGED columns
StoreFull(t, entities) ==
    StoreRows(t, entities, {FullRow(t, i) : i \in entities}, "full")
StoreRaw(t, entities) ==
    StoreRows(t, entities, {RawRow(t, i) : i \in entities}, "raw")

RaiseInstead(t) == Fail(t, "permanent")     \* mutant: no raw rows
ToRawKeepingRows(t) ==      \* mutant: the batches go on after the raw rows
    /\ stage' = [stage EXCEPT ![t] = "raw"]
    /\ UNCHANGED <<status, here, runs, payload, todo, group, left, answer>>
ToRaw(t) ==
    /\ stage' = [stage EXCEPT ![t] = "raw"]
    /\ left' = [left EXCEPT ![t] = {}]
    /\ UNCHANGED <<status, here, runs, payload, todo, group, answer>>

(* executemany with the rows of a batch: Crate goes through all of them if *)
(* it can read the statement, pg8000 stops at the first error; nothing is  *)
(* rolled back.                                                            *)
Before(bad, entities) == {i \in entities : \A b \in bad : i < b}
Inserted(t, batch) ==
    LET bad == {i \in batch : ~RowFits(t, i)} IN
    CASE conf.backend = "timescale" -> Before(bad, batch)
      [] conf.backend = "crate" ->
            IF \E i \in batch : Unsendable(t, i) THEN {} ELSE batch \ bad

InsertBatch(t, batch, rest) ==
    /\ StoreFull(t, Inserted(t, batch))
    /\ IF \E i \in batch : ~RowFits(t, i) THEN ToRaw(t)
       ELSE IF rest = {} THEN Enter(t, todo[t])
       ELSE /\ left' = [left EXCEPT ![t] = rest]
            /\ UNCHANGED <<status, stage, here, runs, payload, todo, group, answer>>
    /\ UNCHANGED struck

(* The connection is lost when some rows were stored already.  The handler *)
(* opens a new one or raises in turn ("down"); Crate then goes on to the   *)
(* raw rows, Timescale only if the error was wrapped in a ProgrammingError *)
(* ("masked").                                                             *)
ShouldInsertRaw(kind) ==
    \/ kind = "masked"
    \/ kind = "connection" /\ conf.backend = "crate"

UpTo(last, entities) == {i \in entities : i <= last}

BreakBatch(t, batch, kind) ==
    /\ kind \in conf.faults \cap {"connection", "down", "masked"}
    /\ kind = "masked" => conf.backend = "timescale"
    /\ \E last \in {0} \cup batch : StoreFull(t, UpTo(last, Inserted(t, batch)))
    /\ IF ShouldInsertRaw(kind) THEN ToRaw(t) ELSE Fail(t, "transient")
    /\ Strike(t)

InsertRowsAgain(t) ==       \* mutant: a batch starts with the last row in
    /\ Running(t, "insert")
    /\ \E cut \in left[t] :
        LET batch == UpTo(cut, left[t])
            rest == {i \in left[t] : i >= cut /\ (i = cut => cut > Min(left[t]))} IN
        \/ InsertBatch(t, batch, rest)
        \/ \E kind \in FaultKinds : BreakBatch(t, batch, kind)
    /\ UNCHANGED <<conf, note, geocache>>
InsertRows(t) ==
    /\ Running(t, "insert")
    /\ \E cut \in left[t] :
        LET batch == UpTo(cut, left[t]) IN
        \/ InsertBatch(t, batch, left[t] \ batch)
        \/ \E kind \in FaultKinds : BreakBatch(t, batch, kind)
    /\ UNCHANGED <<conf, note, geocache>>

(* Mutant: insert returns once raw rows were stored.                       *)
StopAfterRaw(t) ==
    /\ Running(t, "raw")
    /\ StoreRaw(t, group[t])
    /\ Leave(t, "finished", "200")
    /\ UNCHANGED <<conf, note, geocache, struck>>

(* All entities of the group, those of the batches that succeeded too; an  *)
(* error here is raised as it is, whatever was stored before it.  The JSON *)
(* of an infinity is refused by Timescale; Crate stores it in a string.    *)
Unwritable(t) ==
    {i \in group[t] : \E s \in Slots :
        conf.backend = "timescale" /\ payload[t][i][s].name # "none"
          /\ payload[t][i][s].value = "infinite"}

InsertRaw(t) ==
    /\ Running(t, "raw")
    /\ LET written == Before(Unwritable(t), group[t]) IN
       \/ /\ Unwritable(t) = {}
          /\ StoreRaw(t, group[t]) /\ Enter(t, todo[t]) /\ UNCHANGED struck
       \/ /\ Unwritable(t) # {}
          /\ StoreRaw(t, written) /\ Fail(t, "permanent") /\ UNCHANGED struck
       \/ /\ {"connection", "down"} \cap conf.faults # {}
          /\ \E last \in {0} \cup group[t] : StoreRaw(t, UpTo(last, written))
          /\ Fail(t, "transient") /\ Strike(t)
    /\ UNCHANGED <<conf, note, geocache>>

-----------------------------------------------------------------------------
Init ==
    /\ \E s \in Scenarios :
        /\ conf = s.conf
        /\ note \in {n \in [Tasks -> (UNION {s.notes[t] : t \in Tasks})] :
                        \A t \in Tasks : n[t] \in s.notes[t]}
    /\ status = [t \in Tasks |-> "new"]
    /\ stage = [t \in Tasks |-> "none"]
    /\ here = [t \in Tasks |-> FALSE]
    /\ runs = [t \in Tasks |-> 0]
    /\ payload = [t \in Tasks |-> <<>>]
    /\ todo = [t \in Tasks |-> {}]
    /\ group = [t \in Tasks |-> {}]
    /\ left = [t \in Tasks |-> {}]
    /\ answer = [t \in Tasks |-> "none"]
    /\ geocache = [k \in AddressKeys |-> NoLocation]
    /\ columns = [e \in EntityTypes |-> [c \in Columns |-> "absent"]]
    /\ rows = {}
    /\ copies = [t \in Tasks |-> [e \in DOMAIN note[t].entities |->
                                    [full |-> 0, raw |-> 0]]]
    /\ struck = [t \in Tasks |-> FALSE]

Run(t) == Begin(t) \/ Prepare(t) \/ InsertRows(t) \/ InsertRaw(t)

Next == \E t \in Tasks : Read(t) \/ Notify(t) \/ Work(t) \/ Run(t) \/ Crash(t)

(* As long as a task can be taken or a run can go on, one is or does.      *)
Spec == Init /\ [][Next]_vars /\ WF_vars(\E t \in Tasks : Work(t) \/ Run(t))

-----------------------------------------------------------------------------
(* Properties. *)

TypeOK ==
    /\ status \in [Tasks -> Statuses] /\ stage \in [Tasks -> Stages]
    /\ here \in [Tasks -> BOOLEAN] /\ struck \in [Tasks -> BOOLEAN]
    /\ answer \in [Tasks -> {"none", "200", "400", "500"}]
    /\ \A t \in Tasks :
        /\ runs[t] \in 0..(MaxRetries + 1)
        /\ stage[t] # "none" <=> status[t] = "running"
        /\ stage[t] \in {"none", "begin"} <=> group[t] = {}
        /\ stage[t] = "insert" <=> left[t] # {}
        /\ stage[t] = "insert" =>
            left[t] \subseteq group[t] /\ \A i \in group[t] \ left[t], j \in left[t] : i < j
    /\ \A e \in EntityTypes, c \in Columns :
        columns[e][c] \in ColumnTypes

Due(t) == DOMAIN payload[t]
Stored(t) == {e \in DOMAIN copies[t] : copies[t][e].full + copies[t][e].raw > 0}

(* An insert that no fault struck can fail only because the header does not*)
(* match, because of a simple location or (on Timescale) a GeoJSON one that*)
(* cannot be encoded, a number out of range, or the reserved name.  A value*)
(* the database rejects, of its own or because another entity or an earlier*)
(* notification fixed the column's type, never makes it fail: it ends up as*)
(* raw JSON instead (_insert_entity_rows, _should_insert_original_entities)*)
Brought(t) == {a \in {payload[t][i][s] : i \in Due(t), s \in Slots} : a.name # "none"}
Unparsable(t) == \E a \in Brought(t) : a.declared \in SlfTypes /\ ~SlfParses(a)
Shapeless(t) ==
    conf.backend = "timescale" /\ \E a, b \in Brought(t) :
        a.declared \in GeoJsonTypes /\ b.name = a.name /\ b.value # "geojson"
OutOfRange(t) == \E a \in Brought(t) : a.value \in {"huge", "hugenumeral", "infinite"}
UsesReserved(t) == \E a \in Brought(t) : a.name = Reserved
FailuresHaveACause ==
    \A t \in Tasks : status[t] = "failed" =>
        struck[t] \/ ~HeaderFits(t)
          \/ Unparsable(t) \/ Shapeless(t) \/ OutOfRange(t) \/ UsesReserved(t)

(* A run stores an entity at most once in full and at most once as raw     *)
(* JSON, whatever fails in it and wherever the batches are cut, so copies  *)
(* are bounded by the runs of the task.                                    *)
CopiesWithinRuns ==
    \A t \in Tasks : \A e \in DOMAIN copies[t] :
        copies[t][e].full <= runs[t] /\ copies[t][e].raw <= runs[t]

(* A notification with a service path for each of its entities has every   *)
(* full row stored under the path given for its entity, and in its type's  *)
(* table, although the reporter drops entities before insert pairs them    *)
(* with the paths.                                                         *)
RowsUnderOwnPath ==
    \A r \in rows :
        /\ r.table = note[r.task].entities[r.ent].type
        /\ /\ r.form = "full"
           /\ Len(note[r.task].paths) = Len(note[r.task].entities)
           => r.path = note[r.task].paths[r.ent]

(* Retries of a task store an entity's row again, the same but for the     *)
(* instance id, which every run draws anew: the payload that was queued    *)
(* holds the time index, and neither the other notifications stored in     *)
(* between nor the place where an earlier run stopped changes a value.     *)
RetriesStoreTheSameRow ==
    \A r, q \in rows :
        /\ r.task = q.task /\ r.ent = q.ent
        /\ r.form = "full" /\ q.form = "full"
        => q = [r EXCEPT !.instance = q.instance]

(* A value that a notification brings and that fits its declared type is   *)
(* stored when the task is finished, and no full row of its entity is      *)
(* without it, provided that the entities of that type which the reporter  *)
(* keeps agree on the attribute's name and type, and that the reporter does*)
(* not filter it out: an attribute without a type whose value Python takes *)
(* for false (zero and false included) is deleted, and an entity that has  *)
(* nothing but an empty text, a 0.0 or the object of a relationship is     *)
(* dropped.  So is a location, the one it brings or the one found for its  *)
(* address.                                                                *)
Sent(t, i) == Attribute(note[t].entities[i])
FilteredOut(e) ==
    \/ e.declared = "none" /\ e.value \in Falsy
    \/ /\ e.value \in {"blank", "zerofrac", "object"}
       /\ e.location = NoLocation /\ e.address = NoAddress
Told(t, i) ==
    LET e == note[t].entities[i] IN
    {l \in {GeoJson, GeoPoint} :
        \/ l = GeoJson /\ (IsReadable(e.location) \/ e.location.declared \in GeoJsonTypes)
        \/ i \in Due(t) /\ payload[t][i].location = l}
Uniform(t, type, a) ==
    \A j \in Due(t), q \in Slots :
        LET b == payload[t][j][q] IN
        payload[t][j].type = type /\ IsOf(b, Column[a.name])
        => b.name = a.name /\ AttrType(b) = AttrType(a)
FullRows(t, i) == {r \in rows : r.task = t /\ r.ent = i /\ r.form = "full"}
ConformingValueKept ==
    \A t \in Tasks : status[t] \notin {"new", "rejected"} =>
        \A i \in DOMAIN note[t].entities :
            LET e == note[t].entities[i]
                done == status[t] = "finished" => i \in Stored(t)
            IN  /\ e.name # "none" /\ Conforms(Sent(t, i)) /\ ~FilteredOut(e)
                     /\ Uniform(t, e.type, Sent(t, i))
                   => done /\ \A r \in FullRows(t, i) : r.value # "null"
                /\ \A l \in Told(t, i) : Uniform(t, e.type, l)
                   => done /\ \A r \in FullRows(t, i) : r.place # "null"

(* Every accepted notification is delivered or given up, never reported as *)
(* done while an entity of it is missing, and one that is refused left no  *)
(* row behind.                                                             *)
Places == UNION {DOMAIN n.entities :
                    n \in (UNION {s.notes[t] : s \in Scenarios, t \in Tasks})}
StateOf(t) ==
    CASE status[t] = "new" -> "new"
      [] status[t] = "rejected" -> "refused"
      [] status[t] \in {"queued", "running"} -> "pending"
      [] status[t] = "finished" -> "done"
      [] status[t] = "failed" ->
            IF answer[t] = "400" THEN "refused" ELSE "lost"
DueOf(t) == IF status[t] \in {"new", "rejected"} THEN {} ELSE Due(t)
StateMap == [t \in Tasks |-> StateOf(t)]
DueMap == [t \in Tasks |-> DueOf(t)]
StoredMap == [t \in Tasks |-> Stored(t)]
Abstract == INSTANCE Delivery WITH
    Entities <- Places, state <- StateMap, due <- DueMap, delivered <- StoredMap
DeliveryRefined == Abstract!DeliverySpec

(* Whatever fails, a task is finished or failed in the end.                *)
EventuallySettles ==
    \A t \in Tasks :
        status[t] \in {"queued", "running"} ~> status[t] \in {"finished", "failed"}
=============================================================================
