----------------------------- MODULE SchemaSync -----------------------------
(***************************************************************************)
(* How the SQL translators keep three copies of one entity type's schema   *)
(* in step: the columns of its data table, its row of the metadata table   *)
(* METADATA_TABLE_NAME, and the copy of that row in the Redis query cache. *)
(*                                                                         *)
(* Several web workers and task workers (Procs) run insert, drop_table and *)
(* delete_entities on the same entity type.  Every SQL statement and every *)
(* cache call is one step, so all interleavings of them are behaviours;    *)
(* both databases run in autocommit, there is no transaction to model.     *)
(*                                                                         *)
(* Columns are named by Keys == Base \cup Attrs: Base are the columns every*)
(* entity has, Attrs the optional ones.  The empty set stands for "no data *)
(* table" (cols), "no row" (md) and "not cached" (cachedMd).               *)
(***************************************************************************)
EXTENDS Naturals, FiniteSets

CONSTANTS
    Procs,      \* workers that serve requests on this entity type
    Attrs,      \* attributes an entity may or may not carry
    Base,       \* entity_type, entity_id and the time index
    Deployments,    \* where the workers may run, see Deployment
    MaxOps      \* bound: operations begun in a behaviour

FaultKinds == {"transient", "down", "crash", "cache"}

(* The database, whether a Redis query cache is configured, and the faults *)
(* that may strike.                                                        *)
Deployment == [backend : {"crate", "timescale"}, cacheOn : BOOLEAN,
               faults : SUBSET FaultKinds]

ASSUME DeploymentsAssumption == Deployments \subseteq Deployment
ASSUME KeysAssumption == Base # {} /\ Base \cap Attrs = {}
ASSUME BoundAssumption == MaxOps \in Nat

Keys == Base \cup Attrs

Phases == {"idle", "flag", "mkmd", "putflag", "lookup", "select", "remake",
           "fill", "store", "publish", "create", "alter", "insert", "raw",
           "drop", "unlist", "uncache", "purge"}

VARIABLES
    conf,       \* the deployment of this behaviour
    mdTable,    \* does the metadata table exist
    md,         \* column names in this type's metadata row
    cols,       \* columns of the data table
    filled,     \* columns in which some row has a value
    flag,       \* METADATA_TABLE_NAME is a key of the cache hash
    cachedMd,   \* the metadata row as the cache has it
    pc,         \* what each process does next
    keys,       \* original_attrs.keys() of the insert it runs
    known,      \* its persisted_metadata
    todo,       \* its diff: columns its DDL still has to create
    outcome,    \* how its last operation ended; "none" while it runs one
    ops,        \* operations begun (bounded by MaxOps)
    lost        \* history: columns whose DDL was abandoned or undone

store == <<mdTable, md, cols, filled>>
cache == <<flag, cachedMd>>
local == <<keys, known, todo>>
vars == <<conf, store, cache, pc, local, outcome, ops, lost>>

Outcomes == {"none", "stored", "raw", "error", "done", "crashed"}

TypeOK ==
    /\ conf \in Deployments
    /\ mdTable \in BOOLEAN /\ flag \in BOOLEAN
    /\ md \subseteq Keys /\ cols \subseteq Keys /\ filled \subseteq cols
    /\ cachedMd \subseteq Keys /\ lost \subseteq Keys \ cols
    /\ pc \in [Procs -> Phases]
    /\ keys \in [Procs -> SUBSET Keys]
    /\ known \in [Procs -> SUBSET Keys]
    /\ todo \in [Procs -> SUBSET Keys]
    /\ outcome \in [Procs -> Outcomes]
    /\ ops \in Nat

Init ==
    /\ conf \in Deployments
    /\ mdTable = FALSE /\ md = {} /\ cols = {} /\ filled = {}
    /\ flag = FALSE /\ cachedMd = {}
    /\ pc = [p \in Procs |-> "idle"]
    /\ keys = [p \in Procs |-> {}]
    /\ known = [p \in Procs |-> {}]
    /\ todo = [p \in Procs |-> {}]
    /\ outcome = [p \in Procs |-> "none"]
    /\ ops = 0 /\ lost = {}

-----------------------------------------------------------------------------
(* Steps and faults. *)

Goto(p, phase) == pc' = [pc EXCEPT ![p] = phase]

(* The operation of p ends and its local variables go out of scope. *)
End(p, result) ==
    /\ Goto(p, "idle")
    /\ outcome' = [outcome EXCEPT ![p] = result]
    /\ keys' = [keys EXCEPT ![p] = {}]
    /\ known' = [known EXCEPT ![p] = {}]
    /\ todo' = [todo EXCEPT ![p] = {}]

Continue(p, phase) == Goto(p, phase) /\ UNCHANGED <<local, outcome>>

CacheFault == "cache" \in conf.faults   \* Redis raises: caught, logged, ignored

(* A statement fails with a connection error; sql_error_handler then opens *)
(* a new connection ("transient") or its setup() raises too ("down").      *)
ConnectionError(kind) == kind \in {"transient", "down"} \cap conf.faults

(* with_connection_guard, which only the Timescale translator puts around  *)
(* its DDL and metadata statements, swallows what failed unless the        *)
(* handler itself raises; kind "sql" is an error that lost no connection.  *)
Swallowed(kind) == conf.backend = "timescale" /\ kind # "down"
FailedStatement(p, kind, next) ==
    IF Swallowed(kind) THEN Continue(p, next) ELSE End(p, "error")

-----------------------------------------------------------------------------
(* insert: bring the metadata row up to date, then the table, then insert. *)

BeginInsert(p, attrs) ==
    /\ pc[p] = "idle" /\ ops < MaxOps
    /\ ops' = ops + 1
    /\ keys' = [keys EXCEPT ![p] = Base \cup attrs]
    /\ Goto(p, "flag")
    /\ outcome' = [outcome EXCEPT ![p] = "none"]
    /\ UNCHANGED <<store, cache, known, todo, lost>>

IsMetadataTableCached(p) ==
    /\ pc[p] = "flag"
    /\ \/ conf.cacheOn /\ flag /\ Continue(p, "lookup")
       \/ (~conf.cacheOn \/ ~flag \/ CacheFault) /\ Continue(p, "mkmd")
    /\ UNCHANGED <<store, cache, ops, lost>>

(* _create_metadata_table, first called unless the flag is cached and      *)
(* again ("remake") after the metadata query failed.                       *)
CreateMetadataTable(p) ==
    LET next == IF pc[p] = "mkmd" THEN "putflag" ELSE "store" IN
    /\ pc[p] \in {"mkmd", "remake"}
    /\ \/ mdTable' = TRUE /\ Continue(p, next)
       \/ \E kind \in {"transient", "down"} :
            /\ ConnectionError(kind)
            /\ mdTable' \in {mdTable, TRUE}
            /\ FailedStatement(p, kind, next)
    /\ UNCHANGED <<md, cols, filled, cache, ops, lost>>

CacheFlag(p) ==
    /\ pc[p] = "putflag"
    /\ \/ flag' = conf.cacheOn
       \/ CacheFault /\ UNCHANGED flag
    /\ Continue(p, "lookup")
    /\ UNCHANGED <<store, cachedMd, ops, lost>>

(* Mutant: one known column is taken for all of them.                      *)
AnyKnown(p, m) == IF keys[p] \cap m # {} THEN "insert" ELSE "store"

AfterMetadata(p, m) == IF keys[p] \subseteq m THEN "insert" ELSE "store"

LookupMetadata(p) ==
    /\ pc[p] = "lookup"
    /\ \/ /\ conf.cacheOn /\ cachedMd # {}
          /\ known' = [known EXCEPT ![p] = cachedMd]
          /\ Goto(p, AfterMetadata(p, cachedMd))
       \/ /\ ~conf.cacheOn \/ cachedMd = {} \/ CacheFault
          /\ Goto(p, "select")
          /\ UNCHANGED known
    /\ UNCHANGED <<store, cache, keys, todo, outcome, ops, lost>>

(* Any failure of the query is taken for a missing metadata table: it is   *)
(* created again and the row counts as empty.                              *)
SelectMetadata(p) ==
    /\ pc[p] = "select"
    /\ \/ /\ mdTable /\ md # {}
          /\ known' = [known EXCEPT ![p] = md]
          /\ Goto(p, "fill")
          /\ UNCHANGED <<keys, todo, outcome>>
       \/ mdTable /\ md = {} /\ Continue(p, "store")
       \/ (~mdTable \/ ConnectionError("transient")) /\ Continue(p, "remake")
       \/ ConnectionError("down") /\ End(p, "error")
    /\ UNCHANGED <<store, cache, ops, lost>>

PutMetadata(p) == \/ cachedMd' = IF conf.cacheOn THEN known[p] ELSE {}
                  \/ CacheFault /\ UNCHANGED cachedMd

FillCache(p) ==
    /\ pc[p] = "fill"
    /\ PutMetadata(p)
    /\ Continue(p, AfterMetadata(p, known[p]))
    /\ UNCHANGED <<store, flag, ops, lost>>

(* Mutant: the row is replaced, not updated.                               *)
StoreOwnKeys(p) ==
    /\ pc[p] = "store" /\ mdTable
    /\ md' = keys[p]
    /\ Goto(p, "publish")
    /\ known' = [known EXCEPT ![p] = keys[p]]
    /\ todo' = [todo EXCEPT ![p] = keys[p] \ known[p]]
    /\ lost' = lost \ todo'[p]
    /\ UNCHANGED <<mdTable, cols, filled, cache, keys, outcome, ops>>

(* _store_metadata writes the whole row back: what this process read plus  *)
(* its own keys.  From here to the end of its DDL it owes columns todo.    *)
StoreMetadata(p) ==
    LET row == known[p] \cup keys[p]
        diff == keys[p] \ known[p]
        goOn == /\ Goto(p, "publish")
                /\ known' = [known EXCEPT ![p] = row]
                /\ todo' = [todo EXCEPT ![p] = diff]
                /\ lost' = lost \ diff
                /\ UNCHANGED <<keys, outcome>>
        giveUp == /\ End(p, "error")
                  /\ lost' = IF md' = md THEN lost
                             ELSE lost \cup (diff \ cols)
    IN
    /\ pc[p] = "store"
    /\ \/ mdTable /\ md' = row /\ goOn
       \/ \E kind \in {"sql", "transient", "down"} :
            /\ \/ kind = "sql" /\ ~mdTable /\ md' = md
               \/ /\ ConnectionError(kind)
                  /\ md' \in IF mdTable THEN {md, row} ELSE {md}
            /\ IF Swallowed(kind) THEN goOn ELSE giveUp
    /\ UNCHANGED <<mdTable, cols, filled, cache, ops>>

(* Mutant: only a brand new type has its table touched.                    *)
CreateOnly(p) ==
    /\ pc[p] = "publish"
    /\ PutMetadata(p)
    /\ Continue(p, IF todo[p] = keys[p] THEN "create" ELSE "insert")
    /\ UNCHANGED <<store, flag, ops, lost>>

(* A brand new type gets its table, a known one the columns it lacks.      *)
PublishMetadata(p) ==
    /\ pc[p] = "publish"
    /\ PutMetadata(p)
    /\ Continue(p, IF todo[p] = keys[p] THEN "create" ELSE "alter")
    /\ UNCHANGED <<store, flag, ops, lost>>

(* Stop working on the columns of todo: what is still missing is lost.     *)
Abandon(p) == lost' = (lost \cup todo[p]) \ cols'
DdlDone(p) == Goto(p, "insert") /\ UNCHANGED <<keys, known, outcome>>
              /\ todo' = [todo EXCEPT ![p] = {}]
DdlFails(p, kind) ==
    /\ Abandon(p)
    /\ IF Swallowed(kind) THEN DdlDone(p) ELSE End(p, "error")

(* "create table if not exists": does nothing to a table that is there.    *)
(* Timescale goes on to add every column the existing table may lack.      *)
CreateDataTable(p) ==
    LET created == IF cols = {} THEN keys[p] ELSE cols IN
    /\ pc[p] = "create"
    /\ \/ /\ cols' = created
          /\ IF conf.backend = "crate"
             THEN DdlDone(p) /\ Abandon(p)
             ELSE Continue(p, "alter") /\ lost' = lost \ cols'
       \/ \E kind \in {"transient", "down"} :
            /\ ConnectionError(kind)
            /\ cols' \in {cols, created}
            /\ DdlFails(p, kind)
    /\ UNCHANGED <<mdTable, md, filled, cache, ops>>

(* Timescale adds the columns in one statement and skips existing ones;    *)
(* Crate adds them one by one and fails on a column that exists.           *)
AlterDataTable(p) ==
    /\ pc[p] = "alter"
    /\ \/ /\ conf.backend = "timescale" /\ cols # {}
          /\ cols' = cols \cup todo[p]
          /\ lost' = lost \ cols'
          /\ DdlDone(p)
       \/ \E col \in todo[p] :
            /\ conf.backend = "crate" /\ cols # {} /\ col \notin cols
            /\ cols' = cols \cup {col}
            /\ lost' = lost \ cols'
            /\ IF todo[p] = {col} THEN DdlDone(p)
               ELSE /\ todo' = [todo EXCEPT ![p] = @ \ {col}]
                    /\ UNCHANGED <<pc, keys, known, outcome>>
       \/ /\ cols = {} \/ (conf.backend = "crate" /\ todo[p] \cap cols # {})
          /\ cols' = cols
          /\ DdlFails(p, "sql")
       \/ \E kind \in {"transient", "down"}, added \in SUBSET todo[p] :
            /\ ConnectionError(kind)
            /\ \/ added = {}
               \/ cols # {} /\ conf.backend = "timescale" /\ added = todo[p]
               \/ cols # {} /\ conf.backend = "crate" /\ Cardinality(added) = 1
            /\ cols' = cols \cup added
            /\ DdlFails(p, kind)
    /\ UNCHANGED <<mdTable, md, filled, cache, ops>>

(* Mutant: the table has a dynamic column policy and takes any column.     *)
InsertAnyColumn(p) ==
    /\ pc[p] = "insert"
    /\ filled' = filled \cup keys[p]
    /\ End(p, "stored")
    /\ UNCHANGED <<mdTable, md, cols, cache, ops, lost>>

(* The rows go in with every attribute column; when the statement fails,   *)
(* with the fixed columns only, the entity kept as JSON: always for Crate, *)
(* for Timescale when the database rejected the statement, which with code *)
(* 55000 counts as a transient error too.                                  *)
InsertRows(p) ==
    /\ pc[p] = "insert"
    /\ \/ /\ cols # {} /\ keys[p] \subseteq cols
          /\ filled' = filled \cup keys[p]
          /\ End(p, "stored")
       \/ /\ \/ ~(cols # {} /\ keys[p] \subseteq cols)
             \/ conf.backend = "timescale" /\ ConnectionError("transient")
          /\ Continue(p, "raw")
          /\ UNCHANGED filled
       \/ \E kind \in {"transient", "down"} :
            /\ ConnectionError(kind)
            /\ filled' \in IF keys[p] \subseteq cols
                           THEN {filled, filled \cup keys[p]} ELSE {filled}
            /\ IF conf.backend = "crate" /\ kind = "transient"
               THEN Continue(p, "raw") ELSE End(p, "error")
    /\ UNCHANGED <<mdTable, md, cols, cache, ops, lost>>

InsertRaw(p) ==
    /\ pc[p] = "raw"
    /\ \/ /\ Base \subseteq cols
          /\ filled' = filled \cup Base
          /\ End(p, "raw")
       \/ /\ ~(Base \subseteq cols) \/ \E k \in FaultKinds : ConnectionError(k)
          /\ filled' = filled
          /\ End(p, "error")
    /\ UNCHANGED <<mdTable, md, cols, cache, ops, lost>>

-----------------------------------------------------------------------------
(* drop_table and delete_entities: errors are logged, not raised.          *)

Begin(p, phase) ==
    /\ pc[p] = "idle" /\ ops < MaxOps
    /\ ops' = ops + 1
    /\ Goto(p, phase)
    /\ outcome' = [outcome EXCEPT ![p] = "none"]
    /\ UNCHANGED <<store, cache, local, lost>>

BeginDrop(p) == Begin(p, "drop")
BeginDelete(p) == Begin(p, "purge")

DropTable(p) ==
    /\ pc[p] = "drop"
    /\ \/ cols' = {} /\ filled' = {} /\ Continue(p, "unlist")
       \/ \E kind \in {"transient", "down"} :
            /\ ConnectionError(kind)
            /\ UNCHANGED <<cols, filled>> \/ (cols' = {} /\ filled' = {})
            /\ IF kind = "down" THEN End(p, "error")
               ELSE Continue(p, "unlist")
    /\ lost' = lost \cup (cols \ cols')
    /\ UNCHANGED <<mdTable, md, cache, ops>>

(* Mutant: the metadata row outlives the table.                            *)
KeepMetadata(p) ==
    /\ pc[p] = "unlist"
    /\ Continue(p, "uncache")
    /\ UNCHANGED <<store, cache, ops, lost>>

DeleteMetadata(p) ==
    /\ pc[p] = "unlist"
    /\ \/ mdTable /\ md' = {} /\ Continue(p, "uncache")
       \/ ~mdTable /\ md' = md /\ End(p, "done")
       \/ \E kind \in {"transient", "down"} :
            /\ ConnectionError(kind)
            /\ md' \in {md, {}}
            /\ End(p, IF kind = "down" THEN "error" ELSE "done")
    /\ UNCHANGED <<mdTable, cols, filled, cache, ops, lost>>

(* Mutant: the cached metadata outlives the table.                         *)
KeepInCache(p) ==
    /\ pc[p] = "uncache"
    /\ End(p, "done")
    /\ UNCHANGED <<store, cache, ops, lost>>

RemoveFromCache(p) ==
    /\ pc[p] = "uncache"
    /\ \/ cachedMd' = {}
       \/ CacheFault /\ UNCHANGED cachedMd
    /\ End(p, "done")
    /\ UNCHANGED <<store, flag, ops, lost>>

(* Deleting rows leaves the table, its columns and its metadata alone.     *)
DeleteRows(p) ==
    /\ pc[p] = "purge"
    /\ \/ cols # {} /\ filled' \in SUBSET filled /\ Continue(p, "uncache")
       \/ /\ cols = {} \/ ConnectionError("transient")
          /\ filled' = filled /\ End(p, "done")
       \/ ConnectionError("down") /\ filled' = filled /\ End(p, "error")
    /\ UNCHANGED <<mdTable, md, cols, cache, ops, lost>>

-----------------------------------------------------------------------------
(* The time to live is set on the whole cache hash, so all of it expires.  *)
Evict ==
    /\ flag \/ cachedMd # {}
    /\ flag' = FALSE /\ cachedMd' = {}
    /\ UNCHANGED <<store, pc, local, outcome, ops, lost>>

Crash(p) ==
    /\ "crash" \in conf.faults /\ pc[p] # "idle"
    /\ End(p, "crashed")
    /\ lost' = (lost \cup todo[p]) \ cols
    /\ UNCHANGED <<store, cache, ops>>

Step(p) ==
    \/ \E attrs \in SUBSET Attrs : BeginInsert(p, attrs)
    \/ IsMetadataTableCached(p) \/ CreateMetadataTable(p) \/ CacheFlag(p)
    \/ LookupMetadata(p) \/ SelectMetadata(p) \/ FillCache(p)
    \/ StoreMetadata(p) \/ PublishMetadata(p)
    \/ CreateDataTable(p) \/ AlterDataTable(p)
    \/ InsertRows(p) \/ InsertRaw(p)
    \/ BeginDrop(p) \/ DropTable(p) \/ DeleteMetadata(p) \/ RemoveFromCache(p)
    \/ BeginDelete(p) \/ DeleteRows(p)
    \/ Crash(p)

Next == (Evict \/ \E p \in Procs : Step(p)) /\ UNCHANGED conf

Spec == Init /\ [][Next]_vars

-----------------------------------------------------------------------------
(* Properties. *)

Owes(q, k) == pc[q] \in {"publish", "create", "alter"} /\ k \in todo[q]

Named(k) == k \in md \cup cachedMd \/ \E p \in Procs : k \in known[p]

(* _update_metadata_table records a column before the DDL that creates it, *)
(* so a name in the metadata row, in the cache or in a worker's copy of it *)
(* may run ahead of the table: but only while the worker that recorded it  *)
(* still owes the DDL, or once that DDL was abandoned or undone.           *)
MetadataBacked ==
    \A k \in Keys : Named(k) =>
        k \in cols \/ k \in lost \/ \E q \in Procs : Owes(q, k)

(* When _insert_entity_rows runs, each column of its statement exists,     *)
(* unless it was lost or another worker has yet to create it: the worker's *)
(* own DDL is never what is missing.                                       *)
InsertFindsItsColumns ==
    \A p \in Procs : pc[p] = "insert" =>
        \A k \in keys[p] :
            k \in cols \/ k \in lost \/ \E q \in Procs \ {p} : Owes(q, k)

(* A worker on its own, with no failure, always stores the full rows, no   *)
(* matter which inserts, drops and deletes came before and what expired.   *)
SerialInsertsSucceed ==
    conf.faults = {} =>
        \A p \in Procs : /\ pc[p] # "raw"
                         /\ outcome[p] \in {"none", "stored", "done"}

(* Between its operations the three copies of the schema agree.            *)
SerialSchemaAgrees ==
    conf.faults = {} /\ (\A p \in Procs : pc[p] = "idle") =>
        md = cols /\ cachedMd \in {{}, md}

(* The columns that hold values are in the metadata row: _format_response  *)
(* skips a column that is not, so its values could not be queried.  With a *)
(* single writer no crash and no expiry of the cache breaks this.          *)
StoredDataIsVisible == filled \subseteq md

(* _update_metadata_table updates the row with the difference "to not      *)
(* corrupt the metadata by previous insert": only drop_table shrinks it.   *)
MetadataKeepsPreviousInserts ==
    [][md \subseteq md' \/ \E p \in Procs : pc[p] = "unlist"]_vars
=============================================================================
