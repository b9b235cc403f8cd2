-------------------------- MODULE SchemaSyncProofs --------------------------
(* Proofs about SchemaSync for any number of workers and any attributes.   *)
EXTENDS SchemaSync, TLAPS

USE DEF store, cache, local

(* Every variable has its type, a value is only stored in a column of the  *)
(* data table, and a column that exists is never counted as lost.          *)
THEOREM TypeCorrect == Spec => []TypeOK
<1>1. Init => TypeOK
  <2> SUFFICES ASSUME Init PROVE TypeOK
    OBVIOUS
  <2>1. pc \in [Procs -> Phases] /\ outcome \in [Procs -> Outcomes]
    BY DEF Init, Phases, Outcomes
  <2>2. /\ keys \in [Procs -> SUBSET Keys]
        /\ known \in [Procs -> SUBSET Keys]
        /\ todo \in [Procs -> SUBSET Keys]
    BY DEF Init
  <2> QED
    BY <2>1, <2>2 DEF Init, TypeOK
<1>2. TypeOK /\ [Next]_vars => TypeOK'
  <2> SUFFICES ASSUME TypeOK, [Next]_vars PROVE TypeOK'
    OBVIOUS
  <2>0. conf' = conf
    BY DEF Next, vars
  <2> USE <2>0 DEF TypeOK, Phases, Outcomes, Continue, Goto, End
  <2>1. ASSUME NEW p \in Procs, NEW attrs \in SUBSET Attrs, BeginInsert(p, attrs) PROVE TypeOK'
    BY <2>1 DEF BeginInsert, Keys
  <2>2. ASSUME NEW p \in Procs, IsMetadataTableCached(p) PROVE TypeOK'
    BY <2>2 DEF IsMetadataTableCached
  <2>3. ASSUME NEW p \in Procs, CreateMetadataTable(p) PROVE TypeOK'
    BY <2>3, ZenonT(30) DEF CreateMetadataTable, FailedStatement
  <2>4. ASSUME NEW p \in Procs, CacheFlag(p) PROVE TypeOK'
    BY <2>4, DeploymentsAssumption DEF CacheFlag, Deployment
  <2>5. ASSUME NEW p \in Procs, LookupMetadata(p) PROVE TypeOK'
    BY <2>5 DEF LookupMetadata, AfterMetadata
  <2>6. ASSUME NEW p \in Procs, SelectMetadata(p) PROVE TypeOK'
    BY <2>6 DEF SelectMetadata
  <2>7. ASSUME NEW p \in Procs, FillCache(p) PROVE TypeOK'
    BY <2>7 DEF FillCache, PutMetadata, AfterMetadata
  <2>8. ASSUME NEW p \in Procs, StoreMetadata(p) PROVE TypeOK'
    BY <2>8 DEF StoreMetadata
  <2>9. ASSUME NEW p \in Procs, PublishMetadata(p) PROVE TypeOK'
    BY <2>9 DEF PublishMetadata, PutMetadata
  <2>10. ASSUME NEW p \in Procs, CreateDataTable(p) PROVE TypeOK'
    BY <2>10 DEF CreateDataTable, DdlDone, DdlFails, Abandon
  <2>11. ASSUME NEW p \in Procs, AlterDataTable(p) PROVE TypeOK'
    BY <2>11 DEF AlterDataTable, DdlDone, DdlFails, Abandon
  <2>12. ASSUME NEW p \in Procs, InsertRows(p) PROVE TypeOK'
    BY <2>12 DEF InsertRows
  <2>13. ASSUME NEW p \in Procs, InsertRaw(p) PROVE TypeOK'
    BY <2>13, KeysAssumption DEF InsertRaw
  <2>14. ASSUME NEW p \in Procs, BeginDrop(p) PROVE TypeOK'
    BY <2>14 DEF BeginDrop, Begin
  <2>15. ASSUME NEW p \in Procs, DropTable(p) PROVE TypeOK'
    BY <2>15 DEF DropTable
  <2>16. ASSUME NEW p \in Procs, DeleteMetadata(p) PROVE TypeOK'
    BY <2>16 DEF DeleteMetadata
  <2>17. ASSUME NEW p \in Procs, RemoveFromCache(p) PROVE TypeOK'
    BY <2>17 DEF RemoveFromCache
  <2>18. ASSUME NEW p \in Procs, BeginDelete(p) PROVE TypeOK'
    BY <2>18 DEF BeginDelete, Begin
  <2>19. ASSUME NEW p \in Procs, DeleteRows(p) PROVE TypeOK'
    BY <2>19 DEF DeleteRows
  <2>20. ASSUME NEW p \in Procs, Crash(p) PROVE TypeOK'
    BY <2>20 DEF Crash
  <2>21. CASE Evict
    BY <2>21 DEF Evict
  <2>22. CASE UNCHANGED vars
    BY <2>22 DEF vars
  <2> QED
    BY <2>1, <2>2, <2>3, <2>4, <2>5, <2>6, <2>7, <2>8, <2>9, <2>10, <2>11, <2>12, <2>13,
       <2>14, <2>15, <2>16, <2>17, <2>18, <2>19, <2>20, <2>21, <2>22 DEF Next, Step
<1> QED
  BY <1>1, <1>2, PTL DEF Spec

-----------------------------------------------------------------------------
(* A worker that has recorded its keys, or found them recorded, keeps all  *)
(* of them in its copy of the metadata row: with MetadataBacked this is    *)
(* what the columns of its insert statement rest on.                       *)
KnownCoversKeys ==
    \A p \in Procs : pc[p] \in {"publish", "create", "alter", "insert"} =>
        keys[p] \subseteq known[p]

SyncInv == KnownCoversKeys /\ MetadataBacked

(* No step of any worker names a column that is neither there, owed nor    *)
(* lost.                                                                   *)
LEMMA SyncStep ==
    ASSUME TypeOK, TypeOK', SyncInv, [Next]_vars
    PROVE  SyncInv'
<1>0. conf' = conf
  BY DEF Next, vars
<1> USE <1>0 DEF TypeOK, SyncInv, KnownCoversKeys, MetadataBacked, Named, Owes,
            Phases, Continue, Goto, End
<1>1. ASSUME NEW p \in Procs, NEW attrs \in SUBSET Attrs, BeginInsert(p, attrs)
      PROVE  SyncInv'
  BY <1>1 DEF BeginInsert
<1>2. ASSUME NEW p \in Procs, IsMetadataTableCached(p) PROVE SyncInv'
  BY <1>2 DEF IsMetadataTableCached
<1>3. ASSUME NEW p \in Procs, CreateMetadataTable(p) PROVE SyncInv'
  <2>1. UNCHANGED <<md, cols, cachedMd, lost>> /\ pc[p] \in {"mkmd", "remake"}
    BY <1>3 DEF CreateMetadataTable
  <2>2. \/ /\ pc' = [pc EXCEPT ![p] = "putflag"] \/ pc' = [pc EXCEPT ![p] = "store"]
           /\ UNCHANGED <<keys, known, todo>>
        \/ End(p, "error")
    BY <1>3 DEF CreateMetadataTable, FailedStatement
  <2> QED
    BY <2>1, <2>2
<1>4. ASSUME NEW p \in Procs, CacheFlag(p) PROVE SyncInv'
  BY <1>4 DEF CacheFlag
<1>5. ASSUME NEW p \in Procs, LookupMetadata(p) PROVE SyncInv'
  BY <1>5 DEF LookupMetadata, AfterMetadata
<1>6. ASSUME NEW p \in Procs, SelectMetadata(p) PROVE SyncInv'
  BY <1>6 DEF SelectMetadata
<1>7. ASSUME NEW p \in Procs, FillCache(p) PROVE SyncInv'
  BY <1>7 DEF FillCache, PutMetadata, AfterMetadata
<1>8. ASSUME NEW p \in Procs, StoreMetadata(p) PROVE SyncInv'
  BY <1>8 DEF StoreMetadata
<1>9. ASSUME NEW p \in Procs, PublishMetadata(p) PROVE SyncInv'
  BY <1>9 DEF PublishMetadata, PutMetadata
<1>10. ASSUME NEW p \in Procs, CreateDataTable(p) PROVE SyncInv'
  BY <1>10 DEF CreateDataTable, DdlDone, DdlFails, Abandon
<1>11. ASSUME NEW p \in Procs, AlterDataTable(p) PROVE SyncInv'
  BY <1>11 DEF AlterDataTable, DdlDone, DdlFails, Abandon
<1>12. ASSUME NEW p \in Procs, InsertRows(p) PROVE SyncInv'
  BY <1>12 DEF InsertRows
<1>13. ASSUME NEW p \in Procs, InsertRaw(p) PROVE SyncInv'
  BY <1>13 DEF InsertRaw
<1>14. ASSUME NEW p \in Procs, BeginDrop(p) PROVE SyncInv'
  BY <1>14 DEF BeginDrop, Begin
<1>15. ASSUME NEW p \in Procs, DropTable(p) PROVE SyncInv'
  BY <1>15 DEF DropTable
<1>16. ASSUME NEW p \in Procs, DeleteMetadata(p) PROVE SyncInv'
  BY <1>16 DEF DeleteMetadata
<1>17. ASSUME NEW p \in Procs, RemoveFromCache(p) PROVE SyncInv'
  BY <1>17 DEF RemoveFromCache
<1>18. ASSUME NEW p \in Procs, BeginDelete(p) PROVE SyncInv'
  BY <1>18 DEF BeginDelete, Begin
<1>19. ASSUME NEW p \in Procs, DeleteRows(p) PROVE SyncInv'
  BY <1>19 DEF DeleteRows
<1>20. ASSUME NEW p \in Procs, Crash(p) PROVE SyncInv'
  BY <1>20 DEF Crash
<1>21. CASE Evict
  BY <1>21 DEF Evict
<1>22. CASE UNCHANGED vars
  BY <1>22 DEF vars
<1> QED
  BY <1>1, <1>2, <1>3, <1>4, <1>5, <1>6, <1>7, <1>8, <1>9, <1>10, <1>11, <1>12, <1>13,
     <1>14, <1>15, <1>16, <1>17, <1>18, <1>19, <1>20, <1>21, <1>22 DEF Next, Step

(* The invariant of any number of workers with any failures. *)
LEMMA SyncInvariant == Spec => []SyncInv
<1>1. Init => SyncInv
  BY DEF Init, SyncInv, KnownCoversKeys, MetadataBacked, Named
<1> QED
  BY <1>1, TypeCorrect, SyncStep, PTL DEF Spec

(* No interleaving of workers, whatever fails, leaves a column recorded    *)
(* that the table lacks, except while its DDL is owed or once it was lost. *)
THEOREM MetadataIsBacked == Spec => []MetadataBacked
<1>1. SyncInv => MetadataBacked
  BY DEF SyncInv
<1> QED
  BY <1>1, SyncInvariant, PTL

(* A worker that runs its insert statement never lacks a column of its own *)
(* making: it is there, it was lost, or another worker still owes it.      *)
THEOREM InsertsFindTheirColumns == Spec => []InsertFindsItsColumns
<1>1. TypeOK /\ SyncInv => InsertFindsItsColumns
  <2> SUFFICES ASSUME TypeOK, SyncInv, NEW p \in Procs, pc[p] = "insert",
                      NEW k \in keys[p]
               PROVE  \/ k \in cols \/ k \in lost
                      \/ \E q \in Procs \ {p} : Owes(q, k)
    BY DEF InsertFindsItsColumns
  <2>1. k \in Keys /\ k \in known[p]
    BY DEF TypeOK, SyncInv, KnownCoversKeys
  <2>2. k \in cols \/ k \in lost \/ \E q \in Procs : Owes(q, k)
    BY <2>1 DEF SyncInv, MetadataBacked, Named
  <2>3. ~Owes(p, k)
    BY SMTT(30) DEF Owes
  <2> QED
    BY <2>2, <2>3
<1> QED
  BY <1>1, TypeCorrect, SyncInvariant, PTL

-----------------------------------------------------------------------------
(* A single worker and no failure.  SerialInv says, for every phase of the *)
(* worker, how far the three copies of the schema may be apart.            *)
Inserting == {"flag", "mkmd", "putflag", "lookup", "select", "fill", "store",
              "publish", "create", "alter", "insert"}

SerialInv ==
    /\ cols = {} \/ Base \subseteq cols
    /\ flag \/ md # {} => mdTable
    /\ \A p \in Procs :
        /\ outcome[p] \in {"none", "stored", "done"}
        /\ pc[p] \notin {"raw", "remake"}
        /\ pc[p] \in Inserting => Base \subseteq keys[p]
        /\ pc[p] \in Inserting \ {"flag", "mkmd"} => mdTable
        /\ pc[p] \in {"idle", "flag", "mkmd", "putflag", "lookup", "select"}
             => known[p] = {}
        /\ pc[p] \notin {"publish", "uncache"} => cachedMd \in {{}, md}
        /\ pc[p] \notin {"publish", "create", "alter", "unlist"} => cols = md
        /\ pc[p] = "unlist" => cols = {}
        /\ pc[p] \in {"fill", "store"} => known[p] = md
        /\ pc[p] = "fill" => md # {}
        /\ pc[p] = "store" => ~(keys[p] \subseteq md)
        /\ pc[p] \in {"publish", "create", "alter"} =>
             /\ known[p] = md /\ md = cols \cup todo[p]
             /\ keys[p] \subseteq md /\ todo[p] # {}
             /\ conf.backend = "crate" => todo[p] \cap cols = {}
        /\ pc[p] = "publish" => (todo[p] = keys[p]) = (cols = {})
        /\ pc[p] = "create" => cols = {} /\ todo[p] = keys[p]
        /\ pc[p] = "alter" => cols # {}
        /\ pc[p] = "insert" => cols # {} /\ keys[p] \subseteq cols

(* A single worker that does not fail leaves the copies as far apart as    *)
(* SerialInv allows.                                                       *)
LEMMA SerialStep ==
    ASSUME NEW w, Procs = {w}, conf.faults = {},
           TypeOK, TypeOK', SerialInv, [Next]_vars
    PROVE  SerialInv'
<1>0. /\ conf' = conf /\ conf.faults = {}
      /\ conf.backend \in {"crate", "timescale"} /\ conf.cacheOn \in BOOLEAN
  BY DeploymentsAssumption DEF Next, vars, TypeOK, Deployment
<1> USE <1>0, KeysAssumption
    DEF TypeOK, SerialInv, Inserting, Continue, Goto, End, ConnectionError,
        CacheFault
<1>1. ASSUME NEW attrs \in SUBSET Attrs, BeginInsert(w, attrs)
      PROVE  SerialInv'
  BY <1>1 DEF BeginInsert
<1>2. CASE IsMetadataTableCached(w)
  BY <1>2 DEF IsMetadataTableCached
<1>3. CASE CreateMetadataTable(w)
  BY <1>3 DEF CreateMetadataTable, FailedStatement
<1>4. CASE CacheFlag(w)
  BY <1>4 DEF CacheFlag
<1>5. CASE LookupMetadata(w)
  BY <1>5 DEF LookupMetadata, AfterMetadata
<1>6. CASE SelectMetadata(w)
  BY <1>6 DEF SelectMetadata
<1>7. CASE FillCache(w)
  BY <1>7 DEF FillCache, PutMetadata, AfterMetadata
<1>8. CASE StoreMetadata(w)
  BY <1>8 DEF StoreMetadata
<1>9. CASE PublishMetadata(w)
  BY <1>9 DEF PublishMetadata, PutMetadata
<1>10. CASE CreateDataTable(w)
  BY <1>10 DEF CreateDataTable, DdlDone, DdlFails, Abandon
<1>11. CASE AlterDataTable(w)
  <2>1. /\ pc[w] = "alter" /\ cols # {} /\ cols' \subseteq cols \cup todo[w]
        /\ conf.backend = "crate" => todo[w] \cap cols = {}
        /\ UNCHANGED <<mdTable, md, filled, cache, ops, keys, known, outcome>>
    BY <1>11 DEF AlterDataTable, DdlDone, DdlFails
  <2>2. \/ /\ pc' = [pc EXCEPT ![w] = "insert"]
           /\ cols' = cols \cup todo[w]
        \/ \E col \in todo[w] :
             /\ col \notin cols /\ cols' = cols \cup {col}
             /\ todo' = [todo EXCEPT ![w] = @ \ {col}]
             /\ todo[w] # {col} /\ pc' = pc
    BY <1>11, <2>1 DEF AlterDataTable, DdlDone, DdlFails
  <2>3. CASE pc' = [pc EXCEPT ![w] = "insert"] /\ cols' = cols \cup todo[w]
    BY <2>1, <2>3 DEF cache
  <2>4. ASSUME NEW col \in todo[w],
               col \notin cols /\ cols' = cols \cup {col},
               todo' = [todo EXCEPT ![w] = @ \ {col}],
               todo[w] # {col} /\ pc' = pc
        PROVE  SerialInv'
    <3>1. pc'[w] = "alter" /\ todo'[w] = todo[w] \ {col} /\ todo'[w] # {}
      BY <2>1, <2>4
    <3>2. cols' # {} /\ cols' \cup todo'[w] = cols \cup todo[w]
          /\ (conf.backend = "crate" => todo'[w] \cap cols' = {})
      BY <2>1, <2>4, <3>1
    <3> QED
      BY <2>1, <2>4, <3>1, <3>2 DEF cache
  <2> QED
    BY <2>2, <2>3, <2>4
<1>12. CASE InsertRows(w)
  BY <1>12 DEF InsertRows
<1>13. CASE InsertRaw(w)
  BY <1>13 DEF InsertRaw
<1>14. CASE BeginDrop(w)
  BY <1>14 DEF BeginDrop, Begin
<1>15. CASE DropTable(w)
  BY <1>15 DEF DropTable
<1>16. CASE DeleteMetadata(w)
  BY <1>16, SMTT(30) DEF DeleteMetadata
<1>17. CASE RemoveFromCache(w)
  BY <1>17 DEF RemoveFromCache
<1>18. CASE BeginDelete(w)
  BY <1>18 DEF BeginDelete, Begin
<1>19. CASE DeleteRows(w)
  BY <1>19 DEF DeleteRows
<1>20. CASE Crash(w)
  BY <1>20 DEF Crash
<1>21. CASE Evict
  BY <1>21 DEF Evict
<1>22. CASE UNCHANGED vars
  BY <1>22 DEF vars
<1> QED
  BY <1>1, <1>2, <1>3, <1>4, <1>5, <1>6, <1>7, <1>8, <1>9, <1>10, <1>11, <1>12, <1>13,
     <1>14, <1>15, <1>16, <1>17, <1>18, <1>19, <1>20, <1>21, <1>22 DEF Next, Step

(* The invariant of a single worker in a deployment without failures. *)
LEMMA SerialInvariant ==
    ASSUME NEW w, Procs = {w}
    PROVE  Spec => [](conf.faults = {} => SerialInv)
<1>1. Init => SerialInv
  BY DEF Init, SerialInv, Inserting
<1>2. TypeOK /\ TypeOK' /\ (conf.faults = {} => SerialInv) /\ [Next]_vars
        => (conf.faults = {} => SerialInv)'
  <2>1. [Next]_vars => conf' = conf
    BY DEF Next, vars
  <2> QED
    BY <2>1, SerialStep
<1> QED
  BY <1>1, <1>2, TypeCorrect, PTL DEF Spec

(* A worker on its own, no failure striking, stores every row in full, on  *)
(* either database and for any attributes.                                 *)
THEOREM SerialInsertsStore ==
    ASSUME NEW w, Procs = {w}
    PROVE  Spec => []SerialInsertsSucceed
<1>1. (conf.faults = {} => SerialInv) => SerialInsertsSucceed
  BY DEF SerialInv, SerialInsertsSucceed
<1> QED
  BY <1>1, SerialInvariant, PTL

(* Between the operations of such a worker the three copies of the schema  *)
(* agree, whatever expired from the cache meanwhile.                       *)
THEOREM SerialSchemasAgree ==
    ASSUME NEW w, Procs = {w}
    PROVE  Spec => []SerialSchemaAgrees
<1>1. (conf.faults = {} => SerialInv) => SerialSchemaAgrees
  BY DEF SerialInv, SerialSchemaAgrees
<1> QED
  BY <1>1, SerialInvariant, PTL

(* Nor does such a worker ever take a column out of the metadata row other *)
(* than by drop_table: an insert keeps what previous inserts recorded.     *)
THEOREM SerialMetadataKept ==
    ASSUME NEW w, Procs = {w}, \A d \in Deployments : d.faults = {}
    PROVE  Spec => MetadataKeepsPreviousInserts
<1>1. ASSUME TypeOK, SerialInv, [Next]_vars
      PROVE  md \subseteq md' \/ \E p \in Procs : pc[p] = "unlist"
  <2>1. ASSUME StoreMetadata(w) PROVE md \subseteq md'
    BY <1>1, <2>1 DEF TypeOK, StoreMetadata, ConnectionError, SerialInv
  <2>2. ASSUME DeleteMetadata(w) PROVE pc[w] = "unlist"
    BY <2>2 DEF DeleteMetadata
  <2>3. ASSUME NEW p \in Procs, Step(p), ~StoreMetadata(p), ~DeleteMetadata(p)
        PROVE  md' = md
    BY <2>3 DEF Step, BeginInsert, IsMetadataTableCached, CreateMetadataTable, CacheFlag,
       LookupMetadata, SelectMetadata, FillCache, PublishMetadata,
         CreateDataTable, AlterDataTable, InsertRows, InsertRaw, BeginDrop, Begin,
         DropTable, RemoveFromCache, BeginDelete, DeleteRows, Crash
  <2> QED
    BY <1>1, <2>1, <2>2, <2>3 DEF Next, Evict, vars
<1>2. TypeOK /\ (conf.faults = {} => SerialInv) /\ [Next]_vars
        => [md \subseteq md' \/ \E p \in Procs : pc[p] = "unlist"]_vars
  BY <1>1 DEF TypeOK
<1> QED
  BY <1>2, TypeCorrect, SerialInvariant, PTL DEF Spec, MetadataKeepsPreviousInserts

-----------------------------------------------------------------------------
(* A single worker that may be killed at any moment.  VisibleInv says what *)
(* the copies of the schema that it left behind still have in common.      *)
Recording == {"publish", "create", "alter"}

VisibleInv ==
    /\ filled \subseteq md
    /\ cachedMd # {} => filled \subseteq cachedMd
    /\ cachedMd \subseteq md \/ cols = {}
    /\ flag => mdTable
    /\ conf.cacheOn \/ cachedMd = {}
    /\ \A p \in Procs :
        /\ pc[p] \in {"putflag", "lookup", "select", "fill", "store"} => mdTable
        /\ pc[p] \in Inserting \cup {"raw"} => Base \subseteq keys[p]
        /\ pc[p] \in {"idle", "flag", "mkmd", "putflag", "lookup", "select"}
             => known[p] = {}
        /\ pc[p] = "select" => cachedMd = {}
        /\ pc[p] = "fill" => known[p] = md
        /\ pc[p] = "store" => filled \cup cachedMd \subseteq known[p]
        /\ pc[p] \in Recording => /\ keys[p] \subseteq md /\ known[p] = md
                                  /\ cachedMd \subseteq md
        /\ pc[p] \in {"create", "alter"} => cachedMd \in {{}, md}
        /\ pc[p] \in {"insert", "raw"} =>
             /\ keys[p] \subseteq md \/ cols = {}
             /\ keys[p] \subseteq cachedMd \/ cachedMd = {}
        /\ pc[p] = "unlist" => cols = {}
        /\ pc[p] # "remake"

(* Neither the steps of a single worker nor its death hide a column that   *)
(* holds values.                                                           *)
LEMMA VisibleStep ==
    ASSUME NEW w, Procs = {w}, conf.faults \subseteq {"crash"},
           TypeOK, TypeOK', VisibleInv, [Next]_vars
    PROVE  VisibleInv'
<1>0. /\ conf' = conf /\ {"transient", "down", "cache"} \cap conf.faults = {}
      /\ conf.backend \in {"crate", "timescale"} /\ conf.cacheOn \in BOOLEAN
  BY DeploymentsAssumption DEF Next, vars, TypeOK, Deployment
<1>1. ~CacheFault /\ \A kind : ~ConnectionError(kind)
  BY <1>0 DEF CacheFault, ConnectionError
<1> USE <1>0, <1>1, KeysAssumption
    DEF TypeOK, VisibleInv, Inserting, Recording, Continue, Goto, End
<1>2. ASSUME NEW attrs \in SUBSET Attrs, BeginInsert(w, attrs) PROVE VisibleInv'
  <2>1. /\ pc' = [pc EXCEPT ![w] = "flag"] /\ keys' = [keys EXCEPT ![w] = Base \cup attrs]
        /\ pc[w] = "idle" /\ known' = known
        /\ UNCHANGED <<store, cache>>
    BY <1>2 DEF BeginInsert
  <2>2. known[w] = {}
    BY <2>1
  <2> QED
    BY <2>1, <2>2 DEF store, cache
<1>3. CASE IsMetadataTableCached(w)
  BY <1>3 DEF IsMetadataTableCached
<1>4. CASE CreateMetadataTable(w)
  BY <1>4, ZenonT(30) DEF CreateMetadataTable, FailedStatement
<1>5. CASE CacheFlag(w)
  BY <1>5 DEF CacheFlag
<1>6. CASE LookupMetadata(w)
  BY <1>6 DEF LookupMetadata, AfterMetadata
<1>7. CASE SelectMetadata(w)
  BY <1>7 DEF SelectMetadata
<1>8. CASE FillCache(w)
  BY <1>8 DEF FillCache, PutMetadata, AfterMetadata
<1>9. CASE StoreMetadata(w)
  BY <1>9 DEF StoreMetadata
<1>10. CASE PublishMetadata(w)
  BY <1>10 DEF PublishMetadata, PutMetadata
<1>11. CASE CreateDataTable(w)
  BY <1>11 DEF CreateDataTable, DdlDone
<1>12. CASE AlterDataTable(w)
  BY <1>12 DEF AlterDataTable, DdlDone, DdlFails
<1>13. CASE InsertRows(w)
  <2>1. /\ pc[w] = "insert" /\ UNCHANGED <<mdTable, md, cols, cache>>
        /\ \/ filled' = filled \cup keys[w] /\ keys[w] \subseteq cols /\ End(w, "stored")
           \/ filled' = filled /\ Continue(w, "raw")
    BY <1>13 DEF InsertRows
  <2>2. /\ keys[w] \subseteq md \/ cols = {}
        /\ keys[w] \subseteq cachedMd \/ cachedMd = {}
    BY <2>1
  <2> QED
    BY <2>1, <2>2
<1>14. CASE InsertRaw(w)
  <2>1. /\ pc[w] = "raw" /\ UNCHANGED <<mdTable, md, cols, cache>>
        /\ \/ filled' = filled \cup Base /\ Base \subseteq cols /\ End(w, "raw")
           \/ filled' = filled /\ End(w, "error")
    BY <1>14 DEF InsertRaw
  <2>2. /\ Base \subseteq keys[w] /\ (keys[w] \subseteq md \/ cols = {})
        /\ keys[w] \subseteq cachedMd \/ cachedMd = {}
    BY <2>1
  <2> QED
    BY <2>1, <2>2
<1>15. CASE BeginDrop(w)
  BY <1>15 DEF BeginDrop, Begin
<1>16. CASE DropTable(w)
  BY <1>16 DEF DropTable
<1>17. CASE DeleteMetadata(w)
  BY <1>17 DEF DeleteMetadata
<1>18. CASE RemoveFromCache(w)
  BY <1>18 DEF RemoveFromCache
<1>19. CASE BeginDelete(w)
  BY <1>19 DEF BeginDelete, Begin
<1>20. CASE DeleteRows(w)
  BY <1>20 DEF DeleteRows
<1>21. CASE Crash(w)
  BY <1>21 DEF Crash
<1>22. CASE Evict
  BY <1>22 DEF Evict
<1>23. CASE UNCHANGED vars
  BY <1>23 DEF vars
<1> QED
  BY <1>2, <1>3, <1>4, <1>5, <1>6, <1>7, <1>8, <1>9, <1>10, <1>11, <1>12, <1>13,
     <1>14, <1>15, <1>16, <1>17, <1>18, <1>19, <1>20, <1>21, <1>22, <1>23
  DEF Next, Step

(* With a single writer no crash, and no expiry of what the cache holds,   *)
(* leaves a value in a column that the metadata row does not name: queries *)
(* return whatever was stored.                                             *)
THEOREM StoredDataStaysVisible ==
    ASSUME NEW w, Procs = {w}, \A d \in Deployments : d.faults \subseteq {"crash"}
    PROVE  Spec => []StoredDataIsVisible
<1>1. Init => VisibleInv
  BY DEF Init, VisibleInv, Inserting, Recording
<1>2. TypeOK /\ TypeOK' /\ VisibleInv /\ [Next]_vars => VisibleInv'
  BY VisibleStep DEF TypeOK
<1>3. VisibleInv => StoredDataIsVisible
  BY DEF VisibleInv, StoredDataIsVisible
<1> QED
  BY <1>1, <1>2, <1>3, TypeCorrect, PTL DEF Spec
=============================================================================
