------------------------------ MODULE QueryApi ------------------------------
(***************************************************************************)
(* Requests that query and delete, each a thread or process of its own,    *)
(* against a database to which entities are inserted meanwhile.  A request *)
(* is a chain of statements: the tables an id may be in are listed and     *)
(* searched one by one, the names of a tenant's tables are taken from the  *)
(* cache or from the metadata, each table is queried, and its metadata is  *)
(* read once more to format the rows.  Nothing keeps the statements of one *)
(* request together.  An insert is one step here (SchemaSync has its       *)
(* statements, InsertDelivery its failures).                               *)
(*                                                                         *)
(* A request is the record the MC module builds: its `op` names the        *)
(* handler, `flaw` what is wrong with its parameters, `after` a request it *)
(* waits for, and one with `again` is sent again and again.                *)
(***************************************************************************)
EXTENDS QueryTranslator, TLC

CONSTANTS
    Requests,
    Tenants,        \* "none" is the one without a name
    Alike,          \* tenants whose name the LIKE pattern of a tenant matches
    Lower,          \* types -> the base of their table
    Dotted,         \* bases with a '.' in their name
    Scenarios       \* [conf, ask, begin, arrivals]

AllTables == ToSet(TableOrder)

ASSUME LimitAssumption == DefaultLimit \in Nat \ {0} /\ HardLimit \in Nat \ {0}
ASSUME AlikeAssumption == \A t \in Tenants : t \in Alike[t]
ASSUME TablesAssumption ==
    /\ TableOrder \in Seq([tenant : Tenants, base : STRING])
    /\ \A i, j \in DOMAIN TableOrder : i # j => TableOrder[i] # TableOrder[j]
ASSUME LowerAssumption == \A type \in DOMAIN Lower : Lower[type] \in LowerIn[type]

VARIABLES
    conf,       \* [cache, backend, anchored, faults] of the deployment
    ask,        \* the requests
    arrivals,   \* rows that may still be inserted
    rows, tables, meta,     \* the database
    names,      \* cached table names of each tenant; {} when there are none
    phase,      \* what a request does next
    work,       \* tables and ids of the statements a request has still to run
    fetched,    \* rows of its last statement
    found,      \* what they found: types, entities, or that rows are erased
    answer,     \* [code, body]
    listed,     \* history: table names a request was given
    stable,     \* history: rows that were visible all through a request
    struck,     \* history: a fault struck the request
    shifted     \* history: a row came before others or was removed meanwhile

database == <<rows, tables, meta, arrivals>>
request == <<phase, work, fetched, found, answer, listed>>
vars == <<conf, ask, database, names, request, stable, struck, shifted>>

Phases == {"waiting", "find", "search", "list", "fill", "listed", "select",
           "format", "erase", "drop", "unmeta", "forget", "done"}
Unanswered == [code |-> 0, body |-> <<>>]
FaultKinds == {"sql", "down", "cache"}

-----------------------------------------------------------------------------
(* The handlers.  `call` is the translator's method; `finds` says that the  *)
(* type of an entity is searched for when it is not given, with `clash` as *)
(* the answer when there are several; `badDate` is the answer to a date    *)
(* that does not parse; `ngsild` says that the ngsild-tenant header counts;*)
(* `body` is how the response groups what was found.                       *)
Listing == [call |-> "query", finds |-> FALSE, clash |-> 400, badDate |-> 422,
            ngsild |-> FALSE, body |-> "all"]
Removal == [Listing EXCEPT !.call = "delete", !.badDate = 500, !.ngsild = TRUE]

Query1T1E1A == [Listing EXCEPT !.finds = TRUE, !.badDate = 500, !.body = "first"]
Query1T1ENA == [Listing EXCEPT !.finds = TRUE, !.body = "first"]
Query1TNE1A == [Listing EXCEPT !.body = "asked"]
Query1TNENA == Listing
QueryNTNE == [Listing EXCEPT !.call = "ids"]
QueryNTNE1A == [Listing EXCEPT !.body = "types"]
QueryNTNENA == [Listing EXCEPT !.body = "types"]
OpQuery == [Listing EXCEPT !.call = "last_value", !.ngsild = TRUE]
DeleteEntity == [Removal EXCEPT !.finds = TRUE, !.clash = 409]
DeleteEntities == Removal
DropTable == [Removal EXCEPT !.call = "drop"]

HandlerOf(op) ==
    CASE op = "1T1E1A" -> Query1T1E1A [] op = "1T1ENA" -> Query1T1ENA
      [] op = "1TNE1A" -> Query1TNE1A [] op = "1TNENA" -> Query1TNENA
      [] op = "NTNE" -> QueryNTNE [] op = "NTNE1A" -> QueryNTNE1A
      [] op = "NTNENA" -> QueryNTNENA [] op = "op" -> OpQuery
      [] op = "delete_entity" -> DeleteEntity
      [] op = "delete_entities" -> DeleteEntities [] op = "drop" -> DropTable
SeriesOps == {"1T1E1A", "1T1ENA", "1TNE1A", "1TNENA", "NTNE1A", "NTNENA"}
RemovalOps == {"delete_entity", "delete_entities", "drop"}
PatternOps == {"NTNE", "1TNE1A", "1TNENA", "NTNE1A", "NTNENA"}
Handler(q) == HandlerOf(ask[q].op)

(* A request as the routes let it through: with a type or one id where its *)
(* path has one, with a limit of 1 or more, which is the minimum of        *)
(* specification/quantumleap.yml that Connexion holds it to, and without   *)
(* the parameters its handler does not take.  `until` is -1 when there is  *)
(* no toDate, and `pattern` has the ids that idPattern matches, all        *)
(* without one.  A row is in the table of its type.                        *)
AllIds == UNION {{x.id : x \in s.begin \cup s.arrivals} : s \in Scenarios}
Asks == [op : SeriesOps \cup RemovalOps \cup {"NTNE", "op"}, service : Tenants, ngsild : Tenants,
         type : DOMAIN Lower \cup {"none"}, ids : Seq(Nat), path : Seq(STRING),
         limit : Nat \ {0}, offset : Nat, lastN : Nat, aggr : {"none", "period", "total"},
         attr : STRING, since : Nat, until : Nat \cup {-1}, pattern : SUBSET Nat,
         after : Requests \cup {"none"}, again : BOOLEAN,
         flaw : {"none", "usage", "options", "method", "date"},
         geo : [georel : STRING, geometry : STRING, coords : Seq(Int), min : Int, max : Int]]
IsRequest(r) ==
    /\ r \in Asks
    /\ r.op \in {"1TNE1A", "1TNENA", "op", "delete_entities", "drop"} => r.type # "none"
    /\ r.op \in {"1T1E1A", "1T1ENA", "delete_entity"} => Len(r.ids) = 1
    /\ r.op \in {"NTNE", "op"} => r.lastN = 0 /\ r.aggr = "none" /\ r.geo = NoGeo
    /\ r.op = "NTNE" => r.ids = <<>> /\ r.attr = "all"
    /\ r.op \in {"op", "drop"} => r.since = 0 /\ r.until = -1
    /\ r.op \notin PatternOps => AllIds \subseteq r.pattern
IsRow(x) ==
    /\ x \in [table : AllTables, type : DOMAIN Lower, id : Nat, time : Nat,
              path : Seq(STRING), place : Seq(Int)]
    /\ x.table.base = Lower[x.type]
ASSUME ScenariosAssumption ==
    \A s \in Scenarios :
        /\ DOMAIN s.ask = Requests /\ \A q \in Requests : IsRequest(s.ask[q])
        /\ IsFiniteSet(s.begin \cup s.arrivals)
        /\ \A x \in s.begin \cup s.arrivals : IsRow(x)

(* httputil.fiware_s, or the parameter the query handlers take. *)
Tenant(q) ==
    IF Handler(q).ngsild /\ ask[q].ngsild # "none" THEN ask[q].ngsild
                                                   ELSE ask[q].service

Table(q, type) == [tenant |-> Tenant(q), base |-> Lower[type]]
InOrder(T) == Those(TableOrder, T)
TablesOf(t) == {tb \in meta : tb.tenant = t}

Step(q, next) == phase' = [phase EXCEPT ![q] = next]

Answer(q, code, body) ==
    /\ Step(q, "done")
    /\ answer' = [answer EXCEPT ![q] = [code |-> code, body |-> body]]
    /\ work' = [work EXCEPT ![q] = <<>>]
    /\ fetched' = [fetched EXCEPT ![q] = <<>>]
    /\ found' = [found EXCEPT ![q] = <<>>]
    /\ UNCHANGED listed

Strike(q, kind) == kind \in conf.faults /\ struck' = [struck EXCEPT ![q] = TRUE]

(* What is wrong with a request before a translator is called: parameters  *)
(* (_validate_query_params, _validate_body), a geographical query          *)
(* (handle_geo_query), a table dropped from below the root; or in it.      *)
Refusal(r) ==
    CASE r.flaw = "usage" -> 400
      [] r.flaw = "options" -> 501
      [] GeoRefusal(r.geo) # 0 -> GeoRefusal(r.geo)
      [] r.flaw = "method" -> 500
      [] r.op = "drop" /\ r.path # <<>> -> 422
      [] OTHER -> 0

(* The clauses cannot be built: InvalidParameterValue, which not every     *)
(* handler expects, or a ValueError, which none does.                      *)
Malformed(r) == r.flaw = "date" \/ ~Translates(r.geo)
BadClause(q) ==
    Answer(q, IF ask[q].flaw = "date" THEN Handler(q).badDate ELSE 500, <<>>)

(* The statements of a request once its tables are known: one per table,   *)
(* one for all of them, or one per entity.                                 *)
Statements(q, T) ==
    LET r == ask[q]  ordered == InOrder(T)  call == Handler(q).call IN
    IF T = {} THEN <<>>
    ELSE CASE call = "ids" -> <<[tables |-> ordered, ids |-> <<>>]>>
           [] call = "last_value" -> [k \in DOMAIN r.ids |->
                                [tables |-> ordered, ids |-> <<r.ids[k]>>]]
           [] call = "query" -> [k \in DOMAIN ordered |->
                                [tables |-> <<ordered[k]>>, ids |-> r.ids]]

Query(q, T) ==
    LET s == Statements(q, T) IN
    IF s = <<>> THEN Answer(q, 200, <<>>)
    ELSE /\ Step(q, "select")
         /\ work' = [work EXCEPT ![q] = s]
         /\ found' = [found EXCEPT ![q] = <<>>]
         /\ UNCHANGED <<fetched, answer, listed>>

(* Without a tenant, query_ids and query_last_value remove the names that  *)
(* have a '.', from the list they go through: the name after one that is   *)
(* removed is passed over.  The names come in any order.                   *)
Undotted(T) ==
    LET dotted == {tb \in T : tb.base \in Dotted}
        removed(gone, s) ==
            \A k \in DOMAIN s : s[k] \in dotted =>
                (s[k] \in gone <=> k = 1 \/ s[k - 1] \notin gone)
    IN  {T \ gone : gone \in
            {S \in SUBSET dotted : \E s \in SetToSeqs(T) : removed(S, s)}}
DropsDotted(q) == Tenant(q) = "none" /\ Handler(q).call \in {"ids", "last_value"}
QueryLeft(q, T) ==
    \E K \in IF DropsDotted(q) THEN Undotted(T) ELSE {T} : Query(q, K)

(* The type is known. *)
WithType(q, type) ==
    IF Malformed(ask[q]) THEN BadClause(q)
    ELSE CASE Handler(q).call = "delete" ->
                /\ Step(q, "erase")
                /\ work' = [work EXCEPT ![q] =
                      <<[tables |-> <<Table(q, type)>>, ids |-> ask[q].ids]>>]
                /\ found' = [found EXCEPT ![q] = <<>>]
                /\ UNCHANGED <<fetched, answer, listed>>
           [] Handler(q).call = "drop" ->
                /\ Step(q, "drop")
                /\ UNCHANGED <<work, fetched, found, answer, listed>>
           [] OTHER -> QueryLeft(q, {Table(q, type)})

Start(q) ==
    /\ phase[q] = "waiting"
    /\ ask[q].after # "none" => phase[ask[q].after] = "done"
    /\ LET r == ask[q] IN
       IF Refusal(r) # 0 THEN Answer(q, Refusal(r), <<>>)
       ELSE IF r.type # "none" THEN WithType(q, r.type)
       ELSE IF Handler(q).finds
            THEN Step(q, "find") /\ UNCHANGED <<work, fetched, found, answer, listed>>
       ELSE IF Malformed(r) THEN BadClause(q)
       ELSE Step(q, "list") /\ UNCHANGED <<work, fetched, found, answer, listed>>
    /\ UNCHANGED <<database, names, struck>>

-----------------------------------------------------------------------------
(* _get_entity_type: the tables are found with LIKE, whose '_' matches any *)
(* character, and searched one by one; only the listing catches its errors.*)
(* Neither statement says in which order it wants its results.             *)

Find(q) ==
    /\ phase[q] = "find"
    /\ \/ LET T == {tb \in meta : tb.tenant \in Alike[Tenant(q)]} IN
          /\ Step(q, "search")
          /\ \E listing \in SetToSeqs(T) :
                work' = [work EXCEPT ![q] =
                    [k \in DOMAIN listing |->
                        [tables |-> <<listing[k]>>, ids |-> ask[q].ids]]]
          /\ UNCHANGED <<fetched, found, answer, listed, struck>>
       \/ Strike(q, "sql") /\ Answer(q, 200, <<>>)
       \/ Strike(q, "down") /\ Answer(q, 500, <<>>)
    /\ UNCHANGED <<database, names>>

TypesIn(tb, id) == {x.type : x \in {x \in rows : x.table = tb /\ x.id = id}}

(* One more table, or the decision when none is left. *)
SearchTable(q) ==
    LET tb == Head(work[q]).tables[1] IN
    IF tb \notin tables THEN Answer(q, 500, <<>>) /\ UNCHANGED struck
    ELSE \/ /\ \E types \in SetToSeqs(TypesIn(tb, ask[q].ids[1])) :
                  found' = [found EXCEPT ![q] = @ \o types]
            /\ work' = [work EXCEPT ![q] = Tail(@)]
            /\ UNCHANGED <<phase, fetched, answer, listed, struck>>
         \/ \E kind \in {"sql", "down"} :
                Strike(q, kind) /\ Answer(q, 500, <<>>)

Search(q) ==
    /\ phase[q] = "search"
    /\ CASE work[q] # <<>> -> SearchTable(q)
         [] work[q] = <<>> /\ found[q] = <<>> ->
                Answer(q, 200, <<>>) /\ UNCHANGED struck
         [] work[q] = <<>> /\ Len(found[q]) = 1 ->
                WithType(q, found[q][1]) /\ UNCHANGED struck
         [] OTHER -> Answer(q, Handler(q).clash, <<>>) /\ UNCHANGED struck
    /\ UNCHANGED <<database, names>>

-----------------------------------------------------------------------------
(* _get_et_table_names through _execute_query_via_cache: an empty list is  *)
(* not cached, and a cache that fails is passed over.                      *)

OneKey(q) == "none"         \* mutant: tenants share a list
CacheKey(q) == Tenant(q)

Given(q, T) == listed' = [listed EXCEPT ![q] = T]

ReadNames(q) ==
    LET T == TablesOf(Tenant(q)) IN
    /\ Step(q, IF conf.cache /\ T # {} THEN "fill" ELSE "listed")
    /\ Given(q, T)
    /\ UNCHANGED <<work, fetched, found, answer>>

List(q) ==
    /\ phase[q] = "list"
    /\ LET cached == names[CacheKey(q)] IN
       \/ /\ conf.cache /\ cached # {}
          /\ Step(q, "listed") /\ Given(q, cached)
          /\ UNCHANGED <<work, fetched, found, answer, struck>>
       \/ /\ ~conf.cache \/ cached = {}
          /\ ReadNames(q) /\ UNCHANGED struck
       \/ Strike(q, "cache") /\ conf.cache /\ ReadNames(q)
       \/ Strike(q, "sql") /\ Answer(q, 200, <<>>)
       \/ Strike(q, "down") /\ Answer(q, 500, <<>>)
    /\ UNCHANGED <<database, names>>

Fill(q) ==
    /\ phase[q] = "fill"
    /\ \/ names' = [names EXCEPT ![CacheKey(q)] = listed[q]] /\ UNCHANGED struck
       \/ Strike(q, "cache") /\ UNCHANGED names
    /\ Step(q, "listed")
    /\ UNCHANGED <<database, work, fetched, found, answer, listed>>

(* A tenant's list expires after default_ttl. *)
NeverExpire(t) == FALSE     \* mutant
Expire(t) ==
    /\ names[t] # {}
    /\ names' = [names EXCEPT ![t] = {}]
    /\ UNCHANGED <<conf, ask, database, request, struck>>

-----------------------------------------------------------------------------
(* query, query_ids and query_last_value: one statement at a time. *)

Head1(q) == Head(work[q])
Asked(q) == [ask[q] EXCEPT !.ids = Head1(q).ids]
Matching(q, tb) ==
    {x \in rows : x.table = tb /\ Where(conf, Asked(q), x)}

(* What a statement may return, in every order it leaves open. *)
Newest(X) ==
    {x \in X : \A y \in X : y.id = x.id /\ y.type = x.type => y.time <= x.time}
Plain(x, row) == [type |-> x.type, id |-> x.id, time |-> x.time, row |-> row]
LatestFirst(X) == SortedBy(X, {p \in X \X X : p[1].time >= p[2].time})
Results(q) ==
    LET r == Asked(q)
        T == ToSet(Head1(q).tables)
        X == UNION {Matching(q, tb) : tb \in T}
        newest == UNION {Newest(Matching(q, tb)) : tb \in T}
    IN  CASE Handler(q).call = "ids" ->
                {Window(s, r.offset, IdLimit(r)) :
                    s \in LatestFirst({Plain(x, <<>>) : x \in newest})}
          [] Handler(q).call = "last_value" ->
                {Window(s, 0, HardLimit) :
                    s \in LatestFirst({Plain(x, <<x>>) : x \in newest})}
          [] Handler(q).call = "query" -> {Page(r, s) : s \in Orders(r, X)}

HasColumns(tb, r) ==
    /\ r.attr = "all" \/ r.attr \in ColumnsOf[tb.base]
    /\ r.geo = NoGeo \/ "location" \in ColumnsOf[tb.base]
Runs(q) ==
    \A tb \in ToSet(Head1(q).tables) :
        tb \in tables /\ HasColumns(tb, ask[q])
NoAggregate(q) == ask[q].aggr # "none" /\ ask[q].attr \in Texts

(* The next statement, or the response.  A message of the database is kept *)
(* in `found` as an entity of its own.                                     *)
Refused404 == [id |-> -1, type |-> "none", index |-> <<>>, rows |-> {}]
Respond(q, entities) ==
    LET shown == Those(entities, ToSet(entities) \ {Refused404}) IN
    IF Contains(entities, Refused404) /\ (ask[q].op = "NTNENA" => shown = <<>>)
    THEN Answer(q, 404, <<>>)
    ELSE Answer(q, 200, Body(Handler(q).body, ask[q], shown))
Proceed(q, entities) ==
    IF Len(work[q]) = 1 THEN Respond(q, entities)
    ELSE /\ Step(q, "select")
         /\ work' = [work EXCEPT ![q] = Tail(@)]
         /\ found' = [found EXCEPT ![q] = entities]
         /\ fetched' = [fetched EXCEPT ![q] = <<>>]
         /\ UNCHANGED <<answer, listed>>

(* op.query answers with nothing as soon as an entity has no value. *)
WithoutValue(q) == IF Handler(q).call = "last_value" THEN Answer(q, 200, <<>>)
                                       ELSE Proceed(q, found[q])

Begin(q) ==
    /\ phase[q] = "listed"
    /\ QueryLeft(q, listed[q])
    /\ UNCHANGED <<database, names, struck>>

Select(q) ==
    /\ phase[q] = "select"
    /\ \/ /\ Runs(q) /\ ~NoAggregate(q)
          /\ \E s \in Results(q) : fetched' = [fetched EXCEPT ![q] = s]
          /\ Step(q, "format")
          /\ UNCHANGED <<work, found, answer, listed, struck>>
       \/ /\ Runs(q) /\ NoAggregate(q)
          /\ Proceed(q, Append(found[q], Refused404)) /\ UNCHANGED struck
       \/ /\ ~Runs(q)
          /\ WithoutValue(q) /\ UNCHANGED struck
       \/ Strike(q, "sql") /\ WithoutValue(q)
       \/ Strike(q, "down") /\ Answer(q, 500, <<>>)
    /\ UNCHANGED <<database, names>>

(* _format_response reads the metadata of the tables. *)
FormatRows(q) ==
    /\ phase[q] = "format"
    /\ \/ LET es == Format(Asked(q), Head1(q).tables, meta, fetched[q]) IN
          /\ UNCHANGED struck
          /\ IF es = <<>> THEN WithoutValue(q)
             ELSE Proceed(q, found[q] \o
                             IF Handler(q).call = "last_value" THEN <<es[1]>>
                             ELSE es)
       \/ Strike(q, "sql") /\ WithoutValue(q)
       \/ Strike(q, "down") /\ Answer(q, 500, <<>>)
    /\ UNCHANGED <<database, names>>

-----------------------------------------------------------------------------
(* delete_entities and drop_table. *)

EraseAnyPath(q) ==      \* mutant: only the path is compared
    LET gone == {x \in rows : x.table = Head1(q).tables[1]
                    /\ x.path = ask[q].path} IN
    /\ rows' = rows \ gone
    /\ Step(q, "forget")
    /\ found' = [found EXCEPT ![q] = SetToSeq({"some" : x \in gone})]
    /\ UNCHANGED <<tables, meta, arrivals, work, fetched, answer, listed, struck>>
EraseRows(q) ==
    LET gone == Matching(q, Head1(q).tables[1]) IN
    /\ rows' = rows \ gone
    /\ Step(q, "forget")
    /\ found' = [found EXCEPT ![q] = SetToSeq({"some" : x \in gone})]
    /\ UNCHANGED <<tables, meta, arrivals, work, fetched, answer, listed, struck>>

Erase(q) ==
    /\ phase[q] = "erase"
    /\ \/ Head1(q).tables[1] \in tables /\ EraseRows(q)
       \/ /\ Head1(q).tables[1] \notin tables
          /\ Answer(q, 200, <<>>) /\ UNCHANGED <<database, struck>>
       \/ Strike(q, "sql") /\ Answer(q, 200, <<>>) /\ UNCHANGED database
       \/ Strike(q, "down") /\ Answer(q, 500, <<>>) /\ UNCHANGED database
    /\ UNCHANGED names

Drop(q) ==
    LET tb == Table(q, ask[q].type) IN
    /\ phase[q] = "drop"
    /\ \/ /\ tables' = tables \ {tb}
          /\ rows' = {x \in rows : x.table # tb}
          /\ Step(q, "unmeta")
          /\ UNCHANGED <<answer, work, fetched, found, listed, struck>>
       \/ /\ Strike(q, "sql") /\ Step(q, "unmeta")
          /\ UNCHANGED <<tables, rows, answer, work, fetched, found, listed>>
       \/ Strike(q, "down") /\ Answer(q, 500, <<>>) /\ UNCHANGED <<tables, rows>>
    /\ UNCHANGED <<meta, arrivals, names>>

Unmeta(q) ==
    /\ phase[q] = "unmeta"
    /\ \/ /\ meta' = meta \ {Table(q, ask[q].type)}
          /\ Step(q, "forget")
          /\ UNCHANGED <<answer, work, fetched, found, listed, struck>>
       \/ Strike(q, "sql") /\ Answer(q, 204, <<>>) /\ UNCHANGED meta
       \/ Strike(q, "down") /\ Answer(q, 500, <<>>) /\ UNCHANGED meta
    /\ UNCHANGED <<rows, tables, arrivals, names>>

Forget(q) ==
    /\ phase[q] = "forget"
    /\ \/ names' = [names EXCEPT ![CacheKey(q)] = {}] /\ UNCHANGED struck
       \/ Strike(q, "cache") /\ UNCHANGED names
    /\ Answer(q, IF ask[q].op = "drop" \/ found[q] # <<>> THEN 204 ELSE 200, <<>>)
    /\ UNCHANGED database

-----------------------------------------------------------------------------
(* An insert; it is ordered when no row of its table is newer.             *)
Insert(x) ==
    /\ x \in arrivals
    /\ arrivals' = arrivals \ {x}
    /\ rows' = rows \cup {x}
    /\ tables' = tables \cup {x.table}
    /\ meta' = meta \cup {x.table}
    /\ UNCHANGED <<conf, ask, names, request, struck>>

(* A client asks once more. *)
Again(q) ==
    /\ phase[q] = "done" /\ ask[q].again
    /\ Step(q, "waiting")
    /\ answer' = [answer EXCEPT ![q] = Unanswered]
    /\ Given(q, {})
    /\ struck' = [struck EXCEPT ![q] = FALSE]
    /\ UNCHANGED <<database, names, work, fetched, found>>

Serve(q) ==
    /\ \/ Start(q) \/ Find(q) \/ Search(q) \/ List(q) \/ Fill(q) \/ Begin(q)
       \/ Select(q) \/ FormatRows(q)
       \/ Erase(q) \/ Drop(q) \/ Unmeta(q) \/ Forget(q)
    /\ UNCHANGED <<conf, ask>>

(* The rows that a request could have shown from its start to its end.     *)
Visible == {x \in rows : x.table \in meta /\ x.table \in tables}
Ordered ==
    /\ rows \subseteq rows'
    /\ \A x \in rows' \ rows : \A y \in rows : y.table = x.table => y.time < x.time
Track ==
    /\ stable' = [q \in Requests |->
            CASE phase[q] = "waiting" -> IF phase'[q] = "waiting" THEN {} ELSE Visible
              [] phase[q] = "done" -> IF phase'[q] = "done" THEN stable[q] ELSE {}
              [] OTHER -> stable[q] \cap Visible']
    /\ shifted' = (shifted \/ ~Ordered)

Init ==
    /\ \E s \in Scenarios :
        /\ conf = s.conf /\ ask = s.ask
        /\ arrivals = s.arrivals /\ rows = s.begin
    /\ tables = {x.table : x \in rows} /\ meta = tables
    /\ names = [t \in Tenants |-> {}]
    /\ phase = [q \in Requests |-> "waiting"]
    /\ work = [q \in Requests |-> <<>>] /\ fetched = work /\ found = work
    /\ answer = [q \in Requests |-> Unanswered]
    /\ listed = [q \in Requests |-> {}] /\ stable = listed
    /\ struck = [q \in Requests |-> FALSE] /\ shifted = FALSE

Next ==
    /\ \/ \E q \in Requests : Serve(q)
       \/ \E q \in Requests : Again(q) /\ UNCHANGED <<conf, ask>>
       \/ \E x \in arrivals : Insert(x)
       \/ \E t \in Tenants : Expire(t)
    /\ Track

(* A cached list reaches its time to live, whatever the requests do.       *)
Spec ==
    /\ Init /\ [][Next]_vars
    /\ \A t \in Tenants : WF_vars(Expire(t) /\ Track)

-----------------------------------------------------------------------------
(* Properties. *)

Shown(q) ==
    UNION {UNION {e.rows : e \in ToSet(g.entities)} : g \in ToSet(answer[q].body)}
Entities(q) == UNION {ToSet(g.entities) : g \in ToSet(answer[q].body)}

(* Types of the variables; whatever tables a request was given, and every  *)
(* row it shows, are of its own tenant.                                    *)
TypeOK ==
    /\ phase \in [Requests -> Phases]
    /\ names \in [Tenants -> SUBSET AllTables]
    /\ tables \subseteq AllTables /\ meta \subseteq AllTables
    /\ \A x \in rows : x.table \in tables
    /\ \A q \in Requests :
        /\ answer[q].code \in {0, 200, 204, 400, 404, 409, 422, 500, 501}
        /\ answer[q].code # 0 <=> phase[q] = "done"
        /\ phase[q] \in {"select", "format", "erase"} => work[q] # <<>>
        /\ \A tb \in listed[q] : tb.tenant = Tenant(q)
        /\ \A x \in Shown(q) : x.table.tenant = Tenant(q)

(* No row that is visible from the start of a query to its end is missing  *)
(* from an answer that no fault struck, whatever is inserted, deleted,     *)
(* dropped, cached and expires meanwhile: a page may end before it, a      *)
(* cached list may lack its table, and one table that is dropped empties a *)
(* listing.  A series is in time order, also when the newest rows were     *)
(* asked for, and a latest value is never older than such a row.  Without  *)
(* a tenant the types with a '.' in their name are out of scope of the two *)
(* queries that drop their tables.                                         *)
Hidden(q, tb) == DropsDotted(q) /\ tb.base \in Dotted
InScope(q, x) ==
    LET r == ask[q] IN
    /\ Where(conf, r, x) /\ ~Hidden(q, x.table)
    /\ IF r.type # "none" THEN x.table = Table(q, r.type)
                          ELSE x.table.tenant = Tenant(q)
    /\ HasColumns(x.table, r)
Unlisted(q, x) == conf.cache /\ ask[q].type = "none" /\ x.table \notin listed[q]

InSeries(q, x) ==
    LET of == {y \in Shown(q) : y.table = x.table} IN
    \/ x \in of
    \/ /\ Cardinality(of) = Limit(ask[q])
       /\ \A y \in of : IF ask[q].lastN = 0 THEN y.time <= x.time
                                             ELSE y.time >= x.time
    \/ /\ ask[q].op \notin {"1T1E1A", "1T1ENA"}
       /\ Unlisted(q, x)
IsLatest(q, x) ==
    \/ \E e \in Entities(q) : e.id = x.id /\ e.index[1] >= x.time
    \/ answer[q].body = <<>> /\ \E k \in DOMAIN ask[q].ids :
            \A y \in stable[q] : InScope(q, y) => y.id # ask[q].ids[k]
Listings(q) == UNION {{<<e, k>> : k \in DOMAIN e.index} : e \in Entities(q)}
IsListed(q, x) ==
    \/ \E e \in Entities(q) : e.id = x.id
    \/ Cardinality(Listings(q)) >= IdLimit(ask[q])
    \/ Unlisted(q, x)
    \/ \E tb \in listed[q] : \A y \in stable[q] : y.table # tb

IsAscending(s) == \A j \in DOMAIN s : \A i \in 1..(j - 1) : s[i] <= s[j]

StableRowsAreShown ==
    \A q \in Requests :
        LET r == ask[q] IN
        /\ phase[q] = "done" /\ answer[q].code = 200 /\ ~struck[q]
        /\ r.aggr = "none" /\ r.offset = 0
        => /\ r.op \in SeriesOps => \A e \in Entities(q) : IsAscending(e.index)
           /\ \A x \in stable[q] : InScope(q, x) =>
            CASE r.op \in SeriesOps -> InSeries(q, x)
              [] r.op = "op" -> x.id \in ToSet(r.ids) => IsLatest(q, x)
              [] r.op = "NTNE" -> IsListed(q, x)
              [] OTHER -> TRUE

(* Two pages asked for one after the other have no row in common and leave *)
(* none out between them, as long as only newer rows come in: what is on   *)
(* neither is newer than all they show of its table.  Rows of one instant  *)
(* have no order, so there must not be any.                                *)
NoTies == \A x, y \in rows : x.table = y.table /\ x.time = y.time => x = y
PagesMeet ==
    \A p, q \in Requests :
        LET r == ask[q]
            seen == Shown(p) \cup Shown(q) IN
        /\ r.after = p /\ phase[q] = "done" /\ phase[p] = "done"
        /\ ask[p] = [r EXCEPT !.offset = 0, !.after = ask[p].after]
        /\ r.op \in SeriesOps /\ r.aggr = "none" /\ r.lastN = 0
        /\ r.offset = r.limit /\ r.limit <= DefaultLimit
        /\ answer[p].code = 200 /\ answer[q].code = 200
        /\ ~struck[p] /\ ~struck[q] /\ ~shifted /\ NoTies
        => /\ Shown(p) \cap Shown(q) = {}
           /\ \A x \in stable[p] \cap stable[q] :
                InScope(q, x) /\ ~Unlisted(p, x) /\ ~Unlisted(q, x) =>
                    x \in seen \/ \A y \in seen : y.table = x.table => y.time < x.time

(* The groups of a response by type have their own entities and each type  *)
(* once, if no two types among the entities share a table.                 *)
GroupedByType ==
    \A q \in Requests :
        LET groups == answer[q].body IN
        /\ ask[q].op \in {"NTNE1A", "NTNENA"}
        /\ \A e, f \in Entities(q) : Table(q, e.type) = Table(q, f.type) => e.type = f.type
        => /\ \A g \in ToSet(groups) : \A e \in ToSet(g.entities) : e.type = g.type
           /\ \A i, j \in DOMAIN groups : groups[i].type = groups[j].type => i = j

(* When a delete or a drop answered and no fault struck it, no row that it *)
(* was to remove has been there all along, although the type of an entity  *)
(* is searched for before and the table names are forgotten after.         *)
Doomed(q, x) ==
    LET r == ask[q] IN
    CASE r.op = "drop" -> x.table = Table(q, r.type)
      [] r.op = "delete_entities" ->
            x.table = Table(q, r.type) /\ Where(conf, r, x)
      [] r.op = "delete_entity" ->
            /\ x.table.tenant = Tenant(q) /\ Where(conf, r, x)
            /\ r.type # "none" => x.table = Table(q, r.type)
      [] OTHER -> FALSE
DeletesAreComplete ==
    \A q \in Requests :
        phase[q] = "done" /\ answer[q].code \in {200, 204} /\ ~struck[q]
        => \A x \in stable[q] : ~Doomed(q, x)

(* Once no table comes or goes any more, a list read before cannot stay in *)
(* the cache, nor come back to it, even if clients never stop asking.      *)
StaleListHeals == <>[](\A t \in Tenants : names[t] \in {{}, TablesOf(t)})
=============================================================================
