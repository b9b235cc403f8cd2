-------------------------- MODULE QueryTranslator --------------------------
(***************************************************************************)
(* What the query side of SQLTranslator and the query handlers compute     *)
(* from the rows they fetch.  No state: QueryApi runs these operators      *)
(* against a database that changes under them.                             *)
(*                                                                         *)
(* A table is [tenant, base]: entity types that differ only in case share  *)
(* its base.  A row is [table, type, id, time, path, place], with the path *)
(* "null" for an entity stored as raw JSON.  A service path is a sequence  *)
(* of names.  A fetched row is a row, whose time an aggregate may replace. *)
(***************************************************************************)
EXTENDS GeoQuery, FiniteSets

CONSTANTS
    TableOrder,     \* all tables, in the order of their names
    LowerIn,        \* types -> bases whose table name contains the lower case
    ColumnsOf,      \* bases -> attributes that are columns of the table
    Texts,          \* attributes that no aggregate can be applied to
    DefaultLimit,   \* DEFAULT_LIMIT
    HardLimit       \* 10000, in query_ids and query_last_value

-----------------------------------------------------------------------------
(* The numbers of a finite set in ascending order: the k-th is the one     *)
(* that k of them do not exceed; and the members of s that are in S, in    *)
(* the order of s.                                                         *)
Ascending(N) ==
    [k \in 1..Cardinality(N) |->
        CHOOSE m \in N : Cardinality({i \in N : i <= m}) = k]
Those(s, S) ==
    LET at == Ascending({k \in DOMAIN s : s[k] \in S})
    IN  [j \in DOMAIN at |-> s[at[j]]]

(* _get_where_clause.  The pattern of the path has no anchor: whether it   *)
(* has to match from the start is up to the database.  An empty path is    *)
(* compared with =, but none is stored: insert puts '/' in its place.      *)
EmptyPath == <<"">>
UnderPath(anchored, asked, path) ==
    /\ asked # EmptyPath /\ path # <<"null">>
    /\ \E from \in 1..(Len(path) + 1) :
        /\ anchored => from = 1
        /\ IsPrefix(asked, SubSeq(path, from, Len(path)))

Where(db, r, row) ==
    /\ r.ids = <<>> \/ row.id \in ToSet(r.ids)
    /\ row.time >= r.since
    /\ r.until = -1 \/ row.time <= r.until
    /\ UnderPath(db.anchored, r.path, row.path)
    /\ row.id \in r.pattern
    /\ GeoClause(db.backend, r.geo, row.place)

(* _get_limit, with 0 for a last_n that was not given; those below 1 do    *)
(* not get past the API specification.  query_ids has a limit of its own.  *)
Limit(r) ==
    LET limit == IF r.limit > DefaultLimit THEN DefaultLimit ELSE r.limit IN
    IF r.lastN # 0 /\ r.lastN < limit THEN r.lastN ELSE limit
IdLimit(r) == IF r.limit > HardLimit THEN HardLimit ELSE r.limit

(* DATE_TRUNC, with periods of two instants.                               *)
Truncated(t) == 2 * (t \div 2)

(* GROUP BY: one row per entity, and per period if there is one.           *)
Aggregated(r, found) ==
    CASE r.aggr = "none" -> found
      [] r.aggr = "period" -> {[x EXCEPT !.time = Truncated(@)] : x \in found}
      [] r.aggr = "total" -> {[x EXCEPT !.time = -1] : x \in found}
Keys(r, found) ==
    {[type |-> x.type, id |-> x.id, time |-> x.time,
      row |-> IF r.aggr = "none" THEN <<x>> ELSE <<>>] :
        x \in Aggregated(r, found)}

(* The listings of S whose earlier members R relates to the later ones:    *)
(* several if the order has ties.                                          *)
SortedBy(S, R) ==
    {s \in SetToSeqs(S) :
        \A i, j \in DOMAIN s : i < j => <<s[i], s[j]>> \in R}

(* _get_order_group_clause: every order the ORDER BY leaves open.          *)
Orders(r, found) ==
    LET ahead(x, y) == IF r.lastN = 0 THEN x.time <= y.time ELSE x.time >= y.time
        ordered(x, y) ==
            CASE r.aggr = "none" -> ahead(x, y)
              [] r.aggr = "period" ->
                    x.type # y.type \/ x.id < y.id \/ (x.id = y.id /\ ahead(x, y))
              [] r.aggr = "total" -> TRUE
        keys == Keys(r, found)
    IN  SortedBy(keys, {p \in keys \X keys : ordered(p[1], p[2])})

(* limit .. offset *)
Window(s, skip, count) ==
    SubSeq(s, skip + 1, IF skip + count < Len(s) THEN skip + count ELSE Len(s))
PageWithOverlap(r, s) ==        \* mutant: a page begins with the last row
    Window(s, IF r.offset = 0 THEN 0 ELSE r.offset - 1, Limit(r))
Page(r, s) == Window(s, r.offset, Limit(r))

-----------------------------------------------------------------------------
(* _format_response: the entities of the fetched rows, by id and in the    *)
(* order of the ids.  Only tables with metadata count, and a table takes   *)
(* every row whose type occurs in its name.                                *)
InTable(tb, x) == tb.base \in LowerIn[x.type]

AsFetched(r, fetched) == fetched     \* mutant: the newest stay first
InTimeOrder(r, fetched) == IF r.lastN = 0 THEN fetched ELSE Reverse(fetched)

Taken(r, tables, known, fetched) ==
    LET named == Those(tables, known)
        of(tb) == {x \in ToSet(fetched) : InTable(tb, x)}
    IN  FlattenSeq([k \in DOMAIN named |->
                        Those(InTimeOrder(r, fetched), of(named[k]))])
Own(taken, i) == Those(taken, {x \in ToSet(taken) : x.id = i})
Entity(i, own) ==
    [id |-> i, type |-> Last(own).type,
     index |-> [k \in DOMAIN own |-> own[k].time],
     rows |-> UNION {ToSet(own[k].row) : k \in DOMAIN own}]
Format(r, tables, known, fetched) ==
    LET taken == Taken(r, tables, known, fetched)
        ids == Ascending({x.id : x \in ToSet(taken)})
    IN  [k \in DOMAIN ids |-> Entity(ids[k], Own(taken, ids[k]))]

-----------------------------------------------------------------------------
(* The bodies the handlers build of the entities.  A group is the entities *)
(* a response lists together under a type.                                 *)

(* query_NTNE1A and query_NTNENA: an entity of a type that was seen before *)
(* goes to the last group, which is taken out and put back.                *)
WithoutPop(groups, e) ==        \* mutant: the group is not taken out
    IF \A g \in ToSet(groups) : g.type # e.type
    THEN Append(groups, [type |-> e.type, entities |-> <<e>>])
    ELSE Append(groups, [type |-> e.type,
                         entities |-> Append(Last(groups).entities, e)])
IntoGroup(groups, e) ==
    IF \A g \in ToSet(groups) : g.type # e.type
    THEN Append(groups, [type |-> e.type, entities |-> <<e>>])
    ELSE Append(Front(groups), [type |-> e.type,
                                entities |-> Append(Last(groups).entities, e)])
ByType(entities) ==
    LET grouped[k \in 0..Len(entities)] ==
            IF k = 0 THEN <<>> ELSE IntoGroup(grouped[k - 1], entities[k])
    IN  grouped[Len(entities)]

(* query_1TNE1A: the entities that were asked for, in that order and each *)
(* once; the order of the ids when none were.                              *)
InGivenOrder(r, entities) ==
    IF r.ids = <<>> THEN entities
    ELSE FlattenSeq([k \in DOMAIN r.ids |->
            IF r.ids[k] \in ToSet(SubSeq(r.ids, 1, k - 1)) THEN <<>>
            ELSE Those(entities, {e \in ToSet(entities) : e.id = r.ids[k]})])

(* The groups of a response: of the one entity, of those asked for, of all *)
(* of one type, or of several types.                                       *)
Body(kind, r, entities) ==
    IF entities = <<>> THEN <<>>
    ELSE CASE kind = "first" ->
                <<[type |-> entities[1].type, entities |-> <<entities[1]>>]>>
           [] kind = "asked" ->
                <<[type |-> r.type, entities |-> InGivenOrder(r, entities)]>>
           [] kind = "all" -> <<[type |-> r.type, entities |-> entities]>>
           [] kind = "types" -> ByType(entities)
=============================================================================
