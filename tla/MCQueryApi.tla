----------------------------- MODULE MCQueryApi -----------------------------
(* Model values for checking QueryApi with TLC.  Tenant "a_b" is the one   *)
(* whose name is a pattern that matches "axb".                             *)
EXTENDS QueryApi

CONSTANTS q1, q2

MCRequests == {q1, q2}
MCTenants == {"a_b", "axb", "none"}
MCAlike == "a_b" :> {"a_b", "axb"} @@ "axb" :> {"axb"} @@ "none" :> {"none"}
MCLower == "Room" :> "room" @@ "room" :> "room" @@ "Ballroom" :> "ballroom"
                @@ "Car.v1" :> "car.v1" @@ "Car.v2" :> "car.v2"
MCLowerIn == "Room" :> {"room", "ballroom"} @@ "room" :> {"room", "ballroom"}
                @@ "Ballroom" :> {"ballroom"}
                @@ "Car.v1" :> {"car.v1"} @@ "Car.v2" :> {"car.v2"}
MCDotted == {"car.v1", "car.v2"}
Tb(t, b) == [tenant |-> t, base |-> b]
Ballrooms == Tb("a_b", "ballroom")
Rooms == Tb("a_b", "room")
Others == Tb("axb", "ballroom")
Cars1 == Tb("none", "car.v1")
Cars2 == Tb("none", "car.v2")
Halls == Tb("none", "room")
MCTableOrder == <<Cars1, Cars2, Halls, Ballrooms, Rooms, Others>>
MCColumnsOf == "room" :> {"temp", "name", "location"} @@ "ballroom" :> {"temp"}
                @@ "car.v1" :> {"temp"} @@ "car.v2" :> {"temp"}
MCTexts == {"name"}

Row(tb, ty, id, t, p) ==
    [table |-> tb, type |-> ty, id |-> id, time |-> t, path |-> p, place |-> <<>>]
A1 == Row(Rooms, "Room", 1, 1, <<"a">>)
A2 == Row(Rooms, "Room", 2, 2, <<"a", "b">>)
A3 == Row(Rooms, "Room", 1, 3, <<"x", "a">>)
A4 == Row(Rooms, "Room", 2, 5, <<"a">>)
Late == Row(Rooms, "Room", 2, 0, <<"a">>)
Cased == Row(Rooms, "room", 3, 6, <<"a">>)
Raw == Row(Rooms, "Room", 1, 4, <<"null">>)
B1 == Row(Ballrooms, "Ballroom", 4, 2, <<"a">>)
B2 == Row(Ballrooms, "Ballroom", 5, 3, <<"a">>)
B3 == Row(Ballrooms, "Ballroom", 1, 4, <<"a">>)
C1 == Row(Others, "Ballroom", 2, 4, <<"a">>)
D1 == Row(Cars1, "Car.v1", 6, 2, <<"a">>)
D2 == Row(Cars2, "Car.v2", 7, 3, <<>>)
D3 == Row(Halls, "Room", 8, 4, <<"a">>)

Base == [op |-> "NTNENA", service |-> "a_b", ngsild |-> "none", type |-> "none",
         ids |-> <<>>, path |-> <<>>, limit |-> 4, offset |-> 0, lastN |-> 0,
         aggr |-> "none", attr |-> "all", since |-> 0, until |-> -1,
         pattern |-> 1..9, flaw |-> "none",
         after |-> "none", again |-> FALSE, geo |-> NoGeo]
Op(o) == [Base EXCEPT !.op = o]
Of(o, ty) == [Base EXCEPT !.op = o, !.type = ty]
One(o, id) == [Base EXCEPT !.op = o, !.ids = <<id>>]

Conf(c, a, f) ==
    [cache |-> c, backend |-> IF a THEN "crate" ELSE "timescale",
     anchored |-> a, faults |-> f]
Scenario(c, r1, r2, begin, come) ==
    [conf |-> c, ask |-> q1 :> r1 @@ q2 :> r2, begin |-> begin, arrivals |-> come]

Quiet == [Of("1TNENA", "Room") EXCEPT !.flaw = "usage"]
Unfaulty == Conf(TRUE, TRUE, {})

(* Each kind of query, alone with inserts, in a faulty environment. *)
Series ==
    {Of("1TNE1A", "Room"), [Of("1TNE1A", "Room") EXCEPT !.ids = <<2, 1, 2>>],
     [Of("1TNENA", "Room") EXCEPT !.path = <<"a">>],
     [Of("1TNENA", "Room") EXCEPT !.lastN = 2, !.ids = <<1>>],
     [Of("1TNENA", "Room") EXCEPT !.lastN = 1],
     [Of("1TNENA", "Room") EXCEPT !.since = 2, !.until = 3],
     [Of("1TNENA", "Room") EXCEPT !.limit = 2],
     [Of("1TNENA", "Room") EXCEPT !.pattern = {2}], [Op("NTNENA") EXCEPT !.path = EmptyPath],
     [Op("NTNE") EXCEPT !.until = 2, !.pattern = {1, 4}],
     [Of("1TNENA", "Room") EXCEPT !.aggr = "period", !.attr = "temp"],
     [Of("1TNE1A", "Room") EXCEPT !.aggr = "total", !.attr = "temp"],
     [Op("NTNE1A") EXCEPT !.aggr = "total", !.attr = "name"],
     [Op("NTNENA") EXCEPT !.aggr = "total", !.attr = "name"],
     [Op("NTNE1A") EXCEPT !.attr = "name"], Op("NTNENA"),
     One("1T1E1A", 1), One("1T1ENA", 2), One("1T1E1A", 9),
     [One("1T1ENA", 1) EXCEPT !.type = "Room"],
     Op("NTNE"), Of("NTNE", "Room"), [Op("NTNE") EXCEPT !.path = <<"a">>, !.limit = 2],
     [Of("op", "Room") EXCEPT !.ids = <<1, 2>>],
     [Of("op", "Room") EXCEPT !.ids = <<1>>, !.path = <<"a">>],
     [Of("op", "Room") EXCEPT !.ids = <<9, 1>>],
     [Of("op", "Room") EXCEPT !.ids = <<1>>, !.ngsild = "axb"]}
Flawed ==
    {[One("1T1E1A", 1) EXCEPT !.flaw = f] : f \in {"options", "method", "date"}}
    \cup {[Op("NTNE1A") EXCEPT !.flaw = "date"], [One("delete_entity", 1) EXCEPT !.flaw = "date"],
          [Of("drop", "Room") EXCEPT !.path = <<"a">>]}

Faulty ==
    {Scenario(Conf(TRUE, a, f), r, Quiet, {A1, A2, A3, B1}, {A4, Late}) :
        r \in Series \cup Flawed, a \in BOOLEAN, f \in {{}, {"sql", "down", "cache"}}}
    \cup {Scenario(Unfaulty, Op("NTNE1A"), Quiet, {A1, B1, B2}, {A4, Cased, Raw}),
          Scenario(Unfaulty, [Op("NTNE1A") EXCEPT !.aggr = "total"], Quiet,
                   {A1, B1}, {A2, Cased}),
          Scenario(Unfaulty, [Op("NTNE") EXCEPT !.limit = 2], Quiet, {A4, B1, B3}, {Raw}),
          Scenario(Unfaulty, Op("NTNE"), Quiet, {A1, A2, B1, B2}, {Raw})}

(* Requests without a tenant, for types with a '.' in their name too.      *)
Bare(r) == [r EXCEPT !.service = "none"]
Tenantless ==
    {Scenario(c, Bare(r), Quiet, {D1, D2}, {D3}) :
        c \in {Unfaulty, Conf(FALSE, FALSE, {})},
        r \in {Op("NTNE"), Of("NTNE", "Car.v1"), Of("NTNE", "Room"), Op("NTNENA"),
               One("1T1ENA", 6), [Of("op", "Car.v2") EXCEPT !.ids = <<7>>],
               [Of("op", "Room") EXCEPT !.ids = <<8>>]}}

(* Geographical queries against rooms at a few places, with parameters     *)
(* that are refused and with some that fail later.                         *)
Geo(rel, geometry, coords) ==
    [georel |-> rel, geometry |-> geometry, coords |-> coords, min |-> -1, max |-> -1]
Within(g, min, max) == [g EXCEPT !.min = min, !.max = max]
Areas ==
    {Geo(rel, "line", <<2, 4>>) : rel \in Shapes \cup {"none", "near", "beyond"}}
    \cup {Geo("coveredBy", "polygon", <<1, 4, 4, 1>>), Geo("disjoint", "box", <<4, 2, Odd>>),
          Geo("intersects", "point", <<5, Odd>>), Geo("intersects", "point", <<>>),
          Geo("disjoint", "polygon", <<1, 2, 1>>), Geo("disjoint", "circle", <<1>>),
          Geo("intersects", "line", <<2, Odd>>), Geo("intersects", "line", <<2, 3, Odd>>)}
    \cup {Within(Geo("near", "point", <<2>>), 2, -1), Within(Geo("near", "point", <<2>>), -1, 2),
          Within(Geo("near", "line", <<2, 4>>), 1, 2), Within(Geo("near", "line", <<2, 4, Odd>>), 1, 2)}
Near2 == [A1 EXCEPT !.place = <<2>>]
At4 == [A2 EXCEPT !.place = <<4>>]
Road == [A4 EXCEPT !.place = <<3, 7>>]
Located ==
    {Scenario(Conf(TRUE, a, {}), [r EXCEPT !.geo = g], Quiet, {Near2, At4, A3, B1}, {Road}) :
        r \in {Of("1TNENA", "Room"), Op("NTNENA"), One("1T1E1A", 1)}, g \in Areas, a \in BOOLEAN}

Paging ==
    {Scenario(c, [Of("1TNENA", "Room") EXCEPT !.limit = 2],
              [Of("1TNENA", "Room") EXCEPT !.limit = 2, !.offset = 2, !.after = q1],
              b, {Row(Rooms, "Room", 2, 4, <<"a">>), Late}) :
        c \in {Unfaulty, Conf(TRUE, TRUE, {"sql"})}, b \in {{A1, A2, A3}, {A1}}}
    \cup {Scenario(Unfaulty, [Op("NTNENA") EXCEPT !.limit = 1],
              [Op("NTNENA") EXCEPT !.limit = 1, !.offset = 1, !.after = q1], {A1, A2, B1, B3}, {A4})}

Removals ==
    {One("delete_entity", 1), [One("delete_entity", 2) EXCEPT !.path = <<"a">>],
     Of("delete_entities", "Room"), Of("drop", "Room"), Of("drop", "Ballroom"),
     [Of("delete_entities", "Ballroom") EXCEPT !.ngsild = "axb"]}
Racing ==
    {Scenario(c, r, d, {A1, A2, B1}, {B3}) :
        c \in {Unfaulty, Conf(FALSE, FALSE, {}), Conf(TRUE, TRUE, {"cache", "sql", "down"})},
        r \in {Op("NTNE"), Op("NTNENA"), One("1T1E1A", 1),
               [Of("op", "Room") EXCEPT !.ids = <<1, 2>>]},
        d \in Removals}
    \cup {Scenario(Unfaulty, [Op("NTNE") EXCEPT !.again = TRUE],
                   [Op("NTNE") EXCEPT !.again = TRUE, !.service = "axb"],
                   {A1}, {B1, C1}),
          Scenario(Unfaulty, [Op("NTNE") EXCEPT !.again = TRUE], Of("drop", "Room"),
                   {A1, B1}, {}),
          Scenario(Unfaulty, One("1T1E1A", 2), One("delete_entity", 2), {A2}, {C1})}

MCScenarios == Faulty \cup Tenantless \cup Located \cup Paging \cup Racing
=============================================================================
