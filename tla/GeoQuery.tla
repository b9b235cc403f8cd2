------------------------------ MODULE GeoQuery ------------------------------
(***************************************************************************)
(* Geographical queries: how the parameters georel, geometry and coords    *)
(* are parsed, and what the clause made of them matches.  No state:        *)
(* QueryApi refuses requests and selects rows with these operators.        *)
(*                                                                         *)
(* Places are integers on a line and a shape is the part of it between its *)
(* outermost points, which is all that the relations and the mean of the   *)
(* points tell apart; metres and degrees are the same.  `coords` is empty  *)
(* when it was not given or does not match its pattern.  The pattern takes *)
(* a comma for a sign, so a pair it lets through may still not be numbers: *)
(* that is Odd.  A distance that was not given is -1.                      *)
(***************************************************************************)
EXTENDS Integers, SequencesExt

Odd == -1
NoGeo == [georel |-> "none", geometry |-> "none", coords |-> <<>>,
          min |-> -1, max |-> -1]

(* lookup_geom_builder, and what ensure_min_items asks for.                *)
Geometries == {"point", "line", "polygon", "box"}
MinItems(geometry) ==
    CASE geometry = "point" -> 1
      [] geometry \in {"line", "box"} -> 2
      [] geometry = "polygon" -> 4

(* The points of the shape: a point and a box leave the others unread.     *)
Points(g) ==
    IF g.geometry \in {"point", "box"} THEN SubSeq(g.coords, 1, MinItems(g.geometry))
                                       ELSE g.coords

(* Coordinates are read on demand: to build a shape only the first ones,   *)
(* to find the centre for a near query all of them.                        *)
ReadAtOnce(g) ==
    IF g.georel = "near" THEN Points(g)
                         ELSE SubSeq(g.coords, 1, MinItems(g.geometry))

IsGeometry(g) ==
    /\ g.geometry \in Geometries
    /\ Len(g.coords) >= MinItems(g.geometry)
    /\ Odd \notin ToSet(ReadAtOnce(g))

(* One of the patterns matches georel; near has at least one distance.     *)
Shapes == {"intersects", "disjoint", "equals", "coveredBy"}
IsNear(g) == g.georel = "near" /\ {g.min, g.max} # {-1}
IsQuery(g) == IsGeometry(g) /\ (g.georel \in Shapes \/ IsNear(g))

(* handle_geo_query: the status that refuses a request, or 0.              *)
GeoRefusal(g) ==
    CASE g = NoGeo -> 0
      [] g # NoGeo /\ ~IsQuery(g) -> 400
      [] g # NoGeo /\ IsQuery(g) -> IF g.georel = "equals" THEN 422 ELSE 0

(* What was not read then is read for the SQL text, where nothing expects  *)
(* it to fail.                                                             *)
Translates(g) == Odd \notin ToSet(Points(g))

-----------------------------------------------------------------------------
Extent(s) == UNION {i..j : i, j \in ToSet(s)}
Mean(s) == FoldSeq(LAMBDA x, y : x + y, 0, s) \div Len(s)
Distance(x, y) == IF x < y THEN y - x ELSE x - y

(* Crate compares the distance with both bounds; PostGIS has a test that   *)
(* includes its bound, and Timescale negates it for the least distance.    *)
NearInCrate(g, d) ==
    /\ g.min # -1 => d >= g.min
    /\ g.max # -1 => d <= g.max
DWithin(d, length) == d <= length
NearInTimescale(g, d) ==
    /\ g.min # -1 => ~DWithin(d, g.min)
    /\ g.max # -1 => DWithin(d, g.max)

Relates(georel, there, shape) ==
    CASE georel = "intersects" -> there \cap shape # {}
      [] georel = "disjoint" -> there \cap shape = {}
      [] georel = "coveredBy" -> there \subseteq shape

(* The clause for a row with its location at `place`; no location, no row. *)
GeoClause(backend, g, place) ==
    LET points == Points(g)
        d == Distance(Mean(place), Mean(points)) IN
    \/ g = NoGeo
    \/ /\ place # <<>>
       /\ IF g.georel # "near" THEN Relates(g.georel, Extent(place), Extent(points))
          ELSE IF backend = "crate" THEN NearInCrate(g, d) ELSE NearInTimescale(g, d)
=============================================================================
