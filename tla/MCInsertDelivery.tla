-------------------------- MODULE MCInsertDelivery --------------------------
(* Model values for checking InsertDelivery with TLC. *)
EXTENDS InsertDelivery, TLC

CONSTANTS t1, t2

MCTasks == {t1, t2}
MCTypes == {"Room", "Car"}
MCColumn == "temp" :> "temp" @@ "Temp" :> "temp" @@ "loc" :> "loc"
            @@ "location" :> "location" @@ Reserved :> Reserved
MCAddressKeys == {"a", "b"}

Entity(type, name, declared, value) ==
    [type |-> type, name |-> name, declared |-> declared, value |-> value,
     location |-> NoLocation, address |-> NoAddress,
     times |-> {}, trouble |-> "none"]

Good == Entity("Room", "temp", "Number", "frac")
Clash == Entity("Room", "temp", "Text", "word")
Cased == Entity("Room", "Temp", "Number", "int")
Other == Entity("Car", "temp", "Number", "int")
Blind == Entity("Room", "temp", "Number", "null")
Lost == Entity("Room", "loc", "geo:point", "null")
Timed == [Good EXCEPT !.times = {3, 11}]
NoType == [Good EXCEPT !.trouble = "no type"]
MixedTimes == [Good EXCEPT !.trouble = "times"]

(* Keys do not tell all addresses apart: "a" is asked for with two kinds.  *)
At(e, key, form, parts) ==
    [e EXCEPT !.address = [key |-> key, form |-> form, parts |-> parts]]
BadAddress == At(Good, "a", "dict", {"number", "country"})
Houses == {At(Blind, "a", "dict", {"street", "number", "locality"}),
           At(Good, "b", "dict", {"street", "country"})}
Town == At(Good, "a", "dict", {"locality"})
Locations == {Location("geo:line", "list"), Location("geo:point", "word"),
              Location("GeoProperty", "geojson")}
Placed == {[Blind EXCEPT !.location = l] : l \in Locations}
            \cup {[Good EXCEPT !.location = Location("geo:line", "list"),
                              !.trouble = "location"]}

(* With a null location only the other attributes keep an entity, which    *)
(* here has one: a geo:point that is a list stands for it.                 *)
Stuck == [Lost EXCEPT !.value = "list"]

Shape == Entity("Room", "temp", "geo:json", "geojson")
NoShape == Entity("Room", "temp", "geo:json", "dict")
Infinite == Entity("Room", "temp", "Number", "infinite")
Huge == Entity("Room", "temp", "Custom", "huge")
Named == Entity("Room", Reserved, "Number", "frac")

Note(es, ps) == [entities |-> es, paths |-> ps]

Batches == {Note(<<Good, Other, Timed>>, <<"/a">>),
            Note(<<Good, Clash>>, <<"/a">>),
            Note(<<Clash, Good, Other>>, <<"/a", "/b", "/a">>),
            Note(<<Good, Cased>>, <<"/b">>),
            Note(<<Other, Stuck>>, <<"/a">>),
            Note(<<Good, Infinite, Huge>>, <<"/a">>),
            Note(<<NoShape, Shape>>, <<"/a">>),
            Note(<<Other, Named>>, <<"/a">>)}
Odd == {Note(<<Blind, Good>>, <<"/a", "/b">>),
        Note(<<Blind, Good, Other>>, <<"/a", "/b">>),
        Note(<<Blind>>, <<"/a">>),
        Note(<<NoType>>, <<"/a">>),
        Note(<<MixedTimes>>, <<"/a">>),
        Note(<<BadAddress>>, <<"/a">>)}
Places2 == {Note(<<e, f>>, <<"/a">>) : e \in Houses, f \in {Good, Town, NoType}}
            \cup {Note(<<At(e, "a", "text", {})>>, <<"/a">>) : e \in Placed}
            \cup {Note(<<e, Good>>, <<"/a">>) : e \in Placed}
            \cup {Note(<<At(Good, "a", "dict", p)>>, <<"/a">>) :
                    p \in {{"region"}, {"street", "number"}}}
Declared == (SupportedTypes("timescale") \ {"ISO8601", "geo:polygon", "geo:box"})
              \cup {"none", "Property", "Relationship", "Custom"}
MCNgsiTypes == Declared \cup SlfTypes
Singles == {Note(<<Entity("Room", "temp", d, v)>>, <<"/a">>) :
                d \in Declared, v \in Kinds}

Conf(b, off, rec, geo, f) ==
    [backend |-> b, offload |-> off, recover |-> rec, geocoding |-> geo, faults |-> f]
Scenario(c, n1, n2) == [conf |-> c, notes |-> t1 :> n1 @@ t2 :> n2]

Backends == {"crate", "timescale"}
Alone == {Note(<<NoType>>, <<"/a">>)}      \* the other task is refused at once

MCScenarios ==
    {Scenario(Conf(b, TRUE, FALSE, "off", {"connection", "down", "masked", "crash"}),
              Batches, Alone) : b \in Backends}
    \cup {Scenario(Conf(b, TRUE, FALSE, "off", f), Batches,
                   {Note(<<Clash>>, <<"/a">>)}) : b \in Backends, f \in {{}, {"crash"}}}
    \cup {Scenario(Conf(b, off, rec, geo, {"redis", "connection"}), Odd, Alone) :
            b \in Backends, off \in BOOLEAN, rec \in BOOLEAN, geo \in {"off", "on"}}
    \cup {Scenario(Conf(b, TRUE, FALSE, geo, {"redis"}), Places2,
                   {Note(<<Town>>, <<"/a">>)}) : b \in Backends, geo \in {"off", "cached"}}
    \cup {Scenario(Conf(b, TRUE, FALSE, "off", {}), Singles, {Note(<<Good>>, <<"/b">>)}) :
            b \in Backends}
=============================================================================
