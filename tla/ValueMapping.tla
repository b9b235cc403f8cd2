---------------------------- MODULE ValueMapping ----------------------------
(***************************************************************************)
(* How the SQL translators map an NGSI attribute to a column type and to   *)
(* the value they put in the column.  No state: InsertDelivery uses these  *)
(* operators, and its runs check them through the rows it stores.          *)
(*                                                                         *)
(* An attribute is a record with its name, its declared NGSI type ("none"  *)
(* when it has no type key) and the kind of its value, one of Kinds; what  *)
(* the mapping does not tell apart is one kind.  "object" is an NGSI-LD    *)
(* attribute with an `object` and no value, "lddate" a dictionary with     *)
(* '@type': 'DateTime' and an ISO '@value', "geojson" one that is a GeoJSON*)
(* geometry, "dict" one without a `type` key; "latlon" a "lat,lon" string. *)
(* "huge" is an integer that no float holds, "infinite" a float beyond the *)
(* range, such as JSON's 1e400, and "hugenumeral" a string read as one.    *)
(***************************************************************************)
EXTENDS Naturals

Strings == {"blank", "boolword", "numeral", "hugenumeral", "word", "date", "latlon"}
Ints == {"zero", "one", "int", "huge"}
Fractions == {"zerofrac", "frac", "infinite"}
Numbers == Ints \cup Fractions
Booleans == {"false", "true"}
Dicts == {"dict", "lddate", "geojson"}
Kinds == Strings \cup Numbers \cup Booleans \cup Dicts
            \cup {"null", "list", "object"}

(* Python's falsy values; a dictionary or list is never empty here.        *)
Falsy == {"null", "blank", "zero", "zerofrac", "false"}

SlfTypes == {"geo:point", "geo:line", "geo:polygon", "geo:box"}
GeoJsonTypes == {"geo:json", "GeoProperty"}
DateTypes == {"DateTime", "ISO8601"}

(* The keys of NGSI_TO_SQL of the two translators. *)
SupportedTypes(backend) ==
    DateTypes \cup GeoJsonTypes
      \cup {"Array", "Boolean", "Integer", "Number", "Text", "StructuredValue"}
      \cup IF backend = "crate" THEN {"geo:point"} ELSE SlfTypes

(* The column type NGSI_TO_SQL gives a supported type. *)
NgsiToSql(t) ==
    CASE t \in SlfTypes \cup GeoJsonTypes -> "geometry"
      [] t \in DateTypes -> "timestamp"
      [] t = "Array" -> "array"
      [] t = "Boolean" -> "boolean"
      [] t = "Integer" -> "bigint"
      [] t = "Number" -> "real"
      [] t = "Text" -> "text"
      [] t = "StructuredValue" -> "object"

(* The type an attribute is recorded under: the declared one, or one that  *)
(* its value suggests for an NGSI-LD Property and an undeclared attribute. *)
AttrType(a) ==
    CASE a.declared \notin {"none", "Property"} -> a.declared
      [] a.declared = "Property" /\ a.value = "lddate" -> "DateTime"
      [] OTHER ->
            CASE a.value = "list" -> "Array"
              [] a.value \in Dicts -> "StructuredValue"
              [] a.value \in Booleans -> "Boolean"
              [] a.value \in Ints -> "Integer"
              [] a.value \in Fractions -> "Number"
              [] a.value = "date" -> "DateTime"
              [] OTHER -> "Text"

(* _compute_type: the type of the column created for an attribute recorded *)
(* under t.  For a type the backend does not know the value decides, but   *)
(* `value or object` takes a zero, a false and an empty string for missing.*)
ColumnType(backend, t, a) ==
    IF t \in SupportedTypes(backend)
    THEN IF t = "StructuredValue" /\ a.value = "list" THEN "array"
                                                      ELSE NgsiToSql(t)
    ELSE CASE a.value = "list" -> "array"
           [] a.value \in {"lddate", "date"} -> "timestamp"
           [] a.value \in Dicts \ {"lddate"} -> "object"
           [] a.value \in Ints \ {"zero"} -> "bigint"
           [] a.value \in Fractions \ {"zerofrac"} -> "real"
           [] a.value = "true" -> "boolean"
           [] OTHER -> "text"

-----------------------------------------------------------------------------
(* The conversions of the _ngsi_*_to_db methods.  "null" is SQL's NULL and *)
(* "raises" an exception other than KeyError and ValueError, which nothing *)
(* catches before it leaves insert.                                        *)

(* float() raises OverflowError on an integer it cannot hold, int() on an  *)
(* infinity.                                                               *)
OnlyFractions(v) == IF v \in Fractions THEN v ELSE "null"   \* mutant
NumberToDb(v) ==
    CASE v \in Fractions -> v
      [] v = "huge" -> "raises"
      [] v = "hugenumeral" -> "infinite"
      [] v = "zero" -> "zerofrac"
      [] v \in {"one", "int", "numeral"} -> "frac"
      [] OTHER -> "null"

IntegerToDb(v) ==
    CASE v \in Ints -> v
      [] v \in {"infinite", "hugenumeral"} -> "raises"
      [] v = "zerofrac" -> "zero"
      [] v \in {"frac", "numeral"} -> "int"
      [] OTHER -> "null"

BooleanToDb(v) ==
    CASE v \in Booleans -> v
      [] v \in {"one", "boolword"} -> "true"
      [] v = "zero" -> "false"
      [] OTHER -> "null"

TextToDb(v) ==
    CASE v \in {"null", "object"} -> "null"
      [] v \in Strings -> v
      [] OTHER -> "word"        \* str(value)

RelationshipToDb(v) ==
    CASE v \in Falsy -> "null"
      [] v = "object" -> "word"
      [] OTHER -> v

ArrayToDb(v) == IF v = "list" THEN v ELSE "null"
DateToDb(v) == IF v = "date" THEN v ELSE "null"
LdDateToDb(v) == "date"       \* its @value parses
DefaultToDb(v) == IF v = "object" THEN "null" ELSE v

(* An array goes to a column of dictionaries as an array.                  *)
StructuredToDb(v) == IF v = "list" \/ v \in Dicts THEN v ELSE "null"

(* A simple location: Crate splits the string of a point, and has nothing  *)
(* for the other shapes; Timescale fails on any shape it cannot parse.     *)
SlfParses(a) == a.value = IF a.declared = "geo:point" THEN "latlon" ELSE "list"
SlfToDb(backend, a) ==
    LET isPoint == a.declared = "geo:point" IN
    CASE backend = "timescale" -> IF SlfParses(a) THEN "shape" ELSE "raises"
      [] backend = "crate" /\ ~isPoint -> "null"
      [] backend = "crate" /\ isPoint ->
            CASE SlfParses(a) -> "shape"
              [] a.value \in Strings \ {"latlon"} -> "null"
              [] OTHER -> "raises"

(* A GeoJSON value: Crate is sent what is there; Timescale encodes it as   *)
(* WKT, which fails on anything that is no geometry, a null included.      *)
GeoJsonToDb(backend, v) ==
    CASE v = "geojson" -> "shape"
      [] v # "geojson" /\ backend = "timescale" -> "raises"
      [] v # "geojson" /\ backend = "crate" -> DefaultToDb(v)

(* _preprocess_values for one attribute: what goes into its column when    *)
(* the batch recorded the column under type t.                             *)
DbValue(backend, t, a) ==
    LET v == a.value IN
    CASE a.declared \in SlfTypes -> SlfToDb(backend, a)
      [] a.declared \notin SlfTypes /\ t \in GeoJsonTypes -> GeoJsonToDb(backend, v)
      [] a.declared = "Property" /\ v = "lddate" /\ t \notin GeoJsonTypes
            -> LdDateToDb(v)
      [] OTHER ->
            CASE t = "Text" -> TextToDb(v)
              [] t \in DateTypes -> DateToDb(v)
              [] t = "Boolean" -> BooleanToDb(v)
              [] t = "Number" -> NumberToDb(v)
              [] t = "Integer" -> IntegerToDb(v)
              [] t = "Relationship" -> RelationshipToDb(v)
              [] t = "Array" -> ArrayToDb(v)
              [] t = "StructuredValue" -> StructuredToDb(v)
              [] OTHER -> DefaultToDb(v)

(* What the database takes for a column, by the value's SQL type and, for  *)
(* a string, by whether it parses.                                         *)
Fits(column, v) ==
    \/ v = "null"
    \/ CASE column = "text" -> v \notin {"shape"}
         [] column = "bigint" -> v \in (Numbers \ {"huge", "infinite"}) \cup {"numeral"}
         [] column = "real" -> v \in (Numbers \ {"huge"}) \cup {"numeral"}
         [] column = "boolean" -> v \in Booleans \cup {"boolword"}
         [] column = "timestamp" -> v = "date"
         [] column = "array" -> v = "list"
         [] column = "object" -> v \in Dicts
         [] column = "geometry" -> v \in {"shape", "geojson"}

(* Values that a declared type is made for. *)
Conforms(a) ==
    CASE a.declared = "Number" -> a.value \in Numbers \ {"huge"}
      [] a.declared = "Integer" -> a.value \in Ints
      [] a.declared = "Boolean" -> a.value \in Booleans
      [] a.declared = "Text" -> a.value \in Strings
      [] a.declared \in DateTypes -> a.value = "date"
      [] a.declared = "Array" -> a.value = "list"
      [] a.declared = "StructuredValue" -> a.value \in Dicts \cup {"list"}
      [] a.declared = "geo:point" -> a.value = "latlon"
      [] a.declared \in GeoJsonTypes -> a.value = "geojson"
      [] a.declared = "Relationship" -> a.value \in {"word", "object"}
      [] a.declared \in {"Property", "none"} -> a.value \notin {"null", "object"}
      [] OTHER -> FALSE
=============================================================================
