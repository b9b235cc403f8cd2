----------------------------- MODULE Geocoding -----------------------------
(***************************************************************************)
(* How notify gives an entity its location: one it lacks is looked up with *)
(* its address, in the cache or at the provider, and one it has is turned  *)
(* into GeoJSON.  No state: InsertDelivery keeps the cache.                *)
(*                                                                         *)
(* A location is an attribute (see ValueMapping); NoLocation stands for    *)
(* none, and Raises for an exception that leaves notify.  An address is its*)
(* key, which is what the provider is asked for, and the parts that are    *)
(* given of it.                                                            *)
(***************************************************************************)
EXTENDS ValueMapping

Location(declared, value) ==
    [name |-> "location", declared |-> declared, value |-> value]
NoLocation == [name |-> "none", declared |-> "none", value |-> "null"]
Raises == [NoLocation EXCEPT !.name = "raises"]
GeoPoint == Location("geo:point", "latlon")
GeoJson == Location("geo:json", "geojson")

(* get_address_key_and_type: the kind that the parts given in an address   *)
(* make.  An address that is absent or no dictionary is of no kind.        *)
NoAddress == [key |-> "none", parts |-> {}, form |-> "absent"]
KindOf(address) ==
    LET has(parts) == parts \cap address.parts # {} IN
    CASE address.form \in {"absent", "text"} -> "none"
      [] address.form = "dict" ->
            CASE has({"number"}) /\ ~has({"street"}) -> "invalid"
              [] ~has({"street", "locality", "country"}) -> "invalid"
              [] has({"street"}) /\ ~has({"locality", "region", "country"}) -> "invalid"
              [] OTHER -> IF ~has({"street"}) THEN "relation"
                          ELSE IF has({"number"}) THEN "point" ELSE "way"

(* What becomes of the provider's answer: an error and an empty one leave  *)
(* the entity without a location, as does one without a result of the kind *)
(* that is wanted.  For a point that result is another place's coordinates,*)
(* and if there is one with a point, reading its geometry fails.           *)
Answers == {"error", "nothing", "other", "match"}
Extracted(kind, answer) ==
    CASE answer \in {"error", "nothing"} -> NoLocation
      [] kind = "point" /\ answer = "other" -> GeoPoint
      [] kind = "point" /\ answer = "match" -> Raises
      [] kind # "point" /\ answer = "other" -> NoLocation
      [] kind # "point" /\ answer = "match" -> GeoJson

(* add_location: the location of an entity that had none, given what the   *)
(* cache holds for its address.                                            *)
Located(kind, cached, answer) ==
    CASE kind = "none" -> NoLocation
      [] kind = "invalid" -> Raises
      [] OTHER -> IF cached # NoLocation THEN cached ELSE Extracted(kind, answer)

(* from_location_attribute *)
IsReadable(location) == location.declared \in SlfTypes /\ SlfParses(location)

(* normalize_location: what is no GeoJSON and cannot be read stays as it   *)
(* is.  Of a line or polygon only the first points are read before that is *)
(* decided; `broken` says that a later one cannot be.                      *)
Normalized(location, broken) ==
    CASE location.declared \in GeoJsonTypes ->
            [location EXCEPT !.declared = "geo:json"]
      [] IsReadable(location) -> IF broken THEN Raises ELSE GeoJson
      [] OTHER -> location
=============================================================================
