------------------------------ MODULE StableJson ------------------------------
(***************************************************************************)
(* ICP-enabled JSON (lib/stable_structures/stable_json.ts): what a         *)
(* JavaScript value is replaced by before it is written as JSON, and what  *)
(* JSON is revived as after it is read.  Json has the recursion.           *)
(*                                                                         *)
(* A value is a record with one field, or two, that says what it is:       *)
(*   plain             a string, a number, a boolean or null               *)
(*   special, text     a value JSON has no form for, and its text          *)
(*   typed, elements   a typed array                                       *)
(*   array, set        sequences of values; a hole in an array reads as    *)
(*                     undefined and is not told apart from it             *)
(*   map               a sequence of pairs of values                       *)
(*   object            a sequence of properties <<name, value>>            *)
(* JSON is the values made of plain ones, arrays and objects.              *)
(***************************************************************************)
EXTENDS Naturals, Sequences

Specials ==
    {"undefined", "bigint", "principal", "nan", "infinity", "negative_infinity", "negative_zero"}

TypedArrays ==
    {"int8array", "int16array", "int32array", "bigint64array",
     "uint8array", "uint16array", "uint32array", "biguint64array",
     "float32array", "float64array"}

Is(form, v) == form \in DOMAIN v

Undefined == [special |-> "undefined", text |-> "undefined"]

\* An object with a marker, such as __bigint__, for its only property.
Marked(kind, content) == [object |-> <<<<kind, content>>>>]

\* Mutant: what a Set holds is written as the Set is, with no properties.
ReplacerWithoutSet(v) ==
    CASE Is("special", v) -> Marked(v.special, [plain |-> v.text])
      [] Is("typed", v) -> Marked(v.typed, [array |-> v.elements])
      [] Is("map", v) -> Marked("map", [array |-> [i \in DOMAIN v.map |-> [array |-> v.map[i]]]])
      [] Is("set", v) -> [object |-> <<>>]
      [] OTHER -> v

jsonReplacer(v) ==
    CASE Is("special", v) -> Marked(v.special, [plain |-> v.text])
      [] Is("typed", v) -> Marked(v.typed, [array |-> v.elements])
      [] Is("map", v) -> Marked("map", [array |-> [i \in DOMAIN v.map |-> [array |-> v.map[i]]]])
      [] Is("set", v) -> Marked("set", [array |-> v.set])
      [] OTHER -> v

\* What the marker of an object stands for, with the content it needs.
Revived(kind, content) ==
    CASE kind \in Specials -> [special |-> kind, text |-> content.plain]
      [] kind \in TypedArrays -> [typed |-> kind, elements |-> content.array]
      [] kind = "map" -> [map |-> [i \in DOMAIN content.array |-> content.array[i].array]]
      [] kind = "set" -> [set |-> content.array]

IsMarker(property) ==
    \/ property[1] \in Specials /\ Is("plain", property[2])
    \/ property[1] \in TypedArrays \union {"map", "set"} /\ Is("array", property[2])

jsonReviver(v) ==
    IF Is("object", v) /\ \E i \in DOMAIN v.object : IsMarker(v.object[i])
    THEN LET marker == v.object[CHOOSE i \in DOMAIN v.object : IsMarker(v.object[i])]
         IN  Revived(marker[1], marker[2])
    ELSE v

-----------------------------------------------------------------------------
(* One level of JSON.stringify and JSON.parse *)

\* What is directly inside of an array or an object.
Inside(json) ==
    CASE Is("array", json) -> {json.array[i] : i \in DOMAIN json.array}
      [] Is("object", json) -> {json.object[i][2] : i \in DOMAIN json.object}
      [] OTHER -> {}

\* The same with f of what is inside.
Mapped(json, f) ==
    CASE Is("array", json) -> [array |-> [i \in DOMAIN json.array |-> f[json.array[i]]]]
      [] Is("object", json) ->
            [object |-> [i \in DOMAIN json.object |-> <<json.object[i][1], f[json.object[i][2]]>>]]
      [] OTHER -> json

\* JSON.parse deletes a property that its reviver makes undefined.
WithoutUndefined(v) ==
    IF Is("object", v) /\ \E i \in DOMAIN v.object : v.object[i][2] = Undefined
    THEN [object |-> SelectSeq(v.object, LAMBDA property : property[2] # Undefined)]
    ELSE v

\* A value written: the replacer comes before what is inside, which is written by write.
Written(v, write) == Mapped(jsonReplacer(v), write)

\* JSON read: the reviver comes after what is inside, which is read by read.
Read(json, read) == jsonReviver(WithoutUndefined(Mapped(json, read)))

-----------------------------------------------------------------------------
(* What comes back *)

IsFunction(f) == f = [i \in DOMAIN f |-> f[i]]

\* v is a value of one form, and if it is an object, then none of its properties is
\* undefined, which is deleted, or looks like a marker, which is revived.
Supported(v) ==
    /\ IsFunction(v)
    /\ \/ DOMAIN v = {"plain"}
       \/ DOMAIN v = {"special", "text"} /\ v.special \in Specials
       \/ DOMAIN v = {"typed", "elements"} /\ v.typed \in TypedArrays /\ IsFunction(v.elements)
       \/ DOMAIN v = {"array"} /\ IsFunction(v.array)
       \/ DOMAIN v = {"set"} /\ IsFunction(v.set)
       \/ DOMAIN v = {"map"} /\ IsFunction(v.map) /\ \A i \in DOMAIN v.map : IsFunction(v.map[i])
       \/ /\ DOMAIN v = {"object"}
          /\ IsFunction(v.object)
          /\ \A i \in DOMAIN v.object :
                /\ v.object[i] = <<v.object[i][1], v.object[i][2]>>
                /\ v.object[i][2] # Undefined
                /\ ~IsMarker(v.object[i])

\* write and read are what JSON.stringify and JSON.parse make of values in V, which has
\* what is inside of its values, less deep than they are.
Serialize(V, depth, write, read) ==
    \A v \in V :
        /\ Supported(v)
        /\ depth[v] \in Nat
        /\ \A x \in Inside(jsonReplacer(v)) : x \in V /\ depth[x] < depth[v]
        /\ write[v] = Written(v, write)
        /\ read[write[v]] = Read(write[v], read)
=============================================================================
