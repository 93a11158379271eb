--------------------------------- MODULE Json ---------------------------------
(* lib/json.ts: StableJson's replacer and reviver applied to values in values, *)
(* and the default serialization of maps.                                      *)
EXTENDS StableJson

RECURSIVE jsonStringify(_)
jsonStringify(v) == Written(v, [x \in Inside(jsonReplacer(v)) |-> jsonStringify(x)])

RECURSIVE jsonParse(_)
jsonParse(json) == Read(json, [x \in Inside(json) |-> jsonParse(x)])

\* Text and its bytes are not told apart.
toBytes(data) == jsonStringify(data)
fromBytes(bytes) == jsonParse(bytes)
=============================================================================
