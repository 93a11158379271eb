--------------------------- MODULE MCStableBTreeMap ---------------------------
(* Keys that are easily confused, and values with every form in every other. *)
EXTENDS StableBTreeMap, Json, SequencesExt

Plain(p) == [plain |-> p]
Special(kind) == [special |-> kind, text |-> kind]

\* The same content as a number, a bigint, an array, and objects whose properties come in
\* either order.
ConfusingKeys ==
    {Plain("1"), [special |-> "bigint", text |-> "1"], [array |-> <<Plain("1")>>],
     [object |-> <<<<"a", Plain("1")>>, <<"b", Plain("0")>>>>],
     [object |-> <<<<"b", Plain("0")>>, <<"a", Plain("1")>>>>]}

InSomeOrder(S) == FoldSet(LAMBDA x, seq : Append(seq, x), <<>>, S)

\* A Set, and the keys of a Map, turn a zero that is negative into one that is not.
Distinct ==
    InSomeOrder({Plain("0"), Plain("null")} \union {Special(kind) : kind \in Specials \ {"negative_zero"}})

Typed ==
    InSomeOrder({[typed |-> kind, elements |-> <<Plain("1")>>] : kind \in TypedArrays})
        \o <<[typed |-> "float64array", elements |-> <<Special("nan"), Special("negative_zero")>>],
             [typed |-> "biguint64array", elements |-> <<Special("bigint")>>]>>

\* Holds what a Set may hold in each form that holds values.  A property whose value is
\* undefined is deleted when it is read: there is none.  Marked("set", Plain("1")) only
\* looks like a Set: its property is no array.
Holders ==
    <<[array |-> Distinct \o <<Special("negative_zero")>>],
      [set |-> Distinct],
      [map |-> [i \in DOMAIN Distinct |-> <<Distinct[i], Undefined>>]],
      [object |-> <<<<"a", Special("principal")>>, <<"b", Special("negative_zero")>>>>],
      Marked("set", Plain("1")),
      [array |-> <<>>], [set |-> <<>>], [map |-> <<>>], [object |-> <<>>]>>
          \o Typed

\* Undefined, and a value with each of these in each form that holds values again.
NestedValues ==
    {Undefined,
     [object |->
        <<<<"a", [array |-> Holders]>>,
          <<"b", [set |-> Holders]>>,
          <<"c", [map |-> [i \in DOMAIN Holders |-> <<Holders[i], Holders[i]>>]]>>,
          <<"d", [object |-> [i \in DOMAIN Holders |-> <<ToString(i), Holders[i]>>]]>>>>]}

\* Each key and value written, and what was written read, once: the default serializers.
Text == [v \in ConfusingKeys \union NestedValues |-> toBytes(v)]
FromText == [bytes \in Range(Text) |-> fromBytes(bytes)]
ToBytesOnce(v) == IF v \in DOMAIN Text THEN Text[v] ELSE toBytes(v)
FromBytesOnce(bytes) == IF bytes \in DOMAIN FromText THEN FromText[bytes] ELSE fromBytes(bytes)

\* Some order of the bytes of keys.
Ranked == SetToSeq({Text[k] : k \in ConfusingKeys})
Rank == [bytes \in Range(Ranked) |-> CHOOSE i \in DOMAIN Ranked : Ranked[i] = bytes]
ByRank(a, b) == Rank[a] < Rank[b]

\* How deeply what is written of a value is nested.
RECURSIVE Depth(_)
Depth(v) ==
    LET inside == Inside(jsonReplacer(v))
    IN  IF inside = {} THEN 0 ELSE 1 + Max({Depth(x) : x \in inside})

RECURSIVE WithInside(_)
WithInside(V) ==
    LET inside == UNION {Inside(jsonReplacer(v)) : v \in V}
    IN  IF inside \subseteq V THEN V ELSE WithInside(V \union inside)

\* What the proofs ask of serializers, jsonStringify and jsonParse do for these values.
ASSUME SerializersAreOfJson ==
    LET V == WithInside(ConfusingKeys \union NestedValues)
        write == [v \in V |-> toBytes(v)]
        read == [bytes \in Range(write) |-> fromBytes(bytes)]
    IN  Serialize(V, [v \in V |-> Depth(v)], write, read)
=============================================================================
