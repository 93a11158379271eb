------------------------ MODULE StableBTreeMapProofs ------------------------
(* Proofs about StableBTreeMap, for any keys and values, serializers and number of *)
(* items.                                                                          *)
EXTENDS StableBTreeMap, StableJson, FiniteSetTheorems, WellFoundedInduction,
        NaturalsInduction, TLAPS

\* What the map asks of its serializers: what is written of a key or of a value is read
\* as that key or value.
RoundTrips ==
    /\ \A k \in Keys : keyFromBytes(keyToBytes(k)) = k
    /\ \A v \in Values : valueFromBytes(valueToBytes(v)) = v

-----------------------------------------------------------------------------
(* Types *)

\* One map of the two.
MapType(t) ==
    /\ DOMAIN t \subseteq KeyBytes
    /\ t \in [DOMAIN t -> ValueBytes]
    /\ IsFiniteSet(DOMAIN t)
    /\ Cardinality(DOMAIN t) <= MaxItems

LEMMA TypesOfMaps == TypeOK <=> MapType(tree) /\ MapType(saved)
BY DEF TypeOK, MapType

LEMMA EmptyType == MapType(Empty)
BY MapAssumption, FS_EmptySet DEF MapType, Empty

\* An insertion that is let in leaves no more items than there may be.
LEMMA InsertType ==
    ASSUME MapType(tree), NEW k \in Keys, NEW v \in Values, insert(k, v)
    PROVE  MapType(tree')
<1> DEFINE D == DOMAIN tree
<1>1. keyToBytes(k) \in KeyBytes /\ valueToBytes(v) \in ValueBytes
  BY DEF KeyBytes, ValueBytes
<1>2. DOMAIN tree' = D \union {keyToBytes(k)}
  BY DEF insert
<1>3. tree' \in [DOMAIN tree' -> ValueBytes]
  BY <1>1 DEF insert, MapType
<1>4. /\ IsFiniteSet(D \union {keyToBytes(k)})
      /\ Cardinality(D \union {keyToBytes(k)}) =
            IF keyToBytes(k) \in D THEN Cardinality(D) ELSE Cardinality(D) + 1
  BY FS_AddElement DEF MapType
<1>5. Cardinality(D) \in Nat
  BY FS_CardinalityType DEF MapType
<1>6. Cardinality(DOMAIN tree') <= MaxItems
  BY <1>2, <1>4, <1>5, MapAssumption DEF insert, HasRoomFor, containsKey, Size, MapType
<1> QED BY <1>1, <1>2, <1>3, <1>4, <1>6 DEF MapType

LEMMA RemoveType ==
    ASSUME MapType(tree), NEW k \in Keys, remove(k)
    PROVE  MapType(tree')
<1>1. DOMAIN tree' = DOMAIN tree \ {keyToBytes(k)}
  BY DEF remove
<1>2. tree' \in [DOMAIN tree' -> ValueBytes]
  BY DEF remove, MapType
<1>3. IsFiniteSet(DOMAIN tree') /\ Cardinality(DOMAIN tree') <= Cardinality(DOMAIN tree)
  BY <1>1, FS_Subset DEF MapType
<1>4. Cardinality(DOMAIN tree) \in Nat /\ Cardinality(DOMAIN tree') \in Nat
  BY <1>3, FS_CardinalityType DEF MapType
<1> QED BY <1>1, <1>2, <1>3, <1>4, MapAssumption DEF MapType

\* TypeOK: the two maps hold bytes of keys and values and never more items than they may,
\* whatever is inserted, removed, committed and thrown away.
THEOREM MapTypeCorrect == Spec => []TypeOK
<1>1. Init => TypeOK
  BY EmptyType, TypesOfMaps DEF Init
<1>2. TypeOK /\ [Next]_vars => TypeOK'
  <2> SUFFICES ASSUME MapType(tree), MapType(saved), [Next]_vars
               PROVE  MapType(tree') /\ MapType(saved')
    BY TypesOfMaps DEF TypeOK, MapType
  <2>1. CASE \E k \in Keys : remove(k)
    BY <2>1, RemoveType DEF remove
  <2>2. CASE \E k \in Keys : \E v \in Values : insert(k, v)
    BY <2>2, InsertType DEF insert
  <2>3. CASE Commit
    BY <2>3 DEF Commit
  <2>4. CASE Trap
    BY <2>4 DEF Trap
  <2>5. CASE UNCHANGED vars
    BY <2>5 DEF vars
  <2> QED BY <2>1, <2>2, <2>3, <2>4, <2>5 DEF Next
<1> QED BY <1>1, <1>2, PTL DEF Spec

-----------------------------------------------------------------------------
(* The map of values *)

\* What a step does to the items, seen as keys and values: StableStore allows no more.
LEMMA ValueStep ==
    ASSUME RoundTrips, TypeOK, [Next]_vars
    PROVE  [Store!Next]_(Store!vars)
<1> USE DEF Store!Next, Store!vars, Store!Commit, Store!Discard
<1>1. \A j, k \in Keys : keyToBytes(j) = keyToBytes(k) => j = k
  BY DEF RoundTrips
<1>2. ASSUME NEW k \in Keys, NEW v \in Values, insert(k, v)
      PROVE  Store!Insert(0, k, v)
  <2>1. ASSUME NEW j \in Keys
        PROVE  Seen(tree')[j] = IF j = k THEN v ELSE Seen(tree)[j]
    BY <1>1, <1>2 DEF insert, Seen, RoundTrips
  <2>2. Seen(tree') = [Seen(tree) EXCEPT ![k] = v]
    BY <2>1 DEF Seen
  <2> QED BY <2>2, <1>2 DEF Store!Insert, insert
<1>3. ASSUME NEW k \in Keys, remove(k)
      PROVE  Store!Remove(0, k)
  <2>1. ASSUME NEW j \in Keys
        PROVE  Seen(tree')[j] = IF j = k THEN None ELSE Seen(tree)[j]
    BY <1>1, <1>3 DEF remove, Seen
  <2>2. Seen(tree') = [Seen(tree) EXCEPT ![k] = None]
    BY <2>1 DEF Seen
  <2> QED BY <2>2, <1>3 DEF Store!Remove, remove
<1>4. CASE Commit
  BY <1>4 DEF Commit
<1>5. CASE Trap
  BY <1>5 DEF Trap
<1>6. CASE UNCHANGED vars
  BY <1>6 DEF vars
<1> QED BY <1>2, <1>3, <1>4, <1>5, <1>6 DEF Next

\* ImplementsMapOfValues: a map that tells keys apart by their bytes is a map of keys and
\* values if the serializers read what they wrote, and each message is all or nothing.
THEOREM MapOfValuesImplemented ==
    ASSUME RoundTrips
    PROVE  Spec => ImplementsMapOfValues
<1>1. Init => Store!Init
  BY DEF Init, Empty, Seen, Store!Init, Store!NoItems
<1>2. TypeOK /\ [Next]_vars => [Store!Next]_(Store!vars)
  BY ValueStep
<1> QED BY <1>1, <1>2, MapTypeCorrect, PTL DEF Spec, ImplementsMapOfValues, Store!Spec

-----------------------------------------------------------------------------
(* The order of the keys in the tree *)

\* The keys in the tree that are not above this one.
NotAbove(bytes) == {b \in DOMAIN tree : b = bytes \/ Below(b, bytes)}

LEMMA OrderOfBytes ==
    /\ \A a \in KeyBytes : ~Below(a, a)
    /\ \A a, b, c \in KeyBytes : Below(a, b) /\ Below(b, c) => Below(a, c)
    /\ \A a, b \in KeyBytes : a = b \/ Below(a, b) \/ Below(b, a)
<1>1. ASSUME NEW a \in KeyBytes, NEW b \in KeyBytes
      PROVE  ~Below(a, a) /\ (a = b \/ Below(a, b) \/ Below(b, a))
  BY BytesAreOrdered
<1>2. ASSUME NEW a \in KeyBytes, NEW b \in KeyBytes, NEW c \in KeyBytes,
             Below(a, b), Below(b, c)
      PROVE  Below(a, c)
  BY <1>2, BytesAreOrdered
<1> QED BY <1>1, <1>2

LEMMA PlaceType ==
    ASSUME MapType(tree)
    PROVE  /\ Size \in Nat
           /\ Size <= MaxItems
           /\ \A b \in DOMAIN tree : Place(b) \in 1 .. Size
<1>1. Size \in Nat /\ Size <= MaxItems
  BY FS_CardinalityType DEF MapType, Size
<1>2. ASSUME NEW b \in DOMAIN tree
      PROVE  Place(b) \in 1 .. Size
  <2>1. NotAbove(b) \in SUBSET DOMAIN tree /\ b \in NotAbove(b)
    BY DEF NotAbove
  <2>2. /\ IsFiniteSet(NotAbove(b))
        /\ Cardinality(NotAbove(b)) <= Size
    BY <2>1, FS_Subset DEF MapType, Size
  <2>3. Cardinality(NotAbove(b)) \in Nat /\ Cardinality(NotAbove(b)) # 0
    BY <2>1, <2>2, FS_CardinalityType, FS_EmptySet
  <2> QED BY <1>1, <2>2, <2>3 DEF Place, NotAbove
<1> QED BY <1>1, <1>2

\* A key above another has a later place.
LEMMA PlaceGrows ==
    ASSUME MapType(tree), NEW a \in DOMAIN tree, NEW b \in DOMAIN tree, Below(a, b)
    PROVE  Place(a) < Place(b)
<1>1. a \in KeyBytes /\ b \in KeyBytes /\ DOMAIN tree \subseteq KeyBytes
  BY DEF MapType
<1>2. NotAbove(a) \in SUBSET NotAbove(b)
  BY <1>1, OrderOfBytes DEF NotAbove
<1>3. b \in NotAbove(b) /\ b \notin NotAbove(a)
  BY <1>1, OrderOfBytes DEF NotAbove
<1>4. IsFiniteSet(NotAbove(b))
  BY FS_Subset DEF NotAbove, MapType
<1>5. Cardinality(NotAbove(a)) <= Cardinality(NotAbove(b))
      /\ Cardinality(NotAbove(a)) # Cardinality(NotAbove(b))
  BY <1>2, <1>3, <1>4, FS_Subset
<1>6. Place(a) \in Int /\ Place(b) \in Int
  BY PlaceType
<1> QED BY <1>5, <1>6 DEF Place, NotAbove

\* Sorted lists each key in the tree at its place, in the order of bytes.
LEMMA SortedKeys ==
    ASSUME MapType(tree)
    PROVE  /\ \A i \in 1 .. Size : Sorted[i] \in DOMAIN tree /\ Place(Sorted[i]) = i
           /\ \A b \in DOMAIN tree : Sorted[Place(b)] = b
           /\ \A i, j \in 1 .. Size : i < j => Below(Sorted[i], Sorted[j])
<1> DEFINE place == [b \in DOMAIN tree |-> Place(b)]
<1>1. DOMAIN tree \subseteq KeyBytes
  BY DEF MapType
<1>2. ASSUME NEW a \in DOMAIN tree, NEW b \in DOMAIN tree, Place(a) = Place(b)
      PROVE  a = b
  <2>1. ~Below(a, b) /\ ~Below(b, a)
    BY <1>2, PlaceGrows, PlaceType
  <2> QED BY <1>1, <2>1, OrderOfBytes
<1>3. place \in Injection(DOMAIN tree, 1 .. Size)
  BY <1>2, PlaceType DEF Injection, IsInjective
<1>4. IsFiniteSet(1 .. Size) /\ Cardinality(1 .. Size) = Size
  BY FS_Interval, PlaceType
<1>5. place \in Surjection(DOMAIN tree, 1 .. Size)
  BY <1>3, <1>4, FS_Injection DEF Size
<1>6. \A i \in 1 .. Size : \E b \in DOMAIN tree : Place(b) = i
  BY <1>5 DEF Surjection
<1>7. \A i \in 1 .. Size : Sorted[i] \in DOMAIN tree /\ Place(Sorted[i]) = i
  BY <1>6 DEF Sorted
<1>8. \A b \in DOMAIN tree : Sorted[Place(b)] = b
  BY <1>2, <1>7, PlaceType
<1>9. ASSUME NEW i \in 1 .. Size, NEW j \in 1 .. Size, i < j
      PROVE  Below(Sorted[i], Sorted[j])
  <2>1. Sorted[i] # Sorted[j]
    BY <1>7, <1>9
  <2>2. ~Below(Sorted[j], Sorted[i])
    BY <1>7, <1>9, PlaceGrows
  <2> QED BY <1>1, <1>7, <2>1, <2>2, OrderOfBytes
<1> QED BY <1>7, <1>8, <1>9

-----------------------------------------------------------------------------
(* Pages *)

\* Pages of one length do not overlap.
LEMMA PagesApart ==
    ASSUME NEW m \in Nat, NEW n \in Nat, NEW length \in Nat, m < n
    PROVE  m * length + length <= n * length
<1>1. PICK d \in Nat : n = m + 1 + d
  <2>1. n - m - 1 \in Nat /\ n = m + 1 + (n - m - 1)
    OBVIOUS
  <2> QED BY <2>1
<1>2. n * length = m * length + length + d * length
  BY <1>1, Z3
<1>3. d * length \in Nat /\ m * length \in Nat
  BY Z3
<1> QED BY <1>2, <1>3

\* The page of a position.
LEMMA PageOfPosition ==
    ASSUME NEW p \in Nat, NEW length \in Nat \ {0}
    PROVE  /\ (p \div length) \in 0 .. p
           /\ (p \div length) * length \in Nat
           /\ (p \div length) * length <= p
           /\ p < (p \div length) * length + length
<1>1. (p \div length) * length <= p /\ p < (p \div length) * length + length
  BY Z3
<1>2. (p \div length) \in Nat /\ (p \div length) <= p
  BY Z3
<1>3. (p \div length) * length \in Nat
  BY <1>2, Z3
<1> QED BY <1>1, <1>2, <1>3

\* Where the keys of a page are in the order of all keys.
LEMMA PageOfSorted ==
    ASSUME MapType(tree), NEW start \in Nat, NEW length \in Nat
    PROVE  \A i \in DOMAIN Page(start, length) :
              /\ i \in 1 .. length
              /\ start + i \in 1 .. Size
              /\ Page(start, length)[i] = Sorted[start + i]
BY PlaceType DEF Page

\* Every key is in a page.
LEMMA EveryKeyInAPage ==
    ASSUME MapType(tree), NEW bytes \in DOMAIN tree, NEW length \in Nat \ {0}
    PROVE  \E n \in 0 .. MaxItems :
              \E i \in DOMAIN Page(n * length, length) : Page(n * length, length)[i] = bytes
<1>1. Place(bytes) \in 1 .. Size /\ Size \in Nat /\ Size <= MaxItems
  BY PlaceType
<1> DEFINE n == (Place(bytes) - 1) \div length
<1>2. /\ n \in 0 .. Place(bytes) - 1
      /\ n * length \in Nat
      /\ n * length <= Place(bytes) - 1
      /\ Place(bytes) - 1 < n * length + length
  BY <1>1, PageOfPosition
<1> HIDE DEF n
<1> DEFINE i == Place(bytes) - n * length
<1>3. i \in DOMAIN Page(n * length, length)
  BY <1>1, <1>2 DEF Page
<1>4. Page(n * length, length)[i] = Sorted[n * length + i]
  BY <1>2, <1>3, PageOfSorted
<1>5. Page(n * length, length)[i] = bytes
  <2>1. n * length + i = Place(bytes)
    BY <1>1, <1>2
  <2> QED BY <1>4, <2>1, SortedKeys
<1>6. n \in 0 .. MaxItems
  BY <1>1, <1>2, MapAssumption
<1> QED BY <1>3, <1>5, <1>6

\* A key in the tree is read as a key of the map, which is found by its bytes.
LEMMA ReadKey ==
    ASSUME RoundTrips, MapType(tree), NEW bytes \in DOMAIN tree
    PROVE  /\ keyFromBytes(bytes) \in Keys
           /\ keyToBytes(keyFromBytes(bytes)) = bytes
BY DEF RoundTrips, MapType, KeyBytes

\* The properties of PagesAreTheMap one by one, for pages of one length.
LEMMA PagesOfALength ==
    ASSUME RoundTrips, MapType(tree), NEW length \in 1 .. MaxItems
    PROVE  LET Pages == 0 .. MaxItems
               Key == [n \in Pages |-> keys(n * length, length)]
               Value == [n \in Pages |-> values(n * length, length)]
           IN  /\ \A n \in Pages :
                   /\ items(n * length, length) =
                        [i \in DOMAIN Key[n] |-> <<Key[n][i], Value[n][i]>>]
                   /\ DOMAIN Value[n] = DOMAIN Key[n]
                   /\ \A i \in DOMAIN Key[n] :
                       containsKey(Key[n][i]) /\ get(Key[n][i]) = Value[n][i]
               /\ \A k \in Keys :
                   containsKey(k) => \E n \in Pages : \E i \in DOMAIN Key[n] : Key[n][i] = k
               /\ \A m, n \in Pages : \A i \in DOMAIN Key[m], j \in DOMAIN Key[n] :
                   m < n \/ (m = n /\ i < j) =>
                       Below(keyToBytes(Key[m][i]), keyToBytes(Key[n][j]))
<1> DEFINE Pages == 0 .. MaxItems
           Key == [n \in Pages |-> keys(n * length, length)]
           Value == [n \in Pages |-> values(n * length, length)]
           At(n) == Page(n * length, length)
<1>1. \A n \in Pages : n \in Nat /\ n * length \in Nat
  <2>1. ASSUME NEW n \in Nat, NEW d \in Nat
        PROVE  n * d \in Nat
    BY Z3
  <2> QED BY <2>1, MapAssumption
<1>2. \A n \in Pages : /\ DOMAIN Key[n] = DOMAIN At(n)
                       /\ DOMAIN Value[n] = DOMAIN At(n)
                       /\ \A i \in DOMAIN At(n) : /\ Key[n][i] = keyFromBytes(At(n)[i])
                                                  /\ Value[n][i] = valueFromBytes(tree[At(n)[i]])
  BY DEF keys, values
<1>3. \A n \in Pages : \A i \in DOMAIN At(n) :
          /\ i \in 1 .. length
          /\ n * length + i \in 1 .. Size
          /\ At(n)[i] = Sorted[n * length + i]
          /\ At(n)[i] \in DOMAIN tree
  BY <1>1, PageOfSorted, SortedKeys
<1> HIDE DEF Key, Value, At
<1>4. ASSUME NEW n \in Pages
      PROVE  items(n * length, length) = [i \in DOMAIN Key[n] |-> <<Key[n][i], Value[n][i]>>]
  BY <1>2 DEF items, At
<1>5. ASSUME NEW n \in Pages, NEW i \in DOMAIN Key[n]
      PROVE  /\ keyToBytes(Key[n][i]) = At(n)[i]
             /\ containsKey(Key[n][i])
             /\ get(Key[n][i]) = Value[n][i]
  BY <1>2, <1>3, ReadKey DEF containsKey, get
<1>6. ASSUME NEW k \in Keys, containsKey(k)
      PROVE  \E n \in Pages : \E i \in DOMAIN Key[n] : Key[n][i] = k
  <2>1. PICK n \in Pages : \E i \in DOMAIN At(n) : At(n)[i] = keyToBytes(k)
    BY <1>6, EveryKeyInAPage DEF containsKey, At
  <2>2. keyFromBytes(keyToBytes(k)) = k
    BY DEF RoundTrips
  <2> QED BY <1>2, <2>1, <2>2
<1>7. ASSUME NEW m \in Pages, NEW n \in Pages, NEW i \in DOMAIN Key[m], NEW j \in DOMAIN Key[n],
             m < n \/ (m = n /\ i < j)
      PROVE  Below(keyToBytes(Key[m][i]), keyToBytes(Key[n][j]))
  <2>1. i \in 1 .. length /\ j \in 1 .. length
    BY <1>2, <1>3
  <2>2. m * length + i < n * length + j
    <3>1. CASE m < n
      <4>1. m * length + length <= n * length
        BY <1>1, <3>1, PagesApart, MapAssumption
      <4>2. m * length \in Nat /\ n * length \in Nat
        BY <1>1
      <4> QED BY <2>1, <4>1, <4>2
    <3>2. CASE m = n /\ i < j
      BY <1>1, <2>1, <3>2
    <3> QED BY <1>7, <3>1, <3>2
  <2>3. /\ m * length + i \in 1 .. Size /\ At(m)[i] = Sorted[m * length + i]
        /\ n * length + j \in 1 .. Size /\ At(n)[j] = Sorted[n * length + j]
    BY <1>2, <1>3
  <2>4. Below(At(m)[i], At(n)[j])
    BY <2>2, <2>3, SortedKeys
  <2> QED BY <1>5, <2>4
<1> USE DEF Pages
<1>8. \A n \in Pages : DOMAIN Value[n] = DOMAIN Key[n]
  BY <1>2
<1> QED BY <1>4, <1>5, <1>6, <1>7, <1>8 DEF Key, Value

\* PagesAreTheMap: whatever the length of a page and however many items there are, paging
\* through a map meets each of its items once, in the order of bytes, if the serializers
\* read what they wrote.
THEOREM PagesShowTheMap ==
    ASSUME RoundTrips
    PROVE  Spec => []PagesAreTheMap
<1>1. TypeOK => PagesAreTheMap
  <2>1. TypeOK => MapType(tree)
    BY TypesOfMaps
  <2> QED BY <2>1, PagesOfALength DEF PagesAreTheMap
<1> QED BY <1>1, MapTypeCorrect, PTL

-----------------------------------------------------------------------------
(* JSON *)

\* Every set of numbers that has one has a least one: induction for what follows.
LEMMA LeastNumber ==
    ASSUME NEW T \in SUBSET Nat, T # {}
    PROVE  \E x \in T : \A y \in T : x <= y
<1>1. PICK x \in T : \A y \in T : <<y, x>> \notin OpToRel(<, Nat)
  BY NatLessThanWellFounded, WFMin, Zenon
<1>2. \A y \in T : ~ (y < x)
  BY <1>1, Zenon DEF OpToRel
<1> QED BY <1>2

\* The forms of values.
LEMMA Forms ==
    ASSUME NEW v, Supported(v)
    PROVE  \/ v = [plain |-> v.plain]
           \/ v = [special |-> v.special, text |-> v.text] /\ v.special \in Specials
           \/ v = [typed |-> v.typed, elements |-> v.elements] /\ v.typed \in TypedArrays
           \/ v = [array |-> v.array] /\ IsFunction(v.array)
           \/ v = [set |-> v.set]
           \/ v = [map |-> v.map] /\ IsFunction(v.map)
           \/ /\ v = [object |-> v.object]
              /\ IsFunction(v.object)
              /\ \A i \in DOMAIN v.object :
                    /\ v.object[i] = <<v.object[i][1], v.object[i][2]>>
                    /\ v.object[i][2] # Undefined
                    /\ ~IsMarker(v.object[i])
<1>1. \A form : DOMAIN v = {form} => v = [f \in {form} |-> v[form]]
  BY DEF Supported, IsFunction
<1>2. DOMAIN v = {"plain"} => v = [plain |-> v.plain]
  BY <1>1
<1>3. DOMAIN v = {"array"} => v = [array |-> v.array]
  BY <1>1
<1>4. DOMAIN v = {"set"} => v = [set |-> v.set]
  BY <1>1
<1>5. DOMAIN v = {"map"} => v = [map |-> v.map]
  BY <1>1
<1>6. DOMAIN v = {"object"} => v = [object |-> v.object]
  BY <1>1
<1>7. DOMAIN v = {"special", "text"} => v = [special |-> v.special, text |-> v.text]
  BY DEF Supported, IsFunction
<1>8. DOMAIN v = {"typed", "elements"} => v = [typed |-> v.typed, elements |-> v.elements]
  BY DEF Supported, IsFunction
<1> QED BY <1>2, <1>3, <1>4, <1>5, <1>6, <1>7, <1>8 DEF Supported

\* What is written in the place of a value is plain, an array or an object.
JsonForm(json) ==
    \/ json = [plain |-> json.plain]
    \/ json = [array |-> json.array] /\ IsFunction(json.array)
    \/ /\ json = [object |-> json.object]
       /\ IsFunction(json.object)
       /\ \A i \in DOMAIN json.object : json.object[i] = <<json.object[i][1], json.object[i][2]>>

LEMMA MarkedForm ==
    ASSUME NEW kind, NEW content
    PROVE  /\ JsonForm(Marked(kind, content))
           /\ Marked(kind, content).object = <<<<kind, content>>>>
           /\ ~Is("array", Marked(kind, content))
           /\ Is("object", Marked(kind, content))
BY DEF JsonForm, Marked, IsFunction, Is

LEMMA ReplacedForm ==
    ASSUME NEW v, Supported(v)
    PROVE  JsonForm(jsonReplacer(v))
<1>1. CASE v = [plain |-> v.plain]
  BY <1>1 DEF jsonReplacer, Is, JsonForm
<1>2. CASE v = [special |-> v.special, text |-> v.text]
  BY <1>2, MarkedForm DEF jsonReplacer, Is
<1>3. CASE v = [typed |-> v.typed, elements |-> v.elements]
  BY <1>3, MarkedForm DEF jsonReplacer, Is
<1>4. CASE v = [array |-> v.array] /\ IsFunction(v.array)
  BY <1>4 DEF jsonReplacer, Is, JsonForm
<1>5. CASE v = [set |-> v.set]
  BY <1>5, MarkedForm DEF jsonReplacer, Is
<1>6. CASE v = [map |-> v.map]
  BY <1>6, MarkedForm DEF jsonReplacer, Is
<1>7. CASE /\ v = [object |-> v.object]
           /\ IsFunction(v.object)
           /\ \A i \in DOMAIN v.object : v.object[i] = <<v.object[i][1], v.object[i][2]>>
  BY <1>7 DEF jsonReplacer, Is, JsonForm
<1> QED BY <1>1, <1>2, <1>3, <1>4, <1>5, <1>6, <1>7, Forms

\* The reviver undoes the replacer.
LEMMA RevivedIsReplaced ==
    ASSUME NEW v, Supported(v)
    PROVE  jsonReviver(WithoutUndefined(jsonReplacer(v))) = v
<1> DEFINE Back(json) == jsonReviver(WithoutUndefined(json))
<1>1. ASSUME NEW kind, NEW content, IsMarker(<<kind, content>>)
      PROVE  Back(Marked(kind, content)) = Revived(kind, content)
  <2>1. content # Undefined
    BY <1>1 DEF IsMarker, Is, Undefined
  <2>2. WithoutUndefined(Marked(kind, content)) = Marked(kind, content)
    BY <2>1 DEF WithoutUndefined, Marked, Is
  <2> QED BY <1>1, <2>2 DEF jsonReviver, Marked, Is
<1>2. CASE v = [plain |-> v.plain]
  BY <1>2 DEF jsonReplacer, WithoutUndefined, jsonReviver, Is
<1>3. CASE v = [special |-> v.special, text |-> v.text] /\ v.special \in Specials
  <2>1. jsonReplacer(v) = Marked(v.special, [plain |-> v.text])
    BY <1>3 DEF jsonReplacer, Is
  <2>2. IsMarker(<<v.special, [plain |-> v.text]>>)
    BY <1>3 DEF IsMarker, Is
  <2>3. Revived(v.special, [plain |-> v.text]) = v
    BY <1>3 DEF Revived, Specials, TypedArrays
  <2> QED BY <1>1, <2>1, <2>2, <2>3
<1>4. CASE v = [typed |-> v.typed, elements |-> v.elements] /\ v.typed \in TypedArrays
  <2>1. jsonReplacer(v) = Marked(v.typed, [array |-> v.elements])
    BY <1>4 DEF jsonReplacer, Is
  <2>2. IsMarker(<<v.typed, [array |-> v.elements]>>)
    BY <1>4 DEF IsMarker, Is
  <2>3. Revived(v.typed, [array |-> v.elements]) = v
    BY <1>4 DEF Revived, Specials, TypedArrays
  <2> QED BY <1>1, <2>1, <2>2, <2>3
<1>5. CASE v = [array |-> v.array]
  BY <1>5 DEF jsonReplacer, WithoutUndefined, jsonReviver, Is
<1>6. CASE v = [set |-> v.set]
  <2>1. jsonReplacer(v) = Marked("set", [array |-> v.set])
    BY <1>6 DEF jsonReplacer, Is
  <2>2. IsMarker(<<"set", [array |-> v.set]>>)
    BY DEF IsMarker, Is
  <2>3. Revived("set", [array |-> v.set]) = v
    BY <1>6 DEF Revived, Specials, TypedArrays
  <2> QED BY <1>1, <2>1, <2>2, <2>3
<1>7. CASE v = [map |-> v.map] /\ IsFunction(v.map)
  <2> DEFINE pairs == [array |-> [i \in DOMAIN v.map |-> [array |-> v.map[i]]]]
  <2>1. jsonReplacer(v) = Marked("map", pairs)
    BY <1>7 DEF jsonReplacer, Is
  <2>2. IsMarker(<<"map", pairs>>)
    BY DEF IsMarker, Is
  <2>3. Revived("map", pairs) = v
    BY <1>7 DEF Revived, Specials, TypedArrays, IsFunction
  <2> QED BY <1>1, <2>1, <2>2, <2>3
<1>8. CASE /\ v = [object |-> v.object]
           /\ \A i \in DOMAIN v.object : v.object[i][2] # Undefined /\ ~IsMarker(v.object[i])
  BY <1>8 DEF jsonReplacer, WithoutUndefined, jsonReviver, Is
<1> QED BY <1>2, <1>3, <1>4, <1>5, <1>6, <1>7, <1>8, Forms

\* Writing and then reading what is inside of JSON gives the JSON back if it gives back
\* each value inside.
LEMMA MappedBack ==
    ASSUME NEW json, JsonForm(json), NEW write, NEW read,
           \A x \in Inside(json) : read[write[x]] = x
    PROVE  Mapped(Mapped(json, write), read) = json
<1>1. CASE json = [plain |-> json.plain]
  BY <1>1 DEF Mapped, Is
<1>2. CASE json = [array |-> json.array] /\ IsFunction(json.array)
  <2> DEFINE written == [i \in DOMAIN json.array |-> write[json.array[i]]]
  <2>1. Mapped(json, write) = [array |-> written]
    BY <1>2 DEF Mapped, Is
  <2>2. Mapped([array |-> written], read) = [array |-> [i \in DOMAIN written |-> read[written[i]]]]
    BY DEF Mapped, Is
  <2>3. \A i \in DOMAIN json.array : read[written[i]] = json.array[i]
    BY <1>2 DEF Inside, Is
  <2>4. [i \in DOMAIN written |-> read[written[i]]] = json.array
    BY <1>2, <2>3 DEF IsFunction
  <2> QED BY <1>2, <2>1, <2>2, <2>4
<1>3. CASE /\ json = [object |-> json.object]
           /\ IsFunction(json.object)
           /\ \A i \in DOMAIN json.object : json.object[i] = <<json.object[i][1], json.object[i][2]>>
  <2> DEFINE written == [i \in DOMAIN json.object |-> <<json.object[i][1], write[json.object[i][2]]>>]
  <2>1. Mapped(json, write) = [object |-> written]
    BY <1>3 DEF Mapped, Is
  <2>2. Mapped([object |-> written], read) =
          [object |-> [i \in DOMAIN written |-> <<written[i][1], read[written[i][2]]>>]]
    BY DEF Mapped, Is
  <2>3. \A i \in DOMAIN json.object :
          <<written[i][1], read[written[i][2]]>> = json.object[i]
    BY <1>3 DEF Inside, Is
  <2>4. [i \in DOMAIN written |-> <<written[i][1], read[written[i][2]]>>] = json.object
    BY <1>3, <2>3 DEF IsFunction
  <2> QED BY <1>3, <2>1, <2>2, <2>4
<1> QED BY <1>1, <1>2, <1>3 DEF JsonForm

\* However deeply values are nested (stable_json.ts), each is read as it was written, if
\* write and read are what one level of JSON.stringify with jsonReplacer and of JSON.parse
\* with jsonReviver make of it.
THEOREM JsonComesBack ==
    ASSUME NEW V, NEW depth, NEW write, NEW read, Serialize(V, depth, write, read)
    PROVE  \A v \in V : read[write[v]] = v
<1> DEFINE Lost == {v \in V : read[write[v]] # v}
           T == {depth[v] : v \in Lost}
<1> SUFFICES ASSUME Lost # {} PROVE FALSE
  OBVIOUS
<1>1. PICK v \in Lost : \A x \in Lost : depth[v] <= depth[x]
  <2>1. T \in SUBSET Nat /\ T # {}
    BY DEF Serialize
  <2>2. PICK d \in T : \A e \in T : d <= e
    BY <2>1, LeastNumber
  <2>3. PICK v \in Lost : depth[v] = d
    BY <2>2
  <2>4. \A x \in Lost : depth[x] \in T
    OBVIOUS
  <2> QED BY <2>2, <2>3, <2>4
<1>2. \A x \in Inside(jsonReplacer(v)) : read[write[x]] = x
  <2> SUFFICES ASSUME NEW x \in Inside(jsonReplacer(v)) PROVE x \in V /\ x \notin Lost
    OBVIOUS
  <2>1. x \in V /\ depth[x] < depth[v]
    BY DEF Serialize
  <2>2. depth[x] \in Nat /\ depth[v] \in Nat
    BY <2>1 DEF Serialize
  <2> QED BY <1>1, <2>1, <2>2
<1>3. JsonForm(jsonReplacer(v))
  BY ReplacedForm DEF Serialize
<1>4. Mapped(write[v], read) = jsonReplacer(v)
  BY <1>2, <1>3, MappedBack DEF Written, Serialize
<1>5. read[write[v]] = jsonReviver(WithoutUndefined(jsonReplacer(v)))
  BY <1>4 DEF Read, Serialize
<1>6. Supported(v)
  BY DEF Serialize
<1> QED BY <1>5, <1>6, RevivedIsReplaced

\* A map whose serializers are stableJson, the default, is a map of keys and values, as long
\* as these have no property that is undefined and no object that looks like a marker: its
\* items come back, and paging through it shows each once.
THEOREM DefaultMapIsAMapOfValues ==
    ASSUME NEW depth, NEW write, NEW read,
           NEW V, Keys \union Values \subseteq V,
           Serialize(V, depth, write, read),
           \A k \in Keys : keyToBytes(k) = write[k] /\ keyFromBytes(write[k]) = read[write[k]],
           \A v \in Values : valueToBytes(v) = write[v] /\ valueFromBytes(write[v]) = read[write[v]]
    PROVE  Spec => ImplementsMapOfValues /\ []PagesAreTheMap
<1>1. RoundTrips
  BY JsonComesBack DEF RoundTrips
<1> QED BY <1>1, MapOfValuesImplemented, PagesShowTheMap
=============================================================================
