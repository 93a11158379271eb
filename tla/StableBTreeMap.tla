---------------------------- MODULE StableBTreeMap ----------------------------
(***************************************************************************)
(* A StableBTreeMap: the JavaScript class                                  *)
(* (lib/stable_structures/stable_b_tree_map.ts) over a map from bytes to   *)
(* bytes (ic/stable_b_tree_map_*.rs).  Developers see keys and values; the *)
(* tree holds what the map's serializers make of them.                     *)
(*                                                                         *)
(* One map that is registered all the time; registration, upgrades and     *)
(* several maps are in Lifecycle.  tree is the map as the running message  *)
(* sees it, saved as of the last commit.                                   *)
(***************************************************************************)
EXTENDS Integers, FiniteSets

CONSTANTS
    Keys, Values,       \* JavaScript values used as keys and as values
    undefined,          \* JavaScript's, which Values may have
    None,               \* no value
    MaxItems,           \* items a map may hold: 2^32 - 1 in the code
    keyToBytes(_),      \* keySerializable of the constructor
    keyFromBytes(_),
    valueToBytes(_),    \* valueSerializable
    valueFromBytes(_),
    Below(_, _)         \* the order of bytes

KeyBytes == {keyToBytes(k) : k \in Keys}
ValueBytes == {valueToBytes(v) : v \in Values}

ASSUME MapAssumption == MaxItems \in Nat

ASSUME BytesAreOrdered ==
    \A a, b, c \in KeyBytes :
        /\ ~Below(a, a)
        /\ Below(a, b) /\ Below(b, c) => Below(a, c)
        /\ a = b \/ Below(a, b) \/ Below(b, a)

VARIABLES tree, saved

vars == <<tree, saved>>

Empty == [bytes \in {} |-> None]

Init == tree = Empty /\ saved = Empty

Size == Cardinality(DOMAIN tree)

containsKey(k) == keyToBytes(k) \in DOMAIN tree

get(k) == IF containsKey(k) THEN valueFromBytes(tree[keyToBytes(k)]) ELSE undefined

\* Mutant: the item that makes the map too long is let in.
RoomForOneMore(k) == containsKey(k) \/ Size <= MaxItems

\* A new key is refused in a map that is full.
HasRoomFor(k) == containsKey(k) \/ Size < MaxItems

insert(k, v) ==
    /\ HasRoomFor(k)
    /\ tree' = [bytes \in DOMAIN tree \union {keyToBytes(k)} |->
                    IF bytes = keyToBytes(k) THEN valueToBytes(v) ELSE tree[bytes]]
    /\ UNCHANGED saved

remove(k) ==
    /\ tree' = [bytes \in DOMAIN tree \ {keyToBytes(k)} |-> tree[bytes]]
    /\ UNCHANGED saved

\* The message ends, or traps.
Commit == saved' = tree /\ UNCHANGED tree
Trap == tree' = saved /\ UNCHANGED saved

-----------------------------------------------------------------------------
(* Iteration *)

\* "Byte-level sorted order": the keys in the tree by how many are not above them.
Place(bytes) == Cardinality({b \in DOMAIN tree : b = bytes \/ Below(b, bytes)})
Sorted == [i \in 1 .. Size |-> CHOOSE bytes \in DOMAIN tree : Place(bytes) = i]

\* Mutant: length is where the page ends.
PageUpTo(start, length) ==
    [i \in 1 .. (IF length < Size THEN length ELSE Size) - start |-> Sorted[start + i]]

\* iter().skip(start).take(length), of as many as there are if no length is given.
Page(start, length) ==
    [i \in 1 .. (IF start + length < Size THEN length ELSE Size - start) |-> Sorted[start + i]]

keys(start, length) ==
    LET page == Page(start, length) IN [i \in DOMAIN page |-> keyFromBytes(page[i])]

values(start, length) ==
    LET page == Page(start, length) IN [i \in DOMAIN page |-> valueFromBytes(tree[page[i]])]

items(start, length) ==
    LET page == Page(start, length)
    IN  [i \in DOMAIN page |-> <<keyFromBytes(page[i]), valueFromBytes(tree[page[i]])>>]

-----------------------------------------------------------------------------
Next ==
    \/ \E k \in Keys : remove(k) \/ \E v \in Values : insert(k, v)
    \/ Commit
    \/ Trap

Spec == Init /\ [][Next]_vars

-----------------------------------------------------------------------------
(* Properties *)

\* Each map holds bytes of keys and values, and no more items than it may.
TypeOK ==
    \A t \in {tree, saved} :
        /\ DOMAIN t \subseteq KeyBytes
        /\ t \in [DOMAIN t -> ValueBytes]
        /\ IsFiniteSet(DOMAIN t)
        /\ Cardinality(DOMAIN t) <= MaxItems

\* stable_b_tree_map.ts compares the bytes of keys and never keys: to developers it is a
\* map of the JavaScript values all the same, whose keys are told apart and which come back
\* as they were put in: where the serializers read what they wrote.  The default ones do
\* not for every value, see StableJson: a property that is undefined is lost, and an object
\* that looks like a marker comes back as what the marker stands for.
Seen(t) == [k \in Keys |-> IF keyToBytes(k) \in DOMAIN t THEN valueFromBytes(t[keyToBytes(k)]) ELSE None]
Store == INSTANCE StableStore WITH
    MemoryIds <- {0}, kept <- [m \in {0} |-> Seen(saved)], work <- [m \in {0} |-> Seen(tree)]
ImplementsMapOfValues == Store!Spec

\* However a developer pages through a map (stable_b_tree_map_items.rs), keys, values and
\* items agree; a key so read is found again, by the bytes it is written as, with the
\* value that came with it; each key of the map is in a page, and the order of bytes goes
\* on from page to page, so that no key comes twice.
PagesAreTheMap ==
    \A length \in 1 .. MaxItems :
        LET Pages == 0 .. MaxItems
            Key == [n \in Pages |-> keys(n * length, length)]
            Value == [n \in Pages |-> values(n * length, length)]
        IN  /\ \A n \in Pages :
                /\ items(n * length, length) = [i \in DOMAIN Key[n] |-> <<Key[n][i], Value[n][i]>>]
                /\ DOMAIN Value[n] = DOMAIN Key[n]
                /\ \A i \in DOMAIN Key[n] :
                    containsKey(Key[n][i]) /\ get(Key[n][i]) = Value[n][i]
            /\ \A k \in Keys :
                containsKey(k) => \E n \in Pages : \E i \in DOMAIN Key[n] : Key[n][i] = k
            /\ \A m, n \in Pages : \A i \in DOMAIN Key[m], j \in DOMAIN Key[n] :
                m < n \/ (m = n /\ i < j) => Below(keyToBytes(Key[m][i]), keyToBytes(Key[n][j]))
=============================================================================
