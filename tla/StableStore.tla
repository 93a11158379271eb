----------------------------- MODULE StableStore -----------------------------
(***************************************************************************)
(* What StableBTreeMap promises (lib/stable_structures): "a `BTreeMap`     *)
(* implementation backed by stable memory that automatically persists      *)
(* across canister upgrades".  There is no canister here, no heap and no   *)
(* upgrade: only maps that messages change, each message all or nothing.   *)
(***************************************************************************)
CONSTANTS MemoryIds, Keys, Values, None

VARIABLES
    kept,       \* the maps as the last committed message left them
    work        \* the maps as the message being executed sees them

vars == <<kept, work>>

Maps == [MemoryIds -> [Keys -> Values \union {None}]]
NoItems == [m \in MemoryIds |-> [k \in Keys |-> None]]

Init == kept = NoItems /\ work = NoItems

Insert(m, k, v) ==
    /\ work' = [work EXCEPT ![m] = [work[m] EXCEPT ![k] = v]]
    /\ UNCHANGED kept

Remove(m, k) ==
    /\ work' = [work EXCEPT ![m] = [work[m] EXCEPT ![k] = None]]
    /\ UNCHANGED kept

Commit == kept' = work /\ UNCHANGED work
Discard == work' = kept /\ UNCHANGED kept

Next ==
    \/ \E m \in MemoryIds, k \in Keys :
        \/ \E v \in Values : Insert(m, k, v)
        \/ Remove(m, k)
    \/ Commit
    \/ Discard

Spec == Init /\ [][Next]_vars
=============================================================================
