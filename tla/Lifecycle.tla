------------------------------ MODULE Lifecycle ------------------------------
(***************************************************************************)
(* The life of an Azle (stable mode) canister: installation, upgrades,     *)
(* stopping, and what each does to the state that messages use.            *)
(*                                                                         *)
(* In the heap, lost at an upgrade: the two generators (ic/rand_seed.rs,   *)
(* ic/uuid.rs, seed_internal_csprng.rs), the registry of StableBTreeMaps   *)
(* (stable_b_tree_map.rs), the ids of the calls that wait for an answer    *)
(* (lib/ic_apis/call.ts), the timers, and the timer that seeds the         *)
(* generators (init_and_post_upgrade.rs).  In stable memory, kept: the     *)
(* items of the maps.                                                      *)
(*                                                                         *)
(* c is the canister as the message being executed sees it, saved the      *)
(* canister as of the last commit, to which a trap falls back: heap,       *)
(* stable memory and code.  The JavaScript of a message takes any number   *)
(* of steps.  What a call or a timer does with its JavaScript is in        *)
(* InterCanisterCalls and Timers; here a call is its id, a timer its name. *)
(*                                                                         *)
(* Assumed of the installer: a canister is stopped before it is upgraded   *)
(* (so no answer is on its way), and of the IC: raw_rand never repeats.    *)
(***************************************************************************)
EXTENDS Naturals, FiniteSets

CONSTANTS
    MemoryIds,      \* memory ids StableBTreeMap accepts: 0 .. 253 in the code
    Keys, Values,   \* the maps' contents, serialized
    None,           \* no value
    Codes,          \* versions of the canister: the maps their modules construct
    UserSeeds,      \* seeds a developer may pass to randSeed
    TimerIds,       \* timers a developer may set
    MaxItems,       \* items a map may hold: 2^32 - 1 in the code
    MaxRaw,         \* bound: answers of raw_rand
    MaxDraws,       \* bound: draws from one seed
    MaxUpgrades     \* bound: upgrades

ASSUME CodesAssumption == Codes \subseteq SUBSET MemoryIds
ASSUME NoneAssumption == None \notin Values
ASSUME BoundsAssumption ==
    /\ MaxItems \in Nat
    /\ MaxRaw \in Nat
    /\ MaxDraws \in Nat
    /\ MaxUpgrades \in Nat

VARIABLES
    c,          \* the canister
    saved,      \* the canister as of the last commit
    exec,       \* the message being executed
    raw,        \* the answers raw_rand has given: the n-th is the seed n
    upgrades    \* upgrades begun

vars == <<c, saved, exec, raw, upgrades>>

\* The generators start from 32 zero bytes (lib.rs).
Zero == 0
Seeds == Zero .. MaxRaw
\* The state of a generator, its seed and how often it was drawn from, is also what
\* its next draw returns.
Generator == [seed : Seeds, pos : 0 .. MaxDraws]
From(seed) == [seed |-> seed, pos |-> 0]
Drawn(g) == [g EXCEPT !.pos = g.pos + 1]

Kinds == {"rest", "init", "preUpgrade", "postUpgrade", "update", "query", "timer"}

Canister ==
    [ status : {"absent", "running", "stopped"},
      code : SUBSET MemoryIds,
      stable : [MemoryIds -> [Keys -> Values \union {None}]],
      maps : SUBSET MemoryIds,          \* keys of STABLE_B_TREE_MAPS
      csprng : Seeds \union UserSeeds,  \* crypto.getRandomValues: its seed
      internal : Generator,             \* ids of calls, "not exposed to user code"
      pending : SUBSET Generator,       \* ids of calls not answered yet
      timers : SUBSET TimerIds,         \* timers that have not run yet
      seeding : {"none", "timer", "calling", "done", "failed"} ]

Absent ==
    [ status |-> "absent",
      code |-> {},
      stable |-> [m \in MemoryIds |-> [k \in Keys |-> None]],
      maps |-> {},
      csprng |-> Zero,
      internal |-> From(Zero),
      pending |-> {},
      timers |-> {},
      seeding |-> "none" ]

Init ==
    /\ c = Absent
    /\ saved = Absent
    /\ exec = "rest"
    /\ raw = 0
    /\ upgrades = 0

Commit(d) ==
    /\ c' = d
    /\ saved' = d
    /\ exec' = "rest"

Begin(kind, d) ==
    /\ exec = "rest"
    /\ exec' = kind
    /\ c' = d
    /\ UNCHANGED <<saved, raw, upgrades>>

-----------------------------------------------------------------------------
(* Installation and upgrade: init_and_post_upgrade.rs *)

\* Mutant: memory that already holds items is taken for an open map.
OpenedOnce(d, ms) ==
    [d EXCEPT !.maps = @ \union {m \in ms : d.stable[m] = Absent.stable[m]}]

\* Mutant: the map is made anew, as StableBTreeMap::new does.
OpenedNew(d, ms) ==
    [d EXCEPT !.maps = @ \union ms,
              !.stable = [m \in MemoryIds |-> IF m \in ms THEN Absent.stable[m] ELSE @[m]]]

\* The constructor of a StableBTreeMap: a handle over the memory, with whatever
\* items the memory holds, replaces the one registered before.
Opened(d, ms) == [d EXCEPT !.maps = @ \union ms]

\* initialize_context: a new instance of the module has nothing in its heap; the
\* JavaScript of the module is evaluated and constructs its maps.
Evaluated(code, stable) ==
    Opened([Absent EXCEPT !.status = "running", !.code = code, !.stable = stable], code)

Install ==
    /\ c.status = "absent"
    /\ \E code \in Codes : Begin("init", Evaluated(code, c.stable))

Stop ==
    /\ exec = "rest"
    /\ c.status = "running"
    /\ c.pending = {}
    /\ c.seeding # "calling"
    /\ Commit([c EXCEPT !.status = "stopped"])
    /\ UNCHANGED <<raw, upgrades>>

Start ==
    /\ exec = "rest"
    /\ c.status = "stopped"
    /\ Commit([c EXCEPT !.status = "running"])
    /\ UNCHANGED <<raw, upgrades>>

\* The old code runs its preUpgrade method.
BeginUpgrade ==
    /\ c.status = "stopped"
    /\ exec = "rest"
    /\ upgrades < MaxUpgrades
    /\ exec' = "preUpgrade"
    /\ upgrades' = upgrades + 1
    /\ UNCHANGED <<c, saved, raw>>

\* Then the new code is evaluated over the same stable memory.
PreUpgradeReturns ==
    /\ exec = "preUpgrade"
    /\ exec' = "postUpgrade"
    /\ \E code \in Codes :
          c' = [Evaluated(code, c.stable) EXCEPT !.status = "stopped"]
    /\ UNCHANGED <<saved, raw, upgrades>>

\* Mutant: only an installation seeds the generators.
InitializeReturnsSeedingInit ==
    /\ exec \in {"init", "postUpgrade"}
    /\ Commit([c EXCEPT !.seeding = IF exec = "init" THEN "timer" ELSE "none"])
    /\ UNCHANGED <<raw, upgrades>>

\* The developer's init or postUpgrade method has returned: seed_from_raw_rand sets
\* its timer last, and the installation or the upgrade is committed as a whole.
InitializeReturns ==
    /\ exec \in {"init", "postUpgrade"}
    /\ Commit([c EXCEPT !.seeding = "timer"])
    /\ UNCHANGED <<raw, upgrades>>

-----------------------------------------------------------------------------
(* Seeding: seed_from_raw_rand *)

\* The delay-0 timer runs: raw_rand is called, or cannot be and the task traps.
SeedTimerRuns ==
    /\ exec = "rest"
    /\ c.status = "running"
    /\ c.seeding = "timer"
    /\ \E s \in {"calling", "failed"} : Commit([c EXCEPT !.seeding = s])
    /\ UNCHANGED <<raw, upgrades>>

\* Mutant: the ids' generator is forgotten.
ReseededForDevelopers(d, seed) == [d EXCEPT !.csprng = seed]

\* What the answer does to the canister: both generators start from it.
Reseeded(d, seed) == [d EXCEPT !.csprng = seed, !.internal = From(seed)]

RawRandAnswers ==
    /\ exec = "rest"
    /\ c.status = "running"
    /\ c.seeding = "calling"
    /\ raw < MaxRaw
    /\ raw' = raw + 1
    /\ Commit([Reseeded(c, raw') EXCEPT !.seeding = "done"])
    /\ UNCHANGED upgrades

\* The call is rejected or its answer does not decode: the task traps, once and for
\* all ("Azle SeedFromRawRandError").
RawRandFails ==
    /\ exec = "rest"
    /\ c.status = "running"
    /\ c.seeding = "calling"
    /\ Commit([c EXCEPT !.seeding = "failed"])
    /\ UNCHANGED <<raw, upgrades>>

-----------------------------------------------------------------------------
(* Messages and what their JavaScript does *)

BeginUpdate == c.status = "running" /\ Begin("update", c)
BeginQuery == c.status = "running" /\ Begin("query", c)

\* A timer of the developer's runs; it is over whether its callback traps or not.
BeginTimer(i) ==
    /\ exec = "rest"
    /\ c.status = "running"
    /\ i \in c.timers
    /\ exec' = "timer"
    /\ c' = [c EXCEPT !.timers = @ \ {i}]
    /\ saved' = c'
    /\ UNCHANGED <<raw, upgrades>>

MessageReturns ==
    /\ exec \in {"update", "timer"}
    /\ Commit(c)
    /\ UNCHANGED <<raw, upgrades>>

\* A query changes nothing.
QueryReturns ==
    /\ exec = "query"
    /\ Commit(saved)
    /\ UNCHANGED <<raw, upgrades>>

\* Any JavaScript may trap, and an upgrade is rolled back to the old code with its
\* heap, whichever of its two methods traps.
Traps ==
    /\ exec # "rest"
    /\ Commit(saved)
    /\ UNCHANGED <<raw, upgrades>>

\* The answer to a call of the developer's arrives and its callbacks are deleted.
CallAnswered(id) ==
    /\ exec = "rest"
    /\ id \in c.pending
    /\ Commit([c EXCEPT !.pending = @ \ {id}])
    /\ UNCHANGED <<raw, upgrades>>

Script(d) ==
    /\ exec # "rest"
    /\ c' = d
    /\ UNCHANGED <<saved, exec, raw, upgrades>>

NewMap(m) == m \notin c.maps /\ Script(Opened(c, {m}))

Put(stable, m, k, v) == [stable EXCEPT ![m] = [stable[m] EXCEPT ![k] = v]]

\* How many items a map holds.
Length(items) == Cardinality({k \in Keys : items[k] # None})

\* insert throws for a map that no constructor registered, and for a new key in a
\* map that is full.
InsertItem(m, k, v) ==
    /\ m \in c.maps
    /\ c.stable[m][k] # None \/ Length(c.stable[m]) < MaxItems
    /\ Script([c EXCEPT !.stable = Put(c.stable, m, k, v)])

RemoveItem(m, k) ==
    /\ m \in c.maps
    /\ Script([c EXCEPT !.stable = Put(c.stable, m, k, None)])

\* Mutant: there is one generator.
RandSeedBoth(seed) == Script([c EXCEPT !.csprng = seed, !.internal = From(seed)])

\* ic/rand_seed.rs, open to developers; how much is drawn from their generator
\* matters to nothing here.
RandSeed(seed) == Script([c EXCEPT !.csprng = seed])

\* handleTwoWay draws an id from ic/uuid.rs for the callbacks of the call it starts.
\* A query's calls, and those of a canister that is being upgraded, are refused.
CallOut ==
    /\ exec \in {"update", "timer"}
    /\ c.internal.pos < MaxDraws
    /\ Script([c EXCEPT !.pending = @ \union {c.internal},
                        !.internal = Drawn(c.internal)])

SetTimer(i) == i \notin c.timers /\ Script([c EXCEPT !.timers = @ \union {i}])

JavaScript ==
    \/ \E m \in MemoryIds :
        \/ NewMap(m)
        \/ \E k \in Keys : RemoveItem(m, k) \/ \E v \in Values : InsertItem(m, k, v)
    \/ \E s \in UserSeeds : RandSeed(s)
    \/ CallOut
    \/ \E i \in TimerIds : SetTimer(i)

-----------------------------------------------------------------------------
Next ==
    \/ Install
    \/ Stop
    \/ Start
    \/ BeginUpgrade
    \/ PreUpgradeReturns
    \/ InitializeReturns
    \/ SeedTimerRuns
    \/ RawRandAnswers
    \/ RawRandFails
    \/ BeginUpdate
    \/ BeginQuery
    \/ \E i \in TimerIds : BeginTimer(i)
    \/ MessageReturns
    \/ QueryReturns
    \/ Traps
    \/ \E id \in Generator : CallAnswered(id)
    \/ JavaScript

Spec == Init /\ [][Next]_vars

\* A message ends; the timer runs and raw_rand is answered, one way or the other,
\* however often the canister is busy or stopped meanwhile.
Fairness ==
    /\ WF_vars(InitializeReturns \/ MessageReturns \/ QueryReturns \/ PreUpgradeReturns \/ Traps)
    /\ WF_vars(Start)
    /\ SF_vars(SeedTimerRuns)
    /\ SF_vars(RawRandAnswers \/ RawRandFails)

FairSpec == Spec /\ Fairness

-----------------------------------------------------------------------------
(* Properties *)

\* Every variable has its type.
TypeOK ==
    /\ c \in Canister
    /\ saved \in Canister
    /\ exec \in Kinds
    /\ raw \in Seeds
    /\ upgrades \in 0 .. MaxUpgrades

\* The id the next call will be given is not one that a call is waiting under: not
\* when the generators are reseeded under pending calls, not when the developer
\* reseeds (ic/uuid.rs: "cannot influence through re-seeding"), and not when a trap
\* or an upgrade takes the generator back to an earlier position.
IdsFresh ==
    /\ c.internal \notin c.pending
    /\ saved.internal \notin saved.pending

\* Between messages the code that runs is the code whose module built the heap: the
\* maps it constructs are registered, so none of its methods finds one missing
\* (stable_b_tree_map.rs), after any upgrade and any upgrade rolled back.
MapsUsable ==
    exec = "rest" /\ saved.status # "absent" => saved.code \subseteq saved.maps

\* A developer's generator runs from the developer's seed or from the randomness of
\* the ids: the answer of raw_rand seeds both or neither (init_and_post_upgrade.rs).
SeededTogether == saved.csprng \in UserSeeds \union {saved.internal.seed}

\* Items survive upgrades, traps, queries and handles opened anew (StableBTreeMap:
\* "automatically persists across canister upgrades").
Store == INSTANCE StableStore WITH kept <- saved.stable, work <- c.stable
ImplementsStableStore == Store!Spec

\* Every instance of the code gets its ids from a raw_rand seed sooner or later,
\* unless its one call to raw_rand fails (init_and_post_upgrade.rs).
EventuallySeeded ==
    saved.status # "absent" ~> saved.internal.seed # Zero \/ saved.seeding = "failed"
=============================================================================
