--------------------------- MODULE LifecycleProofs ---------------------------
(***************************************************************************)
(* Proofs about Lifecycle, for any maps, versions, seeds and bounds.       *)
(*                                                                         *)
(* A step does one of three things to the canister and the canister as of  *)
(* the last commit: it replaces both by one new canister (a commit), only  *)
(* the first (JavaScript), or neither.  So each invariant is a fact about  *)
(* one canister, Good(d), that every new canister a step makes has.        *)
(***************************************************************************)
EXTENDS Lifecycle, TLAPS

\* The canisters d a step may make of c and saved.
Made(d) ==
    \/ d \in {c, saved}
    \/ \E code \in Codes, s \in {"running", "stopped"} :
          d = [Evaluated(code, c.stable) EXCEPT !.status = s]
    \/ c.status # "absent" /\ \E s \in {"running", "stopped"} : d = [c EXCEPT !.status = s]
    \/ \E s \in {"timer", "calling", "failed"} : d = [c EXCEPT !.seeding = s]
    \/ raw' = raw + 1 /\ d = [Reseeded(c, raw') EXCEPT !.seeding = "done"]
    \/ \E i \in TimerIds : d = [c EXCEPT !.timers = @ \ {i}]
    \/ \E i \in TimerIds : d = [c EXCEPT !.timers = @ \union {i}]
    \/ \E id \in Generator : d = [c EXCEPT !.pending = @ \ {id}]
    \/ \E m \in MemoryIds : d = Opened(c, {m})
    \/ \E m \in MemoryIds, k \in Keys, v \in Values \union {None} :
          d = [c EXCEPT !.stable = Put(c.stable, m, k, v)]
    \/ \E s \in UserSeeds : d = [c EXCEPT !.csprng = s]
    \/ /\ c.internal.pos < MaxDraws
       /\ d = [c EXCEPT !.pending = @ \union {c.internal},
                        !.internal = Drawn(c.internal)]

\* Every step leaves canisters that it made, or that were there.
LEMMA StepMakes ==
    ASSUME TypeOK, [Next]_vars
    PROVE  /\ Made(c')
           /\ saved' \in {c', saved}
           /\ raw' \in {raw, raw + 1} /\ raw' \in Seeds
           /\ exec' \in Kinds
           /\ upgrades' \in 0 .. MaxUpgrades
<1>1. CASE Install
  <2>1. PICK code \in Codes : Begin("init", Evaluated(code, c.stable))
    BY <1>1 DEF Install
  <2>2. Evaluated(code, c.stable) = [Evaluated(code, c.stable) EXCEPT !.status = "running"]
    BY DEF Evaluated, Opened, Absent
  <2> QED BY <2>1, <2>2 DEF Begin, Made, TypeOK, Kinds
<1>2. CASE Stop \/ Start
  BY <1>2 DEF Stop, Start, Commit, Made, TypeOK, Kinds
<1>3. CASE BeginUpgrade
  BY <1>3, BoundsAssumption DEF BeginUpgrade, Made, TypeOK, Kinds
<1>4. CASE PreUpgradeReturns
  BY <1>4 DEF PreUpgradeReturns, Made, TypeOK, Kinds
<1>5. CASE InitializeReturns \/ SeedTimerRuns \/ RawRandFails
  BY <1>5 DEF InitializeReturns, SeedTimerRuns, RawRandFails, Commit, Made, TypeOK, Kinds
<1>6. CASE RawRandAnswers
  BY <1>6, BoundsAssumption DEF RawRandAnswers, Commit, Made, TypeOK, Kinds, Seeds, Zero
<1>7. CASE BeginUpdate \/ BeginQuery
  BY <1>7 DEF BeginUpdate, BeginQuery, Begin, Made, TypeOK, Kinds
<1>8. ASSUME NEW i \in TimerIds, BeginTimer(i)
      PROVE  Made(c') /\ saved' = c' /\ exec' = "timer" /\ UNCHANGED <<raw, upgrades>>
  BY <1>8 DEF BeginTimer, Made
<1>9. CASE MessageReturns \/ QueryReturns \/ Traps
  BY <1>9 DEF MessageReturns, QueryReturns, Traps, Commit, Made, TypeOK, Kinds
<1>10. ASSUME NEW id \in Generator, CallAnswered(id)
       PROVE  Made(c') /\ saved' = c' /\ exec' = "rest" /\ UNCHANGED <<raw, upgrades>>
  BY <1>10 DEF CallAnswered, Commit, Made
<1>11. CASE JavaScript
  <2>1. UNCHANGED <<saved, exec, raw, upgrades>>
    BY <1>11 DEF JavaScript, Script, NewMap, RemoveItem, InsertItem, RandSeed, CallOut, SetTimer
  <2>2. Made(c')
    <3>1. CASE \E m \in MemoryIds : NewMap(m)
      BY <3>1 DEF NewMap, Script, Made
    <3>2. CASE \E m \in MemoryIds, k \in Keys : RemoveItem(m, k)
      BY <3>2 DEF RemoveItem, Script, Made
    <3>3. CASE \E m \in MemoryIds, k \in Keys, v \in Values : InsertItem(m, k, v)
      BY <3>3 DEF InsertItem, Script, Made
    <3>4. CASE \E s \in UserSeeds : RandSeed(s)
      BY <3>4 DEF RandSeed, Script, Made
    <3>5. CASE CallOut
      BY <3>5 DEF CallOut, Script, Made
    <3>6. CASE \E i \in TimerIds : SetTimer(i)
      BY <3>6 DEF SetTimer, Script, Made
    <3> QED BY <1>11, <3>1, <3>2, <3>3, <3>4, <3>5, <3>6 DEF JavaScript
  <2> QED BY <2>1, <2>2 DEF TypeOK
<1>12. CASE UNCHANGED vars
  BY <1>12 DEF vars, Made, TypeOK
<1> QED
  BY <1>1, <1>2, <1>3, <1>4, <1>5, <1>6, <1>7, <1>8, <1>9, <1>10, <1>11, <1>12
  DEF Next, TypeOK, Kinds

-----------------------------------------------------------------------------
(* What holds of one canister when raw_rand has answered n times *)

\* The ids in use were drawn from seeds known by then, and those drawn from the
\* current seed lie behind the generator.
IdsBehind(d, n) ==
    /\ d.internal.seed <= n
    /\ \A p \in d.pending :
          /\ p.seed <= n
          /\ p.seed = d.internal.seed => p.pos < d.internal.pos

Good(d, n) ==
    /\ d \in Canister
    /\ IdsBehind(d, n)
    /\ d.status # "absent" => d.code \subseteq d.maps
    /\ d.csprng \in UserSeeds \union {d.internal.seed}

IInv ==
    /\ Good(c, raw)
    /\ Good(saved, raw)
    /\ exec \in Kinds
    /\ raw \in Seeds
    /\ upgrades \in 0 .. MaxUpgrades

LEMMA SeedsAreNumbers == Seeds \subseteq Nat /\ Zero \in Seeds /\ 0 \in 0 .. MaxDraws
  BY BoundsAssumption DEF Seeds, Zero

LEMMA AbsentIsGood ==
    \A n \in Seeds : Good(Absent, n)
<1> SUFFICES ASSUME NEW n \in Seeds PROVE Good(Absent, n)
  OBVIOUS
<1> USE SeedsAreNumbers
<1>1. Absent \in Canister
  BY DEF Absent, Canister, Generator, From
<1>2. IdsBehind(Absent, n)
  BY BoundsAssumption DEF IdsBehind, Absent, From, Seeds, Zero
<1> QED BY <1>1, <1>2 DEF Good, Absent, From

LEMMA EvaluatedIsGood ==
    ASSUME Good(c, raw), raw \in Seeds, NEW code \in Codes, NEW s \in {"running", "stopped"}
    PROVE  Good([Evaluated(code, c.stable) EXCEPT !.status = s], raw)
<1> DEFINE d == [Evaluated(code, c.stable) EXCEPT !.status = s]
<1>1. d = [Absent EXCEPT !.status = s, !.code = code, !.stable = c.stable, !.maps = code]
  BY DEF Evaluated, Opened, Absent
<1>2. Good(Absent, raw)
  BY AbsentIsGood
<1>3. c.stable \in [MemoryIds -> [Keys -> Values \union {None}]]
  BY DEF Good, Canister
<1>4. d \in Canister
  BY <1>1, <1>2, <1>3, CodesAssumption DEF Good, Canister
<1>5. /\ d.internal = Absent.internal /\ d.pending = Absent.pending
      /\ d.csprng = Absent.csprng /\ d.code = code /\ d.maps = code
  BY <1>1 DEF Absent
<1> HIDE DEF d
<1>6. Good(d, raw)
  BY <1>2, <1>4, <1>5 DEF Good, IdsBehind
<1> QED BY <1>6 DEF d

\* The id drawn from the generator is at its old position, one behind the new one.
LEMMA CalledOutIsGood ==
    ASSUME Good(c, raw), raw \in Seeds, c.internal.pos < MaxDraws
    PROVE  Good([c EXCEPT !.pending = @ \union {c.internal},
                          !.internal = Drawn(c.internal)], raw)
<1> DEFINE d == [c EXCEPT !.pending = @ \union {c.internal}, !.internal = Drawn(c.internal)]
<1> USE SeedsAreNumbers
<1>1. c \in Canister /\ c.internal \in Generator
  BY DEF Good, Canister
<1>2. /\ Drawn(c.internal) \in Generator
      /\ Drawn(c.internal).seed = c.internal.seed
      /\ Drawn(c.internal).pos = c.internal.pos + 1
  BY <1>1, BoundsAssumption DEF Drawn, Generator
<1>3. /\ d.pending = c.pending \union {c.internal} /\ d.internal = Drawn(c.internal)
      /\ d.csprng = c.csprng /\ d.status = c.status /\ d.code = c.code /\ d.maps = c.maps
  BY <1>1 DEF Canister
<1>4. d \in Canister
  BY <1>1, <1>2 DEF Canister
<1>5. \A p \in d.pending : p \in Generator
  BY <1>4 DEF Canister
<1> HIDE DEF d
<1>6. IdsBehind(d, raw)
  BY <1>1, <1>2, <1>3, <1>5, BoundsAssumption DEF Good, IdsBehind, Generator
<1>7. Good(d, raw)
  BY <1>2, <1>3, <1>4, <1>6 DEF Good
<1> QED BY <1>7 DEF d

\* No id in use was drawn from a seed that raw_rand has only just given.
LEMMA ReseededIsGood ==
    ASSUME Good(c, raw), raw \in Seeds, raw + 1 \in Seeds
    PROVE  Good([Reseeded(c, raw + 1) EXCEPT !.seeding = "done"], raw + 1)
<1> DEFINE d == [Reseeded(c, raw + 1) EXCEPT !.seeding = "done"]
<1> USE SeedsAreNumbers
<1>1. c \in Canister
  BY DEF Good
<1>2. /\ d.pending = c.pending /\ d.internal = From(raw + 1) /\ d.csprng = raw + 1
      /\ d.status = c.status /\ d.code = c.code /\ d.maps = c.maps
  BY <1>1 DEF Canister, Reseeded
<1>3. d \in Canister
  BY <1>1 DEF Canister, Reseeded, From, Generator
<1>4. \A p \in d.pending : p.seed \in Nat
  BY <1>3 DEF Canister, Generator
<1> HIDE DEF d
<1>5. IdsBehind(d, raw + 1)
  BY <1>2, <1>4 DEF Good, IdsBehind, From
<1>6. Good(d, raw + 1)
  BY <1>2, <1>3, <1>5 DEF Good, From
<1> QED BY <1>6 DEF d

LEMMA MadeIsGood ==
    ASSUME IInv, raw' \in {raw, raw + 1}, raw' \in Seeds
    PROVE  \A d : Made(d) => Good(d, raw')
<1> SUFFICES ASSUME NEW d, Made(d) PROVE Good(d, raw')
  OBVIOUS
<1> USE SeedsAreNumbers DEF IInv
<1>1. \A e : Good(e, raw) => Good(e, raw')
  <2> SUFFICES ASSUME NEW e, Good(e, raw) PROVE Good(e, raw')
    OBVIOUS
  <2>1. \A p \in e.pending : p.seed \in Nat
    BY DEF Good, Canister, Generator
  <2>2. e.internal.seed \in Nat
    BY DEF Good, Canister, Generator
  <2>3. IdsBehind(e, raw')
    BY <2>1, <2>2 DEF Good, IdsBehind
  <2> QED BY <2>3 DEF Good
<1>2. CASE d \in {c, saved}
  BY <1>1, <1>2
<1>3. CASE \E code \in Codes, s \in {"running", "stopped"} :
              d = [Evaluated(code, c.stable) EXCEPT !.status = s]
  <2>1. Good(d, raw)
    BY <1>3, EvaluatedIsGood
  <2> QED BY <2>1, <1>1
<1>4. CASE raw' = raw + 1 /\ d = [Reseeded(c, raw') EXCEPT !.seeding = "done"]
  <2>1. Good([Reseeded(c, raw + 1) EXCEPT !.seeding = "done"], raw + 1)
    BY <1>4, ReseededIsGood
  <2> QED BY <1>4, <2>1
<1>5. CASE /\ c.internal.pos < MaxDraws
           /\ d = [c EXCEPT !.pending = @ \union {c.internal},
                            !.internal = Drawn(c.internal)]
  <2>1. Good(d, raw)
    BY <1>5, CalledOutIsGood
  <2> QED BY <2>1, <1>1
<1>6. CASE \E id \in Generator : d = [c EXCEPT !.pending = @ \ {id}]
  <2>1. c \in Canister
    BY DEF Good
  <2>2. d \in Canister /\ d.pending \subseteq c.pending /\ d.internal = c.internal
        /\ d.csprng = c.csprng /\ d.status = c.status /\ d.code = c.code /\ d.maps = c.maps
    BY <1>6, <2>1 DEF Canister
  <2>3. Good(d, raw)
    BY <2>2 DEF Good, IdsBehind
  <2> QED BY <2>3, <1>1
<1>7. CASE \E s \in UserSeeds : d = [c EXCEPT !.csprng = s]
  <2>1. c \in Canister
    BY DEF Good
  <2>2. d \in Canister /\ d.pending = c.pending /\ d.internal = c.internal
        /\ d.csprng \in UserSeeds /\ d.status = c.status /\ d.code = c.code /\ d.maps = c.maps
    BY <1>7, <2>1 DEF Canister
  <2>3. Good(d, raw)
    BY <2>2 DEF Good, IdsBehind
  <2> QED BY <2>3, <1>1
<1>8. CASE \E m \in MemoryIds : d = Opened(c, {m})
  <2>1. c \in Canister
    BY DEF Good
  <2>2. d \in Canister /\ d.pending = c.pending /\ d.internal = c.internal
        /\ d.csprng = c.csprng /\ d.status = c.status /\ d.code = c.code /\ c.maps \subseteq d.maps
    BY <1>8, <2>1 DEF Canister, Opened
  <2>3. Good(d, raw)
    BY <2>2 DEF Good, IdsBehind
  <2> QED BY <2>3, <1>1
<1>9. CASE \E m \in MemoryIds, k \in Keys, v \in Values \union {None} :
              d = [c EXCEPT !.stable = Put(c.stable, m, k, v)]
  <2>1. c \in Canister
    BY DEF Good
  <2>2. \A m \in MemoryIds, k \in Keys, v \in Values \union {None} :
           Put(c.stable, m, k, v) \in [MemoryIds -> [Keys -> Values \union {None}]]
    BY <2>1 DEF Canister, Put
  <2>3. PICK stable \in [MemoryIds -> [Keys -> Values \union {None}]] :
                d = [c EXCEPT !.stable = stable]
    BY <1>9, <2>2
  <2>4. d \in Canister /\ d.pending = c.pending /\ d.internal = c.internal
        /\ d.csprng = c.csprng /\ d.status = c.status /\ d.code = c.code /\ d.maps = c.maps
    BY <2>1, <2>3 DEF Canister
  <2>5. Good(d, raw)
    BY <2>4 DEF Good, IdsBehind
  <2> QED BY <2>5, <1>1
<1>10. CASE \/ \E s \in {"timer", "calling", "failed"} : d = [c EXCEPT !.seeding = s]
            \/ \E i \in TimerIds : d = [c EXCEPT !.timers = @ \ {i}]
            \/ \E i \in TimerIds : d = [c EXCEPT !.timers = @ \union {i}]
  <2>1. c \in Canister
    BY DEF Good
  <2>2. d \in Canister /\ d.pending = c.pending /\ d.internal = c.internal
        /\ d.csprng = c.csprng /\ d.status = c.status /\ d.code = c.code /\ d.maps = c.maps
    BY <1>10, <2>1 DEF Canister
  <2>3. Good(d, raw)
    BY <2>2 DEF Good, IdsBehind
  <2> QED BY <2>3, <1>1
<1>11. CASE c.status # "absent" /\ \E s \in {"running", "stopped"} : d = [c EXCEPT !.status = s]
  <2>1. c \in Canister
    BY DEF Good
  <2>2. d \in Canister /\ d.pending = c.pending /\ d.internal = c.internal
        /\ d.csprng = c.csprng /\ d.code = c.code /\ d.maps = c.maps
    BY <1>11, <2>1 DEF Canister
  <2>3. Good(d, raw)
    BY <1>11, <2>2 DEF Good, IdsBehind
  <2> QED BY <2>3, <1>1
<1> QED
  BY <1>2, <1>3, <1>4, <1>5, <1>6, <1>7, <1>8, <1>9, <1>10, <1>11 DEF Made

-----------------------------------------------------------------------------
LEMMA IInvHolds == Spec => []IInv
<1>1. Init => IInv
  BY AbsentIsGood, SeedsAreNumbers, BoundsAssumption DEF Init, IInv, Kinds, Zero
<1>2. IInv /\ [Next]_vars => IInv'
  <2> SUFFICES ASSUME IInv, [Next]_vars PROVE IInv'
    OBVIOUS
  <2>1. TypeOK
    BY DEF IInv, Good, TypeOK
  <2>2. /\ Made(c') /\ saved' \in {c', saved}
        /\ raw' \in {raw, raw + 1} /\ raw' \in Seeds
        /\ exec' \in Kinds /\ upgrades' \in 0 .. MaxUpgrades
    BY <2>1, StepMakes
  <2>3. Good(c', raw')
    BY <2>2, MadeIsGood
  <2>4. Made(saved)
    BY DEF Made
  <2>5. Good(saved', raw')
    BY <2>2, <2>3, <2>4, MadeIsGood
  <2> QED BY <2>2, <2>3, <2>5 DEF IInv
<1> QED BY <1>1, <1>2, PTL DEF Spec

\* Every variable has its type, for any maps, versions and bounds.
THEOREM LifecycleTypeCorrect == Spec => []TypeOK
<1>1. IInv => TypeOK
  BY DEF IInv, Good, TypeOK
<1> QED BY <1>1, IInvHolds, PTL

\* The id of the next call is never one a call is waiting under (ic/uuid.rs), however
\* often the generators are reseeded, by whom, and whatever is rolled back.
THEOREM CallIdsFresh == Spec => []IdsFresh
<1>1. \A n, d : Good(d, n) => d.internal \notin d.pending
  BY BoundsAssumption DEF Good, Canister, Generator, IdsBehind
<1>2. IInv => IdsFresh
  BY <1>1 DEF IInv, IdsFresh
<1> QED BY <1>2, IInvHolds, PTL

\* Between messages the maps of the running code are registered (stable_b_tree_map.rs).
THEOREM MapsStayUsable == Spec => []MapsUsable
<1>1. IInv => MapsUsable
  BY DEF IInv, Good, MapsUsable
<1> QED BY <1>1, IInvHolds, PTL

\* raw_rand seeds both generators or neither (init_and_post_upgrade.rs).
THEOREM GeneratorsSeededTogether == Spec => []SeededTogether
<1>1. IInv => SeededTogether
  BY DEF IInv, Good, SeededTogether
<1> QED BY <1>1, IInvHolds, PTL

-----------------------------------------------------------------------------
(* The maps implement the abstract store *)

\* What a step does to the items: one is inserted or removed, the message's work is
\* committed or thrown away, or nothing; StableStore allows no more.
LEMMA StoreStep ==
    ASSUME TypeOK, [Next]_vars
    PROVE  [Store!Next]_(Store!vars)
<1> USE DEF Store!Next, Store!vars, Store!Commit, Store!Discard
<1>1. CASE \E m \in MemoryIds, k \in Keys, v \in Values : InsertItem(m, k, v)
  <2>1. PICK m \in MemoryIds, k \in Keys, v \in Values : InsertItem(m, k, v)
    BY <1>1
  <2>2. c'.stable = Put(c.stable, m, k, v) /\ saved' = saved
    BY <2>1 DEF InsertItem, Script, TypeOK, Canister
  <2>3. Store!Insert(m, k, v)
    BY <2>2 DEF Store!Insert, Put
  <2> QED BY <2>3
<1>2. CASE \E m \in MemoryIds, k \in Keys : RemoveItem(m, k)
  <2>1. PICK m \in MemoryIds, k \in Keys : RemoveItem(m, k)
    BY <1>2
  <2>2. c'.stable = Put(c.stable, m, k, None) /\ saved' = saved
    BY <2>1 DEF RemoveItem, Script, TypeOK, Canister
  <2>3. Store!Remove(m, k)
    BY <2>2 DEF Store!Remove, Put
  <2> QED BY <2>3
<1>3. CASE /\ c'.stable = c.stable
           /\ saved'.stable \in {c.stable, saved.stable}
  BY <1>3
<1>4. CASE c'.stable = saved.stable /\ saved'.stable = saved.stable
  BY <1>4
<1>5. CASE Install \/ PreUpgradeReturns
  <2>1. PICK code \in Codes : \/ c' = Evaluated(code, c.stable)
                             \/ c' = [Evaluated(code, c.stable) EXCEPT !.status = "stopped"]
    BY <1>5 DEF Install, Begin, PreUpgradeReturns
  <2>2. c'.stable = c.stable
    BY <2>1 DEF Evaluated, Opened, Absent
  <2>3. saved' = saved
    BY <1>5 DEF Install, Begin, PreUpgradeReturns
  <2> QED BY <2>2, <2>3, <1>3
<1>6. CASE \/ Stop \/ Start \/ BeginUpgrade \/ InitializeReturns \/ SeedTimerRuns
           \/ RawRandFails \/ BeginUpdate \/ BeginQuery \/ MessageReturns
           \/ \E i \in TimerIds : BeginTimer(i)
           \/ \E id \in Generator : CallAnswered(id)
  <2>1. c'.stable = c.stable /\ saved' \in {c', saved}
    BY <1>6 DEF Stop, Start, BeginUpgrade, InitializeReturns, SeedTimerRuns, RawRandFails,
         BeginUpdate, BeginQuery, MessageReturns, BeginTimer, CallAnswered, Commit, Begin,
         TypeOK, Canister
  <2> QED BY <2>1, <1>3
<1>7. CASE RawRandAnswers
  <2>1. c'.stable = c.stable /\ saved' = c'
    BY <1>7 DEF RawRandAnswers, Reseeded, Commit, TypeOK, Canister
  <2> QED BY <2>1, <1>3
<1>8. CASE QueryReturns \/ Traps
  BY <1>8, <1>4 DEF QueryReturns, Traps, Commit
<1>9. CASE \/ \E m \in MemoryIds : NewMap(m)
           \/ \E s \in UserSeeds : RandSeed(s)
           \/ CallOut
           \/ \E i \in TimerIds : SetTimer(i)
  <2>1. c'.stable = c.stable /\ saved' = saved
    BY <1>9 DEF NewMap, Opened, RandSeed, CallOut, SetTimer, Script, TypeOK, Canister
  <2> QED BY <2>1, <1>3
<1>10. CASE UNCHANGED vars
  BY <1>10, <1>3 DEF vars
<1> QED
  BY <1>1, <1>2, <1>5, <1>6, <1>7, <1>8, <1>9, <1>10 DEF Next, JavaScript

\* StableBTreeMap keeps its promise: the items of every map change only as messages
\* ask, all or nothing, and no upgrade, trap, query or new handle changes any.
THEOREM StoreImplemented == Spec => ImplementsStableStore
<1>1. Init => Store!Init
  BY DEF Init, Absent, Store!Init, Store!NoItems
<1>2. TypeOK /\ [Next]_vars => [Store!Next]_(Store!vars)
  BY StoreStep
<1> QED
  BY <1>1, <1>2, LifecycleTypeCorrect, PTL DEF Spec, ImplementsStableStore, Store!Spec
=============================================================================
