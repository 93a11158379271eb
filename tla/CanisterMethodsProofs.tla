------------------------- MODULE CanisterMethodsProofs -------------------------
(* Proofs about CanisterMethods, for any set of programs of any length.            *)
EXTENDS CanisterMethods, FiniteSetTheorems, TLAPS

\* The entry of the i-th method of code c, whose index is i - 1.
EntryOf(c, i) == [name |-> c[i].name, index |-> i - 1, hidden |-> c[i].hidden]
EntriesOf(c, n, kind) == {EntryOf(c, i) : i \in {i \in 1 .. n : c[i].kind = kind}}

\* A meta after the decorators of the first n methods of c ran.
Matches(meta, c, n) ==
    /\ DOMAIN meta.callbacks = 0 .. n - 1
    /\ \A i \in 1 .. n : meta.callbacks[i - 1] = c[i]
    /\ \A kind \in Kinds : meta.methods[kind] = EntriesOf(c, n, kind)
    /\ \A i \in 1 .. n : c[i].kind \in Callable => c[i].name \in DOMAIN meta.types
    /\ \A m \in DOMAIN meta.types :
          \E i \in 1 .. n : /\ c[i].kind \in Callable /\ c[i].name = m
                            /\ meta.types[m] = c[i].params
    /\ \A i \in 1 .. n : c[i].kind \in Initial => c[i].params = meta.initTypes

\* No kind has two methods, or for queries and updates two of one name.
Unique(c, n) ==
    \A i, j \in 1 .. n : i # j /\ c[i].kind = c[j].kind =>
        c[i].kind \in Callable /\ c[i].name # c[j].name

\* What a build made of its code.
GoodBuild(b) ==
    /\ b.code \in Programs
    /\ Unique(b.code, Len(b.code))
    /\ \A kind \in Kinds : b.methods[kind] = EntriesOf(b.code, Len(b.code), kind)
    /\ \A m \in DOMAIN b.candid.methods :
          \E i \in 1 .. Len(b.code) :
              b.code[i].kind \in Callable /\ b.code[i].name = m /\ ~b.code[i].hidden
    /\ Valid(b.methods) =>
          \A i \in 1 .. Len(b.code) : b.code[i].kind \in Callable /\ ~b.code[i].hidden =>
              /\ b.code[i].name \in DOMAIN b.candid.methods
              /\ b.candid.methods[b.code[i].name] = b.code[i].params
    /\ \A i \in 1 .. Len(b.code) : b.code[i].kind \in Initial =>
              b.code[i].params = b.candid.init

GoodEval ==
    /\ eval.for \in {"nothing", "build", "deploy", "reload"}
    /\ eval.code \in Programs /\ eval.done \in 0 .. Len(eval.code)
    /\ eval.meta.next = eval.done
    /\ Matches(eval.meta, eval.code, eval.done)
    /\ Unique(eval.code, eval.done)
    /\ eval.for = "deploy" => eval.code = wasm.code /\ wasm.built /\ Valid(wasm.methods)

\* The methods of code at the places where origin has its init and postUpgrade.
EntryPoints(origin, code) ==
    {code[i] : i \in {i \in 1 .. Len(code) : i \in 1 .. Len(origin) /\ origin[i].kind \in Initial}}

GoodCanister ==
    /\ canister.status \in {"absent", "running", "broken"}
    /\ canister.code \in Programs
    /\ GoodBuild(canister.made) /\ Valid(canister.made.methods)
    /\ canister.origin \in Programs
    /\ canister.status # "running" => canister.meta = NoMeta /\ canister.entry = {}
    /\ canister.status = "running" =>
          /\ canister.meta.next \in Nat /\ canister.meta.next >= Len(canister.code)
          /\ Matches(canister.meta, canister.code, Len(canister.code))
          /\ Unique(canister.code, Len(canister.code))
          /\ canister.entry \subseteq EntryPoints(canister.origin, canister.code)

IInv ==
    /\ source \in Programs
    /\ GoodEval
    /\ wasm.built \in BOOLEAN /\ GoodBuild(wasm)
    /\ GoodBuild(watcher)
    /\ GoodCanister

-----------------------------------------------------------------------------
(* Registering methods *)

LEMMA ProgramType ==
    ASSUME NEW c \in Programs
    PROVE  Len(c) \in Nat /\ \A i \in 1 .. Len(c) : c[i] \in Method
BY ProgramsAssumption

LEMMA NothingRegistered ==
    ASSUME NEW c
    PROVE  Matches(NoMeta, c, 0) /\ Unique(c, 0)
BY DEF NoMeta, Matches, Unique, EntriesOf

\* A meta knows the methods whose decorators ran.
LEMMA DefinedMeans ==
    ASSUME NEW c \in Programs, NEW n \in 0 .. Len(c), NEW meta, Matches(meta, c, n),
           NEW x \in Method
    PROVE  Defined(meta, x) <=> \E i \in 1 .. n : /\ c[i].kind = x.kind
                                                  /\ x.kind \in Callable => c[i].name = x.name
<1>1. meta.methods[x.kind] = {EntryOf(c, i) : i \in {i \in 1 .. n : c[i].kind = x.kind}}
    BY DEF Matches, Method, EntriesOf
<1>2. \A i \in 1 .. n : EntryOf(c, i).name = c[i].name
    BY DEF EntryOf
<1> QED BY <1>1, <1>2 DEF Defined

LEMMA RegisteredMatches ==
    ASSUME NEW c \in Programs, NEW n \in 0 .. Len(c), n < Len(c), NEW meta,
           meta.next = n, Matches(meta, c, n), Unique(c, n), ~Throws(meta, c[n + 1])
    PROVE  /\ Registered(meta, c[n + 1]).next = n + 1
           /\ Matches(Registered(meta, c[n + 1]), c, n + 1)
           /\ Unique(c, n + 1)
<1> DEFINE x == c[n + 1]
           m == Registered(meta, x)
<1>0. /\ n \in Nat /\ n + 1 \in 1 .. Len(c) /\ x \in Method /\ x.kind \in Kinds
      /\ 1 .. n + 1 = (1 .. n) \union {n + 1} /\ n + 1 \notin 1 .. n
      /\ 0 .. n = (0 .. n - 1) \union {n} /\ n \notin 0 .. n - 1 /\ (n + 1) - 1 = n
    BY ProgramType DEF Method
<1>1. /\ m.next = n + 1
      /\ m.callbacks = With(meta.callbacks, n, x)
      /\ m.methods = Listed(meta.methods, x, n)
      /\ m.types = IF x.kind \in Callable THEN With(meta.types, x.name, x.params) ELSE meta.types
      /\ m.initTypes = IF x.kind \in Initial THEN x.params ELSE meta.initTypes
    BY DEF Registered
<1>2. DOMAIN m.callbacks = 0 .. (n + 1) - 1
    BY <1>0, <1>1 DEF With, Matches
<1>3. \A i \in 1 .. n + 1 : m.callbacks[i - 1] = c[i]
    <2>1. m.callbacks[n] = x
        BY <1>1 DEF With
    <2>2. \A i \in 1 .. n : i - 1 \in 0 .. n - 1 /\ i - 1 # n
        BY <1>0
    <2>3. \A i \in 1 .. n : m.callbacks[i - 1] = meta.callbacks[i - 1]
        BY <1>1, <2>2 DEF With, Matches
    <2> QED BY <1>0, <2>1, <2>3 DEF Matches
<1>4. \A kind \in Kinds : m.methods[kind] = EntriesOf(c, n + 1, kind)
    <2> SUFFICES ASSUME NEW kind \in Kinds
                 PROVE  m.methods[kind] = EntriesOf(c, n + 1, kind)
        OBVIOUS
    <2>1. meta.methods[kind] = EntriesOf(c, n, kind)
        BY DEF Matches
    <2>2. CASE kind = x.kind
        <3>1. m.methods[kind] = meta.methods[kind] \union {EntryOf(c, n + 1)}
            BY <1>0, <1>1, <2>2 DEF Listed, EntryOf
        <3>2. {i \in 1 .. n + 1 : c[i].kind = kind}
                 = {i \in 1 .. n : c[i].kind = kind} \union {n + 1}
            BY <1>0, <2>2
        <3> QED BY <2>1, <3>1, <3>2 DEF EntriesOf
    <2>3. CASE kind # x.kind
        <3>1. m.methods[kind] = meta.methods[kind]
            BY <1>1, <2>3 DEF Listed
        <3>2. {i \in 1 .. n + 1 : c[i].kind = kind} = {i \in 1 .. n : c[i].kind = kind}
            BY <1>0, <2>3
        <3> QED BY <2>1, <3>1, <3>2 DEF EntriesOf
    <2> QED BY <2>2, <2>3
<1>5. \A i \in 1 .. n + 1 : c[i].kind \in Callable => c[i].name \in DOMAIN m.types
    BY <1>0, <1>1 DEF With, Matches
<1>6. \A a \in DOMAIN m.types :
         \E i \in 1 .. n + 1 : /\ c[i].kind \in Callable /\ c[i].name = a
                               /\ m.types[a] = c[i].params
    <2> SUFFICES ASSUME NEW a \in DOMAIN m.types
                 PROVE  \E i \in 1 .. n + 1 : /\ c[i].kind \in Callable /\ c[i].name = a
                                              /\ m.types[a] = c[i].params
        OBVIOUS
    <2>1. CASE x.kind \in Callable /\ a = x.name
        <3>1. m.types[a] = x.params
            BY <1>1, <2>1 DEF With
        <3> QED BY <1>0, <2>1, <3>1
    <2>2. CASE ~(x.kind \in Callable /\ a = x.name)
        <3>1. a \in DOMAIN meta.types /\ m.types[a] = meta.types[a]
            BY <1>1, <2>2 DEF With
        <3> QED BY <1>0, <3>1 DEF Matches
    <2> QED BY <2>1, <2>2
<1>7. \A i \in 1 .. n + 1 : c[i].kind \in Initial => c[i].params = m.initTypes
    <2>1. ASSUME NEW i \in 1 .. n, c[i].kind \in Initial, x.kind \in Initial
          PROVE  c[i].params = x.params
        <3>1. c[i].params = meta.initTypes
            BY <2>1 DEF Matches
        <3>2. c[i].kind # x.kind
            <4>1. c[i].kind \notin Callable
                BY <2>1 DEF Initial, Callable
            <4> QED BY <1>0, <4>1, DefinedMeans DEF Throws
        <3>3. EntryOf(c, i) \in meta.methods[c[i].kind] /\ c[i].kind \in Initial \ {x.kind}
            BY <2>1, <3>2 DEF Matches, EntriesOf, Initial, Kinds
        <3> QED BY <2>1, <3>1, <3>3 DEF Throws, ParamsDiffer
    <2> QED BY <1>0, <1>1, <2>1 DEF Matches
<1>8. Unique(c, n + 1)
    <2>1. \A i \in 1 .. n : c[i].kind = x.kind => x.kind \in Callable /\ c[i].name # x.name
        BY <1>0, DefinedMeans DEF Throws
    <2> QED BY <1>0, <2>1 DEF Unique
<1> HIDE DEF m, x
<1> QED BY <1>1, <1>2, <1>3, <1>4, <1>5, <1>6, <1>7, <1>8 DEF m, x, Matches

\* A method that is registered already throws.
LEMMA KnownThrows ==
    ASSUME NEW c \in Programs, NEW meta, Matches(meta, c, Len(c)), NEW i \in 1 .. Len(c)
    PROVE  Throws(meta, c[i])
BY DefinedMeans, ProgramType DEF Throws

\* A complete meta makes a good build.
LEMMA BuildIsGood ==
    ASSUME NEW c \in Programs, NEW meta, Matches(meta, c, Len(c)), Unique(c, Len(c))
    PROVE  GoodBuild([built |-> TRUE, code |-> c, methods |-> meta.methods,
                      candid |-> CandidOf(meta)])
<1> DEFINE b == [built |-> TRUE, code |-> c, methods |-> meta.methods, candid |-> CandidOf(meta)]
           n == Len(c)
           cm == CandidOf(meta).methods
<1>0. n \in Nat /\ \A i \in 1 .. n : c[i] \in Method
    BY ProgramType
<1>1. /\ \A a \in DOMAIN cm : a \in DOMAIN meta.types /\ Visible(meta.methods, a)
                              /\ cm[a] = meta.types[a]
      /\ \A a \in DOMAIN meta.types : Visible(meta.methods, a) => a \in DOMAIN cm
      /\ CandidOf(meta).init = meta.initTypes
    BY DEF CandidOf
<1>2. \A kind \in Callable : \A d \in meta.methods[kind] :
          \E i \in 1 .. n : c[i].kind = kind /\ c[i].name = d.name /\ c[i].hidden = d.hidden
    <2> SUFFICES ASSUME NEW kind \in Callable, NEW d \in meta.methods[kind]
                 PROVE  \E i \in 1 .. n : /\ c[i].kind = kind /\ c[i].name = d.name
                                         /\ c[i].hidden = d.hidden
        OBVIOUS
    <2>1. d \in EntriesOf(c, n, kind)
        BY DEF Matches, Callable, Kinds
    <2>2. PICK i \in 1 .. n : c[i].kind = kind /\ d = EntryOf(c, i)
        BY <2>1 DEF EntriesOf
    <2> QED BY <2>2 DEF EntryOf
<1>3. \A i \in 1 .. n : c[i].kind \in Callable =>
          \E d \in meta.methods[c[i].kind] : d.name = c[i].name /\ d.hidden = c[i].hidden
    <2> SUFFICES ASSUME NEW i \in 1 .. n, c[i].kind \in Callable
                 PROVE  \E d \in meta.methods[c[i].kind] :
                            d.name = c[i].name /\ d.hidden = c[i].hidden
        OBVIOUS
    <2>1. EntryOf(c, i) \in meta.methods[c[i].kind]
        BY DEF Matches, EntriesOf, Callable, Kinds
    <2> QED BY <2>1 DEF EntryOf
<1>4. \A a \in DOMAIN cm :
          \E i \in 1 .. n : c[i].kind \in Callable /\ c[i].name = a /\ ~c[i].hidden
    BY <1>1, <1>2 DEF Visible, Callable
<1>5. ASSUME Valid(meta.methods), NEW i \in 1 .. n, c[i].kind \in Callable, ~c[i].hidden
      PROVE  c[i].name \in DOMAIN cm /\ cm[c[i].name] = c[i].params
    <2>1. \A j \in 1 .. n : c[j].kind \in Callable /\ c[j].name = c[i].name => j = i
        <3> SUFFICES ASSUME NEW j \in 1 .. n, c[j].kind \in Callable, c[j].name = c[i].name, j # i
                     PROVE  FALSE
            OBVIOUS
        <3>1. c[j].kind # c[i].kind
            BY DEF Unique
        <3>2. PICK d \in meta.methods[c[i].kind] : d.name = c[i].name
            BY <1>3, <1>5
        <3>3. PICK e \in meta.methods[c[j].kind] : e.name = c[i].name
            BY <1>3
        <3> QED BY <1>5, <3>1, <3>2, <3>3 DEF Valid, Callable
    <2>2. c[i].name \in DOMAIN meta.types /\ meta.types[c[i].name] = c[i].params
        BY <1>5, <2>1 DEF Matches
    <2>3. PICK d \in meta.methods[c[i].kind] : d.name = c[i].name /\ ~d.hidden
        BY <1>3, <1>5
    <2>4. Visible(meta.methods, c[i].name)
        <3>1. CASE c[i].kind = "query"
            BY <2>3, <3>1 DEF Visible
        <3>2. CASE c[i].kind = "update"
            <4>1. \A e \in meta.methods["query"] : e.name # c[i].name
                BY <1>5, <2>3, <3>2 DEF Valid
            <4> QED BY <2>3, <3>2, <4>1 DEF Visible
        <3> QED BY <1>5, <3>1, <3>2 DEF Callable
    <2> QED BY <1>1, <2>2, <2>4
<1>6. \A i \in 1 .. n : c[i].kind \in Initial => c[i].params = CandidOf(meta).init
    BY <1>1 DEF Matches
<1>7. b.code = c /\ b.methods = meta.methods /\ b.candid = CandidOf(meta)
    OBVIOUS
<1> HIDE DEF b
<1>8. \A kind \in Kinds : b.methods[kind] = EntriesOf(c, n, kind)
    BY <1>7 DEF Matches
<1> QED BY <1>4, <1>5, <1>6, <1>7, <1>8 DEF GoodBuild, b

\* What is executed at the start are methods at the indexes of build b.
LEMMA ExecutedAt ==
    ASSUME NEW c \in Programs, NEW meta, Matches(meta, c, Len(c)),
           NEW b, GoodBuild(b), NEW kind \in Initial
    PROVE  Executed(meta, b.methods[kind]) \subseteq EntryPoints(b.code, c)
<1>1. Len(c) \in Nat
    BY ProgramType
<1> SUFFICES ASSUME NEW d \in b.methods[kind], d.index \in DOMAIN meta.callbacks
             PROVE  meta.callbacks[d.index] \in EntryPoints(b.code, c)
    BY DEF Executed
<1>2. d.index \in 0 .. Len(c) - 1
    BY DEF Matches
<1>3. d.index + 1 \in 1 .. Len(c) /\ (d.index + 1) - 1 = d.index
    BY <1>1, <1>2
<1>4. meta.callbacks[d.index] = c[d.index + 1]
    BY <1>3 DEF Matches
<1>5. PICK j \in 1 .. Len(b.code) : b.code[j].kind = kind /\ d = EntryOf(b.code, j)
    BY DEF GoodBuild, EntriesOf, Initial, Kinds
<1>6. d.index + 1 = j
    BY <1>5 DEF EntryOf
<1> QED BY <1>3, <1>4, <1>5, <1>6 DEF EntryPoints

-----------------------------------------------------------------------------
(* The invariant *)

LEMMA NothingIsGood == GoodBuild(NotBuilt) /\ Valid(NotBuilt.methods)
<1>1. NotBuilt.code = <<>> /\ Len(<<>>) = 0 /\ <<>> \in Programs
    BY ProgramsAssumption DEF NotBuilt
<1>2. \A kind \in Kinds : NotBuilt.methods[kind] = {}
    BY DEF NotBuilt, NoMeta
<1>3. DOMAIN NotBuilt.candid.methods = {}
    BY DEF NotBuilt, NoCandid
<1>4. \A kind \in Kinds : EntriesOf(<<>>, 0, kind) = {}
    BY DEF EntriesOf
<1>5. 1 .. 0 = {}
    OBVIOUS
<1> QED BY <1>1, <1>2, <1>3, <1>4, <1>5 DEF GoodBuild, Unique, Valid, Kinds

LEMMA FreshEval ==
    ASSUME NEW for \in {"nothing", "build", "reload"}, NEW c \in Programs,
           eval' = Evaluation(for, c)
    PROVE  GoodEval'
<1>1. /\ eval'.for = for /\ eval'.code = c /\ eval'.done = 0 /\ eval'.meta = NoMeta
      /\ NoMeta.next = 0
    BY DEF Evaluation, NoMeta
<1>2. Len(c) \in Nat
    BY ProgramType
<1> QED BY <1>1, <1>2, NothingRegistered DEF GoodEval

LEMMA NoEvalIsGood ==
    ASSUME eval' = NoEvaluation
    PROVE  GoodEval'
BY FreshEval, ProgramsAssumption DEF NoEvaluation

LEMMA InitIInv == Init => IInv
<1> SUFFICES ASSUME Init PROVE IInv
    OBVIOUS
<1>1. source \in Programs /\ wasm.built \in BOOLEAN /\ GoodBuild(wasm) /\ GoodBuild(watcher)
    BY NothingIsGood, ProgramsAssumption DEF Init, NotBuilt
<1>2. GoodEval
    <2>1. /\ eval.for = "nothing" /\ eval.code = <<>> /\ eval.done = 0 /\ eval.meta = NoMeta
          /\ NoMeta.next = 0 /\ <<>> \in Programs /\ Len(<<>>) = 0
        BY ProgramsAssumption DEF Init, NoEvaluation, Evaluation, NoMeta
    <2> QED BY <2>1, NothingRegistered DEF GoodEval
<1>3. GoodCanister
    BY NothingIsGood, ProgramsAssumption DEF Init, Absent, GoodCanister
<1> QED BY <1>1, <1>2, <1>3 DEF IInv

\* A canister that runs what was evaluated, under binary made, with an index of build b.
LEMMA RunningIsGood ==
    ASSUME GoodEval, eval.done = Len(eval.code), NEW made, GoodBuild(made),
           Valid(made.methods), NEW b, GoodBuild(b), NEW kind \in Initial,
           canister' = Running(made, eval.meta, b.methods[kind], b.code)
    PROVE  GoodCanister'
<1> DEFINE c == eval.code
<1>1. /\ canister'.status = "running" /\ canister'.made = made /\ canister'.code = c
      /\ canister'.meta = eval.meta /\ canister'.entry = Executed(eval.meta, b.methods[kind])
      /\ canister'.origin = b.code
    BY DEF Running
<1>2. /\ c \in Programs /\ eval.meta.next = Len(c) /\ Len(c) \in Nat
      /\ Matches(eval.meta, c, Len(c)) /\ Unique(c, Len(c)) /\ b.code \in Programs
    BY ProgramType DEF GoodEval, GoodBuild
<1>3. Executed(eval.meta, b.methods[kind]) \subseteq EntryPoints(b.code, c)
    BY <1>2, ExecutedAt
<1> QED BY <1>1, <1>2, <1>3 DEF GoodCanister

LEMMA NextKeepsIInv == IInv /\ [Next]_vars => IInv'
<1> SUFFICES ASSUME IInv, [Next]_vars PROVE IInv'
    OBVIOUS
<1> USE DEF IInv
<1>1. CASE UNCHANGED vars
    BY <1>1 DEF vars, GoodEval, GoodCanister
<1>2. ASSUME NEW p \in Programs, Edit(p)
      PROVE  IInv'
    BY <1>2 DEF Edit, GoodEval, GoodCanister
<1>3. CASE StartBuild
    <2>1. GoodEval' /\ GoodBuild(wasm)' /\ wasm'.built \in BOOLEAN
        BY <1>3, FreshEval, NothingIsGood DEF StartBuild, NotBuilt
    <2> QED BY <1>3, <2>1 DEF StartBuild, GoodCanister
<1>4. CASE EndBuild
    <2>1. /\ eval.code \in Programs /\ Matches(eval.meta, eval.code, Len(eval.code))
          /\ Unique(eval.code, Len(eval.code))
        BY <1>4 DEF EndBuild, Ended, GoodEval
    <2>2. GoodBuild(wasm)' /\ wasm'.built \in BOOLEAN
        BY <1>4, <2>1, BuildIsGood DEF EndBuild
    <2>3. GoodEval'
        BY <1>4, NoEvalIsGood DEF EndBuild
    <2> QED BY <1>4, <2>2, <2>3 DEF EndBuild, GoodCanister
<1>5. CASE RegisterMethod
    <2> DEFINE c == eval.code
               n == eval.done
    <2>1. /\ eval'.for = eval.for /\ eval'.code = c /\ eval'.done = n + 1
          /\ eval'.meta = Registered(eval.meta, c[n + 1])
        BY <1>5 DEF RegisterMethod, Evaluation, NextMethod
    <2>2. /\ c \in Programs /\ Len(c) \in Nat /\ n \in 0 .. Len(c) /\ n < Len(c)
          /\ n + 1 \in 0 .. Len(c)
        BY <1>5, ProgramType DEF RegisterMethod, GoodEval
    <2>3. /\ Registered(eval.meta, c[n + 1]).next = n + 1
          /\ Matches(Registered(eval.meta, c[n + 1]), c, n + 1) /\ Unique(c, n + 1)
        BY <1>5, <2>2, RegisteredMatches DEF RegisterMethod, GoodEval, NextMethod
    <2>4. UNCHANGED <<source, wasm, watcher, canister>>
        BY <1>5 DEF RegisterMethod
    <2>5. GoodEval'
        BY <2>1, <2>2, <2>3, <2>4 DEF GoodEval
    <2> QED BY <2>4, <2>5 DEF GoodCanister
<1>6. CASE EvaluationThrows
    BY <1>6, NoEvalIsGood DEF EvaluationThrows, GoodCanister
<1>7. CASE StartDeploy
    <2>1. /\ eval'.for = "deploy" /\ eval'.code = wasm.code /\ eval'.done = 0
          /\ eval'.meta = NoMeta /\ NoMeta.next = 0 /\ wasm.built /\ Valid(wasm.methods)
        BY <1>7 DEF StartDeploy, Evaluation, NoMeta
    <2>2. wasm.code \in Programs /\ Len(wasm.code) \in Nat /\ wasm' = wasm
        BY <1>7, ProgramType DEF GoodBuild, StartDeploy
    <2>3. GoodEval'
        BY <2>1, <2>2, NothingRegistered DEF GoodEval
    <2> QED BY <1>7, <2>3 DEF StartDeploy, GoodCanister
<1>8. CASE EndDeploy
    <2>1. PICK kind \in Initial :
              canister' = Running(wasm, eval.meta, wasm.methods[kind], wasm.code)
        BY <1>8 DEF EndDeploy, Initial
    <2>2. eval.done = Len(eval.code) /\ Valid(wasm.methods)
        BY <1>8 DEF EndDeploy, Ended, GoodEval
    <2>3. GoodCanister'
        BY <2>1, <2>2, RunningIsGood
    <2> QED BY <1>8, <2>3, NoEvalIsGood DEF EndDeploy
<1>9. CASE StartReload
    BY <1>9, FreshEval DEF StartReload, GoodCanister
<1>10. CASE EndReload
    <2>1. \/ canister' = Running(canister.made, eval.meta, watcher.methods["postUpgrade"],
                                watcher.code)
          \/ canister' = canister
        BY <1>10 DEF EndReload
    <2>2. eval.done = Len(eval.code) /\ "postUpgrade" \in Initial
          /\ GoodBuild(canister.made) /\ Valid(canister.made.methods)
        BY <1>10 DEF EndReload, Ended, GoodCanister, Initial
    <2>3. GoodCanister'
        <3>1. CASE canister' = canister
            BY <3>1 DEF GoodCanister
        <3> QED BY <2>1, <2>2, <3>1, RunningIsGood
    <2> QED BY <1>10, <2>3, NoEvalIsGood DEF EndReload
<1>11. CASE ReloadThrows
    <2>1. canister' = Broken(canister.made) \/ canister' = canister
        BY <1>11 DEF ReloadThrows
    <2>2. GoodCanister'
        <3>1. CASE canister' = canister
            BY <3>1 DEF GoodCanister
        <3>2. CASE canister' = Broken(canister.made)
            BY <3>2, ProgramsAssumption DEF Broken, GoodCanister, GoodEval
        <3> QED BY <2>1, <3>1, <3>2
    <2> QED BY <1>11, <2>2, NoEvalIsGood DEF ReloadThrows
<1>12. ASSUME NEW i \in DOMAIN canister.code, NewObject(canister.code[i])
       PROVE  IInv'
    <2> DEFINE meta == canister.meta
               c == canister.code
    <2>1. /\ canister.status = "running" /\ c \in Programs /\ Matches(meta, c, Len(c))
          /\ meta.next \in Nat /\ meta.next >= Len(c) /\ Len(c) \in Nat
        BY <1>12, ProgramType DEF NewObject, GoodCanister
    <2>2. i \in 1 .. Len(c)
        BY <2>1, ProgramsAssumption
    <2>3. Throws(meta, c[i])
        BY <2>1, <2>2, KnownThrows
    <2>4. /\ canister'.meta.next = meta.next + 1
          /\ canister'.meta.callbacks = meta.callbacks
          /\ canister'.meta.methods = meta.methods
          /\ canister'.meta.types = meta.types
          /\ canister'.meta.initTypes = meta.initTypes
          /\ canister'.status = "running" /\ canister'.made = canister.made
          /\ canister'.code = c /\ canister'.entry = canister.entry
          /\ canister'.origin = canister.origin
        BY <1>12, <2>3 DEF NewObject, AfterDecorator
    <2>5. Matches(canister'.meta, c, Len(c))
        BY <2>1, <2>4 DEF Matches
    <2>6. GoodCanister'
        BY <2>1, <2>4, <2>5 DEF GoodCanister
    <2> QED BY <1>12, <2>6 DEF NewObject, GoodEval
<1> QED BY <1>1, <1>2, <1>3, <1>4, <1>5, <1>6, <1>7, <1>8, <1>9, <1>10, <1>11, <1>12 DEF Next

LEMMA IInvHolds == Spec => []IInv
BY InitIInv, NextKeepsIInv, PTL DEF Spec

-----------------------------------------------------------------------------
(* Theorems *)

LEMMA MetaType ==
    ASSUME NEW c \in Programs, NEW n \in 0 .. Len(c), NEW meta, Matches(meta, c, n),
           Unique(c, n), meta.next \in Nat, meta.next >= n
    PROVE  MetaOK(meta)
<1>0. n \in Nat /\ \A i \in 1 .. n : c[i] \in Method
    BY ProgramType
<1>1. DOMAIN meta.callbacks \subseteq 0 .. meta.next - 1
    BY <1>0 DEF Matches
<1>2. ASSUME NEW i \in DOMAIN meta.callbacks
      PROVE  meta.callbacks[i] \in Method
    <2>1. i \in Nat /\ i + 1 \in 1 .. n /\ (i + 1) - 1 = i
        BY <1>0 DEF Matches
    <2>2. meta.callbacks[(i + 1) - 1] = c[i + 1]
        BY <2>1 DEF Matches
    <2> QED BY <1>0, <2>1, <2>2
<1>3. ASSUME NEW k \in Kinds, NEW d \in meta.methods[k]
      PROVE  d \in Entry /\ \E i \in 1 .. n : c[i].kind = k /\ d = EntryOf(c, i)
    <2>1. PICK i \in 1 .. n : c[i].kind = k /\ d = EntryOf(c, i)
        BY DEF Matches, EntriesOf
    <2>2. i - 1 \in Nat /\ c[i] \in Method
        BY <1>0
    <2> QED BY <2>1, <2>2 DEF EntryOf, Entry, Method
<1>4. ASSUME NEW k \in Kinds
      PROVE  Cardinality({d \in meta.methods[k] : k \notin Callable}) <= 1
    <2> DEFINE S == {d \in meta.methods[k] : k \notin Callable}
    <2>1. ASSUME NEW d \in S, NEW e \in S
          PROVE  d = e
        <3>1. PICK i \in 1 .. n : c[i].kind = k /\ d = EntryOf(c, i)
            BY <1>3
        <3>2. PICK j \in 1 .. n : c[j].kind = k /\ e = EntryOf(c, j)
            BY <1>3
        <3>3. i = j
            BY <3>1, <3>2 DEF Unique
        <3> QED BY <3>1, <3>2, <3>3
    <2>2. S = {} \/ \E d : S = {d}
        BY <2>1
    <2>3. Cardinality(S) <= 1
        <3> HIDE DEF S
        <3>1. CASE S = {}
            BY <3>1, FS_EmptySet
        <3>2. ASSUME NEW d, S = {d}
              PROVE  Cardinality(S) <= 1
            <4>1. \A x : Cardinality({x}) = 1
                BY FS_Singleton
            <4>2. Cardinality(S) = 1
                BY <3>2, <4>1
            <4> QED BY <4>2
        <3> QED BY <2>2, <3>1, <3>2
    <2> QED BY <2>3
<1> QED BY <1>1, <1>2, <1>3, <1>4 DEF MetaOK

\* Every variable keeps its type, and no meta ever has two methods of a kind of which
\* there is one.
THEOREM MethodsTypeCorrect == Spec => []TypeOK
<1>1. IInv => TypeOK
    <2> SUFFICES ASSUME IInv PROVE TypeOK
        OBVIOUS
    <2>1. MetaOK(eval.meta)
        <3>1. eval.code \in Programs /\ eval.done \in 0 .. Len(eval.code)
              /\ eval.meta.next \in Nat /\ eval.meta.next >= eval.done
            BY ProgramType DEF IInv, GoodEval
        <3>2. Matches(eval.meta, eval.code, eval.done) /\ Unique(eval.code, eval.done)
            BY DEF IInv, GoodEval
        <3> QED BY <3>1, <3>2, MetaType
    <2>2. MetaOK(canister.meta) /\ canister.entry \subseteq Method
        <3>1. CASE canister.status = "running"
            <4>1. Len(canister.code) \in 0 .. Len(canister.code)
                BY ProgramType DEF IInv, GoodCanister
            <4>3. /\ canister.code \in Programs /\ canister.meta.next \in Nat
                  /\ canister.meta.next >= Len(canister.code)
                  /\ Matches(canister.meta, canister.code, Len(canister.code))
                  /\ Unique(canister.code, Len(canister.code))
                  /\ canister.entry \subseteq EntryPoints(canister.origin, canister.code)
                BY <3>1 DEF IInv, GoodCanister
            <4>2. EntryPoints(canister.origin, canister.code) \subseteq Method
                BY ProgramType DEF IInv, GoodCanister, EntryPoints
            <4> QED BY <4>1, <4>2, <4>3, MetaType
        <3>2. CASE canister.status # "running"
            <4>1. 0 \in 0 .. Len(<<>>) /\ <<>> \in Programs /\ NoMeta.next = 0
                BY ProgramsAssumption DEF NoMeta
            <4> QED BY <3>2, <4>1, MetaType, NothingRegistered DEF IInv, GoodCanister
        <3> QED BY <3>1, <3>2
    <2> QED BY <2>1, <2>2 DEF IInv, GoodEval, GoodBuild, GoodCanister, TypeOK
<1> QED BY <1>1, IInvHolds, PTL

\* After any number of builds, upgrades, reloads that keep the order of methods and
\* objects made by the developer, each export executes the method of its kind and name.
THEOREM ExportsExecuteTheirMethods == Spec => []ExportsFindMethods
<1>1. IInv => ExportsFindMethods
    <2> SUFFICES ASSUME IInv, canister.status = "running",
                        SameOrder(canister.made.code, canister.code),
                        NEW k \in Kinds, NEW d \in canister.made.methods[k]
                 PROVE  /\ Executable(d)
                        /\ canister.meta.callbacks[d.index].kind = k
                        /\ canister.meta.callbacks[d.index].name = d.name
        BY DEF ExportsFindMethods
    <2> DEFINE b == canister.made
               c == canister.code
    <2>1. GoodBuild(b) /\ Matches(canister.meta, c, Len(c)) /\ c \in Programs
        BY DEF IInv, GoodCanister
    <2>2. PICK i \in 1 .. Len(b.code) : b.code[i].kind = k /\ d = EntryOf(b.code, i)
        BY <2>1 DEF GoodBuild, EntriesOf
    <2>3. b.code \in Programs /\ Len(c) = Len(b.code) /\ Len(c) \in Nat
        BY <2>1, ProgramType DEF GoodBuild, SameOrder
    <2>4. i \in 1 .. Len(c) /\ i - 1 \in 0 .. Len(c) - 1 /\ i \in DOMAIN b.code
        BY <2>3, ProgramsAssumption
    <2>5. c[i].kind = k /\ c[i].name = d.name /\ d.index = i - 1
        BY <2>2, <2>4 DEF SameOrder, EntryOf
    <2> QED BY <2>1, <2>4, <2>5 DEF Executable, Matches
<1> QED BY <1>1, IInvHolds, PTL

\* The code starts with its init or postUpgrade method, if the build that gave the index
\* had the methods of the code in their order.
THEOREM CodeStartsWithInitial == Spec => []StartsWithInitial
<1>1. IInv => StartsWithInitial
    <2> SUFFICES ASSUME IInv, canister.status = "running",
                        SameOrder(canister.origin, canister.code),
                        NEW x \in canister.entry
                 PROVE  x.kind \in Initial
        BY DEF StartsWithInitial
    <2> DEFINE o == canister.origin
               c == canister.code
    <2>1. canister.entry \subseteq EntryPoints(o, c) /\ o \in Programs
        BY DEF IInv, GoodCanister
    <2>2. PICK i \in 1 .. Len(c) : x = c[i] /\ i \in 1 .. Len(o) /\ o[i].kind \in Initial
        BY <2>1 DEF EntryPoints
    <2>3. i \in DOMAIN o
        BY <2>1, <2>2, ProgramsAssumption
    <2> QED BY <2>2, <2>3 DEF SameOrder
<1> QED BY <1>1, IInvHolds, PTL

\* The .did file written at build time describes what the canister answers.
THEOREM CandidDescribesCallbacks == Spec => []CandidDescribesMethods
<1>1. IInv => CandidDescribesMethods
    <2> SUFFICES ASSUME IInv, canister.status = "running", canister.made.code = canister.code
                 PROVE  CandidDescribesMethods
        BY DEF CandidDescribesMethods
    <2> DEFINE b == canister.made
               c == canister.code
               callable == UNION {b.methods[k] : k \in Callable}
               callback == canister.meta.callbacks
    <2>1. GoodBuild(b) /\ Valid(b.methods) /\ Matches(canister.meta, c, Len(c)) /\ b.code = c
        BY DEF IInv, GoodCanister
    <2>2. ASSUME NEW k \in Kinds, NEW d \in b.methods[k]
          PROVE  \E i \in 1 .. Len(c) : /\ c[i].kind = k /\ c[i].name = d.name
                                        /\ c[i].hidden = d.hidden /\ callback[d.index] = c[i]
        <3>1. PICK i \in 1 .. Len(c) : c[i].kind = k /\ d = EntryOf(c, i)
            BY <2>1 DEF GoodBuild, EntriesOf
        <3> QED BY <2>1, <3>1 DEF EntryOf, Matches
    <2>3. ASSUME NEW n \in DOMAIN b.candid.methods
          PROVE  \E d \in callable : d.name = n /\ ~d.hidden
        <3>1. PICK i \in 1 .. Len(c) : c[i].kind \in Callable /\ c[i].name = n /\ ~c[i].hidden
            BY <2>1 DEF GoodBuild
        <3>2. EntryOf(c, i) \in b.methods[c[i].kind]
            BY <2>1, <3>1 DEF GoodBuild, EntriesOf, Callable, Kinds
        <3>3. EntryOf(c, i).name = n /\ ~EntryOf(c, i).hidden
            BY <3>1 DEF EntryOf
        <3> QED BY <3>1, <3>2, <3>3
    <2>4. ASSUME NEW d \in callable, ~d.hidden
          PROVE  /\ d.name \in DOMAIN b.candid.methods
                 /\ callback[d.index].params = b.candid.methods[d.name]
        <3>1. PICK k \in Callable : d \in b.methods[k]
            OBVIOUS
        <3>2. PICK i \in 1 .. Len(c) : /\ c[i].kind = k /\ c[i].name = d.name
                                       /\ c[i].hidden = d.hidden /\ callback[d.index] = c[i]
            BY <2>2, <3>1 DEF Callable, Kinds
        <3> QED BY <2>1, <2>4, <3>1, <3>2 DEF GoodBuild
    <2>5. ASSUME NEW k \in Initial, NEW d \in b.methods[k]
          PROVE  callback[d.index].params = b.candid.init
        <3>1. PICK i \in 1 .. Len(c) : c[i].kind = k /\ callback[d.index] = c[i]
            BY <2>2 DEF Initial, Kinds
        <3> QED BY <2>1, <3>1 DEF GoodBuild
    <2> QED BY <2>3, <2>4, <2>5 DEF CandidDescribesMethods
<1> QED BY <1>1, IInvHolds, PTL
=============================================================================
