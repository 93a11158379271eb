---------------------------- MODULE CanisterMethods ----------------------------
(***************************************************************************)
(* Canister methods, from decorators to calls.  The JavaScript is          *)
(* evaluated in Node.js at build time, to learn the methods its decorators *)
(* register (canister_methods/index.ts) and their indexes; the Wasm binary *)
(* gets an export per method that calls execute_method_js with that index  *)
(* (manipulate.ts).  The canister evaluates the JavaScript again when it   *)
(* is installed or upgraded, and, with autoreload, evaluates JavaScript    *)
(* the binary was not made for: an export finds its method by an index     *)
(* from another evaluation.                                                *)
(*                                                                         *)
(* Code is the sequence of its methods, in the order their decorators run: *)
(* class by class as exported, each class as declared.  Candid types are   *)
(* values, an inspectMessage method decodes (it is not manual), and        *)
(* evaluation is deterministic.                                            *)
(***************************************************************************)
EXTENDS Naturals, Sequences, FiniteSets

CONSTANTS
    Names, Params,  \* method names; parameter types
    NoParams,       \* the parameter types of a method without parameters
    Programs,       \* the programs a developer may have on disk
    MaxObjects      \* bound: classes the developer's own code instantiates

Kinds == {"query", "update", "init", "postUpgrade", "preUpgrade", "inspectMessage",
          "heartbeat", "onLowWasmMemory"}
Callable == {"query", "update"}
Initial == {"init", "postUpgrade"}
Method == [kind : Kinds, name : Names, params : Params, hidden : BOOLEAN]
Entry == [name : Names, index : Nat, hidden : BOOLEAN]

ASSUME ProgramsAssumption ==
    /\ Programs \subseteq Seq(Method)
    /\ NoParams \in Params
    /\ <<>> \in Programs
    /\ MaxObjects \in Nat

VARIABLES
    source,     \* the program on disk
    eval,       \* the evaluation going on, if any: its purpose, its code, what is done
    wasm,       \* the last build, if it succeeded
    watcher,    \* the last build that succeeded, whose watcher is running
    canister    \* the canister: exports of its binary, state of its JavaScript

vars == <<source, eval, wasm, watcher, canister>>

\* CanisterClassMeta before the first class is instantiated.
NoMeta == [next |-> 0, callbacks |-> <<>>, methods |-> [k \in Kinds |-> {}],
           types |-> <<>>, initTypes |-> NoParams]
Evaluation(for, code) == [for |-> for, code |-> code, done |-> 0, meta |-> NoMeta]
NoEvaluation == Evaluation("nothing", <<>>)
NoCandid == [methods |-> <<>>, init |-> NoParams]
NotBuilt == [built |-> FALSE, code |-> <<>>, methods |-> NoMeta.methods, candid |-> NoCandid]
Absent == [status |-> "absent", made |-> NotBuilt, code |-> <<>>, meta |-> NoMeta,
           entry |-> {}, origin |-> <<>>]

Init ==
    /\ source = <<>>
    /\ eval = NoEvaluation
    /\ wasm = NotBuilt
    /\ watcher = NotBuilt
    /\ canister = Absent

-----------------------------------------------------------------------------
(* Decorators *)

\* Mutant: only queries and updates are looked for.
DefinedCallable(meta, x) ==
    x.kind \in Callable /\ \E d \in meta.methods[x.kind] : d.name = x.name

Defined(meta, x) ==
    \E d \in meta.methods[x.kind] : x.kind \in Callable => d.name = x.name

\* Mutant: parameters are compared only when init comes last.
ParamsDifferInitLast(meta, x) ==
    x.kind = "init" /\ meta.methods["postUpgrade"] # {} /\ x.params # meta.initTypes

\* init and postUpgrade must take the same parameters, whichever comes first.
ParamsDiffer(meta, x) ==
    /\ x.kind \in Initial
    /\ \E k \in Initial \ {x.kind} : meta.methods[k] # {}
    /\ x.params # meta.initTypes

Throws(meta, x) == Defined(meta, x) \/ ParamsDiffer(meta, x)

With(f, a, b) == [i \in DOMAIN f \union {a} |-> IF i = a THEN b ELSE f[i]]

\* The kind's list of methods, with x at its end.
Listed(methods, x, index) ==
    [k \in Kinds |-> IF k = x.kind
                     THEN methods[k] \union {[name |-> x.name, index |-> index, hidden |-> x.hidden]}
                     ELSE methods[k]]

\* Mutant: one index per kind of method.
RegisteredPerKind(meta, x) ==
    LET index == Cardinality(meta.methods[x.kind]) IN
    [next |-> meta.next + 1,
     callbacks |-> With(meta.callbacks, index, x),
     methods |-> Listed(meta.methods, x, index),
     types |-> IF x.kind \in Callable THEN With(meta.types, x.name, x.params) ELSE meta.types,
     initTypes |-> IF x.kind \in Initial THEN x.params ELSE meta.initTypes]

\* What the initializer of a decorator makes of the meta when it does not throw.
Registered(meta, x) ==
    [next |-> meta.next + 1,
     callbacks |-> With(meta.callbacks, meta.next, x),
     methods |-> Listed(meta.methods, x, meta.next),
     types |-> IF x.kind \in Callable THEN With(meta.types, x.name, x.params) ELSE meta.types,
     initTypes |-> IF x.kind \in Initial THEN x.params ELSE meta.initTypes]

-----------------------------------------------------------------------------
(* Evaluation of the JavaScript *)

Evaluating == eval.for # "nothing"
NextMethod == eval.code[eval.done + 1]

\* getCanisterClassMeta: one decorator of the class being instantiated.
RegisterMethod ==
    /\ Evaluating /\ eval.done < Len(eval.code) /\ ~Throws(eval.meta, NextMethod)
    /\ eval' = [Evaluation(eval.for, eval.code) EXCEPT
                   !.done = eval.done + 1, !.meta = Registered(eval.meta, NextMethod)]
    /\ UNCHANGED <<source, wasm, watcher, canister>>

Ended == Evaluating /\ eval.done = Len(eval.code)

Visible(methods, n) ==
    \/ \E d \in methods["query"] : d.name = n /\ ~d.hidden
    \/ /\ \A d \in methods["query"] : d.name # n
       /\ \E d \in methods["update"] : d.name = n /\ ~d.hidden

CandidOf(meta) ==
    [methods |-> [n \in {n \in DOMAIN meta.types : Visible(meta.methods, n)} |-> meta.types[n]],
     init |-> meta.initTypes]

\* initialize_js: evaluated, the index given is executed unless it is -1.
Executed(meta, entries) ==
    {meta.callbacks[i] : i \in {d.index : d \in entries} \intersect DOMAIN meta.callbacks}

\* History: the code of the build that gave the index.
Running(made, meta, entries, origin) ==
    [status |-> "running", made |-> made, code |-> eval.code, meta |-> meta,
     entry |-> Executed(meta, entries), origin |-> origin]

\* eval_module_str: an exception in the evaluation is ignored.
Broken(made) ==
    [status |-> "broken", made |-> made, code |-> eval.code, meta |-> NoMeta,
     entry |-> {}, origin |-> <<>>]

-----------------------------------------------------------------------------
(* The developer's machine *)

Edit(p) ==
    /\ ~Evaluating
    /\ source' = p
    /\ UNCHANGED <<eval, wasm, watcher, canister>>

\* The build removes the last one and evaluates the code in Node.js.
StartBuild ==
    /\ ~Evaluating
    /\ wasm' = NotBuilt
    /\ eval' = Evaluation("build", source)
    /\ UNCHANGED <<source, watcher, canister>>

\* A build that succeeds ends by replacing the file watcher.
EndBuild ==
    /\ Ended /\ eval.for = "build"
    /\ wasm' = [built |-> TRUE, code |-> eval.code, methods |-> eval.meta.methods,
                candid |-> CandidOf(eval.meta)]
    /\ watcher' = wasm'
    /\ eval' = NoEvaluation
    /\ UNCHANGED <<source, canister>>

\* A decorator that throws fails the build, or the message that installs the code.
EvaluationThrows ==
    /\ Evaluating /\ eval.done < Len(eval.code) /\ Throws(eval.meta, NextMethod)
    /\ eval.for # "reload"
    /\ eval' = NoEvaluation
    /\ UNCHANGED <<source, wasm, watcher, canister>>

-----------------------------------------------------------------------------
(* The canister *)

\* The IC refuses a binary with a query and an update method of one name.
Valid(methods) ==
    \A d \in methods["query"], e \in methods["update"] : d.name # e.name

\* execute_method_js finds a callback at the index of an export, or traps.
Executable(d) == canister.status = "running" /\ d.index \in DOMAIN canister.meta.callbacks

\* An upgrade first executes the old binary's export of preUpgrade.
StartDeploy ==
    /\ ~Evaluating /\ wasm.built /\ Valid(wasm.methods)
    /\ \A d \in canister.made.methods["preUpgrade"] : Executable(d)
    /\ eval' = Evaluation("deploy", wasm.code)
    /\ UNCHANGED <<source, wasm, watcher, canister>>

\* Mutant: postUpgrade is executed by the index it had in the old binary.
EndDeployOldIndex ==
    /\ Ended /\ eval.for = "deploy"
    /\ canister' = Running(wasm, eval.meta, canister.made.methods["postUpgrade"], wasm.code)
    /\ eval' = NoEvaluation
    /\ UNCHANGED <<source, wasm, watcher>>

EndDeploy ==
    /\ Ended /\ eval.for = "deploy"
    /\ canister' = Running(wasm, eval.meta,
                           wasm.methods[IF canister.status = "absent" THEN "init" ELSE "postUpgrade"],
                           wasm.code)
    /\ eval' = NoEvaluation
    /\ UNCHANGED <<source, wasm, watcher>>

\* Autoreload sends the code on disk, of which no binary is made.  inspectMessage finds
\* no types of _azle_reload_js and rejects it, and an evaluation that threw left none.
StartReload ==
    /\ ~Evaluating /\ canister.status # "absent"
    /\ canister.made.methods["inspectMessage"] = {}
    /\ eval' = Evaluation("reload", source)
    /\ UNCHANGED <<source, wasm, watcher, canister>>

\* The index of postUpgrade is that of the watcher's build, whatever binary the canister
\* has; the message traps when the new code has no callback there.
EndReload ==
    /\ Ended /\ eval.for = "reload"
    /\ LET entries == watcher.methods["postUpgrade"] IN
          canister' = IF \A d \in entries : d.index \in DOMAIN eval.meta.callbacks
                      THEN Running(canister.made, eval.meta, entries, watcher.code)
                      ELSE canister
    /\ eval' = NoEvaluation
    /\ UNCHANGED <<source, wasm, watcher>>

\* An exception in the evaluation is ignored: the new runtime takes over without any
\* method, unless executing postUpgrade in it traps.
ReloadThrows ==
    /\ Evaluating /\ eval.done < Len(eval.code) /\ Throws(eval.meta, NextMethod)
    /\ eval.for = "reload"
    /\ canister' = IF watcher.methods["postUpgrade"] = {}
                   THEN Broken(canister.made)
                   ELSE canister
    /\ eval' = NoEvaluation
    /\ UNCHANGED <<source, wasm, watcher>>

\* The developer's code makes an object of an exported class: the decorator of its first
\* method takes an index, then throws as the method is defined.
AfterDecorator(meta, x) ==
    IF Throws(meta, x)
    THEN [next |-> meta.next + 1, callbacks |-> meta.callbacks, methods |-> meta.methods,
          types |-> meta.types, initTypes |-> meta.initTypes]
    ELSE Registered(meta, x)

NewObject(x) ==
    /\ ~Evaluating /\ canister.status = "running"
    /\ canister.meta.next < Len(canister.code) + MaxObjects
    /\ canister' = [status |-> "running", made |-> canister.made, code |-> canister.code,
                    meta |-> AfterDecorator(canister.meta, x), entry |-> canister.entry,
                    origin |-> canister.origin]
    /\ UNCHANGED <<source, eval, wasm, watcher>>

-----------------------------------------------------------------------------
Next ==
    \/ \E p \in Programs : Edit(p)
    \/ StartBuild \/ EndBuild
    \/ RegisterMethod \/ EvaluationThrows
    \/ StartDeploy \/ EndDeploy
    \/ StartReload \/ EndReload \/ ReloadThrows
    \/ \E i \in DOMAIN canister.code : NewObject(canister.code[i])

Spec == Init /\ [][Next]_vars

-----------------------------------------------------------------------------
(* Properties *)

MetaOK(meta) ==
    /\ meta.next \in Nat
    /\ DOMAIN meta.callbacks \subseteq 0 .. meta.next - 1
    /\ \A i \in DOMAIN meta.callbacks : meta.callbacks[i] \in Method
    /\ \A k \in Kinds : meta.methods[k] \subseteq Entry
    /\ \A k \in Kinds : Cardinality({d \in meta.methods[k] : k \notin Callable}) <= 1

\* Every variable has its type; a meta has at most one method of the kinds of which
\* there is one.
TypeOK ==
    /\ source \in Programs
    /\ eval.for \in {"nothing", "build", "deploy", "reload"}
    /\ eval.code \in Programs /\ eval.done \in 0 .. Len(eval.code) /\ MetaOK(eval.meta)
    /\ wasm.built \in BOOLEAN /\ wasm.code \in Programs
    /\ watcher.code \in Programs
    /\ canister.status \in {"absent", "running", "broken"}
    /\ canister.code \in Programs /\ MetaOK(canister.meta)
    /\ canister.entry \subseteq Method /\ canister.origin \in Programs

\* Two programs declare the same methods in the same order.
SameOrder(p, q) ==
    /\ Len(p) = Len(q)
    /\ \A i \in DOMAIN p : p[i].kind = q[i].kind /\ p[i].name = q[i].name

\* Each export of the binary executes the method of its kind and name, at the developer's
\* every use of the classes and after every upgrade, and after a reload whose code
\* declares the same methods in the same order.
ExportsFindMethods ==
    canister.status = "running" /\ SameOrder(canister.made.code, canister.code) =>
        \A k \in Kinds : \A d \in canister.made.methods[k] :
            /\ Executable(d)
            /\ canister.meta.callbacks[d.index].kind = k
            /\ canister.meta.callbacks[d.index].name = d.name

\* The method executed when the code starts is init or postUpgrade, at every deployment,
\* and at a reload whose code declares its methods as the code of the last build did,
\* whose index the watcher sends, whatever builds were not deployed.
StartsWithInitial ==
    canister.status = "running" /\ SameOrder(canister.origin, canister.code) =>
        \A x \in canister.entry : x.kind \in Initial

\* The .did file gives a method the parameters of the callback its one export executes,
\* and init and postUpgrade the same parameters; hidden methods are not in it.
CandidDescribesMethods ==
    canister.status = "running" /\ canister.made.code = canister.code =>
        LET candid == canister.made.candid
            callable == UNION {canister.made.methods[k] : k \in Callable}
            callback == canister.meta.callbacks
        IN  /\ \A n \in DOMAIN candid.methods :
                  \E d \in callable : d.name = n /\ ~d.hidden
            /\ \A d \in callable : ~d.hidden =>
                  /\ d.name \in DOMAIN candid.methods
                  /\ callback[d.index].params = candid.methods[d.name]
            /\ \A k \in Initial : \A d \in canister.made.methods[k] :
                  callback[d.index].params = candid.init
=============================================================================
