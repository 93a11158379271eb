------------------------- MODULE InterCanisterCalls -------------------------
(***************************************************************************)
(* Inter-canister calls of an Azle (stable mode) canister: from the        *)
(* JavaScript `call` API (lib/ic_apis/call.ts) through the Rust glue       *)
(* (ic/call_raw.rs, execute_method_js.rs) to the messages of the Internet  *)
(* Computer, and back to the awaiting JavaScript function.                 *)
(*                                                                         *)
(* The IC executes one message at a time.  The steps of a message change   *)
(* `s`; when the message traps, `s` falls back to `saved`, the state at    *)
(* the start of the message, and when it ends `saved` becomes `s`.  A trap *)
(* in a reply or reject callback makes the IC run the cleanup callback as  *)
(* a message of its own.                                                   *)
(*                                                                         *)
(* Developer code is arbitrary: while one of its functions runs it may     *)
(* issue calls, await one of them, return, throw, or trap.  A promise id   *)
(* (ic/uuid.rs) is a number; ids are drawn in increasing order, so that    *)
(* the least queued id is the one queued first.                            *)
(***************************************************************************)
EXTENDS Naturals

CONSTANTS
    Methods,        \* invocations of update methods, each a call context of its own
    Manual,         \* those of methods declared with { manual: true }
    NoMethod,       \* not a method: the context of the module's own evaluation
    MaxIds,         \* bound: promise ids ever drawn
    MaxInitCalls    \* bound: calls the developer's module issues while it is evaluated

ASSUME MethodsAssumption == Manual \subseteq Methods /\ NoMethod \notin Methods
ASSUME BoundsAssumption == MaxIds \in Nat /\ MaxInitCalls \in Nat

Ids == 1 .. MaxIds
NoId == 0

VARIABLES
    s,      \* the canister (Wasm heap) and the IC's record of its calls and call contexts
    saved,  \* s as of the last committed message: what a trap falls back to
    exec,   \* the message being executed
    lost    \* history: ids whose cleanup callback trapped, and whose code made it trap

vars == <<s, saved, exec, lost>>

PromiseState == {"none", "pending", "resolved", "rejected", "cleanup"}
FnState == {"idle", "running", "suspended", "ready", "returned",
            "finished", "cleanedUp", "swallowed", "trapped"}
Status == {"none", "open", "replied", "rejected"}
Kind == {"init", "none", "method", "response", "cleanup"}
Phase == {"rest", "js", "poll", "settle", "guard"}

CanisterState ==
    [ next : Nat \ {0},             \* the next id INTERNAL_CSPRNG yields
      resolve : SUBSET Ids,         \* keys of globalThis._azleResolveCallbacks
      reject : SUBSET Ids,          \* keys of globalThis._azleRejectCallbacks
      futures : SUBSET Ids,         \* INTER_CANISTER_CALL_FUTURES
      spawned : SUBSET Ids,         \* tasks handed to the executor, not yet polled
      stranded : SUBSET Ids,        \* history: ids whose callRaw threw
      promise : [Ids -> PromiseState],
      ctx : [Ids -> Methods \union {NoMethod}],   \* the call context a call belongs to
      fn : [Methods -> FnState],                  \* the method's async function
      on : [Methods -> Ids \union {NoId}],        \* the promise it last awaited
      awaited : SUBSET Ids,         \* promises some await has been spent on
      calls : SUBSET Ids,           \* the IC's outstanding calls, a task awaiting each
      status : [Methods -> Status] ]              \* the IC's call contexts

Execution ==
    [ kind : Kind,
      phase : Phase,
      method : Methods \union {NoMethod},         \* call context of the message
      id : Ids \union {NoId},       \* the call a response or cleanup message is about
      cur : Ids \union {NoId},      \* the call whose Rust future is being polled or dropped
      outcome : PromiseState ]      \* how that call was answered

Rest == [kind |-> "none", phase |-> "rest", method |-> NoMethod,
         id |-> NoId, cur |-> NoId, outcome |-> "none"]

\* Mutant: ids start at zero, outside the table of promises.
InitialFromZero ==
    [ next |-> 0, resolve |-> {}, reject |-> {}, futures |-> {}, spawned |-> {},
      stranded |-> {}, promise |-> [i \in Ids |-> "none"],
      ctx |-> [i \in Ids |-> NoMethod], fn |-> [m \in Methods |-> "idle"],
      on |-> [m \in Methods |-> NoId], awaited |-> {}, calls |-> {},
      status |-> [m \in Methods |-> "none"] ]

Initial ==
    [ next |-> 1, resolve |-> {}, reject |-> {}, futures |-> {}, spawned |-> {},
      stranded |-> {}, promise |-> [i \in Ids |-> "none"],
      ctx |-> [i \in Ids |-> NoMethod], fn |-> [m \in Methods |-> "idle"],
      on |-> [m \in Methods |-> NoId], awaited |-> {}, calls |-> {},
      status |-> [m \in Methods |-> "none"] ]

\* The JavaScript of main.js is about to be evaluated by initialize_context.
Init ==
    /\ s = Initial
    /\ saved = Initial
    /\ exec = [Rest EXCEPT !.kind = "init", !.phase = "js"]
    /\ lost = [i \in Ids |-> "none"]

-----------------------------------------------------------------------------
(* Operators on the canister state *)

Lost == {i \in Ids : lost[i] # "none"}

\* No function is executing and the QuickJS job queue is empty: it would hold the
\* continuation of a function whose promise settled, or of one that returned.
Quiescent(h) == \A m \in Methods : h.fn[m] \notin {"running", "ready", "returned"}

\* Mutant: the generator repeats itself (as after re-seeding with the same seed).
NewPromiseRepeatsId(h, m, state) ==
    [h EXCEPT !.next = IF h.next = 2 THEN 1 ELSE @ + 1,
              !.resolve = @ \union {h.next},
              !.reject = @ \union {h.next},
              !.promise[h.next] = state,
              !.ctx[h.next] = m]

\* handleTwoWay up to callRaw: draw an id, register both callbacks, return a promise.
NewPromise(h, m, state) ==
    [h EXCEPT !.next = @ + 1,
              !.resolve = @ \union {h.next},
              !.reject = @ \union {h.next},
              !.promise[h.next] = state,
              !.ctx[h.next] = m]

\* Mutant: the promise settles and the awaiting function's job is lost.
SettlePromiseWithoutJob(h, i, outcome) ==
    IF h.promise[i] # "pending" THEN h ELSE [h EXCEPT !.promise[i] = outcome]

\* A settle callback runs: JavaScript settles a promise once, and queues the
\* continuation of the function that awaits it.
SettlePromise(h, i, outcome) ==
    IF h.promise[i] # "pending" THEN h
    ELSE [h EXCEPT !.promise[i] = outcome,
                   !.fn = [m \in Methods |->
                             IF h.fn[m] = "suspended" /\ h.on[m] = i
                             THEN "ready" ELSE h.fn[m]]]

\* Mutant: only the reject callback is deleted.
DeleteRejectCallback(h, i) == [h EXCEPT !.reject = @ \ {i}]

\* cleanup() deletes the two callbacks by their ids.
DeleteCallbacks(h, i) ==
    [h EXCEPT !.resolve = @ \ {i}, !.reject = @ \ {i}]

\* The IC rejects the caller of a context that has no reply and no outstanding call.
CloseContexts(h) ==
    [h EXCEPT !.status = [m \in Methods |->
        IF h.status[m] = "open" /\ \A i \in h.calls : h.ctx[i] # m
        THEN "rejected" ELSE h.status[m]]]

\* The message traps.  `by` says whose code trapped; it only matters in a
\* cleanup callback, whose trap leaves the call's state behind for good.
Trap(by) ==
    CASE exec.kind = "method" ->
           /\ s' = [saved EXCEPT !.fn[exec.method] = "trapped",
                                 !.status[exec.method] = "rejected"]
           /\ saved' = s'
           /\ exec' = Rest
           /\ lost' = lost
      [] exec.kind = "response" ->
           /\ s' = saved
           /\ exec' = [exec EXCEPT !.kind = "cleanup", !.phase = "guard",
                                   !.cur = exec.id, !.outcome = "cleanup"]
           /\ UNCHANGED <<saved, lost>>
      [] exec.kind = "cleanup" ->
           /\ s' = CloseContexts(saved)
           /\ saved' = s'
           /\ exec' = Rest
           /\ lost' = [lost EXCEPT ![exec.id] = by]

\* The running message changes the canister and goes on in the same phase.
Step(h) ==
    /\ s' = h
    /\ UNCHANGED <<saved, exec, lost>>

-----------------------------------------------------------------------------
(* initialize_context: the first JavaScript execution *)

\* The module calls `call` at its top level.  Nothing here starts the future.
ModuleCall ==
    /\ exec.kind = "init"
    /\ s.next <= MaxInitCalls
    /\ s.next <= MaxIds
    /\ Step([NewPromise(s, NoMethod, "pending") EXCEPT !.futures = @ \union {s.next}])

\* initialize_context returns without drain_inter_canister_call_futures.
InitializeContext ==
    /\ exec.kind = "init"
    /\ exec' = Rest
    /\ saved' = s
    /\ UNCHANGED <<s, lost>>

-----------------------------------------------------------------------------
(* The messages of the IC *)

\* An update call arrives: execute_method_js runs the method's callback.
ExecuteMethodJs(m) ==
    /\ exec.phase = "rest"
    /\ s.fn[m] = "idle"
    /\ s' = [s EXCEPT !.fn[m] = "running", !.status[m] = "open"]
    /\ exec' = [Rest EXCEPT !.kind = "method", !.phase = "js", !.method = m]
    /\ UNCHANGED <<saved, lost>>

\* The response to an outstanding call arrives, exactly once per call: the
\* executor wakes the task, which goes on after `.await` in call_raw.
Respond(i, outcome) ==
    /\ exec.phase = "rest"
    /\ i \in s.calls
    /\ s' = [s EXCEPT !.calls = @ \ {i}]
    /\ saved' = s'
    /\ exec' = [kind |-> "response", phase |-> "settle", method |-> s.ctx[i],
                id |-> i, cur |-> i, outcome |-> outcome]
    /\ UNCHANGED lost

\* The message ends once the executor has polled every spawned task.
EndMessage ==
    /\ exec.phase = "poll"
    /\ s.spawned = {}
    /\ s' = CloseContexts(s)
    /\ saved' = s'
    /\ exec' = Rest
    /\ UNCHANGED lost

\* Any message may trap: ic.trap in developer code, a decoding error in the
\* resolve callback, the instruction limit.
TrapAnywhere ==
    /\ exec.kind \in {"method", "response", "cleanup"}
    /\ Trap("developer")

-----------------------------------------------------------------------------
(* Developer code, and the framework code around it, in a microtask drain *)

\* The function of this call context is executing.
Running ==
    /\ exec.kind \in {"method", "response", "cleanup"}
    /\ exec.phase = "js"
    /\ s.fn[exec.method] = "running"

\* call() with arguments callRaw accepts: the future is queued, not started.
CallRaw ==
    /\ Running
    /\ s.next <= MaxIds
    /\ Step([NewPromise(s, exec.method, "pending") EXCEPT !.futures = @ \union {s.next}])

\* call() with cycles callRaw cannot parse as u128: it throws inside the
\* Promise executor, after the callbacks were registered.
CallRawThrows ==
    /\ Running
    /\ s.next <= MaxIds
    /\ Step([NewPromise(s, exec.method, "rejected") EXCEPT !.stranded = @ \union {s.next}])

\* The function awaits the promise of one of its calls.
Await(i) ==
    /\ Running
    /\ s.promise[i] # "none"
    /\ s.ctx[i] = exec.method
    /\ i \notin s.awaited
    /\ Step([s EXCEPT !.fn[exec.method] =
                          IF s.promise[i] = "pending" THEN "suspended" ELSE "ready",
                      !.on[exec.method] = i,
                      !.awaited = @ \union {i}])

\* drain_microtasks runs the continuation of the awaiting function.
ResumeFunction(m) ==
    /\ exec.phase = "js"
    /\ s.fn[m] = "ready"
    /\ Step([s EXCEPT !.fn[m] = "running"])

\* The function returns: what is left of executeAndReplyWithCandidSerde is queued.
Return ==
    /\ Running
    /\ Step([s EXCEPT !.fn[exec.method] = "returned"])

\* Mutant: the reply is skipped as if every method were manual.
EncodeResultWithoutReply ==
    /\ exec.phase = "js"
    /\ exec.kind # "init"
    /\ s.fn[exec.method] = "returned"
    /\ Step([s EXCEPT !.fn[exec.method] = "finished"])

\* encodeResultAndReply.  The IC does not let a cleanup callback reply.
EncodeResultAndReply ==
    /\ exec.phase = "js"
    /\ exec.kind # "init"
    /\ s.fn[exec.method] = "returned"
    /\ \/ /\ exec.method \in Manual
          /\ Step([s EXCEPT !.fn[exec.method] = "finished"])
       \/ /\ exec.method \notin Manual
          /\ exec.kind # "cleanup" /\ s.status[exec.method] = "open"
          /\ Step([s EXCEPT !.fn[exec.method] = "finished",
                            !.status[exec.method] = "replied"])
       \/ /\ exec.method \notin Manual
          /\ ~(exec.kind # "cleanup" /\ s.status[exec.method] = "open")
          /\ Trap("framework")

\* msgReply or msgReject called by a manual method; a second one traps.
ManualReply ==
    /\ Running
    /\ exec.method \in Manual
    /\ IF exec.kind # "cleanup" /\ s.status[exec.method] = "open"
       THEN Step([s EXCEPT !.status[exec.method] = "replied"])
       ELSE Trap("developer")

\* handleUncaughtError for an error the function throws: an ordinary error traps,
HandleUncaughtError ==
    /\ Running
    /\ Trap("developer")

\* the CleanupCallback error it received is let pass,
HandleCleanupCallbackError ==
    /\ Running
    /\ s.on[exec.method] # NoId
    /\ s.promise[s.on[exec.method]] = "cleanup"
    /\ Step([s EXCEPT !.fn[exec.method] = "cleanedUp"])

\* and for null or undefined `rawError.type` throws a TypeError, which rejects
\* the method callback's promise when nobody looks at it any more.
HandleNullishError ==
    /\ Running
    /\ Step([s EXCEPT !.fn[exec.method] = "swallowed"])

-----------------------------------------------------------------------------
(* The Rust futures *)

\* Mutant: the futures queued by a response's continuation are not drained.
DrainAfterMethodsOnly ==
    /\ exec.phase = "js"
    /\ exec.kind # "init"
    /\ Quiescent(s)
    /\ s' = IF exec.kind = "method"
            THEN [s EXCEPT !.spawned = @ \union s.futures, !.futures = {}] ELSE s
    /\ exec' = [exec EXCEPT !.phase = "poll", !.cur = NoId]
    /\ UNCHANGED <<saved, lost>>

\* The microtasks are drained: drain_inter_canister_call_futures spawns the
\* queued futures.  The executor refuses to spawn while it recovers from a trap.
DrainInterCanisterCallFutures ==
    /\ exec.phase = "js"
    /\ exec.kind # "init"
    /\ Quiescent(s)
    /\ IF exec.kind = "cleanup" /\ s.futures # {}
       THEN Trap("developer")
       ELSE /\ s' = [s EXCEPT !.spawned = @ \union s.futures, !.futures = {}]
            /\ exec' = [exec EXCEPT !.phase = "poll", !.cur = NoId]
            /\ UNCHANGED <<saved, lost>>

\* The executor polls the oldest spawned task: Call::unbounded_wait hands the
\* call to the IC and the task awaits the response,
PerformCall(i) ==
    /\ exec.phase = "poll"
    /\ i \in s.spawned /\ \A j \in s.spawned : i <= j
    /\ Step([s EXCEPT !.spawned = @ \ {i},
                      !.calls = @ \union {i},
                      !.ctx[i] = exec.method])

\* or the call fails at once (too few cycles, call_perform failed) and the task
\* goes on in the same message.
PerformCallFails(i) ==
    /\ exec.phase = "poll"
    /\ i \in s.spawned /\ \A j \in s.spawned : i <= j
    /\ s' = [s EXCEPT !.spawned = @ \ {i}, !.ctx[i] = exec.method]
    /\ exec' = [exec EXCEPT !.phase = "settle", !.cur = i, !.outcome = "rejected"]
    /\ UNCHANGED <<saved, lost>>

\* settle_promise: look the callback up by its id and call it; a missing
\* callback is an error, and traps.
SettleTable(outcome) == IF outcome = "resolved" THEN s.resolve ELSE s.reject

Settle ==
    /\ exec.phase = "settle"
    /\ IF exec.cur \in SettleTable(exec.outcome)
       THEN /\ s' = SettlePromise(s, exec.cur, exec.outcome)
            /\ exec' = [exec EXCEPT !.phase = "guard"]
            /\ UNCHANGED <<saved, lost>>
       ELSE Trap("framework")

\* Mutant: recovering from a trap is not noticed; the promise is not rejected.
CleanupScopeguardSilent ==
    /\ exec.phase = "guard"
    /\ s' = DeleteCallbacks(s, exec.cur)
    /\ exec' = [exec EXCEPT !.phase = "js"]
    /\ UNCHANGED <<saved, lost>>

\* Mutant: recovering from a trap, every promise in the table is rejected.
CleanupScopeguardRejectsAll ==
    /\ exec.phase = "guard"
    /\ s' = DeleteCallbacks(
               IF exec.kind = "cleanup"
               THEN [s EXCEPT !.promise = [i \in Ids |->
                        IF i \in s.reject \ s.stranded THEN "cleanup" ELSE s.promise[i]]]
               ELSE s,
               exec.cur)
    /\ exec' = [exec EXCEPT !.phase = "js"]
    /\ UNCHANGED <<saved, lost>>

\* The scopeguard runs as the future is dropped: at its end, or when the cleanup
\* callback cancels it.  Recovering from a trap it first rejects the promise
\* with the CleanupCallback error.  It deletes both callbacks, then drains the
\* microtasks.
CleanupScopeguard ==
    /\ exec.phase = "guard"
    /\ IF exec.kind = "cleanup" /\ exec.cur \notin s.reject
       THEN Trap("framework")
       ELSE /\ s' = DeleteCallbacks(
                       IF exec.kind = "cleanup"
                       THEN SettlePromise(s, exec.cur, "cleanup") ELSE s,
                       exec.cur)
            /\ exec' = [exec EXCEPT !.phase = "js"]
            /\ UNCHANGED <<saved, lost>>

-----------------------------------------------------------------------------
DeveloperStep ==
    \/ CallRaw
    \/ CallRawThrows
    \/ \E i \in Ids : Await(i)
    \/ Return
    \/ ManualReply
    \/ HandleUncaughtError
    \/ HandleCleanupCallbackError
    \/ HandleNullishError

FrameworkStep ==
    \/ InitializeContext
    \/ \E m \in Methods : ResumeFunction(m)
    \/ EncodeResultAndReply
    \/ DrainInterCanisterCallFutures
    \/ \E i \in Ids : PerformCall(i) \/ PerformCallFails(i)
    \/ Settle
    \/ CleanupScopeguard
    \/ EndMessage

\* Every method has been invoked and no response is to come: the bounded
\* history is over.
Done ==
    /\ exec.phase = "rest"
    /\ \A m \in Methods : s.fn[m] # "idle"
    /\ s.calls = {}
    /\ UNCHANGED vars

Next ==
    \/ ModuleCall
    \/ \E m \in Methods : ExecuteMethodJs(m)
    \/ \E i \in Ids, outcome \in {"resolved", "rejected"} : Respond(i, outcome)
    \/ DeveloperStep
    \/ FrameworkStep
    \/ TrapAnywhere
    \/ Done

Spec == Init /\ [][Next]_vars

\* A message the IC has begun is executed to its end (the IC bounds its
\* instructions), and the IC answers every call.
Fairness ==
    /\ WF_vars(DeveloperStep \/ FrameworkStep)
    /\ \A i \in Ids : WF_vars(Respond(i, "resolved") \/ Respond(i, "rejected"))

FairSpec == Spec /\ Fairness

-----------------------------------------------------------------------------
(* Properties *)

\* Every variable has its type.
TypeOK ==
    /\ s \in CanisterState
    /\ saved \in CanisterState
    /\ exec \in Execution
    /\ lost \in [Ids -> {"none", "developer", "framework"}]

\* Between messages the two callback tables hold exactly the calls whose
\* response is to come, the ones module evaluation left queued, and the two
\* kinds of leftovers: calls whose cleanup callback trapped and calls callRaw
\* refused.  No callback is deleted early, and none is left for another reason,
\* whatever traps (ic/call_raw.rs, the scopeguard; lib/state.ts).
CallbackTablesExact ==
    exec.phase = "rest" =>
        /\ s.resolve = s.calls \union s.futures \union Lost \union s.stranded
        /\ s.reject = s.resolve

\* Between messages a suspended function awaits a promise that a response can
\* still settle, or one whose cleanup callback trapped: no settlement happens
\* without its continuation being run in the same message.
NoLostWakeup ==
    exec.phase = "rest" =>
        \A m \in Methods :
            s.fn[m] = "suspended" => s.on[m] \in s.calls \union Lost

\* Between messages the job queue is empty, no function is half-way, no task is
\* unpolled, and the only queued futures are those of module evaluation
\* (test/global_state.ts checks this after every test).
DrainedAtRest ==
    exec.phase = "rest" =>
        /\ Quiescent(s)
        /\ s.spawned = {}
        /\ \A i \in s.futures : s.ctx[i] = NoMethod

\* The system rejects a caller for no other reason than these: the method
\* trapped, its error was let pass or swallowed, it awaits a call whose cleanup
\* callback trapped, or it is a manual method that never replied.
RejectedHasCause ==
    exec.phase = "rest" =>
        \A m \in Methods : s.status[m] = "rejected" =>
            \/ s.fn[m] \in {"trapped", "cleanedUp", "swallowed"}
            \/ s.fn[m] = "suspended" /\ lost[s.on[m]] # "none"
            \/ s.fn[m] = "finished" /\ m \in Manual

\* A committed settlement is final: no later message, trap or reused id changes
\* how a promise was settled.
SettledForever ==
    [][\A i \in Ids :
          saved.promise[i] \notin {"none", "pending"} =>
              saved'.promise[i] = saved.promise[i]]_vars

\* Every outstanding call is settled for the developer, or lost to a trap in
\* its cleanup callback.
EveryCallIsSettled ==
    \A i \in Ids :
        i \in saved.calls ~> saved.promise[i] # "pending" \/ lost[i] # "none"
\* A function that awaits goes on, unless its call is lost.
EveryAwaitEnds ==
    \A m \in Methods :
        saved.fn[m] = "suspended" ~>
            saved.fn[m] # "suspended" \/ lost[saved.on[m]] # "none"

\* Seen at commits, every promise goes through the life cycle CallContract
\* allows: a message settles at most one promise it did not create, and a
\* cleanup callback that traps leaves no trace but its own lost promise.
Contract == INSTANCE CallContract WITH
    outcome <- [id \in Ids |->
        IF lost[id] # "none" THEN "lost"
        ELSE IF saved.promise[id] = "none" THEN "unissued"
        ELSE IF id \in saved.futures THEN "queued"
        ELSE saved.promise[id]]

ImplementsContract == Contract!Spec

(* What the repository says of the program, and the code does not do *)

\* call.ts: the CleanupCallback error allows the caller "to detect it and
\* perform any necessary cleanup operations": handling it does not make the
\* cleanup callback trap.
HandledCleanupCommits == \A i \in Ids : lost[i] # "framework"
=============================================================================
