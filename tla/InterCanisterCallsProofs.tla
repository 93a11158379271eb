----------------------- MODULE InterCanisterCallsProofs -----------------------
(* Proofs about InterCanisterCalls, for any methods and any bounds. *)
EXTENDS InterCanisterCalls, TLAPS

\* The call whose future is being polled or dropped: in the tables, without a task.
InHand == IF exec.phase \in {"settle", "guard"} THEN {exec.cur} ELSE {}

\* The call this message is the response to: in the committed tables, without an
\* outstanding call.
Answered == IF exec.kind \in {"response", "cleanup"} THEN {exec.id} ELSE {}

\* Every entry of the callback tables has exactly one reason to be there; X are
\* the calls in transit.
Accounted(h, X) ==
    /\ h.reject = h.resolve
    /\ h.resolve = h.futures \union h.spawned \union h.calls \union Lost \union h.stranded \union X
    /\ h.futures \intersect (h.spawned \union h.calls \union Lost \union h.stranded \union X) = {}
    /\ h.spawned \intersect (h.calls \union Lost \union h.stranded \union X) = {}
    /\ h.calls \intersect (Lost \union h.stranded \union X) = {}
    /\ Lost \intersect (h.stranded \union X) = {}
    /\ h.stranded \intersect X = {}
    /\ \A i \in h.resolve : i < h.next

\* The calls in transit that are not settled yet.
Unsettled ==
    IF exec.phase = "settle" \/ (exec.phase = "guard" /\ exec.kind = "cleanup")
    THEN {exec.cur} ELSE {}

\* A promise is pending exactly while its call is queued, spawned, outstanding,
\* lost, or in P; and a suspended function awaits a pending promise of its own.
PromisesOK(h, P) ==
    /\ \A i \in Ids : h.promise[i] = "pending" <=>
          i \in h.futures \union h.spawned \union h.calls \union Lost \union P
    /\ \A m \in Methods : h.fn[m] = "suspended" =>
          /\ h.on[m] \in Ids
          /\ h.promise[h.on[m]] = "pending"
          /\ h.ctx[h.on[m]] = m

\* Calls belong to methods; what is not performed yet was issued by the message's
\* method or by the module.
ContextsOK(h, m) ==
    /\ \A i \in h.calls : h.ctx[i] \in Methods
    /\ \A i \in h.futures \union h.spawned : h.ctx[i] \in {NoMethod, m}

\* What each kind and phase of a message entails.
ExecOK ==
    /\ exec.phase = "rest" <=> exec.kind = "none"
    /\ exec.kind = "none" => exec.method = NoMethod /\ s = saved
    /\ exec.kind = "init" => exec.phase = "js" /\ exec.method = NoMethod
                             /\ s.spawned = {} /\ Quiescent(s)
    /\ exec.kind \in {"method", "response", "cleanup"} => exec.method \in Methods
    /\ exec.kind \in {"response", "cleanup"} => exec.id \in Ids
    /\ exec.phase \in {"settle", "guard"} => exec.cur \in Ids
    /\ exec.phase = "settle" => exec.outcome \in {"resolved", "rejected"}
    /\ exec.kind = "cleanup" => /\ s.spawned = {}
                                /\ exec.phase \in {"guard", "js", "poll"}
                                /\ exec.phase = "guard" => exec.cur = exec.id
    /\ exec.phase = "poll" => s.futures = {}
    /\ exec.phase \in {"poll", "settle"} => Quiescent(s)
    /\ Quiescent(saved)
    /\ saved.spawned = {}

IInv ==
    /\ TypeOK
    /\ ExecOK
    /\ Accounted(s, InHand)
    /\ Accounted(saved, Answered)
    /\ PromisesOK(s, Unsettled)
    /\ PromisesOK(saved, Answered)
    /\ ContextsOK(s, exec.method)
    /\ ContextsOK(saved, NoMethod)

-----------------------------------------------------------------------------

(* The operators on the canister state keep its type. *)

LEMMA NewPromiseType ==
    ASSUME NEW h \in CanisterState, NEW m \in Methods \union {NoMethod},
           NEW state \in PromiseState, h.next <= MaxIds
    PROVE  /\ h.next \in Ids
           /\ NewPromise(h, m, state) \in CanisterState
<1>1. h.next \in Ids
    BY BoundsAssumption DEF CanisterState, Ids
<1>2. h.next + 1 \in Nat \ {0}
    BY DEF CanisterState
<1>3. h.resolve \union {h.next} \in SUBSET Ids /\ h.reject \union {h.next} \in SUBSET Ids
    BY <1>1 DEF CanisterState
<1>4. [h.promise EXCEPT ![h.next] = state] \in [Ids -> PromiseState]
    BY <1>1 DEF CanisterState
<1>5. [h.ctx EXCEPT ![h.next] = m] \in [Ids -> Methods \union {NoMethod}]
    BY <1>1 DEF CanisterState
<1>6. NewPromise(h, m, state) =
        [h EXCEPT !.next = h.next + 1,
                  !.resolve = h.resolve \union {h.next},
                  !.reject = h.reject \union {h.next},
                  !.promise = [h.promise EXCEPT ![h.next] = state],
                  !.ctx = [h.ctx EXCEPT ![h.next] = m]]
    BY DEF NewPromise, CanisterState
<1> QED BY <1>1, <1>2, <1>3, <1>4, <1>5, <1>6 DEF CanisterState

LEMMA QueueType ==
    ASSUME NEW h \in CanisterState, NEW x \in SUBSET Ids
    PROVE  /\ [h EXCEPT !.futures = x] \in CanisterState
           /\ [h EXCEPT !.stranded = x] \in CanisterState
    BY DEF CanisterState

-----------------------------------------------------------------------------
(* Each action preserves the invariant. *)

LEMMA SavedKept ==
    ASSUME IInv, UNCHANGED <<saved, lost>>, exec'.kind = exec.kind, exec'.id = exec.id
    PROVE  /\ Accounted(saved, Answered)'
           /\ PromisesOK(saved, Answered)'
           /\ ContextsOK(saved, NoMethod)'
<1>1. Accounted(saved, Answered)'
    <2>1. Accounted(saved, Answered) BY DEF IInv
    <2> QED BY <2>1 DEF Accounted, Answered, Lost
<1>2. PromisesOK(saved, Answered)'
    <2>1. PromisesOK(saved, Answered) BY DEF IInv
    <2> QED BY <2>1 DEF PromisesOK, Answered, Lost
<1>3. ContextsOK(saved, NoMethod)'
    <2>1. ContextsOK(saved, NoMethod) BY DEF IInv
    <2> QED BY <2>1 DEF ContextsOK
<1> QED BY <1>1, <1>2, <1>3

LEMMA CallPreserves ==
    ASSUME IInv, NEW m \in Methods \union {NoMethod}, m = exec.method, exec.phase = "js",
           s.next <= MaxIds,
           Step([NewPromise(s, m, "pending") EXCEPT !.futures = @ \union {s.next}])
    PROVE  IInv'
<1> DEFINE n == NewPromise(s, m, "pending")
<1>1. s \in CanisterState /\ s.next \in Ids /\ n \in CanisterState
    BY NewPromiseType DEF IInv, TypeOK, PromiseState
<1>2. /\ s'.next = s.next + 1
      /\ s'.resolve = s.resolve \union {s.next}
      /\ s'.reject = s.reject \union {s.next}
      /\ s'.promise = [s.promise EXCEPT ![s.next] = "pending"]
      /\ s'.ctx = [s.ctx EXCEPT ![s.next] = m]
    BY <1>1 DEF Step, CanisterState, NewPromise
<1>3. /\ s'.futures = s.futures \union {s.next}
      /\ s'.spawned = s.spawned
      /\ s'.stranded = s.stranded
      /\ s'.fn = s.fn
      /\ s'.on = s.on
      /\ s'.calls = s.calls
    BY <1>1 DEF Step, CanisterState, NewPromise
<1>4. UNCHANGED <<saved, exec, lost>>
    BY DEF Step
<1>5. TypeOK'
    <2>1. s' \in CanisterState
        <3>1. n.futures \union {s.next} \in SUBSET Ids
            BY <1>1 DEF CanisterState
        <3>2. s' = [n EXCEPT !.futures = n.futures \union {s.next}]
            BY DEF Step
        <3> QED BY <1>1, <3>1, <3>2, QueueType
    <2> QED BY <1>4, <2>1 DEF IInv, TypeOK
<1>6. ExecOK'
    BY <1>3, <1>4 DEF IInv, ExecOK, Quiescent
<1>7. Accounted(s, {}) /\ PromisesOK(s, {}) /\ ContextsOK(s, m)
    BY DEF IInv, InHand, Unsettled
<1>8. Accounted(s, InHand)'
    <2>1. Accounted(s, {})'
        <3>1. s.next \notin s.resolve
            BY <1>7, <1>1 DEF Accounted, CanisterState
        <3>2. Lost' = Lost
            BY <1>4 DEF Lost
        <3>3. s'.reject = s'.resolve
            BY <1>2, <1>7 DEF Accounted
        <3>4. s'.resolve = s'.futures \union s'.spawned \union s'.calls \union Lost' \union s'.stranded
            BY <1>2, <1>3, <1>7, <3>2 DEF Accounted
        <3>5. \A i \in s'.resolve : i < s'.next
            BY <1>1, <1>2, <1>7 DEF Accounted, CanisterState, Ids
        <3>6. /\ s'.futures \intersect (s'.spawned \union s'.calls \union Lost' \union s'.stranded) = {}
              /\ s'.spawned \intersect (s'.calls \union Lost' \union s'.stranded) = {}
              /\ s'.calls \intersect (Lost' \union s'.stranded) = {}
              /\ Lost' \intersect s'.stranded = {}
            BY <1>3, <1>2, <1>7, <3>1, <3>2 DEF Accounted
        <3> QED BY <3>3, <3>4, <3>5, <3>6 DEF Accounted
    <2> QED BY <2>1, <1>4 DEF InHand
<1>9. PromisesOK(s, Unsettled)'
    <2>1. PromisesOK(s, {})'
        <3>1. s.next \notin s.resolve
            BY <1>7, <1>1 DEF Accounted, CanisterState
        <3>2. ASSUME NEW i \in Ids
              PROVE  s'.promise[i] = "pending" <=>
                       i \in s'.futures \union s'.spawned \union s'.calls \union Lost'
            BY <1>1, <1>2, <1>3, <1>4, <1>7, <3>1 DEF Accounted, PromisesOK, Lost, CanisterState
        <3>3. ASSUME NEW k \in Methods, s'.fn[k] = "suspended"
              PROVE  s'.on[k] \in Ids /\ s'.promise[s'.on[k]] = "pending" /\ s'.ctx[s'.on[k]] = k
            <4>1. s.on[k] \in Ids /\ s.promise[s.on[k]] = "pending" /\ s.ctx[s.on[k]] = k
                BY <1>3, <1>7, <3>3 DEF PromisesOK
            <4>2. s.on[k] # s.next
                BY <1>7, <3>1, <4>1 DEF PromisesOK, Accounted
            <4> QED BY <1>1, <1>2, <1>3, <4>1, <4>2 DEF CanisterState
        <3> QED BY <3>2, <3>3 DEF PromisesOK
    <2> QED BY <2>1, <1>4 DEF Unsettled
<1>10. ContextsOK(s, exec.method)'
    <2>1. s.next \notin s.resolve
        BY <1>7, <1>1 DEF Accounted, CanisterState
    <2> QED BY <1>1, <1>2, <1>3, <1>4, <1>7, <2>1 DEF ContextsOK, Accounted, CanisterState
<1> QED BY <1>4, <1>5, <1>6, <1>8, <1>9, <1>10, SavedKept DEF IInv

LEMMA CallThrowsPreserves ==
    ASSUME IInv, CallRawThrows
    PROVE  IInv'
<1> DEFINE m == exec.method
           n == NewPromise(s, m, "rejected")
<1>1. s \in CanisterState /\ s.next \in Ids /\ n \in CanisterState /\ m \in Methods
    BY NewPromiseType DEF IInv, TypeOK, PromiseState, CallRawThrows, Running, ExecOK
<1>2. /\ s'.next = s.next + 1
      /\ s'.resolve = s.resolve \union {s.next}
      /\ s'.reject = s.reject \union {s.next}
      /\ s'.promise = [s.promise EXCEPT ![s.next] = "rejected"]
      /\ s'.ctx = [s.ctx EXCEPT ![s.next] = m]
      /\ s'.stranded = s.stranded \union {s.next}
    BY <1>1 DEF CallRawThrows, Step, CanisterState, NewPromise
<1>3. /\ s'.futures = s.futures
      /\ s'.spawned = s.spawned
      /\ s'.fn = s.fn
      /\ s'.on = s.on
      /\ s'.calls = s.calls
    BY <1>1 DEF CallRawThrows, Step, CanisterState, NewPromise
<1>4. UNCHANGED <<saved, exec, lost>> /\ exec.phase = "js"
    BY DEF CallRawThrows, Running, Step
<1>5. TypeOK'
    <2>1. s' \in CanisterState
        <3>1. n.stranded \union {s.next} \in SUBSET Ids
            BY <1>1 DEF CanisterState
        <3>2. s' = [n EXCEPT !.stranded = n.stranded \union {s.next}]
            BY DEF CallRawThrows, Step
        <3> QED BY <1>1, <3>1, <3>2, QueueType
    <2> QED BY <1>4, <2>1 DEF IInv, TypeOK
<1>6. ExecOK'
    BY <1>3, <1>4 DEF IInv, ExecOK, Quiescent
<1>7. Accounted(s, {}) /\ PromisesOK(s, {}) /\ ContextsOK(s, m)
    BY <1>4 DEF IInv, InHand, Unsettled
<1>8. s.next \notin s.resolve
    BY <1>7, <1>1 DEF Accounted, CanisterState
<1>9. Accounted(s, InHand)'
    <2>1. Accounted(s, {})'
        <3>1. Lost' = Lost
            BY <1>4 DEF Lost
        <3>2. s'.reject = s'.resolve
            BY <1>2, <1>7 DEF Accounted
        <3>3. s'.resolve = s'.futures \union s'.spawned \union s'.calls \union Lost' \union s'.stranded
            BY <1>2, <1>3, <1>7, <3>1 DEF Accounted
        <3>4. \A i \in s'.resolve : i < s'.next
            BY <1>1, <1>2, <1>7 DEF Accounted, CanisterState, Ids
        <3>5. /\ s'.futures \intersect (s'.spawned \union s'.calls \union Lost' \union s'.stranded) = {}
              /\ s'.spawned \intersect (s'.calls \union Lost' \union s'.stranded) = {}
              /\ s'.calls \intersect (Lost' \union s'.stranded) = {}
              /\ Lost' \intersect s'.stranded = {}
            BY <1>3, <1>2, <1>7, <1>8, <3>1 DEF Accounted
        <3> QED BY <3>2, <3>3, <3>4, <3>5 DEF Accounted
    <2> QED BY <2>1, <1>4 DEF InHand
<1>10. PromisesOK(s, Unsettled)'
    <2>1. PromisesOK(s, {})'
        <3>1. ASSUME NEW i \in Ids
              PROVE  s'.promise[i] = "pending" <=>
                       i \in s'.futures \union s'.spawned \union s'.calls \union Lost'
            BY <1>1, <1>2, <1>3, <1>4, <1>7, <1>8 DEF Accounted, PromisesOK, Lost, CanisterState
        <3>2. ASSUME NEW k \in Methods, s'.fn[k] = "suspended"
              PROVE  s'.on[k] \in Ids /\ s'.promise[s'.on[k]] = "pending" /\ s'.ctx[s'.on[k]] = k
            <4>1. s.on[k] \in Ids /\ s.promise[s.on[k]] = "pending" /\ s.ctx[s.on[k]] = k
                BY <1>3, <1>7, <3>2 DEF PromisesOK
            <4>2. s.on[k] # s.next
                BY <1>7, <1>8, <4>1 DEF PromisesOK, Accounted
            <4> QED BY <1>1, <1>2, <1>3, <4>1, <4>2 DEF CanisterState
        <3> QED BY <3>1, <3>2 DEF PromisesOK
    <2> QED BY <2>1, <1>4 DEF Unsettled
<1>11. ContextsOK(s, exec.method)'
    BY <1>1, <1>2, <1>3, <1>4, <1>7, <1>8 DEF ContextsOK, Accounted, CanisterState
<1> QED BY <1>4, <1>5, <1>6, <1>9, <1>10, <1>11, SavedKept DEF IInv

\* A function goes on, ends, or replies, without awaiting: only fn and status change.
LEMMA FunctionMoves ==
    ASSUME IInv, exec.phase = "js", exec.kind # "init", UNCHANGED <<saved, exec, lost>>,
           NEW m \in Methods, NEW f \in FnState, f # "suspended", NEW st \in Status,
           s' = [s EXCEPT !.fn[m] = f, !.status[m] = st]
    PROVE  IInv'
<1>1. s \in CanisterState
    BY DEF IInv, TypeOK
<1>2. /\ s'.next = s.next
      /\ s'.resolve = s.resolve
      /\ s'.reject = s.reject
      /\ s'.futures = s.futures
      /\ s'.spawned = s.spawned
      /\ s'.stranded = s.stranded
      /\ s'.calls = s.calls
    BY <1>1 DEF CanisterState
<1>3. /\ s'.promise = s.promise
      /\ s'.ctx = s.ctx
      /\ s'.fn = [s.fn EXCEPT ![m] = f]
      /\ s'.on = s.on
    BY <1>1 DEF CanisterState
<1>4. TypeOK'
    <2>1. s' \in CanisterState
        BY <1>1 DEF CanisterState
    <2> QED BY <2>1 DEF IInv, TypeOK
<1>5. ExecOK'
    BY <1>2 DEF IInv, ExecOK
<1>6. Accounted(s, {}) /\ PromisesOK(s, {}) /\ ContextsOK(s, exec.method)
    BY DEF IInv, InHand, Unsettled
<1>7. Accounted(s, InHand)'
    BY <1>2, <1>6 DEF Accounted, Lost, InHand
<1>8. PromisesOK(s, Unsettled)'
    BY <1>1, <1>2, <1>3, <1>6 DEF PromisesOK, Lost, Unsettled, CanisterState
<1>9. ContextsOK(s, exec.method)'
    BY <1>2, <1>3, <1>6 DEF ContextsOK
<1> QED BY <1>4, <1>5, <1>7, <1>8, <1>9, SavedKept DEF IInv

LEMMA AwaitPreserves ==
    ASSUME IInv, NEW i \in Ids, Await(i)
    PROVE  IInv'
<1> DEFINE m == exec.method
           f == IF s.promise[i] = "pending" THEN "suspended" ELSE "ready"
<1>1. s \in CanisterState /\ m \in Methods
    BY DEF IInv, TypeOK, Await, Running, ExecOK
<1>2. /\ s'.next = s.next
      /\ s'.resolve = s.resolve
      /\ s'.reject = s.reject
      /\ s'.futures = s.futures
      /\ s'.spawned = s.spawned
      /\ s'.stranded = s.stranded
      /\ s'.calls = s.calls
    BY <1>1 DEF Await, Step, CanisterState
<1>3. /\ s'.promise = s.promise
      /\ s'.ctx = s.ctx
      /\ s'.fn = [s.fn EXCEPT ![m] = f]
      /\ s'.on = [s.on EXCEPT ![m] = i]
      /\ s'.awaited = s.awaited \union {i}
    BY <1>1 DEF Await, Step, CanisterState
<1>4. UNCHANGED <<saved, exec, lost>> /\ exec.phase = "js" /\ exec.kind # "init"
    BY DEF Await, Running, Step
<1>5. TypeOK'
    <2>1. s' \in CanisterState
        <3>1. [s.fn EXCEPT ![m] = f] \in [Methods -> FnState]
            BY <1>1 DEF CanisterState, FnState
        <3>2. s.awaited \union {i} \in SUBSET Ids
            BY <1>1 DEF CanisterState
        <3>3. s' = [s EXCEPT !.fn = [s.fn EXCEPT ![m] = f], !.on = [s.on EXCEPT ![m] = i],
                            !.awaited = s.awaited \union {i}]
            BY <1>1 DEF Await, Step, CanisterState
        <3> QED BY <1>1, <3>1, <3>2, <3>3 DEF CanisterState
    <2> QED BY <1>4, <2>1 DEF IInv, TypeOK
<1>6. ExecOK'
    BY <1>2, <1>4 DEF IInv, ExecOK
<1>7. Accounted(s, {}) /\ PromisesOK(s, {}) /\ ContextsOK(s, m)
    BY <1>4 DEF IInv, InHand, Unsettled
<1>8. Accounted(s, InHand)'
    BY <1>2, <1>4, <1>7 DEF Accounted, Lost, InHand
<1>9. PromisesOK(s, Unsettled)'
    <2>1. s.ctx[i] = m
        BY DEF Await
    <2> QED BY <1>1, <1>2, <1>3, <1>4, <1>7, <2>1 DEF PromisesOK, Lost, Unsettled, CanisterState
<1>10. ContextsOK(s, exec.method)'
    BY <1>2, <1>3, <1>4, <1>7 DEF ContextsOK
<1> QED BY <1>4, <1>5, <1>6, <1>8, <1>9, <1>10, SavedKept DEF IInv

\* DrainInterCanisterCallFutures when it does not trap.
LEMMA DrainPreserves ==
    ASSUME IInv, exec.phase = "js", exec.kind # "init", Quiescent(s),
           exec.kind = "cleanup" => s.futures = {},
           s' = [s EXCEPT !.spawned = @ \union s.futures, !.futures = {}],
           exec' = [exec EXCEPT !.phase = "poll", !.cur = NoId],
           UNCHANGED <<saved, lost>>
    PROVE  IInv'
<1>1. s \in CanisterState /\ exec \in Execution
    BY DEF IInv, TypeOK
<1>2. /\ s'.next = s.next
      /\ s'.resolve = s.resolve
      /\ s'.reject = s.reject
      /\ s'.futures = {}
      /\ s'.spawned = s.spawned \union s.futures
      /\ s'.stranded = s.stranded
      /\ s'.calls = s.calls
    BY <1>1 DEF CanisterState
<1>3. /\ s'.promise = s.promise
      /\ s'.ctx = s.ctx
      /\ s'.fn = s.fn
      /\ s'.on = s.on
    BY <1>1 DEF CanisterState
<1>4. /\ exec'.phase = "poll"
      /\ exec'.kind = exec.kind
      /\ exec'.method = exec.method
      /\ exec'.id = exec.id
    BY <1>1 DEF Execution
<1>5. TypeOK'
    <2>1. s' \in CanisterState
        <3>1. s.spawned \union s.futures \in SUBSET Ids /\ {} \in SUBSET Ids
            BY <1>1 DEF CanisterState
        <3> QED BY <1>1, <3>1 DEF CanisterState
    <2>2. exec' \in Execution
        BY <1>1 DEF Execution, Phase, NoId
    <2> QED BY <2>1, <2>2 DEF IInv, TypeOK
<1>6. ExecOK'
    <2>1. Quiescent(s)'
        BY <1>3 DEF Quiescent
    <2>2. exec.kind # "none"
        BY DEF IInv, ExecOK
    <2>3. Quiescent(saved)' /\ saved'.spawned = {}
        BY DEF IInv, ExecOK, Quiescent
    <2> QED BY <1>2, <1>4, <2>1, <2>2, <2>3 DEF IInv, ExecOK
<1>7. Accounted(s, {}) /\ PromisesOK(s, {}) /\ ContextsOK(s, exec.method)
    BY DEF IInv, InHand, Unsettled
<1>8. Accounted(s, InHand)'
    BY <1>2, <1>4, <1>7 DEF Accounted, Lost, InHand
<1>9. PromisesOK(s, Unsettled)'
    BY <1>2, <1>3, <1>4, <1>7 DEF PromisesOK, Lost, Unsettled
<1>10. ContextsOK(s, exec.method)'
    BY <1>2, <1>3, <1>4, <1>7 DEF ContextsOK
<1> QED BY <1>5, <1>6, <1>8, <1>4, <1>9, <1>10, SavedKept DEF IInv

LEMMA PerformPreserves ==
    ASSUME IInv, NEW i \in Ids, PerformCall(i)
    PROVE  IInv'
<1> DEFINE m == exec.method
<1>1. s \in CanisterState /\ m \in Methods
    BY DEF IInv, TypeOK, PerformCall, ExecOK, Execution, Kind
<1>2. /\ s'.next = s.next
      /\ s'.resolve = s.resolve
      /\ s'.reject = s.reject
      /\ s'.futures = s.futures
      /\ s'.spawned = s.spawned \ {i}
      /\ s'.stranded = s.stranded
      /\ s'.calls = s.calls \union {i}
    BY <1>1 DEF PerformCall, Step, CanisterState
<1>3. /\ s'.promise = s.promise
      /\ s'.ctx = [s.ctx EXCEPT ![i] = m]
      /\ s'.fn = s.fn
      /\ s'.on = s.on
    BY <1>1 DEF PerformCall, Step, CanisterState
<1>4. UNCHANGED <<saved, exec, lost>> /\ exec.phase = "poll" /\ i \in s.spawned
    BY DEF PerformCall, Step
<1>5. TypeOK'
    <2>1. s' \in CanisterState
        <3>1. s.spawned \ {i} \in SUBSET Ids /\ s.calls \union {i} \in SUBSET Ids
            BY <1>1 DEF CanisterState
        <3>2. [s.ctx EXCEPT ![i] = m] \in [Ids -> Methods \union {NoMethod}]
            BY <1>1 DEF CanisterState
        <3>3. s' = [s EXCEPT !.spawned = s.spawned \ {i}, !.calls = s.calls \union {i},
                            !.ctx = [s.ctx EXCEPT ![i] = m]]
            BY <1>1 DEF PerformCall, Step, CanisterState
        <3> QED BY <1>1, <3>1, <3>2, <3>3 DEF CanisterState
    <2> QED BY <1>4, <2>1 DEF IInv, TypeOK
<1>6. ExecOK'
    BY <1>2, <1>3, <1>4 DEF IInv, ExecOK, Quiescent
<1>7. Accounted(s, {}) /\ PromisesOK(s, {}) /\ ContextsOK(s, m)
    BY <1>4 DEF IInv, InHand, Unsettled
<1>8. Accounted(s, InHand)'
    BY <1>2, <1>4, <1>7 DEF Accounted, Lost, InHand
<1>9. PromisesOK(s, Unsettled)'
    <2>1. s.ctx[i] \in {NoMethod, m}
        BY <1>4, <1>7 DEF ContextsOK
    <2>2. ASSUME NEW k \in Methods, s'.fn[k] = "suspended"
          PROVE  s'.on[k] \in Ids /\ s'.promise[s'.on[k]] = "pending" /\ s'.ctx[s'.on[k]] = k
        BY <1>1, <1>3, <1>7, <2>1, <2>2, MethodsAssumption DEF PromisesOK, CanisterState
    <2>3. \A j \in Ids : s'.promise[j] = "pending" <=>
             j \in s'.futures \union s'.spawned \union s'.calls \union Lost'
        BY <1>2, <1>3, <1>4, <1>7 DEF PromisesOK, Lost
    <2> QED BY <1>4, <2>2, <2>3 DEF PromisesOK, Unsettled
<1>10. ContextsOK(s, exec.method)'
    BY <1>1, <1>2, <1>3, <1>4, <1>7 DEF ContextsOK, CanisterState
<1> QED BY <1>4, <1>5, <1>6, <1>8, <1>9, <1>10, SavedKept DEF IInv

LEMMA PerformFailsPreserves ==
    ASSUME IInv, NEW i \in Ids, PerformCallFails(i)
    PROVE  IInv'
<1> DEFINE m == exec.method
<1>1. s \in CanisterState /\ m \in Methods /\ exec \in Execution
    BY DEF IInv, TypeOK, PerformCallFails, ExecOK, Execution, Kind
<1>2. /\ s'.next = s.next
      /\ s'.resolve = s.resolve
      /\ s'.reject = s.reject
      /\ s'.futures = s.futures
      /\ s'.spawned = s.spawned \ {i}
      /\ s'.stranded = s.stranded
      /\ s'.calls = s.calls
    BY <1>1 DEF PerformCallFails, CanisterState
<1>3. /\ s'.promise = s.promise
      /\ s'.ctx = [s.ctx EXCEPT ![i] = m]
      /\ s'.fn = s.fn
      /\ s'.on = s.on
    BY <1>1 DEF PerformCallFails, CanisterState
<1>4. /\ UNCHANGED <<saved, lost>>
      /\ exec.phase = "poll"
      /\ i \in s.spawned
      /\ exec'.phase = "settle"
      /\ exec'.kind = exec.kind
      /\ exec'.method = m
      /\ exec'.id = exec.id
      /\ exec'.cur = i
      /\ exec'.outcome = "rejected"
    BY <1>1 DEF PerformCallFails, Execution
<1>5. TypeOK'
    <2>1. s' \in CanisterState
        <3>1. s.spawned \ {i} \in SUBSET Ids
            BY <1>1 DEF CanisterState
        <3>2. [s.ctx EXCEPT ![i] = m] \in [Ids -> Methods \union {NoMethod}]
            BY <1>1 DEF CanisterState
        <3>3. s' = [s EXCEPT !.spawned = s.spawned \ {i}, !.ctx = [s.ctx EXCEPT ![i] = m]]
            BY <1>1 DEF PerformCallFails, CanisterState
        <3> QED BY <1>1, <3>1, <3>2, <3>3 DEF CanisterState
    <2>2. exec' \in Execution
        BY <1>1 DEF PerformCallFails, Execution, Phase, PromiseState
    <2> QED BY <1>4, <2>1, <2>2 DEF IInv, TypeOK
<1>6. ExecOK'
    <2>1. Quiescent(s)' /\ Quiescent(saved)' /\ saved'.spawned = {}
        BY <1>3, <1>4 DEF IInv, ExecOK, Quiescent
    <2>2. exec.kind \notin {"none", "init", "cleanup"}
        BY <1>4 DEF IInv, ExecOK
    <2> QED BY <1>1, <1>4, <2>1, <2>2 DEF IInv, ExecOK
<1>7. Accounted(s, {}) /\ PromisesOK(s, {}) /\ ContextsOK(s, m)
    BY <1>4 DEF IInv, InHand, Unsettled
<1>8. Accounted(s, InHand)'
    BY <1>2, <1>4, <1>7 DEF Accounted, Lost, InHand
<1>9. PromisesOK(s, Unsettled)'
    <2>1. s.ctx[i] \in {NoMethod, m}
        BY <1>4, <1>7 DEF ContextsOK
    <2>2. ASSUME NEW k \in Methods, s'.fn[k] = "suspended"
          PROVE  s'.on[k] \in Ids /\ s'.promise[s'.on[k]] = "pending" /\ s'.ctx[s'.on[k]] = k
        BY <1>1, <1>3, <1>7, <2>1, <2>2, MethodsAssumption DEF PromisesOK, CanisterState
    <2>3. \A j \in Ids : s'.promise[j] = "pending" <=>
             j \in s'.futures \union s'.spawned \union s'.calls \union Lost' \union {i}
        BY <1>2, <1>3, <1>4, <1>7 DEF PromisesOK, Lost
    <2> QED BY <1>4, <2>2, <2>3 DEF PromisesOK, Unsettled
<1>10. ContextsOK(s, exec.method)'
    <2>1. i \notin s.calls
        BY <1>4, <1>7 DEF Accounted
    <2> QED BY <1>1, <1>2, <1>3, <1>4, <1>7, <2>1 DEF ContextsOK, CanisterState
<1> QED BY <1>5, <1>6, <1>8, <1>4, <1>9, <1>10, SavedKept DEF IInv

LEMMA SettlePromiseFields ==
    ASSUME NEW h \in CanisterState, NEW i \in Ids, NEW o \in PromiseState
    PROVE  LET g == SettlePromise(h, i, o) IN
           /\ g \in CanisterState
           /\ g.next = h.next
           /\ g.resolve = h.resolve
           /\ g.reject = h.reject
           /\ g.futures = h.futures
           /\ g.spawned = h.spawned
           /\ g.stranded = h.stranded
           /\ g.calls = h.calls
           /\ g.ctx = h.ctx
           /\ g.on = h.on
           /\ h.promise[i] = "pending" =>
                /\ g.promise = [h.promise EXCEPT ![i] = o]
                /\ \A m \in Methods : g.fn[m] = IF h.fn[m] = "suspended" /\ h.on[m] = i
                                                THEN "ready" ELSE h.fn[m]
           /\ h.promise[i] # "pending" => g = h
<1>1. CASE h.promise[i] # "pending"
    BY <1>1 DEF SettlePromise
<1>2. CASE h.promise[i] = "pending"
    <2> DEFINE p == [h.promise EXCEPT ![i] = o]
               f == [m \in Methods |-> IF h.fn[m] = "suspended" /\ h.on[m] = i
                                       THEN "ready" ELSE h.fn[m]]
    <2>1. SettlePromise(h, i, o) = [h EXCEPT !.promise = p, !.fn = f]
        BY <1>2 DEF SettlePromise, CanisterState
    <2>2. p \in [Ids -> PromiseState]
        BY DEF CanisterState
    <2>3. f \in [Methods -> FnState]
        BY DEF CanisterState, FnState
    <2>4. \A m \in Methods : f[m] = IF h.fn[m] = "suspended" /\ h.on[m] = i
                                    THEN "ready" ELSE h.fn[m]
        OBVIOUS
    <2> HIDE DEF p, f
    <2>5. [h EXCEPT !.promise = p, !.fn = f] \in CanisterState
        BY <2>2, <2>3 DEF CanisterState
    <2>6. /\ [h EXCEPT !.promise = p, !.fn = f].promise = p
          /\ [h EXCEPT !.promise = p, !.fn = f].fn = f
        BY DEF CanisterState
    <2> USE DEF p
    <2> QED BY <1>2, <2>1, <2>4, <2>5, <2>6 DEF CanisterState
<1> QED BY <1>1, <1>2

LEMMA DeleteCallbacksFields ==
    ASSUME NEW h \in CanisterState, NEW i \in Ids
    PROVE  LET g == DeleteCallbacks(h, i) IN
           /\ g \in CanisterState
           /\ g.next = h.next
           /\ g.resolve = h.resolve \ {i}
           /\ g.reject = h.reject \ {i}
           /\ g.futures = h.futures
           /\ g.spawned = h.spawned
           /\ g.stranded = h.stranded
           /\ g.calls = h.calls
           /\ g.ctx = h.ctx
           /\ g.on = h.on
           /\ g.fn = h.fn
           /\ g.promise = h.promise
<1>1. h.resolve \ {i} \in SUBSET Ids /\ h.reject \ {i} \in SUBSET Ids
    BY DEF CanisterState
<1>2. DeleteCallbacks(h, i) = [h EXCEPT !.resolve = h.resolve \ {i}, !.reject = h.reject \ {i}]
    BY DEF DeleteCallbacks, CanisterState
<1> QED BY <1>1, <1>2 DEF CanisterState

\* What settling a promise leaves alone.
LEMMA SettlePromiseKeeps ==
    ASSUME NEW h \in CanisterState, NEW i \in Ids, NEW o \in PromiseState,
           NEW g, g = SettlePromise(h, i, o)
    PROVE  /\ g \in CanisterState
           /\ g.next = h.next
           /\ g.resolve = h.resolve
           /\ g.reject = h.reject
           /\ g.futures = h.futures
           /\ g.spawned = h.spawned
           /\ g.stranded = h.stranded
           /\ g.calls = h.calls
           /\ g.ctx = h.ctx
<1>1. g \in CanisterState
    BY SettlePromiseFields, Zenon
<1>2. CASE h.promise[i] # "pending"
    BY <1>2 DEF SettlePromise
<1>3. CASE h.promise[i] = "pending"
    <2> DEFINE f == [m \in Methods |-> IF h.fn[m] = "suspended" /\ h.on[m] = i
                                       THEN "ready" ELSE h.fn[m]]
    <2>1. g = [h EXCEPT !.promise[i] = o, !.fn = f]
        BY <1>3 DEF SettlePromise
    <2> HIDE DEF f
    <2> QED BY <1>1, <2>1 DEF CanisterState
<1> QED BY <1>2, <1>3

\* Settling a promise that is pending in transit leaves the others as they are.
LEMMA SettlePromises ==
    ASSUME NEW h \in CanisterState, NEW i \in Ids, NEW o \in PromiseState \ {"pending"},
           PromisesOK(h, {i}), h.promise[i] = "pending",
           i \notin h.futures \union h.spawned \union h.calls \union Lost
    PROVE  PromisesOK(SettlePromise(h, i, o), {})
<1> DEFINE g == SettlePromise(h, i, o)
<1>1. /\ g.futures = h.futures
      /\ g.spawned = h.spawned
      /\ g.calls = h.calls
      /\ g.ctx = h.ctx
      /\ g.on = h.on
      /\ g.promise = [h.promise EXCEPT ![i] = o]
      /\ \A m \in Methods : g.fn[m] = IF h.fn[m] = "suspended" /\ h.on[m] = i
                                      THEN "ready" ELSE h.fn[m]
    BY SettlePromiseFields
<1>2. h.promise \in [Ids -> PromiseState]
    BY DEF CanisterState
<1> HIDE DEF g
<1>3. ASSUME NEW j \in Ids
      PROVE  g.promise[j] = "pending" <=>
               j \in g.futures \union g.spawned \union g.calls \union Lost \union {}
    BY <1>1, <1>2 DEF PromisesOK
<1>4. ASSUME NEW k \in Methods, g.fn[k] = "suspended"
      PROVE  g.on[k] \in Ids /\ g.promise[g.on[k]] = "pending" /\ g.ctx[g.on[k]] = k
    BY <1>1, <1>2, <1>4 DEF PromisesOK
<1> QED BY <1>3, <1>4 DEF PromisesOK, g

LEMMA SettlePreserves ==
    ASSUME IInv, Settle, exec.cur \in SettleTable(exec.outcome)
    PROVE  IInv'
<1> DEFINE i == exec.cur
<1>1. /\ s \in CanisterState
      /\ exec \in Execution
      /\ i \in Ids
      /\ exec.outcome \in PromiseState \ {"pending"}
    BY DEF IInv, TypeOK, Settle, ExecOK, PromiseState
<1>2. s' = SettlePromise(s, i, exec.outcome)
    BY DEF Settle
<1>3. /\ UNCHANGED <<saved, lost>>
      /\ exec.phase = "settle"
      /\ exec'.phase = "guard"
      /\ exec'.kind = exec.kind
      /\ exec'.method = exec.method
      /\ exec'.id = exec.id
      /\ exec'.cur = i
      /\ exec'.outcome = exec.outcome
    BY <1>1 DEF Settle, Execution
<1>4. Accounted(s, {i}) /\ PromisesOK(s, {i}) /\ ContextsOK(s, exec.method)
    BY <1>3 DEF IInv, InHand, Unsettled
<1>5. s.promise[i] = "pending" /\ i \notin s.futures \union s.spawned \union s.calls \union Lost
    BY <1>1, <1>4 DEF PromisesOK, Accounted
<1>6. /\ s' \in CanisterState
      /\ s'.next = s.next
      /\ s'.resolve = s.resolve
      /\ s'.reject = s.reject
      /\ s'.futures = s.futures
      /\ s'.spawned = s.spawned
      /\ s'.stranded = s.stranded
      /\ s'.calls = s.calls
      /\ s'.ctx = s.ctx
    <2> DEFINE o == exec.outcome
    <2>1. o \in PromiseState /\ s' = SettlePromise(s, i, o)
        BY <1>1, <1>2
    <2>2. s \in CanisterState /\ i \in Ids
        BY <1>1
    <2> HIDE DEF o, i
    <2> QED BY <2>1, <2>2, SettlePromiseKeeps
<1>7. TypeOK'
    <2>1. exec' \in Execution
        BY <1>1 DEF Settle, Execution, Phase
    <2> QED BY <1>3, <1>6, <2>1 DEF IInv, TypeOK
<1>8. exec.kind \notin {"none", "init", "cleanup"}
    BY <1>3 DEF IInv, ExecOK
<1>9. ExecOK'
    <2>1. Quiescent(saved)' /\ saved'.spawned = {}
        BY <1>3 DEF IInv, ExecOK, Quiescent
    <2> QED BY <1>1, <1>3, <1>8, <2>1 DEF IInv, ExecOK
<1>10. Accounted(s, InHand)'
    BY <1>3, <1>4, <1>6 DEF Accounted, Lost, InHand
<1>11. PromisesOK(s, Unsettled)'
    <2>1. PromisesOK(s', {})
        BY <1>1, <1>2, <1>4, <1>5, SettlePromises
    <2>2. Lost' = Lost /\ Unsettled' = {}
        BY <1>3, <1>8 DEF Lost, Unsettled
    <2> QED BY <2>1, <2>2 DEF PromisesOK
<1>12. ContextsOK(s, exec.method)'
    BY <1>3, <1>4, <1>6 DEF ContextsOK
<1> QED BY <1>3, <1>7, <1>9, <1>10, <1>11, <1>12, SavedKept DEF IInv

LEMMA CleanupScopeguardPreserves ==
    ASSUME IInv, CleanupScopeguard, ~(exec.kind = "cleanup" /\ exec.cur \notin s.reject)
    PROVE  IInv'
<1> DEFINE i == exec.cur
           g == IF exec.kind = "cleanup" THEN SettlePromise(s, i, "cleanup") ELSE s
<1>1. s \in CanisterState /\ exec \in Execution /\ i \in Ids
    BY DEF IInv, TypeOK, CleanupScopeguard, ExecOK
<1>2. s' = DeleteCallbacks(g, i)
    BY DEF CleanupScopeguard
<1>3. /\ UNCHANGED <<saved, lost>>
      /\ exec.phase = "guard"
      /\ exec'.phase = "js"
      /\ exec'.kind = exec.kind
      /\ exec'.method = exec.method
      /\ exec'.id = exec.id
      /\ exec'.cur = i
      /\ exec'.outcome = exec.outcome
    BY <1>1 DEF CleanupScopeguard, Execution
<1>4. Accounted(s, {i}) /\ ContextsOK(s, exec.method)
    BY <1>3 DEF IInv, InHand
<1>5. i \notin s.futures \union s.spawned \union s.calls \union Lost \union s.stranded
    BY <1>4 DEF Accounted
<1>6. /\ g \in CanisterState
      /\ g.next = s.next
      /\ g.resolve = s.resolve
      /\ g.reject = s.reject
      /\ g.futures = s.futures
      /\ g.spawned = s.spawned
      /\ g.stranded = s.stranded
      /\ g.calls = s.calls
      /\ g.ctx = s.ctx
    <2>1. CASE exec.kind = "cleanup"
        <3>1. g = SettlePromise(s, i, "cleanup") /\ "cleanup" \in PromiseState
            BY <2>1 DEF PromiseState
        <3>2. s \in CanisterState /\ i \in Ids
            BY <1>1
        <3> HIDE DEF g, i
        <3> QED BY <3>1, <3>2, SettlePromiseKeeps
    <2>2. CASE exec.kind # "cleanup"
        BY <1>1, <2>2
    <2> QED BY <2>1, <2>2
<1>7. PromisesOK(g, {})
    <2>1. CASE exec.kind = "cleanup"
        <3>1. PromisesOK(s, {i})
            BY <1>3, <2>1 DEF IInv, Unsettled
        <3>2. s.promise[i] = "pending"
            BY <1>1, <3>1 DEF PromisesOK
        <3> QED BY <1>1, <1>5, <2>1, <3>1, <3>2, SettlePromises DEF PromiseState
    <2>2. CASE exec.kind # "cleanup"
        BY <1>3, <2>2 DEF IInv, Unsettled
    <2> QED BY <2>1, <2>2
<1> HIDE DEF g
<1>8. /\ s' \in CanisterState
      /\ s'.next = s.next
      /\ s'.resolve = s.resolve \ {i}
      /\ s'.reject = s.reject \ {i}
      /\ s'.futures = s.futures
      /\ s'.spawned = s.spawned
      /\ s'.stranded = s.stranded
      /\ s'.calls = s.calls
      /\ s'.ctx = s.ctx
      /\ s'.on = g.on
      /\ s'.fn = g.fn
      /\ s'.promise = g.promise
    BY <1>1, <1>2, <1>6, DeleteCallbacksFields
<1>9. TypeOK'
    <2>1. exec' \in Execution
        BY <1>1 DEF CleanupScopeguard, Execution, Phase
    <2> QED BY <1>3, <1>8, <2>1 DEF IInv, TypeOK
<1>10. exec.kind \notin {"none", "init"}
    BY <1>3 DEF IInv, ExecOK
<1>11. ExecOK'
    <2>1. Quiescent(saved)' /\ saved'.spawned = {}
        BY <1>3 DEF IInv, ExecOK, Quiescent
    <2>2. exec.kind = "cleanup" => s'.spawned = {}
        BY <1>8 DEF IInv, ExecOK
    <2> QED BY <1>3, <1>10, <2>1, <2>2 DEF IInv, ExecOK
<1>12. Accounted(s, InHand)'
    <2>1. Lost' = Lost /\ InHand' = {}
        BY <1>3 DEF Lost, InHand
    <2> QED BY <1>4, <1>5, <1>8, <2>1 DEF Accounted
<1>13. PromisesOK(s, Unsettled)'
    <2>1. Lost' = Lost /\ Unsettled' = {}
        BY <1>3 DEF Lost, Unsettled
    <2> QED BY <1>6, <1>7, <1>8, <2>1 DEF PromisesOK
<1>14. ContextsOK(s, exec.method)'
    BY <1>3, <1>4, <1>8 DEF ContextsOK
<1> QED BY <1>3, <1>9, <1>11, <1>12, <1>13, <1>14, SavedKept DEF IInv

-----------------------------------------------------------------------------
(* Messages begin and end. *)

\* After a commit there is one state to speak of.
LEMMA AtRest ==
    ASSUME TypeOK', exec' = Rest, saved' = s', Quiescent(s)', s'.spawned = {},
           Accounted(s, {})', PromisesOK(s, {})', ContextsOK(s, NoMethod)'
    PROVE  IInv'
<1>1. /\ exec'.phase = "rest"
      /\ exec'.kind = "none"
      /\ exec'.method = NoMethod
    BY DEF Rest
<1>2. InHand' = {} /\ Answered' = {} /\ Unsettled' = {}
    BY <1>1 DEF InHand, Answered, Unsettled
<1>3. ExecOK'
    BY <1>1 DEF ExecOK, Quiescent
<1>4. Accounted(s, InHand)' /\ Accounted(saved, Answered)'
    BY <1>2 DEF Accounted
<1>5. PromisesOK(s, Unsettled)' /\ PromisesOK(saved, Answered)'
    BY <1>2 DEF PromisesOK
<1>6. ContextsOK(s, exec.method)' /\ ContextsOK(saved, NoMethod)'
    BY <1>1 DEF ContextsOK
<1> QED BY <1>3, <1>4, <1>5, <1>6 DEF IInv

\* Closing call contexts changes nothing but their status.
LEMMA CloseContextsFields ==
    ASSUME NEW h \in CanisterState, NEW g, g = CloseContexts(h)
    PROVE  /\ g \in CanisterState
           /\ g.next = h.next
           /\ g.resolve = h.resolve
           /\ g.reject = h.reject
           /\ g.futures = h.futures
           /\ g.spawned = h.spawned
           /\ g.stranded = h.stranded
           /\ g.calls = h.calls
           /\ g.promise = h.promise
           /\ g.ctx = h.ctx
           /\ g.fn = h.fn
           /\ g.on = h.on
<1> DEFINE st == [m \in Methods |->
                    IF h.status[m] = "open" /\ \A i \in h.calls : h.ctx[i] # m
                    THEN "rejected" ELSE h.status[m]]
<1>1. st \in [Methods -> Status]
    BY DEF CanisterState, Status
<1>2. g = [h EXCEPT !.status = st]
    BY DEF CloseContexts
<1> HIDE DEF st
<1> QED BY <1>1, <1>2 DEF CanisterState

LEMMA InitializeContextPreserves ==
    ASSUME IInv, InitializeContext
    PROVE  IInv'
<1>1. TypeOK'
    BY DEF IInv, TypeOK, InitializeContext, Rest, Execution, Kind, Phase, PromiseState
<1>2. exec' = Rest /\ saved' = s' /\ s' = s /\ lost' = lost /\ exec.kind = "init"
    BY DEF InitializeContext
<1>3. exec.method = NoMethod /\ exec.phase = "js" /\ s.spawned = {} /\ Quiescent(s)
    BY <1>2 DEF IInv, ExecOK
<1>4. Accounted(s, {}) /\ PromisesOK(s, {}) /\ ContextsOK(s, NoMethod)
    BY <1>3 DEF IInv, InHand, Unsettled
<1>5. Accounted(s, {})' /\ PromisesOK(s, {})' /\ ContextsOK(s, NoMethod)'
    BY <1>2, <1>4 DEF Accounted, PromisesOK, ContextsOK, Lost
<1>6. Quiescent(s)' /\ s'.spawned = {}
    BY <1>2, <1>3 DEF Quiescent
<1> QED BY <1>1, <1>2, <1>5, <1>6, AtRest

LEMMA ExecuteMethodPreserves ==
    ASSUME IInv, NEW m \in Methods, ExecuteMethodJs(m)
    PROVE  IInv'
<1>1. s \in CanisterState
    BY DEF IInv, TypeOK
<1>2. /\ s'.next = s.next
      /\ s'.resolve = s.resolve
      /\ s'.reject = s.reject
      /\ s'.futures = s.futures
      /\ s'.spawned = s.spawned
      /\ s'.stranded = s.stranded
      /\ s'.calls = s.calls
    BY <1>1 DEF ExecuteMethodJs, CanisterState
<1>3. /\ s'.promise = s.promise
      /\ s'.ctx = s.ctx
      /\ s'.fn = [s.fn EXCEPT ![m] = "running"]
      /\ s'.on = s.on
    BY <1>1 DEF ExecuteMethodJs, CanisterState
<1>4. /\ UNCHANGED <<saved, lost>>
      /\ exec.phase = "rest"
      /\ exec'.phase = "js"
      /\ exec'.kind = "method"
      /\ exec'.method = m
    BY DEF ExecuteMethodJs, Rest
<1>5. TypeOK'
    <2>1. s' \in CanisterState
        BY <1>1 DEF ExecuteMethodJs, CanisterState, FnState, Status
    <2>2. exec' \in Execution
        BY DEF ExecuteMethodJs, Rest, Execution, Kind, Phase, PromiseState
    <2> QED BY <1>4, <2>1, <2>2 DEF IInv, TypeOK
<1>6. exec.kind = "none" /\ exec.method = NoMethod
    BY <1>4 DEF IInv, ExecOK
<1>7. Accounted(s, {}) /\ PromisesOK(s, {}) /\ ContextsOK(s, NoMethod)
    BY <1>4, <1>6 DEF IInv, InHand, Unsettled
<1>8. Accounted(saved, {}) /\ PromisesOK(saved, {}) /\ ContextsOK(saved, NoMethod)
    BY <1>6 DEF IInv, Answered
<1>9. ExecOK'
    <2>1. Quiescent(saved)' /\ saved'.spawned = {}
        BY <1>4 DEF IInv, ExecOK, Quiescent
    <2> QED BY <1>4, <2>1 DEF ExecOK
<1>10. InHand' = {} /\ Answered' = {} /\ Unsettled' = {} /\ Lost' = Lost
    BY <1>4 DEF InHand, Answered, Unsettled, Lost
<1>11. Accounted(s, InHand)'
    BY <1>2, <1>7, <1>10 DEF Accounted
<1>12. PromisesOK(s, Unsettled)'
    BY <1>1, <1>2, <1>3, <1>7, <1>10 DEF PromisesOK, CanisterState
<1>13. ContextsOK(s, exec.method)'
    BY <1>2, <1>3, <1>4, <1>7 DEF ContextsOK
<1>14. Accounted(saved, Answered)' /\ PromisesOK(saved, Answered)' /\ ContextsOK(saved, NoMethod)'
    BY <1>4, <1>8, <1>10 DEF Accounted, PromisesOK, ContextsOK
<1> QED BY <1>5, <1>9, <1>11, <1>12, <1>13, <1>14 DEF IInv

LEMMA RespondPreserves ==
    ASSUME IInv, NEW i \in Ids, NEW o \in {"resolved", "rejected"}, Respond(i, o)
    PROVE  IInv'
<1>1. s \in CanisterState
    BY DEF IInv, TypeOK
<1>2. /\ s'.next = s.next
      /\ s'.resolve = s.resolve
      /\ s'.reject = s.reject
      /\ s'.futures = s.futures
      /\ s'.spawned = s.spawned
      /\ s'.stranded = s.stranded
      /\ s'.calls = s.calls \ {i}
    BY <1>1 DEF Respond, CanisterState
<1>3. /\ s'.promise = s.promise
      /\ s'.ctx = s.ctx
      /\ s'.fn = s.fn
      /\ s'.on = s.on
    BY <1>1 DEF Respond, CanisterState
<1>4. /\ saved' = s'
      /\ lost' = lost
      /\ i \in s.calls
      /\ exec.phase = "rest"
      /\ exec'.phase = "settle"
      /\ exec'.kind = "response"
      /\ exec'.method = s.ctx[i]
      /\ exec'.id = i
      /\ exec'.cur = i
      /\ exec'.outcome = o
    BY DEF Respond
<1>5. exec.kind = "none" /\ s = saved
    BY <1>4 DEF IInv, ExecOK
<1>6. Accounted(s, {}) /\ PromisesOK(s, {}) /\ ContextsOK(s, NoMethod) /\ Quiescent(s) /\ s.spawned = {}
    BY <1>5 DEF IInv, Answered, ExecOK
<1>7. s.ctx[i] \in Methods
    BY <1>4, <1>6 DEF ContextsOK
<1>8. TypeOK'
    <2>1. s' \in CanisterState
        BY <1>1 DEF Respond, CanisterState
    <2>2. exec' \in Execution
        BY <1>7 DEF Respond, Execution, Kind, Phase, PromiseState
    <2> QED BY <1>4, <2>1, <2>2 DEF IInv, TypeOK
<1>9. ExecOK'
    <2>1. Quiescent(s)' /\ Quiescent(saved)' /\ s'.spawned = {} /\ saved'.spawned = {}
        BY <1>2, <1>3, <1>4, <1>6 DEF Quiescent
    <2> QED BY <1>4, <1>7, <2>1 DEF ExecOK
<1>10. InHand' = {i} /\ Answered' = {i} /\ Unsettled' = {i} /\ Lost' = Lost
    BY <1>4 DEF InHand, Answered, Unsettled, Lost
<1>11. Accounted(s, InHand)'
    BY <1>2, <1>4, <1>6, <1>10 DEF Accounted
<1>12. PromisesOK(s, Unsettled)'
    <2>1. \A j \in Ids : s'.promise[j] = "pending" <=>
             j \in s'.futures \union s'.spawned \union s'.calls \union Lost' \union {i}
        BY <1>2, <1>3, <1>4, <1>6, <1>10 DEF PromisesOK
    <2> QED BY <1>3, <1>6, <1>10, <2>1 DEF PromisesOK
<1>13. ContextsOK(s, exec.method)' /\ ContextsOK(saved, NoMethod)'
    BY <1>2, <1>3, <1>4, <1>6 DEF ContextsOK
<1>14. Accounted(saved, Answered)' /\ PromisesOK(saved, Answered)'
    BY <1>4, <1>10, <1>11, <1>12 DEF Accounted, PromisesOK
<1> QED BY <1>8, <1>9, <1>11, <1>12, <1>13, <1>14 DEF IInv

LEMMA EndMessagePreserves ==
    ASSUME IInv, EndMessage
    PROVE  IInv'
<1>1. s \in CanisterState /\ s' = CloseContexts(s)
    BY DEF IInv, TypeOK, EndMessage
<1>2. /\ s' \in CanisterState
      /\ s'.next = s.next
      /\ s'.resolve = s.resolve
      /\ s'.reject = s.reject
      /\ s'.futures = s.futures
      /\ s'.spawned = s.spawned
      /\ s'.stranded = s.stranded
      /\ s'.calls = s.calls
      /\ s'.promise = s.promise
      /\ s'.ctx = s.ctx
      /\ s'.fn = s.fn
      /\ s'.on = s.on
    BY <1>1, CloseContextsFields
<1>3. exec' = Rest /\ saved' = s' /\ lost' = lost /\ exec.phase = "poll" /\ s.spawned = {}
    BY DEF EndMessage
<1>4. TypeOK'
    <2>1. exec' \in Execution
        BY <1>3 DEF Rest, Execution, Kind, Phase, PromiseState
    <2> QED BY <1>2, <1>3, <2>1 DEF IInv, TypeOK
<1>5. Accounted(s, {}) /\ PromisesOK(s, {}) /\ ContextsOK(s, exec.method)
    BY <1>3 DEF IInv, InHand, Unsettled
<1>6. Quiescent(s) /\ s.futures = {}
    BY <1>3 DEF IInv, ExecOK
<1>7. Accounted(s, {})'
    BY <1>2, <1>3, <1>5 DEF Accounted, Lost
<1>8. PromisesOK(s, {})'
    BY <1>2, <1>3, <1>5 DEF PromisesOK, Lost
<1>9. ContextsOK(s, NoMethod)'
    BY <1>2, <1>3, <1>5, <1>6 DEF ContextsOK
<1>10. Quiescent(s)' /\ s'.spawned = {}
    BY <1>2, <1>3, <1>6 DEF Quiescent
<1> QED BY <1>3, <1>4, <1>7, <1>8, <1>9, <1>10, AtRest

-----------------------------------------------------------------------------
(* Traps, by the kind of message that traps. *)

LEMMA MethodTrapPreserves ==
    ASSUME IInv, exec.kind = "method", NEW by \in {"developer", "framework"}, Trap(by)
    PROVE  IInv'
<1> DEFINE m == exec.method
<1>1. saved \in CanisterState /\ m \in Methods
    BY DEF IInv, TypeOK, ExecOK
<1>2. /\ s' = [saved EXCEPT !.fn[m] = "trapped", !.status[m] = "rejected"]
      /\ saved' = s'
      /\ exec' = Rest
      /\ lost' = lost
    BY DEF Trap
<1>3. /\ s'.next = saved.next
      /\ s'.resolve = saved.resolve
      /\ s'.reject = saved.reject
      /\ s'.futures = saved.futures
      /\ s'.spawned = saved.spawned
      /\ s'.stranded = saved.stranded
      /\ s'.calls = saved.calls
    BY <1>1, <1>2 DEF CanisterState
<1>4. /\ s'.promise = saved.promise
      /\ s'.ctx = saved.ctx
      /\ s'.fn = [saved.fn EXCEPT ![m] = "trapped"]
      /\ s'.on = saved.on
    BY <1>1, <1>2 DEF CanisterState
<1>5. TypeOK'
    <2>1. s' \in CanisterState
        BY <1>1, <1>2 DEF CanisterState, FnState, Status
    <2>2. exec' \in Execution
        BY <1>2 DEF Rest, Execution, Kind, Phase, PromiseState
    <2> QED BY <1>2, <2>1, <2>2 DEF IInv, TypeOK
<1>6. /\ Accounted(saved, {})
      /\ PromisesOK(saved, {})
      /\ ContextsOK(saved, NoMethod)
      /\ Quiescent(saved)
      /\ saved.spawned = {}
    BY DEF IInv, Answered, ExecOK
<1>7. Accounted(s, {})'
    BY <1>2, <1>3, <1>6 DEF Accounted, Lost
<1>8. PromisesOK(s, {})'
    <2>1. Lost' = Lost
        BY <1>2 DEF Lost
    <2> QED BY <1>1, <1>3, <1>4, <1>6, <2>1 DEF PromisesOK, CanisterState
<1>9. ContextsOK(s, NoMethod)'
    BY <1>3, <1>4, <1>6 DEF ContextsOK
<1>10. Quiescent(s)' /\ s'.spawned = {}
    BY <1>1, <1>3, <1>4, <1>6 DEF Quiescent, CanisterState
<1> QED BY <1>2, <1>5, <1>7, <1>8, <1>9, <1>10, AtRest

\* The call of a response that trapped is in the hands of its cleanup callback.
LEMMA ResponseTrapPreserves ==
    ASSUME IInv, exec.kind = "response", NEW by \in {"developer", "framework"}, Trap(by)
    PROVE  IInv'
<1>1. saved \in CanisterState /\ exec \in Execution /\ exec.id \in Ids /\ exec.method \in Methods
    BY DEF IInv, TypeOK, ExecOK
<1>2. /\ s' = saved
      /\ saved' = saved
      /\ lost' = lost
      /\ exec'.phase = "guard"
      /\ exec'.kind = "cleanup"
      /\ exec'.method = exec.method
      /\ exec'.id = exec.id
      /\ exec'.cur = exec.id
    BY <1>1 DEF Trap, Execution
<1>3. TypeOK'
    <2>1. exec' \in Execution
        BY <1>1 DEF Trap, Execution, Kind, Phase, PromiseState
    <2> QED BY <1>1, <1>2, <2>1 DEF IInv, TypeOK
<1>4. /\ Accounted(saved, {exec.id})
      /\ PromisesOK(saved, {exec.id})
      /\ ContextsOK(saved, NoMethod)
      /\ Quiescent(saved)
      /\ saved.spawned = {}
    BY DEF IInv, Answered, ExecOK
<1>5. ExecOK'
    <2>1. Quiescent(saved)'
        BY <1>2, <1>4 DEF Quiescent
    <2> QED BY <1>1, <1>2, <1>4, <2>1 DEF ExecOK
<1>6. InHand' = {exec.id} /\ Answered' = {exec.id} /\ Unsettled' = {exec.id} /\ Lost' = Lost
    BY <1>2 DEF InHand, Answered, Unsettled, Lost
<1>7. Accounted(s, InHand)' /\ Accounted(saved, Answered)'
    BY <1>2, <1>4, <1>6 DEF Accounted
<1>8. PromisesOK(s, Unsettled)' /\ PromisesOK(saved, Answered)'
    BY <1>2, <1>4, <1>6 DEF PromisesOK
<1>9. ContextsOK(s, exec.method)' /\ ContextsOK(saved, NoMethod)'
    BY <1>2, <1>4 DEF ContextsOK
<1> QED BY <1>3, <1>5, <1>7, <1>8, <1>9 DEF IInv

\* The call of a cleanup callback that traps is lost.
LEMMA CleanupTrapPreserves ==
    ASSUME IInv, exec.kind = "cleanup", NEW by \in {"developer", "framework"}, Trap(by)
    PROVE  IInv'
<1> DEFINE i == exec.id
<1>1. saved \in CanisterState /\ i \in Ids
    BY DEF IInv, TypeOK, ExecOK
<1>2. s' = CloseContexts(saved) /\ saved' = s' /\ exec' = Rest /\ lost' = [lost EXCEPT ![i] = by]
    BY DEF Trap
<1>3. /\ s' \in CanisterState
      /\ s'.next = saved.next
      /\ s'.resolve = saved.resolve
      /\ s'.reject = saved.reject
      /\ s'.futures = saved.futures
      /\ s'.spawned = saved.spawned
      /\ s'.stranded = saved.stranded
      /\ s'.calls = saved.calls
      /\ s'.promise = saved.promise
      /\ s'.ctx = saved.ctx
      /\ s'.fn = saved.fn
      /\ s'.on = saved.on
    BY <1>1, <1>2, CloseContextsFields
<1>4. TypeOK'
    <2>1. exec' \in Execution
        BY <1>2 DEF Rest, Execution, Kind, Phase, PromiseState
    <2>2. lost' \in [Ids -> {"none", "developer", "framework"}]
        BY <1>2 DEF IInv, TypeOK
    <2> QED BY <1>2, <1>3, <2>1, <2>2 DEF TypeOK
<1>5. Lost' = Lost \union {i}
    BY <1>1, <1>2 DEF Lost, IInv, TypeOK
<1>6. /\ Accounted(saved, {i})
      /\ PromisesOK(saved, {i})
      /\ ContextsOK(saved, NoMethod)
      /\ Quiescent(saved)
      /\ saved.spawned = {}
    BY DEF IInv, Answered, ExecOK
<1>7. Accounted(s, {})'
    BY <1>3, <1>5, <1>6 DEF Accounted
<1>8. PromisesOK(s, {})'
    BY <1>3, <1>5, <1>6 DEF PromisesOK
<1>9. ContextsOK(s, NoMethod)'
    BY <1>3, <1>6 DEF ContextsOK
<1>10. Quiescent(s)' /\ s'.spawned = {}
    BY <1>3, <1>6 DEF Quiescent
<1> QED BY <1>2, <1>4, <1>7, <1>8, <1>9, <1>10, AtRest

LEMMA TrapPreserves ==
    ASSUME IInv, exec.kind \in {"method", "response", "cleanup"},
           NEW by \in {"developer", "framework"}, Trap(by)
    PROVE  IInv'
    BY MethodTrapPreserves, ResponseTrapPreserves, CleanupTrapPreserves

-----------------------------------------------------------------------------
(* The invariant holds initially, and every step keeps it. *)

LEMMA InitIInv == Init => IInv
<1> SUFFICES ASSUME Init PROVE IInv
    OBVIOUS
<1>1. s = Initial /\ saved = Initial /\ lost = [i \in Ids |-> "none"]
    BY DEF Init
<1>2. /\ exec.phase = "js"
      /\ exec.kind = "init"
      /\ exec.method = NoMethod
    BY DEF Init, Rest
<1>3. TypeOK
    <2>1. Initial \in CanisterState
        BY DEF Initial, CanisterState, PromiseState, FnState, Status, NoId
    <2>2. exec \in Execution
        BY DEF Init, Rest, Execution, Kind, Phase, PromiseState
    <2> QED BY <1>1, <2>1, <2>2 DEF TypeOK
<1>4. Lost = {}
    BY <1>1 DEF Lost
<1>5. InHand = {} /\ Answered = {} /\ Unsettled = {}
    BY <1>2 DEF InHand, Answered, Unsettled
<1>6. Quiescent(Initial)
    BY DEF Quiescent, Initial
<1>7. Accounted(Initial, {}) /\ PromisesOK(Initial, {}) /\ ContextsOK(Initial, NoMethod)
    BY <1>4 DEF Accounted, PromisesOK, ContextsOK, Initial
<1>8. ExecOK
    BY <1>1, <1>2, <1>6 DEF ExecOK, Initial
<1> QED BY <1>1, <1>2, <1>3, <1>5, <1>7, <1>8 DEF IInv

LEMMA DeveloperStepPreserves ==
    ASSUME IInv, DeveloperStep
    PROVE  IInv'
<1>1. CASE Running
    <2> DEFINE m == exec.method
    <2>1. /\ m \in Methods
          /\ s \in CanisterState
          /\ exec.phase = "js"
          /\ exec.kind \in {"method", "response", "cleanup"}
        BY <1>1 DEF IInv, TypeOK, ExecOK, Running
    <2>2. s.status[m] \in Status
        BY <2>1 DEF CanisterState
    <2>3. ASSUME NEW f \in FnState, f # "suspended", Step([s EXCEPT !.fn[m] = f])
          PROVE  IInv'
        <3>1. s' = [s EXCEPT !.fn[m] = f, !.status[m] = s.status[m]]
            BY <2>1, <2>3 DEF Step, CanisterState
        <3>2. m \in Methods /\ exec.phase = "js" /\ exec.kind # "init" /\ UNCHANGED <<saved, exec, lost>>
            BY <2>1, <2>3 DEF Step
        <3> HIDE DEF m
        <3> QED BY <2>2, <2>3, <3>1, <3>2, FunctionMoves
    <2>4. CASE CallRaw
        BY <2>1, <2>4, CallPreserves DEF CallRaw
    <2>5. CASE CallRawThrows
        BY <2>5, CallThrowsPreserves
    <2>6. CASE \E i \in Ids : Await(i)
        BY <2>6, AwaitPreserves
    <2>7. CASE Return
        BY <2>3, <2>7 DEF Return, FnState
    <2>8. CASE ManualReply
        <3>1. CASE Step([s EXCEPT !.status[m] = "replied"])
            <4>1. s' = [s EXCEPT !.fn[m] = "running", !.status[m] = "replied"]
                BY <1>1, <2>1, <3>1 DEF Step, CanisterState, Running
            <4> QED BY <2>1, <3>1, <4>1, FunctionMoves DEF Step, FnState, Status
        <3>2. CASE Trap("developer")
            BY <2>1, <3>2, TrapPreserves
        <3> QED BY <2>8, <3>1, <3>2 DEF ManualReply
    <2>9. CASE HandleUncaughtError
        BY <2>1, <2>9, TrapPreserves DEF HandleUncaughtError
    <2>10. CASE HandleCleanupCallbackError
        BY <2>3, <2>10 DEF HandleCleanupCallbackError, FnState
    <2>11. CASE HandleNullishError
        BY <2>3, <2>11 DEF HandleNullishError, FnState
    <2> QED BY <2>4, <2>5, <2>6, <2>7, <2>8, <2>9, <2>10, <2>11 DEF DeveloperStep
<1> QED BY <1>1 DEF DeveloperStep, CallRaw, CallRawThrows, Await, Return, ManualReply,
            HandleUncaughtError, HandleCleanupCallbackError, HandleNullishError

LEMMA FrameworkStepPreserves ==
    ASSUME IInv, FrameworkStep
    PROVE  IInv'
<1>1. CASE InitializeContext
    BY <1>1, InitializeContextPreserves
<1>2. CASE \E m \in Methods : ResumeFunction(m)
    <2>1. PICK m \in Methods : ResumeFunction(m)
        BY <1>2
    <2>2. exec.phase = "js" /\ s.fn[m] = "ready" /\ UNCHANGED <<saved, exec, lost>>
        BY <2>1 DEF ResumeFunction, Step
    <2>3. exec.kind # "init"
        BY <2>2 DEF IInv, ExecOK, Quiescent
    <2>4. s \in CanisterState /\ s.status[m] \in Status
        BY DEF IInv, TypeOK, CanisterState
    <2>5. s' = [s EXCEPT !.fn[m] = "running", !.status[m] = s.status[m]]
        BY <2>1, <2>4 DEF ResumeFunction, Step, CanisterState
    <2>6. "running" \in FnState
        BY DEF FnState
    <2> QED BY <2>2, <2>3, <2>4, <2>5, <2>6, FunctionMoves
<1>3. CASE EncodeResultAndReply
    <2> DEFINE m == exec.method
    <2>1. exec.phase = "js" /\ exec.kind # "init" /\ s.fn[m] = "returned"
        BY <1>3 DEF EncodeResultAndReply
    <2>2. exec.kind \in {"method", "response", "cleanup"} /\ m \in Methods
        BY <2>1 DEF IInv, ExecOK, TypeOK, Execution, Kind
    <2>3. s \in CanisterState /\ s.status[m] \in Status
        BY <2>2 DEF IInv, TypeOK, CanisterState
    <2>4. ASSUME NEW st \in Status, UNCHANGED <<saved, exec, lost>>,
                 s' = [s EXCEPT !.fn[m] = "finished", !.status[m] = st]
          PROVE  IInv'
        <3>1. "finished" \in FnState
            BY DEF FnState
        <3> HIDE DEF m
        <3> QED BY <2>1, <2>2, <2>4, <3>1, FunctionMoves
    <2>5. CASE Step([s EXCEPT !.fn[m] = "finished"])
        <3>1. s' = [s EXCEPT !.fn[m] = "finished", !.status[m] = s.status[m]]
            BY <2>2, <2>3, <2>5 DEF Step, CanisterState
        <3> QED BY <2>3, <2>4, <2>5, <3>1 DEF Step
    <2>6. CASE Step([s EXCEPT !.fn[m] = "finished", !.status[m] = "replied"])
        BY <2>4, <2>6 DEF Step, Status
    <2>7. CASE Trap("framework")
        BY <2>2, <2>7, TrapPreserves
    <2> QED BY <1>3, <2>5, <2>6, <2>7 DEF EncodeResultAndReply
<1>4. CASE DrainInterCanisterCallFutures
    <2>1. CASE exec.kind = "cleanup" /\ s.futures # {}
        BY <1>4, <2>1, TrapPreserves DEF DrainInterCanisterCallFutures
    <2>2. CASE ~(exec.kind = "cleanup" /\ s.futures # {})
        BY <1>4, <2>2, DrainPreserves DEF DrainInterCanisterCallFutures
    <2> QED BY <2>1, <2>2
<1>5. CASE \E i \in Ids : PerformCall(i) \/ PerformCallFails(i)
    BY <1>5, PerformPreserves, PerformFailsPreserves
<1>6. CASE Settle
    <2>1. CASE exec.cur \in SettleTable(exec.outcome)
        BY <1>6, <2>1, SettlePreserves
    <2>2. CASE exec.cur \notin SettleTable(exec.outcome)
        <3>1. exec.phase = "settle" /\ Trap("framework")
            BY <1>6, <2>2 DEF Settle
        <3>2. exec.kind \in {"method", "response", "cleanup"}
            BY <3>1 DEF IInv, ExecOK, TypeOK, Execution, Kind
        <3> QED BY <3>1, <3>2, TrapPreserves
    <2> QED BY <2>1, <2>2
<1>7. CASE CleanupScopeguard
    <2>1. CASE exec.kind = "cleanup" /\ exec.cur \notin s.reject
        BY <1>7, <2>1, TrapPreserves DEF CleanupScopeguard
    <2>2. CASE ~(exec.kind = "cleanup" /\ exec.cur \notin s.reject)
        BY <1>7, <2>2, CleanupScopeguardPreserves
    <2> QED BY <2>1, <2>2
<1>8. CASE EndMessage
    BY <1>8, EndMessagePreserves
<1> QED BY <1>1, <1>2, <1>3, <1>4, <1>5, <1>6, <1>7, <1>8 DEF FrameworkStep

LEMMA StutterPreserves ==
    ASSUME IInv, UNCHANGED vars
    PROVE  IInv'
<1>1. UNCHANGED <<s, saved, exec, lost>>
    BY DEF vars
<1>2. TypeOK'
    BY <1>1 DEF IInv, TypeOK
<1>3. ExecOK'
    BY <1>1 DEF IInv, ExecOK, Quiescent
<1>4. Accounted(s, InHand)'
    <2>1. Accounted(s, InHand)
        BY DEF IInv
    <2> QED BY <1>1, <2>1 DEF Accounted, InHand, Lost
<1>5. PromisesOK(s, Unsettled)'
    <2>1. PromisesOK(s, Unsettled)
        BY DEF IInv
    <2> QED BY <1>1, <2>1 DEF PromisesOK, Unsettled, Lost
<1>6. ContextsOK(s, exec.method)'
    BY <1>1 DEF IInv, ContextsOK
<1> QED BY <1>1, <1>2, <1>3, <1>4, <1>5, <1>6, SavedKept DEF IInv

LEMMA NextIInv == IInv /\ [Next]_vars => IInv'
<1> SUFFICES ASSUME IInv, [Next]_vars PROVE IInv'
    OBVIOUS
<1>1. CASE ModuleCall
    <2>1. exec.phase = "js" /\ exec.method = NoMethod
        BY <1>1 DEF IInv, ExecOK, ModuleCall
    <2> QED BY <1>1, <2>1, CallPreserves DEF ModuleCall
<1>2. CASE \E m \in Methods : ExecuteMethodJs(m)
    BY <1>2, ExecuteMethodPreserves
<1>3. CASE \E i \in Ids, outcome \in {"resolved", "rejected"} : Respond(i, outcome)
    BY <1>3, RespondPreserves
<1>4. CASE DeveloperStep
    BY <1>4, DeveloperStepPreserves
<1>5. CASE FrameworkStep
    BY <1>5, FrameworkStepPreserves
<1>6. CASE TrapAnywhere
    BY <1>6, TrapPreserves DEF TrapAnywhere
<1>7. CASE Done
    BY <1>7, StutterPreserves DEF Done
<1>8. CASE UNCHANGED vars
    BY <1>8, StutterPreserves
<1> QED BY <1>1, <1>2, <1>3, <1>4, <1>5, <1>6, <1>7, <1>8 DEF Next

LEMMA SpecIInv == Spec => []IInv
    BY InitIInv, NextIInv, PTL DEF Spec

-----------------------------------------------------------------------------
(* What the invariant says between messages. *)

\* No step of developer code, of the framework or of the IC takes the canister
\* out of its type: no id is drawn twice, no table holds anything but ids.
THEOREM TypeCorrect == Spec => []TypeOK
<1>1. IInv => TypeOK
    BY DEF IInv
<1> QED BY <1>1, SpecIInv, PTL

\* The scopeguard and settle_promise keep the callback tables exact: between
\* messages an entry is in both tables for one of the four stated reasons.
THEOREM TablesExact == Spec => []CallbackTablesExact
<1>1. IInv => CallbackTablesExact
    <2> SUFFICES ASSUME IInv, exec.phase = "rest"
                 PROVE  /\ s.resolve = s.calls \union s.futures \union Lost \union s.stranded
                        /\ s.reject = s.resolve
        BY DEF CallbackTablesExact
    <2>1. exec.kind = "none" /\ s = saved /\ s.spawned = {}
        BY DEF IInv, ExecOK
    <2>2. Accounted(s, {})
        BY DEF IInv, InHand
    <2> QED BY <2>1, <2>2 DEF Accounted
<1> QED BY <1>1, SpecIInv, PTL

\* A function suspended on a promise is never forgotten: its call is outstanding
\* or its cleanup callback trapped, whatever else the canister did.
THEOREM NoWakeupLost == Spec => []NoLostWakeup
<1>1. IInv => NoLostWakeup
    <2> SUFFICES ASSUME IInv, exec.phase = "rest", NEW m \in Methods, s.fn[m] = "suspended"
                 PROVE  s.on[m] \in s.calls \union Lost
        BY DEF NoLostWakeup
    <2>1. exec.kind = "none" /\ s = saved /\ saved.spawned = {}
        BY DEF IInv, ExecOK
    <2>2. PromisesOK(s, {}) /\ ContextsOK(s, NoMethod)
        BY <2>1 DEF IInv, Unsettled
    <2>3. s.on[m] \in Ids /\ s.promise[s.on[m]] = "pending" /\ s.ctx[s.on[m]] = m
        BY <2>2 DEF PromisesOK
    <2>4. s.on[m] \in s.futures \union s.spawned \union s.calls \union Lost
        BY <2>2, <2>3 DEF PromisesOK
    <2>5. s.on[m] \notin s.futures
        BY <2>2, <2>3, MethodsAssumption DEF ContextsOK
    <2> QED BY <2>1, <2>4, <2>5
<1> QED BY <1>1, SpecIInv, PTL

\* Each message drains the job queue and hands over every future it queued; what
\* is left in the queue between messages comes from module evaluation.
THEOREM Drained == Spec => []DrainedAtRest
<1>1. IInv => DrainedAtRest
    <2> SUFFICES ASSUME IInv, exec.phase = "rest"
                 PROVE  Quiescent(s) /\ s.spawned = {} /\ \A i \in s.futures : s.ctx[i] = NoMethod
        BY DEF DrainedAtRest
    <2>1. exec.method = NoMethod /\ s = saved /\ saved.spawned = {} /\ Quiescent(saved)
        BY DEF IInv, ExecOK
    <2>2. ContextsOK(s, NoMethod)
        BY <2>1 DEF IInv
    <2> QED BY <2>1, <2>2 DEF ContextsOK
<1> QED BY <1>1, SpecIInv, PTL
=============================================================================
