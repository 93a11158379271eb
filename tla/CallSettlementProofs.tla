------------------------- MODULE CallSettlementProofs -------------------------
(* Proofs about InterCanisterCalls, for any methods and any bounds: how a call *)
(* was settled stays so, what is seen at commits implements CallContract, and  *)
(* no caller is rejected without a cause.                                      *)
EXTENDS InterCanisterCallsProofs

-----------------------------------------------------------------------------
(* How the promises of the running message differ from the committed ones *)

\* Ids not drawn yet have no promise.
Unissued(h) == \A i \in Ids : i >= h.next => h.promise[i] = "none"

\* The ids a message may issue or hand over: not drawn, or queued by the module.
Fresh == {i \in Ids : saved.promise[i] = "none"} \union saved.futures

\* A message touches no promises but the ones it issues, which can only fail,
\* and the one its response is for.
PromisesMoved ==
    \A i \in Ids : s.promise[i] # saved.promise[i] =>
        \/ i \in Fresh /\ s.promise[i] \in {"pending", "rejected"}
        \/ i \in Answered /\ s.promise[i] \in {"resolved", "rejected", "cleanup"}

\* The call in hand is the one the message is about, or one that failed at once.
InHandOK ==
    exec.phase \in {"settle", "guard"} =>
        \/ exec.cur \in Answered
        \/ exec.cur \in Fresh /\ (exec.phase = "settle" => exec.outcome = "rejected")

\* While the module is evaluated nothing is committed, and what is issued is queued.
EvaluationOK ==
    exec.kind = "init" =>
        /\ Lost = {}
        /\ \A i \in Ids : saved.promise[i] = "none"
        /\ \A i \in Ids : s.promise[i] # "none" => i \in s.futures

SettlementInv ==
    /\ Unissued(s)
    /\ Unissued(saved)
    /\ s.futures \union s.spawned \subseteq Fresh
    /\ PromisesMoved
    /\ InHandOK
    /\ EvaluationOK

\* The message goes on.
MessageGoesOn ==
    /\ UNCHANGED <<saved, lost>>
    /\ exec'.kind = exec.kind
    /\ exec'.id = exec.id

\* The message goes on without issuing or settling a promise.
LEMMA PromisesKept ==
    ASSUME SettlementInv, MessageGoesOn, InHandOK',
           s'.promise = s.promise, s'.next = s.next,
           s'.futures \union s'.spawned \subseteq s.futures \union s.spawned,
           exec.kind = "init" => s'.futures = s.futures
    PROVE  SettlementInv'
<1>1. Fresh' = Fresh /\ Answered' = Answered /\ Lost' = Lost
    BY DEF MessageGoesOn, Fresh, Answered, Lost
<1>2. Unissued(s)' /\ Unissued(saved)'
    BY DEF SettlementInv, Unissued, MessageGoesOn
<1>3. PromisesMoved'
    BY <1>1 DEF SettlementInv, PromisesMoved, MessageGoesOn
<1>4. EvaluationOK'
    BY <1>1 DEF SettlementInv, EvaluationOK, MessageGoesOn
<1> QED BY <1>1, <1>2, <1>3, <1>4 DEF SettlementInv

\* The message issues a call, queued or refused at once.
LEMMA PromiseIssued ==
    ASSUME IInv, SettlementInv, UNCHANGED <<saved, exec, lost>>, exec.phase = "js",
           NEW state \in {"pending", "rejected"}, s.next \in Ids,
           s'.promise = [s.promise EXCEPT ![s.next] = state], s'.next = s.next + 1,
           s'.futures = IF state = "pending" THEN s.futures \union {s.next} ELSE s.futures,
           s'.spawned = s.spawned, exec.kind = "init" => state = "pending"
    PROVE  SettlementInv'
<1>1. s \in CanisterState /\ saved \in CanisterState
    BY DEF IInv, TypeOK
<1>2. \A i \in Ids : s'.promise[i] = IF i = s.next THEN state ELSE s.promise[i]
    BY <1>1 DEF CanisterState
<1>3. Fresh' = Fresh /\ Answered' = Answered /\ Lost' = Lost
    BY DEF Fresh, Answered, Lost
<1>4. s.promise[s.next] = "none"
    BY <1>1 DEF SettlementInv, Unissued, Ids
<1>5. saved.promise[s.next] = "none"
    <2>1. CASE saved.promise[s.next] = s.promise[s.next]
        BY <1>4, <2>1
    <2>2. CASE saved.promise[s.next] # s.promise[s.next]
        BY <1>4, <2>2 DEF SettlementInv, PromisesMoved
    <2> QED BY <2>1, <2>2
<1>6. s.next \in Fresh
    BY <1>5 DEF Fresh
<1>7. Unissued(s)' /\ Unissued(saved)'
    <2>1. ASSUME NEW i \in Ids, i >= s.next + 1
          PROVE  s'.promise[i] = "none"
        BY <1>1, <1>2, <2>1 DEF SettlementInv, Unissued, Ids, CanisterState
    <2> QED BY <2>1 DEF SettlementInv, Unissued
<1>8. PromisesMoved'
    BY <1>2, <1>3, <1>6 DEF SettlementInv, PromisesMoved
<1>9. InHandOK' /\ (s.futures \union s.spawned \subseteq Fresh)'
    BY <1>3, <1>6 DEF SettlementInv, InHandOK
<1>10. EvaluationOK'
    BY <1>2, <1>3 DEF SettlementInv, EvaluationOK
<1> QED BY <1>7, <1>8, <1>9, <1>10 DEF SettlementInv

\* The call in hand is settled.
LEMMA PromiseSettled ==
    ASSUME IInv, SettlementInv, MessageGoesOn,
           exec.phase \in {"settle", "guard"}, exec'.phase \in {"guard", "js"},
           exec'.cur = exec.cur,
           NEW o \in {"resolved", "rejected", "cleanup"},
           exec.cur \notin Answered => o = "rejected",
           s'.promise = [s.promise EXCEPT ![exec.cur] = o], s'.next = s.next,
           s'.futures = s.futures, s'.spawned = s.spawned
    PROVE  SettlementInv'
<1> DEFINE i == exec.cur
<1>1. s \in CanisterState /\ i \in Ids /\ exec.kind # "init"
    BY DEF IInv, TypeOK, ExecOK
<1>2. \A j \in Ids : s'.promise[j] = IF j = i THEN o ELSE s.promise[j]
    BY <1>1 DEF CanisterState
<1>3. Fresh' = Fresh /\ Answered' = Answered
    BY DEF Fresh, Answered, MessageGoesOn
<1>4. i \in Fresh \/ i \in Answered
    BY DEF SettlementInv, InHandOK
<1>5. i \in s.resolve \union Answered /\ i < s.next
    <2>1. Accounted(s, {i})
        BY DEF IInv, InHand
    <2> QED BY <2>1 DEF Accounted
<1>6. Unissued(s)' /\ Unissued(saved)'
    <2>1. ASSUME NEW j \in Ids, j >= s.next
          PROVE  s'.promise[j] = "none"
        BY <1>1, <1>2, <1>5, <2>1 DEF SettlementInv, Unissued, Ids, CanisterState
    <2> QED BY <2>1 DEF SettlementInv, Unissued, MessageGoesOn
<1>7. PromisesMoved'
    BY <1>2, <1>3, <1>4 DEF SettlementInv, PromisesMoved, MessageGoesOn
<1>8. InHandOK'
    BY <1>3, <1>4 DEF InHandOK
<1>9. EvaluationOK'
    BY <1>1 DEF EvaluationOK, MessageGoesOn
<1> QED BY <1>3, <1>6, <1>7, <1>8, <1>9 DEF SettlementInv, MessageGoesOn

\* The message and the committed state agree, at rest or as a message starts.
LEMMA SettlementAgrees ==
    ASSUME Unissued(s)', s'.promise = saved'.promise, s'.next = saved'.next,
           s'.futures = saved'.futures, s'.spawned = {}, exec'.kind # "init", InHandOK'
    PROVE  SettlementInv'
<1>1. Unissued(saved)'
    BY DEF Unissued
<1>2. PromisesMoved' /\ EvaluationOK' /\ (s.futures \union s.spawned \subseteq Fresh)'
    BY DEF PromisesMoved, EvaluationOK, Fresh
<1> QED BY <1>1, <1>2 DEF SettlementInv

\* Initially no id is drawn.
LEMMA InitSettlement == Init => SettlementInv
<1> SUFFICES ASSUME Init PROVE SettlementInv
    OBVIOUS
<1>1. s = Initial /\ saved = Initial /\ lost = [i \in Ids |-> "none"] /\ exec.phase = "js"
    BY DEF Init, Rest
<1>2. /\ Initial.promise = [i \in Ids |-> "none"]
      /\ Initial.futures = {}
      /\ Initial.spawned = {}
    BY DEF Initial
<1> QED BY <1>1, <1>2 DEF SettlementInv, Unissued, PromisesMoved, InHandOK, EvaluationOK, Lost

\* A trap gives up what the message did.
LEMMA TrapSettlement ==
    ASSUME IInv, SettlementInv, exec.kind \in {"method", "response", "cleanup"},
           NEW by \in {"developer", "framework"}, Trap(by)
    PROVE  SettlementInv'
<1>1. saved \in CanisterState /\ exec \in Execution /\ saved.spawned = {}
    BY DEF IInv, TypeOK, ExecOK
<1>2. Unissued(saved)
    BY DEF SettlementInv
<1>3. CASE exec.kind = "method"
    <2>1. s' = [saved EXCEPT !.fn[exec.method] = "trapped",
                             !.status[exec.method] = "rejected"]
          /\ saved' = s' /\ exec' = Rest
        BY <1>3 DEF Trap
    <2>2. /\ s'.promise = saved.promise
          /\ s'.next = saved.next
          /\ s'.spawned = saved.spawned
        BY <1>1, <2>1 DEF CanisterState
    <2>3. InHandOK' /\ exec'.kind # "init"
        BY <2>1 DEF InHandOK, Rest
    <2>4. Unissued(s)'
        BY <1>2, <2>2 DEF Unissued
    <2> QED BY <1>1, <2>1, <2>2, <2>3, <2>4, SettlementAgrees
<1>4. CASE exec.kind = "response"
    <2>1. /\ s' = saved /\ saved' = saved
          /\ exec'.kind = "cleanup" /\ exec'.cur = exec.id /\ exec'.id = exec.id
        BY <1>1, <1>4 DEF Trap, Execution
    <2>2. InHandOK'
        BY <2>1 DEF InHandOK, Answered
    <2>3. Unissued(s)'
        BY <1>2, <2>1 DEF Unissued
    <2> QED BY <1>1, <2>1, <2>2, <2>3, SettlementAgrees
<1>5. CASE exec.kind = "cleanup"
    <2>1. s' = CloseContexts(saved) /\ saved' = s' /\ exec' = Rest
        BY <1>5 DEF Trap
    <2>2. s'.promise = saved.promise /\ s'.next = saved.next /\ s'.spawned = {}
        BY <1>1, <2>1, CloseContextsFields
    <2>3. InHandOK' /\ exec'.kind # "init"
        BY <2>1 DEF InHandOK, Rest
    <2>4. Unissued(s)'
        BY <1>2, <2>2 DEF Unissued
    <2> QED BY <2>1, <2>2, <2>3, <2>4, SettlementAgrees
<1> QED BY <1>3, <1>4, <1>5

LEMMA ModuleCallSettlement ==
    ASSUME IInv, SettlementInv, ModuleCall
    PROVE  SettlementInv'
<1>1. s \in CanisterState /\ s.next \in Ids /\ NewPromise(s, NoMethod, "pending") \in CanisterState
    BY NewPromiseType DEF IInv, TypeOK, PromiseState, ModuleCall
<1>2. /\ s'.promise = [s.promise EXCEPT ![s.next] = "pending"]
      /\ s'.next = s.next + 1
      /\ s'.futures = s.futures \union {s.next}
      /\ s'.spawned = s.spawned
    BY <1>1 DEF ModuleCall, Step, NewPromise, CanisterState
<1>3. exec.phase = "js" /\ UNCHANGED <<saved, exec, lost>>
    BY DEF IInv, ExecOK, ModuleCall, Step
<1> QED BY <1>1, <1>2, <1>3, PromiseIssued

LEMMA DeveloperSettlement ==
    ASSUME IInv, SettlementInv, DeveloperStep
    PROVE  SettlementInv'
<1>1. Running
    BY DEF DeveloperStep, CallRaw, CallRawThrows, Await, Return, ManualReply,
           HandleUncaughtError, HandleCleanupCallbackError, HandleNullishError
<1>2. /\ s \in CanisterState
      /\ exec.method \in Methods
      /\ exec.phase = "js"
      /\ exec.kind \in {"method", "response", "cleanup"}
    BY <1>1 DEF IInv, TypeOK, ExecOK, Running
<1>3. ASSUME UNCHANGED <<saved, exec, lost>>, s'.promise = s.promise, s'.next = s.next,
             s'.futures = s.futures, s'.spawned = s.spawned
      PROVE  SettlementInv'
    <2>1. MessageGoesOn /\ InHandOK'
        BY <1>2, <1>3 DEF MessageGoesOn, InHandOK
    <2> QED BY <1>3, <2>1, PromisesKept
<1>4. CASE CallRaw
    <2>1. s.next \in Ids /\ NewPromise(s, exec.method, "pending") \in CanisterState
        BY <1>2, <1>4, NewPromiseType DEF PromiseState, CallRaw
    <2>2. /\ s'.promise = [s.promise EXCEPT ![s.next] = "pending"]
          /\ s'.next = s.next + 1
          /\ s'.futures = s.futures \union {s.next}
          /\ s'.spawned = s.spawned
        BY <1>2, <1>4, <2>1 DEF CallRaw, Step, NewPromise, CanisterState
    <2>3. UNCHANGED <<saved, exec, lost>>
        BY <1>4 DEF CallRaw, Step
    <2> QED BY <1>2, <2>1, <2>2, <2>3, PromiseIssued
<1>5. CASE CallRawThrows
    <2>1. s.next \in Ids /\ NewPromise(s, exec.method, "rejected") \in CanisterState
        BY <1>2, <1>5, NewPromiseType DEF PromiseState, CallRawThrows
    <2>2. /\ s'.promise = [s.promise EXCEPT ![s.next] = "rejected"]
          /\ s'.next = s.next + 1
          /\ s'.futures = s.futures
          /\ s'.spawned = s.spawned
        BY <1>2, <1>5, <2>1 DEF CallRawThrows, Step, NewPromise, CanisterState
    <2>3. UNCHANGED <<saved, exec, lost>>
        BY <1>5 DEF CallRawThrows, Step
    <2> QED BY <1>2, <2>1, <2>2, <2>3, PromiseIssued
<1>6. CASE \E i \in Ids : Await(i)
    BY <1>2, <1>3, <1>6 DEF Await, Step, CanisterState
<1>7. CASE Return \/ HandleCleanupCallbackError \/ HandleNullishError
    BY <1>2, <1>3, <1>7 DEF Return, HandleCleanupCallbackError, HandleNullishError,
                            Step, CanisterState
<1>8. CASE ManualReply
    <2>1. CASE Step([s EXCEPT !.status[exec.method] = "replied"])
        BY <1>2, <1>3, <2>1 DEF Step, CanisterState
    <2>2. CASE Trap("developer")
        BY <1>2, <2>2, TrapSettlement
    <2> QED BY <1>8, <2>1, <2>2 DEF ManualReply
<1>9. CASE HandleUncaughtError
    BY <1>2, <1>9, TrapSettlement DEF HandleUncaughtError
<1> QED BY <1>4, <1>5, <1>6, <1>7, <1>8, <1>9 DEF DeveloperStep

\* What settling a pending promise does to the promises and the queues.
LEMMA PendingSettled ==
    ASSUME NEW h \in CanisterState, NEW i \in Ids, NEW o \in PromiseState,
           NEW g, g = SettlePromise(h, i, o), h.promise[i] = "pending"
    PROVE  /\ g \in CanisterState
           /\ g.promise = [h.promise EXCEPT ![i] = o]
           /\ g.next = h.next
           /\ g.futures = h.futures
           /\ g.spawned = h.spawned
<1> DEFINE f == [m \in Methods |-> IF h.fn[m] = "suspended" /\ h.on[m] = i
                                   THEN "ready" ELSE h.fn[m]]
<1>1. g = [h EXCEPT !.promise[i] = o, !.fn = f]
    BY DEF SettlePromise
<1> HIDE DEF f
<1>2. g \in CanisterState
    BY SettlePromiseKeeps
<1> QED BY <1>1, <1>2 DEF CanisterState

LEMMA PerformSettlement ==
    ASSUME IInv, SettlementInv, NEW i \in Ids, PerformCall(i) \/ PerformCallFails(i)
    PROVE  SettlementInv'
<1>1. s \in CanisterState /\ exec \in Execution /\ i \in s.spawned /\ exec.phase = "poll"
    BY DEF IInv, TypeOK, PerformCall, PerformCallFails
<1>2. /\ s'.promise = s.promise
      /\ s'.next = s.next
      /\ s'.futures = s.futures
      /\ s'.spawned = s.spawned \ {i}
      /\ UNCHANGED <<saved, lost>>
    BY <1>1 DEF PerformCall, PerformCallFails, Step, CanisterState
<1>3. /\ exec'.kind = exec.kind
      /\ exec'.id = exec.id
      /\ \/ exec'.phase = "poll"
         \/ exec'.phase = "settle" /\ exec'.cur = i /\ exec'.outcome = "rejected"
    BY <1>1 DEF PerformCall, PerformCallFails, Step, Execution
<1>4. i \in Fresh /\ Fresh' = Fresh
    BY <1>1, <1>2 DEF SettlementInv, Fresh
<1>5. InHandOK'
    BY <1>3, <1>4 DEF InHandOK
<1> QED BY <1>2, <1>3, <1>5, PromisesKept DEF MessageGoesOn

LEMMA SettleSettlement ==
    ASSUME IInv, SettlementInv, Settle
    PROVE  SettlementInv'
<1> DEFINE i == exec.cur
<1>1. /\ s \in CanisterState
      /\ exec \in Execution
      /\ i \in Ids
      /\ exec.phase = "settle"
      /\ exec.outcome \in {"resolved", "rejected"}
      /\ exec.kind \in {"method", "response", "cleanup"}
    BY DEF IInv, TypeOK, Settle, ExecOK, Execution, Kind
<1>2. CASE i \in SettleTable(exec.outcome)
    <2>1. s' = SettlePromise(s, i, exec.outcome)
        BY <1>2 DEF Settle
    <2>2. s.promise[i] = "pending"
        <3>1. PromisesOK(s, {i})
            BY <1>1 DEF IInv, Unsettled
        <3> QED BY <1>1, <3>1 DEF PromisesOK
    <2>3. /\ s'.promise = [s.promise EXCEPT ![i] = exec.outcome]
          /\ s'.next = s.next
          /\ s'.futures = s.futures
          /\ s'.spawned = s.spawned
        <3> DEFINE o == exec.outcome
        <3>1. o \in PromiseState /\ s' = SettlePromise(s, i, o)
            BY <1>1, <2>1 DEF PromiseState
        <3> HIDE DEF o, i
        <3>2. s'.promise = [s.promise EXCEPT ![i] = o]
            BY <1>1, <2>2, <3>1, PendingSettled
        <3>3. s'.next = s.next /\ s'.futures = s.futures /\ s'.spawned = s.spawned
            BY <1>1, <3>1, SettlePromiseKeeps
        <3> QED BY <3>2, <3>3 DEF o
    <2>4. /\ UNCHANGED <<saved, lost>>
          /\ exec'.phase = "guard"
          /\ exec'.cur = exec.cur
          /\ exec'.kind = exec.kind
          /\ exec'.id = exec.id
        BY <1>1, <1>2 DEF Settle, Execution
    <2>5. i \notin Answered => exec.outcome = "rejected"
        BY <1>1 DEF SettlementInv, InHandOK
    <2> QED BY <1>1, <2>3, <2>4, <2>5, PromiseSettled DEF MessageGoesOn
<1>3. CASE i \notin SettleTable(exec.outcome)
    BY <1>1, <1>3, TrapSettlement DEF Settle
<1> QED BY <1>2, <1>3

LEMMA ScopeguardSettlement ==
    ASSUME IInv, SettlementInv, CleanupScopeguard
    PROVE  SettlementInv'
<1> DEFINE i == exec.cur
           g == SettlePromise(s, i, "cleanup")
<1>1. s \in CanisterState /\ exec \in Execution /\ i \in Ids /\ exec.phase = "guard"
    BY DEF IInv, TypeOK, CleanupScopeguard, ExecOK
<1>2. CASE exec.kind = "cleanup" /\ i \notin s.reject
    BY <1>2, TrapSettlement DEF CleanupScopeguard
<1>3. CASE exec.kind = "cleanup" /\ i \in s.reject
    <2>1. s' = DeleteCallbacks(g, i)
        BY <1>3 DEF CleanupScopeguard
    <2>2. s.promise[i] = "pending"
        <3>1. PromisesOK(s, {i})
            BY <1>1, <1>3 DEF IInv, Unsettled
        <3> QED BY <1>1, <3>1 DEF PromisesOK
    <2>3. /\ g \in CanisterState
          /\ g.promise = [s.promise EXCEPT ![i] = "cleanup"]
          /\ g.next = s.next
          /\ g.futures = s.futures
          /\ g.spawned = s.spawned
        <3>1. "cleanup" \in PromiseState
            BY DEF PromiseState
        <3>2. g = SettlePromise(s, i, "cleanup")
            OBVIOUS
        <3> HIDE DEF g, i
        <3> QED BY <1>1, <2>2, <3>1, <3>2, PendingSettled
    <2> HIDE DEF g
    <2>4. /\ s'.promise = g.promise
          /\ s'.next = g.next
          /\ s'.futures = g.futures
          /\ s'.spawned = g.spawned
        BY <1>1, <2>1, <2>3, DeleteCallbacksFields
    <2>5. /\ MessageGoesOn
          /\ exec'.phase = "js"
          /\ exec'.cur = exec.cur
        BY <1>1, <1>3 DEF CleanupScopeguard, Execution, MessageGoesOn
    <2>6. i \in Answered
        BY <1>1, <1>3 DEF IInv, ExecOK, Answered
    <2> QED BY <1>1, <2>3, <2>4, <2>5, <2>6, PromiseSettled
<1>4. CASE exec.kind # "cleanup"
    <2>1. s' = DeleteCallbacks(s, i)
        BY <1>4 DEF CleanupScopeguard
    <2>2. /\ s'.promise = s.promise
          /\ s'.next = s.next
          /\ s'.futures = s.futures
          /\ s'.spawned = s.spawned
        BY <1>1, <2>1, DeleteCallbacksFields
    <2>3. MessageGoesOn /\ exec'.phase = "js"
        BY <1>1, <1>4 DEF CleanupScopeguard, Execution, MessageGoesOn
    <2>4. InHandOK'
        BY <2>3 DEF InHandOK
    <2> QED BY <2>2, <2>3, <2>4, PromisesKept
<1> QED BY <1>2, <1>3, <1>4

LEMMA FrameworkSettlement ==
    ASSUME IInv, SettlementInv, FrameworkStep
    PROVE  SettlementInv'
<1>1. s \in CanisterState /\ exec \in Execution
    BY DEF IInv, TypeOK
<1>2. CASE InitializeContext
    <2>1. s' = s /\ saved' = s /\ exec' = Rest /\ s.spawned = {}
        BY <1>2 DEF InitializeContext, IInv, ExecOK
    <2>2. InHandOK' /\ exec'.kind # "init" /\ Unissued(s)'
        BY <2>1 DEF InHandOK, Rest, SettlementInv, Unissued
    <2> QED BY <2>1, <2>2, SettlementAgrees
<1>3. CASE \E m \in Methods : ResumeFunction(m)
    <2>1. PICK m \in Methods : ResumeFunction(m)
        BY <1>3
    <2>2. /\ s'.promise = s.promise
          /\ s'.next = s.next
          /\ s'.futures = s.futures
          /\ s'.spawned = s.spawned
          /\ UNCHANGED <<saved, exec, lost>>
          /\ exec.phase = "js"
        BY <1>1, <2>1 DEF ResumeFunction, Step, CanisterState
    <2> QED BY <2>2, PromisesKept DEF MessageGoesOn, InHandOK
<1>4. CASE EncodeResultAndReply
    <2> DEFINE m == exec.method
    <2>1. exec.kind \in {"method", "response", "cleanup"} /\ exec.phase = "js"
        BY <1>1, <1>4 DEF EncodeResultAndReply, Execution, Kind, IInv, ExecOK
    <2>2. CASE \/ Step([s EXCEPT !.fn[m] = "finished"])
               \/ Step([s EXCEPT !.fn[m] = "finished", !.status[m] = "replied"])
        <3>1. /\ s'.promise = s.promise
              /\ s'.next = s.next
              /\ s'.futures = s.futures
              /\ s'.spawned = s.spawned
              /\ UNCHANGED <<saved, exec, lost>>
            BY <1>1, <2>2 DEF Step, CanisterState
        <3> QED BY <2>1, <3>1, PromisesKept DEF MessageGoesOn, InHandOK
    <2>3. CASE Trap("framework")
        BY <2>1, <2>3, TrapSettlement
    <2> QED BY <1>4, <2>2, <2>3 DEF EncodeResultAndReply
<1>5. CASE DrainInterCanisterCallFutures
    <2>1. CASE exec.kind = "cleanup" /\ s.futures # {}
        BY <1>5, <2>1, TrapSettlement DEF DrainInterCanisterCallFutures
    <2>2. CASE ~(exec.kind = "cleanup" /\ s.futures # {})
        <3>1. /\ s' = [s EXCEPT !.spawned = @ \union s.futures, !.futures = {}]
              /\ exec' = [exec EXCEPT !.phase = "poll", !.cur = NoId]
              /\ UNCHANGED <<saved, lost>>
              /\ exec.kind # "init"
            BY <1>5, <2>2 DEF DrainInterCanisterCallFutures
        <3>2. /\ s'.promise = s.promise
              /\ s'.next = s.next
              /\ s'.futures = {}
              /\ s'.spawned = s.spawned \union s.futures
            BY <1>1, <3>1 DEF CanisterState
        <3>3. exec'.kind = exec.kind /\ exec'.id = exec.id /\ exec'.phase = "poll"
            BY <1>1, <3>1 DEF Execution
        <3> QED BY <3>1, <3>2, <3>3, PromisesKept DEF MessageGoesOn, InHandOK
    <2> QED BY <2>1, <2>2
<1>6. CASE \E i \in Ids : PerformCall(i) \/ PerformCallFails(i)
    BY <1>6, PerformSettlement
<1>7. CASE Settle
    BY <1>7, SettleSettlement
<1>8. CASE CleanupScopeguard
    BY <1>8, ScopeguardSettlement
<1>9. CASE EndMessage
    <2>1. s' = CloseContexts(s) /\ saved' = s' /\ exec' = Rest /\ s.spawned = {}
        BY <1>9 DEF EndMessage
    <2>2. s'.promise = s.promise /\ s'.next = s.next /\ s'.spawned = {}
        BY <1>1, <2>1, CloseContextsFields
    <2>3. InHandOK' /\ exec'.kind # "init"
        BY <2>1 DEF InHandOK, Rest
    <2>4. Unissued(s)'
        BY <2>2 DEF SettlementInv, Unissued
    <2> QED BY <2>1, <2>2, <2>3, <2>4, SettlementAgrees
<1> QED BY <1>2, <1>3, <1>4, <1>5, <1>6, <1>7, <1>8, <1>9 DEF FrameworkStep

LEMMA NextSettlement == IInv /\ SettlementInv /\ [Next]_vars => SettlementInv'
<1> SUFFICES ASSUME IInv, SettlementInv, [Next]_vars PROVE SettlementInv'
    OBVIOUS
<1>1. s \in CanisterState /\ exec \in Execution
    BY DEF IInv, TypeOK
<1>2. CASE ModuleCall
    BY <1>2, ModuleCallSettlement
<1>3. CASE \E m \in Methods : ExecuteMethodJs(m)
    <2>1. PICK m \in Methods : ExecuteMethodJs(m)
        BY <1>3
    <2>2. s = saved /\ s.spawned = {}
        BY <2>1 DEF ExecuteMethodJs, IInv, ExecOK
    <2>3. /\ s'.promise = s.promise
          /\ s'.next = s.next
          /\ s'.futures = s.futures
          /\ s'.spawned = s.spawned
          /\ saved' = saved
        BY <1>1, <2>1 DEF ExecuteMethodJs, CanisterState
    <2>4. InHandOK' /\ exec'.kind # "init" /\ Unissued(s)'
        BY <2>1, <2>3 DEF ExecuteMethodJs, Rest, InHandOK, SettlementInv, Unissued
    <2> QED BY <2>2, <2>3, <2>4, SettlementAgrees
<1>4. CASE \E i \in Ids, outcome \in {"resolved", "rejected"} : Respond(i, outcome)
    <2>1. PICK i \in Ids, outcome \in {"resolved", "rejected"} : Respond(i, outcome)
        BY <1>4
    <2>2. s = saved /\ s.spawned = {}
        BY <2>1 DEF Respond, IInv, ExecOK
    <2>3. s'.promise = s.promise /\ s'.next = s.next /\ s'.spawned = s.spawned /\ saved' = s'
        BY <1>1, <2>1 DEF Respond, CanisterState
    <2>4. InHandOK' /\ exec'.kind # "init" /\ Unissued(s)'
        BY <2>1, <2>3 DEF Respond, InHandOK, Answered, SettlementInv, Unissued
    <2> QED BY <2>2, <2>3, <2>4, SettlementAgrees
<1>5. CASE DeveloperStep
    BY <1>5, DeveloperSettlement
<1>6. CASE FrameworkStep
    BY <1>6, FrameworkSettlement
<1>7. CASE TrapAnywhere
    BY <1>7, TrapSettlement DEF TrapAnywhere
<1>8. CASE UNCHANGED vars
    <2>1. MessageGoesOn /\ InHandOK' /\ UNCHANGED s
        BY <1>8 DEF vars, MessageGoesOn, SettlementInv, InHandOK, Answered, Fresh
    <2> QED BY <2>1, PromisesKept
<1> QED BY <1>2, <1>3, <1>4, <1>5, <1>6, <1>7, <1>8 DEF Next, Done

LEMMA SpecSettlement == Spec => [](IInv /\ SettlementInv)
    BY InitIInv, InitSettlement, NextIInv, NextSettlement, PTL DEF Spec

-----------------------------------------------------------------------------
(* What a step does to the committed promises *)

\* Nothing the developer could see.
NothingCommitted ==
    /\ saved'.promise = saved.promise
    /\ saved'.futures = saved.futures
    /\ lost' = lost

\* The cleanup callback of a call trapped.
CallLost ==
    /\ exec.kind = "cleanup"
    /\ saved'.promise = saved.promise
    /\ saved'.futures = saved.futures
    /\ \E by \in {"developer", "framework"} : lost' = [lost EXCEPT ![exec.id] = by]

\* A message, or the evaluation of the module, ends.
MessageCommitted ==
    /\ saved'.promise = s.promise
    /\ saved'.futures = s.futures
    /\ lost' = lost
    /\ exec.kind = "init" \/ s.futures = {}

LEMMA TrapCommits ==
    ASSUME IInv, exec.kind \in {"method", "response", "cleanup"},
           NEW by \in {"developer", "framework"}, Trap(by)
    PROVE  NothingCommitted \/ CallLost
<1>1. saved \in CanisterState
    BY DEF IInv, TypeOK
<1>2. CASE exec.kind = "method"
    <2>1. saved' = [saved EXCEPT !.fn[exec.method] = "trapped",
                                 !.status[exec.method] = "rejected"]
          /\ lost' = lost
        BY <1>2 DEF Trap
    <2> QED BY <1>1, <2>1 DEF NothingCommitted, CanisterState
<1>3. CASE exec.kind = "response"
    BY <1>3 DEF Trap, NothingCommitted
<1>4. CASE exec.kind = "cleanup"
    <2>1. s' = CloseContexts(saved) /\ saved' = s' /\ lost' = [lost EXCEPT ![exec.id] = by]
        BY <1>4 DEF Trap
    <2>2. saved'.promise = saved.promise /\ saved'.futures = saved.futures
        BY <1>1, <2>1, CloseContextsFields
    <2> QED BY <1>4, <2>1, <2>2 DEF CallLost
<1> QED BY <1>2, <1>3, <1>4

LEMMA StepCommits ==
    ASSUME IInv, [Next]_vars
    PROVE  NothingCommitted \/ CallLost \/ MessageCommitted
<1>1. s \in CanisterState
    BY DEF IInv, TypeOK
<1>2. CASE UNCHANGED <<saved, lost>>
    BY <1>2 DEF NothingCommitted
<1>3. CASE /\ exec.kind \in {"method", "response", "cleanup"}
           /\ \E by \in {"developer", "framework"} : Trap(by)
    BY <1>3, TrapCommits
<1>4. CASE \E i \in Ids, outcome \in {"resolved", "rejected"} : Respond(i, outcome)
    <2>1. saved'.promise = s.promise /\ saved'.futures = s.futures /\ lost' = lost
        BY <1>1, <1>4 DEF Respond, CanisterState
    <2>2. s = saved
        BY <1>4 DEF Respond, IInv, ExecOK
    <2> QED BY <2>1, <2>2 DEF NothingCommitted
<1>5. CASE InitializeContext
    BY <1>5 DEF InitializeContext, MessageCommitted
<1>6. CASE EndMessage
    <2>1. s' = CloseContexts(s) /\ saved' = s' /\ lost' = lost /\ s.futures = {}
        BY <1>6 DEF EndMessage, IInv, ExecOK
    <2>2. saved'.promise = s.promise /\ saved'.futures = s.futures
        BY <1>1, <2>1, CloseContextsFields
    <2> QED BY <2>1, <2>2 DEF MessageCommitted
<1>7. CASE ModuleCall \/ (\E m \in Methods : ExecuteMethodJs(m)) \/ Done \/ UNCHANGED vars
    BY <1>2, <1>7 DEF ModuleCall, Step, ExecuteMethodJs, Done, vars
<1>8. CASE TrapAnywhere
    BY <1>3, <1>8 DEF TrapAnywhere
<1>9. CASE DeveloperStep
    BY <1>2, <1>3, <1>9
       DEF DeveloperStep, CallRaw, CallRawThrows, Await, Return, ManualReply, Running, Step,
           HandleUncaughtError, HandleCleanupCallbackError, HandleNullishError
<1>10. ASSUME exec.phase \in {"js", "settle", "guard"}, exec.kind # "init"
       PROVE  exec.kind \in {"method", "response", "cleanup"}
    BY <1>10 DEF IInv, TypeOK, ExecOK, Execution, Kind
<1>11. CASE EncodeResultAndReply \/ DrainInterCanisterCallFutures
    BY <1>2, <1>3, <1>10, <1>11 DEF EncodeResultAndReply, DrainInterCanisterCallFutures, Step
<1>12. CASE Settle \/ CleanupScopeguard
    <2>1. exec.kind # "init"
        BY <1>12 DEF Settle, CleanupScopeguard, IInv, ExecOK
    <2> QED BY <1>2, <1>3, <1>10, <1>12, <2>1 DEF Settle, CleanupScopeguard
<1>13. CASE \/ \E m \in Methods : ResumeFunction(m)
            \/ \E i \in Ids : PerformCall(i) \/ PerformCallFails(i)
    BY <1>2, <1>13 DEF ResumeFunction, PerformCall, PerformCallFails, Step
<1> QED BY <1>4, <1>5, <1>6, <1>7, <1>8, <1>9, <1>11, <1>12, <1>13 DEF Next, FrameworkStep

\* No message, trap or reused id changes how a promise was settled: the scopeguard,
\* the tables and the ids only ever settle what is still pending.
THEOREM SettlementIsFinal == Spec => SettledForever
<1>1. IInv /\ SettlementInv /\ [Next]_vars =>
        [\A i \in Ids : saved.promise[i] \notin {"none", "pending"} =>
            saved'.promise[i] = saved.promise[i]]_vars
    <2> SUFFICES ASSUME IInv, SettlementInv, [Next]_vars,
                        NEW i \in Ids, saved.promise[i] \notin {"none", "pending"}
                 PROVE  saved'.promise[i] = saved.promise[i]
        OBVIOUS
    <2>1. i \notin Fresh /\ i \notin Answered
        <3>1. PromisesOK(saved, Answered)
            BY DEF IInv
        <3> QED BY <3>1 DEF PromisesOK, Fresh
    <2>2. s.promise[i] = saved.promise[i]
        BY <2>1 DEF SettlementInv, PromisesMoved
    <2> QED BY <2>2, StepCommits DEF NothingCommitted, CallLost, MessageCommitted
<1> QED BY <1>1, SpecSettlement, PTL DEF Spec, SettledForever

-----------------------------------------------------------------------------
(* The refinement of CallContract *)

\* What the developer sees of a promise when the canister's state is h.
OutcomeIn(h, i) ==
    IF lost[i] # "none" THEN "lost"
    ELSE IF h.promise[i] = "none" THEN "unissued"
    ELSE IF i \in h.futures THEN "queued"
    ELSE h.promise[i]

\* The refinement mapping of InterCanisterCalls.
Outcome ==
    [id \in Ids |->
        IF lost[id] # "none" THEN "lost"
        ELSE IF saved.promise[id] = "none" THEN "unissued"
        ELSE IF id \in saved.futures THEN "queued"
        ELSE saved.promise[id]]

LEMMA OutcomeValues ==
    /\ \A i \in Ids : Outcome[i] = OutcomeIn(saved, i)
    /\ \A i \in Ids : Outcome'[i] = OutcomeIn(saved, i)'
    BY DEF Outcome, OutcomeIn

\* The evaluation of the module ends.
LEMMA EvaluationImplements ==
    ASSUME IInv, SettlementInv, MessageCommitted, exec.kind = "init"
    PROVE  Contract!ModuleEvaluated
<1>1. s \in CanisterState /\ Lost = {} /\ lost' = lost
    BY DEF IInv, TypeOK, SettlementInv, EvaluationOK, MessageCommitted
<1>2. \A i \in Ids : Outcome[i] = "unissued"
    BY <1>1, OutcomeValues DEF Lost, OutcomeIn, SettlementInv, EvaluationOK
<1>3. ASSUME NEW i \in Ids
      PROVE  Outcome'[i] = IF i \in s.futures THEN "queued" ELSE "unissued"
    <2>1. lost'[i] = "none"
        BY <1>1 DEF Lost
    <2>2. i \in s.futures => s.promise[i] = "pending"
        BY <1>1 DEF IInv, PromisesOK
    <2>3. i \notin s.futures => s.promise[i] = "none"
        BY DEF SettlementInv, EvaluationOK
    <2> QED BY <2>1, <2>2, <2>3, OutcomeValues DEF OutcomeIn, MessageCommitted
<1>4. Outcome' = [i \in Ids |-> IF i \in s.futures THEN "queued" ELSE "unissued"]
    BY <1>3 DEF Outcome
<1>5. s.futures \in SUBSET Ids
    BY <1>1 DEF CanisterState
<1>6. \E queued \in SUBSET Ids :
        Outcome' = [i \in Ids |-> IF i \in queued THEN "queued" ELSE "unissued"]
    BY <1>4, <1>5
<1> QED BY <1>2, <1>6 DEF Contract!ModuleEvaluated, Outcome

\* A message ends: the promise it settled is the one its response is for.
LEMMA MessageImplements ==
    ASSUME IInv, SettlementInv, MessageCommitted, s.futures = {}
    PROVE  Contract!MessageCommits
<1> DEFINE settled == {i \in Answered \intersect Ids : s.promise[i] # saved.promise[i]}
<1>1. s \in CanisterState /\ saved \in CanisterState /\ lost' = lost
    BY DEF IInv, TypeOK, MessageCommitted
<1>2. settled \in SUBSET Ids /\ \A i, j \in settled : i = j
    BY DEF Answered
<1>3. Accounted(saved, Answered) /\ PromisesOK(saved, Answered)
    BY DEF IInv
<1>4. ASSUME NEW i \in Ids
      PROVE  \/ /\ i \in settled
                /\ Outcome[i] = "pending"
                /\ Outcome'[i] \in {"resolved", "rejected", "cleanup"}
             \/ /\ i \notin settled
                /\ Outcome[i] \in {"unissued", "queued"}
                /\ Outcome'[i] \in {"pending", "rejected"}
             \/ i \notin settled /\ Outcome'[i] = Outcome[i]
    <2>1. Outcome[i] = OutcomeIn(saved, i)
        BY OutcomeValues
    <2>2. Outcome'[i] = IF lost[i] # "none" THEN "lost"
                        ELSE IF s.promise[i] = "none" THEN "unissued" ELSE s.promise[i]
        BY <1>1, OutcomeValues DEF OutcomeIn, MessageCommitted
    <2>3. CASE i \in settled
        <3>1. i \in Answered /\ saved.promise[i] = "pending"
            BY <1>3, <2>3 DEF PromisesOK
        <3>2. i \notin saved.futures /\ lost[i] = "none"
            BY <1>3, <3>1 DEF Accounted, Lost
        <3>3. i \notin Fresh
            BY <3>1, <3>2 DEF Fresh
        <3>4. s.promise[i] \in {"resolved", "rejected", "cleanup"}
            BY <2>3, <3>3 DEF SettlementInv, PromisesMoved
        <3> QED BY <2>1, <2>2, <2>3, <3>1, <3>2, <3>4 DEF OutcomeIn
    <2>4. CASE i \notin settled /\ s.promise[i] # saved.promise[i]
        <3>1. i \in Fresh /\ s.promise[i] \in {"pending", "rejected"}
            BY <2>4 DEF SettlementInv, PromisesMoved
        <3> HIDE DEF settled
        <3>2. CASE lost[i] # "none"
            BY <2>1, <2>2, <2>4, <3>2 DEF OutcomeIn
        <3>3. CASE lost[i] = "none"
            BY <2>1, <2>2, <2>4, <3>1, <3>3 DEF OutcomeIn, Fresh
        <3> QED BY <3>2, <3>3
    <2>5. CASE i \notin settled /\ s.promise[i] = saved.promise[i]
        <3>1. i \in saved.futures => saved.promise[i] = "pending"
            BY <1>3 DEF PromisesOK
        <3> HIDE DEF settled
        <3> QED BY <2>1, <2>2, <2>5, <3>1 DEF OutcomeIn
    <2> QED BY <2>3, <2>4, <2>5
<1> HIDE DEF settled
<1>5. \E set \in SUBSET Ids :
        /\ \A i, j \in set : i = j
        /\ \A i \in Ids :
             \/ /\ i \in set
                /\ Outcome[i] = "pending"
                /\ Outcome'[i] \in {"resolved", "rejected", "cleanup"}
             \/ /\ i \notin set
                /\ Outcome[i] \in {"unissued", "queued"}
                /\ Outcome'[i] \in {"pending", "rejected"}
             \/ i \notin set /\ Outcome'[i] = Outcome[i]
    BY <1>2, <1>4
<1> QED BY <1>5 DEF Contract!MessageCommits, Outcome

\* A cleanup callback traps: its promise was pending, and nothing else changes.
LEMMA LossImplements ==
    ASSUME IInv, CallLost
    PROVE  Contract!CleanupTraps
<1> DEFINE i == exec.id
<1>1. i \in Ids /\ lost \in [Ids -> {"none", "developer", "framework"}] /\ Answered = {i}
    BY DEF IInv, TypeOK, ExecOK, CallLost, Answered
<1>2. PICK by \in {"developer", "framework"} : lost' = [lost EXCEPT ![i] = by]
    BY DEF CallLost
<1>3. Accounted(saved, {i}) /\ PromisesOK(saved, {i})
    BY <1>1 DEF IInv
<1>4. saved.promise[i] = "pending" /\ i \notin saved.futures /\ lost[i] = "none"
    BY <1>1, <1>3 DEF Accounted, PromisesOK, Lost
<1>5. Outcome[i] = "pending"
    BY <1>1, <1>4, OutcomeValues DEF OutcomeIn
<1>6. ASSUME NEW j \in Ids
      PROVE  Outcome'[j] = IF j = i THEN "lost" ELSE Outcome[j]
    <2>1. lost'[j] = IF j = i THEN by ELSE lost[j]
        BY <1>1, <1>2
    <2> QED BY <2>1, OutcomeValues DEF OutcomeIn, CallLost
<1>7. Outcome' = [Outcome EXCEPT ![i] = "lost"]
    BY <1>6 DEF Outcome
<1>8. \E k \in Ids : Outcome[k] = "pending" /\ Outcome' = [Outcome EXCEPT ![k] = "lost"]
    BY <1>1, <1>5, <1>7
<1> QED BY <1>8 DEF Contract!CleanupTraps, Outcome

\* Seen at commits, every promise goes through the life cycle the contract allows,
\* whatever messages interleave and trap: what `call` promises holds for any bounds.
THEOREM ContractImplemented == Spec => ImplementsContract
<1>1. Init => Contract!Init
    <2> SUFFICES ASSUME Init PROVE Contract!Init
        OBVIOUS
    <2>1. lost = [i \in Ids |-> "none"] /\ saved.promise = [i \in Ids |-> "none"]
        BY DEF Init, Initial
    <2>2. \A i \in Ids : Outcome[i] = "unissued"
        BY <2>1, OutcomeValues DEF OutcomeIn
    <2>3. Outcome = [i \in Ids |-> "unissued"]
        BY <2>2 DEF Outcome
    <2> QED BY <2>3 DEF Contract!Init, Outcome
<1>2. IInv /\ SettlementInv /\ [Next]_vars => [Contract!Next]_Outcome
    <2> SUFFICES ASSUME IInv, SettlementInv, [Next]_vars
                 PROVE  Contract!Next \/ Outcome' = Outcome
        OBVIOUS
    <2>1. CASE NothingCommitted
        BY <2>1 DEF NothingCommitted, Outcome
    <2>2. CASE CallLost
        BY <2>2, LossImplements DEF Contract!Next
    <2>3. CASE MessageCommitted
        BY <2>3, EvaluationImplements, MessageImplements DEF MessageCommitted, Contract!Next
    <2> QED BY <2>1, <2>2, <2>3, StepCommits
<1> QED BY <1>1, <1>2, SpecSettlement, PTL
        DEF Spec, ImplementsContract, Contract!Spec, Outcome

-----------------------------------------------------------------------------
(* The replies to the callers *)

\* Why the caller of m may be rejected; L are the calls lost to a trap.
Cause(h, m, L) ==
    \/ h.fn[m] \in {"trapped", "cleanedUp", "swallowed"}
    \/ h.fn[m] = "suspended" /\ h.on[m] \in L
    \/ h.fn[m] = "finished" /\ m \in Manual

\* A method that did not begin has no context, one that finished has replied
\* unless it is manual, and no caller is rejected without a cause.
RepliesOK(h, L) ==
    \A m \in Methods :
        /\ h.fn[m] = "idle" => h.status[m] = "none"
        /\ h.fn[m] = "finished" /\ m \notin Manual => h.status[m] = "replied"
        /\ h.status[m] = "rejected" => Cause(h, m, L)

RepliesInv == RepliesOK(s, Lost) /\ RepliesOK(saved, Lost)

LEMMA RepliesKept ==
    ASSUME NEW h, NEW g, NEW L, NEW M, RepliesOK(h, L), L \subseteq M,
           g.fn = h.fn, g.on = h.on, g.status = h.status
    PROVE  RepliesOK(g, M)
    BY DEF RepliesOK, Cause

\* One method's function or context changes.
LEMMA RepliesChanged ==
    ASSUME NEW h \in CanisterState, NEW g, NEW L, RepliesOK(h, L),
           NEW m \in Methods, NEW f \in FnState, NEW st \in Status,
           g.fn = [h.fn EXCEPT ![m] = f], g.status = [h.status EXCEPT ![m] = st],
           \A k \in Methods : k # m => g.on[k] = h.on[k],
           f # "idle", f = "finished" /\ m \notin Manual => st = "replied",
           st = "rejected" => f = "trapped"
    PROVE  RepliesOK(g, L)
<1>1. \A k \in Methods : /\ g.fn[k] = IF k = m THEN f ELSE h.fn[k]
                         /\ g.status[k] = IF k = m THEN st ELSE h.status[k]
    BY DEF CanisterState
<1> QED BY <1>1 DEF RepliesOK, Cause

\* A promise settles whose call is not lost: the function it wakes was not given up.
LEMMA RepliesSettled ==
    ASSUME NEW h \in CanisterState, NEW i \in Ids, NEW o \in PromiseState,
           NEW g, g = SettlePromise(h, i, o), NEW L, RepliesOK(h, L), i \notin L
    PROVE  RepliesOK(g, L)
<1>1. CASE h.promise[i] = "pending"
    <2> DEFINE f == [m \in Methods |-> IF h.fn[m] = "suspended" /\ h.on[m] = i
                                       THEN "ready" ELSE h.fn[m]]
    <2>1. g = [h EXCEPT !.promise[i] = o, !.fn = f]
        BY <1>1 DEF SettlePromise
    <2>2. \A m \in Methods : f[m] = IF h.fn[m] = "suspended" /\ h.on[m] = i
                                    THEN "ready" ELSE h.fn[m]
        OBVIOUS
    <2> HIDE DEF f
    <2>3. g.fn = f /\ g.on = h.on /\ g.status = h.status
        BY <2>1 DEF CanisterState
    <2> QED BY <2>2, <2>3 DEF RepliesOK, Cause
<1>2. CASE h.promise[i] # "pending"
    BY <1>2 DEF SettlePromise
<1> QED BY <1>1, <1>2

\* Contexts are closed between functions: one that is open belongs to a function
\* that let an error pass, is manual, or waits for a call that is not outstanding.
LEMMA RepliesClosed ==
    ASSUME NEW h \in CanisterState, NEW g, NEW L, g = CloseContexts(h),
           RepliesOK(h, L), Quiescent(h),
           \A m \in Methods : h.fn[m] = "suspended" =>
              h.on[m] \in L \/ (h.on[m] \in h.calls /\ h.ctx[h.on[m]] = m)
    PROVE  RepliesOK(g, L)
<1> DEFINE st == [m \in Methods |->
                    IF h.status[m] = "open" /\ \A i \in h.calls : h.ctx[i] # m
                    THEN "rejected" ELSE h.status[m]]
<1>1. g = [h EXCEPT !.status = st]
    BY DEF CloseContexts
<1>2. \A m \in Methods : st[m] = IF h.status[m] = "open" /\ \A i \in h.calls : h.ctx[i] # m
                                 THEN "rejected" ELSE h.status[m]
    OBVIOUS
<1> HIDE DEF st
<1>3. g.fn = h.fn /\ g.on = h.on /\ g.status = st
    BY <1>1 DEF CanisterState
<1>4. ASSUME NEW m \in Methods, h.status[m] = "open", \A i \in h.calls : h.ctx[i] # m
      PROVE  Cause(h, m, L) /\ h.fn[m] # "idle" /\ (h.fn[m] = "finished" => m \in Manual)
    <2>1. h.fn[m] \in FnState \ {"running", "ready", "returned", "idle"}
        BY <1>4 DEF CanisterState, Quiescent, RepliesOK
    <2>2. h.fn[m] = "finished" => m \in Manual
        BY <1>4 DEF RepliesOK
    <2>3. h.fn[m] = "suspended" => h.on[m] \in L
        BY <1>4
    <2> QED BY <2>1, <2>2, <2>3 DEF FnState, Cause
<1>5. \A m \in Methods : Cause(g, m, L) <=> Cause(h, m, L)
    BY <1>3 DEF Cause
<1>6. ASSUME NEW m \in Methods
      PROVE  /\ g.fn[m] = "idle" => g.status[m] = "none"
             /\ g.fn[m] = "finished" /\ m \notin Manual => g.status[m] = "replied"
             /\ g.status[m] = "rejected" => Cause(g, m, L)
    <2>1. CASE h.status[m] = "open" /\ \A i \in h.calls : h.ctx[i] # m
        BY <1>2, <1>3, <1>4, <1>5, <2>1
    <2>2. CASE ~(h.status[m] = "open" /\ \A i \in h.calls : h.ctx[i] # m)
        BY <1>2, <1>3, <1>5, <2>2 DEF RepliesOK
    <2> QED BY <2>1, <2>2
<1> QED BY <1>6 DEF RepliesOK

\* A trap rejects the caller of the method it ends, and a call lost in a cleanup
\* callback is the cause of what closing the contexts does.
LEMMA TrapReplies ==
    ASSUME IInv, RepliesInv, exec.kind \in {"method", "response", "cleanup"},
           NEW by \in {"developer", "framework"}, Trap(by)
    PROVE  RepliesInv'
<1>1. saved \in CanisterState /\ RepliesOK(saved, Lost) /\ exec.method \in Methods
    BY DEF IInv, TypeOK, ExecOK, RepliesInv
<1>2. CASE exec.kind = "method"
    <2> DEFINE m == exec.method
    <2>1. /\ s' = [saved EXCEPT !.fn[m] = "trapped", !.status[m] = "rejected"]
          /\ saved' = s' /\ lost' = lost
        BY <1>2 DEF Trap
    <2>2. /\ s'.fn = [saved.fn EXCEPT ![m] = "trapped"]
          /\ s'.status = [saved.status EXCEPT ![m] = "rejected"]
          /\ s'.on = saved.on
        BY <1>1, <2>1 DEF CanisterState
    <2>3. "trapped" \in FnState /\ "rejected" \in Status /\ Lost' = Lost
        BY <2>1 DEF FnState, Status, Lost
    <2>4. m \in Methods
        BY <1>1
    <2> HIDE DEF m
    <2>5. RepliesOK(s', Lost)
        BY <1>1, <2>2, <2>3, <2>4, RepliesChanged
    <2> QED BY <2>1, <2>3, <2>5 DEF RepliesInv, RepliesOK, Cause
<1>3. CASE exec.kind = "response"
    <2>1. s' = saved /\ saved' = saved /\ Lost' = Lost
        BY <1>3 DEF Trap, Lost
    <2> QED BY <1>1, <2>1 DEF RepliesInv, RepliesOK, Cause
<1>4. CASE exec.kind = "cleanup"
    <2> DEFINE i == exec.id
    <2>1. s' = CloseContexts(saved) /\ saved' = s' /\ lost' = [lost EXCEPT ![i] = by]
        BY <1>4 DEF Trap
    <2>2. i \in Ids /\ Quiescent(saved) /\ saved.spawned = {}
        BY <1>4 DEF IInv, ExecOK
    <2>3. Lost' = Lost \union {i}
        BY <2>1, <2>2 DEF Lost, IInv, TypeOK
    <2>4. PromisesOK(saved, {i}) /\ ContextsOK(saved, NoMethod)
        BY <1>4 DEF IInv, Answered
    <2>5. ASSUME NEW k \in Methods, saved.fn[k] = "suspended"
          PROVE  \/ saved.on[k] \in Lost \union {i}
                 \/ saved.on[k] \in saved.calls /\ saved.ctx[saved.on[k]] = k
        BY <2>2, <2>4, <2>5, MethodsAssumption DEF PromisesOK, ContextsOK
    <2>6. RepliesOK(saved, Lost \union {i})
        BY <1>1, RepliesKept
    <2> HIDE DEF i
    <2>7. RepliesOK(s', Lost \union {i})
        BY <1>1, <2>1, <2>2, <2>5, <2>6, RepliesClosed
    <2> QED BY <2>1, <2>3, <2>7 DEF RepliesInv, RepliesOK, Cause
<1> QED BY <1>2, <1>3, <1>4

\* Within a message it is enough to look at what becomes of s.
LEMMA RepliesGoOn ==
    ASSUME RepliesInv, RepliesOK(s', Lost), lost' = lost, saved' = saved \/ saved' = s'
    PROVE  RepliesInv'
    BY DEF RepliesInv, RepliesOK, Cause, Lost

\* Functions, contexts and awaited promises stay as they are.
LEMMA RepliesUntouched ==
    ASSUME RepliesInv, s'.fn = s.fn, s'.on = s.on, s'.status = s.status,
           lost' = lost, saved' = saved \/ saved' = s'
    PROVE  RepliesInv'
<1>1. RepliesOK(s', Lost)
    BY RepliesKept DEF RepliesInv
<1> QED BY <1>1, RepliesGoOn

\* The function of method m goes from one state of execution to another.
LEMMA FunctionReplies ==
    ASSUME IInv, RepliesInv, UNCHANGED <<saved, lost>>,
           NEW m \in Methods, NEW f \in FnState, NEW st \in Status,
           s'.fn = [s.fn EXCEPT ![m] = f], s'.status = [s.status EXCEPT ![m] = st],
           \A k \in Methods : k # m => s'.on[k] = s.on[k],
           f \notin {"idle", "trapped"}, st # "rejected",
           f = "finished" /\ m \notin Manual => st = "replied"
    PROVE  RepliesInv'
<1>1. s \in CanisterState /\ RepliesOK(s, Lost)
    BY DEF IInv, TypeOK, RepliesInv
<1>2. RepliesOK(s', Lost)
    BY <1>1, RepliesChanged
<1> QED BY <1>2, RepliesGoOn

\* The caller of a method that is executing is not rejected yet.
LEMMA ExecutingNotRejected ==
    ASSUME IInv, RepliesInv, NEW m \in Methods, s.fn[m] \in {"running", "ready", "returned"}
    PROVE  s.status[m] \in Status \ {"rejected"}
<1>1. s \in CanisterState /\ RepliesOK(s, Lost)
    BY DEF IInv, TypeOK, RepliesInv
<1> QED BY <1>1 DEF CanisterState, RepliesOK, Cause

LEMMA DeveloperReplies ==
    ASSUME IInv, RepliesInv, DeveloperStep
    PROVE  RepliesInv'
<1> DEFINE m == exec.method
<1>1. Running
    BY DEF DeveloperStep, CallRaw, CallRawThrows, Await, Return, ManualReply,
           HandleUncaughtError, HandleCleanupCallbackError, HandleNullishError
<1>2. /\ s \in CanisterState
      /\ m \in Methods
      /\ s.fn[m] = "running"
      /\ exec.kind \in {"method", "response", "cleanup"}
    BY <1>1 DEF IInv, TypeOK, ExecOK, Running
<1>3. s.status[m] \in Status \ {"rejected"}
    BY <1>2, ExecutingNotRejected
<1>4. s.status = [s.status EXCEPT ![m] = s.status[m]]
    BY <1>2 DEF CanisterState
<1>5. CASE CallRaw \/ CallRawThrows
    <2>1. ASSUME NEW state \in {"pending", "rejected"}, s.next <= MaxIds
          PROVE  /\ NewPromise(s, m, state) \in CanisterState
                 /\ NewPromise(s, m, state).fn = s.fn
                 /\ NewPromise(s, m, state).on = s.on
                 /\ NewPromise(s, m, state).status = s.status
        <3>1. NewPromise(s, m, state) \in CanisterState
            BY <1>2, <2>1, NewPromiseType DEF PromiseState
        <3> QED BY <1>2, <3>1 DEF NewPromise, CanisterState
    <2>2. s'.fn = s.fn /\ s'.on = s.on /\ s'.status = s.status /\ UNCHANGED <<saved, lost>>
        BY <1>5, <2>1 DEF CallRaw, CallRawThrows, Step, CanisterState
    <2> QED BY <2>2, RepliesUntouched
<1>6. CASE \E i \in Ids : Await(i)
    <2>1. PICK i \in Ids : Await(i)
        BY <1>6
    <2> DEFINE f == IF s.promise[i] = "pending" THEN "suspended" ELSE "ready"
    <2>2. /\ s'.fn = [s.fn EXCEPT ![m] = f]
          /\ s'.on = [s.on EXCEPT ![m] = i]
          /\ s'.status = s.status
          /\ UNCHANGED <<saved, lost>>
        BY <1>2, <2>1 DEF Await, Step, CanisterState
    <2>3. f \in FnState /\ f \notin {"idle", "trapped", "finished"}
        BY DEF FnState
    <2>4. \A k \in Methods : k # m => s'.on[k] = s.on[k]
        BY <1>2, <2>2 DEF CanisterState
    <2> HIDE DEF f, m
    <2> QED BY <1>2, <1>3, <1>4, <2>2, <2>3, <2>4, FunctionReplies
<1>7. CASE Return \/ HandleCleanupCallbackError \/ HandleNullishError
    <2>1. PICK f \in {"returned", "cleanedUp", "swallowed"} : Step([s EXCEPT !.fn[m] = f])
        BY <1>7 DEF Return, HandleCleanupCallbackError, HandleNullishError
    <2>2. /\ s'.fn = [s.fn EXCEPT ![m] = f]
          /\ s'.on = s.on
          /\ s'.status = s.status
          /\ UNCHANGED <<saved, lost>>
        BY <1>2, <2>1 DEF Step, CanisterState
    <2>3. f \in FnState /\ f \notin {"idle", "trapped", "finished"}
        BY DEF FnState
    <2> HIDE DEF m
    <2> QED BY <1>2, <1>3, <1>4, <2>2, <2>3, FunctionReplies
<1>8. CASE ManualReply
    <2>1. CASE Step([s EXCEPT !.status[m] = "replied"])
        <3>1. /\ s'.fn = [s.fn EXCEPT ![m] = "running"]
              /\ s'.on = s.on
              /\ s'.status = [s.status EXCEPT ![m] = "replied"]
              /\ UNCHANGED <<saved, lost>>
            BY <1>2, <2>1 DEF Step, CanisterState
        <3>2. "running" \in FnState /\ "replied" \in Status
            BY DEF FnState, Status
        <3> HIDE DEF m
        <3> QED BY <1>2, <3>1, <3>2, FunctionReplies
    <2>2. CASE Trap("developer")
        BY <1>2, <2>2, TrapReplies
    <2> QED BY <1>8, <2>1, <2>2 DEF ManualReply
<1>9. CASE HandleUncaughtError
    BY <1>2, <1>9, TrapReplies DEF HandleUncaughtError
<1> QED BY <1>5, <1>6, <1>7, <1>8, <1>9 DEF DeveloperStep

LEMMA EncodeReplies ==
    ASSUME IInv, RepliesInv, EncodeResultAndReply
    PROVE  RepliesInv'
<1> DEFINE m == exec.method
<1>1. /\ s \in CanisterState
      /\ m \in Methods
      /\ s.fn[m] = "returned"
      /\ exec.kind \in {"method", "response", "cleanup"}
    BY DEF EncodeResultAndReply, IInv, TypeOK, ExecOK, Execution, Kind
<1>2. s.status[m] \in Status \ {"rejected"}
    BY <1>1, ExecutingNotRejected
<1>3. "finished" \in FnState /\ "replied" \in Status
    BY DEF FnState, Status
<1>4. CASE m \in Manual /\ Step([s EXCEPT !.fn[m] = "finished"])
    <2>1. /\ s'.fn = [s.fn EXCEPT ![m] = "finished"]
          /\ s'.on = s.on
          /\ s'.status = [s.status EXCEPT ![m] = s.status[m]]
          /\ UNCHANGED <<saved, lost>>
        BY <1>1, <1>4 DEF Step, CanisterState
    <2> HIDE DEF m
    <2> QED BY <1>1, <1>2, <1>3, <1>4, <2>1, FunctionReplies
<1>5. CASE Step([s EXCEPT !.fn[m] = "finished", !.status[m] = "replied"])
    <2>1. /\ s'.fn = [s.fn EXCEPT ![m] = "finished"]
          /\ s'.on = s.on
          /\ s'.status = [s.status EXCEPT ![m] = "replied"]
          /\ UNCHANGED <<saved, lost>>
        BY <1>1, <1>5 DEF Step, CanisterState
    <2> HIDE DEF m
    <2> QED BY <1>1, <1>3, <2>1, FunctionReplies
<1>6. CASE Trap("framework")
    BY <1>1, <1>6, TrapReplies
<1> QED BY <1>4, <1>5, <1>6 DEF EncodeResultAndReply

\* A promise in transit settles: its call is not a lost one.
LEMMA SettlesReplies ==
    ASSUME IInv, RepliesInv, exec.phase \in {"settle", "guard"},
           NEW o \in PromiseState, NEW g, g = SettlePromise(s, exec.cur, o)
    PROVE  RepliesOK(g, Lost)
<1> DEFINE i == exec.cur
<1>1. s \in CanisterState /\ i \in Ids /\ RepliesOK(s, Lost)
    BY DEF IInv, TypeOK, ExecOK, RepliesInv
<1>2. i \notin Lost
    <2>1. Accounted(s, {i})
        BY DEF IInv, InHand
    <2> QED BY <2>1 DEF Accounted
<1>3. g = SettlePromise(s, i, o)
    OBVIOUS
<1> HIDE DEF i
<1> QED BY <1>1, <1>2, <1>3, RepliesSettled

LEMMA FutureReplies ==
    ASSUME IInv, RepliesInv, Settle \/ CleanupScopeguard
    PROVE  RepliesInv'
<1> DEFINE i == exec.cur
<1>1. /\ s \in CanisterState
      /\ i \in Ids
      /\ exec.phase \in {"settle", "guard"}
      /\ exec.kind \in {"method", "response", "cleanup"}
    BY DEF Settle, CleanupScopeguard, IInv, TypeOK, ExecOK, Execution, Kind
<1>2. CASE Trap("framework")
    BY <1>1, <1>2, TrapReplies
<1>3. CASE Settle /\ i \in SettleTable(exec.outcome)
    <2>1. /\ s' = SettlePromise(s, i, exec.outcome)
          /\ UNCHANGED <<saved, lost>>
          /\ exec.outcome \in PromiseState
        BY <1>3 DEF Settle, IInv, ExecOK, PromiseState
    <2>2. RepliesOK(s', Lost)
        BY <1>1, <2>1, SettlesReplies
    <2> QED BY <2>1, <2>2, RepliesGoOn
<1>4. CASE CleanupScopeguard /\ ~(exec.kind = "cleanup" /\ i \notin s.reject)
    <2> DEFINE g == IF exec.kind = "cleanup" THEN SettlePromise(s, i, "cleanup") ELSE s
    <2>1. s' = DeleteCallbacks(g, i) /\ UNCHANGED <<saved, lost>>
        BY <1>4 DEF CleanupScopeguard
    <2>2. g \in CanisterState /\ RepliesOK(g, Lost)
        <3>1. CASE exec.kind = "cleanup"
            <4>1. g = SettlePromise(s, i, "cleanup") /\ "cleanup" \in PromiseState
                BY <3>1 DEF PromiseState
            <4> HIDE DEF g
            <4>2. RepliesOK(g, Lost)
                BY <1>1, <4>1, SettlesReplies
            <4> HIDE DEF i
            <4>3. g \in CanisterState
                BY <1>1, <4>1, SettlePromiseKeeps
            <4> QED BY <4>2, <4>3
        <3>2. CASE exec.kind # "cleanup"
            BY <1>1, <3>2 DEF RepliesInv
        <3> QED BY <3>1, <3>2
    <2> HIDE DEF g, i
    <2>3. s'.fn = g.fn /\ s'.on = g.on /\ s'.status = g.status
        BY <2>1, <2>2 DEF DeleteCallbacks, CanisterState
    <2>4. RepliesOK(s', Lost)
        BY <2>2, <2>3, RepliesKept
    <2> QED BY <2>1, <2>4, RepliesGoOn
<1> QED BY <1>2, <1>3, <1>4 DEF Settle, CleanupScopeguard

\* The message ends: a suspended function waits for a call of its own context.
LEMMA EndReplies ==
    ASSUME IInv, RepliesInv, EndMessage
    PROVE  RepliesInv'
<1>1. /\ s' = CloseContexts(s)
      /\ saved' = s'
      /\ lost' = lost
      /\ s.spawned = {}
      /\ exec.phase = "poll"
    BY DEF EndMessage
<1>2. s \in CanisterState /\ Quiescent(s) /\ s.futures = {} /\ RepliesOK(s, Lost)
    BY <1>1 DEF IInv, TypeOK, ExecOK, RepliesInv
<1>3. PromisesOK(s, {})
    BY <1>1 DEF IInv, Unsettled
<1>4. ASSUME NEW m \in Methods, s.fn[m] = "suspended"
      PROVE  s.on[m] \in Lost \/ (s.on[m] \in s.calls /\ s.ctx[s.on[m]] = m)
    BY <1>1, <1>2, <1>3, <1>4 DEF PromisesOK
<1>5. RepliesOK(s', Lost)
    BY <1>1, <1>2, <1>4, RepliesClosed
<1> QED BY <1>1, <1>5, RepliesGoOn

LEMMA FrameworkReplies ==
    ASSUME IInv, RepliesInv, FrameworkStep
    PROVE  RepliesInv'
<1>1. s \in CanisterState
    BY DEF IInv, TypeOK
<1>2. CASE InitializeContext
    BY <1>2, RepliesUntouched DEF InitializeContext
<1>3. CASE \E m \in Methods : ResumeFunction(m)
    <2>1. PICK m \in Methods : ResumeFunction(m)
        BY <1>3
    <2>2. s.status[m] \in Status \ {"rejected"}
        BY <2>1, ExecutingNotRejected DEF ResumeFunction
    <2>3. /\ s'.fn = [s.fn EXCEPT ![m] = "running"]
          /\ s'.on = s.on
          /\ s'.status = [s.status EXCEPT ![m] = s.status[m]]
          /\ UNCHANGED <<saved, lost>>
        BY <1>1, <2>1 DEF ResumeFunction, Step, CanisterState
    <2>4. "running" \in FnState
        BY DEF FnState
    <2> QED BY <2>2, <2>3, <2>4, FunctionReplies
<1>4. CASE EncodeResultAndReply
    BY <1>4, EncodeReplies
<1>5. CASE DrainInterCanisterCallFutures
    <2>1. CASE exec.kind = "cleanup" /\ s.futures # {}
        BY <1>5, <2>1, TrapReplies DEF DrainInterCanisterCallFutures
    <2>2. CASE ~(exec.kind = "cleanup" /\ s.futures # {})
        <3>1. s'.fn = s.fn /\ s'.on = s.on /\ s'.status = s.status /\ UNCHANGED <<saved, lost>>
            BY <1>1, <1>5, <2>2 DEF DrainInterCanisterCallFutures, CanisterState
        <3> QED BY <3>1, RepliesUntouched
    <2> QED BY <2>1, <2>2
<1>6. CASE \E i \in Ids : PerformCall(i) \/ PerformCallFails(i)
    <2>1. s'.fn = s.fn /\ s'.on = s.on /\ s'.status = s.status /\ UNCHANGED <<saved, lost>>
        BY <1>1, <1>6 DEF PerformCall, PerformCallFails, Step, CanisterState
    <2> QED BY <2>1, RepliesUntouched
<1>7. CASE Settle \/ CleanupScopeguard
    BY <1>7, FutureReplies
<1>8. CASE EndMessage
    BY <1>8, EndReplies
<1> QED BY <1>2, <1>3, <1>4, <1>5, <1>6, <1>7, <1>8 DEF FrameworkStep

LEMMA NextReplies == IInv /\ RepliesInv /\ [Next]_vars => RepliesInv'
<1> SUFFICES ASSUME IInv, RepliesInv, [Next]_vars PROVE RepliesInv'
    OBVIOUS
<1>1. s \in CanisterState
    BY DEF IInv, TypeOK
<1>2. CASE ModuleCall
    <2> DEFINE n == NewPromise(s, NoMethod, "pending")
    <2>1. n \in CanisterState
        BY <1>1, <1>2, NewPromiseType DEF ModuleCall, PromiseState
    <2>2. n.fn = s.fn /\ n.on = s.on /\ n.status = s.status
        BY <1>1 DEF NewPromise, CanisterState
    <2>3. s' = [n EXCEPT !.futures = @ \union {s.next}] /\ UNCHANGED <<saved, lost>>
        BY <1>2 DEF ModuleCall, Step
    <2> HIDE DEF n
    <2>4. s'.fn = s.fn /\ s'.on = s.on /\ s'.status = s.status
        BY <2>1, <2>2, <2>3 DEF CanisterState
    <2> QED BY <2>3, <2>4, RepliesUntouched
<1>3. CASE \E m \in Methods : ExecuteMethodJs(m)
    <2>1. PICK m \in Methods : ExecuteMethodJs(m)
        BY <1>3
    <2>2. /\ s'.fn = [s.fn EXCEPT ![m] = "running"]
          /\ s'.on = s.on
          /\ s'.status = [s.status EXCEPT ![m] = "open"]
          /\ UNCHANGED <<saved, lost>>
        BY <1>1, <2>1 DEF ExecuteMethodJs, CanisterState
    <2>3. "running" \in FnState /\ "open" \in Status
        BY DEF FnState, Status
    <2> QED BY <2>2, <2>3, FunctionReplies
<1>4. CASE \E i \in Ids, outcome \in {"resolved", "rejected"} : Respond(i, outcome)
    <2>1. s'.fn = s.fn /\ s'.on = s.on /\ s'.status = s.status /\ lost' = lost /\ saved' = s'
        BY <1>1, <1>4 DEF Respond, CanisterState
    <2> QED BY <2>1, RepliesUntouched
<1>5. CASE DeveloperStep
    BY <1>5, DeveloperReplies
<1>6. CASE FrameworkStep
    BY <1>6, FrameworkReplies
<1>7. CASE TrapAnywhere
    BY <1>7, TrapReplies DEF TrapAnywhere
<1>8. CASE UNCHANGED vars
    BY <1>8, RepliesUntouched DEF vars
<1> QED BY <1>2, <1>3, <1>4, <1>5, <1>6, <1>7, <1>8 DEF Next, Done

\* The IC rejects a caller on the canister's behalf only for the listed causes: no
\* interleaving of responses, traps and cleanup callbacks leaves a method that did
\* its work, or still can, without its reply.
THEOREM RejectionsHaveCauses == Spec => []RejectedHasCause
<1>1. Init => RepliesInv
    <2> SUFFICES ASSUME Init PROVE RepliesInv
        OBVIOUS
    <2>1. s = Initial /\ saved = Initial
        BY DEF Init
    <2>2. /\ Initial.fn = [m \in Methods |-> "idle"]
          /\ Initial.status = [m \in Methods |-> "none"]
        BY DEF Initial
    <2> QED BY <2>1, <2>2 DEF RepliesInv, RepliesOK
<1>2. IInv /\ RepliesInv => RejectedHasCause
    <2> SUFFICES ASSUME IInv, RepliesInv, NEW m \in Methods, s.status[m] = "rejected"
                 PROVE  \/ s.fn[m] \in {"trapped", "cleanedUp", "swallowed"}
                        \/ s.fn[m] = "suspended" /\ lost[s.on[m]] # "none"
                        \/ s.fn[m] = "finished" /\ m \in Manual
        BY DEF RejectedHasCause
    <2>1. Cause(s, m, Lost)
        BY DEF RepliesInv, RepliesOK
    <2> QED BY <2>1 DEF Cause, Lost
<1> QED BY <1>1, <1>2, SpecIInv, NextReplies, PTL DEF Spec
=============================================================================
