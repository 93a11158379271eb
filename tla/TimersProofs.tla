---------------------------- MODULE TimersProofs ----------------------------
(* Proofs about Timers, for any number of timers. *)
EXTENDS Timers, TLAPS

Live == {"once", "every"}

\* Timer i in canister c, while the closure of timer r is running.
GoodTimer(c, r, i) ==
    \* the slot, the callback and the kind agree
    /\ c.task[i] = "placeholder" => i = r
    /\ c.task[i] \in Live => c.kind[i] = c.task[i]
    /\ i \in c.table <=> c.task[i] # "none"
    /\ i >= c.next => c.kind[i] = "none" /\ c.task[i] = "none"
    /\ c.kind[i] = "none" => /\ c.task[i] = "none" /\ i \notin c.due /\ c.call[i] = "none"
                             /\ i \notin c.cleared /\ c.runs[i] = 0
    \* one trigger
    /\ c.task[i] # "none" => (i \in c.due <=> c.call[i] = "none")
    /\ i \in c.due => c.call[i] = "none"
    \* clearing and runs
    /\ i \in c.cleared => c.task[i] = "none"
    /\ c.kind[i] = "once" => c.runs[i] <= 1
    /\ c.task[i] = "once" => c.runs[i] = 0 /\ c.call[i] # "replied"
    \* the timer that is running
    /\ i = r => /\ c.task[i] \notin Live
                /\ c.call[i] = "sent"
                /\ c.kind[i] # "none"
                /\ c.kind[i] = "once" => c.runs[i] = 0

Good(c, r) == \A i \in TimerIds : GoodTimer(c, r, i)

\* Between messages the canister is the committed one; the self-call of a running
\* timer is in flight as far as the committed canister knows.
IInv ==
    /\ TypeOK
    /\ Good(t, exec.id)
    /\ Good(saved, NoTimer)
    /\ exec.kind = "timer" <=> exec.id # NoTimer
    /\ exec = Rest => t = saved
    /\ exec.kind = "timer" => saved.call[exec.id] = "sent"

LEMMA NoTimerIsNone == NoTimer \notin TimerIds /\ TimerIds \subseteq Nat
    BY MaxTimersAssumption DEF NoTimer, TimerIds

LEMMA InitIInv == Init => IInv
<1> SUFFICES ASSUME Init PROVE IInv
    OBVIOUS
<1> USE NoTimerIsNone
<1>1. Empty \in Canister
    BY DEF Empty, Canister, Task, SelfCall
<1>2. Good(Empty, NoTimer)
    BY DEF Good, GoodTimer, Empty, Live
<1>3. exec.id = NoTimer /\ exec.kind = "rest"
    BY DEF Init, Rest
<1>4. TypeOK
    BY <1>1 DEF Init, TypeOK, Message, Rest
<1> QED BY <1>1, <1>2, <1>3, <1>4 DEF Init, IInv

\* Committing a good canister.
LEMMA CommitKeeps ==
    ASSUME IInv, NEW c \in Canister, Good(c, NoTimer), Commit(c)
    PROVE  IInv'
<1>1. exec'.id = NoTimer /\ exec'.kind = "rest"
    BY DEF Commit, Rest
<1>2. TypeOK'
    BY NoTimerIsNone DEF IInv, TypeOK, Commit, Message, Rest
<1> QED BY <1>1, <1>2 DEF IInv, Commit

\* A trap falls back to the committed canister; the self-call of a running timer
\* is rejected, whose timer is still in its slot.
LEMMA TrapKeeps ==
    ASSUME IInv, Trap, refused' \subseteq TimerIds
    PROVE  IInv'
<1> DEFINE c == [saved EXCEPT !.call[exec.id] = "rejected"]
<1>1. saved \in Canister /\ exec \in Message /\ Good(saved, NoTimer)
    BY DEF IInv, TypeOK
<1>2. ASSUME exec.kind = "timer" PROVE c \in Canister /\ Good(c, NoTimer)
    <2>1. exec.id \in TimerIds /\ saved.call[exec.id] = "sent"
        BY <1>1, <1>2 DEF IInv, Message
    <2>2. c \in Canister
        BY <1>1, <2>1 DEF Canister, SelfCall
    <2>3. \A i \in TimerIds : c.call[i] = IF i = exec.id THEN "rejected" ELSE saved.call[i]
        BY <1>1 DEF Canister
    <2>4. /\ c.task = saved.task /\ c.kind = saved.kind /\ c.table = saved.table
          /\ c.due = saved.due /\ c.next = saved.next /\ c.runs = saved.runs
          /\ c.cleared = saved.cleared
        BY <1>1 DEF Canister
    <2> HIDE DEF c
    <2>5. ASSUME NEW i \in TimerIds PROVE GoodTimer(c, NoTimer, i)
        <3>1. GoodTimer(saved, NoTimer, i)
            BY <1>1 DEF Good
        <3> QED BY <2>1, <2>3, <2>4, <3>1, NoTimerIsNone DEF GoodTimer
    <2>6. Good(c, NoTimer)
        BY <2>5 DEF Good
    <2> QED BY <2>2, <2>6
<1> HIDE DEF c
<1>3. t' \in Canister /\ Good(t, NoTimer)' /\ saved' = t'
    BY <1>1, <1>2 DEF Trap, c
<1>4. exec' \in Message /\ exec'.id = NoTimer /\ exec'.kind = "rest" /\ exec' = Rest
    BY DEF Trap, Rest, Message
<1>5. Good(saved, NoTimer)'
    BY <1>3
<1> QED BY <1>3, <1>4, <1>5 DEF IInv, TypeOK

-----------------------------------------------------------------------------
(* JavaScript *)

\* A step of JavaScript that changes nothing but the canister.
LEMMA JavaScriptKeeps ==
    ASSUME IInv, InJavaScript, t' \in Canister, Good(t', exec.id),
           UNCHANGED <<saved, exec, refused>>
    PROVE  IInv'
<1>1. exec # Rest
    BY DEF InJavaScript, Rest
<1> QED BY <1>1 DEF IInv, TypeOK

LEMMA SetPreserves ==
    ASSUME IInv, NEW kind \in Live, Set(kind)
    PROVE  IInv'
<1> DEFINE n == t.next
<1>1. t \in Canister /\ exec \in Message /\ Good(t, exec.id)
    BY DEF IInv, TypeOK
<1>2. n \in TimerIds /\ n \in Nat
    BY <1>1, MaxTimersAssumption DEF Set, Canister, TimerIds
<1>3. /\ t'.next = n + 1
      /\ t'.task = [t.task EXCEPT ![n] = kind]
      /\ t'.kind = [t.kind EXCEPT ![n] = kind]
      /\ t'.due = t.due \union {n}
      /\ t'.table = t.table \union {n}
      /\ t'.call = t.call /\ t'.runs = t.runs /\ t'.cleared = t.cleared
    BY <1>1 DEF Set, Canister
<1>4. t' \in Canister
    <2>1. kind \in Task /\ kind \in {"none", "once", "every"} /\ n + 1 \in Nat \ {0}
        BY <1>2 DEF Live, Task
    <2>2. t' = [t EXCEPT !.next = @ + 1, !.task[n] = kind, !.kind[n] = kind,
                         !.due = @ \union {n}, !.table = @ \union {n}]
        BY DEF Set
    <2> HIDE DEF n
    <2>3. t' = [next |-> t'.next, task |-> t'.task, kind |-> t'.kind, table |-> t'.table,
                due |-> t'.due, call |-> t'.call, runs |-> t'.runs, cleared |-> t'.cleared]
        BY <1>1, <2>2 DEF Canister
    <2>4. /\ t'.next \in Nat \ {0}
          /\ t'.task \in [TimerIds -> Task]
          /\ t'.kind \in [TimerIds -> {"none", "once", "every"}]
          /\ t'.table \subseteq TimerIds /\ t'.due \subseteq TimerIds
          /\ t'.call \in [TimerIds -> SelfCall]
          /\ t'.runs \in [TimerIds -> 0 .. 2]
          /\ t'.cleared \subseteq TimerIds
        BY <1>1, <1>2, <1>3, <2>1 DEF Canister
    <2> QED BY <2>3, <2>4 DEF Canister
<1>5. GoodTimer(t, exec.id, n) /\ t.kind[n] = "none" /\ t.task[n] = "none"
    BY <1>1, <1>2 DEF Good, GoodTimer
<1>6. n # exec.id /\ t.call[n] = "none" /\ n \notin t.cleared /\ t.runs[n] = 0
    BY <1>1, <1>2, <1>5 DEF GoodTimer
<1>7. ASSUME NEW i \in TimerIds PROVE GoodTimer(t', exec.id, i)
    <2>1. CASE i = n
        BY <1>1, <1>2, <1>3, <1>5, <1>6, <2>1 DEF GoodTimer, Canister, Live
    <2>2. CASE i # n
        <3>1. GoodTimer(t, exec.id, i)
            BY <1>1 DEF Good
        <3>2. t'.task[i] = t.task[i] /\ t'.kind[i] = t.kind[i]
            BY <1>1, <1>2, <1>3, <2>2 DEF Canister
        <3> QED BY <1>2, <1>3, <2>2, <3>1, <3>2, NoTimerIsNone DEF GoodTimer
    <2> QED BY <2>1, <2>2
<1>8. Good(t', exec.id)
    BY <1>7 DEF Good
<1> QED BY <1>4, <1>8, JavaScriptKeeps DEF Set

LEMMA ClearTimerPreserves ==
    ASSUME IInv, NEW i \in TimerIds, ClearTimer(i)
    PROVE  IInv'
<1>1. t \in Canister /\ Good(t, exec.id) /\ refused \subseteq TimerIds
    BY DEF IInv, TypeOK
<1>2. CASE t.task[i] = "once"
    <2>1. Trap /\ refused' \subseteq TimerIds
        BY <1>1, <1>2 DEF ClearTimer
    <2> QED BY <2>1, TrapKeeps
<1>3. CASE t.task[i] # "once"
    <2>0. t' = [t EXCEPT !.task[i] = "none", !.table = @ \ {i}, !.cleared = @ \union {i}]
          /\ UNCHANGED <<saved, exec, refused>> /\ InJavaScript /\ t.kind[i] # "none"
        BY <1>3 DEF ClearTimer
    <2>1. /\ t'.task = [t.task EXCEPT ![i] = "none"]
          /\ t'.table = t.table \ {i}
          /\ t'.cleared = t.cleared \union {i}
          /\ t'.next = t.next /\ t'.kind = t.kind /\ t'.due = t.due
          /\ t'.call = t.call /\ t'.runs = t.runs
        BY <1>1, <2>0 DEF Canister
    <2>2. t' \in Canister
        BY <1>1, <2>0 DEF Canister, Task
    <2>3. ASSUME NEW j \in TimerIds PROVE GoodTimer(t', exec.id, j)
        <3>1. GoodTimer(t, exec.id, j)
            BY <1>1 DEF Good
        <3>2. t'.task[j] = IF j = i THEN "none" ELSE t.task[j]
            BY <1>1, <2>1 DEF Canister
        <3> QED BY <2>0, <2>1, <3>1, <3>2 DEF GoodTimer, Live
    <2>4. Good(t', exec.id)
        BY <2>3 DEF Good
    <2> QED BY <2>0, <2>2, <2>4, JavaScriptKeeps
<1> QED BY <1>2, <1>3

LEMMA BeginMessagePreserves == ASSUME IInv, BeginMessage PROVE IInv'
<1>1. exec'.id = NoTimer /\ exec'.kind = "js" /\ exec' \in Message /\ exec' # Rest
    BY DEF BeginMessage, Message, Rest
<1>2. exec.id = NoTimer
    BY DEF BeginMessage, Rest
<1> QED BY <1>1, <1>2 DEF BeginMessage, IInv, TypeOK

LEMMA EndMessagePreserves == ASSUME IInv, EndMessage PROVE IInv'
<1>1. t \in Canister /\ Good(t, NoTimer) /\ Commit(t)
    BY DEF IInv, TypeOK, EndMessage
<1> QED BY <1>1, CommitKeeps

-----------------------------------------------------------------------------
(* ic-cdk-timers *)

\* Between messages: the canister the library works on.
LEMMA AtRest ==
    ASSUME IInv, exec = Rest
    PROVE  t \in Canister /\ Good(t, NoTimer) /\ Good(saved, NoTimer)
    BY DEF IInv, TypeOK, Rest

LEMMA GlobalTimerPreserves ==
    ASSUME IInv, NEW i \in TimerIds, GlobalTimer(i)
    PROVE  IInv'
<1> DEFINE c == [t EXCEPT !.due = @ \ {i},
                          !.call[i] = IF t.task[i] = "none" THEN "none" ELSE "sent"]
<1>1. t \in Canister /\ Good(t, NoTimer) /\ i \in t.due /\ Commit(c)
    BY AtRest DEF GlobalTimer
<1>2. c \in Canister
    BY <1>1 DEF Canister, SelfCall
<1>3. /\ c.due = t.due \ {i}
      /\ c.call = [t.call EXCEPT ![i] = IF t.task[i] = "none" THEN "none" ELSE "sent"]
      /\ c.task = t.task /\ c.kind = t.kind /\ c.table = t.table
      /\ c.next = t.next /\ c.runs = t.runs /\ c.cleared = t.cleared
    BY <1>1 DEF Canister
<1> HIDE DEF c
<1>4. ASSUME NEW j \in TimerIds PROVE GoodTimer(c, NoTimer, j)
    <2>1. GoodTimer(t, NoTimer, j)
        BY <1>1 DEF Good
    <2>2. c.call[j] = IF j = i THEN (IF t.task[j] = "none" THEN "none" ELSE "sent")
                               ELSE t.call[j]
        BY <1>1, <1>3 DEF Canister
    <2> QED BY <1>1, <1>3, <2>1, <2>2, NoTimerIsNone DEF GoodTimer
<1>5. Good(c, NoTimer)
    BY <1>4 DEF Good
<1> QED BY <1>1, <1>2, <1>5, CommitKeeps

LEMMA SelfCallFailsPreserves ==
    ASSUME IInv, NEW i \in TimerIds, SelfCallFails(i)
    PROVE  IInv'
<1> DEFINE c == [t EXCEPT !.call[i] = "none", !.due = @ \union {i}]
<1>1. t \in Canister /\ Good(t, NoTimer) /\ t.call[i] = "sent" /\ Commit(c)
    BY AtRest DEF SelfCallFails
<1>2. c \in Canister
    BY <1>1 DEF Canister, SelfCall
<1>3. /\ c.due = t.due \union {i}
      /\ c.call = [t.call EXCEPT ![i] = "none"]
      /\ c.task = t.task /\ c.kind = t.kind /\ c.table = t.table
      /\ c.next = t.next /\ c.runs = t.runs /\ c.cleared = t.cleared
    BY <1>1 DEF Canister
<1> HIDE DEF c
<1>4. ASSUME NEW j \in TimerIds PROVE GoodTimer(c, NoTimer, j)
    <2>1. GoodTimer(t, NoTimer, j)
        BY <1>1 DEF Good
    <2>2. c.call[j] = IF j = i THEN "none" ELSE t.call[j]
        BY <1>1, <1>3 DEF Canister
    <2> QED BY <1>1, <1>3, <2>1, <2>2, NoTimerIsNone DEF GoodTimer
<1>5. Good(c, NoTimer)
    BY <1>4 DEF Good
<1> QED BY <1>1, <1>2, <1>5, CommitKeeps

\* A self-call that is answered without having changed its task, if it still had one.
LEMMA AnsweredKeeps ==
    ASSUME IInv, exec = Rest, NEW i \in TimerIds, t.call[i] = "sent",
           NEW answer \in {"replied", "rejected"},
           answer = "replied" => t.task[i] = "none",
           Commit([t EXCEPT !.call[i] = answer])
    PROVE  IInv'
<1> DEFINE c == [t EXCEPT !.call[i] = answer]
<1>1. t \in Canister /\ Good(t, NoTimer)
    BY AtRest
<1>2. c \in Canister
    BY <1>1 DEF Canister, SelfCall
<1>3. /\ c.call = [t.call EXCEPT ![i] = answer]
      /\ c.task = t.task /\ c.kind = t.kind /\ c.table = t.table /\ c.due = t.due
      /\ c.next = t.next /\ c.runs = t.runs /\ c.cleared = t.cleared
    BY <1>1 DEF Canister
<1> HIDE DEF c
<1>4. ASSUME NEW j \in TimerIds PROVE GoodTimer(c, NoTimer, j)
    <2>1. GoodTimer(t, NoTimer, j)
        BY <1>1 DEF Good
    <2>2. c.call[j] = IF j = i THEN answer ELSE t.call[j]
        BY <1>1, <1>3 DEF Canister
    <2> QED BY <1>1, <1>3, <2>1, <2>2, NoTimerIsNone DEF GoodTimer
<1>5. Good(c, NoTimer)
    BY <1>4 DEF Good
<1> QED BY <1>2, <1>5, CommitKeeps DEF c

LEMMA ExecuteTimerPreserves ==
    ASSUME IInv, NEW i \in TimerIds, ExecuteTimer(i)
    PROVE  IInv'
<1>1. t \in Canister /\ Good(t, NoTimer) /\ Good(saved, NoTimer) /\ t = saved
      /\ t.call[i] = "sent" /\ t.task[i] # "none" /\ exec = Rest
    BY AtRest DEF ExecuteTimer, IInv
<1>2. CASE i \notin t.table
    BY <1>1, <1>2, AnsweredKeeps DEF ExecuteTimer
<1>3. CASE i \in t.table
    <2>1. t' = [t EXCEPT !.task[i] = "placeholder"] /\ exec' = [kind |-> "timer", id |-> i]
          /\ UNCHANGED <<saved, refused>>
        BY <1>3 DEF ExecuteTimer
    <2>2. t' \in Canister
        BY <1>1, <2>1 DEF Canister, Task
    <2>3. /\ t'.task = [t.task EXCEPT ![i] = "placeholder"]
          /\ t'.call = t.call /\ t'.kind = t.kind /\ t'.table = t.table /\ t'.due = t.due
          /\ t'.next = t.next /\ t'.runs = t.runs /\ t'.cleared = t.cleared
        BY <1>1, <2>1 DEF Canister
    <2>4. exec'.id = i /\ exec'.kind = "timer" /\ exec' \in Message /\ exec' # Rest
          /\ exec'.id # NoTimer
        BY <2>1, NoTimerIsNone DEF Message, Rest
    <2>5. t.task[i] \in Live
        BY <1>1, NoTimerIsNone DEF Good, GoodTimer, Canister, Task, Live
    <2>6. ASSUME NEW j \in TimerIds PROVE GoodTimer(t', i, j)
        <3>1. GoodTimer(t, NoTimer, j)
            BY <1>1 DEF Good
        <3>2. t'.task[j] = IF j = i THEN "placeholder" ELSE t.task[j]
            BY <1>1, <2>3 DEF Canister
        <3> QED BY <1>1, <1>3, <2>3, <2>5, <3>1, <3>2, NoTimerIsNone DEF GoodTimer, Live
    <2>7. Good(t', i)
        BY <2>6 DEF Good
    <2> QED BY <1>1, <2>1, <2>2, <2>4, <2>7 DEF IInv, TypeOK
<1> QED BY <1>2, <1>3

LEMMA CallbackReturnsPreserves ==
    ASSUME IInv, CallbackReturns
    PROVE  IInv'
<1> DEFINE i == exec.id
           run == IF t.runs[i] = 2 THEN 2 ELSE t.runs[i] + 1
           c == [t EXCEPT !.task[i] = SlotAfterRun(i),
                          !.table = IF t.kind[i] = "once" THEN @ \ {i} ELSE @,
                          !.call[i] = "replied",
                          !.runs[i] = run]
<1>1. t \in Canister /\ Good(t, i) /\ i \in TimerIds
    BY DEF IInv, TypeOK, Message, CallbackReturns
<1>2. Commit(c)
    BY <1>1 DEF CallbackReturns, Canister
<1>3. SlotAfterRun(i) \in {"every", "none"} /\ run \in 0 .. 2
    BY <1>1 DEF SlotAfterRun, Canister
<1>4. /\ c.task = [t.task EXCEPT ![i] = SlotAfterRun(i)]
      /\ c.table = (IF t.kind[i] = "once" THEN t.table \ {i} ELSE t.table)
      /\ c.call = [t.call EXCEPT ![i] = "replied"]
      /\ c.runs = [t.runs EXCEPT ![i] = run]
      /\ c.next = t.next /\ c.kind = t.kind /\ c.due = t.due /\ c.cleared = t.cleared
    BY <1>1 DEF Canister
<1>5. c \in Canister
    BY <1>1, <1>3 DEF Canister, Task, SelfCall
<1> HIDE DEF c
<1>6. ASSUME NEW j \in TimerIds PROVE GoodTimer(c, NoTimer, j)
    <2>1. GoodTimer(t, i, j)
        BY <1>1 DEF Good
    <2>2. CASE j # i
        <3>1. c.task[j] = t.task[j] /\ c.call[j] = t.call[j] /\ c.runs[j] = t.runs[j]
            BY <1>1, <1>4, <2>2 DEF Canister
        <3> QED BY <1>4, <2>1, <2>2, <3>1, NoTimerIsNone DEF GoodTimer
    <2>3. CASE j = i
        <3>1. c.task[j] = SlotAfterRun(i) /\ c.call[j] = "replied" /\ c.runs[j] = run
            BY <1>1, <1>4, <2>3 DEF Canister
        <3>2. t.task[i] \in {"none", "placeholder"} /\ t.kind[i] \in Live
            BY <1>1, <2>1, <2>3 DEF GoodTimer, Canister, Task, Live
        <3> QED BY <1>1, <1>4, <2>1, <2>3, <3>1, <3>2, NoTimerIsNone
                DEF GoodTimer, SlotAfterRun, Live
    <2> QED BY <2>2, <2>3
<1>7. Good(c, NoTimer)
    BY <1>6 DEF Good
<1> QED BY <1>2, <1>5, <1>7, CommitKeeps

LEMMA SelfCallAnsweredPreserves ==
    ASSUME IInv, NEW i \in TimerIds, SelfCallAnswered(i)
    PROVE  IInv'
<1> DEFINE c == [t EXCEPT !.call[i] = "none",
                          !.task[i] = IF t.task[i] = "once" THEN "none" ELSE t.task[i],
                          !.table = IF t.task[i] = "once" THEN @ \ {i} ELSE @,
                          !.due = IF t.task[i] = "every" THEN @ \union {i} ELSE @]
<1>1. t \in Canister /\ Good(t, NoTimer) /\ t.call[i] \in {"replied", "rejected"}
    BY AtRest DEF SelfCallAnswered
<1>2. Commit(c)
    BY <1>1 DEF SelfCallAnswered, Canister
<1>3. /\ c.call = [t.call EXCEPT ![i] = "none"]
      /\ c.task = [t.task EXCEPT ![i] = IF t.task[i] = "once" THEN "none" ELSE t.task[i]]
      /\ c.table = (IF t.task[i] = "once" THEN t.table \ {i} ELSE t.table)
      /\ c.due = (IF t.task[i] = "every" THEN t.due \union {i} ELSE t.due)
      /\ c.next = t.next /\ c.kind = t.kind /\ c.runs = t.runs /\ c.cleared = t.cleared
    BY <1>1 DEF Canister
<1>4. c \in Canister
    BY <1>1 DEF Canister, Task, SelfCall
<1> HIDE DEF c
<1>5. ASSUME NEW j \in TimerIds PROVE GoodTimer(c, NoTimer, j)
    <2>1. GoodTimer(t, NoTimer, j) /\ t.task[j] \in Task
        BY <1>1 DEF Good, Canister
    <2>2. CASE j # i
        <3>1. c.task[j] = t.task[j] /\ c.call[j] = t.call[j]
            BY <1>1, <1>3, <2>2 DEF Canister
        <3> QED BY <1>3, <2>1, <2>2, <3>1, NoTimerIsNone DEF GoodTimer
    <2>3. CASE j = i
        <3>1. c.task[j] = (IF t.task[j] = "once" THEN "none" ELSE t.task[j]) /\ c.call[j] = "none"
            BY <1>1, <1>3, <2>3 DEF Canister
        <3>2. t.task[j] \in {"none", "once", "every"}
            BY <2>1, NoTimerIsNone DEF GoodTimer, Task
        <3> QED BY <1>1, <1>3, <2>1, <2>3, <3>1, <3>2, NoTimerIsNone DEF GoodTimer, Live
    <2> QED BY <2>2, <2>3
<1>6. Good(c, NoTimer)
    BY <1>5 DEF Good
<1> QED BY <1>2, <1>4, <1>6, CommitKeeps

-----------------------------------------------------------------------------
LEMMA NextIInv == IInv /\ [Next]_vars => IInv'
<1> SUFFICES ASSUME IInv, [Next]_vars PROVE IInv'
    OBVIOUS
<1>1. CASE BeginMessage
    BY <1>1, BeginMessagePreserves
<1>2. CASE EndMessage
    BY <1>2, EndMessagePreserves
<1>3. CASE TrapAnywhere
    <2>1. Trap /\ refused' \subseteq TimerIds
        BY <1>3 DEF TrapAnywhere, IInv, TypeOK
    <2> QED BY <2>1, TrapKeeps
<1>4. CASE SetTimer \/ SetTimerInterval
    BY <1>4, SetPreserves DEF Live, SetTimer, SetTimerInterval
<1>5. CASE CallbackReturns
    BY <1>5, CallbackReturnsPreserves
<1>6. ASSUME NEW i \in TimerIds,
             \/ ClearTimer(i) \/ GlobalTimer(i) \/ SelfCallFails(i)
             \/ ExecuteTimer(i) \/ SelfCallAnswered(i)
      PROVE  IInv'
    BY <1>6, ClearTimerPreserves, GlobalTimerPreserves, SelfCallFailsPreserves,
       ExecuteTimerPreserves, SelfCallAnsweredPreserves
<1>7. ASSUME NEW i \in TimerIds, ExecuteNothing(i) PROVE IInv'
    BY <1>7, AnsweredKeeps DEF ExecuteNothing
<1>8. CASE UNCHANGED vars
    BY <1>8 DEF vars, IInv, TypeOK
<1> QED BY <1>1, <1>2, <1>3, <1>4, <1>5, <1>6, <1>7, <1>8 DEF Next

LEMMA SpecIInv == Spec => []IInv
    BY InitIInv, NextIInv, PTL DEF Spec

-----------------------------------------------------------------------------
(* What the invariant says. *)

\* Every variable keeps its type, whatever fires, traps or is cleared.
THEOREM TimersTypeCorrect == Spec => []TypeOK
<1>1. IInv => TypeOK
    BY DEF IInv
<1> QED BY <1>1, SpecIInv, PTL

\* setTimer's scopeguard and clearTimer keep globalThis._azleTimerCallbacks exact:
\* between messages it has one entry per closure in a slot.
THEOREM TimerTableExact == Spec => []TableMatchesTasks
<1>1. IInv => TableMatchesTasks
    <2> SUFFICES ASSUME IInv, exec = Rest
                 PROVE  t.table = {i \in TimerIds : t.task[i] \in Live}
        BY DEF TableMatchesTasks, Live
    <2>1. t \in Canister /\ Good(t, NoTimer)
        BY AtRest
    <2>2. t.table \subseteq TimerIds /\ \A i \in TimerIds : t.task[i] \in Task
        BY <2>1 DEF Canister
    <2>3. \A i \in TimerIds : i \in t.table <=> t.task[i] \in Live
        BY <2>1, <2>2, NoTimerIsNone DEF Good, GoodTimer, Task, Live
    <2> QED BY <2>2, <2>3
<1> QED BY <1>1, SpecIInv, PTL

\* No timer in a slot is dormant, and none has both a deadline and a self-call.
THEOREM TimerHasOneTrigger == Spec => []OneTriggerPerTimer
<1>1. IInv => OneTriggerPerTimer
    BY AtRest DEF OneTriggerPerTimer, Good, GoodTimer
<1> QED BY <1>1, SpecIInv, PTL

\* The callback of setTimer completes at most once.
THEOREM OnceRunsAtMostOnce == Spec => []OnceRunsOnce
<1>1. IInv => OnceRunsOnce
    BY DEF IInv, OnceRunsOnce, Good, GoodTimer
<1> QED BY <1>1, SpecIInv, PTL

\* What clearTimer committed is final: the closure is not entered again.
THEOREM ClearingIsFinal == Spec => ClearedStaysCleared
<1>1. IInv /\ [Next]_vars =>
          [\A i \in TimerIds :
              exec = Rest /\ i \in t.cleared =>
                  /\ exec' # [kind |-> "timer", id |-> i]
                  /\ t.call[i] = "sent" => t'.call[i] # "rejected"]_vars
    <2> SUFFICES ASSUME IInv, Next, exec = Rest, NEW i \in TimerIds, i \in t.cleared
                 PROVE  /\ exec' # [kind |-> "timer", id |-> i]
                        /\ t.call[i] = "sent" => t'.call[i] # "rejected"
        OBVIOUS
    <2>1. t \in Canister /\ t.task[i] = "none"
        BY AtRest DEF Good, GoodTimer
    <2>2. exec.kind = "rest" /\ exec # [kind |-> "timer", id |-> i]
          /\ Rest # [kind |-> "timer", id |-> i]
        BY DEF Rest
    <2>3. CASE BeginMessage
        BY <2>3 DEF BeginMessage
    <2>4. CASE EndMessage \/ TrapAnywhere \/ SetTimer \/ SetTimerInterval \/ CallbackReturns
        BY <2>2, <2>4 DEF EndMessage, TrapAnywhere, SetTimer, SetTimerInterval, Set, CallbackReturns, InJavaScript
    <2>5. ASSUME NEW j \in TimerIds, ClearTimer(j) PROVE FALSE
        BY <2>2, <2>5 DEF ClearTimer, InJavaScript
    <2>6. ASSUME NEW j \in TimerIds,
                 GlobalTimer(j) \/ SelfCallFails(j) \/ ExecuteNothing(j) \/ SelfCallAnswered(j)
          PROVE  exec' = Rest /\ (t.call[i] = "sent" => t'.call[i] # "rejected")
        <3>1. exec' = Rest
            BY <2>6 DEF GlobalTimer, SelfCallFails, ExecuteNothing, SelfCallAnswered, Commit
        <3>2. \E answer \in {"none", "sent", "replied"} : t'.call = [t.call EXCEPT ![j] = answer]
            <4>1. GlobalTimer(j) => t'.call = [t.call EXCEPT ![j] = "none"]
                                    \/ t'.call = [t.call EXCEPT ![j] = "sent"]
                BY <2>1 DEF GlobalTimer, Commit, Canister
            <4>2. SelfCallFails(j) => t'.call = [t.call EXCEPT ![j] = "none"]
                BY <2>1 DEF SelfCallFails, Commit, Canister
            <4>3. ExecuteNothing(j) => t'.call = [t.call EXCEPT ![j] = "replied"]
                BY <2>1 DEF ExecuteNothing, Commit, Canister
            <4>4. SelfCallAnswered(j) => t'.call = [t.call EXCEPT ![j] = "none"]
                BY <2>1 DEF SelfCallAnswered, Commit, Canister
            <4> QED BY <2>6, <4>1, <4>2, <4>3, <4>4
        <3> QED BY <2>1, <3>1, <3>2 DEF Canister
    <2>7. ASSUME NEW j \in TimerIds, ExecuteTimer(j)
          PROVE  /\ exec' # [kind |-> "timer", id |-> i]
                 /\ t.call[i] = "sent" => t'.call[i] # "rejected"
        <3>1. j # i
            BY <2>1, <2>7 DEF ExecuteTimer
        <3>2. exec' # [kind |-> "timer", id |-> i]
            BY <2>2, <2>7, <3>1 DEF ExecuteTimer, Commit
        <3>3. t'.call[i] = t.call[i]
            BY <2>1, <2>7, <3>1 DEF ExecuteTimer, Commit, Canister
        <3> QED BY <3>2, <3>3
    <2> QED BY <2>2, <2>3, <2>4, <2>5, <2>6, <2>7 DEF Next
<1> QED BY <1>1, SpecIInv, PTL DEF Spec, ClearedStaysCleared

-----------------------------------------------------------------------------
(* The contract *)

\* What the message being executed has made of timer i: no more than JavaScript may, and
\* of the timer that is running nothing but its slot.
Since(i) ==
    /\ t.runs[i] = saved.runs[i]
    /\ IF i = exec.id
       THEN t.kind[i] = saved.kind[i] /\ saved.task[i] = saved.kind[i]
       ELSE Contract!MayBecome(Fate(saved, i), Fate(t, i))

CInv == IInv /\ \A i \in TimerIds : Since(i)

LEMMA FateType ==
    ASSUME NEW c \in Canister, NEW i \in TimerIds
    PROVE  Fate(c, i) \in Contract!States
    BY DEF Fate, Canister, Contract!States, Contract!Live

\* Nothing has happened since a commit.
LEMMA SinceCommit ==
    ASSUME t' = saved', exec' = Rest
    PROVE  \A i \in TimerIds : Since(i)'
    BY NoTimerIsNone DEF Since, Rest, Contract!MayBecome

LEMMA SetSince ==
    ASSUME CInv, NEW kind \in Live, Set(kind), NEW i \in TimerIds
    PROVE  Since(i)'
<1> DEFINE n == t.next
<1>1. t \in Canister /\ GoodTimer(t, exec.id, i) /\ Since(i)
    BY DEF CInv, IInv, TypeOK, Good
<1>2. n \in TimerIds /\ n \in Nat
    BY <1>1, MaxTimersAssumption DEF Set, Canister, TimerIds
<1>3. /\ t'.task = [t.task EXCEPT ![n] = kind]
      /\ t'.kind = [t.kind EXCEPT ![n] = kind]
      /\ t'.call = t.call /\ t'.runs = t.runs
      /\ saved' = saved /\ exec' = exec
    BY <1>1 DEF Set, Canister
<1>4. CASE i # n
    <2>1. t'.task[i] = t.task[i] /\ t'.kind[i] = t.kind[i]
        BY <1>1, <1>3, <1>4 DEF Canister
    <2>2. Fate(t', i) = Fate(t, i)
        BY <1>3, <2>1 DEF Fate
    <2> QED BY <1>1, <1>3, <2>1, <2>2 DEF Since
<1>5. CASE i = n
    <2>1. t.kind[i] = "none" /\ t.call[i] = "none" /\ i # exec.id
        BY <1>1, <1>2, <1>5 DEF GoodTimer
    <2>2. Fate(t, i) = "unset"
        BY <2>1 DEF Fate
    <2>3. t'.kind[i] = kind /\ t'.task[i] = kind /\ t'.call[i] = "none"
        BY <1>1, <1>2, <1>3, <1>5, <2>1 DEF Canister
    <2>4. Fate(t', i) \in {"once", "every"}
        BY <2>3 DEF Fate, Live
    <2>5. Fate(saved, i) = "unset"
        BY <1>1, <2>1, <2>2 DEF Since, Contract!MayBecome
    <2> QED BY <1>1, <1>3, <2>1, <2>4, <2>5 DEF Since, Contract!MayBecome
<1> QED BY <1>4, <1>5

LEMMA ClearSince ==
    ASSUME CInv, NEW k \in TimerIds, ClearTimer(k), t.task[k] # "once", NEW i \in TimerIds
    PROVE  Since(i)'
<1>1. t \in Canister /\ GoodTimer(t, exec.id, i) /\ Since(i)
    BY DEF CInv, IInv, TypeOK, Good
<1>0. /\ t' = [t EXCEPT !.task[k] = "none", !.table = @ \ {k}, !.cleared = @ \union {k}]
      /\ UNCHANGED <<saved, exec>>
    BY DEF ClearTimer
<1>2. /\ t'.task = [t.task EXCEPT ![k] = "none"]
      /\ t'.kind = t.kind /\ t'.call = t.call /\ t'.runs = t.runs
      /\ saved' = saved /\ exec' = exec
    BY <1>0, <1>1 DEF Canister
<1>3. CASE i # k
    <2>1. t'.task[i] = t.task[i]
        BY <1>1, <1>2, <1>3 DEF Canister
    <2>2. Fate(t', i) = Fate(t, i)
        BY <1>2, <2>1 DEF Fate
    <2> QED BY <1>1, <1>2, <2>2 DEF Since
<1>4. CASE i = k /\ i = exec.id
    BY <1>1, <1>2, <1>4 DEF Since
<1>5. CASE i = k /\ i # exec.id
    <2>1. t'.task[i] = "none" /\ t'.kind[i] = t.kind[i] /\ t'.call[i] = t.call[i]
        BY <1>1, <1>2, <1>5 DEF Canister
    <2>2. Fate(t', i) = Fate(t, i) \/ (Fate(t, i) = "every" /\ Fate(t', i) = "cleared")
        BY <1>5, <2>1 DEF Fate, ClearTimer
    <2>3. Contract!MayBecome(Fate(saved, i), Fate(t', i))
        BY <1>1, <1>5, <2>2 DEF Since, Contract!MayBecome, Contract!Live
    <2> QED BY <1>1, <1>2, <1>5, <2>3 DEF Since
<1> QED BY <1>3, <1>4, <1>5

LEMMA NextCInv == CInv /\ [Next]_vars => CInv'
<1> SUFFICES ASSUME CInv, [Next]_vars, NEW i \in TimerIds PROVE Since(i)'
    BY NextIInv DEF CInv
<1>1. CASE t' = saved' /\ exec' = Rest
    BY <1>1, SinceCommit
<1>2. CASE EndMessage \/ CallbackReturns \/ TrapAnywhere
    BY <1>1, <1>2 DEF EndMessage, CallbackReturns, TrapAnywhere, Commit, Trap
<1>3. CASE BeginMessage
    <2>1. t' = t /\ saved' = saved /\ exec'.id = NoTimer /\ t = saved /\ i # NoTimer
        BY <1>3, NoTimerIsNone DEF BeginMessage, CInv, IInv
    <2> QED BY <2>1 DEF Since, Contract!MayBecome
<1>4. CASE SetTimer \/ SetTimerInterval
    BY <1>4, SetSince DEF SetTimer, SetTimerInterval, Live
<1>5. ASSUME NEW k \in TimerIds, ClearTimer(k) PROVE Since(i)'
    <2>1. CASE t.task[k] = "once"
        BY <1>1, <1>5, <2>1 DEF ClearTimer, Trap
    <2> QED BY <1>5, <2>1, ClearSince
<1>6. ASSUME NEW k \in TimerIds,
             GlobalTimer(k) \/ SelfCallFails(k) \/ ExecuteNothing(k) \/ SelfCallAnswered(k)
      PROVE  Since(i)'
    BY <1>1, <1>6 DEF GlobalTimer, SelfCallFails, ExecuteNothing, SelfCallAnswered, Commit
<1>7. ASSUME NEW k \in TimerIds, ExecuteTimer(k) PROVE Since(i)'
    <2>1. CASE k \notin t.table
        BY <1>1, <1>7, <2>1 DEF ExecuteTimer, Commit
    <2>2. CASE k \in t.table
        <3>1. t = saved /\ t \in Canister /\ Good(t, NoTimer) /\ k # NoTimer /\ t.task[k] # "none"
            BY <1>7, AtRest, NoTimerIsNone DEF ExecuteTimer, CInv, IInv
        <3>2. /\ t'.task = [t.task EXCEPT ![k] = "placeholder"]
              /\ t'.kind = t.kind /\ t'.call = t.call /\ t'.runs = t.runs
              /\ saved' = saved /\ exec'.id = k
            BY <1>7, <2>2, <3>1 DEF ExecuteTimer, Canister
        <3>3. CASE i = k
            <4>1. t.task[i] = t.kind[i]
                BY <3>1, <3>3 DEF Good, GoodTimer, Live, Canister, Task
            <4> QED BY <3>1, <3>2, <3>3, <4>1 DEF Since
        <3>4. CASE i # k
            <4>1. t'.task[i] = t.task[i]
                BY <3>1, <3>2, <3>4 DEF Canister
            <4>2. Fate(t', i) = Fate(saved, i)
                BY <3>1, <3>2, <4>1 DEF Fate
            <4> QED BY <3>1, <3>2, <3>4, <4>2 DEF Since, Contract!MayBecome
        <3> QED BY <3>3, <3>4
    <2> QED BY <2>1, <2>2
<1>8. CASE UNCHANGED vars
    BY <1>8 DEF vars, Since, CInv
<1> QED BY <1>2, <1>3, <1>4, <1>5, <1>6, <1>7, <1>8 DEF Next

\* What a step does to the timers, as far as a developer can tell: the contract allows
\* no more.
LEMMA ContractStep ==
    ASSUME CInv, CInv', [Next]_vars
    PROVE  [Contract!Next]_(Contract!vars)
<1> DEFINE state == [i \in TimerIds |-> Fate(saved, i)]
<1> USE DEF Contract!vars
<1>1. /\ t \in Canister /\ saved \in Canister /\ exec \in Message /\ saved' \in Canister
      /\ Good(saved, NoTimer) /\ \A i \in TimerIds : Since(i)
    BY DEF CInv, IInv, TypeOK
<1>2. state' \in [TimerIds -> Contract!States]
    BY <1>1, FateType
<1>3. ASSUME saved'.runs = saved.runs, \A i \in TimerIds : Fate(saved', i) = Fate(saved, i)
      PROVE  UNCHANGED Contract!vars
    BY <1>3
<1>4. CASE saved' = saved
    BY <1>4
<1>5. CASE EndMessage
    <2>1. saved' = t /\ exec.id = NoTimer
        BY <1>5 DEF EndMessage, Commit, CInv, IInv
    <2>2. \A i \in TimerIds : /\ t.runs[i] = saved.runs[i]
                              /\ Contract!MayBecome(Fate(saved, i), Fate(t, i))
        BY <1>1, <2>1, NoTimerIsNone DEF Since
    <2>3. saved'.runs = saved.runs
        BY <1>1, <2>1, <2>2 DEF Canister
    <2>4. Contract!Message
        BY <2>1, <2>2, <2>3 DEF Contract!Message
    <2> QED BY <1>2, <2>4 DEF Contract!Next
<1>6. CASE TrapAnywhere \/ \E k \in TimerIds : ClearTimer(k) /\ t.task[k] = "once"
    <2>1. Trap
        BY <1>6 DEF TrapAnywhere, ClearTimer
    <2>2. CASE exec.kind # "timer"
        BY <2>1, <2>2, <1>4 DEF Trap
    <2>3. CASE exec.kind = "timer"
        <3> DEFINE r == exec.id
        <3>1. r \in TimerIds /\ saved' = [saved EXCEPT !.call[r] = "rejected"]
              /\ saved.call[r] = "sent" /\ saved.kind[r] # "none"
            BY <1>1, <2>1, <2>3, NoTimerIsNone
               DEF Trap, CInv, IInv, Message, Good, GoodTimer
        <3>2. /\ saved'.call = [saved.call EXCEPT ![r] = "rejected"]
              /\ saved'.task = saved.task /\ saved'.kind = saved.kind /\ saved'.runs = saved.runs
            BY <1>1, <3>1 DEF Canister
        <3>3. \A i \in TimerIds : i # r => Fate(saved', i) = Fate(saved, i)
            BY <1>1, <3>1, <3>2 DEF Canister, Fate
        <3>4. saved.task[r] = saved.kind[r]
            BY <1>1, <3>1 DEF Since
        <3>5. CASE saved.kind[r] = "every"
            <4>1. Fate(saved', r) = Fate(saved, r)
                BY <3>2, <3>5 DEF Fate
            <4> QED BY <1>3, <3>2, <3>3, <4>1
        <3>6. CASE saved.kind[r] = "once"
            <4>1. Fate(saved, r) = "once" /\ Fate(saved', r) = "failed"
                BY <1>1, <3>1, <3>2, <3>4, <3>6 DEF Fate, Canister
            <4>2. Contract!Fails(r)
                BY <3>1, <3>2, <3>3, <4>1 DEF Contract!Fails
            <4> QED BY <1>2, <3>1, <4>2 DEF Contract!Next
        <3> QED BY <1>1, <3>1, <3>5, <3>6 DEF Canister
    <2> QED BY <2>2, <2>3
<1>7. CASE CallbackReturns
    <2> DEFINE r == exec.id
               run == IF t.runs[r] = 2 THEN 2 ELSE t.runs[r] + 1
    <2>1. r \in TimerIds /\ exec.kind = "timer"
        BY <1>1, <1>7, NoTimerIsNone DEF CallbackReturns, CInv, IInv, Message
    <2>2. saved' = [t EXCEPT !.task[r] = SlotAfterRun(r),
                             !.table = IF t.kind[r] = "once" THEN @ \ {r} ELSE @,
                             !.call[r] = "replied",
                             !.runs[r] = run]
        BY <1>1, <1>7, <2>1 DEF CallbackReturns, Commit, Canister
    <2>3. /\ saved'.task = [t.task EXCEPT ![r] = SlotAfterRun(r)]
          /\ saved'.kind = t.kind
          /\ saved'.call = [t.call EXCEPT ![r] = "replied"]
          /\ saved'.runs = [t.runs EXCEPT ![r] = run]
        BY <1>1, <2>2 DEF Canister
    <2>4. ASSUME NEW i \in TimerIds, i # r
          PROVE  /\ Contract!MayBecome(Fate(saved, i), Fate(saved', i))
                 /\ saved'.runs[i] = saved.runs[i]
        <3>1. Fate(saved', i) = Fate(t, i)
            BY <1>1, <2>1, <2>3, <2>4 DEF Fate, Canister
        <3> QED BY <1>1, <2>1, <2>3, <2>4, <3>1 DEF Since, Canister
    <2>5. t.kind[r] = saved.kind[r] /\ saved.task[r] = saved.kind[r] /\ t.runs[r] = saved.runs[r]
        BY <1>1, <2>1 DEF Since
    <2>6. saved.kind[r] \in Live /\ saved.call[r] = "sent"
        BY <1>1, <2>1, <2>5, NoTimerIsNone DEF CInv, IInv, Good, GoodTimer, Canister, Live
    <2>7. saved'.runs = [saved.runs EXCEPT ![r] = IF @ = 2 THEN 2 ELSE @ + 1]
        BY <1>1, <2>1, <2>3, <2>4, <2>5 DEF Canister
    <2>8. \/ Fate(saved, r) = "once" /\ Fate(saved', r) = "over"
          \/ Fate(saved, r) = "every" /\ Fate(saved', r) \in {"every", "cleared"}
        BY <1>1, <2>1, <2>3, <2>5, <2>6 DEF Fate, SlotAfterRun, Live, Canister
    <2>9. Contract!Completes(r)
        BY <2>1, <2>4, <2>7, <2>8 DEF Contract!Completes
    <2> QED BY <1>2, <2>1, <2>9 DEF Contract!Next
<1>8. CASE BeginMessage \/ SetTimer \/ SetTimerInterval
           \/ \E k \in TimerIds : \/ ClearTimer(k) /\ t.task[k] # "once"
                                  \/ ExecuteTimer(k) /\ k \in t.table
    BY <1>4, <1>8 DEF BeginMessage, SetTimer, SetTimerInterval, Set, ClearTimer, ExecuteTimer
<1>9. ASSUME NEW k \in TimerIds,
             GlobalTimer(k) \/ SelfCallFails(k) \/ ExecuteNothing(k)
      PROVE  [Contract!Next]_(Contract!vars)
    <2>1. t = saved /\ exec = Rest
        BY <1>9 DEF CInv, IInv, GlobalTimer, SelfCallFails, ExecuteNothing
    <2>2. \E answer \in {"none", "sent", "replied"} :
              /\ saved'.call = [saved.call EXCEPT ![k] = answer]
              /\ saved'.task = saved.task /\ saved'.kind = saved.kind /\ saved'.runs = saved.runs
        <3>1. CASE GlobalTimer(k)
            BY <1>1, <2>1, <3>1 DEF GlobalTimer, Commit, Canister
        <3>2. CASE SelfCallFails(k)
            BY <1>1, <2>1, <3>2 DEF SelfCallFails, Commit, Canister
        <3>3. CASE ExecuteNothing(k)
            BY <1>1, <2>1, <3>3 DEF ExecuteNothing, Commit, Canister
        <3> QED BY <1>9, <3>1, <3>2, <3>3
    <2>3. saved.call[k] # "rejected"
        BY <1>1, <1>9, <2>1 DEF GlobalTimer, SelfCallFails, ExecuteNothing, Good, GoodTimer
    <2>4. \A i \in TimerIds : Fate(saved', i) = Fate(saved, i)
        BY <1>1, <2>2, <2>3 DEF Fate, Canister
    <2> QED BY <1>3, <2>2, <2>4
<1>10. ASSUME NEW k \in TimerIds, ExecuteTimer(k), k \notin t.table
       PROVE  FALSE
    BY <1>10, AtRest DEF ExecuteTimer, CInv, Good, GoodTimer
<1>11. ASSUME NEW k \in TimerIds, SelfCallAnswered(k)
       PROVE  [Contract!Next]_(Contract!vars)
    <2>1. t = saved /\ saved.call[k] \in {"replied", "rejected"}
        BY <1>11 DEF CInv, IInv, SelfCallAnswered
    <2>2. saved' = [saved EXCEPT !.call[k] = "none",
                          !.task[k] = IF saved.task[k] = "once" THEN "none" ELSE saved.task[k],
                          !.table = IF saved.task[k] = "once" THEN @ \ {k} ELSE @,
                          !.due = IF saved.task[k] = "every" THEN @ \union {k} ELSE @]
        BY <1>1, <1>11, <2>1 DEF SelfCallAnswered, Commit, Canister
    <2>3. /\ saved'.call = [saved.call EXCEPT ![k] = "none"]
          /\ saved'.task = [saved.task EXCEPT
                                ![k] = IF saved.task[k] = "once" THEN "none" ELSE saved.task[k]]
          /\ saved'.kind = saved.kind /\ saved'.runs = saved.runs
        BY <1>1, <2>2 DEF Canister
    <2>4. \A i \in TimerIds : i # k => Fate(saved', i) = Fate(saved, i)
        BY <1>1, <2>3 DEF Fate, Canister
    <2>5. CASE saved.task[k] # "once"
        <3>1. Fate(saved', k) = Fate(saved, k)
            BY <1>1, <2>3, <2>5 DEF Fate, Canister
        <3> QED BY <1>3, <2>3, <2>4, <3>1
    <2>6. CASE saved.task[k] = "once"
        <3>1. saved.kind[k] = "once" /\ saved.call[k] = "rejected"
            BY <1>1, <2>1, <2>6 DEF Good, GoodTimer, Live
        <3>2. Fate(saved, k) = "failed" /\ Fate(saved', k) = "over"
            BY <1>1, <2>3, <2>6, <3>1 DEF Fate, Canister
        <3>3. Contract!Dropped(k)
            BY <2>3, <2>4, <3>2 DEF Contract!Dropped
        <3> QED BY <1>2, <3>3 DEF Contract!Next
    <2> QED BY <2>5, <2>6
<1>12. CASE UNCHANGED vars
    BY <1>4, <1>12 DEF vars
<1> QED BY <1>5, <1>6, <1>7, <1>8, <1>9, <1>10, <1>11, <1>12 DEF Next

\* ImplementsTimerContract: slots, deadlines, self-calls, callbacks and scopeguards
\* together give each timer no other life than its developer was promised.
THEOREM TimersImplementContract == Spec => ImplementsTimerContract
<1>1. Init => CInv
    BY InitIInv, NoTimerIsNone DEF CInv, Init, Since, Rest, Contract!MayBecome
<1>2. Init => Contract!Init
    BY DEF Init, Empty, Fate, Contract!Init
<1>3. CInv /\ [Next]_vars => CInv'
    BY NextCInv
<1>4. CInv /\ CInv' /\ [Next]_vars => [Contract!Next]_(Contract!vars)
    BY ContractStep
<1> QED BY <1>1, <1>2, <1>3, <1>4, PTL DEF Spec, ImplementsTimerContract, Contract!Spec
=============================================================================
