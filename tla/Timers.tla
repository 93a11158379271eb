------------------------------- MODULE Timers -------------------------------
(***************************************************************************)
(* Timers of an Azle (stable mode) canister: setTimer, setTimerInterval    *)
(* and clearTimer (lib/ic_apis), their Rust closures (ic/set_timer.rs,     *)
(* ic/set_timer_interval.rs, ic/clear_timer.rs) and the library under      *)
(* them, ic-cdk-timers.                                                    *)
(*                                                                         *)
(* ic-cdk-timers keeps a slot map of tasks and a heap of deadlines.  When  *)
(* a deadline has passed the canister calls itself once per task; that     *)
(* call is a message of its own, takes the task's closure out of its slot  *)
(* and runs it.  When the call is answered, in yet another message, a      *)
(* one-shot task is dropped if the closure trapped, and an interval is     *)
(* given its next deadline.                                                *)
(*                                                                         *)
(* Messages are atomic: t is the canister now, saved the canister as of    *)
(* the last commit, to which a trap falls back.  Time is abstract: any     *)
(* deadline may have passed.                                               *)
(***************************************************************************)
EXTENDS Naturals

CONSTANT MaxTimers      \* bound: timers ever set

ASSUME MaxTimersAssumption == MaxTimers \in Nat

TimerIds == 1 .. MaxTimers
NoTimer == 0

VARIABLES
    t,          \* the canister
    saved,      \* the canister as of the last commit
    exec,       \* the message being executed, and the timer it runs
    refused     \* history: timers clearTimer trapped on

vars == <<t, saved, exec, refused>>

\* What a slot holds: the closure of a one-shot timer or of an interval, or the
\* placeholder left while the closure runs.
Task == {"none", "once", "every", "placeholder"}
\* The self-call that runs a timer: in flight, or answered and not yet seen.
SelfCall == {"none", "sent", "replied", "rejected"}

Canister ==
    [ next : Nat \ {0},                     \* the next timer's id
      task : [TimerIds -> Task],            \* slots of ic-cdk-timers
      kind : [TimerIds -> {"none", "once", "every"}],   \* what was asked for
      table : SUBSET TimerIds,              \* keys of globalThis._azleTimerCallbacks
      due : SUBSET TimerIds,                \* timers with a deadline in the heap
      call : [TimerIds -> SelfCall],
      runs : [TimerIds -> 0 .. 2],          \* history: committed runs, 2 for more
      cleared : SUBSET TimerIds ]           \* history: clearTimer was called on them

Message == [kind : {"rest", "js", "timer"}, id : TimerIds \union {NoTimer}]
Rest == [kind |-> "rest", id |-> NoTimer]

\* Mutant: ids start at 0, which is the id clearTimer and friends use for no timer.
EmptyFromZero ==
    [ next |-> 0,
      task |-> [i \in TimerIds |-> "none"],
      kind |-> [i \in TimerIds |-> "none"],
      table |-> {},
      due |-> {},
      call |-> [i \in TimerIds |-> "none"],
      runs |-> [i \in TimerIds |-> 0],
      cleared |-> {} ]

Empty ==
    [ next |-> 1,
      task |-> [i \in TimerIds |-> "none"],
      kind |-> [i \in TimerIds |-> "none"],
      table |-> {},
      due |-> {},
      call |-> [i \in TimerIds |-> "none"],
      runs |-> [i \in TimerIds |-> 0],
      cleared |-> {} ]

Init ==
    /\ t = Empty
    /\ saved = Empty
    /\ exec = Rest
    /\ refused = {}

Commit(c) ==
    /\ t' = c
    /\ saved' = c
    /\ exec' = Rest
    /\ UNCHANGED refused

\* The message traps: the canister falls back, and the self-call of a timer is
\* rejected.
Trap ==
    /\ t' = IF exec.kind = "timer" THEN [saved EXCEPT !.call[exec.id] = "rejected"] ELSE saved
    /\ saved' = t'
    /\ exec' = Rest

-----------------------------------------------------------------------------
(* JavaScript: a canister method, a continuation, or a timer callback *)

InJavaScript == exec.kind \in {"js", "timer"}

\* A message whose code may use timers begins: anything but a timer's own.
BeginMessage ==
    /\ exec = Rest
    /\ exec' = [kind |-> "js", id |-> NoTimer]
    /\ UNCHANGED <<t, saved, refused>>

EndMessage ==
    /\ exec.kind = "js"
    /\ Commit(t)

\* Any JavaScript may trap or throw.
TrapAnywhere ==
    /\ InJavaScript
    /\ Trap
    /\ UNCHANGED refused

\* setTimer and setTimerInterval: the closure goes into a slot, its deadline into
\* the heap, and then the JavaScript callback into the table, under the slot's id.
Set(kind) ==
    /\ InJavaScript
    /\ t.next <= MaxTimers
    /\ t' = [t EXCEPT !.next = @ + 1,
                      !.task[t.next] = kind,
                      !.kind[t.next] = kind,
                      !.due = @ \union {t.next},
                      !.table = @ \union {t.next}]
    /\ UNCHANGED <<saved, exec, refused>>

SetTimer == Set("once")
SetTimerInterval == Set("every")

\* Mutant: clearing deletes the callback but forgets the slot.
ClearTableOnly(i) ==
    /\ InJavaScript
    /\ t.kind[i] # "none"
    /\ t' = [t EXCEPT !.table = @ \ {i}, !.cleared = @ \union {i}]
    /\ UNCHANGED <<saved, exec, refused>>

\* clearTimer: the slot is emptied, which drops the closure in it, and the callback
\* deleted.  The closure of a one-shot timer owns a scopeguard that enters QuickJS,
\* and clearTimer is called from QuickJS: entering it again panics.
ClearTimer(i) ==
    /\ InJavaScript
    /\ t.kind[i] # "none"
    /\ IF t.task[i] = "once"
       THEN Trap /\ refused' = refused \union {i}
       ELSE /\ t' = [t EXCEPT !.task[i] = "none",
                              !.table = @ \ {i},
                              !.cleared = @ \union {i}]
            /\ UNCHANGED <<saved, exec, refused>>

-----------------------------------------------------------------------------
(* ic-cdk-timers and the Rust closures *)

\* canister_global_timer: a deadline passed; the canister calls itself for the
\* task if there still is one.
GlobalTimer(i) ==
    /\ exec = Rest
    /\ i \in t.due
    /\ Commit([t EXCEPT !.due = @ \ {i},
                        !.call[i] = IF t.task[i] = "none" THEN "none" ELSE "sent"])

\* The self-call fails for a transient reason and is not executed: a new deadline.
SelfCallFails(i) ==
    /\ exec = Rest
    /\ t.call[i] = "sent"
    /\ Commit([t EXCEPT !.call[i] = "none", !.due = @ \union {i}])

\* timer_executor for a timer cleared while the self-call was in flight.
ExecuteNothing(i) ==
    /\ exec = Rest
    /\ t.call[i] = "sent"
    /\ t.task[i] = "none"
    /\ Commit([t EXCEPT !.call[i] = "replied"])

\* timer_executor takes the closure out of its slot; the closure looks its
\* callback up in the table and runs it.
ExecuteTimer(i) ==
    /\ exec = Rest
    /\ t.call[i] = "sent"
    /\ t.task[i] # "none"
    /\ IF i \in t.table
       THEN /\ t' = [t EXCEPT !.task[i] = "placeholder"]
            /\ exec' = [kind |-> "timer", id |-> i]
            /\ UNCHANGED <<saved, refused>>
       ELSE Commit([t EXCEPT !.call[i] = "rejected"])

\* The slot once its closure has run: a one-shot closure is gone, an interval's is
\* put back unless its timer was cleared meanwhile.
SlotAfterRun(i) ==
    IF t.kind[i] = "every" /\ t.task[i] = "placeholder" THEN "every" ELSE "none"

\* Mutant: the one-shot closure has no scopeguard.
CallbackReturnsWithoutGuard ==
    /\ exec.kind = "timer"
    /\ LET i == exec.id IN
       Commit([t EXCEPT !.task[i] = SlotAfterRun(i),
                        !.call[i] = "replied",
                        !.runs[i] = IF @ = 2 THEN 2 ELSE @ + 1])

\* Mutant: the closure of a one-shot timer is kept as if it were an interval's.
CallbackReturnsKeepsClosure ==
    /\ exec.kind = "timer"
    /\ LET i == exec.id IN
       Commit([t EXCEPT !.task[i] = IF @ = "placeholder" THEN "every" ELSE "none",
                        !.call[i] = "replied",
                        !.runs[i] = IF @ = 2 THEN 2 ELSE @ + 1])

\* The callback returns and the closure ends; with a one-shot closure ends its
\* scopeguard, which deletes the callback.
CallbackReturns ==
    /\ exec.kind = "timer"
    /\ LET i == exec.id IN
       Commit([t EXCEPT !.task[i] = SlotAfterRun(i),
                        !.table = IF t.kind[i] = "once" THEN @ \ {i} ELSE @,
                        !.call[i] = "replied",
                        !.runs[i] = IF @ = 2 THEN 2 ELSE @ + 1])

\* Mutant: a timer whose closure trapped is tried again.
SelfCallAnsweredRetries(i) ==
    /\ exec = Rest
    /\ t.call[i] \in {"replied", "rejected"}
    /\ Commit([t EXCEPT !.call[i] = "none",
                        !.due = IF t.task[i] # "none" THEN @ \union {i} ELSE @])

\* Mutant: an interval that trapped gets no new deadline.
SelfCallAnsweredOnce(i) ==
    /\ exec = Rest
    /\ t.call[i] \in {"replied", "rejected"}
    /\ Commit([t EXCEPT !.call[i] = "none",
                        !.task[i] = IF @ = "once" THEN "none" ELSE @,
                        !.table = IF t.task[i] = "once" THEN @ \ {i} ELSE @,
                        !.due = IF t.task[i] = "every" /\ t.call[i] = "replied"
                                THEN @ \union {i} ELSE @])

\* The answer to the self-call: a one-shot closure still in its slot has trapped
\* and is dropped, its scopeguard deleting the callback; an interval goes on.
SelfCallAnswered(i) ==
    /\ exec = Rest
    /\ t.call[i] \in {"replied", "rejected"}
    /\ Commit([t EXCEPT !.call[i] = "none",
                        !.task[i] = IF @ = "once" THEN "none" ELSE @,
                        !.table = IF t.task[i] = "once" THEN @ \ {i} ELSE @,
                        !.due = IF t.task[i] = "every" THEN @ \union {i} ELSE @])

-----------------------------------------------------------------------------
Next ==
    \/ BeginMessage
    \/ EndMessage
    \/ TrapAnywhere
    \/ SetTimer
    \/ SetTimerInterval
    \/ CallbackReturns
    \/ \E i \in TimerIds :
        \/ ClearTimer(i)
        \/ GlobalTimer(i)
        \/ SelfCallFails(i)
        \/ ExecuteNothing(i)
        \/ ExecuteTimer(i)
        \/ SelfCallAnswered(i)

Spec == Init /\ [][Next]_vars

\* A message ends; the IC fires a timer whose deadline passed, delivers a self-call
\* that does not fail for ever, and delivers its answer, however busy the canister.
Fairness ==
    /\ WF_vars(EndMessage \/ CallbackReturns \/ TrapAnywhere)
    /\ \A i \in TimerIds :
        /\ SF_vars(GlobalTimer(i))
        /\ SF_vars(ExecuteTimer(i) \/ ExecuteNothing(i))
        /\ SF_vars(SelfCallAnswered(i))

FairSpec == Spec /\ Fairness

-----------------------------------------------------------------------------
(* Properties *)

\* Every variable has its type.
TypeOK ==
    /\ t \in Canister
    /\ saved \in Canister
    /\ exec \in Message
    /\ refused \subseteq TimerIds

\* Between messages the table of callbacks has an entry for every timer that still
\* has a closure and for no other: none leaks when a callback returns, traps or
\* clears itself, and no closure can miss its callback (ic/set_timer.rs).
TableMatchesTasks ==
    exec = Rest => t.table = {i \in TimerIds : t.task[i] \in {"once", "every"}}

\* Between messages a closure in a slot has exactly one thing that will run it or
\* see it through: a deadline, or a self-call.  No timer is dormant or doubled.
OneTriggerPerTimer ==
    exec = Rest =>
        \A i \in TimerIds :
            /\ t.task[i] # "none" => (i \in t.due <=> t.call[i] = "none")
            /\ i \in t.due => t.call[i] = "none"

\* A one-shot timer runs at most once, whatever traps and is retried.
OnceRunsOnce == \A i \in TimerIds : t.kind[i] = "once" => t.runs[i] <= 1

\* What has become of timer i in canister c, to a developer.
Fate(c, i) ==
    CASE c.kind[i] = "none" -> "unset"
      [] c.kind[i] = "every" -> IF c.task[i] = "every" THEN "every" ELSE "cleared"
      [] c.kind[i] = "once" ->
            IF c.task[i] # "once" THEN "over"
            ELSE IF c.call[i] = "rejected" THEN "failed" ELSE "once"

\* The table of callbacks, the slots, the deadlines and the self-calls together keep the
\* promises of setTimer, setTimerInterval and clearTimer (lib/ic_apis): a timer runs only
\* after it was set and until it is cleared, a one-shot timer completes once, and it ends
\* without that only because its callback trapped.
Contract == INSTANCE TimerContract WITH
    state <- [i \in TimerIds |-> Fate(saved, i)], runs <- saved.runs
ImplementsTimerContract == Contract!Spec

\* A timer whose clearing was committed never starts again, not even to trap for want
\* of its callback (clear_timer.ts, ic/clear_timer.rs), wherever its self-call was.
ClearedStaysCleared ==
    [][\A i \in TimerIds :
          exec = Rest /\ i \in t.cleared =>
              /\ exec' # [kind |-> "timer", id |-> i]
              /\ t.call[i] = "sent" => t'.call[i] # "rejected"]_vars

\* A one-shot timer does not stay in the table for ever: it runs, traps or is cleared.
OnceEnds ==
    \A i \in TimerIds : saved.task[i] = "once" ~> saved.task[i] = "none"

\* An interval that is not cleared is run again and again, traps or not.
IntervalGoesOn ==
    \A i \in TimerIds :
        saved.task[i] = "every" ~>
            exec = [kind |-> "timer", id |-> i] \/ i \in saved.cleared

\* clear_timer.ts: "Cancels a timer previously created with `setTimer` or
\* `setTimerInterval`": it does not trap instead.
ClearTimerCancels == refused = {}
=============================================================================
