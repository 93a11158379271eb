---------------------------- MODULE TimerContract ----------------------------
(***************************************************************************)
(* What setTimer, setTimerInterval and clearTimer (lib/ic_apis) promise a  *)
(* developer, seen only where the IC commits the canister's state: there   *)
(* are no slots, deadlines or self-calls here.  Timers implements it.      *)
(***************************************************************************)
EXTENDS Naturals

CONSTANT TimerIds       \* the timers ever set

VARIABLES
    state,      \* what has become of each timer
    runs        \* how often its callback has completed: 2 is twice or more

vars == <<state, runs>>

\* failed: the callback of a one-shot timer trapped, which the canister is yet to hear.
Live == {"once", "every", "failed"}
States == {"unset", "over", "cleared"} \union Live

Init ==
    /\ state = [i \in TimerIds |-> "unset"]
    /\ runs = [i \in TimerIds |-> 0]

\* What the JavaScript of a message may make of a timer: it sets it, clears it, or both.
MayBecome(old, new) ==
    \/ new = old
    \/ old = "unset" /\ new \in {"once", "every", "cleared"}
    \/ old \in Live /\ new = "cleared"

Message ==
    /\ \A i \in TimerIds : MayBecome(state[i], state'[i])
    /\ UNCHANGED runs

\* A callback completes, once and for all if it was set by setTimer.  It is a message as
\* any other to the other timers.
Completes(i) ==
    /\ \/ state[i] = "once" /\ state'[i] = "over"
       \/ state[i] = "every" /\ state'[i] \in {"every", "cleared"}
    /\ runs' = [runs EXCEPT ![i] = IF @ = 2 THEN 2 ELSE @ + 1]
    /\ \A j \in TimerIds \ {i} : MayBecome(state[j], state'[j])

\* A callback that traps changes no timer but its own, and is not called again.
Fails(i) ==
    /\ state[i] = "once"
    /\ state' = [state EXCEPT ![i] = "failed"]
    /\ UNCHANGED runs

Dropped(i) ==
    /\ state[i] = "failed"
    /\ state' = [state EXCEPT ![i] = "over"]
    /\ UNCHANGED runs

Next ==
    /\ state' \in [TimerIds -> States]
    /\ \/ Message
       \/ \E i \in TimerIds : Completes(i) \/ Fails(i) \/ Dropped(i)

Spec == Init /\ [][Next]_vars
=============================================================================
