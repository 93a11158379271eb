---------------------------- MODULE CallContract ----------------------------
(***************************************************************************)
(* What `call` (lib/ic_apis/call.ts) promises a developer, seen only at    *)
(* the points where the IC commits the canister's state: what has become   *)
(* of every promise.  InterCanisterCalls implements it.                    *)
(***************************************************************************)
CONSTANT Ids            \* the promises `call` ever returns

VARIABLE outcome

Outcomes == {"unissued", "queued", "pending", "resolved", "rejected", "cleanup", "lost"}

Init == outcome = [i \in Ids |-> "unissued"]

\* main.js is evaluated: the calls of the module itself are only queued.
ModuleEvaluated ==
    /\ \A i \in Ids : outcome[i] = "unissued"
    /\ \E queued \in SUBSET Ids :
          outcome' = [i \in Ids |-> IF i \in queued THEN "queued" ELSE "unissued"]

\* A message commits.  It issues calls, or has them refused at once, and settles
\* at most one promise that was pending before: the one its response is for.
MessageCommits ==
    \E settled \in SUBSET Ids :
        /\ \A i, j \in settled : i = j
        /\ \A i \in Ids :
              \/ /\ i \in settled
                 /\ outcome[i] = "pending"
                 /\ outcome'[i] \in {"resolved", "rejected", "cleanup"}
              \/ /\ i \notin settled
                 /\ outcome[i] \in {"unissued", "queued"}
                 /\ outcome'[i] \in {"pending", "rejected"}
              \/ i \notin settled /\ outcome'[i] = outcome[i]

\* A reply or reject callback traps and so does its cleanup callback: the
\* promise never settles, and nothing else that either of them did remains.
CleanupTraps ==
    \E i \in Ids :
        /\ outcome[i] = "pending"
        /\ outcome' = [outcome EXCEPT ![i] = "lost"]

Next == ModuleEvaluated \/ MessageCommits \/ CleanupTraps

Spec == Init /\ [][Next]_outcome
=============================================================================
