------------------------------ MODULE Autoreload ------------------------------
(***************************************************************************)
(* Autoreload of an experimental canister: the file watcher on the         *)
(* developer's machine (file_watcher.ts) compiles the sources at every     *)
(* change and sends the JavaScript in chunks; the canister collects them   *)
(* and, once their length is right, starts a new runtime from them         *)
(* (autoreload.rs, initialize_js of init_and_post_upgrade.rs).             *)
(*                                                                         *)
(* Reloads are numbered by their timestamps, which the watcher takes when  *)
(* a compilation ends; a chunk is <<reload, number>>.  JavaScript is a set *)
(* of bytes <<chunk number, offset>>, so that lengths are cardinalities.   *)
(* Chunks are sent without waiting for an answer: they arrive in any order *)
(* or not at all.  Each arrives at most once, as the IC runs a request     *)
(* once.                                                                   *)
(***************************************************************************)
EXTENDS Naturals, Sequences, FiniteSets

CONSTANTS
    MaxEdits,       \* bound: changes to the sources
    MaxDeploys,     \* bound: deployments after the first
    Code            \* what each version of the sources compiles to

Versions == 0 .. MaxEdits
Edits == 1 .. MaxEdits

ASSUME BoundsAssumption == MaxEdits \in Nat /\ MaxDeploys \in Nat
ASSUME CodeAssumption ==
    /\ Code \in [Versions -> SUBSET (Nat \X Nat)]
    /\ \A v \in Versions : IsFiniteSet(Code[v])

VARIABLES
    source,     \* the version of the sources on disk
    watch,      \* the watcher: one asynchronous handler per change
    made,       \* the version each reload was compiled from
    network,    \* chunks on their way
    k,          \* the canister
    deploys,    \* deployments after the first
    lost,       \* history: reloads of which the canister missed a chunk
    newest,     \* history: no chunk of an earlier reload is up to date
    stale       \* history: such a chunk was taken since the last deployment

vars == <<source, watch, made, network, k, deploys, lost, newest, stale>>

Chunk(v, n) == {b \in Code[v] : b[1] = n}
Numbers(v) == {b[1] : b \in Code[v]}
ChunksOf(r) == {r} \X Numbers(made[r])
\* The bytes of chunks put together in the order of their numbers.
Together(chunks) == UNION {Chunk(made[p[1]], p[2]) : p \in chunks}

Idle == [phase |-> "none", version |-> 0]
Deployed == [ts |-> 0, stored |-> {}, running |-> {}]

Canister ==
    [ ts : Nat,                         \* RELOADED_JS_TIMESTAMP
      stored : SUBSET (Nat \X Nat),     \* RELOADED_JS: chunk numbers are its keys
      running : SUBSET (Nat \X Nat) ]   \* the chunks evaluated last; {}: deployed code

Init ==
    /\ source = 0
    /\ watch = [e \in Edits |-> Idle]
    /\ made = <<>>
    /\ network = {}
    /\ k = Deployed
    /\ deploys = 0
    /\ lost = {}
    /\ newest = 1
    /\ stale = FALSE

-----------------------------------------------------------------------------
(* The developer and the watcher *)

\* A file is changed; the watcher's handler for the event starts.
Edit ==
    /\ source < MaxEdits
    /\ source' = source + 1
    /\ watch' = [watch EXCEPT ![source'] = [phase |-> "event", version |-> 0]]
    /\ UNCHANGED <<made, network, k, deploys, lost, newest, stale>>

\* The compiler reads the sources, at any time after the change that started it.
ReadSources(e) ==
    /\ watch[e].phase = "event"
    /\ watch' = [watch EXCEPT ![e] = [phase |-> "compiling", version |-> source]]
    /\ UNCHANGED <<source, made, network, k, deploys, lost, newest, stale>>

\* Mutant: the loop over chunks goes one too far.
SendReloadOneMore(e) ==
    /\ watch[e].phase = "compiling"
    /\ watch' = [watch EXCEPT ![e] = Idle]
    /\ made' = Append(made, watch[e].version)
    /\ network' = network \union ({Len(made) + 1} \X (Numbers(watch[e].version) \union {9}))
    /\ UNCHANGED <<source, k, deploys, lost, newest, stale>>

\* The compilation ends, in any order with the others: the timestamp is taken and
\* every chunk is sent.
SendReload(e) ==
    /\ watch[e].phase = "compiling"
    /\ watch' = [watch EXCEPT ![e] = Idle]
    /\ made' = Append(made, watch[e].version)
    /\ network' = network \union ({Len(made) + 1} \X Numbers(watch[e].version))
    /\ UNCHANGED <<source, k, deploys, lost, newest, stale>>

\* dfx deploy installs the current sources and replaces the watcher; chunks on their
\* way stay so.
Deploy ==
    /\ deploys < MaxDeploys
    /\ deploys' = deploys + 1
    /\ watch' = [e \in Edits |-> Idle]
    /\ k' = Deployed
    /\ newest' = Len(made) + 1
    /\ stale' = FALSE
    /\ UNCHANGED <<source, made, network, lost>>

-----------------------------------------------------------------------------
(* The canister: reload_js *)

\* Mutants: a chunk never clears, or clears its own reload's.
StoredOverOlder(p) == {q \in k.stored : q[2] # p[2]} \union {p}
StoredAlone(p) ==
    {q \in IF p[1] >= k.ts THEN {} ELSE k.stored : q[2] # p[2]} \union {p}

\* Only a greater timestamp clears what is stored; any chunk is then stored.
Stored(p) ==
    {q \in IF p[1] > k.ts THEN {} ELSE k.stored : q[2] # p[2]} \union {p}

\* Mutant: a length off by one.
CompleteOffByOne(p) ==
    Cardinality(Together(Stored(p))) >= Cardinality(Code[made[p[1]]]) - 1

\* The length of all that is stored is that of the reload the chunk belongs to.
Complete(p) ==
    Cardinality(Together(Stored(p))) = Cardinality(Code[made[p[1]]])

Later(a, b) == IF a > b THEN a ELSE b

ReloadJs(p) ==
    /\ p \in network
    /\ network' = network \ {p}
    /\ k' = [ts |-> Later(p[1], k.ts),
             stored |-> Stored(p),
             running |-> IF Complete(p) THEN Stored(p) ELSE k.running]
    /\ newest' = Later(p[1], newest)
    /\ stale' = (stale \/ p[1] < newest)
    /\ UNCHANGED <<source, watch, made, deploys, lost>>

\* The call fails, or the postUpgrade method of the new JavaScript panics and rolls
\* the message back, its chunk included.
ReloadJsFails(p) ==
    /\ p \in network
    /\ network' = network \ {p}
    /\ lost' = lost \union {p[1]}
    /\ UNCHANGED <<source, watch, made, k, deploys, newest, stale>>

-----------------------------------------------------------------------------
Next ==
    \/ Edit
    \/ \E e \in Edits : ReadSources(e) \/ SendReload(e)
    \/ Deploy
    \/ \E p \in network : ReloadJs(p) \/ ReloadJsFails(p)

Spec == Init /\ [][Next]_vars

\* A handler goes on; a chunk arrives or fails.
Fairness ==
    /\ \A e \in Edits : WF_vars(ReadSources(e) \/ SendReload(e))
    /\ WF_vars(\E p \in network : ReloadJs(p) \/ ReloadJsFails(p))

FairSpec == Spec /\ Fairness

-----------------------------------------------------------------------------
(* Properties *)

\* Every variable has its type; what is on its way are chunks of what was compiled.
TypeOK ==
    /\ source \in Versions
    /\ watch \in [Edits -> [phase : {"none", "event", "compiling"}, version : Versions]]
    /\ made \in Seq(Versions)
    /\ network \subseteq UNION {ChunksOf(r) : r \in 1 .. Len(made)}
    /\ k \in Canister
    /\ deploys \in 0 .. MaxDeploys
    /\ lost \subseteq Nat
    /\ newest \in Nat
    /\ stale \in BOOLEAN

\* The canister never runs half of a reload or a mixture of several, in whatever order
\* chunks arrive and whichever are lost, unless a chunk older than one it already took
\* arrives: that one is stored among the newer ones (autoreload.rs).
RunsOneReload ==
    ~stale => \A p \in k.running : k.running = ChunksOf(p[1])

\* What a reload left running is replaced only by a later reload or a deployment: no
\* chunk that arrives late evaluates the JavaScript a second time or brings an earlier
\* reload back.
ReloadsInOrder ==
    [][\A p \in network : ReloadJs(p) /\ Complete(p) /\ ~stale' =>
          \A q \in k.running : q[1] < p[1]]_vars

\* A reload none of whose chunks failed is run, unless a later reload or deployment
\* came meanwhile or an older chunk was taken.
ReloadEndsRunning ==
    \A r \in Edits :
        Len(made) = r ~> \/ Len(made) >= r /\ k.running = ChunksOf(r)
                         \/ r \in lost
                         \/ stale
                         \/ newest > r
=============================================================================
